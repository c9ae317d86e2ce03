----------------------------- MODULE RingBuffer -----------------------------
(***************************************************************************)
(* src/src/sync/ringbuffer.rs: the lock-free ring between a stream task    *)
(* (write) and the DAC interrupt (read_in_place).                          *)
(*                                                                         *)
(* An operation loads both indices once, works on the slices they give,    *)
(* slot by slot, and stores its own index at the end.  The other side runs *)
(* between any two of these steps, so the other's index may be stale.      *)
(***************************************************************************)
EXTENDS Naturals, Sequences

CONSTANTS
  N,                 \* slots
  MaxChunk,          \* bound: frames offered or wanted by one call
  MaxItems           \* bound: frames written per behaviour

ASSUME RingAssumption == N \in Nat \ {0} /\ MaxChunk \in Nat /\ MaxItems \in Nat

VARIABLES
  reader, writer,    \* the two atomic indices
  buffer,
  w, r,              \* the operation the writer and the reader are inside of
  got,               \* frames the reader has copied out of its slices
  made,              \* frames written so far
  out                \* the batch the last read returned

vars == <<reader, writer, buffer, w, r, got, made, out>>

Slots == 0 .. N - 1

(* An operation: its left slice, all its slots, how many it copies, how far *)
(* it is.                                                                   *)
Idle == [busy |-> FALSE, left |-> 0, avail |-> 0, n |-> 0, done |-> 0]

Op == [busy : BOOLEAN, left : 0 .. N, avail : 0 .. N, n : 0 .. N, done : 0 .. N]

TypeOK ==
  /\ reader \in Slots /\ writer \in Slots
  /\ buffer \in [Slots -> 0 .. MaxItems]
  /\ w \in Op /\ r \in Op
  /\ made \in 0 .. MaxItems
  /\ got \in Seq(0 .. MaxItems)
  /\ out \in Seq(0 .. MaxItems)

(* Frames between two indices, equal indices meaning none.                 *)
Dist(from, to) == IF from <= to THEN to - from ELSE N - from + to

(* new_with_buffer                                                         *)
Init ==
  /\ reader = 0 /\ writer = 0
  /\ buffer = [s \in Slots |-> 0]
  /\ w = Idle /\ r = Idle
  /\ made = 0
  /\ got = <<>> /\ out = <<>>

----------------------------------------------------------------------------
(* Slices *)

Lengths(left, right) == [left |-> left, avail |-> left + right]

(* Defect: equal indices taken for a full ring.                            *)
ReaderSlicesFull(start, end) ==
  IF start < end THEN Lengths(end - start, 0) ELSE Lengths(N - start, end)

ReaderSlices(start, end) ==
  IF start <= end THEN Lengths(end - start, 0) ELSE Lengths(N - start, end)

WriterSlices(start, end) ==
  IF start < end THEN Lengths(end - start, 0) ELSE Lengths(N - start, end)

(* Where frame k of the two slices lies: in the left one, which begins at   *)
(* start, or in the right one, which begins at slot 0.                      *)
SlotOf(start, op, k) == IF k < op.left THEN start + k ELSE k - op.left

SmallerOf(a, b) == IF a < b THEN a ELSE b

----------------------------------------------------------------------------
(* The writer *)

(* write never fills the ring: reader = writer means it is empty.          *)
RoomFor(len, avail) ==
  IF len < avail THEN len ELSE IF avail = 0 THEN 0 ELSE avail - 1

(* write, up to the slices.                                                *)
BeginWrite(len) ==
  /\ ~w.busy
  /\ made + len <= MaxItems
  /\ LET s == WriterSlices(writer, reader)
     IN  w' = [busy |-> TRUE, left |-> s.left, avail |-> s.avail,
               n |-> RoomFor(len, s.avail), done |-> 0]
  /\ UNCHANGED <<reader, writer, buffer, r, got, made, out>>

(* One frame of copy_to_split.                                             *)
WriteSlot ==
  /\ w.busy /\ w.done < w.n
  /\ buffer' = [buffer EXCEPT ![SlotOf(writer, w, w.done)] = made + w.done + 1]
  /\ w' = [w EXCEPT !.done = @ + 1]
  /\ UNCHANGED <<reader, writer, r, got, made, out>>

EndWrite ==
  /\ w.busy /\ w.done = w.n
  /\ writer' = (writer + w.n) % N
  /\ made' = made + w.n
  /\ w' = Idle
  /\ UNCHANGED <<reader, buffer, r, got, out>>

----------------------------------------------------------------------------
(* The reader *)

(* read_in_place, up to the slices; the callback of the DAC interrupt and   *)
(* copy_from_split both take as much as fits their output.                  *)
BeginRead(len) ==
  /\ ~r.busy
  /\ LET s == ReaderSlices(reader, writer)
     IN  r' = [busy |-> TRUE, left |-> s.left, avail |-> s.avail,
               n |-> SmallerOf(len, s.avail), done |-> 0]
  /\ UNCHANGED <<reader, writer, buffer, w, got, made, out>>

(* One frame of the copy.                                                  *)
ReadSlot ==
  /\ r.busy /\ r.done < r.n
  /\ got' = Append(got, buffer[SlotOf(reader, r, r.done)])
  /\ r' = [r EXCEPT !.done = @ + 1]
  /\ UNCHANGED <<reader, writer, buffer, w, made, out>>

(* Defect: the index moves past everything seen, copied or not.            *)
EndReadAll ==
  /\ r.busy /\ r.done = r.n
  /\ reader' = (reader + r.avail) % N
  /\ out' = got
  /\ got' = <<>>
  /\ r' = Idle
  /\ UNCHANGED <<writer, buffer, w, made>>

EndRead ==
  /\ r.busy /\ r.done = r.n
  /\ reader' = (reader + r.n) % N
  /\ out' = got
  /\ got' = <<>>
  /\ r' = Idle
  /\ UNCHANGED <<writer, buffer, w, made>>

----------------------------------------------------------------------------
(* Dac::new, with no reader and no writer *)

(* reset: both stores.                                                     *)
Reset ==
  /\ ~w.busy /\ ~r.busy
  /\ reader' = 0
  /\ writer' = 0
  /\ UNCHANGED <<buffer, w, r, got, made, out>>

(* fill: silence in every slot the slices give, all but one of them shown. *)
Fill ==
  /\ ~w.busy /\ ~r.busy
  /\ LET s == WriterSlices(writer, reader)
     IN  /\ buffer' = [b \in Slots |->
                         IF \E k \in 0 .. s.avail - 1 : SlotOf(writer, s, k) = b
                         THEN 0 ELSE buffer[b]]
         /\ writer' = (writer + RoomFor(s.avail, s.avail)) % N
  /\ UNCHANGED <<reader, w, r, got, made, out>>

WriterNext == (\E len \in 0 .. MaxChunk : BeginWrite(len)) \/ WriteSlot \/ EndWrite
ReaderNext == (\E len \in 0 .. MaxChunk : BeginRead(len)) \/ ReadSlot \/ EndRead

Next == WriterNext \/ ReaderNext \/ Reset \/ Fill

Spec == Init /\ [][Next]_vars

----------------------------------------------------------------------------
(* Properties *)

(* The slots an operation holds references to: &mut for the writer (the     *)
(* whole free area, not only what it fills), & for the reader.              *)
Held(start, op) == {SlotOf(start, op, k) : k \in 0 .. op.avail - 1}

(* However stale the other's index was, the two sides never hold a slot in  *)
(* common: no data race, and no aliasing of a mutable reference.            *)
SlicesDisjoint ==
  w.busy /\ r.busy => Held(writer, w) \cap Held(reader, r) = {}

(* write's own rule: "we need to never fill up the entire ringbuffer, since *)
(* reader == writer indicates that it is empty", at the moment the write    *)
(* shows, wherever the reader has got to by then.                           *)
NeverFilled == w.busy => Dist(reader, writer) + w.n < N

(* The ring is a bounded first-in first-out queue of N - 1 frames.          *)
Contents == [i \in 1 .. Dist(reader, writer) |-> buffer[(reader + i - 1) % N]]

Fifo == INSTANCE BoundedFifo WITH Room <- N - 1, chan <- Contents

FifoSpec == Fifo!Spec
=============================================================================
