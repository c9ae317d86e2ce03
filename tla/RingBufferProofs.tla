-------------------------- MODULE RingBufferProofs --------------------------
(***************************************************************************)
(* RingBuffer for every size: the two sides never share a slot, the ring   *)
(* is never filled, whatever the staleness of the indices they read, and   *)
(* all of it together is a bounded first-in first-out queue.               *)
(***************************************************************************)
EXTENDS RingBuffer, SequenceTheorems, TLAPS

(* Indices below 2N wrap by one subtraction.                               *)
LEMMA Wrap ==
  ASSUME NEW x \in 0 .. (N + N - 1)
  PROVE  x % N = (IF x < N THEN x ELSE x - N) /\ x % N \in Slots
<1>1. N \in Nat \ {0}
  BY RingAssumption
<1>2. CASE x < N
  <2>1. x \in 0 .. (N - 1)
    BY <1>1, <1>2
  <2>2. x % N = x
    BY <1>1, <2>1
  <2> QED BY <1>2, <2>1, <2>2 DEF Slots
<1>3. CASE x >= N
  <2>1. x \in N .. (N + N - 1)
    BY <1>1, <1>3
  <2>2. x % N = x - N
    BY <1>1, <2>1
  <2> QED BY <1>1, <1>3, <2>1, <2>2 DEF Slots
<1> QED BY <1>1, <1>2, <1>3

(* The two slices of an operation are consecutive slots from start on,      *)
(* wrapping once.                                                           *)
SlicesFrom(start, op) ==
  \/ op.left = op.avail /\ start + op.avail <= N
  \/ op.left = N - start /\ op.left <= op.avail

WriterOK ==
  /\ w \in Op
  /\ w.busy =>
       /\ SlicesFrom(writer, w)
       /\ w.avail <= N - Dist(reader, writer)
       /\ w.n = 0 \/ w.n < w.avail

ReaderOK ==
  /\ r \in Op
  /\ r.busy =>
       /\ SlicesFrom(reader, r)
       /\ r.avail <= Dist(reader, writer)
       /\ r.n <= r.avail

IInv == reader \in Slots /\ writer \in Slots /\ WriterOK /\ ReaderOK

USE RingAssumption DEF Slots, Op, Idle

LEMMA DistType ==
  ASSUME NEW a \in Slots, NEW b \in Slots
  PROVE  Dist(a, b) \in Slots /\ Dist(a, a) = 0
BY DEF Dist

(* Moving the far index on by n adds n; moving the near one takes n off.   *)
LEMMA DistForward ==
  ASSUME NEW a \in Slots, NEW b \in Slots, NEW n \in Slots, Dist(a, b) + n < N
  PROVE  (b + n) % N \in Slots /\ Dist(a, (b + n) % N) = Dist(a, b) + n
<1>1. /\ b + n \in 0 .. (N + N - 1)
      /\ (b + n) % N = (IF b + n < N THEN b + n ELSE b + n - N)
      /\ (b + n) % N \in Slots
  BY Wrap
<1>2. CASE a <= b
  BY <1>1, <1>2 DEF Dist
<1>3. CASE a > b
  BY <1>1, <1>3 DEF Dist
<1> QED BY <1>1, <1>2, <1>3

LEMMA DistBack ==
  ASSUME NEW a \in Slots, NEW b \in Slots, NEW n \in Slots, n <= Dist(a, b)
  PROVE  (a + n) % N \in Slots /\ Dist((a + n) % N, b) = Dist(a, b) - n
<1>1. /\ a + n \in 0 .. (N + N - 1)
      /\ (a + n) % N = (IF a + n < N THEN a + n ELSE a + n - N)
      /\ (a + n) % N \in Slots
  BY Wrap
<1>2. CASE a <= b
  BY <1>1, <1>2 DEF Dist
<1>3. CASE a > b
  BY <1>1, <1>3 DEF Dist
<1> QED BY <1>1, <1>2, <1>3

(* reader_slices covers what is stored, writer_slices what is free.        *)
LEMMA SlicesType ==
  ASSUME NEW a \in Slots, NEW b \in Slots
  PROVE  /\ ReaderSlices(a, b).left \in 0 .. N
         /\ ReaderSlices(a, b).avail = Dist(a, b)
         /\ SlicesFrom(a, ReaderSlices(a, b))
         /\ WriterSlices(b, a).left \in 0 .. N
         /\ WriterSlices(b, a).avail = N - Dist(a, b)
         /\ SlicesFrom(b, WriterSlices(b, a))
<1>1. CASE a <= b
  BY <1>1 DEF Dist, ReaderSlices, WriterSlices, Lengths, SlicesFrom
<1>2. CASE a > b
  BY <1>2 DEF Dist, ReaderSlices, WriterSlices, Lengths, SlicesFrom
<1> QED BY <1>1, <1>2

LEMMA RoomType ==
  ASSUME NEW len \in Nat, NEW avail \in 0 .. N
  PROVE  /\ RoomFor(len, avail) \in 0 .. N
         /\ RoomFor(len, avail) = 0 \/ RoomFor(len, avail) < avail
         /\ SmallerOf(len, avail) \in 0 .. N
         /\ SmallerOf(len, avail) <= avail
BY DEF RoomFor, SmallerOf

LEMMA InvInit == Init => IInv
BY DEF Init, IInv, WriterOK, ReaderOK

LEMMA InvStep == IInv /\ [Next]_vars => IInv'
<1> SUFFICES ASSUME IInv, [Next]_vars PROVE IInv'
  OBVIOUS
<1>0. /\ reader \in Slots /\ writer \in Slots /\ w \in Op /\ r \in Op
      /\ Dist(reader, writer) \in Slots
  BY DistType DEF IInv, WriterOK, ReaderOK
<1>1. ASSUME NEW len \in 0 .. MaxChunk, BeginWrite(len) PROVE IInv'
  <2> DEFINE s == WriterSlices(writer, reader)
  <2>1. s.left \in 0 .. N /\ s.avail = N - Dist(reader, writer) /\ SlicesFrom(writer, s)
    BY <1>0, SlicesType
  <2>2. s.avail \in 0 .. N /\ len \in Nat
    BY <1>0, <2>1
  <2>3. /\ RoomFor(len, s.avail) \in 0 .. N
        /\ RoomFor(len, s.avail) = 0 \/ RoomFor(len, s.avail) < s.avail
    BY <2>2, RoomType
  <2> HIDE DEF s
  <2>4. /\ w' = [busy |-> TRUE, left |-> s.left, avail |-> s.avail,
                 n |-> RoomFor(len, s.avail), done |-> 0]
        /\ UNCHANGED <<reader, writer, r>>
    BY <1>1 DEF BeginWrite, s
  <2>5. WriterOK'
    BY <1>0, <2>1, <2>2, <2>3, <2>4 DEF WriterOK, SlicesFrom, Dist
  <2> QED BY <2>4, <2>5 DEF IInv, ReaderOK, SlicesFrom, Dist
<1>2. CASE WriteSlot
  <2>1. w' = [w EXCEPT !.done = w.done + 1] /\ w.done < w.n /\ UNCHANGED <<reader, writer, r>>
    BY <1>2 DEF WriteSlot
  <2>2. WriterOK'
    BY <1>0, <2>1 DEF IInv, WriterOK, SlicesFrom, Dist
  <2> QED BY <2>1, <2>2 DEF IInv, ReaderOK, SlicesFrom, Dist
<1>3. CASE EndWrite
  <2>1. writer' = (writer + w.n) % N /\ w' = Idle /\ UNCHANGED <<reader, r>>
    BY <1>3 DEF EndWrite
  <2>2. w.n \in Slots /\ Dist(reader, writer) + w.n < N
    BY <1>0, <1>3 DEF EndWrite, IInv, WriterOK
  <2>3. writer' \in Slots /\ Dist(reader, writer') = Dist(reader, writer) + w.n
    BY <1>0, <2>1, <2>2, DistForward
  <2>4. ReaderOK'
    BY <1>0, <2>1, <2>2, <2>3 DEF IInv, ReaderOK, SlicesFrom
  <2> QED BY <2>1, <2>3, <2>4 DEF IInv, WriterOK
<1>4. ASSUME NEW len \in 0 .. MaxChunk, BeginRead(len) PROVE IInv'
  <2> DEFINE s == ReaderSlices(reader, writer)
  <2>1. s.left \in 0 .. N /\ s.avail = Dist(reader, writer) /\ SlicesFrom(reader, s)
    BY <1>0, SlicesType
  <2>2. s.avail \in 0 .. N /\ len \in Nat
    BY <1>0, <2>1
  <2>3. SmallerOf(len, s.avail) \in 0 .. N /\ SmallerOf(len, s.avail) <= s.avail
    BY <2>2, RoomType
  <2> HIDE DEF s
  <2>4. /\ r' = [busy |-> TRUE, left |-> s.left, avail |-> s.avail,
                 n |-> SmallerOf(len, s.avail), done |-> 0]
        /\ UNCHANGED <<reader, writer, w>>
    BY <1>4 DEF BeginRead, s
  <2>5. ReaderOK'
    BY <1>0, <2>1, <2>2, <2>3, <2>4 DEF ReaderOK, SlicesFrom, Dist
  <2> QED BY <2>4, <2>5 DEF IInv, WriterOK, SlicesFrom, Dist
<1>5. CASE ReadSlot
  <2>1. r' = [r EXCEPT !.done = r.done + 1] /\ r.done < r.n /\ UNCHANGED <<reader, writer, w>>
    BY <1>5 DEF ReadSlot
  <2>2. ReaderOK'
    BY <1>0, <2>1 DEF IInv, ReaderOK, SlicesFrom, Dist
  <2> QED BY <2>1, <2>2 DEF IInv, WriterOK, SlicesFrom, Dist
<1>6. CASE EndRead
  <2>1. reader' = (reader + r.n) % N /\ r' = Idle /\ UNCHANGED <<writer, w>>
    BY <1>6 DEF EndRead
  <2>2. r.n \in Slots /\ r.n <= Dist(reader, writer)
    BY <1>0, <1>6 DEF EndRead, IInv, ReaderOK
  <2>3. reader' \in Slots /\ Dist(reader', writer) = Dist(reader, writer) - r.n
    BY <1>0, <2>1, <2>2, DistBack
  <2>4. WriterOK'
    BY <1>0, <2>1, <2>2, <2>3 DEF IInv, WriterOK, SlicesFrom
  <2> QED BY <2>1, <2>3, <2>4 DEF IInv, ReaderOK
<1>7. CASE Reset
  <2>1. reader' \in Slots /\ writer' \in Slots /\ UNCHANGED <<w, r>> /\ ~w.busy /\ ~r.busy
    BY <1>7 DEF Reset
  <2> QED BY <1>0, <2>1 DEF IInv, WriterOK, ReaderOK
<1>8. CASE Fill
  <2> DEFINE n == RoomFor(N - Dist(reader, writer), N - Dist(reader, writer))
  <2>1. N - Dist(reader, writer) \in 1 .. N
    BY <1>0
  <2>2. n \in Slots /\ Dist(reader, writer) + n < N
    BY <1>0, <2>1 DEF RoomFor
  <2>3. writer' = (writer + n) % N /\ ~w.busy /\ ~r.busy /\ UNCHANGED <<reader, w, r>>
    <3>1. WriterSlices(writer, reader).avail = N - Dist(reader, writer)
      BY <1>0, SlicesType
    <3> QED BY <1>8, <3>1 DEF Fill
  <2> HIDE DEF n
  <2>4. writer' \in Slots
    BY <1>0, <2>2, <2>3, DistForward
  <2> QED BY <1>0, <2>3, <2>4 DEF IInv, WriterOK, ReaderOK
<1>9. CASE UNCHANGED vars
  BY <1>9 DEF vars, IInv, WriterOK, ReaderOK, SlicesFrom, Dist
<1> QED
  BY <1>1, <1>2, <1>3, <1>4, <1>5, <1>6, <1>7, <1>8, <1>9 DEF Next, WriterNext, ReaderNext

(* The inductive invariant, from which the theorems after it follow.       *)
THEOREM Invariance == Spec => []IInv
BY InvInit, InvStep, PTL DEF Spec

(* Free slots and stored slots are apart: k places past writer is not j     *)
(* places past reader.                                                      *)
LEMMA Apart == IInv => SlicesDisjoint
<1> SUFFICES ASSUME IInv, w.busy, r.busy,
                    NEW k \in 0 .. w.avail - 1, NEW j \in 0 .. r.avail - 1
             PROVE  SlotOf(writer, w, k) # SlotOf(reader, r, j)
  BY DEF SlicesDisjoint, Held
<1>1. /\ reader \in Slots /\ writer \in Slots /\ w \in Op /\ r \in Op
      /\ SlicesFrom(writer, w) /\ w.avail <= N - Dist(reader, writer)
      /\ SlicesFrom(reader, r) /\ r.avail <= Dist(reader, writer)
  BY DEF IInv, WriterOK, ReaderOK
<1>2. SlotOf(writer, w, k) = IF writer + k < N THEN writer + k ELSE writer + k - N
  BY <1>1 DEF SlotOf, SlicesFrom
<1>3. SlotOf(reader, r, j) = IF reader + j < N THEN reader + j ELSE reader + j - N
  BY <1>1 DEF SlotOf, SlicesFrom
<1>4. k < N - Dist(reader, writer) /\ j < Dist(reader, writer) /\ k \in Nat /\ j \in Nat
  <2>1. w.avail \in Nat /\ r.avail \in Nat /\ Dist(reader, writer) \in Nat /\ N \in Nat
    BY <1>1, DistType
  <2> QED BY <1>1, <2>1
<1> HIDE RingAssumption DEF Op, Idle
<1>5. N \in Nat /\ reader \in 0 .. N - 1 /\ writer \in 0 .. N - 1
  BY <1>1, RingAssumption
<1>6. CASE reader <= writer
  <2>1. k < N - (writer - reader) /\ j < writer - reader
    BY <1>4, <1>6 DEF Dist
  <2> QED BY <1>2, <1>3, <1>4, <1>5, <1>6, <2>1
<1>7. CASE reader > writer
  <2>1. k < reader - writer /\ j < N - reader + writer
    BY <1>4, <1>5, <1>7 DEF Dist
  <2> QED BY <1>2, <1>3, <1>4, <1>5, <1>7, <2>1
<1> QED BY <1>5, <1>6, <1>7

(* ringbuffer.rs: the writer's and the reader's slices never overlap, for   *)
(* every N and every interleaving of their steps.                           *)
THEOREM NoSharedSlot == Spec => []SlicesDisjoint
BY Invariance, Apart, PTL

(* ringbuffer.rs write: a full ring is never mistaken for an empty one.     *)
THEOREM NeverFull == Spec => []NeverFilled
<1>1. IInv => NeverFilled
  <2> SUFFICES ASSUME IInv, w.busy PROVE Dist(reader, writer) + w.n < N
    BY DEF NeverFilled
  <2>1. /\ Dist(reader, writer) \in Slots /\ w.n \in 0 .. N /\ w.avail \in 0 .. N
        /\ w.avail <= N - Dist(reader, writer)
        /\ w.n = 0 \/ w.n < w.avail
    BY DistType DEF IInv, WriterOK
  <2> QED BY <2>1
<1> QED BY Invariance, <1>1, PTL

----------------------------------------------------------------------------
(* The frames *)

HIDE DEF Op, Idle

(* The slot k places past p.                                               *)
Place(p, k) == IF p + k < N THEN p + k ELSE p + k - N

LEMMA PlaceMod ==
  ASSUME NEW p \in Slots, NEW k \in Slots
  PROVE  Place(p, k) \in Slots /\ (p + k) % N = Place(p, k)
<1>1. p + k \in 0 .. (N + N - 1)
  OBVIOUS
<1> QED BY <1>1, Wrap DEF Place

LEMMA SlotPlace ==
  ASSUME NEW p \in Slots, NEW op \in Op, SlicesFrom(p, op), NEW k \in 0 .. op.avail - 1
  PROVE  SlotOf(p, op, k) = Place(p, k) /\ k \in Slots
<1>1. op.left \in 0 .. N /\ op.avail \in 0 .. N
  BY DEF Op
<1>2. k \in Slots
  BY <1>1
<1>3. CASE op.left = op.avail /\ p + op.avail <= N
  BY <1>1, <1>2, <1>3 DEF SlotOf, Place
<1>4. CASE op.left = N - p /\ op.left <= op.avail
  BY <1>1, <1>2, <1>4 DEF SlotOf, Place
<1> QED BY <1>2, <1>3, <1>4 DEF SlicesFrom

LEMMA PlaceOnce ==
  ASSUME NEW p \in Slots, NEW j \in Slots, NEW k \in Slots, j # k
  PROVE  Place(p, j) # Place(p, k)
BY DEF Place

(* What is free begins where what is stored ends.                          *)
LEMMA PlaceBeyond ==
  ASSUME NEW a \in Slots, NEW b \in Slots, NEW k \in Nat, Dist(a, b) + k < N
  PROVE  Place(b, k) = Place(a, Dist(a, b) + k) /\ k \in Slots /\ Dist(a, b) + k \in Slots
<1>1. CASE a <= b
  BY <1>1 DEF Dist, Place
<1>2. CASE a > b
  BY <1>2 DEF Dist, Place
<1> QED BY <1>1, <1>2

LEMMA PlaceForward ==
  ASSUME NEW a \in Slots, NEW n \in Slots, NEW k \in Slots, n + k < N
  PROVE  Place((a + n) % N, k) = Place(a, n + k)
<1>1. (a + n) % N = Place(a, n)
  BY PlaceMod
<1> QED BY <1>1 DEF Place

LEMMA FreeIsNotStored ==
  ASSUME NEW a \in Slots, NEW b \in Slots, NEW k \in Nat, Dist(a, b) + k < N,
         NEW i \in 1 .. Dist(a, b)
  PROVE  Place(b, k) # Place(a, i - 1)
<1>1. Dist(a, b) \in Slots
  BY DistType
<1>2. i - 1 \in Slots /\ i - 1 # Dist(a, b) + k
  BY <1>1
<1> QED BY <1>1, <1>2, PlaceBeyond, PlaceOnce

(* What is where: the frames of a write under way, not yet shown, and the  *)
(* frames a read under way has copied.                                     *)
DataInv ==
  /\ buffer \in [Slots -> 0 .. MaxItems]
  /\ made \in 0 .. MaxItems
  /\ got \in Seq(0 .. MaxItems) /\ out \in Seq(0 .. MaxItems)
  /\ w.busy => /\ made + w.n <= MaxItems /\ w.done <= w.n
               /\ \A k \in 0 .. w.done - 1 : buffer[Place(writer, k)] = made + k + 1
  /\ r.busy => r.done <= r.n
  /\ Len(got) = IF r.busy THEN r.done ELSE 0
  /\ \A i \in 1 .. Len(got) : got[i] = buffer[Place(reader, i - 1)]

LEMMA FunctionSeq ==
  ASSUME NEW S, NEW n \in Nat, NEW f \in [1 .. n -> S]
  PROVE  f \in Seq(S) /\ Len(f) = n
<1>1. f \in Seq(S)
  OBVIOUS
<1>2. DOMAIN f = 1 .. n
  OBVIOUS
<1>3. Len(f) \in Nat /\ DOMAIN f = 1 .. Len(f)
  BY <1>1, LenProperties
<1> QED BY <1>1, <1>2, <1>3

(* The lemma is used before and after a step, so it takes the indices and  *)
(* the slots as parameters.                                                *)
Stored(a, b, buf) == [i \in 1 .. Dist(a, b) |-> buf[(a + i - 1) % N]]

LEMMA StoredIs ==
  ASSUME NEW a \in Slots, NEW b \in Slots, NEW buf \in [Slots -> 0 .. MaxItems]
  PROVE  /\ Stored(a, b, buf) \in Seq(0 .. MaxItems)
         /\ Len(Stored(a, b, buf)) = Dist(a, b)
         /\ \A i \in 1 .. Dist(a, b) : Stored(a, b, buf)[i] = buf[Place(a, i - 1)]
<1>1. Dist(a, b) \in Slots
  BY DistType
<1>2. Dist(a, b) \in Nat
  BY <1>1
<1>3. ASSUME NEW i \in 1 .. Dist(a, b)
      PROVE  (a + i - 1) % N = Place(a, i - 1) /\ Place(a, i - 1) \in Slots
  <2>1. i - 1 \in Slots /\ a + i - 1 = a + (i - 1)
    BY <1>1
  <2> QED BY <2>1, PlaceMod
<1>4. Stored(a, b, buf) = [i \in 1 .. Dist(a, b) |-> buf[Place(a, i - 1)]]
  BY <1>3 DEF Stored
<1>5. \A i \in 1 .. Dist(a, b) : buf[Place(a, i - 1)] \in 0 .. MaxItems
  BY <1>3
<1>6. /\ Stored(a, b, buf) \in [1 .. Dist(a, b) -> 0 .. MaxItems]
      /\ \A i \in 1 .. Dist(a, b) : Stored(a, b, buf)[i] = buf[Place(a, i - 1)]
  BY <1>4, <1>5
<1> QED BY <1>2, <1>6, FunctionSeq

LEMMA ContentsAre ==
  /\ Contents = Stored(reader, writer, buffer)
  /\ Contents' = Stored(reader', writer', buffer')
BY DEF Contents, Stored, Dist

LEMMA ConcatIs ==
  ASSUME NEW s \in Seq(0 .. MaxItems), NEW t \in Seq(0 .. MaxItems), NEW n \in Nat, NEW f \in [1 .. n -> 0 .. MaxItems],
         Len(t) = Len(s) + n,
         \A i \in 1 .. Len(s) : t[i] = s[i],
         \A i \in 1 .. n : t[Len(s) + i] = f[i]
  PROVE  t = s \o f
<1>1. f \in Seq(0 .. MaxItems) /\ Len(f) = n
  BY FunctionSeq
<1>2. Len(s) \in Nat
  BY LenProperties
<1>3. /\ s \o f \in Seq(0 .. MaxItems) /\ Len(s \o f) = Len(s) + n
      /\ \A i \in 1 .. Len(s) + n : (s \o f)[i] = IF i <= Len(s) THEN s[i] ELSE f[i - Len(s)]
  BY <1>1, ConcatProperties
<1>4. ASSUME NEW i \in 1 .. Len(t) PROVE t[i] = (s \o f)[i]
  <2>1. CASE i <= Len(s)
    BY <1>2, <1>3, <2>1
  <2>2. CASE i > Len(s)
    <3>1. i - Len(s) \in 1 .. n /\ Len(s) + (i - Len(s)) = i
      BY <1>2, <2>2
    <3> QED BY <1>2, <1>3, <2>2, <3>1
  <2> QED BY <1>2, <2>1, <2>2
<1> QED BY <1>3, <1>4, SeqEqual

LEMMA PrefixIs ==
  ASSUME NEW s \in Seq(0 .. MaxItems), NEW t \in Seq(0 .. MaxItems), Len(t) <= Len(s),
         \A i \in 1 .. Len(t) : t[i] = s[i]
  PROVE  t = SubSeq(s, 1, Len(t))
<1> DEFINE n == Len(t)
<1>1. n \in Nat /\ Len(s) \in Nat /\ \A i \in 1 .. Len(s) : s[i] \in 0 .. MaxItems
  BY LenProperties
<1>2. /\ SubSeq(s, 1, n) \in Seq(0 .. MaxItems)
      /\ Len(SubSeq(s, 1, n)) = IF 1 <= n THEN n - 1 + 1 ELSE 0
      /\ \A i \in 1 .. n - 1 + 1 : SubSeq(s, 1, n)[i] = s[1 + i - 1]
  <2>1. (\A i \in 1 .. n : s[i] \in 0 .. MaxItems) /\ 1 \in Int /\ n \in Int
    BY <1>1
  <2> QED BY <2>1, SubSeqProperties
<1>3. /\ (IF 1 <= n THEN n - 1 + 1 ELSE 0) = n
      /\ \A i \in 1 .. n : i \in 1 .. n - 1 + 1 /\ 1 + i - 1 = i
  BY <1>1
<1>4. Len(SubSeq(s, 1, n)) = Len(t) /\ \A i \in 1 .. Len(t) : t[i] = SubSeq(s, 1, n)[i]
  BY <1>2, <1>3
<1> QED BY <1>2, <1>4, SeqEqual

LEMMA SuffixIs ==
  ASSUME NEW s \in Seq(0 .. MaxItems), NEW t \in Seq(0 .. MaxItems), NEW n \in Nat,
         n <= Len(s), Len(t) = Len(s) - n,
         \A i \in 1 .. Len(s) - n : t[i] = s[n + i]
  PROVE  t = SubSeq(s, n + 1, Len(s))
<1> DEFINE u == SubSeq(s, n + 1, Len(s))
<1>1. Len(s) \in Nat /\ \A i \in 1 .. Len(s) : s[i] \in 0 .. MaxItems
  BY LenProperties
<1>2. /\ u \in Seq(0 .. MaxItems)
      /\ Len(u) = IF n + 1 <= Len(s) THEN Len(s) - (n + 1) + 1 ELSE 0
      /\ \A i \in 1 .. Len(s) - (n + 1) + 1 : u[i] = s[n + 1 + i - 1]
  <2>1. (\A i \in n + 1 .. Len(s) : s[i] \in 0 .. MaxItems) /\ n + 1 \in Int /\ Len(s) \in Int
    BY <1>1
  <2> QED BY <2>1, SubSeqProperties
<1>3. /\ (IF n + 1 <= Len(s) THEN Len(s) - (n + 1) + 1 ELSE 0) = Len(s) - n
      /\ \A i \in 1 .. Len(s) - n : i \in 1 .. Len(s) - (n + 1) + 1 /\ n + 1 + i - 1 = n + i
  BY <1>1
<1>4. Len(u) = Len(t) /\ \A i \in 1 .. Len(t) : t[i] = u[i]
  BY <1>2, <1>3
<1> HIDE DEF u
<1>5. t = u
  BY <1>2, <1>4, SeqEqual
<1> QED BY <1>5 DEF u

----------------------------------------------------------------------------
(* Every step is one of the bounded FIFO's, or changes nothing of it *)

FifoStep == Fifo!Next \/ UNCHANGED <<Contents, made, out>>

LEMMA Typed ==
  ASSUME IInv
  PROVE  /\ reader \in Slots /\ writer \in Slots /\ Dist(reader, writer) \in Slots
         /\ w \in Op /\ r \in Op
         /\ w.n \in 0 .. N /\ w.done \in 0 .. N /\ w.avail \in 0 .. N
         /\ r.n \in 0 .. N /\ r.done \in 0 .. N /\ r.avail \in 0 .. N
         /\ w.busy \in BOOLEAN /\ r.busy \in BOOLEAN
BY DistType DEF IInv, WriterOK, ReaderOK, Op

LEMMA DataTyped ==
  ASSUME DataInv
  PROVE  made \in Nat /\ made <= MaxItems /\ buffer \in [Slots -> 0 .. MaxItems]
<1>1. made \in 0 .. MaxItems /\ buffer \in [Slots -> 0 .. MaxItems]
  BY DEF DataInv
<1> QED BY <1>1

(* A read has copied no more than is stored.                               *)
LEMMA GotIsStored ==
  ASSUME IInv, DataInv
  PROVE  Len(got) \in Nat /\ Len(got) <= Dist(reader, writer)
<1>1. Dist(reader, writer) \in Nat /\ r.done \in Nat
  BY Typed
<1>2. CASE r.busy
  <2>1. Len(got) = r.done /\ r.done <= r.n
    BY <1>2 DEF DataInv
  <2>2. r.n <= r.avail /\ r.avail <= Dist(reader, writer) /\ r.n \in Nat /\ r.avail \in Nat
    BY <1>2, Typed DEF IInv, ReaderOK
  <2> QED BY <1>1, <2>1, <2>2
<1>3. CASE ~r.busy
  <2>1. Len(got) = 0
    BY <1>3 DEF DataInv
  <2> QED BY <1>1, <2>1
<1> QED BY <1>2, <1>3

LEMMA BeginWriteData ==
  ASSUME IInv, DataInv, NEW len \in 0 .. MaxChunk, BeginWrite(len)
  PROVE  DataInv' /\ FifoStep
<1> DEFINE s == WriterSlices(writer, reader)
<1>1. s.avail = N - Dist(reader, writer) /\ Dist(reader, writer) \in Slots
  BY Typed, SlicesType
<1>2. s.avail \in 0 .. N
  BY <1>1
<1> HIDE DEF s
<1>3. w'.busy /\ w'.n = RoomFor(len, s.avail) /\ w'.done = 0 /\ made + len <= MaxItems
      /\ UNCHANGED <<reader, writer, buffer, r, got, made, out>>
  BY DEF BeginWrite, s
<1>4. RoomFor(len, s.avail) \in Nat /\ RoomFor(len, s.avail) <= len
  BY <1>2 DEF RoomFor
<1>5. made + w'.n <= MaxItems /\ w'.done <= w'.n
  BY <1>3, <1>4 DEF DataInv
<1>6. DataInv'
  BY <1>3, <1>5 DEF DataInv
<1>7. Contents' = Contents
  BY <1>3, ContentsAre
<1> QED BY <1>3, <1>6, <1>7 DEF FifoStep

LEMMA WriteSlotData ==
  ASSUME IInv, DataInv, WriteSlot
  PROVE  DataInv' /\ FifoStep
<1> DEFINE p == Place(writer, w.done)
<1>1. /\ w.busy /\ w.done < w.n /\ w.done \in Nat /\ w.n \in 0 .. N
      /\ (w.n = 0 \/ w.n < w.avail) /\ w.avail <= N - Dist(reader, writer)
      /\ SlicesFrom(writer, w) /\ w.avail \in 0 .. N /\ w \in Op
      /\ reader \in Slots /\ writer \in Slots /\ Dist(reader, writer) \in Slots
  BY Typed DEF WriteSlot, IInv, WriterOK
<1>2. w.done \in 0 .. w.avail - 1 /\ w.done \in Slots /\ Dist(reader, writer) + w.done < N
  BY <1>1
<1>3. SlotOf(writer, w, w.done) = p /\ p \in Slots
  BY <1>1, <1>2, SlotPlace, PlaceMod
<1>4. /\ buffer' = [buffer EXCEPT ![p] = made + w.done + 1]
      /\ w'.busy /\ w'.done = w.done + 1 /\ w'.n = w.n
      /\ UNCHANGED <<reader, writer, r, got, made, out>>
  BY <1>1, <1>3 DEF WriteSlot, Op
<1>5. made \in Nat /\ made + w.n <= MaxItems /\ buffer \in [Slots -> 0 .. MaxItems]
  <2>1. made + w.n <= MaxItems
    BY <1>1 DEF DataInv
  <2> QED BY <2>1, DataTyped
<1> HIDE DEF p
<1>6. buffer' \in [Slots -> 0 .. MaxItems]
  <2>1. made + w.done + 1 \in 0 .. MaxItems
    <3>1. w.done \in Nat /\ w.n \in Nat /\ w.done < w.n /\ made \in Nat
      BY <1>1, <1>5
    <3>2. made + w.n <= MaxItems
      BY <1>5
    <3> QED BY <3>1, <3>2
  <2> QED BY <1>4, <1>5, <2>1
<1>7. ASSUME NEW i \in 1 .. Dist(reader, writer)
      PROVE  buffer'[Place(reader, i - 1)] = buffer[Place(reader, i - 1)]
  <2>1. i - 1 \in Slots
    BY <1>1
  <2>2. Place(reader, i - 1) \in Slots /\ Place(reader, i - 1) # p
    BY <1>1, <1>2, <2>1, PlaceMod, FreeIsNotStored DEF p
  <2> QED BY <1>4, <1>5, <2>2
<1>8. ASSUME NEW k \in 0 .. w.done
      PROVE  buffer'[Place(writer, k)] = made + k + 1
  <2>1. CASE k = w.done
    BY <1>3, <1>4, <1>5, <2>1 DEF p
  <2>2. CASE k < w.done
    <3>1. k \in Slots /\ k \in 0 .. w.done - 1
      BY <1>1, <1>2, <2>2
    <3>2. Place(writer, k) \in Slots
      BY <1>1, <3>1, PlaceMod
    <3>3. Place(writer, k) # p
      <4>1. k # w.done
        BY <1>1, <2>2, <3>1
      <4> QED BY <1>1, <1>2, <3>1, <4>1, PlaceOnce DEF p
    <3>4. buffer[Place(writer, k)] = made + k + 1
      BY <1>1, <3>1 DEF DataInv
    <3> QED BY <1>4, <1>5, <3>2, <3>3, <3>4
  <2> QED BY <1>1, <2>1, <2>2
<1>9. \A i \in 1 .. Len(got) : got[i] = buffer'[Place(reader, i - 1)]
  <2>1. \A i \in 1 .. Len(got) : i \in 1 .. Dist(reader, writer)
    BY <1>1, GotIsStored
  <2>2. \A i \in 1 .. Len(got) : got[i] = buffer[Place(reader, i - 1)]
    BY DEF DataInv
  <2> QED BY <1>7, <2>1, <2>2
<1>10. DataInv'
  <2>1. w'.busy => /\ made' + w'.n <= MaxItems /\ w'.done <= w'.n
                   /\ \A k \in 0 .. w'.done - 1 : buffer'[Place(writer', k)] = made' + k + 1
    <3>1. 0 .. w'.done - 1 = 0 .. w.done /\ w'.done <= w'.n
      BY <1>1, <1>4
    <3> QED BY <1>4, <1>5, <1>8, <3>1
  <2> QED BY <1>4, <1>6, <1>9, <2>1 DEF DataInv
<1>11. Contents' = Contents
  <2> DEFINE s == Stored(reader, writer, buffer)
             t == Stored(reader, writer, buffer')
  <2>1. /\ s \in Seq(0 .. MaxItems) /\ Len(s) = Dist(reader, writer)
        /\ \A i \in 1 .. Dist(reader, writer) : s[i] = buffer[Place(reader, i - 1)]
    BY <1>1, <1>5, StoredIs
  <2>2. /\ t \in Seq(0 .. MaxItems) /\ Len(t) = Dist(reader, writer)
        /\ \A i \in 1 .. Dist(reader, writer) : t[i] = buffer'[Place(reader, i - 1)]
    BY <1>1, <1>6, StoredIs
  <2>3. Contents = s /\ Contents' = t
    BY <1>4, ContentsAre
  <2> HIDE DEF s, t
  <2>4. \A i \in 1 .. Len(s) : t[i] = s[i]
    BY <1>7, <2>1, <2>2
  <2>5. t = s
    BY <2>1, <2>2, <2>4, SeqEqual
  <2> QED BY <2>3, <2>5
<1> QED BY <1>4, <1>10, <1>11 DEF FifoStep

LEMMA EndWriteData ==
  ASSUME IInv, DataInv, EndWrite
  PROVE  DataInv' /\ FifoStep
<1> DEFINE n == w.n
           d == Dist(reader, writer)
           f == [i \in 1 .. n |-> made + i]
<1>1. /\ w.busy /\ w.done = n /\ n \in 0 .. N /\ w' = Idle
      /\ (n = 0 \/ n < w.avail) /\ w.avail <= N - d /\ w.avail \in 0 .. N
      /\ reader \in Slots /\ writer \in Slots /\ d \in Slots
      /\ writer' = (writer + n) % N /\ made' = made + n
      /\ UNCHANGED <<reader, buffer, r, got, out>>
  BY Typed DEF EndWrite, IInv, WriterOK
<1>2. n \in Slots /\ d + n < N
  BY <1>1
<1>3. writer' \in Slots /\ Dist(reader, writer') = d + n
  BY <1>1, <1>2, DistForward
<1>4. /\ made \in Nat /\ made + n <= MaxItems /\ buffer \in [Slots -> 0 .. MaxItems]
      /\ \A k \in 0 .. n - 1 : buffer[Place(writer, k)] = made + k + 1
  <2>1. /\ made + n <= MaxItems
        /\ \A k \in 0 .. n - 1 : buffer[Place(writer, k)] = made + k + 1
    BY <1>1 DEF DataInv
  <2> QED BY <2>1, DataTyped
<1> HIDE DEF n, d
<1>5. DataInv'
  <2>1. made' \in 0 .. MaxItems /\ ~w'.busy
    BY <1>1, <1>2, <1>4 DEF Idle
  <2> QED BY <1>1, <2>1 DEF DataInv
<1>6. f \in [1 .. n -> 0 .. MaxItems]
  BY <1>2, <1>4
<1>7. ASSUME NEW i \in 1 .. n PROVE buffer[Place(reader, d + i - 1)] = made + i
  <2>1. i - 1 \in 0 .. n - 1 /\ i - 1 \in Nat /\ d + (i - 1) < N /\ d + (i - 1) = d + i - 1
    BY <1>1, <1>2
  <2>2. Place(writer, i - 1) = Place(reader, d + (i - 1))
    BY <1>1, <2>1, PlaceBeyond DEF d
  <2>3. buffer[Place(writer, i - 1)] = made + (i - 1) + 1
    BY <1>4, <2>1
  <2> QED BY <1>4, <2>1, <2>2, <2>3
<1>8. Contents' = Contents \o f
  <2> DEFINE s == Stored(reader, writer, buffer)
             t == Stored(reader, writer', buffer)
  <2>1. /\ s \in Seq(0 .. MaxItems) /\ Len(s) = d
        /\ \A i \in 1 .. d : s[i] = buffer[Place(reader, i - 1)]
    BY <1>1, <1>4, StoredIs DEF d
  <2>2. /\ t \in Seq(0 .. MaxItems) /\ Len(t) = d + n
        /\ \A i \in 1 .. d + n : t[i] = buffer[Place(reader, i - 1)]
    <3>1. reader \in Slots /\ writer' \in Slots /\ buffer \in [Slots -> 0 .. MaxItems]
      BY <1>1, <1>3, <1>4
    <3>2. /\ t \in Seq(0 .. MaxItems) /\ Len(t) = Dist(reader, writer')
          /\ \A i \in 1 .. Dist(reader, writer') : t[i] = buffer[Place(reader, i - 1)]
      BY <3>1, StoredIs
    <3> QED BY <1>3, <3>2
  <2>3. Contents = s /\ Contents' = t
    BY <1>1, ContentsAre
  <2> HIDE DEF s, t
  <2>4. \A i \in 1 .. Len(s) : t[i] = s[i]
    <3>1. \A i \in 1 .. d : i \in 1 .. d + n
      BY <1>1, <1>2
    <3> QED BY <2>1, <2>2, <3>1
  <2>5. \A i \in 1 .. n : t[Len(s) + i] = f[i]
    <3>1. \A i \in 1 .. n : d + i \in 1 .. d + n
      BY <1>1, <1>2
    <3>2. \A i \in 1 .. n : t[d + i] = made + i
      <4> SUFFICES ASSUME NEW i \in 1 .. n PROVE t[d + i] = made + i
        OBVIOUS
      <4>1. d + i \in 1 .. d + n /\ d \in Nat /\ n \in Nat /\ i \in Nat
        BY <1>1, <1>2, <3>1
      <4>2. t[d + i] = buffer[Place(reader, d + i - 1)]
        BY <2>2, <4>1
      <4> QED BY <1>7, <4>2
    <3> QED BY <2>1, <3>2
  <2>6. Len(t) = Len(s) + n /\ n \in Nat
    BY <1>2, <2>1, <2>2
  <2> HIDE DEF f
  <2>7. t = s \o f
    BY <1>6, <2>1, <2>2, <2>4, <2>5, <2>6, ConcatIs
  <2> QED BY <2>3, <2>7
<1>9. Fifo!Write(n)
  <2>1. Len(Contents) = d
    BY <1>1, <1>4, StoredIs, ContentsAre DEF d
  <2>2. Len(Contents) + n <= N - 1
    BY <1>1, <1>2, <2>1
  <2> QED BY <1>1, <1>8, <2>2 DEF Fifo!Write
<1>10. n \in 0 .. N - 1
  BY <1>2
<1> QED BY <1>5, <1>9, <1>10 DEF FifoStep, Fifo!Next

LEMMA BeginReadData ==
  ASSUME IInv, DataInv, NEW len \in 0 .. MaxChunk, BeginRead(len)
  PROVE  DataInv' /\ FifoStep
<1>1. ~r.busy /\ r'.busy /\ r'.done = 0
      /\ UNCHANGED <<reader, writer, buffer, w, got, made, out>>
  BY DEF BeginRead
<1>2. r'.n \in Nat
  <2> DEFINE s == ReaderSlices(reader, writer)
  <2>1. s.avail = Dist(reader, writer) /\ Dist(reader, writer) \in Nat
    BY Typed, SlicesType
  <2>2. r'.n = SmallerOf(len, s.avail)
    BY DEF BeginRead
  <2> HIDE DEF s
  <2> QED BY <2>1, <2>2 DEF SmallerOf
<1>3. DataInv'
  BY <1>1, <1>2 DEF DataInv
<1>4. Contents' = Contents
  BY <1>1, ContentsAre
<1> QED BY <1>1, <1>3, <1>4 DEF FifoStep

LEMMA ReadSlotData ==
  ASSUME IInv, DataInv, ReadSlot
  PROVE  DataInv' /\ FifoStep
<1> DEFINE x == buffer[Place(reader, r.done)]
<1>1. /\ r.busy /\ r.done < r.n /\ r.done \in Nat /\ r.n \in 0 .. N
      /\ r.n <= r.avail /\ r.avail \in 0 .. N
      /\ SlicesFrom(reader, r) /\ r \in Op /\ reader \in Slots
  BY Typed DEF ReadSlot, IInv, ReaderOK
<1>2. r.done \in 0 .. r.avail - 1 /\ r.done \in Slots
  BY <1>1
<1>3. SlotOf(reader, r, r.done) = Place(reader, r.done) /\ Place(reader, r.done) \in Slots
  BY <1>1, <1>2, SlotPlace, PlaceMod
<1>4. /\ got' = Append(got, x)
      /\ r'.busy /\ r'.done = r.done + 1 /\ r'.n = r.n
      /\ UNCHANGED <<reader, writer, buffer, w, made, out>>
  BY <1>1, <1>3 DEF ReadSlot, Op
<1>5. x \in 0 .. MaxItems
  BY <1>3, DataTyped
<1>6. got \in Seq(0 .. MaxItems) /\ Len(got) = r.done
      /\ \A i \in 1 .. Len(got) : got[i] = buffer[Place(reader, i - 1)]
  BY <1>1 DEF DataInv
<1> HIDE DEF x
<1>7. /\ got' \in Seq(0 .. MaxItems) /\ Len(got') = r.done + 1
      /\ \A i \in 1 .. r.done : got'[i] = got[i]
      /\ got'[r.done + 1] = x
  BY <1>4, <1>5, <1>6, AppendProperties
<1>8. \A i \in 1 .. Len(got') : got'[i] = buffer[Place(reader, i - 1)]
  <2> SUFFICES ASSUME NEW i \in 1 .. r.done + 1 PROVE got'[i] = buffer[Place(reader, i - 1)]
    BY <1>7
  <2>1. CASE i = r.done + 1
    <3>1. i - 1 = r.done
      BY <1>1, <2>1
    <3> QED BY <1>7, <2>1, <3>1 DEF x
  <2>2. CASE i # r.done + 1
    <3>1. i \in 1 .. r.done
      BY <1>1, <2>2
    <3> QED BY <1>6, <1>7, <3>1
  <2> QED BY <2>1, <2>2
<1>9. r'.done <= r'.n
  BY <1>1, <1>4
<1>10. DataInv'
  BY <1>4, <1>7, <1>8, <1>9 DEF DataInv
<1>11. Contents' = Contents
  BY <1>4, ContentsAre
<1> QED BY <1>4, <1>10, <1>11 DEF FifoStep

LEMMA EndReadData ==
  ASSUME IInv, DataInv, EndRead
  PROVE  DataInv' /\ FifoStep
<1> DEFINE n == r.n
           d == Dist(reader, writer)
           s == Stored(reader, writer, buffer)
           t == Stored(reader', writer, buffer)
<1>1. /\ r.busy /\ r.done = n /\ n \in Nat /\ n <= d /\ r' = Idle
      /\ reader \in Slots /\ writer \in Slots /\ d \in Slots
      /\ reader' = (reader + n) % N /\ out' = got /\ got' = <<>>
      /\ UNCHANGED <<writer, buffer, w, made>>
  BY Typed DEF EndRead, IInv, ReaderOK
<1>2. n \in Slots
  BY <1>1
<1>3. reader' \in Slots /\ Dist(reader', writer) = d - n
  <2>1. (reader + n) % N \in Slots /\ Dist((reader + n) % N, writer) = d - n
    <3> HIDE DEF n
    <3> QED BY <1>1, <1>2, DistBack
  <2> QED BY <1>1, <2>1
<1>4. /\ got \in Seq(0 .. MaxItems) /\ Len(got) = n
      /\ \A i \in 1 .. n : got[i] = buffer[Place(reader, i - 1)]
  BY <1>1 DEF DataInv
<1>5. DataInv'
  <2>1. ~r'.busy /\ got' \in Seq(0 .. MaxItems) /\ Len(got') = 0
    BY <1>1 DEF Idle
  <2> QED BY <1>1, <1>4, <2>1 DEF DataInv
<1>6. /\ s \in Seq(0 .. MaxItems) /\ Len(s) = d
      /\ \A i \in 1 .. d : s[i] = buffer[Place(reader, i - 1)]
  BY <1>1, DataTyped, StoredIs
<1>7. /\ t \in Seq(0 .. MaxItems) /\ Len(t) = d - n
      /\ \A i \in 1 .. d - n : t[i] = buffer[Place(reader', i - 1)]
  <2>1. /\ t \in Seq(0 .. MaxItems) /\ Len(t) = Dist(reader', writer)
        /\ \A i \in 1 .. Dist(reader', writer) : t[i] = buffer[Place(reader', i - 1)]
    BY <1>1, <1>3, DataTyped, StoredIs
  <2> QED BY <1>3, <2>1
<1>8. Contents = s /\ Contents' = t
  BY <1>1, ContentsAre
<1> HIDE DEF s, t, n, d
<1>9. got = SubSeq(s, 1, n)
  <2>1. \A i \in 1 .. n : i \in 1 .. d
    BY <1>1
  <2>2. \A i \in 1 .. Len(got) : got[i] = s[i]
    BY <1>4, <1>6, <2>1
  <2> QED BY <1>1, <1>4, <1>6, <2>2, PrefixIs
<1>10. t = SubSeq(s, n + 1, Len(s))
  <2>1. ASSUME NEW i \in 1 .. d - n PROVE t[i] = s[n + i]
    <3>1. /\ i - 1 \in Slots /\ n + (i - 1) < N /\ n + i - 1 = n + (i - 1)
          /\ n + i \in 1 .. d /\ d \in Nat /\ n \in Nat /\ i \in Nat
      BY <1>1
    <3>2. Place(reader', i - 1) = Place(reader, n + (i - 1))
      BY <1>1, <1>2, <3>1, PlaceForward
    <3>3. s[n + i] = buffer[Place(reader, n + i - 1)]
      BY <1>6, <3>1
    <3>4. t[i] = buffer[Place(reader', i - 1)]
      BY <1>7
    <3> QED BY <3>1, <3>2, <3>3, <3>4
  <2>2. \A i \in 1 .. Len(s) - n : t[i] = s[n + i]
    BY <1>6, <2>1
  <2> QED BY <1>1, <1>6, <1>7, <2>2, SuffixIs
<1>11. Fifo!Read(n) /\ n \in 0 .. N - 1
  BY <1>1, <1>2, <1>6, <1>8, <1>9, <1>10 DEF Fifo!Read
<1> QED BY <1>5, <1>11 DEF FifoStep, Fifo!Next

LEMMA ResetData ==
  ASSUME IInv, DataInv, Reset
  PROVE  DataInv' /\ FifoStep
<1>1. /\ reader' = 0 /\ writer' = 0 /\ ~w.busy /\ ~r.busy
      /\ UNCHANGED <<buffer, w, r, got, made, out>>
  BY DEF Reset
<1>2. Len(got) = 0
  BY <1>1 DEF DataInv
<1>3. DataInv'
  BY <1>1, <1>2 DEF DataInv
<1>4. Contents' = <<>>
  <2>1. Stored(0, 0, buffer) = <<>>
    <3>1. 0 \in Slots /\ Dist(0, 0) = 0
      BY DEF Dist
    <3>2. Stored(0, 0, buffer) \in Seq(0 .. MaxItems) /\ Len(Stored(0, 0, buffer)) = 0
      BY <3>1, DataTyped, StoredIs
    <3> QED BY <3>2, EmptySeq
  <2> QED BY <1>1, <2>1, ContentsAre
<1> QED BY <1>1, <1>3, <1>4 DEF FifoStep, Fifo!Next, Fifo!Reset

LEMMA FillData ==
  ASSUME IInv, DataInv, Fill
  PROVE  DataInv' /\ FifoStep
<1> DEFINE d == Dist(reader, writer)
           n == N - 1 - d
           op == WriterSlices(writer, reader)
           f == [i \in 1 .. n |-> 0]
           s == Stored(reader, writer, buffer)
           t == Stored(reader, writer', buffer')
           Free(b) == \E k \in 0 .. op.avail - 1 : SlotOf(writer, op, k) = b
<1>1. reader \in Slots /\ writer \in Slots /\ d \in Slots
  BY Typed
<1>2. /\ op.left \in 0 .. N /\ op.avail = N - d /\ SlicesFrom(writer, op)
  BY <1>1, SlicesType
<1>3. /\ buffer' = [b \in Slots |-> IF Free(b) THEN 0 ELSE buffer[b]]
      /\ writer' = (writer + RoomFor(op.avail, op.avail)) % N
      /\ ~w.busy /\ ~r.busy /\ UNCHANGED <<reader, w, r, got, made, out>>
  BY DEF Fill
<1>4. RoomFor(op.avail, op.avail) = n /\ n \in Slots /\ d + n < N /\ n \in Nat
  BY <1>1, <1>2 DEF RoomFor
<1>5. writer' \in Slots /\ Dist(reader, writer') = d + n
  BY <1>1, <1>3, <1>4, DistForward
<1>6. ASSUME NEW k \in 0 .. op.avail - 1
      PROVE  SlotOf(writer, op, k) = Place(writer, k) /\ k \in Slots /\ d + k < N
  <2>1. k \in Slots /\ d + k < N
    BY <1>1, <1>2
  <2>2. CASE op.left = op.avail /\ writer + op.avail <= N
    BY <1>1, <1>2, <2>1, <2>2 DEF SlotOf, Place
  <2>3. CASE op.left = N - writer /\ op.left <= op.avail
    BY <1>1, <1>2, <2>1, <2>3 DEF SlotOf, Place
  <2> QED BY <1>2, <2>1, <2>2, <2>3 DEF SlicesFrom
<1>7. ASSUME NEW i \in 1 .. d
      PROVE  buffer'[Place(reader, i - 1)] = buffer[Place(reader, i - 1)]
  <2>1. i - 1 \in Slots
    BY <1>1
  <2>2. Place(reader, i - 1) \in Slots
    BY <1>1, <2>1, PlaceMod
  <2>3. \A k \in 0 .. op.avail - 1 : Place(writer, k) # Place(reader, i - 1)
    BY <1>1, <1>6, FreeIsNotStored
  <2>4. ~Free(Place(reader, i - 1))
    BY <1>6, <2>3
  <2> HIDE DEF Free
  <2> QED BY <1>3, <2>2, <2>4
<1>8. ASSUME NEW i \in 1 .. n PROVE buffer'[Place(reader, d + i - 1)] = 0
  <2>1. i - 1 \in 0 .. op.avail - 1 /\ i - 1 \in Nat /\ d + (i - 1) < N
        /\ d + (i - 1) = d + i - 1 /\ i - 1 \in Slots
    BY <1>1, <1>2, <1>4
  <2>2. Place(writer, i - 1) = Place(reader, d + i - 1) /\ Place(writer, i - 1) \in Slots
    BY <1>1, <2>1, PlaceBeyond, PlaceMod
  <2>3. Free(Place(writer, i - 1))
    BY <1>6, <2>1
  <2> HIDE DEF Free
  <2> QED BY <1>3, <2>2, <2>3
<1>9. buffer' \in [Slots -> 0 .. MaxItems]
  <2>1. buffer \in [Slots -> 0 .. MaxItems] /\ 0 \in 0 .. MaxItems
    BY DataTyped
  <2> HIDE DEF Free
  <2> QED BY <1>3, <2>1
<1>10. DataInv'
  <2>1. Len(got) = 0
    BY <1>3 DEF DataInv
  <2> HIDE DEF Free
  <2> QED BY <1>3, <1>9, <2>1 DEF DataInv
<1>11. /\ s \in Seq(0 .. MaxItems) /\ Len(s) = d
       /\ \A i \in 1 .. d : s[i] = buffer[Place(reader, i - 1)]
  BY <1>1, DataTyped, StoredIs
<1>12. /\ t \in Seq(0 .. MaxItems) /\ Len(t) = d + n
       /\ \A i \in 1 .. d + n : t[i] = buffer'[Place(reader, i - 1)]
  <2>1. /\ t \in Seq(0 .. MaxItems) /\ Len(t) = Dist(reader, writer')
        /\ \A i \in 1 .. Dist(reader, writer') : t[i] = buffer'[Place(reader, i - 1)]
    BY <1>1, <1>5, <1>9, StoredIs
  <2> QED BY <1>5, <2>1
<1>13. Contents = s /\ Contents' = t
  BY <1>3, ContentsAre
<1>14. f \in [1 .. n -> 0 .. MaxItems]
  BY <1>4
<1> HIDE DEF s, t, op, Free
<1>15. t = s \o f
  <2> HIDE DEF d, n
  <2>1. \A i \in 1 .. Len(s) : t[i] = s[i]
    <3>1. \A i \in 1 .. d : i \in 1 .. d + n
      BY <1>1, <1>4
    <3> QED BY <1>7, <1>11, <1>12, <3>1
  <2>2. \A i \in 1 .. n : t[Len(s) + i] = f[i]
    <3> SUFFICES ASSUME NEW i \in 1 .. n PROVE t[d + i] = 0
      BY <1>11
    <3>1. d + i \in 1 .. d + n /\ d \in Nat /\ n \in Nat /\ i \in Nat
      BY <1>1, <1>4
    <3>2. t[d + i] = buffer'[Place(reader, d + i - 1)]
      BY <1>12, <3>1
    <3> QED BY <1>8, <3>2
  <2>3. Len(t) = Len(s) + n
    BY <1>11, <1>12
  <2> HIDE DEF f
  <2> QED BY <1>4, <1>11, <1>12, <1>14, <2>1, <2>2, <2>3, ConcatIs
<1>16. N - 1 - Len(Contents) = n
  BY <1>1, <1>11, <1>13
<1>17. Contents' = Contents \o [i \in 1 .. N - 1 - Len(Contents) |-> 0]
  <2> HIDE DEF n
  <2> QED BY <1>13, <1>15, <1>16
<1>18. Fifo!Fill
  BY <1>3, <1>17 DEF Fifo!Fill
<1> QED BY <1>10, <1>18 DEF FifoStep, Fifo!Next

LEMMA DataStep == IInv /\ DataInv /\ [Next]_vars => DataInv' /\ FifoStep
<1> SUFFICES ASSUME IInv, DataInv, [Next]_vars PROVE DataInv' /\ FifoStep
  OBVIOUS
<1>1. CASE UNCHANGED vars
  <2>1. Contents' = Contents
    BY <1>1, ContentsAre DEF vars
  <2> QED BY <1>1, <2>1 DEF vars, DataInv, FifoStep
<1>2. CASE WriterNext
  BY <1>2, BeginWriteData, WriteSlotData, EndWriteData DEF WriterNext
<1>3. CASE ReaderNext
  BY <1>3, BeginReadData, ReadSlotData, EndReadData DEF ReaderNext
<1>4. CASE Reset \/ Fill
  BY <1>4, ResetData, FillData
<1> QED BY <1>1, <1>2, <1>3, <1>4 DEF Next

LEMMA DataInit == Init => DataInv /\ Fifo!Init
<1> SUFFICES ASSUME Init PROVE DataInv /\ Fifo!Init
  OBVIOUS
<1>1. /\ reader = 0 /\ writer = 0 /\ buffer = [s \in Slots |-> 0]
      /\ w = Idle /\ r = Idle /\ made = 0 /\ got = <<>> /\ out = <<>>
  BY DEF Init
<1>2. ~w.busy /\ ~r.busy /\ 0 \in 0 .. MaxItems /\ buffer \in [Slots -> 0 .. MaxItems]
  BY <1>1 DEF Idle
<1>3. got \in Seq(0 .. MaxItems) /\ Len(got) = 0
  BY <1>1
<1>4. DataInv
  BY <1>1, <1>2, <1>3 DEF DataInv
<1>5. Contents = <<>>
  <2>1. 0 \in Slots /\ Dist(0, 0) = 0
    BY DEF Dist
  <2>2. Contents \in Seq(0 .. MaxItems) /\ Len(Contents) = 0
    BY <1>1, <1>2, <2>1, StoredIs, ContentsAre
  <2> QED BY <2>2, EmptySeq
<1> QED BY <1>1, <1>4, <1>5 DEF Fifo!Init

LEMMA DataInvariance == Spec => [](IInv /\ DataInv)
<1>1. Init => IInv /\ DataInv
  BY InvInit, DataInit
<1>2. IInv /\ DataInv /\ [Next]_vars => (IInv /\ DataInv)'
  BY InvStep, DataStep
<1> QED BY <1>1, <1>2, PTL DEF Spec

(* Every variable keeps its type: no index leaves the ring.                *)
THEOREM TypeCorrect == Spec => []TypeOK
<1>1. IInv /\ DataInv => TypeOK
  BY DEF IInv, WriterOK, ReaderOK, DataInv, TypeOK
<1> QED BY <1>1, DataInvariance, PTL

(* The ring, its indices and slots as they are, is a bounded first-in      *)
(* first-out queue of N - 1 frames: every step of either side is a whole   *)
(* write, read, fill or reset of the queue, or none of its business.       *)
THEOREM ImplementsFifo == Spec => FifoSpec
<1>1. Init => Fifo!Init
  BY DataInit
<1>2. IInv /\ DataInv /\ [Next]_vars => [Fifo!Next]_<<Contents, made, out>>
  BY DataStep DEF FifoStep
<1> QED BY <1>1, <1>2, DataInvariance, PTL DEF Spec, FifoSpec, Fifo!Spec
=============================================================================
