---------------------------- MODULE PacketQueue ----------------------------
(***************************************************************************)
(* src/src/app/queue.rs: the jitter buffer between the application task,   *)
(* which inserts packets as the network delivers them, and the stream      *)
(* task, which pops one per packet time whether it is there or not.        *)
(*                                                                         *)
(* Both hold the TaskMutex (module TaskMutex: one guard at a time, and no  *)
(* await inside), so an insertion and a pop are one step each.  The        *)
(* network loses, repeats and reorders: any packet may arrive at any time. *)
(***************************************************************************)
EXTENDS Naturals, Sequences

CONSTANTS
  Capacity,          \* MAX_QUEUED_PACKETS
  Seqs,              \* sequence numbers senders use
  Copies,            \* tells apart packets with the same number
  Starts,            \* PacketQueue::new(start_seq)
  MaxHead,           \* bound: playouts stop here
  UsizeMod,          \* 2^32 on the ESP32, where seq is a u64
  None

Packets == [seq : Seqs, copy : Copies]

ASSUME PacketAssumption ==
  /\ Capacity \in Nat \ {0} /\ MaxHead \in Nat
  /\ UsizeMod \in Nat \ {0}
  /\ Seqs \subseteq Nat /\ Starts \subseteq Nat
  /\ None \notin Packets

VARIABLES
  head_seq,
  queue,             \* slot i holds the packet numbered head_seq + i - 1
  played             \* what the last pop_front returned

vars == <<head_seq, queue, played>>

TypeOK ==
  /\ head_seq \in Nat
  /\ queue \in Seq(Packets \cup {None})
  /\ Len(queue) <= Capacity
  /\ played \in Packets \cup {None}

Init ==
  /\ head_seq \in Starts
  /\ queue = <<>>
  /\ played = None

(* The deque after enough push_back(None) to have a slot idx.              *)
Expanded(idx) ==
  [i \in 1 .. (IF Len(queue) < idx + 1 THEN idx + 1 ELSE Len(queue)) |->
     IF i <= Len(queue) THEN queue[i] ELSE None]

(* Defect: the slot is counted from one.                                   *)
SlotIndexOff(seq) == (seq - head_seq + 1) % UsizeMod

(* queue_slot_mut: a u64 difference, cast to usize.                        *)
SlotIndex(seq) == (seq - head_seq) % UsizeMod

(* insert_packet, the packet having a slot: the first copy stays.          *)
InsertPacket(p) ==
  /\ p.seq >= head_seq
  /\ SlotIndex(p.seq) < Capacity
  /\ LET idx == SlotIndex(p.seq)
     IN  queue' = [Expanded(idx) EXCEPT ![idx + 1] = IF @ = None THEN p ELSE @]
  /\ UNCHANGED <<head_seq, played>>

(* NoSlot::InPast and NoSlot::TooFarInFuture: only counted.                *)
DropPacket(p) ==
  /\ p.seq < head_seq \/ SlotIndex(p.seq) >= Capacity
  /\ UNCHANGED vars

(* Defect: the window waits for something to play.                         *)
PopFrontWaits ==
  /\ head_seq < MaxHead
  /\ head_seq' = IF queue = <<>> THEN head_seq ELSE head_seq + 1
  /\ played' = IF queue = <<>> THEN None ELSE Head(queue)
  /\ queue' = IF queue = <<>> THEN queue ELSE Tail(queue)

(* pop_front: the window moves even when there is nothing to play.         *)
PopFront ==
  /\ head_seq < MaxHead
  /\ head_seq' = head_seq + 1
  /\ played' = IF queue = <<>> THEN None ELSE Head(queue)
  /\ queue' = IF queue = <<>> THEN queue ELSE Tail(queue)

Next == (\E p \in Packets : InsertPacket(p) \/ DropPacket(p)) \/ PopFront

Spec == Init /\ [][Next]_vars

----------------------------------------------------------------------------
(* Properties *)

(* "The seq of the first packet in the queue, the rest are implied": every  *)
(* slot holds the packet whose number the slot stands for.                  *)
SlotsImplied ==
  \A i \in DOMAIN queue : queue[i] # None => queue[i].seq = head_seq + i - 1

(* The deque is the window of PlayoutBuffer: nothing is played out of turn, *)
(* a late, early or repeated packet changes nothing, a gap costs one turn.  *)
Held ==
  [s \in {head_seq + i - 1 : i \in {j \in DOMAIN queue : queue[j] # None}} |->
     queue[s - head_seq + 1]]

Playout == INSTANCE PlayoutBuffer WITH head <- head_seq, held <- Held

PlayoutSpec == Playout!Spec
=============================================================================
