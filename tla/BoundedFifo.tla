---------------------------- MODULE BoundedFifo ----------------------------
(***************************************************************************)
(* What a ring buffer of frames promises: a bounded queue in which a batch *)
(* appears whole and is removed whole.  Frames carry the number of their   *)
(* place in the written stream; 0 is silence.                              *)
(***************************************************************************)
EXTENDS Naturals, Sequences

CONSTANT Room        \* frames it can hold

VARIABLES
  chan,              \* frames written and not yet read, oldest first
  made,              \* frames written so far
  out                \* the batch the last read returned

Init == chan = <<>> /\ made = 0 /\ out = <<>>

Write(n) ==
  /\ Len(chan) + n <= Room
  /\ chan' = chan \o [i \in 1 .. n |-> made + i]
  /\ made' = made + n
  /\ UNCHANGED out

Read(n) ==
  /\ n <= Len(chan)
  /\ out' = SubSeq(chan, 1, n)
  /\ chan' = SubSeq(chan, n + 1, Len(chan))
  /\ UNCHANGED made

Fill ==
  /\ chan' = chan \o [i \in 1 .. Room - Len(chan) |-> 0]
  /\ UNCHANGED <<made, out>>

Reset == chan' = <<>> /\ UNCHANGED <<made, out>>

Next == (\E n \in 0 .. Room : Write(n) \/ Read(n)) \/ Fill \/ Reset

Spec == Init /\ [][Next]_<<chan, made, out>>
=============================================================================
