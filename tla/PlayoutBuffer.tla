--------------------------- MODULE PlayoutBuffer ---------------------------
(***************************************************************************)
(* What the packet queue of a stream promises: a window of consecutive     *)
(* sequence numbers that moves up by one at each playout.  The first copy  *)
(* of a packet inside the window is held; at its turn it is played, and a  *)
(* number nobody sent is played as a gap.                                  *)
(***************************************************************************)
EXTENDS Naturals

CONSTANTS Capacity, Packets, Starts, None

VARIABLES
  head,              \* the number to be played next
  held,              \* the packets in the window, by number
  played             \* what the last playout gave

Init ==
  /\ head \in Starts
  /\ held = <<>>
  /\ played = None

Receive(p) ==
  /\ held' = IF p.seq \in head .. head + Capacity - 1 /\ p.seq \notin DOMAIN held
             THEN [s \in DOMAIN held \cup {p.seq} |-> IF s = p.seq THEN p ELSE held[s]]
             ELSE held
  /\ UNCHANGED <<head, played>>

Play ==
  /\ played' = IF head \in DOMAIN held THEN held[head] ELSE None
  /\ held' = [s \in DOMAIN held \ {head} |-> held[s]]
  /\ head' = head + 1

Next == (\E p \in Packets : Receive(p)) \/ Play

Spec == Init /\ [][Next]_<<head, held, played>>
=============================================================================
