------------------------------ MODULE DacLease ------------------------------
(***************************************************************************)
(* What the value of type Dac stands for: the right of one task to the     *)
(* converter, from Dac::new to the end of drop.  "dac_continuous_new_      *)
(* channels ensures that at most one DAC instance exists at any given      *)
(* time."  Dac and Streams are both shown to keep it, each by what it sees *)
(* of the driver.                                                          *)
(***************************************************************************)
CONSTANT Tasks

VARIABLE holders     \* the tasks that have a Dac

Init == holders = {}

Acquire(t) == holders = {} /\ holders' = {t}

Release(t) == holders = {t} /\ holders' = {}

Next == \E t \in Tasks : Acquire(t) \/ Release(t)

Spec == Init /\ [][Next]_holders
=============================================================================
