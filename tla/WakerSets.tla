----------------------------- MODULE WakerSets -----------------------------
(***************************************************************************)
(* What the async primitives count on when they use TaskWaker.tla: sets of *)
(* tasks, not of slots.  A task that registers sleeps until a notification *)
(* comes; what a waker takes from a set it notifies one by one; and nobody *)
(* leaves or enters a set in any other way.  The registry is shown to keep *)
(* this promise, and the primitives to ask for no more (UseSpec).          *)
(*                                                                         *)
(* Where notifications may be stray, a set may besides have lost or gained *)
(* a task that does not sleep, and a task may be notified for nothing.     *)
(***************************************************************************)
EXTENDS TaskWaker

CONSTANT Sets

VARIABLES
  members,           \* the tasks in each set
  parked,            \* the tasks in xTaskGenericNotifyWait
  stray              \* whether notifications may be stray

setVars == <<members, parked, stray, notified, waking>>

Init ==
  /\ WakerInit
  /\ members = [s \in Sets |-> {}]
  /\ parked = {}
  /\ stray \in BOOLEAN

(* A poll that cannot progress.                                            *)
Register(t, s) ==
  /\ t \notin parked /\ parked' = parked \cup {t}
  /\ members' = [members EXCEPT ![s] = AddTask(@, t)]
  /\ UNCHANGED <<stray, notified, waking>>

Return(t) ==
  /\ t \in parked /\ parked' = parked \ {t}
  /\ NotifyWait(t)
  /\ UNCHANGED <<members, stray, waking>>

Take(w, s) ==
  /\ UNCHANGED <<parked, stray, notified>>
  /\ waking[w] = {} /\ TakeWakeable(w, members[s])
  /\ members' = [members EXCEPT ![s] = {}]

Wake(w, t) == Notify(w, t) /\ UNCHANGED <<members, parked, stray>>

(* A notification for nothing.                                             *)
Disturb(t) == SpuriousWake(t) /\ UNCHANGED <<members, parked, stray>>

(* A new task where another ended, which has no notification pending.      *)
Renew(t) ==
  /\ t \notin parked
  /\ notified' = [notified EXCEPT ![t] = FALSE]
  /\ UNCHANGED <<members, parked, stray, waking>>

(* A task that is up leaves its slot with the bit set in sets and hands, or *)
(* gets a slot with such bits.                                             *)
Exchange(t) ==
  /\ t \notin parked
  /\ UNCHANGED <<parked, stray, notified>>
  /\ members' \in [Sets -> SUBSET Tasks] /\ waking' \in [Tasks -> SUBSET Tasks]
  /\ \A s \in Sets : members'[s] \ {t} = members[s] \ {t}
  /\ \A w \in Tasks : waking'[w] \ {t} = waking[w] \ {t}

Calls ==
  \/ \E t \in Tasks, s \in Sets : Register(t, s) \/ Take(t, s)
  \/ \E t \in Tasks : Return(t)
  \/ \E w, t \in Tasks : Wake(w, t)

Next ==
  \/ Calls
  \/ stray /\ \E t \in Tasks : Disturb(t) \/ Renew(t) \/ Exchange(t)

Spec == Init /\ [][Next]_setVars

(* The other side: what a primitive may do.  It registers nobody who does  *)
(* not go to sleep at once, takes nothing before it has notified all it    *)
(* took before, and touches no set otherwise; tasks may be woken for       *)
(* reasons of others, and may be new.                                      *)
Uses == Calls \/ \E t \in Tasks : Disturb(t) \/ Renew(t)

UseSpec == Init /\ [][Uses]_setVars
=============================================================================
