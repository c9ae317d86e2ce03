-------------------------- MODULE TaskMutexProofs --------------------------
(***************************************************************************)
(* TaskMutex for any number of tasks: exclusion, no unreachable sleeper,   *)
(* and no state in which every task has missed its wake-up.                *)
(***************************************************************************)
EXTENDS TaskMutex, TLAPS

(* flag says whether some task holds a guard.                              *)
FlagHeld == flag <=> \E t \in Tasks : At(t, {"cs"})

WakerBusy == \A t \in Tasks : waking[t] # {} => At(t, {"notify"})

IInv ==
  /\ TypeOK
  /\ FlagHeld
  /\ MutualExclusion
  /\ WakerBusy
  /\ ParkedIsRegistered

USE DEF At, Goto, Locs

LEMMA TypeStep == TypeOK /\ [Next]_vars => TypeOK'
<1> SUFFICES ASSUME TypeOK, [Next]_vars PROVE TypeOK'
  OBVIOUS
<1> USE DEF TypeOK, WakerTypeOK
<1>1. ASSUME NEW t \in Tasks, Step(t) \/ Spurious(t) PROVE TypeOK'
  <2>1. CASE PollLock(t)
    BY <2>1 DEF PollLock
  <2>2. CASE AddSelf(t)
    BY <2>2 DEF AddSelf, AddTask
  <2>3. CASE Unpark(t)
    BY <2>3 DEF Unpark, NotifyWait
  <2>4. CASE Unlock(t)
    BY <2>4 DEF Unlock
  <2>5. CASE TakeBits(t)
    BY <2>5 DEF TakeBits, TakeWakeable
  <2>6. CASE NotifyOne(t)
    BY <2>6 DEF NotifyOne, Notify
  <2>7. CASE NotifyDone(t)
    BY <2>7 DEF NotifyDone
  <2>8. CASE Spurious(t)
    BY <2>8 DEF Spurious, SpuriousWake
  <2> QED BY <1>1, <2>1, <2>2, <2>3, <2>4, <2>5, <2>6, <2>7, <2>8 DEF Step
<1>2. CASE UNCHANGED vars
  BY <1>2 DEF vars
<1> QED BY <1>1, <1>2 DEF Next

(* The swap lets one task in, and only the task inside stores false.       *)
LEMMA ExclusionStep ==
  TypeOK /\ FlagHeld /\ MutualExclusion /\ [Next]_vars => FlagHeld' /\ MutualExclusion'
<1> SUFFICES ASSUME TypeOK, FlagHeld, MutualExclusion, [Next]_vars
             PROVE  FlagHeld' /\ MutualExclusion'
  OBVIOUS
<1> USE DEF TypeOK, FlagHeld, MutualExclusion
<1>1. ASSUME NEW t \in Tasks, Step(t) \/ Spurious(t)
      PROVE  FlagHeld' /\ MutualExclusion'
  <2>1. CASE PollLock(t)
    <3>1. CASE flag
      BY <2>1, <3>1 DEF PollLock
    <3>2. CASE ~flag
      BY <2>1, <3>2 DEF PollLock
    <3> QED BY <3>1, <3>2
  <2>2. CASE Unlock(t)
    BY <2>2 DEF Unlock
  <2>3. CASE AddSelf(t) \/ Unpark(t) \/ TakeBits(t) \/ NotifyOne(t) \/ NotifyDone(t) \/ Spurious(t)
    BY <2>3 DEF AddSelf, Unpark, TakeBits, NotifyOne, NotifyDone, Spurious
  <2> QED BY <1>1, <2>1, <2>2, <2>3 DEF Step
<1>2. CASE UNCHANGED vars
  BY <1>2 DEF vars
<1> QED BY <1>1, <1>2 DEF Next

LEMMA WakerStep == TypeOK /\ WakerBusy /\ [Next]_vars => WakerBusy'
<1> SUFFICES ASSUME TypeOK, WakerBusy, [Next]_vars PROVE WakerBusy'
  OBVIOUS
<1> USE DEF TypeOK, WakerTypeOK, WakerBusy
<1>1. ASSUME NEW t \in Tasks, Step(t) \/ Spurious(t) PROVE WakerBusy'
  <2>1. CASE PollLock(t) \/ AddSelf(t) \/ Unpark(t) \/ Unlock(t) \/ NotifyDone(t) \/ Spurious(t)
    BY <2>1 DEF PollLock, AddSelf, Unpark, Unlock, NotifyDone, Spurious, SpuriousWake
  <2>2. CASE TakeBits(t)
    BY <2>2 DEF TakeBits, TakeWakeable
  <2>3. CASE NotifyOne(t)
    BY <2>3 DEF NotifyOne, Notify
  <2> QED BY <1>1, <2>1, <2>2, <2>3 DEF Step
<1>2. CASE UNCHANGED vars
  BY <1>2 DEF vars
<1> QED BY <1>1, <1>2 DEF Next

(* A bit leaves the set only into the hands of a task that will notify it. *)
LEMMA ParkedStep ==
  TypeOK /\ WakerBusy /\ ParkedIsRegistered /\ [Next]_vars => ParkedIsRegistered'
<1> SUFFICES ASSUME TypeOK, WakerBusy, ParkedIsRegistered, [Next]_vars,
                    NEW s \in Tasks, Asleep(s)'
             PROVE  s \in notify' \/ \E u \in Tasks : s \in waking'[u]
  BY DEF ParkedIsRegistered
<1> USE DEF TypeOK, WakerTypeOK, Asleep
<1>0. Asleep(s) => s \in notify \/ \E u \in Tasks : s \in waking[u]
  BY DEF ParkedIsRegistered
<1>1. ASSUME NEW t \in Tasks, Step(t) \/ Spurious(t)
      PROVE  s \in notify' \/ \E u \in Tasks : s \in waking'[u]
  <2>1. CASE PollLock(t) \/ Unlock(t) \/ NotifyDone(t)
    BY <1>0, <2>1 DEF PollLock, Unlock, NotifyDone
  <2>2. CASE AddSelf(t)
    BY <1>0, <2>2 DEF AddSelf, AddTask
  <2>3. CASE Unpark(t)
    BY <1>0, <2>3 DEF Unpark, NotifyWait
  <2>4. CASE TakeBits(t)
    <3>1. Asleep(s) /\ waking[t] = {} /\ waking'[t] = notify
      BY <2>4 DEF TakeBits, TakeWakeable, WakerBusy
    <3>2. CASE s \in notify
      BY <3>1, <3>2
    <3>3. CASE \E u \in Tasks : s \in waking[u]
      BY <2>4, <3>1, <3>3 DEF TakeBits, TakeWakeable
    <3> QED BY <1>0, <3>1, <3>2, <3>3
  <2>5. CASE NotifyOne(t)
    BY <1>0, <2>5 DEF NotifyOne, Notify
  <2>6. CASE Spurious(t)
    BY <1>0, <2>6 DEF Spurious, SpuriousWake
  <2> QED BY <1>1, <2>1, <2>2, <2>3, <2>4, <2>5, <2>6 DEF Step
<1>2. CASE UNCHANGED vars
  BY <1>0, <1>2 DEF vars
<1> QED BY <1>1, <1>2 DEF Next

(* The task whose step leaves everybody else stuck cannot itself get stuck: *)
(* a failed swap needs a holder, and a holder is up.                        *)
LEMMA StuckStep == IInv /\ NotAllStuck /\ [Next]_vars => NotAllStuck'
<1> SUFFICES ASSUME IInv, NotAllStuck, [Next]_vars PROVE NotAllStuck'
  OBVIOUS
<1> USE DEF IInv, TypeOK, WakerTypeOK, Stuck
<1>1. PICK w \in Tasks : ~Stuck(w)
  BY DEF NotAllStuck
<1>2. ASSUME NEW t \in Tasks, Step(t) \/ Spurious(t) PROVE NotAllStuck'
  <2>1. CASE PollLock(t)
    <3>1. CASE flag
      <4>1. PICK u \in Tasks : At(u, {"cs"})
        BY <3>1 DEF FlagHeld
      <4>2. pc'[u] = "cs"
        BY <2>1, <4>1 DEF PollLock
      <4> QED BY <4>2 DEF NotAllStuck
    <3>2. CASE ~flag
      <4>1. pc'[t] = "cs"
        BY <2>1, <3>2 DEF PollLock
      <4> QED BY <4>1 DEF NotAllStuck
    <3> QED BY <3>1, <3>2
  <2>2. CASE AddSelf(t)
    <3>1. ~Stuck(w)'
      BY <1>1, <2>2 DEF AddSelf
    <3> QED BY <3>1 DEF NotAllStuck
  <2>3. CASE NotifyOne(t)
    <3>1. ~Stuck(w)'
      BY <1>1, <2>3 DEF NotifyOne, Notify
    <3> QED BY <3>1 DEF NotAllStuck
  <2>4. CASE Spurious(t)
    <3>1. ~Stuck(w)'
      BY <1>1, <2>4 DEF Spurious, SpuriousWake
    <3> QED BY <3>1 DEF NotAllStuck
  <2>5. CASE Unpark(t) \/ Unlock(t) \/ TakeBits(t) \/ NotifyDone(t)
    <3>1. pc'[t] \in {"poll", "swap", "notify", "idle"}
      BY <2>5 DEF Unpark, Unlock, TakeBits, NotifyDone
    <3> QED BY <3>1 DEF NotAllStuck
  <2> QED BY <1>2, <2>1, <2>2, <2>3, <2>4, <2>5 DEF Step
<1>3. CASE UNCHANGED vars
  BY <1>1, <1>3 DEF vars, NotAllStuck
<1> QED BY <1>2, <1>3 DEF Next

LEMMA InvInit == Init => IInv
BY DEF Init, WakerInit, IInv, TypeOK, WakerTypeOK, FlagHeld, MutualExclusion, WakerBusy,
       ParkedIsRegistered, Asleep

LEMMA InvStep == IInv /\ [Next]_vars => IInv'
BY TypeStep, ExclusionStep, WakerStep, ParkedStep DEF IInv

(* The inductive invariant, from which the theorems after it follow.       *)
THEOREM Invariance == Spec => []IInv
BY InvInit, InvStep, PTL DEF Spec

(* mutex.rs: at most one TaskMutexGuard exists, for any number of tasks.   *)
THEOREM Exclusion == Spec => []MutualExclusion
BY Invariance, PTL DEF IInv

(* mutex.rs poll_lock: a sleeper is always reachable by its bit or by a    *)
(* notification in flight.                                                 *)
THEOREM SleeperReachable == Spec => []ParkedIsRegistered
BY Invariance, PTL DEF IInv

(* mutex.rs poll_lock: the unguarded window between the swap and the       *)
(* registration can park tasks on a free lock, but never all of them.      *)
THEOREM SomebodyIsUp == Tasks # {} => (Spec => []NotAllStuck)
<1>1. Tasks # {} /\ Init => NotAllStuck
  BY DEF Init, NotAllStuck, Stuck
<1> QED BY <1>1, Invariance, StuckStep, PTL DEF Spec

----------------------------------------------------------------------------
(* The waker set, as WakerSets asks for it to be used *)

LEMMA UsesStep ==
  ASSUME TypeOK, WakerBusy, NEW t \in Tasks, Step(t) \/ Spurious(t)
  PROVE  [Wakers!Uses]_Wakers!setVars
<1> USE DEF Wakers!Uses, Wakers!Calls
<1>0. /\ pc \in [Tasks -> Locs] /\ Members["notify"] = notify
      /\ \A s : Members' = [Members EXCEPT !["notify"] = s] <=> notify' = s
  BY DEF TypeOK, Members
<1>1. CASE AddSelf(t)
  <2>1. t \notin Parked /\ Parked' = Parked \cup {t}
    BY <1>0, <1>1 DEF AddSelf, Parked
  <2>2. Members' = [Members EXCEPT !["notify"] = Wakers!AddTask(@, t)]
    BY <1>0, <1>1 DEF AddSelf, AddTask, Wakers!AddTask
  <2>3. Wakers!Register(t, "notify")
    BY <1>1, <2>1, <2>2 DEF AddSelf, Wakers!Register
  <2> QED BY <2>3
<1>2. CASE Unpark(t)
  <2>1. t \in Parked /\ Parked' = Parked \ {t} /\ UNCHANGED Members
    BY <1>0, <1>2 DEF Unpark, Parked, Members
  <2>2. Wakers!Return(t)
    BY <1>2, <2>1 DEF Unpark, NotifyWait, Wakers!Return, Wakers!NotifyWait
  <2> QED BY <2>2
<1>3. CASE TakeBits(t)
  <2>1. waking[t] = {} /\ UNCHANGED Parked
    BY <1>0, <1>3 DEF TakeBits, WakerBusy, Parked
  <2>2. Members' = [Members EXCEPT !["notify"] = {}]
    BY <1>0, <1>3 DEF TakeBits
  <2>3. Wakers!Take(t, "notify")
    BY <1>0, <1>3, <2>1, <2>2 DEF TakeBits, TakeWakeable, Wakers!Take, Wakers!TakeWakeable
  <2> QED BY <2>3
<1>4. CASE NotifyOne(t)
  <2>1. PICK u \in Tasks : Notify(t, u)
    BY <1>4 DEF NotifyOne
  <2>2. UNCHANGED <<Parked, Members>>
    BY <1>4 DEF NotifyOne, Parked, Members
  <2>3. Wakers!Wake(t, u)
    BY <2>1, <2>2 DEF Notify, Wakers!Wake, Wakers!Notify
  <2> QED BY <2>3
<1>5. CASE Spurious(t)
  <2>1. UNCHANGED <<Parked, Members>>
    BY <1>5 DEF Spurious, Parked, Members
  <2>2. Wakers!Disturb(t)
    BY <1>5, <2>1 DEF Spurious, SpuriousWake, Wakers!Disturb, Wakers!SpuriousWake
  <2> QED BY <2>2
<1>6. CASE PollLock(t) \/ Unlock(t) \/ NotifyDone(t)
  <2>1. UNCHANGED <<Parked, Members, notified, waking>>
    BY <1>0, <1>6 DEF PollLock, Unlock, NotifyDone, Parked, Members
  <2> QED BY <2>1 DEF Wakers!setVars
<1> QED BY <1>1, <1>2, <1>3, <1>4, <1>5, <1>6 DEF Step

(* mutex.rs against waker.rs, for any number of tasks: the lock asks no    *)
(* more of its waker set than the registry is shown to give.               *)
THEOREM MutexUsesSets == Spec => UsesSets
<1>1. Init => Wakers!Init
  <2> SUFFICES ASSUME Init PROVE Wakers!Init
    OBVIOUS
  <2>1. Members = [s \in {"notify"} |-> {}] /\ Parked = {}
    BY DEF Init, Members, Parked
  <2> QED BY <2>1 DEF Init, WakerInit, Wakers!Init, Wakers!WakerInit
<1>2. IInv /\ [Next]_vars => [Wakers!Uses]_Wakers!setVars
  <2> SUFFICES ASSUME IInv, [Next]_vars PROVE [Wakers!Uses]_Wakers!setVars
    OBVIOUS
  <2>1. CASE UNCHANGED vars
    BY <2>1 DEF vars, Wakers!setVars, Members, Parked
  <2> QED BY <2>1, UsesStep DEF IInv, Next
<1> QED BY <1>1, <1>2, Invariance, PTL DEF Spec, UsesSets, Wakers!UseSpec
=============================================================================
