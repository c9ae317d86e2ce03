------------------------- MODULE TaskRegistryProofs -------------------------
(***************************************************************************)
(* TaskRegistry for any number of slots and of tasks: as long as no more   *)
(* tasks are alive than there are slots, every scan finds one; a slot      *)
(* belongs to one task; and a sleeper is reached through its slot.         *)
(*                                                                         *)
(* That the scan succeeds is not obvious: the slots it saw taken may all   *)
(* have been cleared since.  The argument counts the tasks that are at     *)
(* slot i or beyond, scanning or settled: there is room for MaxTasks - i   *)
(* of them.  A task passes slot i because another one has it, and that     *)
(* other task is at i and not beyond.                                      *)
(*                                                                         *)
(* That a waker's pointer is good rests on counting to one: as long as     *)
(* notifications come through the sets only, the wake-up of a task is in   *)
(* one place, a set, a hand, a loaded pointer or FreeRTOS, and only while  *)
(* the task sleeps.  So whoever holds it keeps the task from its exit.     *)
(*                                                                         *)
(* Last, that all of this shows to a primitive as the sets of tasks of     *)
(* WakerSets: a bit counts as the task that has its slot now.              *)
(***************************************************************************)
EXTENDS TaskRegistry, FiniteSetTheorems, TLAPS

Beyond(i) == {t \in Alive : id[t] >= i}

RoomBeyond == \A i \in 0 .. MaxTasks : Cardinality(Beyond(i)) <= MaxTasks - i

SlotTaken ==
  \A i \in Slots : slot[i] # None => Registered(slot[i]) /\ id[slot[i]] = i

(* Without stray notifications, where the wake-up of a task can be.        *)
Sleeping(i) == slot[i] # None /\ pc[slot[i]] = "park" /\ ~notified[slot[i]]

InSet ==
  \A s \in Sets : \A i \in bits[s] :
    /\ Sleeping(i)
    /\ \A r \in Sets : i \in bits[r] => r = s
    /\ \A w \in Wakers : i \notin hand[w] /\ loaded[w] # slot[i]

InHand ==
  \A w \in Wakers : \A i \in hand[w] :
    /\ Sleeping(i)
    /\ \A v \in Wakers : (i \in hand[v] => v = w) /\ loaded[v] # slot[i]

Loaded ==
  \A w \in Wakers : loaded[w] # None =>
    /\ pc[loaded[w]] = "park" /\ ~notified[loaded[w]]
    /\ \A v \in Wakers : loaded[v] = loaded[w] => v = w

Pending == \A t \in Tasks : notified[t] => pc[t] = "park"

OneWakeup == ~stray => InSet /\ InHand /\ Loaded /\ Pending

(* Only a task that runs is inside wake_all.                               *)
WakersRun == \A t \in Tasks : Waking(t) => pc[t] = "run"

IInv ==
  /\ TypeOK
  /\ ScanFindsSlot
  /\ SlotTaken
  /\ SlotIsOwn
  /\ RoomBeyond
  /\ SleeperReachable
  /\ WakersRun
  /\ OneWakeup

USE TasksAssumption, NoneAssumption, OutsideAssumption, MaxTasksAssumption
USE DEF Goto, Locs, Slots, Wakers

LEMMA BeyondFinite ==
  ASSUME TypeOK, NEW i \in Int
  PROVE  IsFiniteSet(Beyond(i)) /\ Cardinality(Beyond(i)) \in Nat
<1>1. Beyond(i) \in SUBSET Tasks
  BY DEF Beyond, Alive
<1> QED BY <1>1, FS_Subset, FS_CardinalityType

(* If no task moved further, the room is still there.                      *)
LEMMA RoomKept ==
  ASSUME TypeOK, RoomBeyond, \A i \in 0 .. MaxTasks : Beyond(i)' \subseteq Beyond(i)
  PROVE  RoomBeyond'
<1> SUFFICES ASSUME NEW i \in 0 .. MaxTasks
             PROVE  Cardinality(Beyond(i)') <= MaxTasks - i
  BY DEF RoomBeyond
<1>1. IsFiniteSet(Beyond(i)) /\ Cardinality(Beyond(i)) \in Nat
  BY BeyondFinite
<1>2. /\ IsFiniteSet(Beyond(i)')
      /\ Cardinality(Beyond(i)') <= Cardinality(Beyond(i))
  BY <1>1, FS_Subset
<1>3. Cardinality(Beyond(i)') \in Nat
  BY <1>2, FS_CardinalityType
<1>4. Cardinality(Beyond(i)) <= MaxTasks - i
  BY DEF RoomBeyond
<1> QED BY <1>1, <1>2, <1>3, <1>4

LEMMA InitIInv == Init => IInv
<1> SUFFICES ASSUME Init PROVE IInv
  OBVIOUS
<1>1. Alive = {}
  BY DEF Init, Alive
<1>2. TypeOK /\ SlotTaken /\ SlotIsOwn /\ SleeperReachable
  BY DEF Init, TypeOK, SlotTaken, SlotIsOwn, SleeperReachable, Registered
<1>3. ScanFindsSlot
  BY <1>1 DEF ScanFindsSlot
<1>4. \A i \in 0 .. MaxTasks : Beyond(i) = {}
  BY <1>1 DEF Beyond
<1>5. RoomBeyond
  BY <1>4, FS_EmptySet DEF RoomBeyond
<1>6. WakersRun /\ OneWakeup
  BY DEF Init, WakersRun, Waking, OneWakeup, InSet, InHand, Loaded, Pending
<1> QED BY <1>2, <1>3, <1>5, <1>6 DEF IInv

(* No room for anybody beyond the last slot.                               *)
LEMMA RoomMeansSlot ==
  ASSUME TypeOK, RoomBeyond
  PROVE  ScanFindsSlot
<1> SUFFICES ASSUME NEW t \in Alive, ~(id[t] < MaxTasks) PROVE FALSE
  BY DEF ScanFindsSlot
<1>1. t \in Beyond(MaxTasks)
  BY DEF Beyond, TypeOK, Alive
<1>2. Cardinality(Beyond(MaxTasks)) <= 0
  BY DEF RoomBeyond
<1>3. IsFiniteSet(Beyond(MaxTasks)) /\ Cardinality(Beyond(MaxTasks)) \in Nat
  BY BeyondFinite
<1>4. Beyond(MaxTasks) = {}
  BY <1>2, <1>3, FS_EmptySet
<1> QED BY <1>1, <1>4

LEMMA TypeStep == TypeOK /\ ScanFindsSlot /\ [Next]_vars => TypeOK'
<1> SUFFICES ASSUME TypeOK, ScanFindsSlot, [Next]_vars PROVE TypeOK'
  OBVIOUS
<1> USE DEF TypeOK
<1>1. ASSUME NEW t \in Tasks, Start(t) PROVE TypeOK'
  BY <1>1 DEF Start
<1>2. ASSUME NEW t \in Tasks, Claim(t) PROVE TypeOK'
  BY <1>2 DEF Claim
<1>3. ASSUME NEW t \in Tasks, Skip(t) PROVE TypeOK'
  <2>1. id[t] + 1 \in 0 .. MaxTasks
    BY <1>3 DEF Skip
  <2> QED BY <1>3, <2>1 DEF Skip
<1>4. ASSUME NEW t \in Tasks, NEW s \in Sets, AddTask(t, s) PROVE TypeOK'
  <2>1. id[t] \in Slots
    BY SMTT(60), <1>4 DEF AddTask, Running, ScanFindsSlot, Alive
  <2> QED BY <1>4, <2>1 DEF AddTask
<1>5. ASSUME NEW t \in Tasks, Unpark(t) \/ Exit(t) \/ StrayNotify(t) \/ Delete(t)
      PROVE  TypeOK'
  BY <1>5 DEF Unpark, Exit, StrayNotify, Delete
<1>6. ASSUME NEW w \in Wakers, NEW s \in Sets, TakeWakeable(w, s) PROVE TypeOK'
  BY <1>6 DEF TakeWakeable
<1>7. ASSUME NEW w \in Wakers, Load(w) PROVE TypeOK'
  BY <1>7 DEF Load, NextBit
<1>8. ASSUME NEW w \in Wakers, Notify(w) PROVE TypeOK'
  BY <1>8 DEF Notify
<1>9. CASE UNCHANGED vars
  BY <1>9 DEF vars
<1> QED
  BY <1>1, <1>2, <1>3, <1>4, <1>5, <1>6, <1>7, <1>8, <1>9 DEF Next, TaskNext, WakerNext

LEMMA SlotStep ==
  ASSUME IInv, [Next]_vars
  PROVE  SlotTaken' /\ SlotIsOwn'
<1> USE DEF IInv, TypeOK, SlotTaken, SlotIsOwn, Registered
<1>1. ASSUME NEW t \in Tasks, Start(t) PROVE SlotTaken' /\ SlotIsOwn'
  BY <1>1 DEF Start
<1>2. ASSUME NEW t \in Tasks, Claim(t) PROVE SlotTaken' /\ SlotIsOwn'
  <2>1. id[t] \in Slots
    BY <1>2 DEF Claim
  <2> QED BY <1>2, <2>1 DEF Claim
<1>3. ASSUME NEW t \in Tasks, Skip(t) PROVE SlotTaken' /\ SlotIsOwn'
  BY <1>3 DEF Skip
<1>4. ASSUME NEW t \in Tasks,
             \/ \E s \in Sets : AddTask(t, s)
             \/ Unpark(t) \/ StrayNotify(t) \/ Delete(t)
      PROVE  SlotTaken' /\ SlotIsOwn'
  <2>1. CASE \E s \in Sets : AddTask(t, s)
    BY <2>1 DEF AddTask, Running
  <2>2. CASE Unpark(t)
    BY <2>2 DEF Unpark
  <2>3. CASE StrayNotify(t)
    BY <2>3 DEF StrayNotify
  <2>4. CASE Delete(t)
    <3>1. /\ pc[t] = "leave" /\ pc' = [pc EXCEPT ![t] = "dead"]
          /\ id' = id /\ slot' = slot
      BY <2>4 DEF Delete
    <3>2. SlotTaken'
      BY <3>1
    <3>3. SlotIsOwn'
      BY <3>1
    <3> QED BY <3>2, <3>3
  <2> QED
    BY ONLY <1>4, <2>1, <2>2, <2>3, <2>4
<1>5. ASSUME NEW t \in Tasks, Exit(t) PROVE SlotTaken' /\ SlotIsOwn'
  <2>1. pc[t] = "run"
    BY <1>5 DEF Exit, Running
  <2>2. slot[id[t]] = t
    BY <2>1
  <2>3. id[t] \in Slots
    BY <2>1 DEF ScanFindsSlot, Alive
  <2> QED BY <1>5, <2>2, <2>3 DEF Exit
<1>6. ASSUME NEW w \in Wakers, WakerNext(w) PROVE SlotTaken' /\ SlotIsOwn'
  <2>1. id' = id /\ slot' = slot /\ pc' = pc
    BY <1>6 DEF WakerNext, TakeWakeable, Load, Notify
  <2> QED BY <2>1
<1>7. CASE UNCHANGED vars
  BY <1>7 DEF vars
<1> QED BY <1>1, <1>2, <1>3, <1>4, <1>5, <1>6, <1>7 DEF Next, TaskNext

(* Passing slot i leaves its owner behind.                                 *)
LEMMA SkipRoom ==
  ASSUME IInv, NEW t \in Tasks, Skip(t)
  PROVE  RoomBeyond'
<1> USE DEF IInv, TypeOK
<1> DEFINE i == id[t]
           u == slot[i]
<1>1. /\ i \in Slots /\ u \in Tasks /\ u # t /\ id[u] = i
      /\ t \in Alive /\ u \in Alive
      /\ Alive' = Alive /\ id' = [id EXCEPT ![t] = i + 1]
  BY DEF Skip, SlotTaken, Registered, Alive
<1> SUFFICES ASSUME NEW j \in 0 .. MaxTasks
             PROVE  Cardinality(Beyond(j)') <= MaxTasks - j
  BY DEF RoomBeyond
<1>3. CASE j = i + 1
  <2>1. Beyond(j)' \subseteq Beyond(i) \ {u}
    BY <1>1, <1>3 DEF Beyond, Alive
  <2>2. IsFiniteSet(Beyond(i)) /\ Cardinality(Beyond(i)) \in Nat
    BY <1>1, BeyondFinite
  <2>3. u \in Beyond(i)
    BY <1>1 DEF Beyond
  <2>4. /\ IsFiniteSet(Beyond(i) \ {u})
        /\ Cardinality(Beyond(i) \ {u}) = Cardinality(Beyond(i)) - 1
    BY <2>2, <2>3, FS_RemoveElement
  <2>5. /\ IsFiniteSet(Beyond(j)')
        /\ Cardinality(Beyond(j)') <= Cardinality(Beyond(i) \ {u})
    BY <2>1, <2>4, FS_Subset
  <2>6. Cardinality(Beyond(j)') \in Nat
    BY <2>5, FS_CardinalityType
  <2>7. Cardinality(Beyond(i)) <= MaxTasks - i
    BY <1>1 DEF RoomBeyond
  <2> HIDE DEF i, u
  <2> QED BY <1>1, <1>3, <2>2, <2>4, <2>5, <2>6, <2>7
<1>4. CASE j # i + 1
  <2>1. Beyond(j)' = Beyond(j)
    BY <1>1, <1>4 DEF Beyond, Alive
  <2> QED BY <2>1 DEF RoomBeyond
<1> QED BY <1>3, <1>4

LEMMA StartRoom ==
  ASSUME IInv, NEW t \in Tasks, Start(t)
  PROVE  RoomBeyond'
<1> USE DEF IInv, TypeOK
<1>1. /\ Alive' = Alive \cup {t} /\ t \notin Alive
      /\ id' = [id EXCEPT ![t] = 0] /\ Cardinality(Alive) < MaxTasks
  BY DEF Start, Alive
<1> SUFFICES ASSUME NEW j \in 0 .. MaxTasks
             PROVE  Cardinality(Beyond(j)') <= MaxTasks - j
  BY DEF RoomBeyond
<1>2. CASE j = 0
  <2>1. Beyond(j)' = Alive \cup {t}
    BY <1>1, <1>2 DEF Beyond, Alive
  <2>2. Alive \in SUBSET Tasks
    BY DEF Alive
  <2>3. IsFiniteSet(Alive) /\ Cardinality(Alive) \in Nat
    BY <2>2, FS_Subset, FS_CardinalityType
  <2>4. Cardinality(Alive \cup {t}) = Cardinality(Alive) + 1
    BY <1>1, <2>3, FS_AddElement
  <2>5. Cardinality(Beyond(j)') = Cardinality(Alive) + 1
    BY <2>1, <2>4
  <2>6. Cardinality(Alive) + 1 <= MaxTasks
    BY <1>1, <2>3
  <2> QED BY <1>2, <2>5, <2>6
<1>3. CASE j # 0
  <2>1. Beyond(j)' = Beyond(j)
    BY <1>1, <1>3 DEF Beyond, Alive
  <2> QED BY <2>1 DEF RoomBeyond
<1> QED BY <1>2, <1>3

LEMMA RoomStep ==
  ASSUME IInv, [Next]_vars
  PROVE  RoomBeyond'
<1> USE DEF IInv
<1>1. ASSUME NEW t \in Tasks, Start(t) PROVE RoomBeyond'
  BY <1>1, StartRoom
<1>2. ASSUME NEW t \in Tasks, Skip(t) PROVE RoomBeyond'
  BY <1>2, SkipRoom
<1>3. ASSUME id' = id, Alive' \subseteq Alive PROVE RoomBeyond'
  <2>1. \A i \in 0 .. MaxTasks : Beyond(i)' \subseteq Beyond(i)
    BY <1>3 DEF Beyond
  <2> QED BY <2>1, RoomKept
<1>4. ASSUME NEW t \in Tasks,
             \/ Claim(t) \/ (\E s \in Sets : AddTask(t, s)) \/ Unpark(t)
             \/ StrayNotify(t) \/ Exit(t) \/ Delete(t)
      PROVE  RoomBeyond'
  BY <1>3, <1>4 DEF Claim, AddTask, Running, Unpark, StrayNotify, Exit, Delete, Alive, TypeOK
<1>5. ASSUME NEW w \in Wakers, WakerNext(w) PROVE RoomBeyond'
  BY <1>3, <1>5 DEF WakerNext, TakeWakeable, Load, Notify, Alive
<1>6. CASE UNCHANGED vars
  BY <1>3, <1>6 DEF vars, Alive
<1> QED BY <1>1, <1>2, <1>4, <1>5, <1>6 DEF Next, TaskNext

LEMMA SleeperStep ==
  ASSUME IInv, [Next]_vars
  PROVE  SleeperReachable'
<1> USE DEF IInv, TypeOK, SleeperReachable
<1>1. ASSUME NEW t \in Tasks, Start(t) PROVE SleeperReachable'
  BY <1>1 DEF Start
<1>2. ASSUME NEW t \in Tasks, Claim(t) PROVE SleeperReachable'
  BY <1>2 DEF Claim
<1>3. ASSUME NEW t \in Tasks, Skip(t) PROVE SleeperReachable'
  BY <1>3 DEF Skip
<1>4. ASSUME NEW t \in Tasks, NEW s \in Sets, AddTask(t, s) PROVE SleeperReachable'
  BY <1>4 DEF AddTask
<1>5. ASSUME NEW t \in Tasks, Unpark(t) \/ StrayNotify(t) PROVE SleeperReachable'
  BY <1>5 DEF Unpark, StrayNotify
<1>6. ASSUME NEW t \in Tasks, Exit(t) \/ Delete(t) PROVE SleeperReachable'
  BY <1>6 DEF Exit, Delete
<1>7. ASSUME NEW w \in Wakers, NEW s \in Sets, TakeWakeable(w, s) PROVE SleeperReachable'
  <2>1. \A i \in Slots :
          (\E r \in Sets : i \in bits[r]) => i \in hand'[w] \/ \E r \in Sets : i \in bits'[r]
    BY <1>7 DEF TakeWakeable
  <2>2. \A v \in Wakers : hand[v] \subseteq hand'[v]
    BY <1>7 DEF TakeWakeable, Waking
  <2>3. /\ pc' = pc /\ id' = id /\ loaded' = loaded /\ notified' = notified
        /\ w \in Wakers
    BY <1>7 DEF TakeWakeable
  <2> SUFFICES ASSUME NEW u \in Tasks, pc[u] = "park", ~notified[u]
               PROVE  \/ \E r \in Sets : id[u] \in bits'[r]
                      \/ \E v \in Wakers : id[u] \in hand'[v] \/ loaded[v] = u
    BY <2>3
  <2>4. id[u] \in Slots
    BY DEF ScanFindsSlot, Alive
  <2> QED BY <2>1, <2>2, <2>3, <2>4
<1>8. ASSUME NEW w \in Wakers, Load(w) PROVE SleeperReachable'
  <2>1. PICK i \in hand[w] :
          /\ hand' = [hand EXCEPT ![w] = @ \ {i}]
          /\ loaded' = [loaded EXCEPT ![w] = slot[i]]
    BY <1>8 DEF Load, NextBit
  <2>2. /\ pc' = pc /\ id' = id /\ bits' = bits /\ notified' = notified
        /\ loaded[w] = None
    BY <1>8 DEF Load
  <2> SUFFICES ASSUME NEW u \in Tasks, pc[u] = "park", ~notified[u]
               PROVE  \/ \E r \in Sets : id[u] \in bits[r]
                      \/ \E v \in Wakers : id[u] \in hand'[v] \/ loaded'[v] = u
    BY <2>2
  <2>3. CASE id[u] = i
    BY <2>1, <2>3 DEF SlotIsOwn, Registered
  <2>4. CASE id[u] # i
    <3>1. \A v \in Wakers : id[u] \in hand[v] => id[u] \in hand'[v]
      BY <2>1, <2>4
    <3>2. \A v \in Wakers : loaded[v] = u => loaded'[v] = u
      BY <2>1, <2>2
    <3> QED BY <3>1, <3>2
  <2> QED BY <2>3, <2>4
<1>9. ASSUME NEW w \in Wakers, Notify(w) PROVE SleeperReachable'
  <2>1. \A u \in Tasks : ~notified'[u] => ~notified[u] /\ loaded[w] # u
    BY <1>9 DEF Notify
  <2>2. /\ pc' = pc /\ id' = id /\ bits' = bits /\ hand' = hand
        /\ \A v \in Wakers : v # w => loaded'[v] = loaded[v]
    BY <1>9 DEF Notify
  <2> QED BY <2>1, <2>2
<1>10. CASE UNCHANGED vars
  BY <1>10 DEF vars
<1> QED
  BY <1>1, <1>2, <1>3, <1>4, <1>5, <1>6, <1>7, <1>8, <1>9, <1>10 DEF Next, TaskNext, WakerNext

LEMMA RunStep ==
  ASSUME IInv, [Next]_vars
  PROVE  WakersRun'
<1> USE DEF IInv, TypeOK, WakersRun, Waking, Running
<1>1. ASSUME NEW t \in Tasks, Start(t) \/ Claim(t) \/ Skip(t) PROVE WakersRun'
  BY <1>1 DEF Start, Claim, Skip
<1>2. ASSUME NEW t \in Tasks,
             \/ \E s \in Sets : AddTask(t, s)
             \/ Unpark(t) \/ StrayNotify(t) \/ Exit(t) \/ Delete(t)
      PROVE  WakersRun'
  BY <1>2 DEF AddTask, Unpark, StrayNotify, Exit, Delete
<1>3. ASSUME NEW w \in Wakers, NEW s \in Sets, TakeWakeable(w, s) PROVE WakersRun'
  BY <1>3 DEF TakeWakeable
<1>4. ASSUME NEW w \in Wakers, Load(w) \/ Notify(w) PROVE WakersRun'
  BY <1>4 DEF Load, Notify, NextBit
<1>5. CASE UNCHANGED vars
  BY <1>5 DEF vars
<1> QED BY <1>1, <1>2, <1>3, <1>4, <1>5 DEF Next, TaskNext, WakerNext

(* The wake-up moves from a set to a hand to a pointer to FreeRTOS, and is *)
(* used up by the task it wakes; a new one is made by a task that runs, of *)
(* which there is none.                                                    *)
LEMMA WakeupStep ==
  ASSUME IInv, [Next]_vars
  PROVE  OneWakeup'
<1> SUFFICES ASSUME ~stray' PROVE InSet' /\ InHand' /\ Loaded' /\ Pending'
  BY DEF OneWakeup
<1>0. ~stray
  BY DEF Next, TaskNext, WakerNext, Start, Claim, Skip, AddTask, Unpark, StrayNotify,
         Exit, Delete, TakeWakeable, Load, Notify, vars
<1>a. InSet /\ InHand /\ Loaded /\ Pending
  BY <1>0 DEF IInv, OneWakeup
<1>b. /\ TypeOK
      /\ \A t \in Tasks : Registered(t) => slot[id[t]] = t
      /\ \A i \in Slots : slot[i] # None => Registered(slot[i]) /\ id[slot[i]] = i
      /\ \A t \in Tasks : pc[t] # "dead" => id[t] \in Slots
  BY DEF IInv, SlotIsOwn, SlotTaken, ScanFindsSlot, Alive, TypeOK
<1> USE <1>0, <1>a, <1>b
<1> USE DEF TypeOK, InSet, InHand, Loaded, Pending, Sleeping, Registered
<1>1. ASSUME NEW t \in Tasks, Start(t) PROVE InSet' /\ InHand' /\ Loaded' /\ Pending'
  BY <1>1 DEF Start
<1>2. ASSUME NEW t \in Tasks, Claim(t) PROVE InSet' /\ InHand' /\ Loaded' /\ Pending'
  BY <1>2 DEF Claim
<1>3. ASSUME NEW t \in Tasks, Skip(t) PROVE InSet' /\ InHand' /\ Loaded' /\ Pending'
  BY <1>3 DEF Skip
<1>4. ASSUME NEW t \in Tasks, NEW s \in Sets, AddTask(t, s)
      PROVE  InSet' /\ InHand' /\ Loaded' /\ Pending'
  BY <1>4 DEF AddTask, Running
<1>5. ASSUME NEW t \in Tasks, Unpark(t) PROVE InSet' /\ InHand' /\ Loaded' /\ Pending'
  BY <1>5 DEF Unpark
<1>6. ASSUME NEW t \in Tasks, Exit(t) PROVE InSet' /\ InHand' /\ Loaded' /\ Pending'
  BY <1>6 DEF Exit, Running
<1>7. ASSUME NEW t \in Tasks, Delete(t) \/ StrayNotify(t)
      PROVE  InSet' /\ InHand' /\ Loaded' /\ Pending'
  BY <1>7 DEF Delete, StrayNotify
<1>8. ASSUME NEW w \in Wakers, NEW s \in Sets, TakeWakeable(w, s)
      PROVE  InSet' /\ InHand' /\ Loaded' /\ Pending'
  BY <1>8 DEF TakeWakeable, Waking
<1>9. ASSUME NEW w \in Wakers, Load(w) PROVE InSet' /\ InHand' /\ Loaded' /\ Pending'
  BY <1>9 DEF Load, NextBit
<1>10. ASSUME NEW w \in Wakers, Notify(w) PROVE InSet' /\ InHand' /\ Loaded' /\ Pending'
  BY <1>10 DEF Notify
<1>11. CASE UNCHANGED vars
  BY <1>11 DEF vars
<1> QED
  BY <1>1, <1>2, <1>3, <1>4, <1>5, <1>6, <1>7, <1>8, <1>9, <1>10, <1>11
  DEF Next, TaskNext, WakerNext

LEMMA NextIInv == IInv /\ [Next]_vars => IInv'
<1> SUFFICES ASSUME IInv, [Next]_vars PROVE IInv'
  OBVIOUS
<1>1. TypeOK'
  BY TypeStep DEF IInv
<1>2. RoomBeyond'
  BY RoomStep
<1>3. ScanFindsSlot'
  <2>1. TypeOK' /\ RoomBeyond' => ScanFindsSlot'
    BY RoomMeansSlot, PTL
  <2> QED BY <1>1, <1>2, <2>1
<1> QED BY <1>1, <1>2, <1>3, SlotStep, SleeperStep, RunStep, WakeupStep DEF IInv

----------------------------------------------------------------------------
(* The registry keeps the promise of WakerSets *)

(* What the sets and the hands stand for depends on these variables alone. *)
LEMMA SameUsers ==
  ASSUME UNCHANGED <<slot, bits, hand, loaded>> PROVE UNCHANGED <<Members, Hands>>
BY DEF Members, Hands, Users

(* A slot that changes hands shows in no set and no hand but with its old  *)
(* or new task, and not at all if its bit is nowhere.                      *)
LEMMA Handover ==
  ASSUME TypeOK, TypeOK', NEW t \in Tasks, NEW i \in Slots,
         slot[i] \in {t, None}, slot'[i] \in {t, None},
         \A j \in Slots \ {i} : slot'[j] = slot[j],
         UNCHANGED <<bits, hand, loaded>>
  PROVE  /\ \A s \in Sets : Members'[s] \ {t} = Members[s] \ {t}
         /\ \A w \in Wakers : Hands'[w] \ {t} = Hands[w] \ {t}
         /\ (\A s \in Sets : i \notin bits[s]) /\ (\A w \in Wakers : i \notin hand[w])
               => UNCHANGED <<Members, Hands>>
<1>1. ASSUME NEW S \in SUBSET Slots
      PROVE  /\ {slot'[j] : j \in S} \ {None, t} = {slot[j] : j \in S} \ {None, t}
             /\ i \notin S => {slot'[j] : j \in S} = {slot[j] : j \in S}
  OBVIOUS
<1>2. /\ \A s \in Sets : bits[s] \in SUBSET Slots
      /\ \A w \in Wakers : hand[w] \in SUBSET Slots
  BY DEF TypeOK
<1>3. \A s \in Sets : Members'[s] \ {t} = Members[s] \ {t}
  BY <1>1, <1>2 DEF Members, Users
<1>4. \A w \in Wakers : Hands'[w] \ {t} = Hands[w] \ {t}
  BY <1>1, <1>2 DEF Hands, Users
<1>5. (\A s \in Sets : i \notin bits[s]) => Members' = Members
  BY <1>1, <1>2 DEF Members, Users
<1>6. (\A w \in Wakers : i \notin hand[w]) => Hands' = Hands
  BY <1>1, <1>2 DEF Hands, Users
<1> QED BY <1>3, <1>4, <1>5, <1>6

LEMMA PromiseInit == Init => Promise!Init
<1> SUFFICES ASSUME Init PROVE Promise!Init
  OBVIOUS
<1>1. Members = [s \in Sets |-> {}] /\ Hands = [w \in Wakers |-> {}]
  BY DEF Init, Members, Hands, Users
<1>2. Parked = {}
  BY DEF Init, Parked
<1>3. Pends = [w \in Wakers |-> FALSE]
  <2>1. \A w \in Wakers : (w \in Tasks /\ notified[w]) = FALSE
    BY DEF Init
  <2> QED BY <2>1 DEF Pends
<1> QED BY <1>1, <1>2, <1>3 DEF Promise!Init, Promise!WakerInit, Init

(* Of a step that keeps every task's pc in or out of park.                 *)
LEMMA SameParked ==
  ASSUME TypeOK, NEW t \in Tasks, NEW l \in Locs \ {"park"}, pc[t] # "park", Goto(t, l)
  PROVE  Parked' = Parked /\ t \notin Parked
BY DEF TypeOK, Parked

LEMMA PendsSet ==
  ASSUME TypeOK, NEW t \in Tasks, NEW b \in BOOLEAN, notified' = [notified EXCEPT ![t] = b]
  PROVE  Pends' = [Pends EXCEPT ![t] = b]
<1>1. notified \in [Tasks -> BOOLEAN]
  BY DEF TypeOK
<1>2. \A w \in Wakers : (w \in Tasks /\ notified'[w]) = (IF w = t THEN b ELSE w \in Tasks /\ notified[w])
  BY <1>1
<1> QED BY <1>2 DEF Pends

(* Where there are no stray notifications a bit is that of a sleeper.      *)
LEMMA BitsOfSleepers ==
  ASSUME IInv, ~stray, NEW i \in Slots, slot[i] = None \/ pc[slot[i]] = "run"
  PROVE  (\A s \in Sets : i \notin bits[s]) /\ (\A w \in Wakers : i \notin hand[w])
BY DEF IInv, OneWakeup, InSet, InHand, Sleeping

(* Two sides of a slot's change: the claim and the exit.                   *)
LEMMA PromiseExchange ==
  ASSUME IInv, TypeOK', NEW t \in Tasks, Claim(t) \/ Exit(t)
  PROVE  [Promise!Next]_Promise!setVars
<1> DEFINE i == id[t]
<1>1. TypeOK /\ i \in Slots
  BY DEF IInv, Claim, Exit, Running, TypeOK, ScanFindsSlot, Alive
<1>2. /\ slot[i] = None \/ (slot[i] = t /\ pc[slot[i]] = "run")
      /\ slot'[i] \in {t, None} /\ \A j \in Slots \ {i} : slot'[j] = slot[j]
      /\ UNCHANGED <<bits, hand, loaded, notified, stray>>
  BY <1>1 DEF IInv, Claim, Exit, Running, SlotIsOwn, Registered, TypeOK
<1>3. /\ \A s \in Sets : Members'[s] \ {t} = Members[s] \ {t}
      /\ \A w \in Wakers : Hands'[w] \ {t} = Hands[w] \ {t}
      /\ (\A s \in Sets : i \notin bits[s]) /\ (\A w \in Wakers : i \notin hand[w])
            => UNCHANGED <<Members, Hands>>
  BY <1>1, <1>2, Handover
<1>4. Parked' = Parked /\ t \notin Parked
  BY <1>1, SameParked DEF Claim, Exit, Running
<1>5. UNCHANGED <<Pends, stray>>
  BY <1>2 DEF Pends
<1>6. CASE stray
  <2>1. Members' \in [Sets -> SUBSET Wakers] /\ Hands' \in [Wakers -> SUBSET Wakers]
    <3>1. /\ \A s \in Sets : Users(bits[s])' \subseteq Tasks
          /\ \A w \in Wakers : Users(hand[w])' \cup ({loaded'[w]} \ {None}) \subseteq Tasks
      BY DEF Users, TypeOK
    <3> QED BY <3>1 DEF Members, Hands
  <2>2. Promise!Exchange(t)
    BY <1>3, <1>4, <1>5, <2>1 DEF Promise!Exchange
  <2> QED BY <1>6, <2>2 DEF Promise!Next, Promise!Calls
<1>7. CASE ~stray
  <2>1. (\A s \in Sets : i \notin bits[s]) /\ (\A w \in Wakers : i \notin hand[w])
    BY <1>1, <1>2, <1>7, BitsOfSleepers
  <2> QED BY <1>3, <1>4, <1>5, <2>1 DEF Promise!setVars
<1> QED BY <1>6, <1>7

LEMMA PromiseStart ==
  ASSUME IInv, NEW t \in Tasks, Start(t)
  PROVE  [Promise!Next]_Promise!setVars
<1>1. TypeOK /\ pc[t] = "dead" /\ UNCHANGED <<Members, Hands, stray>>
  BY SameUsers DEF IInv, Start
<1>2. Parked' = Parked /\ t \notin Parked
  BY <1>1, SameParked DEF Start
<1>3. Pends' = [Pends EXCEPT ![t] = FALSE]
  BY <1>1, PendsSet DEF Start
<1>4. CASE stray
  <2>1. Promise!Renew(t)
    BY <1>1, <1>2, <1>3 DEF Promise!Renew
  <2> QED BY <1>4, <2>1 DEF Promise!Next, Promise!Calls
<1>5. CASE ~stray
  <2>1. ~notified[t]
    BY <1>1, <1>5 DEF IInv, OneWakeup, Pending
  <2>2. notified' = notified
    BY <1>1, <2>1 DEF Start, TypeOK
  <2>3. Pends' = Pends
    BY <2>2 DEF Pends
  <2> QED BY <1>1, <1>2, <2>3 DEF Promise!setVars
<1> QED BY <1>4, <1>5

LEMMA PromiseRegister ==
  ASSUME IInv, NEW t \in Tasks, NEW s \in Sets, AddTask(t, s)
  PROVE  Promise!Register(t, s)
<1>1. /\ TypeOK /\ pc[t] = "run" /\ slot[id[t]] = t /\ UNCHANGED <<Pends, Hands, stray>>
      /\ bits' = [bits EXCEPT ![s] = @ \cup {id[t]}] /\ slot' = slot
  BY DEF IInv, AddTask, Running, SlotIsOwn, Registered, Pends, Hands, Users
<1>2. t \notin Parked /\ Parked' = Parked \cup {t}
  BY <1>1 DEF AddTask, Parked, TypeOK
<1>3. Users(bits[s] \cup {id[t]}) = Users(bits[s]) \cup {t}
  BY <1>1 DEF Users
<1>4. \A r \in Sets : Members'[r] = IF r = s THEN Members[s] \cup {t} ELSE Members[r]
  BY <1>1, <1>3 DEF Members, Users, TypeOK
<1>5. Members' = [Members EXCEPT ![s] = Members[s] \cup {t}]
  BY <1>4 DEF Members
<1> QED BY <1>1, <1>2, <1>5 DEF Promise!Register, Promise!AddTask

LEMMA PromiseReturn ==
  ASSUME IInv, NEW t \in Tasks, Unpark(t)
  PROVE  Promise!Return(t)
<1>1. TypeOK /\ pc[t] = "park" /\ notified[t] /\ UNCHANGED <<Members, Hands, stray>>
  BY SameUsers DEF IInv, Unpark
<1>2. t \in Parked /\ Parked' = Parked \ {t}
  BY <1>1 DEF Unpark, Parked, TypeOK
<1>3. Pends' = [Pends EXCEPT ![t] = FALSE]
  BY <1>1, PendsSet DEF Unpark
<1>4. Pends[t]
  BY <1>1 DEF Pends
<1> QED BY <1>1, <1>2, <1>3, <1>4 DEF Promise!Return, Promise!NotifyWait

LEMMA PromiseTake ==
  ASSUME IInv, NEW w \in Wakers, NEW s \in Sets, TakeWakeable(w, s)
  PROVE  Promise!Take(w, s)
<1>1. /\ TypeOK /\ hand[w] = {} /\ loaded[w] = None
      /\ hand' = [hand EXCEPT ![w] = bits[s]] /\ bits' = [bits EXCEPT ![s] = {}]
      /\ UNCHANGED <<slot, loaded, pc, notified, stray>>
  BY DEF IInv, TakeWakeable, Waking
<1>2. UNCHANGED <<Parked, Pends>>
  BY <1>1 DEF Parked, Pends
<1>3. Hands[w] = {}
  BY <1>1 DEF Hands, Users
<1>4. Hands' = [Hands EXCEPT ![w] = Members[s]]
  <2>1. \A v \in Wakers : Hands'[v] = IF v = w THEN Members[s] ELSE Hands[v]
    BY <1>1 DEF Hands, Members, Users, TypeOK
  <2> QED BY <2>1 DEF Hands
<1>5. Members' = [Members EXCEPT ![s] = {}]
  <2>1. \A r \in Sets : Members'[r] = IF r = s THEN {} ELSE Members[r]
    BY <1>1 DEF Members, Users, TypeOK
  <2> QED BY <2>1 DEF Members
<1> QED BY <1>1, <1>2, <1>3, <1>4, <1>5 DEF Promise!Take, Promise!TakeWakeable

(* The pointer stands for the task the bit stood for.                      *)
LEMMA PromiseLoad ==
  ASSUME IInv, NEW w \in Wakers, Load(w)
  PROVE  UNCHANGED Promise!setVars
<1>1. PICK i \in hand[w] :
        /\ hand' = [hand EXCEPT ![w] = @ \ {i}]
        /\ loaded' = [loaded EXCEPT ![w] = slot[i]]
  BY DEF Load, NextBit
<1>2. TypeOK /\ loaded[w] = None /\ UNCHANGED <<pc, slot, bits, notified, stray>>
  BY DEF IInv, Load
<1>3. {slot[j] : j \in hand[w]} = {slot[j] : j \in hand[w] \ {i}} \cup {slot[i]}
  OBVIOUS
<1>4. \A v \in Wakers : Hands'[v] = Hands[v]
  BY <1>1, <1>2, <1>3 DEF Hands, Users, TypeOK
<1>5. Hands' = Hands
  BY <1>4 DEF Hands
<1>6. UNCHANGED <<Members, Parked, Pends>>
  BY <1>2 DEF Members, Users, Parked, Pends
<1> QED BY <1>2, <1>5, <1>6 DEF Promise!setVars

LEMMA PromiseNotify ==
  ASSUME IInv, NEW w \in Wakers, Notify(w)
  PROVE  Promise!Next
<1> DEFINE t == loaded[w]
<1>1. /\ TypeOK /\ t \in Tasks /\ notified' = [notified EXCEPT ![t] = TRUE]
      /\ loaded' = [loaded EXCEPT ![w] = None]
      /\ UNCHANGED <<pc, slot, bits, hand, stray>>
  BY DEF IInv, Notify, TypeOK
<1>2. Pends' = [Pends EXCEPT ![t] = TRUE]
  BY <1>1, PendsSet
<1>3. UNCHANGED <<Members, Parked>>
  BY <1>1 DEF Members, Users, Parked
<1>4. \A v \in Wakers : Hands'[v] = IF v = w THEN Users(hand[w]) ELSE Hands[v]
  BY <1>1 DEF Hands, Users, TypeOK
<1>5. t \in Hands[w] /\ Hands[w] = Users(hand[w]) \cup {t}
  BY <1>1 DEF Hands
<1>f. Hands = [v \in Wakers |-> Hands[v]] /\ Hands' = [v \in Wakers |-> Hands'[v]]
  BY DEF Hands
<1>6. CASE t \in Users(hand[w])
  <2>1. Hands' = Hands
    <3>1. \A v \in Wakers : Hands'[v] = Hands[v]
      BY <1>4, <1>5, <1>6
    <3> QED BY <1>f, <3>1
  <2>2. stray
    BY <1>1, <1>6 DEF IInv, OneWakeup, InHand, Users
  <2>3. Promise!Disturb(t)
    BY <1>1, <1>2, <1>3, <2>1 DEF Promise!Disturb, Promise!SpuriousWake
  <2> QED BY <1>1, <2>2, <2>3 DEF Promise!Next, Promise!Calls
<1>7. CASE t \notin Users(hand[w])
  <2>1. Hands' = [Hands EXCEPT ![w] = Hands[w] \ {t}]
    <3>1. \A v \in Wakers : Hands'[v] = IF v = w THEN Hands[w] \ {t} ELSE Hands[v]
      BY <1>4, <1>5, <1>7
    <3> QED BY <1>f, <3>1
  <2>2. Promise!Wake(w, t)
    BY <1>1, <1>2, <1>3, <1>5, <2>1 DEF Promise!Wake, Promise!Notify
  <2> QED BY <1>1, <2>2 DEF Promise!Next, Promise!Calls
<1> QED BY <1>6, <1>7

LEMMA PromiseStray ==
  ASSUME IInv, NEW t \in Tasks, StrayNotify(t)
  PROVE  stray /\ Promise!Disturb(t)
<1>1. TypeOK /\ stray /\ UNCHANGED <<Members, Hands, Parked, stray>>
  BY SameUsers DEF IInv, StrayNotify, Parked
<1>2. Pends' = [Pends EXCEPT ![t] = TRUE]
  BY <1>1, PendsSet DEF StrayNotify
<1> QED BY <1>1, <1>2 DEF Promise!Disturb, Promise!SpuriousWake

LEMMA PromiseStep ==
  ASSUME IInv, TypeOK', [Next]_vars
  PROVE  [Promise!Next]_Promise!setVars
<1>1. ASSUME NEW t \in Tasks, TaskNext(t) PROVE [Promise!Next]_Promise!setVars
  <2>1. CASE Start(t)
    BY <2>1, PromiseStart
  <2>2. CASE Claim(t) \/ Exit(t)
    BY <2>2, PromiseExchange
  <2>3. CASE \E s \in Sets : AddTask(t, s)
    BY <2>3, PromiseRegister DEF Promise!Next, Promise!Calls
  <2>4. CASE Unpark(t)
    BY <2>4, PromiseReturn DEF Promise!Next, Promise!Calls
  <2>5. CASE StrayNotify(t)
    BY <2>5, PromiseStray DEF Promise!Next, Promise!Calls
  <2>6. CASE Skip(t) \/ Delete(t)
    <3>1. UNCHANGED <<Members, Hands, notified, stray>>
      BY <2>6, SameUsers DEF Skip, Delete
    <3>2. UNCHANGED <<Parked, Pends>>
      BY <2>6, SameParked DEF Skip, Delete, Parked, Pends, IInv
    <3> QED BY <3>1, <3>2 DEF Promise!setVars
  <2> QED BY <1>1, <2>1, <2>2, <2>3, <2>4, <2>5, <2>6 DEF TaskNext
<1>2. ASSUME NEW w \in Wakers, WakerNext(w) PROVE [Promise!Next]_Promise!setVars
  <2>1. CASE \E s \in Sets : TakeWakeable(w, s)
    BY <2>1, PromiseTake DEF Promise!Next, Promise!Calls
  <2>2. CASE Load(w)
    BY <2>2, PromiseLoad
  <2>3. CASE Notify(w)
    BY <2>3, PromiseNotify
  <2> QED BY <1>2, <2>1, <2>2, <2>3 DEF WakerNext
<1>3. CASE UNCHANGED vars
  <2>1. UNCHANGED <<Members, Hands, Parked, Pends, stray>>
    BY <1>3, SameUsers DEF vars, Parked, Pends
  <2> QED BY <2>1 DEF Promise!setVars
<1> QED BY <1>1, <1>2, <1>3 DEF Next

(* The inductive invariant of the registry.                                *)
THEOREM Invariance == Spec => []IInv
BY InitIInv, NextIInv, PTL DEF Spec

(* Every behaviour keeps the variables in their types.                     *)
THEOREM TypeCorrect == Spec => []TypeOK
BY Invariance, PTL DEF IInv

(* Registration never runs out of slots while no more tasks are alive than *)
(* there are slots, however claims and exits interleave with the scan.     *)
THEOREM NeverOutOfSlots == Spec => []ScanFindsSlot
BY Invariance, PTL DEF IInv

(* A registered task is in its slot, and so is alone there.                *)
THEOREM OneTaskPerSlot == Spec => []SlotIsOwn
BY Invariance, PTL DEF IInv

(* A sleeper can be woken through the bit of its slot, whatever bits other *)
(* tasks left behind.                                                      *)
THEOREM BitsReachSleepers == Spec => []SleeperReachable
BY Invariance, PTL DEF IInv

(* waker.rs, wake: a task is not deleted between the load of its pointer    *)
(* and the notification through it, unless stray notifications exist.       *)
THEOREM PointersAreGood == Spec => []WakersFindTask
<1>1. IInv => WakersFindTask
  BY DEF IInv, OneWakeup, Loaded, WakersFindTask
<1> QED BY Invariance, <1>1, PTL

(* TaskWaker.tla's abstraction is sound: what tasks, slots and pointers do *)
(* is, as far as a primitive can tell, what WakerSets promises, and without *)
(* stray notifications nobody enters or leaves a set but by registering and *)
(* being taken.                                                            *)
THEOREM ImplementsSets == Spec => WakerSetsSpec
<1>1. IInv /\ IInv' /\ [Next]_vars => [Promise!Next]_Promise!setVars
  BY PromiseStep DEF IInv
<1> QED BY Invariance, PromiseInit, <1>1, PTL DEF Spec, WakerSetsSpec, Promise!Spec
=============================================================================
