---------------------------- MODULE TaskRegistry ----------------------------
(***************************************************************************)
(* src/src/system/task/registry.rs and the bit sets of                     *)
(* src/src/system/task/waker.rs below the level of TaskWaker.tla: a task   *)
(* that runs futures claims one of MAX_TASKS slots, its slot number is its *)
(* bit in every TaskWakerSet, the slot is cleared when its future is done, *)
(* and the task is deleted after that.                                     *)
(*                                                                         *)
(* Claiming is a scan, one compare-and-swap per slot, with other tasks     *)
(* claiming and clearing around it.  Waking is a swap of the bits and      *)
(* then, bit by bit, the load of a task's pointer from its slot and the    *)
(* notification through that pointer.                                      *)
(***************************************************************************)
EXTENDS Integers, FiniteSets

CONSTANTS
  Tasks,             \* FreeRTOS task control blocks; a dead one is used again
  Outside,           \* wakers that are no task: an interrupt, a callback
  Sets,              \* the TaskWakerSets of the primitives
  None,              \* the null pointer of an empty slot
  MaxTasks           \* MAX_TASKS, at most the width of the bit set

ASSUME TasksAssumption == IsFiniteSet(Tasks)
ASSUME NoneAssumption == None \notin Tasks
ASSUME OutsideAssumption == Outside \cap Tasks = {}
ASSUME MaxTasksAssumption == MaxTasks \in 1 .. 32

Slots == 0 .. MaxTasks - 1
Wakers == Tasks \cup Outside

VARIABLES
  pc,                \* where each task is in its life
  id,                \* the slot a task tries, then the one it has
  slot,              \* SLOTS
  bits,              \* the bits of each set
  hand,              \* slots a waker took from a set and has yet to look up
  loaded,            \* the pointer a waker looked up and has yet to notify
  notified,          \* FreeRTOS: a notification of the task is pending
  stray              \* whether anything but a waker set notifies tasks

vars == <<pc, id, slot, bits, hand, loaded, notified, stray>>

Locs == {"dead", "claim", "run", "park", "leave"}

TypeOK ==
  /\ pc \in [Tasks -> Locs]
  /\ id \in [Tasks -> 0 .. MaxTasks]
  /\ slot \in [Slots -> Tasks \cup {None}]
  /\ bits \in [Sets -> SUBSET Slots]
  /\ hand \in [Wakers -> SUBSET Slots]
  /\ loaded \in [Wakers -> Tasks \cup {None}]
  /\ notified \in [Tasks -> BOOLEAN]
  /\ stray \in BOOLEAN

(* The firmware itself has no stray notifications; waker.rs calls them     *)
(* safe, so both cases are looked at.                                      *)
Init ==
  /\ pc = [t \in Tasks |-> "dead"]
  /\ id = [t \in Tasks |-> 0]
  /\ slot = [i \in Slots |-> None]
  /\ bits = [s \in Sets |-> {}]
  /\ hand = [w \in Wakers |-> {}]
  /\ loaded = [w \in Wakers |-> None]
  /\ notified = [t \in Tasks |-> FALSE]
  /\ stray \in BOOLEAN

Goto(t, l) == pc' = [pc EXCEPT ![t] = l]

Alive == {t \in Tasks : pc[t] # "dead"}
Registered(t) == pc[t] \in {"run", "park"}
Waking(w) == hand[w] # {} \/ loaded[w] # None

(* A task between two calls of its future's poll, and not inside wake_all. *)
Running(t) == pc[t] = "run" /\ ~Waking(t)

(* spawn, up to the first compare-and-swap.  The firmware has one platform *)
(* task, one statistics task, one application task and its stream tasks:   *)
(* it counts on there never being more than MAX_TASKS.                     *)
Start(t) ==
  /\ pc[t] = "dead"
  /\ Cardinality(Alive) < MaxTasks
  /\ Goto(t, "claim")
  /\ id' = [id EXCEPT ![t] = 0]
  /\ notified' = [notified EXCEPT ![t] = FALSE]
  /\ UNCHANGED <<slot, bits, hand, loaded, stray>>

(* Defect: the claim stores whatever the slot holds.                       *)
ClaimBlind(t) ==
  /\ pc[t] = "claim"
  /\ id[t] < MaxTasks
  /\ slot' = [slot EXCEPT ![id[t]] = t]
  /\ Goto(t, "run")
  /\ UNCHANGED <<id, bits, hand, loaded, notified, stray>>

(* try_claim finds the slot empty.                                         *)
Claim(t) ==
  /\ pc[t] = "claim"
  /\ id[t] < MaxTasks
  /\ slot[id[t]] = None
  /\ slot' = [slot EXCEPT ![id[t]] = t]
  /\ Goto(t, "run")
  /\ UNCHANGED <<id, bits, hand, loaded, notified, stray>>

(* try_claim fails and the scan goes on.  At id = MaxTasks it has run out  *)
(* of slots and panics.                                                    *)
Skip(t) ==
  /\ pc[t] = "claim"
  /\ id[t] < MaxTasks
  /\ slot[id[t]] # None
  /\ id' = [id EXCEPT ![t] = @ + 1]
  /\ UNCHANGED <<pc, slot, bits, hand, loaded, notified, stray>>

(* Defect: the poll registers and is ready all the same.                   *)
AddTaskAndGoOn(t, s) ==
  /\ Running(t)
  /\ bits' = [bits EXCEPT ![s] = @ \cup {id[t]}]
  /\ UNCHANGED <<pc, id, slot, hand, loaded, notified, stray>>

(* A poll that cannot progress: add_task, then xTaskGenericNotifyWait.  No *)
(* future of the firmware registers twice, or registers and is ready.      *)
AddTask(t, s) ==
  /\ Running(t)
  /\ bits' = [bits EXCEPT ![s] = @ \cup {id[t]}]
  /\ Goto(t, "park")
  /\ UNCHANGED <<id, slot, hand, loaded, notified, stray>>

Unpark(t) ==
  /\ pc[t] = "park"
  /\ notified[t]
  /\ notified' = [notified EXCEPT ![t] = FALSE]
  /\ Goto(t, "run")
  /\ UNCHANGED <<id, slot, bits, hand, loaded, stray>>

(* wake_all, wake_from_isr: the swap.                                      *)
TakeWakeable(w, s) ==
  /\ ~Waking(w)
  /\ w \in Tasks => Running(w)
  /\ hand' = [hand EXCEPT ![w] = bits[s]]
  /\ bits' = [bits EXCEPT ![s] = {}]
  /\ UNCHANGED <<pc, id, slot, loaded, notified, stray>>

(* TaskId::iter visits the slots in order.                                 *)
NextBit(w) == {i \in hand[w] : \A j \in hand[w] : i <= j}

(* Defect: the iteration ends at the first slot found empty.               *)
LoadStops(w) ==
  /\ loaded[w] = None
  /\ \E i \in NextBit(w) :
       /\ hand' = [hand EXCEPT ![w] = IF slot[i] = None THEN {} ELSE @ \ {i}]
       /\ loaded' = [loaded EXCEPT ![w] = slot[i]]
  /\ UNCHANGED <<pc, id, slot, bits, notified, stray>>

(* One iteration: the slot is loaded now, long after its bit was set.      *)
Load(w) ==
  /\ loaded[w] = None
  /\ \E i \in NextBit(w) :
       /\ hand' = [hand EXCEPT ![w] = @ \ {i}]
       /\ loaded' = [loaded EXCEPT ![w] = slot[i]]
  /\ UNCHANGED <<pc, id, slot, bits, notified, stray>>

(* xTaskGenericNotify on the loaded pointer.  On a deleted task this is    *)
(* undefined behaviour, which the model follows no further.                *)
Notify(w) ==
  /\ loaded[w] # None
  /\ notified' = [notified EXCEPT ![loaded[w]] = TRUE]
  /\ loaded' = [loaded EXCEPT ![w] = None]
  /\ UNCHANGED <<pc, id, slot, bits, hand, stray>>

(* A notification that comes through no waker set.                         *)
StrayNotify(t) ==
  /\ stray
  /\ pc[t] # "dead"
  /\ notified' = [notified EXCEPT ![t] = TRUE]
  /\ UNCHANGED <<pc, id, slot, bits, hand, loaded, stray>>

(* Defect: the registration is dropped without clearing its slot.          *)
ExitKeepsSlot(t) ==
  /\ Running(t)
  /\ Goto(t, "leave")
  /\ UNCHANGED <<id, slot, bits, hand, loaded, notified, stray>>

(* execute returns and the registration is dropped: the slot is cleared.   *)
(* A bit of the slot stays where it is set.                                *)
Exit(t) ==
  /\ Running(t)
  /\ slot' = [slot EXCEPT ![id[t]] = None]
  /\ Goto(t, "leave")
  /\ UNCHANGED <<id, bits, hand, loaded, notified, stray>>

(* vTaskDelete                                                             *)
Delete(t) ==
  /\ pc[t] = "leave"
  /\ Goto(t, "dead")
  /\ UNCHANGED <<id, slot, bits, hand, loaded, notified, stray>>

TaskNext(t) ==
  \/ Start(t) \/ Claim(t) \/ Skip(t)
  \/ (\E s \in Sets : AddTask(t, s)) \/ Unpark(t) \/ StrayNotify(t)
  \/ Exit(t) \/ Delete(t)

WakerNext(w) == (\E s \in Sets : TakeWakeable(w, s)) \/ Load(w) \/ Notify(w)

Next == (\E t \in Tasks : TaskNext(t)) \/ (\E w \in Wakers : WakerNext(w))

Spec == Init /\ [][Next]_vars

----------------------------------------------------------------------------
(* Properties *)

(* new_for_current_task panics "all slots taken" only if there really were  *)
(* too many tasks: slots cleared behind the scan and claimed ahead of it    *)
(* never lead a task past all of them.                                      *)
ScanFindsSlot == \A t \in Alive : id[t] < MaxTasks

(* A registered task is in its slot, so no two have one number, whatever    *)
(* the order of claims, exits and claims of the same slot again.            *)
SlotIsOwn == \A t \in Tasks : Registered(t) => slot[id[t]] = t

(* A sleeping task's bit is in a set, or a waker has the bit or the task's  *)
(* pointer in hand: bits that finished tasks left behind take nothing away  *)
(* from the task that has the slot now.                                     *)
SleeperReachable ==
  \A t \in Tasks :
    pc[t] = "park" /\ ~notified[t] =>
      \/ \E s \in Sets : id[t] \in bits[s]
      \/ \E w \in Wakers : id[t] \in hand[w] \/ loaded[w] = t

(* wake notifies through a pointer it loaded a moment ago from a slot: the  *)
(* task has not been deleted meanwhile.  Nothing holds the task back but    *)
(* that it sleeps until that very notification, so a stray one would do     *)
(* away with it.                                                            *)
WakersFindTask ==
  ~stray => \A w \in Wakers : loaded[w] # None => pc[loaded[w]] # "dead"

(* Seen from the primitives there are no slots: bits stand for the tasks    *)
(* that have their slots now, and slots that change hands, a scan of them   *)
(* that is not atomic and pointers loaded late do not show, but for wake-   *)
(* ups of tasks that are up where stray notifications exist.                *)
Users(S) == {slot[i] : i \in S} \ {None}

Members == [s \in Sets |-> Users(bits[s])]
Parked == {t \in Tasks : pc[t] = "park"}
Pends == [w \in Wakers |-> w \in Tasks /\ notified[w]]
Hands == [w \in Wakers |-> Users(hand[w]) \cup ({loaded[w]} \ {None})]

Promise == INSTANCE WakerSets WITH
  Tasks <- Wakers, members <- Members, parked <- Parked, notified <- Pends, waking <- Hands

WakerSetsSpec == Promise!Spec
=============================================================================
