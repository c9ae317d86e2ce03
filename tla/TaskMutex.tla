----------------------------- MODULE TaskMutex -----------------------------
(***************************************************************************)
(* src/src/sync/mutex.rs, TaskMutex: the async lock that guards the packet *)
(* queue shared by the application task and a stream task.                 *)
(*                                                                         *)
(* poll_lock is one atomic swap, then a registration; dropping the guard   *)
(* is a store, then the swap of the waker set and the notifications.  The  *)
(* store happens first, so a task may take the lock before anybody is      *)
(* woken, and a task between its failed swap and its registration is       *)
(* missed by the wake-up: it then waits for the next unlock.               *)
(***************************************************************************)
EXTENDS TaskWaker

CONSTANT Loopers     \* tasks that keep coming back for the lock

ASSUME LoopersAssumption == Loopers \subseteq Tasks

VARIABLES
  flag,              \* the AtomicBool
  notify,            \* the TaskWakerSet
  pc                 \* where each task is in lock().await and the guard's life

vars == <<flag, notify, pc, notified, waking>>

Locs == {"idle", "poll", "add", "park", "cs", "swap", "notify"}

At(t, L) == pc[t] \in L
Goto(t, l) == pc' = [pc EXCEPT ![t] = l]

TypeOK ==
  /\ WakerTypeOK
  /\ flag \in BOOLEAN
  /\ notify \in SUBSET Tasks
  /\ pc \in [Tasks -> Locs]

(* TaskMutex::new                                                          *)
Init ==
  /\ WakerInit
  /\ flag = FALSE
  /\ notify = {}
  /\ pc = [t \in Tasks |-> "idle"]

(* Defect: a load where the code swaps.                                    *)
PollLockLoad(t) ==
  /\ At(t, {"idle", "poll"})
  /\ Goto(t, IF flag THEN "add" ELSE "cs")
  /\ UNCHANGED <<flag, notify, notified, waking>>

(* poll_lock: flag.swap(true).                                             *)
PollLock(t) ==
  /\ At(t, {"idle", "poll"})
  /\ flag' = TRUE
  /\ Goto(t, IF flag THEN "add" ELSE "cs")
  /\ UNCHANGED <<notify, notified, waking>>

(* poll_lock, the swap having returned true; then the executor blocks.     *)
AddSelf(t) ==
  /\ At(t, {"add"})
  /\ notify' = AddTask(notify, t)
  /\ Goto(t, "park")
  /\ UNCHANGED <<flag, notified, waking>>

Unpark(t) ==
  /\ At(t, {"park"})
  /\ NotifyWait(t)
  /\ Goto(t, "poll")
  /\ UNCHANGED <<flag, notify, waking>>

(* Defect: the guard's drop wakes without releasing.                       *)
UnlockKeepsFlag(t) ==
  /\ At(t, {"cs"})
  /\ Goto(t, "swap")
  /\ UNCHANGED <<flag, notify, notified, waking>>

(* TaskMutexGuard::drop: store(false), then wake_all.                      *)
Unlock(t) ==
  /\ At(t, {"cs"})
  /\ flag' = FALSE
  /\ Goto(t, "swap")
  /\ UNCHANGED <<notify, notified, waking>>

(* Defect: the set is cleared and nobody in it is notified.                *)
TakeBitsForget(t) ==
  /\ At(t, {"swap"})
  /\ notify' = {}
  /\ Goto(t, "notify")
  /\ UNCHANGED <<flag, notified, waking>>

TakeBits(t) ==
  /\ At(t, {"swap"})
  /\ TakeWakeable(t, notify)
  /\ notify' = {}
  /\ Goto(t, "notify")
  /\ UNCHANGED <<flag, notified>>

NotifyOne(t) ==
  /\ At(t, {"notify"})
  /\ \E u \in Tasks : Notify(t, u)
  /\ UNCHANGED <<flag, notify, pc>>

NotifyDone(t) ==
  /\ At(t, {"notify"})
  /\ waking[t] = {}
  /\ Goto(t, "idle")
  /\ UNCHANGED <<flag, notify, notified, waking>>

Spurious(t) == SpuriousWake(t) /\ UNCHANGED <<flag, notify, pc>>

(* What a task that called lock does next, to the end of the guard's drop. *)
Step(t) ==
  \/ PollLock(t) \/ AddSelf(t) \/ Unpark(t)
  \/ Unlock(t) \/ TakeBits(t) \/ NotifyOne(t) \/ NotifyDone(t)

Next == \E t \in Tasks : Step(t) \/ Spurious(t)

Spec == Init /\ [][Next]_vars

(* A call once begun runs on, and a critical section has no await in it     *)
(* (app/queue.rs).  A looper calls lock again: run_stream pops once a frame *)
(* for as long as it lives.  Others lock when a packet happens to arrive.   *)
Fairness ==
  /\ \A t \in Tasks : WF_vars(~At(t, {"idle"}) /\ Step(t))
  /\ \A t \in Loopers : WF_vars(Step(t))

FairSpec == Spec /\ Fairness

----------------------------------------------------------------------------
(* Properties *)

Asleep(t) == At(t, {"park"}) /\ ~notified[t]

(* One guard at a time, across the window where flag is false and the       *)
(* wake-ups of the last unlock are still to come.                           *)
MutualExclusion == \A t, u \in Tasks : At(t, {"cs"}) /\ At(u, {"cs"}) => t = u

(* poll_lock against wake_all: a sleeping task is in the set or about to be *)
(* notified, though perhaps not by the unlock it missed.                    *)
ParkedIsRegistered ==
  \A t \in Tasks : Asleep(t) => t \in notify \/ \E u \in Tasks : t \in waking[u]

(* A missed wake-up parks a task while the lock is free, but never all of   *)
(* them: the one that missed it was beaten by another that is still up.     *)
Stuck(t) == At(t, {"add", "park"}) /\ ~notified[t]

NotAllStuck == \E t \in Tasks : ~Stuck(t)

(* Lock and unlock use the waker set as WakerSets asks.  Whoever registered *)
(* goes to sleep even if the lock has been freed since.                     *)
Members == [s \in {"notify"} |-> notify]
Parked == {t \in Tasks : pc[t] = "park"}

Wakers == INSTANCE WakerSets WITH
  Sets <- {"notify"}, members <- Members, parked <- Parked, stray <- TRUE

UsesSets == Wakers!UseSpec

(* The application task cannot sleep for ever on a stream task that keeps   *)
(* popping: one of the next unlocks wakes it.  (The stream task has no such *)
(* promise: if it missed the unlock it waits for the next packet.)          *)
LoopersRescue == \A t \in Tasks \ Loopers : At(t, {"park"}) ~> ~At(t, {"park"})
=============================================================================
