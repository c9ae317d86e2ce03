----------------------------- MODULE TaskWaker -----------------------------
(***************************************************************************)
(* The wake-up layer every async primitive of the firmware shares:         *)
(* src/src/system/task/waker.rs (TaskWakerSet) and the park/unpark         *)
(* step of the executor, src/src/system/task/execute.rs.                   *)
(*                                                                         *)
(* A FreeRTOS task runs exactly one future.  When a poll returns Pending   *)
(* the executor blocks in xTaskGenericNotifyWait; wakers call              *)
(* xTaskGenericNotify on the task.  A TaskWakerSet is a bit set of task    *)
(* ids: a poll that cannot progress ORs its own bit in, a waker swaps the  *)
(* whole set for zero and notifies each task it took, one call at a time.  *)
(*                                                                         *)
(* The set itself is a variable of the component that owns it.  This       *)
(* module keeps what belongs to tasks.  The tasks named here stay          *)
(* registered for the whole behaviour, so a bit and the task in its slot   *)
(* are the same thing.                                                     *)
(***************************************************************************)
CONSTANT Tasks       \* the tasks (and callbacks) that wait or wake

VARIABLES
  notified,          \* FreeRTOS: a notification of the task is pending
  waking             \* tasks an actor took from a set and has yet to notify

WakerTypeOK ==
  /\ notified \in [Tasks -> BOOLEAN]
  /\ waking \in [Tasks -> SUBSET Tasks]

WakerInit ==
  /\ notified = [t \in Tasks |-> FALSE]
  /\ waking = [t \in Tasks |-> {}]

(* TaskWakerSet::add_task: fetch_or of the task's bit.                     *)
AddTask(set, t) == set \cup {t}

(* take_wakeable: the swap hands the whole set to the iterator of actor a. *)
TakeWakeable(a, set) == waking' = [waking EXCEPT ![a] = set]

(* One iteration of wake_all or of wake_from_isr.                          *)
Notify(a, t) ==
  /\ t \in waking[a]
  /\ waking' = [waking EXCEPT ![a] = @ \ {t}]
  /\ notified' = [notified EXCEPT ![t] = TRUE]

(* xTaskGenericNotifyWait returns once a notification is pending, even one *)
(* that came before the call, and clears it.                               *)
NotifyWait(t) ==
  /\ notified[t]
  /\ notified' = [notified EXCEPT ![t] = FALSE]

(* A notification nobody asked for: a bit that a finished task left in     *)
(* some set wakes whoever claimed its slot afterwards.  waker.rs calls     *)
(* these safe.                                                             *)
SpuriousWake(t) ==
  /\ notified' = [notified EXCEPT ![t] = TRUE]
  /\ UNCHANGED waking
=============================================================================
