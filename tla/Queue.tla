------------------------------- MODULE Queue -------------------------------
(***************************************************************************)
(* src/src/sync/queue.rs: the bounded channel between one sender and one   *)
(* receiver.  The firmware uses it between the lwIP receive callback       *)
(* (app/protocol.rs, try_send) and the application task (receive().await). *)
(*                                                                         *)
(* Each FreeRTOS queue call is atomic.  Everything between two such calls  *)
(* is a step of its own, because the two sides run on different cores:     *)
(* the poll that finds nothing and the registration that follows it, the   *)
(* queue operation, the swap of the waker set and each notification.       *)
(*                                                                         *)
(* Items are numbered in the order their send completes.  A task that is   *)
(* in "park" is inside xTaskGenericNotifyWait.                             *)
(***************************************************************************)
EXTENDS TaskWaker, Naturals, Sequences

CONSTANTS
  Tx, Rx,            \* the task or callback that owns each end
  Capacity,          \* channel(capacity)
  SendOps,           \* which sender calls the program makes
  MaxItems           \* bound: sends per behaviour

ASSUME QueueAssumption ==
  /\ Tx # Rx
  /\ Tasks = {Tx, Rx}
  /\ Capacity \in Nat \ {0}
  /\ SendOps \subseteq {"try", "await", "overwrite"}
  /\ MaxItems \in Nat

VARIABLES
  queue,             \* the FreeRTOS queue, front first
  alive,             \* Shared.flags: RX_ALIVE and TX_ALIVE
  notify,            \* notify[Rx] is notify_rx, notify[Tx] is notify_tx
  freed,             \* the Shared box was returned to the heap
  pc,                \* where each end is inside its current call
  made,              \* how many items were offered to the queue
  delivered,         \* what receive returned, in order
  refused,           \* what try_send handed back
  discarded          \* evicted by an overwriting send, or dropped with the queue

items == <<queue, made, delivered, refused, discarded>>
vars == <<items, alive, notify, freed, pc, notified, waking>>

Locs == {"idle", "poll", "add", "park", "send", "evict", "push", "swap",
         "notify", "panic", "free", "gone"}

Peer(t) == IF t = Rx THEN Tx ELSE Rx
Elements(s) == {s[i] : i \in DOMAIN s}
Goto(t, l) == pc' = [pc EXCEPT ![t] = l]
At(t, L) == pc[t] \in L

(* uxQueueSpacesAvailable = 0, and errQUEUE_FULL of a send.                *)
Full == Len(queue) >= Capacity

Registered(t) == t \in notify[t]

ItemsTypeOK ==
  /\ queue \in Seq(1 .. MaxItems)
  /\ Len(queue) <= Capacity
  /\ made \in 0 .. MaxItems
  /\ delivered \in Seq(1 .. MaxItems)
  /\ refused \subseteq 1 .. MaxItems
  /\ discarded \subseteq 1 .. MaxItems

TypeOK ==
  /\ WakerTypeOK
  /\ ItemsTypeOK
  /\ alive \in SUBSET Tasks
  /\ notify \in [Tasks -> SUBSET Tasks]
  /\ freed \in BOOLEAN
  /\ pc \in [Tasks -> Locs]

(* channel                                                                 *)
Init ==
  /\ WakerInit
  /\ queue = <<>>
  /\ alive = Tasks
  /\ notify = [t \in Tasks |-> {}]
  /\ freed = FALSE
  /\ pc = [t \in Tasks |-> "idle"]
  /\ made = 0
  /\ delivered = <<>>
  /\ refused = {}
  /\ discarded = {}

----------------------------------------------------------------------------
(* What can happen to an item *)

(* Defect: the item is put at the front, as rtos_queue_send_to_front would. *)
EnqueueInFront ==
  /\ made' = made + 1
  /\ queue' = <<made + 1>> \o queue
  /\ UNCHANGED <<delivered, refused, discarded>>

(* rtos_queue_send_to_back, when it succeeds.                              *)
Enqueue ==
  /\ made' = made + 1
  /\ queue' = Append(queue, made + 1)
  /\ UNCHANGED <<delivered, refused, discarded>>

(* A send that the queue refuses, and whose item the caller gets back.      *)
Refuse ==
  /\ made' = made + 1
  /\ refused' = refused \cup {made + 1}
  /\ UNCHANGED <<queue, delivered, discarded>>

(* A send that the queue refuses, and whose item nobody gets back.          *)
Lose ==
  /\ made' = made + 1
  /\ UNCHANGED <<queue, delivered, refused, discarded>>

(* rtos_queue_receive, when it succeeds.                                    *)
Deliver ==
  /\ queue # <<>>
  /\ queue' = Tail(queue)
  /\ delivered' = Append(delivered, Head(queue))
  /\ UNCHANGED <<made, refused, discarded>>

(* xQueueReceiveFromISR into the dummy, dropped at once.                    *)
Discard ==
  /\ queue # <<>>
  /\ queue' = Tail(queue)
  /\ discarded' = discarded \cup {Head(queue)}
  /\ UNCHANGED <<made, delivered, refused>>

(* Defect: the queue is deleted without being drained.                      *)
DrainNothing ==
  /\ queue' = <<>>
  /\ UNCHANGED <<made, delivered, refused, discarded>>

(* QueueHandle::drop receives and drops until the queue is empty.           *)
Drain ==
  /\ queue' = <<>>
  /\ discarded' = discarded \cup Elements(queue)
  /\ UNCHANGED <<made, delivered, refused>>

----------------------------------------------------------------------------
(* The receiver *)

(* try_receive, alone or as the first half of poll_receive: the call that  *)
(* takes an item goes on to wake notify_tx.                                *)
TakeItem ==
  /\ At(Rx, {"idle", "poll"})
  /\ Deliver
  /\ Goto(Rx, "swap")
  /\ UNCHANGED <<alive, notify, freed, notified, waking>>

(* poll_receive found the queue empty; the registration comes next.        *)
FindEmpty ==
  /\ At(Rx, {"idle", "poll"})
  /\ queue = <<>>
  /\ Goto(Rx, "add")
  /\ UNCHANGED <<items, alive, notify, freed, notified, waking>>

----------------------------------------------------------------------------
(* The sender *)

(* try_send and send_from_isr: the queue call decides; a full queue hands  *)
(* the item back and touches no waker.                                     *)
TrySend ==
  /\ "try" \in SendOps
  /\ At(Tx, {"idle"})
  /\ made < MaxItems
  /\ \/ ~Full /\ Enqueue /\ Goto(Tx, "swap")
     \/ Full /\ Refuse /\ UNCHANGED pc
  /\ UNCHANGED <<alive, notify, freed, notified, waking>>

(* Defect: the test for room admits a full queue.                          *)
PollReserveOffByOne ==
  /\ "await" \in SendOps
  /\ At(Tx, {"idle", "poll"})
  /\ made < MaxItems
  /\ Goto(Tx, IF Len(queue) > Capacity THEN "add" ELSE "send")
  /\ UNCHANGED <<items, alive, notify, freed, notified, waking>>

(* send().await, first half: poll_reserve reads uxQueueSpacesAvailable.    *)
PollReserve ==
  /\ "await" \in SendOps
  /\ At(Tx, {"idle", "poll"})
  /\ made < MaxItems
  /\ Goto(Tx, IF Full THEN "add" ELSE "send")
  /\ UNCHANGED <<items, alive, notify, freed, notified, waking>>

(* send().await, second half: try_send, which must not be refused.         *)
SendReserved ==
  /\ At(Tx, {"send"})
  /\ \/ ~Full /\ Enqueue /\ Goto(Tx, "swap")
     \/ Full /\ Goto(Tx, "panic") /\ UNCHANGED items
  /\ UNCHANGED <<alive, notify, freed, notified, waking>>

(* send_overwriting_from_isr, its three queue calls.                       *)
CheckFull ==
  /\ "overwrite" \in SendOps
  /\ At(Tx, {"idle"})
  /\ made < MaxItems
  /\ Goto(Tx, IF Full THEN "evict" ELSE "push")
  /\ UNCHANGED <<items, alive, notify, freed, notified, waking>>

(* The receiver may have emptied the queue since; rc is then 0.            *)
Evict ==
  /\ At(Tx, {"evict"})
  /\ Discard \/ (queue = <<>> /\ UNCHANGED items)
  /\ Goto(Tx, "push")
  /\ UNCHANGED <<alive, notify, freed, notified, waking>>

(* The result of this call is ignored: a refused item would be lost.       *)
Push ==
  /\ At(Tx, {"push"})
  /\ (~Full /\ Enqueue) \/ (Full /\ Lose)
  /\ Goto(Tx, "swap")
  /\ UNCHANGED <<alive, notify, freed, notified, waking>>

----------------------------------------------------------------------------
(* Both ends *)

(* Defect: the poll registers in the set the other end waits in.           *)
AddSelfToPeer(t) ==
  /\ At(t, {"add"})
  /\ notify' = [notify EXCEPT ![Peer(t)] = AddTask(@, t)]
  /\ Goto(t, "park")
  /\ UNCHANGED <<items, alive, freed, notified, waking>>

(* The second half of a poll that returns Pending; then the executor blocks. *)
AddSelf(t) ==
  /\ At(t, {"add"})
  /\ notify' = [notify EXCEPT ![t] = AddTask(@, t)]
  /\ Goto(t, "park")
  /\ UNCHANGED <<items, alive, freed, notified, waking>>

Unpark(t) ==
  /\ At(t, {"park"})
  /\ NotifyWait(t)
  /\ Goto(t, "poll")
  /\ UNCHANGED <<items, alive, notify, freed, waking>>

(* Defect: the operation wakes its own end's set.                          *)
TakeOwnBits(t) ==
  /\ At(t, {"swap"})
  /\ TakeWakeable(t, notify[t])
  /\ notify' = [notify EXCEPT ![t] = {}]
  /\ Goto(t, "notify")
  /\ UNCHANGED <<items, alive, freed, notified>>

(* wake_all and wake_from_isr on the other end's set.                      *)
TakeBits(t) ==
  /\ At(t, {"swap"})
  /\ TakeWakeable(t, notify[Peer(t)])
  /\ notify' = [notify EXCEPT ![Peer(t)] = {}]
  /\ Goto(t, "notify")
  /\ UNCHANGED <<items, alive, freed, notified>>

NotifyOne(t) ==
  /\ At(t, {"notify"})
  /\ \E u \in Tasks : Notify(t, u)
  /\ UNCHANGED <<items, alive, notify, freed, pc>>

NotifyDone(t) ==
  /\ At(t, {"notify"})
  /\ waking[t] = {}
  /\ Goto(t, "idle")
  /\ UNCHANGED <<items, alive, notify, freed, notified, waking>>

(* Defect: the flags before the fetch_and decide, so nobody is the last.   *)
DropSideStale(t) ==
  /\ At(t, {"idle"})
  /\ alive' = alive \ {t}
  /\ Goto(t, IF alive = {} THEN "free" ELSE "gone")
  /\ UNCHANGED <<items, notify, freed, notified, waking>>

(* drop_side: fetch_and, and the last one out frees the box.               *)
DropSide(t) ==
  /\ At(t, {"idle"})
  /\ alive' = alive \ {t}
  /\ Goto(t, IF alive' = {} THEN "free" ELSE "gone")
  /\ UNCHANGED <<items, notify, freed, notified, waking>>

(* HeapBox drop: QueueHandle::drop drains the queue and deletes it.        *)
FreeShared(t) ==
  /\ At(t, {"free"})
  /\ Drain
  /\ freed' = TRUE
  /\ Goto(t, "gone")
  /\ UNCHANGED <<alive, notify, notified, waking>>

Spurious(t) == SpuriousWake(t) /\ UNCHANGED <<items, alive, notify, freed, pc>>

RxNext == TakeItem \/ FindEmpty
TxNext == TrySend \/ PollReserve \/ SendReserved \/ CheckFull \/ Evict \/ Push

(* What an end that is inside a call goes on to do by itself.              *)
Finish(t) ==
  \/ AddSelf(t) \/ Unpark(t)
  \/ TakeBits(t) \/ NotifyOne(t) \/ NotifyDone(t)
  \/ FreeShared(t)

Next ==
  \/ RxNext
  \/ TxNext
  \/ \E t \in Tasks : Finish(t) \/ DropSide(t) \/ Spurious(t)

Spec == Init /\ [][Next]_vars

(* FreeRTOS keeps running a task that can run: a call that was begun is    *)
(* finished, a woken receiver polls.  Nobody promises another send.        *)
Fairness ==
  /\ \A t \in Tasks : WF_vars(Finish(t))
  /\ WF_vars(At(Rx, {"poll"}) /\ RxNext)
  /\ WF_vars(SendReserved \/ Evict \/ Push)

FairSpec == Spec /\ Fairness

----------------------------------------------------------------------------
(* Properties *)

(* A task blocked in NotifyWait with nothing pending can still be reached:  *)
(* its bit is in its set, or another actor has taken the bit and is about   *)
(* to notify it (poll_receive and poll_reserve against wake_all).           *)
Asleep(t) == At(t, {"park"}) /\ ~notified[t]

ParkedIsRegistered ==
  \A t \in Tasks : Asleep(t) => Registered(t) \/ \E u \in Tasks : t \in waking[u]

(* Between poll_reserve's (or the ISR's) check and the send that relies on  *)
(* it the room stays: the panic in send is unreachable, and the overwriting *)
(* send never loses the item it was given.                                  *)
SendCannotFail == At(Tx, {"send", "push"}) => ~Full

(* Every item offered is in exactly one place: waiting, received, handed    *)
(* back, or dropped (evicted, or drained by QueueHandle's drop).            *)
Conservation ==
  LET places == <<Elements(queue), Elements(delivered), refused, discarded>>
  IN  /\ UNION {places[i] : i \in 1 .. 4} = 1 .. made
      /\ \A i, j \in 1 .. 4 : i # j => places[i] \cap places[j] = {}

(* Items are received in the order sent, whatever was evicted between.      *)
InOrder ==
  LET seen == delivered \o queue
  IN  \A i, j \in DOMAIN seen : i < j => seen[i] < seen[j]

(* The Shared box is freed exactly when both ends are done with it: never   *)
(* under an end that may still touch it, and never forgotten.               *)
SharedLifetime == freed <=> \A t \in Tasks : At(t, {"gone"})

(* A send that put its item in wakes a receiver that had registered.        *)
SendWakesReceiver ==
  At(Tx, {"swap"}) /\ At(Rx, {"park"}) /\ Registered(Rx) ~> ~At(Rx, {"park"})

(* The two ends use their waker sets as WakerSets asks: each registers as   *)
(* it goes to sleep and notifies everybody it takes.                        *)
Parked == {t \in Tasks : pc[t] = "park"}

Wakers == INSTANCE WakerSets WITH
  Sets <- Tasks, members <- notify, parked <- Parked, stray <- TRUE

UsesSets == Wakers!UseSpec

(* app/protocol.rs, bind: "failed to write packet to queue!! the app task   *)
(* must be failing to keep up": a refused packet means a busy receiver, not *)
(* one that sleeps on a full queue.  A receiver that missed one send is     *)
(* woken by the next; it takes a send for every slot of the queue, all done *)
(* with wake_all between the empty poll and the registration.               *)
RefusedOnlyWhenBusy == [][refused' # refused => ~Asleep(Rx)]_vars
=============================================================================
