------------------------------ MODULE Delivery ------------------------------
(***************************************************************************)
(* src/src/app/protocol.rs and the life of the application task around it: *)
(* the socket of UdpCallback.tla, whose callback owns the sending end of   *)
(* the channel of Queue.tla, and the task that owns the receiving end.     *)
(*                                                                         *)
(* The callback runs on lwIP's thread and calls try_send, once, with its   *)
(* wake-up of the task; everything else is done by the task's own thread:  *)
(* binding, which can fail at three points, the receive loop, which ends   *)
(* when a reply cannot be sent, and the destructors.  Dropping the box of  *)
(* the callback drops the sender in it.  The order of the destructors is   *)
(* that of the language: locals of bind in reverse, fields of Protocol as  *)
(* declared.                                                               *)
(***************************************************************************)
EXTENDS UdpCallback, Naturals, Sequences

CONSTANTS
  Tx, Rx,            \* lwIP's thread inside the callback; the task
  Capacity,          \* channel(16)
  MaxItems           \* bound: datagrams

ASSUME DeliveryAssumption == Tx # Rx /\ Capacity \in Nat \ {0} /\ MaxItems \in Nat

VARIABLES
  life,              \* where the task is in its main function
  bound,             \* external: the pcb has the port, datagrams reach it
  ends,              \* Shared.flags of the channel
  queue, notify, freed, pc, made, delivered, refused, discarded,
  notified, waking

Q == INSTANCE Queue WITH Tasks <- {Tx, Rx}, SendOps <- {"try"}, alive <- ends

udpVars == vars
queueVars == <<queue, ends, notify, freed, pc, made, delivered, refused,
               discarded, notified, waking>>
systemVars == <<udpVars, queueVars, life, bound>>

SystemTypeOK ==
  /\ TypeOK /\ Q!TypeOK
  /\ life \in {"bind", "join", "serve", "exit", "unwind", "gone"}
  /\ bound \in BOOLEAN

(* bind, after Udp::new and channel; when one of these fails nothing is    *)
(* there yet to be undone.                                                 *)
SystemInit ==
  /\ Init /\ Q!Init
  /\ life = "bind"
  /\ bound = FALSE

Live(l) == life' = l /\ UNCHANGED bound
Ending == life \in {"exit", "unwind"}

----------------------------------------------------------------------------
(* Protocol::bind *)

Hook ==
  /\ life = "bind"
  /\ \E cb \in Callbacks : OnReceive(cb)
  /\ receive_cb = None
  /\ UNCHANGED <<queueVars, life, bound>>

(* SetOnReceiveCallback: HeapBox::alloc drops the closure, and so the      *)
(* sender.                                                                 *)
HookFails ==
  /\ life = "bind" /\ app = "idle" /\ receive_cb = None
  /\ Q!DropSide(Tx)
  /\ Live("unwind")
  /\ UNCHANGED udpVars

BindSocket ==
  /\ life = "bind" /\ app = "idle" /\ receive_cb # None
  /\ life' = "join" /\ bound' = TRUE
  /\ UNCHANGED <<udpVars, queueVars>>

BindSocketFails ==
  /\ life = "bind" /\ app = "idle" /\ receive_cb # None
  /\ Live("unwind")
  /\ UNCHANGED <<udpVars, queueVars>>

JoinMulticastGroup(ok) ==
  /\ life = "join"
  /\ Live(IF ok THEN "serve" ELSE "unwind")
  /\ UNCHANGED <<udpVars, queueVars>>

----------------------------------------------------------------------------
(* The receive loop *)

Receive ==
  /\ life = "serve"
  /\ \/ Q!TakeItem \/ Q!FindEmpty
     \/ Q!AddSelf(Rx) \/ Q!Unpark(Rx) \/ Q!TakeBits(Rx) \/ Q!NotifyDone(Rx)
  /\ UNCHANGED <<udpVars, life, bound>>

(* Defect: the task is deleted where its future ends, before destructors   *)
(* have run.                                                               *)
SendFailsAtOnce ==
  /\ life = "serve" /\ pc[Rx] = "idle" /\ delivered # <<>>
  /\ Live("gone")
  /\ UNCHANGED <<udpVars, queueVars>>

(* The reply to a time packet is refused, and ? leaves the main function.  *)
SendFails ==
  /\ life = "serve" /\ pc[Rx] = "idle" /\ delivered # <<>>
  /\ Live("exit")
  /\ UNCHANGED <<udpVars, queueVars>>

(* A bit that a task before this one left in some set (TaskRegistry).      *)
Stray ==
  /\ life # "gone"
  /\ Q!Spurious(Rx)
  /\ UNCHANGED <<udpVars, life, bound>>

----------------------------------------------------------------------------
(* The destructors *)

(* packet_rx: before the socket when bind fails, after it otherwise.       *)
DropReceiver ==
  /\ life = "unwind" \/ (life = "exit" /\ app = "closed")
  /\ Q!DropSide(Rx)
  /\ UNCHANGED <<udpVars, life, bound>>

DropSocket ==
  /\ life = "exit" \/ (life = "unwind" /\ pc[Rx] = "gone")
  /\ Close
  /\ UNCHANGED <<queueVars, life, bound>>

(* Defect: the memory of the box is freed without dropping what is in it.  *)
DropSenderForget ==
  /\ app = "free" /\ Tx \in ends
  /\ pc' = [pc EXCEPT ![Tx] = "gone"]
  /\ UNCHANGED <<udpVars, queue, ends, notify, freed, made, delivered,
                 refused, discarded, notified, waking, life, bound>>

(* drop_in_place of the box: the closure's sender.                         *)
DropSender ==
  /\ app = "free" /\ Tx \in ends
  /\ Q!DropSide(Tx)
  /\ UNCHANGED <<udpVars, life, bound>>

(* The last end drains the queue and frees the channel.                    *)
FreeChannel ==
  /\ Q!FreeShared(Tx) \/ Q!FreeShared(Rx)
  /\ UNCHANGED <<udpVars, life, bound>>

(* The rest of drop_free.                                                  *)
FreeBox ==
  /\ pc[Tx] = "gone"
  /\ FreeOld
  /\ UNCHANGED <<queueVars, life, bound>>

RemoveSocket ==
  /\ Remove
  /\ bound' = FALSE
  /\ UNCHANGED <<queueVars, life>>

(* start: vTaskDelete after the scope.                                     *)
Delete ==
  /\ Ending /\ app = "closed" /\ pc[Rx] = "gone"
  /\ Live("gone")
  /\ UNCHANGED <<udpVars, queueVars>>

Socket ==
  /\ SetStop \/ UnsetRecv \/ WaitSafe \/ ClearFlags
     \/ SetSafe \/ SetRecv \/ SaveCallback
  /\ UNCHANGED <<queueVars, life, bound>>

----------------------------------------------------------------------------
(* lwIP's thread *)

Datagram ==
  /\ bound /\ made < MaxItems
  /\ Input
  /\ UNCHANGED <<queueVars, life, bound>>

(* The callback, as far as the queue call.                                 *)
Call ==
  /\ RunCallback
  /\ Q!TrySend
  /\ UNCHANGED <<life, bound>>

(* Its wake_all.                                                           *)
Wake ==
  /\ Q!TakeBits(Tx) \/ Q!NotifyOne(Tx) \/ Q!NotifyDone(Tx)
  /\ UNCHANGED <<udpVars, life, bound>>

Return ==
  /\ pc[Tx] # "swap" /\ pc[Tx] # "notify"
  /\ SetDone
  /\ UNCHANGED <<queueVars, life, bound>>

Dispatch ==
  /\ DispatchFault \/ Barrier \/ Bail \/ BailFault
  /\ UNCHANGED <<queueVars, life, bound>>

----------------------------------------------------------------------------
TaskStep ==
  \/ Hook \/ HookFails \/ BindSocket \/ BindSocketFails
  \/ (\E ok \in BOOLEAN : JoinMulticastGroup(ok))
  \/ Receive \/ Socket \/ DropReceiver \/ DropSocket \/ DropSender
  \/ FreeChannel \/ FreeBox \/ RemoveSocket \/ Delete

NetworkStep == Call \/ Wake \/ Return \/ Dispatch

SystemNext == TaskStep \/ SendFails \/ Stray \/ Datagram \/ NetworkStep

(* Both threads are scheduled; nobody promises a datagram or a failure.    *)
SystemSpec ==
  /\ SystemInit /\ [][SystemNext]_systemVars
  /\ WF_systemVars(TaskStep) /\ WF_systemVars(NetworkStep)

----------------------------------------------------------------------------
(* Properties *)

(* The box of the callback is dropped, and the sender with it, only when no *)
(* new datagram is led to it and no call of it is under way (a dispatch     *)
(* that lwIP committed to before and that has not begun is DispatchFinds-   *)
(* Callback's matter).  Queue.tla takes for granted that an end is dropped  *)
(* between two calls.                                                       *)
SenderOutlivesCallback ==
  app = "free" \/ Tx \notin ends => recv = None /\ net \notin {"run", "done"}

(* lwIP's thread holds the task's pointer between its swap of the waker set *)
(* and the notification (wake_all): the task is not deleted before that,    *)
(* because its destructors wait for the callback.                           *)
WakesLiveTask == Rx \in waking[Tx] => life # "gone"

(* A task that ended, wherever bind or the loop failed, has given all of it *)
(* back: no callback is hooked or allocated, the channel is freed, and each *)
(* datagram's packet was received, refused, or dropped with the queue.      *)
AllReturned ==
  life = "gone" =>
    /\ recv = None /\ alive = {} /\ ends = {} /\ freed
    /\ queue = <<>> /\ Q!Conservation

(* A task that fails comes to its end: its quiesce does not wait for ever,  *)
(* nor does the receiver for a sender that is gone (receive has no result   *)
(* for that; the task that would wait is the one that drops the sender).    *)
FailedTaskEnds == Ending ~> life = "gone"
=============================================================================
