--------------------------- MODULE DeliveryProofs ---------------------------
(***************************************************************************)
(* First the half of the quiesce of UdpCallback that holds: a callback     *)
(* that got past the barrier keeps its box, for any number of              *)
(* replacements.                                                           *)
(*                                                                         *)
(* Then Delivery, which puts the socket and the channel together: what is  *)
(* proved of each alone holds in the composition, because every step of it *)
(* is a step of each or leaves it alone.  Between them stand the program   *)
(* order of the task and the quiesce.                                      *)
(***************************************************************************)
EXTENDS Delivery, TLAPS

(* The socket *)

(* Which boxes the application's thread owns at each point, and that they  *)
(* are the ones alive.                                                     *)
Ownership ==
  /\ alive = {receive_cb, old, new} \ {None}
  /\ receive_cb # None => app = "idle"
  /\ old # None => app \in {"stop", "unset", "wait", "free"}
  /\ app \in {"stop", "unset", "wait", "free"} => old # None /\ old # new
  /\ new # None => app \notin {"idle", "remove", "closed"}

(* What lwIP can load.                                                     *)
Hooked ==
  /\ app = "idle" => recv = receive_cb
  /\ app \in {"stop", "unset"} => recv = old
  /\ app = "save" => recv = new
  /\ app \notin {"idle", "stop", "unset", "save"} => recv = None

(* lwIP has never seen a box that was not hooked yet.                      *)
Unseen ==
  /\ fresh \cap alive = {}
  /\ arg \notin fresh
  /\ new # None /\ app # "save" => arg # new

StopShown == app \in {"unset", "wait", "free", "reset"} => "STOP" \in flags

(* A running callback keeps SAFE down and the application out of the part  *)
(* of the quiesce that frees.                                              *)
Running ==
  net \in {"run", "done"} =>
    /\ "SAFE" \notin flags
    /\ arg \in alive
    /\ app \in {"idle", "stop", "unset", "wait", "save"}

(* From the moment a callback is hooked until its quiesce has waited, SAFE *)
(* is up whenever no dispatch is past the barrier.                         *)
SafeShown ==
  /\ \/ app \in {"hook", "save", "stop", "unset", "wait"}
     \/ app = "idle" /\ receive_cb # None
  /\ net \in {"idle", "dispatch"}
  => "SAFE" \in flags

IInv ==
  TypeOK /\ Ownership /\ Hooked /\ Unseen /\ StopShown /\ Running /\ SafeShown

USE NoneAssumption DEF CallbackOrNone

LEMMA InvInit == Init => IInv
BY DEF Init, IInv, TypeOK, Ownership, Hooked, Unseen, StopShown, Running,
         SafeShown

(* The application's side: who owns what moves with app.                   *)
LEMMA AppInv == IInv /\ (AppBegin \/ AppStep) => IInv'
<1> SUFFICES ASSUME IInv, AppBegin \/ AppStep PROVE IInv'
  OBVIOUS
<1> USE DEF IInv, TypeOK, Ownership, Hooked, Unseen, StopShown, Running, SafeShown
<1>1. ASSUME NEW cb \in Callbacks, OnReceive(cb) PROVE IInv'
  <2>1. CASE receive_cb = None
    BY <1>1, <2>1 DEF OnReceive, TakeCallback
  <2>2. CASE receive_cb # None
    BY <1>1, <2>2 DEF OnReceive, TakeCallback
  <2> QED BY <2>1, <2>2
<1>2. CASE Close
  BY <1>2 DEF Close, TakeCallback
<1>3. CASE SetStop
  BY <1>3 DEF SetStop
<1>4. CASE UnsetRecv
  BY <1>4 DEF UnsetRecv
<1>5. CASE WaitSafe
  BY <1>5 DEF WaitSafe
<1>6. CASE FreeOld
  BY <1>6 DEF FreeOld
<1>7. CASE ClearFlags
  BY <1>7 DEF ClearFlags
<1>8. CASE SetSafe
  BY <1>8 DEF SetSafe
<1>9. CASE SetRecv
  BY <1>9 DEF SetRecv
<1>10. CASE SaveCallback
  BY <1>10 DEF SaveCallback
<1>11. CASE Remove
  BY <1>11 DEF Remove
<1> QED
  BY <1>1, <1>2, <1>3, <1>4, <1>5, <1>6, <1>7, <1>8, <1>9, <1>10, <1>11 DEF AppBegin, AppStep

(* lwIP's side: only Barrier starts a run, and only where STOP is not up.  *)
LEMMA NetInv == IInv /\ (Input \/ NetStep) => IInv'
<1> SUFFICES ASSUME IInv, Input \/ NetStep PROVE IInv'
  OBVIOUS
<1> USE DEF IInv, TypeOK, Ownership, Hooked, Unseen, StopShown, Running,
            SafeShown, appVars
<1>1. CASE Input
  BY <1>1 DEF Input
<1>2. CASE Barrier
  <2>1. CASE "STOP" \in flags
    BY <1>2, <2>1 DEF Barrier
  <2>2. CASE "STOP" \notin flags
    <3>1. app \in {"idle", "stop", "save"}
      BY <1>2, <2>2 DEF Barrier
    <3> QED BY <1>2, <2>2, <3>1 DEF Barrier
  <2> QED BY <2>1, <2>2
<1>3. CASE Bail
  BY <1>3 DEF Bail
<1>4. CASE DispatchFault \/ BailFault
  BY <1>4 DEF DispatchFault, BailFault
<1>5. CASE RunCallback
  BY <1>5 DEF RunCallback
<1>6. CASE SetDone
  BY <1>6 DEF SetDone
<1> QED BY <1>1, <1>2, <1>3, <1>4, <1>5, <1>6 DEF NetStep

(* The inductive invariant, from which the theorems after it follow.       *)
THEOREM Invariance == Spec => []IInv
<1>1. IInv /\ UNCHANGED vars => IInv'
  BY DEF vars, IInv, TypeOK, Ownership, Hooked, Unseen, StopShown, Running,
         SafeShown
<1>2. IInv /\ [Next]_vars => IInv'
  BY <1>1, AppInv, NetInv DEF Next
<1> QED BY InvInit, <1>2, PTL DEF Spec

(* udp.rs: past the barrier in dispatch, the callback's box and the event   *)
(* group stay allocated until the callback has returned.                    *)
THEOREM RunningKeepsItsBox == Spec => []RunningCallbackAlive
<1>1. IInv => RunningCallbackAlive
  BY DEF IInv, Running, RunningCallbackAlive
<1> QED BY Invariance, <1>1, PTL

(* udp.rs: CALLBACK_SAFE is "cleared during callback execution, restored on *)
(* return", whatever quiesce came before.                                   *)
THEOREM RestoredOnReturn == Spec => []SafeRestored
<1>1. IInv => SafeRestored
  BY DEF IInv, SafeShown, SafeRestored
<1> QED BY Invariance, <1>1, PTL

(* The types, for any set of callbacks.                                     *)
THEOREM TypeCorrect == Spec => []TypeOK
<1>1. IInv => TypeOK
  BY DEF IInv
<1> QED BY Invariance, <1>1, PTL

----------------------------------------------------------------------------
(* The composition *)

(* The program order of the task: hooking is part of bind, the quiesce and *)
(* what follows part of its end.                                           *)
Order ==
  /\ app \in {"ready", "hook", "save"} => life = "bind"
  /\ app \in {"stop", "unset", "wait", "free", "reset", "remove", "closed"} =>
       new = None /\ life \in {"exit", "unwind", "gone"}
  /\ life = "gone" => app = "closed"

(* Where the sender can be gone.                                           *)
SenderGone ==
  Tx \notin ends =>
    \/ app \in {"free", "reset", "remove", "closed"}
    \/ app = "idle" /\ life = "unwind" /\ receive_cb = None

(* A call of the sender is under way only inside the callback.             *)
InCall ==
  /\ pc[Tx] \in {"swap", "notify"} => net = "done"
  /\ waking[Tx] # {} => pc[Tx] = "notify"

ChannelTypes ==
  /\ pc \in [{Tx, Rx} -> Q!Locs]
  /\ waking \in [{Tx, Rx} -> SUBSET {Tx, Rx}]
  /\ notify \in [{Tx, Rx} -> SUBSET {Tx, Rx}]
  /\ ends \subseteq {Tx, Rx}

Between == ChannelTypes /\ Order /\ SenderGone /\ InCall

(* A step of the channel leaves the socket alone, a step of the socket the *)
(* channel; the callback's try_send is a step of both.                     *)
LEMMA StepOfBoth ==
  ASSUME [SystemNext]_systemVars
  PROVE  [Next]_vars /\ [Q!Next]_(Q!vars)
<1> USE DEF udpVars, queueVars, Q!vars, Q!items
<1>1. CASE Hook
  BY <1>1 DEF Hook, Next, AppBegin
<1>2. CASE HookFails
  BY <1>2 DEF HookFails, Q!Next
<1>3. CASE BindSocket \/ BindSocketFails \/ \E ok \in BOOLEAN : JoinMulticastGroup(ok)
  BY <1>3 DEF BindSocket, BindSocketFails, JoinMulticastGroup
<1>4. CASE Receive
  BY <1>4 DEF Receive, Q!Next, Q!RxNext, Q!Finish
<1>5. CASE Socket
  BY <1>5 DEF Socket, Next, AppStep
<1>6. CASE DropReceiver \/ DropSender \/ FreeChannel
  BY <1>6 DEF DropReceiver, DropSender, FreeChannel, Q!Next, Q!Finish
<1>7. CASE DropSocket
  BY <1>7 DEF DropSocket, Next, AppBegin
<1>8. CASE FreeBox \/ RemoveSocket
  BY <1>8 DEF FreeBox, RemoveSocket, Next, AppStep
<1>9. CASE Delete \/ SendFails
  BY <1>9 DEF Delete, SendFails
<1>10. CASE Stray
  BY <1>10 DEF Stray, Q!Next
<1>11. CASE Datagram
  BY <1>11 DEF Datagram, Next
<1>12. CASE Call
  BY <1>12 DEF Call, Next, NetStep, Q!Next, Q!TxNext
<1>13. CASE Wake
  BY <1>13 DEF Wake, Q!Next, Q!Finish
<1>14. CASE Return \/ Dispatch
  BY <1>14 DEF Return, Dispatch, Next, NetStep
<1>15. CASE UNCHANGED systemVars
  BY <1>15 DEF systemVars, vars
<1> QED
  BY <1>1, <1>2, <1>3, <1>4, <1>5, <1>6, <1>7, <1>8, <1>9, <1>10, <1>11, <1>12,
     <1>13, <1>14, <1>15 DEF SystemNext, TaskStep, NetworkStep

(* udp.rs inside the program keeps to what UdpCallback.tla allows it.      *)
THEOREM SocketPart == SystemSpec => Spec
<1>1. SystemInit => Init
  BY DEF SystemInit
<1> QED BY <1>1, StepOfBoth, PTL DEF SystemSpec, Spec

(* queue.rs inside the program keeps to what Queue.tla allows it.          *)
THEOREM ChannelPart == SystemSpec => Q!Spec
<1>1. SystemInit => Q!Init
  BY DEF SystemInit
<1> QED BY <1>1, StepOfBoth, PTL DEF SystemSpec, Q!Spec

(* The theorems of QueueProofs, about the same channel.                    *)
QP == INSTANCE QueueProofs
        WITH Tasks <- {Tx, Rx}, SendOps <- {"try"}, alive <- ends

LEMMA SameChannel == Q!Spec <=> QP!Spec
<1>1. Q!Init <=> QP!Init
  BY DEF Q!Init, QP!Init, Q!WakerInit, QP!WakerInit
<1>2. Q!Next <=> QP!Next
  <2> USE DEF Q!Goto, QP!Goto, Q!At, QP!At, Q!items, QP!items
  <2>1. Q!RxNext <=> QP!RxNext
    BY DEF Q!RxNext, QP!RxNext, Q!TakeItem, QP!TakeItem, Q!FindEmpty, QP!FindEmpty,
           Q!Deliver, QP!Deliver
  <2>2. Q!TxNext <=> QP!TxNext
    BY DEF Q!TxNext, QP!TxNext, Q!TrySend, QP!TrySend, Q!PollReserve, QP!PollReserve,
           Q!SendReserved, QP!SendReserved, Q!CheckFull, QP!CheckFull, Q!Evict, QP!Evict,
           Q!Push, QP!Push, Q!Full, QP!Full,
           Q!Enqueue, QP!Enqueue, Q!Refuse, QP!Refuse, Q!Lose, QP!Lose,
           Q!Discard, QP!Discard
  <2>3. \A t \in {Tx, Rx} : Q!Finish(t) <=> QP!Finish(t)
    <3>1. \A t \in {Tx, Rx} : /\ Q!AddSelf(t) <=> QP!AddSelf(t)
                              /\ Q!Unpark(t) <=> QP!Unpark(t)
      BY DEF Q!AddSelf, QP!AddSelf, Q!Unpark, QP!Unpark,
             Q!AddTask, QP!AddTask, Q!NotifyWait, QP!NotifyWait
    <3>2. \A t \in {Tx, Rx} : Q!TakeBits(t) <=> QP!TakeBits(t)
      BY DEF Q!TakeBits, QP!TakeBits, Q!Peer, QP!Peer, Q!TakeWakeable, QP!TakeWakeable
    <3>3. \A t \in {Tx, Rx} : /\ Q!NotifyOne(t) <=> QP!NotifyOne(t)
                              /\ Q!NotifyDone(t) <=> QP!NotifyDone(t)
      BY DEF Q!NotifyOne, QP!NotifyOne, Q!NotifyDone, QP!NotifyDone, Q!Notify, QP!Notify
    <3>4. \A t \in {Tx, Rx} : Q!FreeShared(t) <=> QP!FreeShared(t)
      <4>1. Q!Elements(queue) = QP!Elements(queue)
        BY Zenon DEF Q!Elements, QP!Elements
      <4> QED BY <4>1 DEF Q!FreeShared, QP!FreeShared, Q!Drain, QP!Drain
    <3> QED BY <3>1, <3>2, <3>3, <3>4 DEF Q!Finish, QP!Finish
  <2>4. \A t \in {Tx, Rx} : /\ Q!DropSide(t) <=> QP!DropSide(t)
                            /\ Q!Spurious(t) <=> QP!Spurious(t)
    BY DEF Q!DropSide, QP!DropSide, Q!Spurious, QP!Spurious, Q!SpuriousWake, QP!SpuriousWake
  <2> QED BY <2>1, <2>2, <2>3, <2>4 DEF Q!Next, QP!Next
<1>3. [Q!Next]_(Q!vars) <=> [QP!Next]_(QP!vars)
  BY <1>2 DEF Q!vars, QP!vars, Q!items, QP!items
<1> QED BY <1>1, <1>3, PTL DEF Q!Spec, QP!Spec

----------------------------------------------------------------------------
(* What lies between the two *)

LEMMA BetweenInit == SystemInit => Between
BY DeliveryAssumption
   DEF SystemInit, Init, Q!Init, Q!WakerInit, Between, ChannelTypes, Order,
       SenderGone, InCall, Q!Locs

(* The task's own steps.                                                   *)
LEMMA BetweenTask == IInv /\ Between /\ (TaskStep \/ SendFails) => Between'
<1> SUFFICES ASSUME IInv, Between, TaskStep \/ SendFails PROVE Between'
  OBVIOUS
<1> USE DeliveryAssumption
    DEF IInv, TypeOK, Ownership, Between, ChannelTypes, Order, SenderGone,
        InCall, udpVars, vars, queueVars, Live, Q!Goto, Q!At, Q!Locs
<1>1. CASE Hook
  BY <1>1 DEF Hook, OnReceive, TakeCallback
<1>2. CASE HookFails
  BY <1>2 DEF HookFails, Q!DropSide
<1>3. CASE BindSocket \/ BindSocketFails
  BY <1>3 DEF BindSocket, BindSocketFails
<1>4. ASSUME NEW ok \in BOOLEAN, JoinMulticastGroup(ok) PROVE Between'
  BY <1>4 DEF JoinMulticastGroup
<1>5. CASE Receive
  BY <1>5 DEF Receive, Q!TakeItem, Q!FindEmpty, Q!AddSelf, Q!Unpark, Q!TakeBits,
              Q!NotifyDone, Q!TakeWakeable, Q!AddTask, Q!Peer
<1>6. CASE Socket
  <2>1. CASE SetStop
    BY <1>6, <2>1 DEF Socket, SetStop
  <2>2. CASE UnsetRecv
    BY <1>6, <2>2 DEF Socket, UnsetRecv
  <2>3. CASE WaitSafe
    BY <1>6, <2>3 DEF Socket, WaitSafe
  <2>4. CASE ClearFlags
    BY <1>6, <2>4 DEF Socket, ClearFlags
  <2>5. CASE SetSafe
    BY <1>6, <2>5 DEF Socket, SetSafe
  <2>6. CASE SetRecv
    BY <1>6, <2>6 DEF Socket, SetRecv
  <2>7. CASE SaveCallback
    BY <1>6, <2>7 DEF Socket, SaveCallback
  <2> QED BY <1>6, <2>1, <2>2, <2>3, <2>4, <2>5, <2>6, <2>7 DEF Socket
<1>7. CASE DropReceiver
  BY <1>7 DEF DropReceiver, Q!DropSide
<1>8. CASE DropSocket
  BY <1>8 DEF DropSocket, Close, TakeCallback
<1>9. CASE DropSender
  BY <1>9 DEF DropSender, Q!DropSide
<1>10. CASE FreeChannel
  BY <1>10 DEF FreeChannel, Q!FreeShared
<1>11. CASE FreeBox
  BY <1>11 DEF FreeBox, FreeOld
<1>12. CASE RemoveSocket
  BY <1>12 DEF RemoveSocket, Remove
<1>13. CASE Delete
  BY <1>13 DEF Delete, Ending
<1>14. CASE SendFails
  BY <1>14 DEF SendFails
<1> QED
  BY <1>1, <1>2, <1>3, <1>4, <1>5, <1>6, <1>7, <1>8, <1>9, <1>10, <1>11, <1>12,
     <1>13, <1>14 DEF TaskStep

(* lwIP's thread.                                                          *)
LEMMA BetweenNet == IInv /\ Between /\ (Stray \/ Datagram \/ NetworkStep) => Between'
<1> SUFFICES ASSUME IInv, Between, Stray \/ Datagram \/ NetworkStep PROVE Between'
  OBVIOUS
<1> USE DeliveryAssumption
    DEF IInv, TypeOK, Ownership, Between, ChannelTypes, Order, SenderGone,
        InCall, udpVars, vars, appVars, queueVars, Q!Goto, Q!At, Q!Locs
<1>1. CASE Stray
  BY <1>1 DEF Stray, Q!Spurious, Q!SpuriousWake
<1>2. CASE Datagram
  BY <1>2 DEF Datagram, Input
<1>3. CASE Call
  BY <1>3 DEF Call, RunCallback, Q!TrySend
<1>4. CASE Wake
  <2>1. CASE Q!TakeBits(Tx)
    BY <1>4, <2>1 DEF Wake, Q!TakeBits, Q!TakeWakeable, Q!Peer
  <2>2. CASE Q!NotifyOne(Tx)
    BY <1>4, <2>2 DEF Wake, Q!NotifyOne, Q!Notify
  <2>3. CASE Q!NotifyDone(Tx)
    BY <1>4, <2>3 DEF Wake, Q!NotifyDone
  <2> QED BY <1>4, <2>1, <2>2, <2>3 DEF Wake
<1>5. CASE Return
  BY <1>5 DEF Return, SetDone
<1>6. CASE Dispatch
  BY <1>6 DEF Dispatch, DispatchFault, Barrier, Bail, BailFault
<1> QED BY <1>1, <1>2, <1>3, <1>4, <1>5, <1>6 DEF NetworkStep

(* The inductive invariant, from which the theorems after it follow.       *)
THEOREM SystemInvariance == SystemSpec => [](IInv /\ Between)
<1>1. SystemSpec => []IInv
  BY SocketPart, Invariance, PTL
<1>2. IInv /\ Between /\ [SystemNext]_systemVars => Between'
  <2>1. Between /\ UNCHANGED systemVars => Between'
    BY DEF systemVars, udpVars, vars, queueVars, Between, ChannelTypes, Order,
           SenderGone, InCall
  <2> QED BY <2>1, BetweenTask, BetweenNet DEF SystemNext
<1> QED BY <1>1, <1>2, BetweenInit, PTL DEF SystemSpec

(* The sender is dropped only when no new datagram is led to it and no call *)
(* of it is under way: Queue.tla's guard on dropping an end never bites.    *)
THEOREM SenderAtRest == SystemSpec => []SenderOutlivesCallback
<1>1. IInv /\ Between => SenderOutlivesCallback
  <2> USE DEF IInv, TypeOK, Ownership, Hooked, Running, Between, Order, SenderGone
  <2>1. ASSUME IInv, Between, app = "free" PROVE SenderOutlivesCallback
    BY <2>1 DEF SenderOutlivesCallback
  <2>2. ASSUME IInv, Between, Tx \notin ends PROVE SenderOutlivesCallback
    BY <2>2 DEF SenderOutlivesCallback
  <2> QED BY <2>1, <2>2 DEF SenderOutlivesCallback
<1> QED BY SystemInvariance, <1>1, PTL

(* The callback never notifies a task that has been deleted.                *)
THEOREM TaskAwaitsWakers == SystemSpec => []WakesLiveTask
<1>1. IInv /\ Between => WakesLiveTask
  BY DEF IInv, Running, Between, Order, InCall, WakesLiveTask
<1> QED BY SystemInvariance, <1>1, PTL

----------------------------------------------------------------------------
(* What a task leaves behind *)

(* The facts about the channel that QueueProofs has.                       *)
ChannelFacts ==
  /\ ends = {t \in {Tx, Rx} : pc[t] \notin {"free", "gone"}}
  /\ freed <=> pc[Tx] = "gone" /\ pc[Rx] = "gone"
  /\ Q!Conservation

LEMMA ChannelHolds == SystemSpec => []ChannelFacts
<1>1. QP!LastOut /\ QP!SharedLifetime =>
        /\ ends = {t \in {Tx, Rx} : pc[t] \notin {"free", "gone"}}
        /\ freed <=> pc[Tx] = "gone" /\ pc[Rx] = "gone"
  BY DEF QP!LastOut, QP!SharedLifetime, QP!At
<1>2. QP!Conservation => Q!Conservation
  <2>1. /\ Q!Elements(queue) = QP!Elements(queue)
        /\ Q!Elements(delivered) = QP!Elements(delivered)
    BY Zenon DEF Q!Elements, QP!Elements
  <2> QED BY <2>1 DEF Q!Conservation, QP!Conservation
<1>3. QP!IInv => QP!LastOut /\ QP!SharedLifetime
  BY DEF QP!IInv
<1>4. QP!Spec => []QP!IInv
  BY DeliveryAssumption, QP!Invariance
<1>5. QP!Spec => []QP!Conservation
  BY DeliveryAssumption, QP!NothingLost
<1> QED BY <1>1, <1>2, <1>3, <1>4, <1>5, ChannelPart, SameChannel, PTL DEF ChannelFacts

(* Neither end is forgotten on any way out of bind or of the loop.         *)
Closing ==
  /\ life = "bind" => Rx \in ends
  /\ life \in {"join", "serve", "exit"} /\ app = "idle" => receive_cb # None
  /\ life \in {"exit", "unwind"} /\ app = "idle" /\ receive_cb = None => pc[Tx] = "gone"
  /\ app \in {"reset", "remove", "closed"} => pc[Tx] = "gone"
  /\ life = "gone" => pc[Rx] = "gone"
  /\ freed => queue = <<>>

LEMMA ClosingInit == SystemInit => Closing
BY DeliveryAssumption DEF SystemInit, Init, Q!Init, Closing

LEMMA ClosingTask ==
  IInv /\ Between /\ ChannelFacts /\ Closing /\ (TaskStep \/ SendFails) => Closing'
<1> SUFFICES ASSUME IInv, Between, ChannelFacts, Closing, TaskStep \/ SendFails
             PROVE  Closing'
  OBVIOUS
<1> USE DeliveryAssumption
    DEF IInv, TypeOK, Ownership, Between, ChannelTypes, Order, SenderGone,
        ChannelFacts, Closing, udpVars, vars, queueVars, Live, Q!Goto, Q!At, Q!Locs
<1>1. CASE Hook
  BY <1>1 DEF Hook, OnReceive, TakeCallback
<1>2. CASE HookFails
  BY <1>2 DEF HookFails, Q!DropSide
<1>3. CASE BindSocket \/ BindSocketFails
  BY <1>3 DEF BindSocket, BindSocketFails
<1>4. ASSUME NEW ok \in BOOLEAN, JoinMulticastGroup(ok) PROVE Closing'
  BY <1>4 DEF JoinMulticastGroup
<1>5. CASE Receive
  BY <1>5 DEF Receive, Q!TakeItem, Q!FindEmpty, Q!AddSelf, Q!Unpark, Q!TakeBits,
              Q!NotifyDone, Q!Deliver, Q!items
<1>6. CASE Socket
  <2>1. CASE SetStop
    BY <1>6, <2>1 DEF Socket, SetStop
  <2>2. CASE UnsetRecv
    BY <1>6, <2>2 DEF Socket, UnsetRecv
  <2>3. CASE WaitSafe
    BY <1>6, <2>3 DEF Socket, WaitSafe
  <2>4. CASE ClearFlags
    BY <1>6, <2>4 DEF Socket, ClearFlags
  <2>5. CASE SetSafe
    BY <1>6, <2>5 DEF Socket, SetSafe
  <2>6. CASE SetRecv
    BY <1>6, <2>6 DEF Socket, SetRecv
  <2>7. CASE SaveCallback
    BY <1>6, <2>7 DEF Socket, SaveCallback
  <2> QED BY <1>6, <2>1, <2>2, <2>3, <2>4, <2>5, <2>6, <2>7 DEF Socket
<1>7. CASE DropReceiver
  BY <1>7 DEF DropReceiver, Q!DropSide
<1>8. CASE DropSocket
  BY <1>8 DEF DropSocket, Close, TakeCallback
<1>9. CASE DropSender
  BY <1>9 DEF DropSender, Q!DropSide
<1>10. CASE FreeChannel
  BY <1>10 DEF FreeChannel, Q!FreeShared, Q!Drain
<1>11. CASE FreeBox
  BY <1>11 DEF FreeBox, FreeOld
<1>12. CASE RemoveSocket
  BY <1>12 DEF RemoveSocket, Remove
<1>13. CASE Delete
  BY <1>13 DEF Delete, Ending
<1>14. CASE SendFails
  BY <1>14 DEF SendFails
<1> QED
  BY <1>1, <1>2, <1>3, <1>4, <1>5, <1>6, <1>7, <1>8, <1>9, <1>10, <1>11, <1>12,
     <1>13, <1>14 DEF TaskStep

LEMMA ClosingNet ==
  IInv /\ Between /\ ChannelFacts /\ Closing /\ (Stray \/ Datagram \/ NetworkStep) => Closing'
<1> SUFFICES ASSUME IInv, Between, ChannelFacts, Closing, Stray \/ Datagram \/ NetworkStep
             PROVE  Closing'
  OBVIOUS
<1> USE DeliveryAssumption
    DEF IInv, TypeOK, Ownership, Between, ChannelTypes, Order,
        ChannelFacts, Closing, udpVars, vars, appVars, queueVars, Q!Goto, Q!At, Q!Locs
<1>1. CASE Stray
  BY <1>1 DEF Stray, Q!Spurious, Q!SpuriousWake, Q!items
<1>2. CASE Datagram
  BY <1>2 DEF Datagram, Input
<1>3. CASE Call
  BY <1>3 DEF Call, RunCallback, Q!TrySend
<1>4. CASE Wake
  BY <1>4 DEF Wake, Q!TakeBits, Q!NotifyOne, Q!NotifyDone, Q!items
<1>5. CASE Return
  BY <1>5 DEF Return, SetDone
<1>6. CASE Dispatch
  BY <1>6 DEF Dispatch, DispatchFault, Barrier, Bail, BailFault
<1> QED BY <1>1, <1>2, <1>3, <1>4, <1>5, <1>6 DEF NetworkStep

(* However the task ends, no callback stays hooked or allocated, the        *)
(* channel is freed, and every packet is accounted for.                     *)
THEOREM EndsClean == SystemSpec => []AllReturned
<1>1. IInv /\ Between /\ ChannelFacts /\ Closing /\ [SystemNext]_systemVars => Closing'
  <2>1. Closing /\ UNCHANGED systemVars => Closing'
    BY DEF systemVars, udpVars, vars, queueVars, Closing
  <2> QED BY <2>1, ClosingTask, ClosingNet DEF SystemNext
<1>2. SystemSpec => []Closing
  BY <1>1, ClosingInit, SystemInvariance, ChannelHolds, PTL DEF SystemSpec
<1>3. IInv /\ Between /\ ChannelFacts /\ Closing => AllReturned
  BY DeliveryAssumption
     DEF IInv, TypeOK, Ownership, Hooked, Between, Order, ChannelFacts, Closing, AllReturned
<1> QED BY <1>2, <1>3, SystemInvariance, ChannelHolds, PTL
=============================================================================
