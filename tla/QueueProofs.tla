---------------------------- MODULE QueueProofs ----------------------------
(***************************************************************************)
(* What Queue promises for every capacity, every mix of sender calls and   *)
(* every number of items.                                                  *)
(***************************************************************************)
EXTENDS Queue, TLAPS

(* A sender that is past its bound check has an item left to send.         *)
HasItem == At(Tx, {"send", "evict", "push"}) => made < MaxItems

(* Only an actor inside wake_all holds bits it took from a set.            *)
WakerBusy == \A t \in Tasks : waking[t] # {} => At(t, {"notify"})

(* flags, and the one end that goes on to free the box.                    *)
LastOut ==
  /\ alive = {t \in Tasks : ~At(t, {"free", "gone"})}
  /\ \A t \in Tasks : At(t, {"free"}) => At(Peer(t), {"gone"})

IInv ==
  /\ TypeOK
  /\ HasItem
  /\ WakerBusy
  /\ LastOut
  /\ ParkedIsRegistered
  /\ SendCannotFail
  /\ SharedLifetime

USE QueueAssumption DEF At, Goto, Locs, items

(* Taking the first item of a queue keeps its type and shortens it.        *)
LEMMA TailShorter ==
  ASSUME NEW S, NEW s \in Seq(S), s # <<>>
  PROVE  /\ Tail(s) \in Seq(S)
         /\ Head(s) \in S
         /\ Len(Tail(s)) = Len(s) - 1
         /\ Len(s) \in Nat \ {0}
OBVIOUS

(* A successful send adds its one item at the back.                        *)
LEMMA AppendLonger ==
  ASSUME NEW S, NEW s \in Seq(S), NEW x \in S
  PROVE  /\ Append(s, x) \in Seq(S)
         /\ Len(Append(s, x)) = Len(s) + 1
         /\ Len(s) \in Nat
OBVIOUS

(* What can happen to an item keeps the items' types.  The room for one     *)
(* more is the queue's own check; the numbering bound is HasItem.           *)
LEMMA EnqueueType ==
  ASSUME ItemsTypeOK, made < MaxItems, ~Full, Enqueue
  PROVE  ItemsTypeOK'
<1>1. made + 1 \in 1 .. MaxItems
  BY DEF ItemsTypeOK
<1>2. Len(queue') = Len(queue) + 1 /\ Len(queue) \in Nat /\ queue' \in Seq(1 .. MaxItems)
  BY <1>1, AppendLonger DEF ItemsTypeOK, Enqueue
<1>3. Len(queue') <= Capacity
  BY <1>2 DEF Full
<1> QED BY <1>1, <1>2, <1>3 DEF ItemsTypeOK, Enqueue

LEMMA RefuseType ==
  ASSUME ItemsTypeOK, made < MaxItems, Refuse \/ Lose
  PROVE  ItemsTypeOK'
<1>1. made + 1 \in 1 .. MaxItems
  BY DEF ItemsTypeOK
<1>2. refused' \subseteq refused \cup {made + 1}
  BY DEF Refuse, Lose
<1>3. refused' \subseteq 1 .. MaxItems
  BY <1>1, <1>2 DEF ItemsTypeOK
<1>4. made' \in 0 .. MaxItems
  BY <1>1 DEF Refuse, Lose
<1>5. UNCHANGED <<queue, delivered, discarded>>
  BY DEF Refuse, Lose
<1> QED BY <1>3, <1>4, <1>5 DEF ItemsTypeOK

LEMMA RemoveType ==
  ASSUME ItemsTypeOK, Deliver \/ Discard
  PROVE  ItemsTypeOK' /\ Len(queue') = Len(queue) - 1
<1>1. queue # <<>> /\ queue' = Tail(queue)
  BY DEF Deliver, Discard
<1>2. /\ queue' \in Seq(1 .. MaxItems) /\ Head(queue) \in 1 .. MaxItems
      /\ Len(queue') = Len(queue) - 1 /\ Len(queue) \in Nat
  BY <1>1, TailShorter DEF ItemsTypeOK
<1>3. delivered' \in Seq(1 .. MaxItems)
  BY <1>2, AppendLonger DEF ItemsTypeOK, Deliver, Discard
<1>4. discarded' \subseteq discarded \cup {Head(queue)}
  BY DEF Deliver, Discard
<1>5. discarded' \subseteq 1 .. MaxItems
  BY <1>2, <1>4 DEF ItemsTypeOK
<1>6. UNCHANGED <<made, refused>>
  BY DEF Deliver, Discard
<1>7. Len(queue') <= Capacity
  BY <1>2 DEF ItemsTypeOK
<1> QED BY <1>2, <1>3, <1>5, <1>6, <1>7 DEF ItemsTypeOK

LEMMA DrainType ==
  ASSUME ItemsTypeOK, Drain
  PROVE  ItemsTypeOK'
<1>1. Elements(queue) \subseteq 1 .. MaxItems
  BY DEF Elements, ItemsTypeOK
<1>2. discarded' \subseteq 1 .. MaxItems
  BY <1>1 DEF Drain, ItemsTypeOK
<1>3. <<>> \in Seq(1 .. MaxItems) /\ Len(<<>>) <= Capacity
  OBVIOUS
<1> QED BY <1>2, <1>3 DEF Drain, ItemsTypeOK

(* A step leaves the items alone, or one of the things above happens.       *)
LEMMA ItemsStep ==
  ASSUME ItemsTypeOK, HasItem, [Next]_vars
  PROVE  /\ ItemsTypeOK'
         /\ \/ UNCHANGED items \/ Refuse \/ Deliver \/ Discard \/ Drain
            \/ Enqueue /\ ~Full
            \/ Lose /\ At(Tx, {"push"}) /\ Full
<1>1. \/ UNCHANGED items \/ Deliver \/ Discard \/ Drain
      \/ made < MaxItems /\ ~Full /\ Enqueue
      \/ made < MaxItems /\ (Refuse \/ (Lose /\ At(Tx, {"push"}) /\ Full))
  <2>1. TakeItem => Deliver
    BY DEF TakeItem
  <2>2. FindEmpty \/ PollReserve \/ CheckFull \/ UNCHANGED vars => UNCHANGED items
    BY DEF FindEmpty, PollReserve, CheckFull, vars
  <2>3. TrySend => made < MaxItems /\ ((~Full /\ Enqueue) \/ Refuse)
    BY DEF TrySend
  <2>4. SendReserved => made < MaxItems /\ ((~Full /\ Enqueue) \/ UNCHANGED items)
    BY DEF SendReserved, HasItem
  <2>5. Evict => Discard \/ UNCHANGED items
    BY DEF Evict
  <2>6. Push => made < MaxItems /\ ((~Full /\ Enqueue) \/ (Lose /\ At(Tx, {"push"}) /\ Full))
    BY DEF Push, HasItem
  <2>7. ASSUME NEW t \in Tasks
        PROVE  Finish(t) \/ DropSide(t) \/ Spurious(t) => Drain \/ UNCHANGED items
    BY DEF Finish, AddSelf, Unpark, TakeBits, NotifyOne, NotifyDone, FreeShared,
           DropSide, Spurious
  <2> QED
    BY <2>1, <2>2, <2>3, <2>4, <2>5, <2>6, <2>7 DEF Next, RxNext, TxNext
<1>2. UNCHANGED items => ItemsTypeOK'
  BY DEF ItemsTypeOK
<1> QED BY <1>1, <1>2, EnqueueType, RefuseType, RemoveType, DrainType

(* Every variable keeps its type.                                           *)
LEMMA TypeStep == TypeOK /\ HasItem /\ [Next]_vars => TypeOK'
<1> SUFFICES ASSUME TypeOK, HasItem, [Next]_vars PROVE TypeOK'
  OBVIOUS
<1>0. ItemsTypeOK'
  BY ItemsStep DEF TypeOK
<1> USE <1>0 DEF TypeOK, WakerTypeOK
<1>1. CASE TakeItem
  BY <1>1 DEF TakeItem
<1>2. CASE FindEmpty
  BY <1>2 DEF FindEmpty
<1>3. CASE TrySend
  BY <1>3 DEF TrySend
<1>4. CASE PollReserve
  BY <1>4 DEF PollReserve
<1>5. CASE SendReserved
  BY <1>5 DEF SendReserved
<1>6. CASE CheckFull
  BY <1>6 DEF CheckFull
<1>7. CASE Evict
  BY <1>7 DEF Evict
<1>8. CASE Push
  BY <1>8 DEF Push
<1>9. ASSUME NEW t \in Tasks, Finish(t) \/ DropSide(t) \/ Spurious(t) PROVE TypeOK'
  <2>1. CASE AddSelf(t)
    BY <2>1 DEF AddSelf, AddTask
  <2>2. CASE Unpark(t)
    BY <2>2 DEF Unpark, NotifyWait
  <2>3. CASE TakeBits(t)
    BY <2>3 DEF TakeBits, TakeWakeable, Peer
  <2>4. CASE NotifyOne(t)
    BY <2>4 DEF NotifyOne, Notify
  <2>5. CASE NotifyDone(t)
    BY <2>5 DEF NotifyDone
  <2>6. CASE FreeShared(t)
    BY <2>6 DEF FreeShared
  <2>7. CASE DropSide(t)
    BY <2>7 DEF DropSide
  <2>8. CASE Spurious(t)
    BY <2>8 DEF Spurious, SpuriousWake
  <2> QED BY <1>9, <2>1, <2>2, <2>3, <2>4, <2>5, <2>6, <2>7, <2>8 DEF Finish
<1>10. CASE UNCHANGED vars
  BY <1>10 DEF vars
<1> QED
  BY <1>1, <1>2, <1>3, <1>4, <1>5, <1>6, <1>7, <1>8, <1>9, <1>10
     DEF Next, RxNext, TxNext

(* HasItem: only the sender moves made, and only when it leaves these       *)
(* locations.                                                               *)
LEMMA HasItemStep == TypeOK /\ HasItem /\ [Next]_vars => HasItem'
<1> SUFFICES ASSUME TypeOK, HasItem, [Next]_vars PROVE HasItem'
  OBVIOUS
<1> USE DEF TypeOK, HasItem
<1>1. CASE RxNext
  BY <1>1 DEF RxNext, TakeItem, FindEmpty, Deliver
<1>2. CASE TxNext
  BY <1>2 DEF TxNext, TrySend, PollReserve, SendReserved, CheckFull, Evict, Push, Discard
<1>3. ASSUME NEW t \in Tasks, Finish(t) \/ DropSide(t) \/ Spurious(t) PROVE HasItem'
  BY <1>3 DEF Finish, AddSelf, Unpark, TakeBits, NotifyOne, NotifyDone, FreeShared,
              DropSide, Spurious, Drain
<1>4. CASE UNCHANGED vars
  BY <1>4 DEF vars
<1> QED BY <1>1, <1>2, <1>3, <1>4 DEF Next

(* The room the sender saw stays: the receiver only takes items out, and    *)
(* nobody else puts any in.                                                 *)
LEMMA RoomStep == TypeOK /\ HasItem /\ SendCannotFail /\ [Next]_vars => SendCannotFail'
<1> SUFFICES ASSUME TypeOK, HasItem, SendCannotFail, [Next]_vars PROVE SendCannotFail'
  OBVIOUS
<1>0. Len(queue) \in Nat /\ Len(queue) <= Capacity /\ ItemsTypeOK
  BY DEF TypeOK, ItemsTypeOK
<1>1. Deliver \/ Discard => ~Full'
  BY <1>0, RemoveType DEF Full
<1>2. UNCHANGED queue => UNCHANGED Full
  BY DEF Full
<1>3. CASE RxNext
  BY <1>1, <1>2, <1>3 DEF RxNext, TakeItem, FindEmpty, SendCannotFail, TypeOK
<1>4. CASE TxNext
  <2>1. queue = <<>> => ~Full
    BY DEF Full
  <2> QED BY <1>1, <1>2, <1>4, <2>1
             DEF TxNext, TrySend, PollReserve, SendReserved, CheckFull, Evict, Push,
                 SendCannotFail, TypeOK
<1>5. ASSUME NEW t \in Tasks, Finish(t) \/ DropSide(t) \/ Spurious(t)
      PROVE  SendCannotFail'
  <2>1. Drain => ~Full'
    BY DEF Drain, Full
  <2> QED BY <1>2, <1>5, <2>1
       DEF Finish, AddSelf, Unpark, TakeBits, NotifyOne, NotifyDone, FreeShared,
           DropSide, Spurious, SendCannotFail, TypeOK
<1>6. CASE UNCHANGED vars
  BY <1>2, <1>6 DEF vars, SendCannotFail
<1> QED BY <1>3, <1>4, <1>5, <1>6 DEF Next

(* Bits taken from a set are held only on the way to being notified.        *)
LEMMA WakerStep == TypeOK /\ WakerBusy /\ [Next]_vars => WakerBusy'
<1> SUFFICES ASSUME TypeOK, WakerBusy, [Next]_vars PROVE WakerBusy'
  OBVIOUS
<1> USE DEF TypeOK, WakerTypeOK, WakerBusy
<1>1. CASE RxNext
  BY <1>1 DEF RxNext, TakeItem, FindEmpty
<1>2. CASE TxNext
  BY <1>2 DEF TxNext, TrySend, PollReserve, SendReserved, CheckFull, Evict, Push
<1>3. ASSUME NEW t \in Tasks, Finish(t) \/ DropSide(t) \/ Spurious(t) PROVE WakerBusy'
  <2>1. CASE TakeBits(t)
    BY <2>1 DEF TakeBits, TakeWakeable
  <2>2. CASE NotifyOne(t)
    BY <2>2 DEF NotifyOne, Notify
  <2>3. CASE NotifyDone(t)
    BY <2>3 DEF NotifyDone
  <2>4. CASE AddSelf(t) \/ Unpark(t) \/ FreeShared(t) \/ DropSide(t) \/ Spurious(t)
    BY <2>4 DEF AddSelf, Unpark, FreeShared, DropSide, Spurious, SpuriousWake
  <2> QED BY <1>3, <2>1, <2>2, <2>3, <2>4 DEF Finish
<1>4. CASE UNCHANGED vars
  BY <1>4 DEF vars
<1> QED BY <1>1, <1>2, <1>3, <1>4 DEF Next

(* A sleeping task never loses its bit except to an actor that will notify  *)
(* it, and that actor does.                                                 *)
LEMMA ParkedStep ==
  TypeOK /\ WakerBusy /\ ParkedIsRegistered /\ [Next]_vars => ParkedIsRegistered'
<1> SUFFICES ASSUME TypeOK, WakerBusy, ParkedIsRegistered, [Next]_vars,
                    NEW s \in Tasks, Asleep(s)'
             PROVE  Registered(s)' \/ \E u \in Tasks : s \in waking'[u]
  BY DEF ParkedIsRegistered
<1> USE DEF TypeOK, WakerTypeOK, Asleep, Registered
<1>0. Asleep(s) => Registered(s) \/ \E u \in Tasks : s \in waking[u]
  BY DEF ParkedIsRegistered
<1>1. CASE RxNext
  BY <1>0, <1>1 DEF RxNext, TakeItem, FindEmpty
<1>2. CASE TxNext
  BY <1>0, <1>2 DEF TxNext, TrySend, PollReserve, SendReserved, CheckFull, Evict, Push
<1>3. ASSUME NEW t \in Tasks, Finish(t) \/ DropSide(t) \/ Spurious(t)
      PROVE  Registered(s)' \/ \E u \in Tasks : s \in waking'[u]
  <2>1. CASE AddSelf(t)
    BY <1>0, <2>1 DEF AddSelf, AddTask
  <2>2. CASE Unpark(t)
    BY <1>0, <2>2 DEF Unpark, NotifyWait
  <2>3. CASE TakeBits(t)
    <3>1. Asleep(s) /\ waking[t] = {}
      BY <2>3 DEF TakeBits, WakerBusy
    <3>2. CASE s = Peer(t) /\ Registered(s)
      BY <2>3, <3>2 DEF TakeBits, TakeWakeable
    <3>3. CASE s # Peer(t) /\ Registered(s)
      BY <2>3, <3>3 DEF TakeBits
    <3>4. CASE \E u \in Tasks : s \in waking[u]
      BY <2>3, <3>1, <3>4 DEF TakeBits, TakeWakeable
    <3> QED BY <1>0, <3>1, <3>2, <3>3, <3>4
  <2>4. CASE NotifyOne(t)
    BY <1>0, <2>4 DEF NotifyOne, Notify
  <2>5. CASE NotifyDone(t)
    BY <1>0, <2>5 DEF NotifyDone
  <2>6. CASE FreeShared(t) \/ DropSide(t) \/ Spurious(t)
    BY <1>0, <2>6 DEF FreeShared, DropSide, Spurious, SpuriousWake
  <2> QED BY <1>3, <2>1, <2>2, <2>3, <2>4, <2>5, <2>6 DEF Finish
<1>4. CASE UNCHANGED vars
  BY <1>0, <1>4 DEF vars
<1> QED BY <1>1, <1>2, <1>3, <1>4 DEF Next

(* The last end out, and only it, frees the box.                            *)
LEMMA LifetimeStep ==
  TypeOK /\ LastOut /\ SharedLifetime /\ [Next]_vars => LastOut' /\ SharedLifetime'
<1> SUFFICES ASSUME TypeOK, LastOut, SharedLifetime, [Next]_vars
             PROVE  LastOut' /\ SharedLifetime'
  OBVIOUS
<1> USE DEF TypeOK, LastOut, SharedLifetime, Peer
<1>1. CASE RxNext
  BY <1>1 DEF RxNext, TakeItem, FindEmpty
<1>2. CASE TxNext
  BY <1>2 DEF TxNext, TrySend, PollReserve, SendReserved, CheckFull, Evict, Push
<1>3. ASSUME NEW t \in Tasks, Finish(t) \/ DropSide(t) \/ Spurious(t)
      PROVE  LastOut' /\ SharedLifetime'
  <2>1. CASE AddSelf(t) \/ Unpark(t) \/ TakeBits(t) \/ NotifyOne(t) \/ NotifyDone(t) \/ Spurious(t)
    BY <2>1 DEF AddSelf, Unpark, TakeBits, NotifyOne, NotifyDone, Spurious
  <2>2. CASE FreeShared(t)
    BY <2>2 DEF FreeShared
  <2>3. CASE DropSide(t)
    BY <2>3 DEF DropSide
  <2> QED BY <1>3, <2>1, <2>2, <2>3 DEF Finish
<1>4. CASE UNCHANGED vars
  BY <1>4 DEF vars
<1> QED BY <1>1, <1>2, <1>3, <1>4 DEF Next

LEMMA InvInit == Init => IInv
<1> SUFFICES ASSUME Init PROVE IInv
  OBVIOUS
<1>1. TypeOK
  <2>1. <<>> \in Seq(1 .. MaxItems) /\ Len(<<>>) <= Capacity
    OBVIOUS
  <2>2. ItemsTypeOK
    BY <2>1 DEF Init, ItemsTypeOK
  <2> QED BY <2>2 DEF Init, WakerInit, TypeOK, WakerTypeOK
<1>2. HasItem /\ WakerBusy /\ LastOut
  BY DEF Init, WakerInit, HasItem, WakerBusy, LastOut
<1>3. ParkedIsRegistered /\ SendCannotFail /\ SharedLifetime
  BY DEF Init, ParkedIsRegistered, Asleep, SendCannotFail, SharedLifetime
<1> QED BY <1>1, <1>2, <1>3 DEF IInv

LEMMA InvStep == IInv /\ [Next]_vars => IInv'
BY TypeStep, HasItemStep, RoomStep, WakerStep, ParkedStep, LifetimeStep DEF IInv

(* The inductive invariant, from which the theorems after it follow.       *)
THEOREM Invariance == Spec => []IInv
BY InvInit, InvStep, PTL DEF Spec

(* The types hold in every reachable state.                                 *)
THEOREM TypeCorrect == Spec => []TypeOK
BY Invariance, PTL DEF IInv

(* queue.rs: a task asleep in a queue call is always reachable by its bit   *)
(* or by a notification in flight.                                          *)
THEOREM SleeperReachable == Spec => []ParkedIsRegistered
BY Invariance, PTL DEF IInv

(* queue.rs send: the panic after poll_reserve is unreachable, and          *)
(* send_overwriting_from_isr never loses its item, for every capacity.      *)
THEOREM ReservationHolds == Spec => []SendCannotFail
BY Invariance, PTL DEF IInv

(* queue.rs drop_side: the Shared box is freed once, by the last end out.   *)
THEOREM FreedByLast == Spec => []SharedLifetime
BY Invariance, PTL DEF IInv

----------------------------------------------------------------------------
(* Where the items are *)

(* Items are numbered as they are made, so what was delivered and what     *)
(* waits is in rising order, the delivered first.                          *)
Rising ==
  /\ \A i, j \in DOMAIN queue : i < j => queue[i] < queue[j]
  /\ \A i, j \in DOMAIN delivered : i < j => delivered[i] < delivered[j]
  /\ \A i \in DOMAIN delivered, j \in DOMAIN queue : delivered[i] < queue[j]

Waiting == Elements(queue)
Received == Elements(delivered)

(* Every item made is in one of the four places.                           *)
Placed ==
  /\ Waiting \cup Received \cup refused \cup discarded = 1 .. made
  /\ Waiting \cap Received = {} /\ Waiting \cap refused = {}
  /\ Waiting \cap discarded = {} /\ Received \cap refused = {}
  /\ Received \cap discarded = {} /\ refused \cap discarded = {}

LEMMA ElementsAppend ==
  ASSUME NEW S, NEW s \in Seq(S), NEW x \in S
  PROVE  Elements(Append(s, x)) = Elements(s) \cup {x}
<1>1. /\ DOMAIN Append(s, x) = 1 .. Len(s) + 1 /\ Len(s) \in Nat
      /\ \A i \in 1 .. Len(s) : Append(s, x)[i] = s[i]
      /\ Append(s, x)[Len(s) + 1] = x
      /\ DOMAIN s = 1 .. Len(s)
  OBVIOUS
<1>2. \A i \in 1 .. Len(s) + 1 : i \in 1 .. Len(s) \/ i = Len(s) + 1
  BY <1>1
<1>3. \A i \in 1 .. Len(s) : i \in 1 .. Len(s) + 1
  BY <1>1
<1>4. Len(s) + 1 \in 1 .. Len(s) + 1
  BY <1>1
<1> QED BY <1>1, <1>2, <1>3, <1>4 DEF Elements

(* The first item of a rising queue is only once in it.                    *)
LEMMA ElementsTail ==
  ASSUME NEW s \in Seq(Nat), s # <<>>,
         \A i, j \in DOMAIN s : i < j => s[i] < s[j]
  PROVE  /\ Elements(Tail(s)) = Elements(s) \ {Head(s)}
         /\ Head(s) \in Elements(s)
<1>1. /\ Len(s) \in Nat \ {0} /\ DOMAIN s = 1 .. Len(s)
      /\ Head(s) = s[1]
      /\ DOMAIN Tail(s) = 1 .. Len(s) - 1
      /\ \A i \in 1 .. Len(s) - 1 : Tail(s)[i] = s[i + 1]
      /\ \A i \in DOMAIN s : s[i] \in Nat
  OBVIOUS
<1>2. ASSUME NEW x \in Elements(Tail(s)) PROVE x \in Elements(s) \ {Head(s)}
  <2>1. PICK i \in 1 .. Len(s) - 1 : x = s[i + 1]
    BY <1>1 DEF Elements
  <2>2. i + 1 \in DOMAIN s /\ 1 \in DOMAIN s /\ 1 < i + 1
    BY <1>1
  <2>3. s[1] < s[i + 1] /\ s[1] \in Nat /\ s[i + 1] \in Nat
    BY <1>1, <2>2
  <2> QED BY <1>1, <2>1, <2>2, <2>3 DEF Elements
<1>3. ASSUME NEW x \in Elements(s), x # Head(s) PROVE x \in Elements(Tail(s))
  <2>1. PICK i \in DOMAIN s : x = s[i]
    BY DEF Elements
  <2>2. i # 1
    BY <1>1, <1>3, <2>1
  <2>3. i - 1 \in 1 .. Len(s) - 1 /\ Tail(s)[i - 1] = s[i]
    BY <1>1, <2>1, <2>2
  <2> QED BY <1>1, <2>1, <2>3 DEF Elements
<1>4. Head(s) \in Elements(s)
  <2>1. 1 \in DOMAIN s
    BY <1>1
  <2> QED BY <1>1, <2>1 DEF Elements
<1> QED BY <1>2, <1>3, <1>4

(* A greater item at the back keeps a sequence rising.                     *)
LEMMA AppendRising ==
  ASSUME NEW s \in Seq(Nat), NEW x \in Nat,
         \A i, j \in DOMAIN s : i < j => s[i] < s[j],
         \A i \in DOMAIN s : s[i] < x
  PROVE  \A i, j \in DOMAIN Append(s, x) : i < j => Append(s, x)[i] < Append(s, x)[j]
<1>1. /\ DOMAIN Append(s, x) = 1 .. Len(s) + 1 /\ Len(s) \in Nat
      /\ \A i \in 1 .. Len(s) : Append(s, x)[i] = s[i]
      /\ Append(s, x)[Len(s) + 1] = x
      /\ DOMAIN s = 1 .. Len(s)
  OBVIOUS
<1>2. SUFFICES ASSUME NEW i \in DOMAIN Append(s, x), NEW j \in DOMAIN Append(s, x), i < j
               PROVE  Append(s, x)[i] < Append(s, x)[j]
  OBVIOUS
<1>3. i \in 1 .. Len(s)
  BY <1>1, <1>2
<1>4. CASE j \in 1 .. Len(s)
  BY <1>1, <1>2, <1>3, <1>4
<1>5. CASE j = Len(s) + 1
  BY <1>1, <1>3, <1>5
<1> QED BY <1>1, <1>4, <1>5

(* Each thing that can happen to an item keeps the order.                  *)
LEMMA RisingStep ==
  ASSUME TypeOK, HasItem, Placed, Rising, [Next]_vars
  PROVE  Rising'
<1> USE DEF TypeOK, ItemsTypeOK
<1>1. /\ \A i \in DOMAIN queue : queue[i] \in 1 .. made
      /\ \A i \in DOMAIN delivered : delivered[i] \in 1 .. made
      /\ made \in Nat
  BY DEF Placed, Waiting, Received, Elements
<1>2. /\ Len(queue) \in Nat /\ DOMAIN queue = 1 .. Len(queue)
      /\ Len(delivered) \in Nat /\ DOMAIN delivered = 1 .. Len(delivered)
  OBVIOUS
<1>3. CASE Enqueue
  <2>1. queue' = Append(queue, made + 1) /\ delivered' = delivered
    BY <1>3 DEF Enqueue
  <2>2. /\ \A i \in DOMAIN queue : queue[i] < made + 1
        /\ \A i \in DOMAIN delivered : delivered[i] < made + 1
    BY <1>1
  <2>3. \A i, j \in DOMAIN queue' : i < j => queue'[i] < queue'[j]
    BY <1>1, <1>2, <2>1, <2>2, AppendRising DEF Rising
  <2>4. \A j \in DOMAIN queue' : queue'[j] = made + 1 \/ (j \in DOMAIN queue /\ queue'[j] = queue[j])
    BY <1>2, <2>1
  <2>5. \A i \in DOMAIN delivered, j \in DOMAIN queue' : delivered[i] < queue'[j]
    BY <2>2, <2>4 DEF Rising
  <2> QED BY <2>1, <2>3, <2>5 DEF Rising
<1>4. ASSUME queue # <<>>, queue' = Tail(queue)
      PROVE  /\ DOMAIN queue' = 1 .. Len(queue) - 1 /\ 1 \in DOMAIN queue
             /\ Head(queue) = queue[1]
             /\ \A i \in DOMAIN queue' : i + 1 \in DOMAIN queue /\ queue'[i] = queue[i + 1]
             /\ \A i, j \in DOMAIN queue' : i < j => queue'[i] < queue'[j]
  <2>1. /\ DOMAIN queue' = 1 .. Len(queue) - 1 /\ 1 \in DOMAIN queue
        /\ Head(queue) = queue[1]
        /\ \A i \in DOMAIN queue' : i + 1 \in DOMAIN queue /\ queue'[i] = queue[i + 1]
    BY <1>2, <1>4
  <2>2. \A i, j \in DOMAIN queue' : i < j => queue'[i] < queue'[j]
    BY <2>1, <1>2 DEF Rising
  <2> QED BY <2>1, <2>2
<1>5. CASE Discard
  <2>1. queue # <<>> /\ queue' = Tail(queue) /\ delivered' = delivered
    BY <1>5 DEF Discard
  <2> QED BY <2>1, <1>4, <1>2 DEF Rising
<1>6. CASE Deliver
  <2>1. /\ queue # <<>> /\ queue' = Tail(queue)
        /\ delivered' = Append(delivered, Head(queue))
    BY <1>6 DEF Deliver
  <2>2. Head(queue) = queue[1] /\ queue[1] \in Nat
    BY <1>1, <1>4, <2>1
  <2>3. \A i \in DOMAIN delivered : delivered[i] < queue[1]
    BY <1>4, <2>1 DEF Rising
  <2>4. \A i, j \in DOMAIN delivered' : i < j => delivered'[i] < delivered'[j]
    <3>1. delivered \in Seq(Nat)
      OBVIOUS
    <3>2. \A i, j \in DOMAIN delivered : i < j => delivered[i] < delivered[j]
      BY DEF Rising
    <3>3. \A i, j \in DOMAIN Append(delivered, queue[1]) :
            i < j => Append(delivered, queue[1])[i] < Append(delivered, queue[1])[j]
      BY <2>2, <2>3, <3>1, <3>2, AppendRising
    <3> QED BY <2>1, <2>2, <3>3
  <2>5. ASSUME NEW j \in DOMAIN queue' PROVE queue[1] < queue'[j]
    <3>1. j + 1 \in DOMAIN queue /\ 1 \in DOMAIN queue /\ 1 < j + 1 /\ queue'[j] = queue[j + 1]
      BY <1>2, <1>4, <2>1
    <3> QED BY <3>1 DEF Rising
  <2>6. \A i \in DOMAIN delivered' :
          delivered'[i] = queue[1] \/ (i \in DOMAIN delivered /\ delivered'[i] = delivered[i])
    <3>1. /\ DOMAIN delivered' = 1 .. Len(delivered) + 1
          /\ delivered'[Len(delivered) + 1] = queue[1]
          /\ \A i \in 1 .. Len(delivered) : delivered'[i] = delivered[i]
      <4>1. delivered \in Seq(Nat) /\ delivered' = Append(delivered, queue[1])
        BY <2>1, <2>2
      <4> QED BY <4>1, <2>2
    <3>2. Len(delivered) \in Nat /\ DOMAIN delivered = 1 .. Len(delivered)
      <4>1. delivered \in Seq(1 .. MaxItems)
        BY DEF ItemsTypeOK
      <4> QED BY <4>1
    <3>3. \A i \in 1 .. Len(delivered) + 1 : i = Len(delivered) + 1 \/ i \in 1 .. Len(delivered)
      BY <3>2
    <3> QED BY <3>1, <3>2, <3>3, Zenon
  <2>7. ASSUME NEW i \in DOMAIN delivered', NEW j \in DOMAIN queue'
        PROVE  delivered'[i] < queue'[j]
    <3>1. j + 1 \in DOMAIN queue /\ queue'[j] = queue[j + 1]
      BY <1>4, <2>1
    <3> QED BY <2>5, <2>6, <3>1 DEF Rising
  <2> QED BY <1>4, <2>1, <2>4, <2>7 DEF Rising
<1>7. CASE Drain
  BY <1>7 DEF Drain, Rising
<1>8. CASE UNCHANGED items \/ Refuse \/ Lose
  BY <1>8 DEF Refuse, Lose, Rising
<1> QED BY ItemsStep, <1>3, <1>5, <1>6, <1>7, <1>8

(* And moves one item from one place to one other, or makes one.           *)
LEMMA PlacedStep ==
  ASSUME TypeOK, HasItem, SendCannotFail, Placed, Rising, [Next]_vars
  PROVE  Placed'
<1> USE DEF TypeOK, ItemsTypeOK
<1>1. made \in Nat /\ 1 .. made + 1 = (1 .. made) \cup {made + 1} /\ made + 1 \notin 1 .. made
  OBVIOUS
<1>2. queue \in Seq(Nat) /\ delivered \in Seq(Nat)
  OBVIOUS
<1>3. CASE Enqueue
  <2>1. /\ Waiting' = Waiting \cup {made + 1} /\ made' = made + 1
        /\ UNCHANGED <<Received, refused, discarded>>
    <3>1. queue' = Append(queue, made + 1) /\ made' = made + 1
      BY <1>3 DEF Enqueue
    <3>2. UNCHANGED <<delivered, refused, discarded>>
      BY <1>3 DEF Enqueue
    <3>3. Waiting' = Waiting \cup {made + 1}
      BY <1>1, <1>2, <3>1, ElementsAppend DEF Waiting
    <3> QED BY <3>1, <3>2, <3>3 DEF Received
  <2> QED BY <1>1, <2>1 DEF Placed
<1>4. CASE Refuse
  <2>1. /\ refused' = refused \cup {made + 1} /\ made' = made + 1
        /\ UNCHANGED <<Waiting, Received, discarded>>
    BY <1>4 DEF Refuse, Waiting, Received
  <2> QED BY <1>1, <2>1 DEF Placed
<1>5. CASE Deliver
  <2>1. Waiting' = Waiting \ {Head(queue)} /\ Head(queue) \in Waiting
    BY <1>2, <1>5, ElementsTail DEF Deliver, Waiting, Rising
  <2>2. Head(queue) \in Nat
    BY <1>2, <1>5, TailShorter DEF Deliver
  <2>3. Received' = Received \cup {Head(queue)} /\ UNCHANGED <<made, refused, discarded>>
    BY <1>2, <1>5, <2>2, ElementsAppend DEF Deliver, Received
  <2> QED BY <2>1, <2>3 DEF Placed
<1>6. CASE Discard
  <2>1. Waiting' = Waiting \ {Head(queue)} /\ Head(queue) \in Waiting
    BY <1>2, <1>6, ElementsTail DEF Discard, Waiting, Rising
  <2>2. discarded' = discarded \cup {Head(queue)} /\ UNCHANGED <<made, refused, Received>>
    BY <1>6 DEF Discard, Received
  <2> QED BY <2>1, <2>2 DEF Placed
<1>7. CASE Drain
  <2>1. /\ Waiting' = {} /\ discarded' = discarded \cup Waiting
        /\ UNCHANGED <<made, refused, Received>>
    BY <1>7 DEF Drain, Waiting, Received, Elements
  <2> QED BY <2>1 DEF Placed
<1>8. CASE UNCHANGED items
  BY <1>8 DEF Placed, Waiting, Received
<1>9. ~(At(Tx, {"push"}) /\ Full)
  BY DEF SendCannotFail
<1> QED BY ItemsStep, <1>3, <1>4, <1>5, <1>6, <1>7, <1>8, <1>9

(* The inductive invariant, from which the theorems after it follow.       *)
THEOREM ItemsInvariance == Spec => [](IInv /\ Placed /\ Rising)
<1>1. Init => Placed /\ Rising
  BY DEF Init, Placed, Rising, Waiting, Received, Elements
<1>2. IInv /\ Placed /\ Rising /\ [Next]_vars => Placed' /\ Rising'
  BY PlacedStep, RisingStep DEF IInv
<1> QED BY Invariance, <1>1, <1>2, PTL DEF Spec

(* queue.rs: no item is lost or duplicated, whatever the two sides do and   *)
(* in whichever order they drop their ends.                                 *)
THEOREM NothingLost == Spec => []Conservation
<1>1. Placed => Conservation
  BY DEF Placed, Waiting, Received, Conservation
<1> QED BY ItemsInvariance, <1>1, PTL

(* queue.rs: items come out in the order they went in, evictions or not.    *)
THEOREM FirstInFirstOut == Spec => []InOrder
<1>1. TypeOK /\ Rising => InOrder
  <2> SUFFICES ASSUME TypeOK, Rising,
                      NEW i \in DOMAIN (delivered \o queue),
                      NEW j \in DOMAIN (delivered \o queue), i < j
               PROVE  (delivered \o queue)[i] < (delivered \o queue)[j]
    BY DEF InOrder
  <2> DEFINE n == Len(delivered)
  <2>1. /\ n \in Nat /\ Len(queue) \in Nat
        /\ DOMAIN delivered = 1 .. n /\ DOMAIN queue = 1 .. Len(queue)
        /\ DOMAIN (delivered \o queue) = 1 .. n + Len(queue)
        /\ \A k \in 1 .. n + Len(queue) :
             (delivered \o queue)[k] = IF k <= n THEN delivered[k] ELSE queue[k - n]
    BY DEF TypeOK, ItemsTypeOK
  <2> HIDE DEF n
  <2>2. CASE j <= n
    BY <2>1, <2>2 DEF Rising
  <2>3. CASE i > n
    BY <2>1, <2>3 DEF Rising
  <2>4. CASE i <= n /\ j > n
    BY <2>1, <2>4 DEF Rising
  <2> QED BY <2>1, <2>2, <2>3, <2>4
<1> QED BY ItemsInvariance, <1>1, PTL DEF IInv

----------------------------------------------------------------------------
(* The two waker sets, as WakerSets asks for them to be used *)

LEMMA FinishUses ==
  ASSUME TypeOK, WakerBusy, NEW t \in Tasks, Finish(t)
  PROVE  [Wakers!Uses]_Wakers!setVars
<1> USE DEF Wakers!Uses, Wakers!Calls
<1>0. pc \in [Tasks -> Locs] /\ Peer(t) \in Tasks
  BY DEF TypeOK, Peer
<1>1. CASE AddSelf(t)
  <2>1. t \notin Parked /\ Parked' = Parked \cup {t}
    BY <1>0, <1>1 DEF AddSelf, Parked
  <2>2. Wakers!Register(t, t)
    BY <1>1, <2>1 DEF AddSelf, AddTask, Wakers!Register, Wakers!AddTask
  <2> QED BY <2>2
<1>2. CASE Unpark(t)
  <2>1. t \in Parked /\ Parked' = Parked \ {t}
    BY <1>0, <1>2 DEF Unpark, Parked
  <2>2. Wakers!Return(t)
    BY <1>2, <2>1 DEF Unpark, NotifyWait, Wakers!Return, Wakers!NotifyWait
  <2> QED BY <2>2
<1>3. CASE TakeBits(t)
  <2>1. waking[t] = {} /\ UNCHANGED Parked
    BY <1>0, <1>3 DEF TakeBits, WakerBusy, Parked
  <2>2. Wakers!Take(t, Peer(t))
    BY <1>3, <2>1 DEF TakeBits, TakeWakeable, Wakers!Take, Wakers!TakeWakeable
  <2> QED BY <1>0, <2>2
<1>4. CASE NotifyOne(t)
  <2>1. PICK u \in Tasks : Notify(t, u)
    BY <1>4 DEF NotifyOne
  <2>2. Wakers!Wake(t, u)
    BY <1>4, <2>1 DEF NotifyOne, Parked, Notify, Wakers!Wake, Wakers!Notify
  <2> QED BY <2>2
<1>5. CASE NotifyDone(t) \/ FreeShared(t)
  <2>1. UNCHANGED <<Parked, notify, notified, waking>>
    BY <1>0, <1>5 DEF NotifyDone, FreeShared, Parked
  <2> QED BY <2>1 DEF Wakers!setVars
<1> QED BY <1>1, <1>2, <1>3, <1>4, <1>5 DEF Finish

(* What is before the registration or after the wake-up leaves the sets.   *)
LEMMA OthersUseNothing ==
  ASSUME TypeOK, RxNext \/ TxNext \/ \E t \in Tasks : DropSide(t)
  PROVE  UNCHANGED Wakers!setVars
<1>0. pc \in [Tasks -> Locs]
  BY DEF TypeOK
<1>1. UNCHANGED <<notify, notified, waking>>
  BY DEF RxNext, TakeItem, FindEmpty, TxNext, TrySend, PollReserve, SendReserved,
         CheckFull, Evict, Push, DropSide
<1>2. ASSUME NEW t \in Tasks, NEW l \in Locs \ {"park"}, pc[t] # "park", Goto(t, l)
      PROVE  UNCHANGED Parked
  BY <1>0, <1>2 DEF Parked
<1>3. CASE TakeItem \/ FindEmpty
  BY <1>1, <1>2, <1>3 DEF TakeItem, FindEmpty, Wakers!setVars
<1>4. CASE TxNext
  <2>1. pc' = pc => UNCHANGED Parked
    BY DEF Parked
  <2>2. \/ pc' = pc
        \/ pc[Tx] # "park" /\ \E l \in Locs \ {"park"} : Goto(Tx, l)
    BY <1>4 DEF TxNext, TrySend, PollReserve, SendReserved, CheckFull, Evict, Push
  <2> QED BY <1>1, <1>2, <2>1, <2>2 DEF Wakers!setVars
<1>5. CASE \E t \in Tasks : DropSide(t)
  BY <1>1, <1>2, <1>5 DEF DropSide, Wakers!setVars
<1> QED BY <1>3, <1>4, <1>5 DEF RxNext

(* queue.rs against waker.rs, for every mix of sender calls: the channel   *)
(* asks no more of its waker sets than the registry is shown to give.      *)
THEOREM ChannelUsesSets == Spec => UsesSets
<1>1. Init => Wakers!Init
  BY DEF Init, Parked, WakerInit, Wakers!Init, Wakers!WakerInit
<1>2. IInv /\ [Next]_vars => [Wakers!Uses]_Wakers!setVars
  <2> SUFFICES ASSUME IInv, [Next]_vars PROVE [Wakers!Uses]_Wakers!setVars
    OBVIOUS
  <2>0. TypeOK /\ WakerBusy
    BY DEF IInv
  <2>1. CASE \E t \in Tasks : Spurious(t)
    <3>1. PICK t \in Tasks : Spurious(t)
      BY <2>1
    <3>2. Wakers!Disturb(t)
      BY <3>1 DEF Spurious, SpuriousWake, Parked, Wakers!Disturb, Wakers!SpuriousWake
    <3> QED BY <3>2 DEF Wakers!Uses
  <2>2. CASE UNCHANGED vars
    BY <2>2 DEF vars, Wakers!setVars, Parked
  <2> QED BY <2>0, <2>1, <2>2, FinishUses, OthersUseNothing DEF Next
<1> QED BY <1>1, <1>2, Invariance, PTL DEF Spec, UsesSets, Wakers!UseSpec
=============================================================================
