----------------------------- MODULE AppProofs -----------------------------
(***************************************************************************)
(* The application task from both sides: Platform, which starts it at each *)
(* address, and Streams, which is what one of them does with sessions.     *)
(*                                                                         *)
(* First Platform, for any number of application tasks and addresses: one  *)
(* of them has the port, so that Streams may speak of one application      *)
(* task; no event is lost; an online board does not come to rest with      *)
(* nobody to serve.                                                        *)
(*                                                                         *)
(* Then Streams, for any sessions, any number of queues and any start      *)
(* delay: the reference counts are exact, nothing is used after it was     *)
(* freed, a stream task that saw itself disconnected stays so, and the     *)
(* application task sleeps only where a stream task will wake it; and the  *)
(* stream tasks keep DacLease.                                             *)
(***************************************************************************)
EXTENDS Streams, Platform, TLAPS

(* Platform *)

HasPort(a) == app[a] \in {"join", "serve", "close"}

(* The port is that of the one task that joins, serves or closes.          *)
PortOwned == \A a \in Apps : HasPort(a) <=> port = a

(* What the driver reports is what the state word says once it is stored.  *)
OnlineStored == link = "online" => wifi_STATE = "Online"

(* SeesLatest, carried through the match that acts on what was seen.       *)
SeenLatest ==
  platform # "load" /\ ~EVENT /\ handler = "idle" => seen = wifi_STATE

(* The platform task has yet to start the application for the last event.  *)
StartPending ==
  \/ handler = "raise" \/ EVENT \/ platform = "load"
  \/ platform = "match" /\ seen = "Online"

Alive == \E a \in Apps : app[a] \in {"new", "bind", "join", "serve"}

(* While the board is online and nothing failed, somebody is on the way to *)
(* serve.                                                                  *)
OnTheWay ==
  /\ \A a \in Apps : app[a] = "close" => failed
  /\ link = "online" /\ ~failed /\ Running => StartPending \/ Alive

PlatformInv ==
  PlatformTypeOK /\ PortOwned /\ OnlineStored /\ SeenLatest /\ OnTheWay

USE PlatformAssumption DEF WifiState

LEMMA PlatformInitInv == PlatformInit => PlatformInv
<1> SUFFICES ASSUME PlatformInit PROVE PlatformInv
  OBVIOUS
<1> USE DEF PlatformInit
<1>1. EVENT \in BOOLEAN /\ failed \in BOOLEAN
  BY Zenon
<1>2. PlatformTypeOK
  BY <1>1 DEF PlatformTypeOK
<1>3. PortOwned /\ OnlineStored /\ SeenLatest /\ OnTheWay
  BY DEF PortOwned, HasPort, OnlineStored, SeenLatest, OnTheWay
<1> QED BY <1>2, <1>3 DEF PlatformInv

(* The event task stores and raises.                                       *)
LEMMA EventKeeps == ASSUME PlatformInv, WifiEvent \/ RaiseEvent PROVE PlatformInv'
<1> USE DEF Handle, wifi, apps
<1>1. CASE StaStart \/ StaStartUnheard \/ StaDisconnected
  <2>1. /\ link' \in {"connecting", "lost"}
        /\ addresses' = addresses /\ UNCHANGED <<EVENT, platform, seen, apps>>
        /\ \/ handler' = "raise" /\ wifi_STATE' \in WifiState
           \/ UNCHANGED <<handler, wifi_STATE>>
    BY <1>1 DEF StaStart, StaStartUnheard, StaDisconnected
  <2> QED BY <2>1 DEF PlatformInv, PlatformTypeOK, PortOwned, HasPort, OnlineStored, SeenLatest,
                      OnTheWay
<1>2. CASE GotIp
  <2>1. /\ link' = "online" /\ wifi_STATE' = "Online" /\ handler' = "raise"
        /\ addresses < MaxAddresses /\ addresses' = addresses + 1
        /\ UNCHANGED <<EVENT, platform, seen, app, port>>
    BY <1>2 DEF GotIp
  <2>2. failed' \in BOOLEAN /\ \A a \in Apps : app[a] = "close" => failed'
    BY <1>2, Zenon DEF GotIp
  <2>3. PlatformTypeOK'
    BY <2>1, <2>2 DEF PlatformInv, PlatformTypeOK
  <2>4. PortOwned' /\ OnlineStored' /\ SeenLatest'
    BY <2>1 DEF PlatformInv, PortOwned, HasPort, OnlineStored, SeenLatest
  <2>5. OnTheWay'
    BY <2>1, <2>2 DEF OnTheWay, StartPending
  <2> QED BY <2>3, <2>4, <2>5 DEF PlatformInv
<1>3. CASE RaiseEvent
  <2>1. /\ handler = "raise" /\ handler' = "idle"
        /\ UNCHANGED <<wifi, wifi_STATE, platform, seen, apps>>
    BY <1>3 DEF RaiseEvent
  <2>2. EVENT' /\ EVENT' \in BOOLEAN
    BY <1>3, Zenon DEF RaiseEvent
  <2>3. PlatformTypeOK' /\ PortOwned' /\ OnlineStored'
    BY <2>1, <2>2 DEF PlatformInv, PlatformTypeOK, PortOwned, HasPort, OnlineStored
  <2>4. SeenLatest' /\ OnTheWay'
    BY <2>1, <2>2 DEF PlatformInv, SeenLatest, OnTheWay, StartPending, Running
  <2> QED BY <2>3, <2>4 DEF PlatformInv
<1> QED BY <1>1, <1>2, <1>3 DEF WifiEvent

(* The platform task waits, looks and acts.                                *)
LEMMA PlatformTaskKeeps == ASSUME PlatformInv, PlatformTask PROVE PlatformInv'
<1> USE DEF PlatformInv, wifi, apps
<1>1. CASE SpawnPlatform \/ LoadState \/ StartPanics \/ OtherState
  <2>1. /\ UNCHANGED <<link, addresses, wifi_STATE, EVENT, handler, app, port, failed>>
        /\ \/ platform = "spawn" /\ platform' \in {"wait", "panic"} /\ seen' = seen
           \/ platform = "load" /\ platform' = "match" /\ seen' = wifi_STATE
           \/ platform = "match" /\ seen' = seen
              /\ platform' = (IF seen = "Online" THEN "panic" ELSE "wait")
    BY <1>1 DEF SpawnPlatform, LoadState, StartPanics, OtherState
  <2>2. PlatformTypeOK'
    BY <2>1 DEF PlatformTypeOK
  <2>3. PortOwned' /\ OnlineStored' /\ SeenLatest'
    BY <2>1 DEF PortOwned, HasPort, OnlineStored, SeenLatest
  <2>4. OnTheWay'
    BY <2>1 DEF OnTheWay, StartPending, Alive, Running, OnlineStored, SeenLatest
  <2> QED BY <2>2, <2>3, <2>4
<1>2. CASE WaitEvent
  <2>1. /\ UNCHANGED <<link, addresses, wifi_STATE, handler, seen, app, port, failed>>
        /\ platform' = "load"
    BY <1>2 DEF WaitEvent
  <2>2. EVENT' \in BOOLEAN
    BY <1>2, Zenon DEF WaitEvent
  <2>3. PlatformTypeOK' /\ PortOwned' /\ OnlineStored'
    BY <2>1, <2>2 DEF PlatformTypeOK, PortOwned, HasPort, OnlineStored
  <2>4. SeenLatest' /\ OnTheWay'
    BY <2>1 DEF SeenLatest, OnTheWay, StartPending
  <2> QED BY <2>3, <2>4
<1>3. CASE StartApp
  <2>1. PICK a \in Apps : app[a] = "gone" /\ app' = [app EXCEPT ![a] = "new"]
    BY <1>3 DEF StartApp
  <2>2. /\ UNCHANGED <<link, addresses, wifi_STATE, EVENT, handler, seen, port, failed>>
        /\ platform = "match" /\ platform' = "wait"
    BY <1>3 DEF StartApp
  <2>3. PlatformTypeOK' /\ PortOwned'
    BY <2>1, <2>2 DEF PlatformTypeOK, PortOwned, HasPort
  <2>4. OnlineStored' /\ SeenLatest'
    BY <2>2 DEF OnlineStored, SeenLatest
  <2>5. OnTheWay'
    BY <2>1, <2>2 DEF OnTheWay, Alive, PlatformTypeOK
  <2> QED BY <2>3, <2>4, <2>5
<1> QED BY <1>1, <1>2, <1>3 DEF PlatformTask

(* An application task.  The one that is refused the port leaves another,  *)
(* the one that has it.                                                    *)
LEMMA AppTaskKeeps ==
  ASSUME PlatformInv, NEW a \in Apps, AppTask(a) \/ ReplyFails(a)
  PROVE  PlatformInv'
<1> USE DEF PlatformInv, wifi, apps, AppAt, AppGoto
<1>1. /\ UNCHANGED <<link, addresses, wifi_STATE, EVENT, handler, platform, seen>>
      /\ app \in [Apps -> {"gone", "new", "bind", "join", "serve", "close"}]
      /\ port \in Apps \cup {NoApp}
  BY DEF AppTask, NewSocket, Bind, Join, Close, ReplyFails, PlatformTypeOK
<1>2. failed' \in BOOLEAN /\ (failed => failed')
  <2>1. failed \in BOOLEAN
    BY DEF PlatformTypeOK
  <2>2. failed' = TRUE \/ failed' = failed
    BY DEF AppTask, NewSocket, Bind, Join, Close, ReplyFails
  <2> QED BY <2>1, <2>2, Zenon
<1>3. /\ OnlineStored' /\ SeenLatest'
      /\ (StartPending' <=> StartPending) /\ (Running' <=> Running)
  BY <1>1 DEF OnlineStored, SeenLatest, StartPending, Running
<1> DEFINE Kept == /\ app' \in [Apps -> {"gone", "new", "bind", "join", "serve", "close"}]
                   /\ port' \in Apps \cup {NoApp}
                   /\ PortOwned' /\ OnTheWay'
<1> SUFFICES Kept
  BY <1>1, <1>2, <1>3 DEF PlatformTypeOK
<1>4. CASE NewSocket(a) \/ Join(a) \/ ReplyFails(a)
  <2>1. PICK l \in {"gone", "bind", "serve", "close"} :
          /\ app' = [app EXCEPT ![a] = l] /\ port' = port
          /\ \/ app[a] = "new" /\ l \in {"gone", "bind"}
             \/ app[a] \in {"join", "serve"} /\ l \in {"serve", "close"}
          /\ l \in {"gone", "close"} => failed' = TRUE
    BY <1>4 DEF NewSocket, Join, ReplyFails
  <2>2. l \in {"gone", "close"} => failed'
    BY <2>1, Zenon
  <2>3. PortOwned'
    BY <1>1, <2>1 DEF PortOwned, HasPort
  <2>4. OnTheWay'
    <3>1. \A b \in Apps : app'[b] = "close" => failed'
      BY <1>1, <1>2, <2>1, <2>2 DEF OnTheWay
    <3>2. CASE failed'
      BY <3>1, <3>2 DEF OnTheWay
    <3>3. CASE ~failed'
      BY <1>1, <1>2, <1>3, <2>1, <2>2, <3>1, <3>3 DEF OnTheWay, Alive
    <3> QED BY <3>2, <3>3
  <2> QED BY <1>1, <2>1, <2>3, <2>4
<1>5. CASE Bind(a) /\ port = NoApp
  <2>1. /\ app[a] = "bind" /\ app' = [app EXCEPT ![a] = "join"]
        /\ port' = a /\ failed' = failed
    BY <1>5 DEF Bind
  <2>2. PortOwned' /\ OnTheWay'
    BY <1>1, <1>3, <2>1, <1>5 DEF PortOwned, HasPort, OnTheWay, Alive
  <2> QED BY <1>1, <2>1, <2>2
<1>6. CASE Bind(a) /\ port # NoApp
  <2>1. app[a] = "bind" /\ app' = [app EXCEPT ![a] = "gone"] /\ UNCHANGED <<port, failed>>
    BY <1>6 DEF Bind
  <2>2. port # a /\ HasPort(port) /\ port \in Apps
    BY <1>1, <1>6, <2>1 DEF PortOwned, HasPort
  <2>3. PortOwned'
    BY <1>1, <2>1 DEF PortOwned, HasPort
  <2>4. OnTheWay'
    BY <1>1, <1>3, <2>1, <2>2 DEF HasPort, OnTheWay, Alive
  <2> QED BY <1>1, <2>1, <2>3, <2>4
<1>7. CASE Close(a)
  <2>1. /\ app[a] = "close" /\ app' = [app EXCEPT ![a] = "gone"]
        /\ port' = NoApp /\ failed' = failed
    BY <1>7 DEF Close
  <2>2. PortOwned' /\ OnTheWay'
    BY <1>1, <1>3, <2>1 DEF PortOwned, HasPort, OnTheWay, Alive
  <2> QED BY <1>1, <2>1, <2>2
<1> QED BY <1>4, <1>5, <1>6, <1>7 DEF AppTask

(* The inductive invariant of the platform task and what it starts.        *)
LEMMA PlatformInvariance == PlatformSpec => []PlatformInv
<1>1. ASSUME PlatformInv, [PlatformNext]_platformVars PROVE PlatformInv'
  <2>1. CASE WifiEvent \/ RaiseEvent
    BY <1>1, <2>1, EventKeeps
  <2>2. CASE PlatformTask
    BY <1>1, <2>2, PlatformTaskKeeps
  <2>3. ASSUME NEW a \in Apps, AppTask(a) \/ ReplyFails(a) PROVE PlatformInv'
    BY <1>1, <2>3, AppTaskKeeps
  <2>4. CASE UNCHANGED platformVars
    BY <1>1, <2>4 DEF platformVars, wifi, apps, PlatformInv, PlatformTypeOK, PortOwned, HasPort,
                      OnlineStored, SeenLatest, OnTheWay, StartPending, Alive, Running
  <2> QED BY <1>1, <2>1, <2>2, <2>3, <2>4 DEF PlatformNext
<1> QED BY <1>1, PlatformInitInv, PTL DEF PlatformSpec

(* Every variable of the platform keeps its type.                          *)
THEOREM PlatformTypeCorrect == PlatformSpec => []PlatformTypeOK
BY PlatformInvariance, PTL DEF PlatformInv

(* However many tasks addresses start and in whichever order they come to  *)
(* the port, there is one application at a time.                           *)
THEOREM OneReceiver == PlatformSpec => []OneServes
<1>1. PlatformInv => OneServes
  BY DEF PlatformInv, PortOwned, HasPort, OneServes
<1> QED BY <1>1, PlatformInvariance, PTL

(* Events that are seen as one lose no state: a platform task that sleeps  *)
(* has acted on the present one.                                           *)
THEOREM NoStateMissed == PlatformSpec => []SeesLatest
<1>1. PlatformInv => SeesLatest
  BY DEF PlatformInv, SeenLatest, SeesLatest
<1> QED BY <1>1, PlatformInvariance, PTL

(* An online board at rest is served, unless a call failed after the last  *)
(* address or a task was still closing its socket when it came.            *)
THEOREM RestServes == PlatformSpec => []RestIsServed
<1>1. PlatformInv => RestIsServed
  <2> SUFFICES ASSUME PlatformInv, AtRest, link = "online", ~failed PROVE Serving
    BY DEF RestIsServed
  <2>1. ~StartPending /\ Running
    BY DEF AtRest, StartPending, Running
  <2>2. PICK a \in Apps : app[a] \in {"new", "bind", "join", "serve"}
    BY <2>1 DEF PlatformInv, OnTheWay, Alive
  <2> QED BY <2>2 DEF AtRest, Serving
<1> QED BY <1>1, PlatformInvariance, PTL

----------------------------------------------------------------------------
(* Streams *)

(* A queue that was not allocated has no handle.                           *)
Fresh == \A q \in Queues : q > made => ~AppHolds(q) /\ pc[q] = "none"

(* A stream that still collects packets has no task.                       *)
NotStarted ==
  stream.queue # None /\ stream.count <= DelayStart => pc[stream.queue] = "none"

(* Past idle the application task has a stream.                            *)
AppHasStream == pc[App] \notin {"idle", "panic"} => stream.queue # None

IInv ==
  /\ TypeOK
  /\ HandlesCounted
  /\ Fresh
  /\ NotStarted
  /\ AppHasStream
  /\ DisconnectIsFinal

USE SessionsAssumption, MaxQueuesAssumption, DelayStartAssumption
USE DEF App, None, Queues, Actors, At, Goto, AppHolds, TaskHolds, LockLocs,
        AppLocs, TaskLocs, Streams, heapVars, lockVars

LEMMA InitIInv == Init => IInv
BY DEF Init, IInv, TypeOK, HandlesCounted, Fresh, NotStarted, AppHasStream,
       DisconnectIsFinal, NoStream

(* A step of the lock moves its task and leaves handles and stream alone.  *)
LEMMA LockKeeps ==
  ASSUME IInv, NEW a \in Actors, LockStep(a)
  PROVE  IInv'
<1> USE DEF IInv, TypeOK
<1>0. QueueOf(a) \in Queues
  <2>1. CASE a = App
    BY <2>1 DEF LockStep, PollLock, AddSelf, Unpark, Unlock, WakeAll, QueueOf, AppHasStream
  <2>2. CASE a # App
    BY <2>2 DEF QueueOf
  <2> QED BY <2>1, <2>2
<1>1. PICK l \in LockLocs \cup {"count", "write"} :
        /\ At(a, LockLocs)
        /\ Goto(a, l)
        /\ a = App => l # "write"
        /\ a # App => l # "count"
        /\ UNCHANGED <<stream, heapVars, dac>>
  <2>1. CASE PollLock(a)
    BY <2>1 DEF PollLock
  <2>2. CASE AddSelf(a)
    BY <2>2 DEF AddSelf
  <2>3. CASE Unpark(a)
    BY <2>3 DEF Unpark
  <2>4. CASE Unlock(a)
    BY <2>4 DEF Unlock
  <2>5. CASE WakeAll(a)
    BY <2>5 DEF WakeAll
  <2> QED BY <2>1, <2>2, <2>3, <2>4, <2>5 DEF LockStep
<1>2. /\ flag' \in [Queues -> BOOLEAN]
      /\ notify' \in [Queues -> SUBSET Actors]
      /\ notified' \in [Actors -> BOOLEAN]
  <2>1. CASE PollLock(a)
    BY <1>0, <2>1 DEF PollLock
  <2>2. CASE AddSelf(a)
    BY <1>0, <2>2 DEF AddSelf
  <2>3. CASE Unpark(a)
    BY <2>3 DEF Unpark
  <2>4. CASE Unlock(a)
    BY <1>0, <2>4 DEF Unlock
  <2>5. CASE WakeAll(a)
    BY <1>0, <2>5 DEF WakeAll
  <2> QED BY <2>1, <2>2, <2>3, <2>4, <2>5 DEF LockStep
<1>3. TypeOK'
  BY <1>1, <1>2
<1>4. HandlesCounted'
  BY <1>1 DEF HandlesCounted
<1>5. Fresh' /\ NotStarted' /\ AppHasStream' /\ DisconnectIsFinal'
  BY <1>1 DEF Fresh, NotStarted, AppHasStream, DisconnectIsFinal
<1> QED BY <1>3, <1>4, <1>5

(* The application task: a new stream, a failed one, a packet counted, a   *)
(* task started.                                                           *)
LEMMA AppKeeps ==
  ASSUME IInv,
         \/ \E sid \in Sessions : Receive(sid)
         \/ CountPacket \/ StartTask \/ StartTaskFails
  PROVE  IInv'
<1> USE DEF IInv, TypeOK
<1>1. ASSUME NEW sid \in Sessions, ReceiveAudio(sid) PROVE IInv'
  BY <1>1 DEF ReceiveAudio, NewStream, HandlesCounted, Fresh, NotStarted,
              AppHasStream, DisconnectIsFinal
<1>2. ASSUME NEW sid \in Sessions, OpenStream(sid) PROVE IInv'
  <2> DEFINE new == made + 1
             old == stream.queue
  <2>0. /\ new \in Queues /\ old # new /\ refs[new] = 0 /\ pc[new] = "none"
        /\ stream'.queue = new /\ stream'.count = 0
        /\ made' = new /\ pc' = [pc EXCEPT ![App] = "lock"]
    BY <1>2 DEF OpenStream, HandlesCounted, Fresh
  <2>1. \A q \in Queues : refs'[q] = IF q = new THEN 1
                                     ELSE IF q = old THEN refs[q] - 1 ELSE refs[q]
    BY <1>2, <2>0 DEF OpenStream, DropHandle
  <2>2. old # None => refs[old] \in 1 .. 2
    BY DEF HandlesCounted
  <2>3. freed' = freed \cup (IF old # None /\ refs[old] = 1 THEN {old} ELSE {})
    BY <1>2 DEF OpenStream, FreedBy
  <2>4. TypeOK'
    <3>1. refs' \in [Queues -> 0 .. 2]
      BY <1>2, <2>1, <2>2 DEF OpenStream, DropHandle
    <3>2. stream' \in Streams
      BY <1>2, <2>0 DEF OpenStream
    <3>3. freed' \in SUBSET Queues /\ made' \in 0 .. MaxQueues
      <4>1. freed \subseteq Queues
        OBVIOUS
      <4>2. (IF old # None /\ refs[old] = 1 THEN {old} ELSE {}) \subseteq Queues
        OBVIOUS
      <4>3. freed' \subseteq Queues
        BY <2>3, <4>1, <4>2
      <4>4. made' \in 0 .. MaxQueues
        BY <2>0
      <4> QED BY <4>3, <4>4
    <3>4. pc' \in [Actors -> AppLocs \cup TaskLocs] /\ pc'[App] \in AppLocs
          /\ \A q \in Queues : pc'[q] \in TaskLocs
      BY <2>0
    <3>5. UNCHANGED <<lockVars, dac>>
      BY <1>2 DEF OpenStream
    <3> QED BY <3>1, <3>2, <3>3, <3>4, <3>5
  <2>5. HandlesCounted'
    <3> SUFFICES ASSUME NEW q \in Queues
                 PROVE  /\ refs'[q] = (IF AppHolds(q)' THEN 1 ELSE 0)
                                       + (IF TaskHolds(q)' THEN 1 ELSE 0)
                        /\ q \in freed' <=> q <= made' /\ ~AppHolds(q)' /\ ~TaskHolds(q)'
      BY DEF HandlesCounted
    <3>1. CASE q = new
      BY <2>0, <2>1, <2>3, <3>1 DEF HandlesCounted
    <3>2. CASE q = old
      BY SMTT(60), <2>0, <2>1, <2>3, <3>2 DEF HandlesCounted, Fresh
    <3>3. CASE q # new /\ q # old
      BY <2>0, <2>1, <2>3, <3>3 DEF HandlesCounted
    <3> QED BY <3>1, <3>2, <3>3
  <2>6. Fresh' /\ NotStarted' /\ AppHasStream'
    BY <2>0 DEF Fresh, NotStarted, AppHasStream
  <2>7. DisconnectIsFinal'
    BY <2>0, <2>1 DEF DisconnectIsFinal
  <2> QED BY <2>4, <2>5, <2>6, <2>7
<1>3. ASSUME NEW sid \in Sessions, OpenStreamFails(sid) PROVE IInv'
  <2> DEFINE old == stream.queue
  <2>0. stream' = NoStream /\ pc' = pc /\ made' = made /\ pc[App] = "idle"
    BY <1>3 DEF OpenStreamFails
  <2>1. \A q \in Queues : refs'[q] = IF q = old THEN refs[q] - 1 ELSE refs[q]
    BY <1>3 DEF OpenStreamFails, DropHandle
  <2>2. old # None => refs[old] \in 1 .. 2
    BY DEF HandlesCounted
  <2>3. freed' = freed \cup (IF old # None /\ refs[old] = 1 THEN {old} ELSE {})
    BY <1>3 DEF OpenStreamFails, FreedBy
  <2>4. TypeOK'
    <3>1. refs' \in [Queues -> 0 .. 2]
      BY <1>3, <2>1, <2>2 DEF OpenStreamFails, DropHandle
    <3>2. stream' \in Streams
      BY <2>0 DEF NoStream
    <3> QED BY <1>3, <2>0, <2>3, <3>1, <3>2 DEF OpenStreamFails
  <2>5. HandlesCounted'
    BY <2>0, <2>1, <2>3 DEF HandlesCounted, Fresh, NoStream
  <2>6. Fresh' /\ NotStarted' /\ AppHasStream'
    BY <2>0 DEF Fresh, NotStarted, AppHasStream, NoStream
  <2>7. DisconnectIsFinal'
    BY <2>0, <2>1 DEF DisconnectIsFinal, NoStream
  <2> QED BY <2>4, <2>5, <2>6, <2>7
<1>4. CASE CountPacket
  <2>0. /\ stream' \in Streams /\ stream'.queue = stream.queue
        /\ stream'.count <= DelayStart => stream.count <= DelayStart
        /\ pc[App] = "count" /\ pc' = [pc EXCEPT ![App] = "idle"]
        /\ UNCHANGED <<heapVars, lockVars, dac>>
    <3>1. stream.count \in 0 .. DelayStart + 1 /\ stream.count # DelayStart
      BY <1>4 DEF CountPacket
    <3> DEFINE n == IF stream.count < DelayStart THEN stream.count + 1 ELSE stream.count
    <3>2. n \in 0 .. DelayStart + 1 /\ (n <= DelayStart => stream.count <= DelayStart)
      BY <3>1
    <3>3. stream' = [stream EXCEPT !.count = n]
      BY <1>4 DEF CountPacket
    <3> HIDE DEF n
    <3>4. stream' \in Streams /\ stream'.queue = stream.queue /\ stream'.count = n
      BY <3>2, <3>3
    <3> QED BY <1>4, <3>2, <3>4 DEF CountPacket
  <2>1. TypeOK'
    BY <2>0
  <2>2. HandlesCounted'
    BY <2>0 DEF HandlesCounted
  <2>3. Fresh' /\ AppHasStream' /\ DisconnectIsFinal'
    BY <2>0 DEF Fresh, AppHasStream, DisconnectIsFinal
  <2>4. NotStarted'
    BY <2>0 DEF NotStarted
  <2> QED BY <2>1, <2>2, <2>3, <2>4
<1>5. CASE StartTask
  <2> DEFINE q == stream.queue
  <2>0. q \in Queues /\ pc[q] = "none" /\ pc[App] = "count" /\ refs[q] = 1
    BY <1>5 DEF StartTask, NotStarted, AppHasStream, HandlesCounted
  <2>1. /\ stream'.queue = q /\ stream'.count = DelayStart + 1
        /\ stream' \in Streams /\ made' = made /\ freed' = freed
        /\ pc' = [pc EXCEPT ![App] = "idle", ![q] = "dac"]
        /\ refs' = [refs EXCEPT ![q] = @ + 1]
    <3>1. DelayStart + 1 \in 0 .. DelayStart + 1
      OBVIOUS
    <3>2. stream.count = DelayStart /\ stream' = [stream EXCEPT !.count = @ + 1]
      BY <1>5 DEF StartTask
    <3>3. stream'.queue = q /\ stream'.count = DelayStart + 1 /\ stream' \in Streams
      BY <3>1, <3>2
    <3>4. /\ made' = made /\ freed' = freed
          /\ pc' = [pc EXCEPT ![App] = "idle", ![q] = "dac"]
          /\ refs' = [refs EXCEPT ![q] = @ + 1]
      BY <1>5 DEF StartTask, CloneHandle
    <3> QED BY <3>3, <3>4
  <2>2. TypeOK'
    BY <1>5, <2>0, <2>1 DEF StartTask
  <2>3. HandlesCounted'
    BY <2>0, <2>1 DEF HandlesCounted
  <2>4. Fresh'
    <3>1. q <= made
      BY <2>0 DEF Fresh
    <3> QED BY <2>0, <2>1, <3>1 DEF Fresh
  <2>5. NotStarted' /\ AppHasStream'
    BY <2>0, <2>1 DEF NotStarted, AppHasStream
  <2>6. DisconnectIsFinal'
    BY <2>0, <2>1 DEF DisconnectIsFinal, HandlesCounted
  <2> QED BY <2>2, <2>3, <2>4, <2>5, <2>6
<1>6. CASE StartTaskFails
  BY <1>6 DEF StartTaskFails, HandlesCounted, Fresh, NotStarted, AppHasStream, DisconnectIsFinal
<1> QED BY <1>1, <1>2, <1>3, <1>4, <1>5, <1>6 DEF Receive

(* A stream task opens the DAC, looks whether it is alone, writes, exits.  *)
LEMMA TaskKeeps ==
  ASSUME IInv, NEW q \in Queues,
         \/ OpenDac(q) \/ OpenDacFails(q) \/ Check(q) \/ Write(q)
         \/ DropDac(q) \/ Release(q)
  PROVE  IInv'
<1> USE DEF IInv, TypeOK
<1>1. CASE OpenDac(q) \/ OpenDacFails(q) \/ Write(q) \/ DropDac(q)
  <2>1. PICK l \in {"check", "fail", "release"} :
          /\ At(q, {"dac", "write", "exit", "fail"})
          /\ Goto(q, l)
          /\ UNCHANGED <<stream, heapVars, lockVars>>
          /\ dac' \in Queues \cup {None}
    BY <1>1 DEF OpenDac, OpenDacFails, Write, DropDac
  <2>2. TypeOK'
    BY <2>1
  <2>3. HandlesCounted'
    BY <2>1 DEF HandlesCounted
  <2>4. Fresh' /\ NotStarted' /\ AppHasStream' /\ DisconnectIsFinal'
    BY <2>1 DEF Fresh, NotStarted, AppHasStream, DisconnectIsFinal
  <2> QED BY <2>2, <2>3, <2>4
<1>2. CASE Check(q)
  <2>1. refs[q] = 1 => ~AppHolds(q)
    BY SMTT(60), <1>2 DEF Check, HandlesCounted
  <2>2. TypeOK' /\ HandlesCounted'
    BY <1>2 DEF Check, HandlesCounted
  <2>3. Fresh' /\ NotStarted' /\ AppHasStream'
    BY <1>2 DEF Check, Fresh, NotStarted, AppHasStream
  <2>4. DisconnectIsFinal'
    BY <1>2, <2>1 DEF Check, DisconnectIsFinal
  <2> QED BY <2>2, <2>3, <2>4
<1>3. CASE Release(q)
  <2>0. /\ pc[q] = "release" /\ pc' = [pc EXCEPT ![q] = "gone"]
        /\ stream' = stream /\ made' = made
        /\ refs' = [refs EXCEPT ![q] = @ - 1]
        /\ freed' = freed \cup (IF refs[q] = 1 THEN {q} ELSE {})
        /\ q <= made
    BY <1>3 DEF Release, DropHandle, FreedBy, Fresh
  <2>1. refs[q] \in 1 .. 2
    <3>1. TaskHolds(q)
      BY <2>0
    <3>2. refs[q] = (IF AppHolds(q) THEN 1 ELSE 0) + 1
      BY <3>1 DEF HandlesCounted
    <3> QED BY <3>2
  <2>2. TypeOK'
    <3>1. refs' \in [Queues -> 0 .. 2]
      BY <2>0, <2>1
    <3>2. freed' \in SUBSET Queues
      BY <2>0
    <3>3. UNCHANGED <<lockVars, dac>>
      BY <1>3 DEF Release
    <3> QED BY <2>0, <3>1, <3>2, <3>3
  <2>3. HandlesCounted'
    BY SMTT(60), <2>0, <2>1 DEF HandlesCounted
  <2>4. Fresh' /\ NotStarted' /\ AppHasStream' /\ DisconnectIsFinal'
    BY <2>0 DEF Fresh, NotStarted, AppHasStream, DisconnectIsFinal
  <2> QED BY <2>2, <2>3, <2>4
<1> QED BY <1>1, <1>2, <1>3

LEMMA NextKeeps == IInv /\ [Next]_vars => IInv'
<1> SUFFICES ASSUME IInv, [Next]_vars PROVE IInv'
  OBVIOUS
<1>1. CASE \E sid \in Sessions : Receive(sid)
  BY <1>1, AppKeeps
<1>2. CASE AppStep
  BY <1>2, AppKeeps, LockKeeps DEF AppStep
<1>3. ASSUME NEW q \in Queues, TaskStep(q) PROVE IInv'
  BY <1>3, TaskKeeps, LockKeeps DEF TaskStep
<1>4. ASSUME NEW a \in Actors, Spurious(a) PROVE IInv'
  BY <1>4 DEF Spurious, IInv, TypeOK, HandlesCounted, Fresh, NotStarted,
              AppHasStream, DisconnectIsFinal
<1>5. CASE UNCHANGED vars
  BY <1>5 DEF vars, IInv, TypeOK, HandlesCounted, Fresh, NotStarted,
              AppHasStream, DisconnectIsFinal
<1> QED BY <1>1, <1>2, <1>3, <1>4, <1>5 DEF Next

(* The inductive invariant of the application and its stream tasks.        *)
THEOREM Invariance == Spec => []IInv
BY InitIInv, NextKeeps, PTL DEF Spec

(* Every behaviour keeps the variables in their types: a count stays       *)
(* between 0 and 2 because a queue has at most one task.                   *)
THEOREM TypeCorrect == Spec => []TypeOK
BY Invariance, PTL DEF IInv

(* The count of every queue is the number of its handles, and its memory   *)
(* is freed exactly when there are none left.                              *)
THEOREM CountsAreExact == Spec => []HandlesCounted
BY Invariance, PTL DEF IInv

(* A stream task that left its loop as the only owner remains the only     *)
(* owner until it has dropped its handle.                                  *)
THEOREM DisconnectedForGood == Spec => []DisconnectIsFinal
BY Invariance, PTL DEF IInv

----------------------------------------------------------------------------
(* The lock of each queue *)

(* flag says whether somebody has a guard, and only one of the two has.    *)
LockHeld ==
  \A q \in Queues :
    /\ flag[q] <=> pc[q] = "cs" \/ (AppHolds(q) /\ pc[App] = "cs")
    /\ ~(pc[q] = "cs" /\ AppHolds(q) /\ pc[App] = "cs")

(* Whoever sleeps is registered where it waits.                            *)
Registered ==
  \A a \in Actors : pc[a] = "park" /\ ~notified[a] => a \in notify[QueueOf(a)]

InLoop == {"check", "lock", "cs", "wake", "write"}

(* A task that the application waits for does not wait itself.             *)
Rescued == pc[App] \in {"add", "park"} => pc[stream.queue] \in InLoop

LockInv == LockHeld /\ Registered /\ Rescued

LEMMA LockInit == Init => LockInv
BY DEF Init, LockInv, LockHeld, Registered, Rescued

LEMMA AppLockKeeps ==
  ASSUME IInv, LockInv, LockStep(App)
  PROVE  LockInv'
<1> DEFINE q == stream.queue
<1> USE DEF LockInv, QueueOf
<1>1. /\ q \in Queues /\ pc \in [Actors -> AppLocs \cup TaskLocs]
      /\ flag \in [Queues -> BOOLEAN] /\ notify \in [Queues -> SUBSET Actors]
      /\ notified \in [Actors -> BOOLEAN] /\ stream' = stream
  BY DEF IInv, TypeOK, AppHasStream, LockStep, PollLock, AddSelf, Unpark, Unlock, WakeAll
<1> HIDE DEF q
<1>2. CASE PollLock(App)
  <2>1. /\ pc[App] = "lock" /\ pc' = [pc EXCEPT ![App] = IF flag[q] THEN "add" ELSE "cs"]
        /\ flag' = [flag EXCEPT ![q] = TRUE] /\ UNCHANGED <<notify, notified>>
    BY <1>2 DEF PollLock, q
  <2>2. flag[q] => pc[q] = "cs"
    BY <1>1, <2>1 DEF LockHeld, q
  <2> QED BY <1>1, <2>1, <2>2 DEF LockHeld, Registered, Rescued, InLoop, q
<1>3. CASE AddSelf(App)
  <2>1. /\ pc[App] = "add" /\ pc' = [pc EXCEPT ![App] = "park"]
        /\ notify' = [notify EXCEPT ![q] = notify[q] \cup {App}]
        /\ UNCHANGED <<flag, notified>>
    BY <1>1, <1>3 DEF AddSelf, q
  <2>2. \A b \in Actors : b \in notify[QueueOf(b)] => b \in notify'[QueueOf(b)]
    BY <1>1, <2>1
  <2>3. App \in notify'[q]
    BY <1>1, <2>1
  <2>4. LockHeld' /\ Rescued'
    BY <1>1, <2>1 DEF LockHeld, Rescued, q
  <2>5. Registered'
    BY <1>1, <2>1, <2>2, <2>3 DEF Registered, q
  <2> QED BY <2>4, <2>5
<1>4. CASE Unpark(App)
  BY <1>1, <1>4 DEF Unpark, LockHeld, Registered, Rescued, q
<1>5. CASE Unlock(App)
  BY <1>1, <1>5 DEF Unlock, LockHeld, Registered, Rescued, q
<1>6. CASE WakeAll(App)
  <2>1. /\ pc[App] = "wake" /\ pc' = [pc EXCEPT ![App] = "count"]
        /\ \A b \in Actors : notified'[b] <=> notified[b] \/ b \in notify[q]
        /\ notify' = [notify EXCEPT ![q] = {}] /\ UNCHANGED flag
    BY <1>1, <1>6 DEF WakeAll, q
  <2>2. LockHeld' /\ Rescued'
    BY <1>1, <2>1 DEF LockHeld, Rescued, q
  <2>3. Registered'
    BY <1>1, <2>1 DEF Registered, q
  <2> QED BY <2>2, <2>3
<1> QED BY <1>2, <1>3, <1>4, <1>5, <1>6 DEF LockStep

LEMMA TaskLockKeeps ==
  ASSUME IInv, LockInv, NEW q \in Queues, LockStep(q)
  PROVE  LockInv'
<1> USE DEF LockInv, QueueOf
<1>1. /\ pc \in [Actors -> AppLocs \cup TaskLocs] /\ pc[App] \in AppLocs
      /\ flag \in [Queues -> BOOLEAN] /\ notify \in [Queues -> SUBSET Actors]
      /\ notified \in [Actors -> BOOLEAN] /\ stream' = stream /\ q # App
  BY DEF IInv, TypeOK, LockStep, PollLock, AddSelf, Unpark, Unlock, WakeAll
<1>2. CASE PollLock(q)
  <2>1. /\ pc[q] = "lock" /\ pc' = [pc EXCEPT ![q] = IF flag[q] THEN "add" ELSE "cs"]
        /\ flag' = [flag EXCEPT ![q] = TRUE] /\ UNCHANGED <<notify, notified>>
    BY <1>1, <1>2 DEF PollLock
  <2>2. flag[q] => AppHolds(q) /\ pc[App] = "cs"
    BY <1>1, <2>1 DEF LockHeld
  <2> QED BY <1>1, <2>1, <2>2 DEF LockHeld, Registered, Rescued, InLoop
<1>3. CASE AddSelf(q)
  <2>1. /\ pc[q] = "add" /\ pc' = [pc EXCEPT ![q] = "park"]
        /\ notify' = [notify EXCEPT ![q] = notify[q] \cup {q}]
        /\ UNCHANGED <<flag, notified>>
    BY <1>1, <1>3 DEF AddSelf
  <2>2. \A b \in Actors : b \in notify[QueueOf(b)] => b \in notify'[QueueOf(b)]
    BY <1>1, <2>1
  <2>3. q \in notify'[q]
    BY <1>1, <2>1
  <2>4. LockHeld' /\ Rescued'
    BY <1>1, <2>1 DEF LockHeld, Rescued, InLoop
  <2>5. Registered'
    BY <1>1, <2>1, <2>2, <2>3 DEF Registered
  <2> QED BY <2>4, <2>5
<1>4. CASE Unpark(q)
  BY <1>1, <1>4 DEF Unpark, LockHeld, Registered, Rescued, InLoop
<1>5. CASE Unlock(q)
  BY <1>1, <1>5 DEF Unlock, LockHeld, Registered, Rescued, InLoop
<1>6. CASE WakeAll(q)
  <2>1. /\ pc[q] = "wake" /\ pc' = [pc EXCEPT ![q] = "write"]
        /\ \A b \in Actors : notified'[b] <=> notified[b] \/ b \in notify[q]
        /\ notify' = [notify EXCEPT ![q] = {}] /\ UNCHANGED flag
    BY <1>1, <1>6 DEF WakeAll
  <2>2. LockHeld' /\ Rescued'
    BY <1>1, <2>1 DEF LockHeld, Rescued, InLoop
  <2>3. Registered'
    BY <1>1, <2>1 DEF Registered
  <2> QED BY <2>2, <2>3
<1> QED BY <1>2, <1>3, <1>4, <1>5, <1>6 DEF LockStep

(* Outside the lock the application changes streams, but only between two  *)
(* packets, when it holds no lock and waits for none.                      *)
LEMMA OutsideAppKeeps ==
  ASSUME IInv, LockInv,
         \/ \E sid \in Sessions : Receive(sid)
         \/ CountPacket \/ StartTask \/ StartTaskFails
  PROVE  LockInv'
<1> USE DEF LockInv, QueueOf
<1>1. /\ pc \in [Actors -> AppLocs \cup TaskLocs]
      /\ flag \in [Queues -> BOOLEAN] /\ notified \in [Actors -> BOOLEAN]
  BY DEF IInv, TypeOK
<1>2. pc[App] \in {"idle", "count"} /\ UNCHANGED lockVars
  BY DEF Receive, ReceiveAudio, OpenStream, OpenStreamFails, CountPacket, StartTask,
         StartTaskFails
<1>3. pc'[App] \in {"idle", "lock", "panic"}
  BY <1>1, <1>2 DEF Receive, ReceiveAudio, OpenStream, OpenStreamFails, CountPacket, StartTask,
         StartTaskFails, IInv, AppHasStream
<1>4. \A q \in Queues : pc'[q] = pc[q] \/ (pc[q] = "none" /\ pc'[q] = "dac")
  <2>1. CASE StartTask
    <3>1. pc[stream.queue] = "none"
      BY <2>1 DEF StartTask, IInv, NotStarted, AppHasStream
    <3> QED BY <1>1, <2>1, <3>1 DEF StartTask
  <2>2. CASE (\E sid \in Sessions : Receive(sid)) \/ CountPacket \/ StartTaskFails
    BY <1>1, <2>2 DEF Receive, ReceiveAudio, OpenStream, OpenStreamFails, CountPacket,
                      StartTaskFails
  <2> QED BY <2>1, <2>2
<1>5. LockHeld'
  BY <1>1, <1>2, <1>3, <1>4 DEF LockHeld
<1>6. Registered' /\ Rescued'
  BY <1>1, <1>2, <1>3, <1>4 DEF Registered, Rescued
<1> QED BY <1>5, <1>6

(* The count of a queue on which the application waits is 2, so its task   *)
(* does not leave.                                                         *)
LEMMA OutsideTaskKeeps ==
  ASSUME IInv, LockInv, NEW q \in Queues,
         \/ OpenDac(q) \/ OpenDacFails(q) \/ Check(q) \/ Write(q)
         \/ DropDac(q) \/ Release(q)
  PROVE  LockInv'
<1> USE DEF LockInv, QueueOf
<1>1. /\ pc \in [Actors -> AppLocs \cup TaskLocs]
      /\ flag \in [Queues -> BOOLEAN] /\ notified \in [Actors -> BOOLEAN]
  BY DEF IInv, TypeOK
<1>2. PICK l \in {"check", "fail", "release", "lock", "exit", "gone"} :
        /\ pc[q] \in {"dac", "check", "write", "exit", "fail", "release"}
        /\ pc' = [pc EXCEPT ![q] = l] /\ UNCHANGED <<stream, lockVars>>
        /\ l \in InLoop \/ pc[q] \notin InLoop \/ refs[q] = 1
  BY <1>1 DEF OpenDac, OpenDacFails, Check, Write, DropDac, Release, InLoop
<1>3. LockHeld' /\ Registered'
  BY <1>1, <1>2 DEF LockHeld, Registered
<1>4. Rescued'
  <2> SUFFICES ASSUME pc[App] \in {"add", "park"}, stream.queue = q PROVE l \in InLoop
    BY <1>1, <1>2 DEF Rescued
  <2>1. pc[q] \in InLoop
    BY DEF Rescued
  <2>2. refs[q] = 2
    BY <2>1 DEF IInv, HandlesCounted, InLoop
  <2> QED BY <1>2, <2>1, <2>2
<1> QED BY <1>3, <1>4

LEMMA LockInvariance == Spec => []LockInv
<1>1. ASSUME IInv, LockInv, [Next]_vars PROVE LockInv'
  <2>1. CASE \E sid \in Sessions : Receive(sid)
    BY <1>1, <2>1, OutsideAppKeeps
  <2>2. CASE AppStep
    BY <1>1, <2>2, OutsideAppKeeps, AppLockKeeps DEF AppStep
  <2>3. ASSUME NEW q \in Queues, TaskStep(q) PROVE LockInv'
    BY <1>1, <2>3, OutsideTaskKeeps, TaskLockKeeps DEF TaskStep
  <2>4. ASSUME NEW a \in Actors, Spurious(a) PROVE LockInv'
    BY <1>1, <2>4 DEF Spurious, IInv, TypeOK, LockInv, LockHeld, Registered, Rescued, QueueOf
  <2>5. CASE UNCHANGED vars
    BY <1>1, <2>5 DEF vars, LockInv, LockHeld, Registered, Rescued, QueueOf
  <2> QED BY <1>1, <2>1, <2>2, <2>3, <2>4, <2>5 DEF Next
<1> QED BY <1>1, LockInit, Invariance, PTL DEF Spec

(* The application task and a stream task never have the guard of a queue  *)
(* at once, although the application changes queues between two packets.   *)
THEOREM OneGuard ==
  Spec => [](\A q \in Queues : ~(At(q, {"cs"}) /\ AppHolds(q) /\ At(App, {"cs"})))
<1>1. LockInv => \A q \in Queues : ~(At(q, {"cs"}) /\ AppHolds(q) /\ At(App, {"cs"}))
  BY DEF LockInv, LockHeld
<1> QED BY <1>1, LockInvariance, PTL

(* Whatever wake-ups it missed, a sleeping application task is registered  *)
(* with a stream task that is awake and will unlock again.                 *)
THEOREM SleeperHasRescuer == Spec => []RescuerRuns
<1>1. IInv /\ LockInv => RescuerRuns
  BY DEF IInv, AppHasStream, LockInv, Registered, Rescued, RescuerRuns, InLoop, QueueOf
<1> QED BY <1>1, Invariance, LockInvariance, PTL

----------------------------------------------------------------------------
(* The lease of the DAC *)

(* The driver, which knows of one owner, agrees with the tasks.            *)
OwnerHolds == Holders = IF dac = None THEN {} ELSE {dac}

(* A step of the lock, or of the task after it, is within the lease.       *)
LEMMA LeaseKept ==
  ASSUME IInv, NEW q \in Queues,
         LockStep(q) \/ OpenDacFails(q) \/ Check(q) \/ Write(q) \/ Release(q)
  PROVE  UNCHANGED <<Holders, dac>>
<1> DEFINE In == LockLocs \cup {"check", "write", "exit", "fail"}
<1>1. pc \in [Actors -> AppLocs \cup TaskLocs]
  BY DEF IInv, TypeOK
<1>2. /\ dac' = dac /\ \A p \in Queues \ {q} : pc'[p] = pc[p]
      /\ pc'[q] \in In <=> pc[q] \in In
  <2>1. CASE LockStep(q)
    BY <1>1, <2>1 DEF LockStep, PollLock, AddSelf, Unpark, Unlock, WakeAll
  <2>2. CASE OpenDacFails(q) \/ Check(q) \/ Write(q) \/ Release(q)
    BY <1>1, <2>2 DEF OpenDacFails, Check, Write, Release
  <2> QED BY <2>1, <2>2
<1> QED BY <1>2 DEF Holders

(* What the application task does, a new task among it, is outside of it.  *)
LEMMA LeaseOfApp ==
  ASSUME IInv, AppStep \/ (\E sid \in Sessions : Receive(sid)) \/ (\E a \in Actors : Spurious(a))
  PROVE  UNCHANGED <<Holders, dac>>
<1>1. pc \in [Actors -> AppLocs \cup TaskLocs] /\ stream \in Streams
  BY DEF IInv, TypeOK
<1>2. CASE StartTask
  <2>1. stream.queue \in Queues /\ pc[stream.queue] = "none"
    BY <1>1, <1>2 DEF IInv, AppHasStream, NotStarted, StartTask
  <2> QED BY <1>1, <1>2, <2>1 DEF StartTask, Holders
<1>3. CASE LockStep(App) \/ CountPacket \/ StartTaskFails
  <2>1. dac' = dac /\ \A q \in Queues : pc'[q] = pc[q]
    BY <1>1, <1>3 DEF LockStep, PollLock, AddSelf, Unpark, Unlock, WakeAll, CountPacket, StartTaskFails
  <2> QED BY <2>1 DEF Holders
<1>4. ASSUME NEW sid \in Sessions, Receive(sid) PROVE UNCHANGED <<Holders, dac>>
  <2>1. dac' = dac /\ \A q \in Queues : pc'[q] = pc[q]
    BY <1>1, <1>4 DEF Receive, ReceiveAudio, OpenStream, OpenStreamFails
  <2> QED BY <2>1 DEF Holders
<1>5. ASSUME NEW a \in Actors, Spurious(a) PROVE UNCHANGED <<Holders, dac>>
  BY <1>5 DEF Spurious, Holders
<1> QED BY <1>2, <1>3, <1>4, <1>5 DEF AppStep

LEMMA LeaseStep ==
  ASSUME IInv, OwnerHolds, [Next]_vars
  PROVE  OwnerHolds' /\ [Lease!Next]_Holders
<1>1. pc \in [Actors -> AppLocs \cup TaskLocs]
  BY DEF IInv, TypeOK
<1>2. ASSUME NEW q \in Queues, OpenDac(q) PROVE OwnerHolds' /\ Lease!Acquire(q)
  <2>1. Holders = {} /\ dac' = q /\ q # None
    BY <1>2 DEF OpenDac, OwnerHolds
  <2>2. Holders' = {q}
    BY <1>1, <1>2, <2>1 DEF OpenDac, Holders
  <2> QED BY <2>1, <2>2 DEF OwnerHolds, Lease!Acquire
<1>3. ASSUME NEW q \in Queues, DropDac(q) PROVE OwnerHolds' /\ Lease!Release(q)
  <2>1. q \in Holders /\ dac' = None
    BY <1>3 DEF DropDac, Holders
  <2>2. Holders = {q}
    BY <2>1 DEF OwnerHolds
  <2>3. Holders' = {}
    BY <1>1, <1>3, <2>2 DEF DropDac, Holders
  <2> QED BY <2>1, <2>2, <2>3 DEF OwnerHolds, Lease!Release
<1>4. ASSUME UNCHANGED <<Holders, dac>> PROVE OwnerHolds' /\ UNCHANGED Holders
  BY <1>4 DEF OwnerHolds
<1>5. ASSUME NEW q \in Queues, TaskStep(q) PROVE OwnerHolds' /\ [Lease!Next]_Holders
  BY <1>2, <1>3, <1>4, <1>5, LeaseKept DEF TaskStep, Lease!Next
<1>6. CASE UNCHANGED vars
  BY <1>4, <1>6 DEF vars, Holders
<1> QED BY <1>4, <1>5, <1>6, LeaseOfApp DEF Next

(* Streams, for any number of sessions: the one owner of the driver and the *)
(* place of every stream task together are the lease that Dac gives.        *)
THEOREM StreamsKeepLease == Spec => LeaseSpec
<1>1. Init => OwnerHolds /\ Lease!Init
  BY DEF Init, OwnerHolds, Holders, Lease!Init
<1>2. IInv /\ OwnerHolds /\ [Next]_vars => OwnerHolds' /\ [Lease!Next]_Holders
  BY LeaseStep
<1> QED BY <1>1, <1>2, Invariance, PTL DEF Spec, LeaseSpec, Lease!Spec
=============================================================================
