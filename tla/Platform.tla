------------------------------ MODULE Platform ------------------------------
(***************************************************************************)
(* src/src/platform/mod.rs, the event handlers of src/src/platform/wifi.rs *)
(* and the life of the application task in src/src/app/mod.rs.             *)
(*                                                                         *)
(* ESP-IDF's event task stores what happened in wifi::STATE and raises one *)
(* flag; the platform task waits for the flag, clears it and looks at the  *)
(* state.  Events that come close together are seen as one.  Every look    *)
(* that finds Online starts an application task, and the UDP port decides  *)
(* which of several stays.                                                 *)
(***************************************************************************)
EXTENDS Naturals

CONSTANTS
  Apps,              \* control blocks of application tasks
  NoApp,
  MaxAddresses       \* bound: addresses obtained per behaviour

ASSUME PlatformAssumption == NoApp \notin Apps /\ MaxAddresses \in Nat

VARIABLES
  link,              \* the Wi-Fi driver
  addresses,         \* GOT_IP events so far
  wifi_STATE,        \* wifi::STATE
  EVENT,             \* the flag PlatformEvent::WIFI
  handler,           \* where the event task is
  platform,          \* where the platform task is
  seen,              \* what it last read from wifi::STATE
  app,               \* where each application task is
  port,              \* the task whose socket has MULTICAST_PORT
  failed             \* since the last address a task failed or was closing

wifi == <<link, addresses>>
apps == <<app, port, failed>>
platformVars == <<wifi, wifi_STATE, EVENT, handler, platform, seen, apps>>

WifiState == {"Uninit", "Started", "Online", "Disconnected"}

PlatformTypeOK ==
  /\ link \in {"off", "connecting", "online", "lost"}
  /\ addresses \in 0 .. MaxAddresses
  /\ wifi_STATE \in WifiState /\ seen \in WifiState
  /\ EVENT \in BOOLEAN
  /\ handler \in {"idle", "raise"}
  /\ platform \in {"spawn", "wait", "load", "match", "panic"}
  /\ app \in [Apps -> {"gone", "new", "bind", "join", "serve", "close"}]
  /\ port \in Apps \cup {NoApp}
  /\ failed \in BOOLEAN

PlatformInit ==
  /\ link = "off" /\ addresses = 0
  /\ wifi_STATE = "Uninit" /\ seen = "Uninit"
  /\ EVENT = FALSE
  /\ handler = "idle"
  /\ platform = "spawn"
  /\ app = [a \in Apps |-> "gone"]
  /\ port = NoApp
  /\ failed = FALSE

Running == platform # "panic"

----------------------------------------------------------------------------
(* The event task: the handler stores, then raises *)

Handle(s) ==
  /\ Running /\ handler = "idle" /\ handler' = "raise"
  /\ wifi_STATE' = s
  /\ UNCHANGED <<EVENT, platform, seen, app, port>>

RaiseEvent ==
  /\ Running /\ handler = "raise" /\ handler' = "idle"
  /\ EVENT' = TRUE
  /\ UNCHANGED <<wifi, wifi_STATE, platform, seen, apps>>

StaStart ==
  /\ link = "off" /\ link' = "connecting"
  /\ Handle("Started")
  /\ UNCHANGED <<addresses, failed>>

(* wifi::init attaches the handlers after its first esp_wifi_start.        *)
StaStartUnheard ==
  /\ Running
  /\ link = "off" /\ link' = "connecting"
  /\ UNCHANGED <<addresses, wifi_STATE, EVENT, handler, platform, seen, apps>>

(* The first address, or another one.                                      *)
GotIp ==
  /\ link \in {"connecting", "online"} /\ link' = "online"
  /\ addresses < MaxAddresses /\ addresses' = addresses + 1
  /\ Handle("Online")
  /\ failed' = \E a \in Apps : app[a] = "close"

(* Nothing calls esp_wifi_connect again after wifi::init did.              *)
StaDisconnected ==
  /\ link \in {"connecting", "online"} /\ link' = "lost"
  /\ Handle("Disconnected")
  /\ UNCHANGED <<addresses, failed>>

----------------------------------------------------------------------------
(* The platform task *)

(* platform::init, after the Wi-Fi driver was told to connect.             *)
SpawnPlatform ==
  /\ platform = "spawn"
  /\ platform' \in {"wait", "panic"}
  /\ UNCHANGED <<wifi, wifi_STATE, EVENT, handler, seen, apps>>

(* wait_for_any_and_clear: one call, which also clears.                    *)
WaitEvent ==
  /\ platform = "wait" /\ platform' = "load"
  /\ EVENT /\ EVENT' = FALSE
  /\ UNCHANGED <<wifi, wifi_STATE, handler, seen, apps>>

LoadState ==
  /\ platform = "load" /\ platform' = "match"
  /\ seen' = wifi_STATE
  /\ UNCHANGED <<wifi, wifi_STATE, EVENT, handler, apps>>

(* Online: app::start, a new task.                                         *)
StartApp ==
  /\ platform = "match" /\ seen = "Online" /\ platform' = "wait"
  /\ \E a \in Apps : app[a] = "gone" /\ app' = [app EXCEPT ![a] = "new"]
  /\ UNCHANGED <<wifi, wifi_STATE, EVENT, handler, seen, port, failed>>

(* expect("spawn app task")                                                *)
StartPanics ==
  /\ platform = "match" /\ seen = "Online" /\ platform' = "panic"
  /\ UNCHANGED <<wifi, wifi_STATE, EVENT, handler, seen, apps>>

(* Defect: the flag is cleared once more when its cause is dealt with.     *)
OtherStateClears ==
  /\ platform = "match" /\ seen # "Online" /\ platform' = "wait"
  /\ EVENT' = FALSE
  /\ UNCHANGED <<wifi, wifi_STATE, handler, seen, apps>>

(* Disconnected: app::stop, which is empty; any other state: nothing.      *)
OtherState ==
  /\ platform = "match" /\ seen # "Online" /\ platform' = "wait"
  /\ UNCHANGED <<wifi, wifi_STATE, EVENT, handler, seen, apps>>

----------------------------------------------------------------------------
(* An application task *)

AppAt(a, l) == Running /\ app[a] = l
AppGoto(a, l) == app' = [app EXCEPT ![a] = l]

(* Udp::new, channel and on_receive.  Each can fail for want of memory,     *)
(* and then what the ones before it made is dropped; it is seen by nobody. *)
NewSocket(a) ==
  /\ AppAt(a, "new")
  /\ \/ AppGoto(a, "bind") /\ UNCHANGED failed
     \/ AppGoto(a, "gone") /\ failed' = TRUE
  /\ UNCHANGED <<wifi, wifi_STATE, EVENT, handler, platform, seen, port>>

(* Defect: the port can be shared, as with SO_REUSEADDR.                   *)
BindShared(a) ==
  /\ AppAt(a, "bind")
  /\ AppGoto(a, "join") /\ port' = a
  /\ UNCHANGED <<wifi, wifi_STATE, EVENT, handler, platform, seen, failed>>

(* udp_bind refuses a port that another socket has.                        *)
Bind(a) ==
  /\ AppAt(a, "bind")
  /\ IF port = NoApp
     THEN AppGoto(a, "join") /\ port' = a
     ELSE AppGoto(a, "gone") /\ UNCHANGED port
  /\ UNCHANGED <<wifi, wifi_STATE, EVENT, handler, platform, seen, failed>>

(* join_multicast_group, and with it the loop of the application.          *)
Join(a) ==
  /\ AppAt(a, "join")
  /\ \/ AppGoto(a, "serve") /\ UNCHANGED failed
     \/ AppGoto(a, "close") /\ failed' = TRUE
  /\ UNCHANGED <<wifi, wifi_STATE, EVENT, handler, platform, seen, port>>

(* A reply to a time packet cannot be sent: `?` leaves the loop.           *)
ReplyFails(a) ==
  /\ AppAt(a, "serve")
  /\ AppGoto(a, "close")
  /\ failed' = TRUE
  /\ UNCHANGED <<wifi, wifi_STATE, EVENT, handler, platform, seen, port>>

(* Defect: the socket is leaked, and its port with it.                     *)
CloseLeaking(a) ==
  /\ AppAt(a, "close")
  /\ AppGoto(a, "gone")
  /\ UNCHANGED <<wifi, wifi_STATE, EVENT, handler, platform, seen, port, failed>>

(* The socket is dropped, which gives back the port.                       *)
Close(a) ==
  /\ AppAt(a, "close")
  /\ AppGoto(a, "gone")
  /\ port' = NoApp
  /\ UNCHANGED <<wifi, wifi_STATE, EVENT, handler, platform, seen, failed>>

----------------------------------------------------------------------------
WifiEvent == StaStart \/ StaStartUnheard \/ GotIp \/ StaDisconnected

PlatformTask ==
  \/ SpawnPlatform \/ WaitEvent \/ LoadState
  \/ StartApp \/ StartPanics \/ OtherState

AppTask(a) == NewSocket(a) \/ Bind(a) \/ Join(a) \/ Close(a)

PlatformNext ==
  \/ WifiEvent \/ RaiseEvent
  \/ PlatformTask
  \/ \E a \in Apps : AppTask(a) \/ ReplyFails(a)

PlatformSpec == PlatformInit /\ [][PlatformNext]_platformVars

(* Tasks run.  Events and failures need not happen.                        *)
FairPlatformSpec ==
  /\ PlatformSpec
  /\ WF_platformVars(RaiseEvent) /\ WF_platformVars(PlatformTask)
  /\ \A a \in Apps : WF_platformVars(AppTask(a))

----------------------------------------------------------------------------
(* Properties *)

Serving == \E a \in Apps : app[a] = "serve"

(* However many application tasks addresses have started, at most one has   *)
(* the port, from joining the group to the end of its destructors: there is *)
(* one Receiver at a time.  Streams relies on it.                           *)
OneServes ==
  \A a, b \in Apps :
    app[a] \in {"join", "serve", "close"} /\ app[b] \in {"join", "serve", "close"} => a = b

(* Coalescing loses no state: whenever the platform task sleeps with the    *)
(* flag down and no handler half done, it has acted on the present state.   *)
SeesLatest ==
  platform = "wait" /\ ~EVENT /\ handler = "idle" => seen = wifi_STATE

(* The handler, the platform task and every application task have done      *)
(* what they were going to do.                                              *)
AtRest ==
  /\ handler = "idle" /\ ~EVENT /\ platform = "wait"
  /\ \A a \in Apps : app[a] \in {"gone", "serve"}

(* Events that were seen as one, tasks that were refused the port by one    *)
(* another and tasks that went never leave an online board at rest with     *)
(* nobody to serve, unless a call failed after the last address or a task   *)
(* was then still closing its socket.                                       *)
RestIsServed == AtRest /\ link = "online" /\ ~failed => Serving

(* Once the board has got an address and keeps the link, the application    *)
(* serves, however many tasks were started for it, in whichever order they  *)
(* tried the port and whatever failed before, unless a call fails after it, *)
(* a task that failed still has the port, or the device panics.             *)
ServesOnline ==
  link = "online" ~> Serving \/ link = "lost" \/ failed \/ ~Running

=============================================================================
