---------------------------- MODULE UdpCallback ----------------------------
(***************************************************************************)
(* src/src/platform/net/udp.rs: replacing and freeing the receive callback *)
(* that lwIP's thread calls while the application's thread owns it.        *)
(*                                                                         *)
(* The two threads meet in the two flags of an event group (each call on   *)
(* it is atomic) and in the pcb's recv and recv_arg.  lwIP loads those for *)
(* each datagram and then calls dispatch; dispatch touches the flags only  *)
(* when it gets to run, a step later.                                      *)
(***************************************************************************)
CONSTANTS
  Callbacks,         \* the HeapCallback boxes on_receive can allocate
  None

ASSUME NoneAssumption == None \notin Callbacks

VARIABLES
  recv,              \* external: the pcb's recv_arg, None when recv is null
  flags,             \* the event group
  receive_cb,        \* Udp.receive_cb
  old, new,          \* the box being freed, the box being installed
  fresh,             \* boxes not yet allocated (an address is used once)
  alive,             \* boxes allocated and not freed
  app,               \* where the application's thread is
  net, arg           \* where lwIP's thread is, and the argument it loaded

vars == <<recv, flags, receive_cb, old, new, fresh, alive, app, net, arg>>
appVars == <<recv, receive_cb, old, new, fresh, alive, app>>

CallbackOrNone == Callbacks \cup {None}

TypeOK ==
  /\ recv \in CallbackOrNone /\ receive_cb \in CallbackOrNone
  /\ old \in CallbackOrNone /\ new \in CallbackOrNone /\ arg \in CallbackOrNone
  /\ flags \subseteq {"SAFE", "STOP"}
  /\ fresh \subseteq Callbacks /\ alive \subseteq Callbacks
  /\ app \in {"idle", "stop", "unset", "wait", "free", "reset",
              "ready", "hook", "save", "remove", "closed"}
  /\ net \in {"idle", "dispatch", "bail", "run", "done", "fault"}

(* Udp::new                                                                *)
Init ==
  /\ recv = None /\ receive_cb = None /\ old = None /\ new = None /\ arg = None
  /\ flags = {}
  /\ fresh = Callbacks /\ alive = {}
  /\ app = "idle" /\ net = "idle"

----------------------------------------------------------------------------
(* The application's thread *)

(* safely_free_receive_callback takes the box out of self, or returns.     *)
TakeCallback(next) ==
  /\ old' = receive_cb
  /\ receive_cb' = None
  /\ app' = IF receive_cb = None THEN next ELSE "stop"

(* on_receive, up to the start of the quiesce.                             *)
OnReceive(cb) ==
  /\ app = "idle" /\ cb \in fresh
  /\ fresh' = fresh \ {cb}
  /\ alive' = alive \cup {cb}
  /\ new' = cb
  /\ TakeCallback("ready")
  /\ UNCHANGED <<recv, flags, net, arg>>

(* Udp::drop, up to the start of the quiesce.                              *)
Close ==
  /\ app = "idle"
  /\ TakeCallback("remove")
  /\ UNCHANGED <<recv, flags, new, fresh, alive, net, arg>>

SetStop ==
  /\ app = "stop"
  /\ flags' = flags \cup {"STOP"}
  /\ app' = "unset"
  /\ UNCHANGED <<recv, receive_cb, old, new, fresh, alive, net, arg>>

UnsetRecv ==
  /\ app = "unset"
  /\ recv' = None
  /\ app' = "wait"
  /\ UNCHANGED <<flags, receive_cb, old, new, fresh, alive, net, arg>>

(* Defect: the wait returns at once.                                       *)
SkipWait ==
  /\ app = "wait"
  /\ app' = "free"
  /\ UNCHANGED <<recv, flags, receive_cb, old, new, fresh, alive, net, arg>>

WaitSafe ==
  /\ app = "wait"
  /\ "SAFE" \in flags
  /\ app' = "free"
  /\ UNCHANGED <<recv, flags, receive_cb, old, new, fresh, alive, net, arg>>

FreeOld ==
  /\ app = "free"
  /\ alive' = alive \ {old}
  /\ old' = None
  /\ app' = "reset"
  /\ UNCHANGED <<recv, flags, receive_cb, new, fresh, net, arg>>

ClearFlags ==
  /\ app = "reset"
  /\ flags' = {}
  /\ app' = IF new = None THEN "remove" ELSE "ready"
  /\ UNCHANGED <<recv, receive_cb, old, new, fresh, alive, net, arg>>

(* on_receive, after the quiesce.                                          *)
SetSafe ==
  /\ app = "ready"
  /\ flags' = flags \cup {"SAFE"}
  /\ app' = "hook"
  /\ UNCHANGED <<recv, receive_cb, old, new, fresh, alive, net, arg>>

SetRecv ==
  /\ app = "hook"
  /\ recv' = new
  /\ app' = "save"
  /\ UNCHANGED <<flags, receive_cb, old, new, fresh, alive, net, arg>>

SaveCallback ==
  /\ app = "save"
  /\ receive_cb' = new
  /\ new' = None
  /\ app' = "idle"
  /\ UNCHANGED <<recv, flags, old, fresh, alive, net, arg>>

(* udp_remove, then the event group is freed with the rest of the socket.  *)
Remove ==
  /\ app = "remove"
  /\ app' = "closed"
  /\ UNCHANGED <<recv, flags, receive_cb, old, new, fresh, alive, net, arg>>

----------------------------------------------------------------------------
(* lwIP's thread *)

(* External: udp_input loads the callback for a datagram.                  *)
Input ==
  /\ net = "idle" /\ app # "closed"
  /\ recv # None
  /\ arg' = recv
  /\ net' = "dispatch"
  /\ UNCHANGED <<flags, appVars>>

(* dispatch begins by following arg to the event group; a freed box is     *)
(* undefined behaviour, and the model follows it no further.               *)
DispatchFault ==
  /\ net = "dispatch" /\ arg \notin alive
  /\ net' = "fault"
  /\ UNCHANGED <<flags, arg, appVars>>

(* clear(CALLBACK_SAFE) returns the flags from before.                     *)
Barrier ==
  /\ net = "dispatch" /\ arg \in alive
  /\ flags' = flags \ {"SAFE"}
  /\ net' = IF "STOP" \in flags THEN "bail" ELSE "run"
  /\ UNCHANGED <<arg, appVars>>

(* Defect: the early return forgets to say so.                             *)
BailUnsafe ==
  /\ net = "bail" /\ app # "closed"
  /\ net' = "idle"
  /\ UNCHANGED <<flags, arg, appVars>>

(* Told to stop: set(CALLBACK_SAFE) and return.                            *)
Bail ==
  /\ net = "bail" /\ app # "closed"
  /\ flags' = flags \cup {"SAFE"}
  /\ net' = "idle"
  /\ UNCHANGED <<arg, appVars>>

(* The event group itself may be gone by then.                             *)
BailFault ==
  /\ net = "bail" /\ app = "closed"
  /\ net' = "fault"
  /\ UNCHANGED <<flags, arg, appVars>>

(* The call of the callback's function.  That lwIP hands over a pbuf that  *)
(* nobody else refers to is taken for granted: dispatch panics otherwise.  *)
RunCallback ==
  /\ net = "run"
  /\ net' = "done"
  /\ UNCHANGED <<flags, arg, appVars>>

(* Defect: the flag is not restored on return.                             *)
DoneUnsafe ==
  /\ net = "done"
  /\ net' = "idle"
  /\ UNCHANGED <<flags, arg, appVars>>

SetDone ==
  /\ net = "done"
  /\ flags' = flags \cup {"SAFE"}
  /\ net' = "idle"
  /\ UNCHANGED <<arg, appVars>>

----------------------------------------------------------------------------
AppBegin == (\E cb \in Callbacks : OnReceive(cb)) \/ Close

AppStep ==
  \/ SetStop \/ UnsetRecv \/ WaitSafe \/ FreeOld \/ ClearFlags
  \/ SetSafe \/ SetRecv \/ SaveCallback \/ Remove

NetStep == DispatchFault \/ Barrier \/ Bail \/ BailFault \/ RunCallback \/ SetDone

Next == AppBegin \/ AppStep \/ Input \/ NetStep

Spec == Init /\ [][Next]_vars

----------------------------------------------------------------------------
(* Properties *)

(* While the callback's function runs, its box, and the event group it will *)
(* report to, stay allocated, however the quiesce falls.                    *)
RunningCallbackAlive == net \in {"run", "done"} => arg \in alive /\ app # "closed"

(* CALLBACK_SAFE is "cleared during callback execution, restored on         *)
(* return": between datagrams a hooked callback leaves it set, so that the  *)
(* next quiesce does not wait for a datagram that may never come.           *)
SafeRestored == app = "idle" /\ receive_cb # None /\ net = "idle" => "SAFE" \in flags

(* CALLBACK_STOP: "if the callback should run one last time, this flag      *)
(* indicates that it should return early", and after the wait "we can free  *)
(* it now": a dispatch that was called finds its box.                       *)
DispatchFindsCallback == net = "dispatch" => arg \in alive
=============================================================================
