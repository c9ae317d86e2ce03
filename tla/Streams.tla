------------------------------ MODULE Streams ------------------------------
(***************************************************************************)
(* The application task and the stream tasks it starts: src/src/app/mod.rs *)
(* (Receiver), src/src/app/stream.rs (Stream, run_stream), the reference   *)
(* counted packet queue they share (src/src/system/heap/arc.rs,            *)
(* src/src/app/queue.rs), its lock, and the one DAC of the board.          *)
(*                                                                         *)
(* Every session gets a packet queue.  The application task holds a handle *)
(* of the newest and replaces it when a newer session speaks up; a stream  *)
(* task holds a handle of its own until it finds itself the only owner.    *)
(* The two tasks run on different cores.                                   *)
(*                                                                         *)
(* A queue and the stream task that plays it have the same number.  The    *)
(* lock is the one of TaskMutex.tla with wake_all as a single step; the    *)
(* gap between a failed swap and the registration is kept.                 *)
(***************************************************************************)
EXTENDS Integers

CONSTANTS
  Sessions,          \* the session ids packets carry
  MaxQueues,         \* bound: packet queues allocated in a behaviour
  DelayStart         \* DELAY_START_PACKETS

ASSUME SessionsAssumption == Sessions \subseteq Nat
ASSUME MaxQueuesAssumption == MaxQueues \in Nat \ {0}
ASSUME DelayStartAssumption == DelayStart \in Nat

App == 0
Queues == 1 .. MaxQueues
Actors == {App} \cup Queues
None == 0

VARIABLES
  pc,                \* where each task is
  stream,            \* Receiver.stream; queue = None when there is none
  made,              \* queues allocated so far
  refs,              \* SharedBox: the reference count of each queue
  freed,             \* queues whose memory went back to the heap
  flag,              \* TaskMutex: the lock of each queue
  notify,            \* TaskMutex: the tasks registered on it
  notified,          \* FreeRTOS: a notification of the task is pending
  dac                \* the queue whose task owns the DAC, or None

lockVars == <<flag, notify, notified>>
heapVars == <<made, refs, freed>>
vars == <<pc, stream, heapVars, lockVars, dac>>

LockLocs == {"lock", "add", "park", "cs", "wake"}
AppLocs == LockLocs \cup {"idle", "count", "panic"}
TaskLocs == LockLocs \cup
  {"none", "dac", "check", "write", "exit", "fail", "release", "gone"}

(* A stream is Started once more than DelayStart packets were counted.     *)
Streams == [queue : Queues \cup {None}, sid : Sessions \cup {0},
            count : 0 .. DelayStart + 1]
NoStream == [queue |-> None, sid |-> 0, count |-> 0]

TypeOK ==
  /\ pc \in [Actors -> AppLocs \cup TaskLocs]
  /\ pc[App] \in AppLocs
  /\ \A q \in Queues : pc[q] \in TaskLocs
  /\ stream \in Streams
  /\ made \in 0 .. MaxQueues
  /\ refs \in [Queues -> 0 .. 2]
  /\ freed \in SUBSET Queues
  /\ flag \in [Queues -> BOOLEAN]
  /\ notify \in [Queues -> SUBSET Actors]
  /\ notified \in [Actors -> BOOLEAN]
  /\ dac \in Queues \cup {None}

Init ==
  /\ pc = [a \in Actors |-> IF a = App THEN "idle" ELSE "none"]
  /\ stream = NoStream
  /\ made = 0
  /\ refs = [q \in Queues |-> 0]
  /\ freed = {}
  /\ flag = [q \in Queues |-> FALSE]
  /\ notify = [q \in Queues |-> {}]
  /\ notified = [a \in Actors |-> FALSE]
  /\ dac = None

At(a, L) == pc[a] \in L
Goto(a, l) == pc' = [pc EXCEPT ![a] = l]

(* The queue task a works on.                                              *)
QueueOf(a) == IF a = App THEN stream.queue ELSE a

(* Clone and Drop of SharedBox, as a change of the counts rs.  Whoever     *)
(* takes the count from 1 to 0 frees.                                      *)
CloneHandle(rs, q) == [rs EXCEPT ![q] = @ + 1]
DropHandle(rs, q) == IF q = None THEN rs ELSE [rs EXCEPT ![q] = @ - 1]
FreedBy(rs, q) == IF q # None /\ rs[q] = 1 THEN {q} ELSE {}

----------------------------------------------------------------------------
(* The application task *)

(* prepare_stream: only a later session replaces the stream.               *)
NewStream(sid) == stream.queue = None \/ stream.sid < sid

(* A packet of the current session or of an earlier one.                   *)
ReceiveAudio(sid) ==
  /\ At(App, {"idle"})
  /\ ~NewStream(sid)
  /\ Goto(App, "lock")
  /\ UNCHANGED <<stream, heapVars, lockVars, dac>>

(* Stream::new, then the assignment drops the handle of the stream before. *)
OpenStream(sid) ==
  /\ At(App, {"idle"})
  /\ NewStream(sid)
  /\ made < MaxQueues
  /\ made' = made + 1
  /\ refs' = [DropHandle(refs, stream.queue) EXCEPT ![made + 1] = 1]
  /\ freed' = freed \cup FreedBy(refs, stream.queue)
  /\ stream' = [queue |-> made + 1, sid |-> sid, count |-> 0]
  /\ Goto(App, "lock")
  /\ UNCHANGED <<lockVars, dac>>

(* The allocation fails: no stream is left, and the packet is dropped.     *)
OpenStreamFails(sid) ==
  /\ At(App, {"idle"})
  /\ NewStream(sid)
  /\ stream' = NoStream
  /\ refs' = DropHandle(refs, stream.queue)
  /\ freed' = freed \cup FreedBy(refs, stream.queue)
  /\ UNCHANGED <<pc, made, lockVars, dac>>

(* receive_audio, the packet inserted: nothing to start yet, or no longer. *)
CountPacket ==
  /\ At(App, {"count"})
  /\ stream.count # DelayStart
  /\ stream' = [stream EXCEPT !.count = IF @ < DelayStart THEN @ + 1 ELSE @]
  /\ Goto(App, "idle")
  /\ UNCHANGED <<heapVars, lockVars, dac>>

(* Defect: the task gets the handle without counting it.                   *)
StartUncounted ==
  /\ At(App, {"count"})
  /\ stream.count = DelayStart
  /\ stream' = [stream EXCEPT !.count = @ + 1]
  /\ pc' = [pc EXCEPT ![App] = "idle", ![stream.queue] = "dac"]
  /\ UNCHANGED <<heapVars, lockVars, dac>>

(* start_task: the handle is cloned into the closure of the new task.      *)
StartTask ==
  /\ At(App, {"count"})
  /\ stream.count = DelayStart
  /\ stream' = [stream EXCEPT !.count = @ + 1]
  /\ refs' = CloneHandle(refs, stream.queue)
  /\ pc' = [pc EXCEPT ![App] = "idle", ![stream.queue] = "dac"]
  /\ UNCHANGED <<made, freed, lockVars, dac>>

(* spawn fails: it takes the closure back and drops it, and the unwrap of  *)
(* start_task panics.  The panic handler aborts: the device stops.         *)
StartTaskFails ==
  /\ At(App, {"count"})
  /\ stream.count = DelayStart
  /\ Goto(App, "panic")
  /\ UNCHANGED <<stream, heapVars, lockVars, dac>>

----------------------------------------------------------------------------
(* lock().await and the guard's drop, of either task *)

PollLock(a) ==
  /\ At(a, {"lock"})
  /\ flag' = [flag EXCEPT ![QueueOf(a)] = TRUE]
  /\ Goto(a, IF flag[QueueOf(a)] THEN "add" ELSE "cs")
  /\ UNCHANGED <<stream, heapVars, notify, notified, dac>>

AddSelf(a) ==
  /\ At(a, {"add"})
  /\ notify' = [notify EXCEPT ![QueueOf(a)] = @ \cup {a}]
  /\ Goto(a, "park")
  /\ UNCHANGED <<stream, heapVars, flag, notified, dac>>

Unpark(a) ==
  /\ At(a, {"park"})
  /\ notified[a]
  /\ notified' = [notified EXCEPT ![a] = FALSE]
  /\ Goto(a, "lock")
  /\ UNCHANGED <<stream, heapVars, flag, notify, dac>>

Unlock(a) ==
  /\ At(a, {"cs"})
  /\ flag' = [flag EXCEPT ![QueueOf(a)] = FALSE]
  /\ Goto(a, "wake")
  /\ UNCHANGED <<stream, heapVars, notify, notified, dac>>

WakeAll(a) ==
  /\ At(a, {"wake"})
  /\ notified' = [b \in Actors |-> notified[b] \/ b \in notify[QueueOf(a)]]
  /\ notify' = [notify EXCEPT ![QueueOf(a)] = {}]
  /\ Goto(a, IF a = App THEN "count" ELSE "write")
  /\ UNCHANGED <<stream, heapVars, flag, dac>>

Spurious(a) ==
  /\ notified' = [notified EXCEPT ![a] = TRUE]
  /\ UNCHANGED <<pc, stream, heapVars, flag, notify, dac>>

----------------------------------------------------------------------------
(* run_stream *)

(* Dac::new succeeds for one owner at a time.  If enabling it or starting  *)
(* the conversions fails, the Dac is dropped on the way out.               *)
OpenDac(q) ==
  /\ At(q, {"dac"})
  /\ dac = None
  /\ dac' = q
  /\ \E l \in {"check", "fail"} : Goto(q, l)
  /\ UNCHANGED <<stream, heapVars, lockVars>>

(* The DAC is taken, or its driver cannot be set up.                       *)
OpenDacFails(q) ==
  /\ At(q, {"dac"})
  /\ Goto(q, "release")
  /\ UNCHANGED <<stream, heapVars, lockVars, dac>>

(* Defect: "two owners or fewer" taken for disconnected.                   *)
CheckTwo(q) ==
  /\ At(q, {"check"})
  /\ Goto(q, IF refs[q] <= 2 THEN "exit" ELSE "lock")
  /\ UNCHANGED <<stream, heapVars, lockVars, dac>>

(* Defect: disconnected looks for a count of zero.                         *)
CheckZero(q) ==
  /\ At(q, {"check"})
  /\ Goto(q, IF refs[q] = 0 THEN "exit" ELSE "lock")
  /\ UNCHANGED <<stream, heapVars, lockVars, dac>>

(* queue.disconnected() at the top of the loop.                            *)
Check(q) ==
  /\ At(q, {"check"})
  /\ Goto(q, IF refs[q] = 1 THEN "exit" ELSE "lock")
  /\ UNCHANGED <<stream, heapVars, lockVars, dac>>

(* Defect: the loop ends when there was nothing to play.                   *)
WriteOrLeave(q) ==
  /\ At(q, {"write"})
  /\ \E l \in {"check", "exit"} : Goto(q, l)
  /\ UNCHANGED <<stream, heapVars, lockVars, dac>>

(* dac.write(&buff).await: the DAC drains its buffer while it is enabled.  *)
Write(q) ==
  /\ At(q, {"write"})
  /\ Goto(q, "check")
  /\ UNCHANGED <<stream, heapVars, lockVars, dac>>

(* dac is the later local of the two, so it is dropped before the queue.   *)
DropDac(q) ==
  /\ At(q, {"exit", "fail"})
  /\ dac' = None
  /\ Goto(q, "release")
  /\ UNCHANGED <<stream, heapVars, lockVars>>

Release(q) ==
  /\ At(q, {"release"})
  /\ refs' = DropHandle(refs, q)
  /\ freed' = freed \cup FreedBy(refs, q)
  /\ Goto(q, "gone")
  /\ UNCHANGED <<stream, made, lockVars, dac>>

----------------------------------------------------------------------------
Receive(sid) == ReceiveAudio(sid) \/ OpenStream(sid) \/ OpenStreamFails(sid)

LockStep(a) == PollLock(a) \/ AddSelf(a) \/ Unpark(a) \/ Unlock(a) \/ WakeAll(a)

AppStep == LockStep(App) \/ CountPacket \/ StartTask \/ StartTaskFails

TaskStep(q) ==
  \/ LockStep(q)
  \/ OpenDac(q) \/ OpenDacFails(q) \/ Check(q) \/ Write(q)
  \/ DropDac(q) \/ Release(q)

Panicked == pc[App] = "panic"

Next ==
  /\ ~Panicked
  /\ \/ \E sid \in Sessions : Receive(sid)
     \/ AppStep
     \/ \E q \in Queues : TaskStep(q)
     \/ \E a \in Actors : Spurious(a)

Spec == Init /\ [][Next]_vars

(* Tasks that are not parked run on: two cores, and a task that has work    *)
(* yields only at an await.  A packet need never come.                      *)
Fairness ==
  /\ WF_vars(~Panicked /\ AppStep)
  /\ \A q \in Queues : WF_vars(~Panicked /\ TaskStep(q))

FairSpec == Spec /\ Fairness

----------------------------------------------------------------------------
(* Properties *)

AppHolds(q) == stream.queue = q
TaskHolds(q) == ~At(q, {"none", "gone"})

(* The count is the number of handles through clones, replacements, failed  *)
(* spawns and exits, and the memory goes exactly when the last one does: no *)
(* lock or queue is used after it was freed and none is leaked.             *)
HandlesCounted ==
  \A q \in Queues :
    /\ refs[q] = (IF AppHolds(q) THEN 1 ELSE 0) + (IF TaskHolds(q) THEN 1 ELSE 0)
    /\ q \in freed <=> q <= made /\ ~AppHolds(q) /\ ~TaskHolds(q)

(* disconnected() is a relaxed load that nothing protects: what it saw must *)
(* still be so when the task has left its loop.  Nobody else may get a      *)
(* handle of a queue that a single owner has.                               *)
DisconnectIsFinal ==
  \A q \in Queues : At(q, {"exit"}) => refs[q] = 1 /\ ~AppHolds(q)

(* While the application task sleeps on the lock of its stream, that        *)
(* stream's task is in its loop, awake, and will find it registered at the  *)
(* next unlock: the two never sleep on one another, and the count keeps the *)
(* task from leaving.                                                       *)
RescuerRuns ==
  At(App, {"park"}) /\ ~notified[App] =>
    /\ App \in notify[stream.queue]
    /\ At(stream.queue, {"check", "lock", "cs", "wake", "write"})

(* Stream tasks of the sessions have the DAC in turns: a task gives back    *)
(* what it was given, and what is another's it leaves alone, also where it  *)
(* was refused the DAC or a call failed.                                    *)
Holders == {q \in Queues : At(q, LockLocs \cup {"check", "write", "exit", "fail"})}

Lease == INSTANCE DacLease WITH Tasks <- Queues, holders <- Holders

LeaseSpec == Lease!Spec

(* The application task that missed a wake-up of the lock is woken by the   *)
(* next pop: the stream task cannot leave while the application holds on    *)
(* to the queue.                                                            *)
AppRescued == At(App, {"park"}) ~> ~At(App, {"park"})

(* The stream task of a replaced session ends, and with it its hold on the  *)
(* DAC and on the queue, unless it sleeps on a wake-up of the lock that it  *)
(* missed and that nobody is left to repeat.                                *)
Missed(q) == At(q, {"add", "park"}) /\ ~notified[q] /\ ~flag[q] /\ refs[q] = 1

ReplacedStreamEnds ==
  \A q \in Queues :
    TaskHolds(q) /\ ~AppHolds(q) ~> q \in freed \/ Missed(q) \/ Panicked
=============================================================================
