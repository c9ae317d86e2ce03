-------------------------------- MODULE Dac --------------------------------
(***************************************************************************)
(* src/src/platform/dac.rs and the stream tasks of src/src/app/stream.rs   *)
(* that use it: a stream task opens the one DAC, fills the ring and goes   *)
(* to sleep on WAKER; the conversion interrupt drains the ring, pads with  *)
(* silence and wakes; the next stream task opens the DAC after that.       *)
(*                                                                         *)
(* The ring is BoundedFifo, which RingBuffer is shown to implement.  A     *)
(* write and a read are two steps each, the load of the indices and the    *)
(* store that shows the result, because the other side runs in between.    *)
(***************************************************************************)
EXTENDS Naturals, Sequences, FiniteSets

CONSTANTS
  Streams,           \* stream tasks
  Isr,               \* the interrupt
  Room,              \* frames the ring holds
  DmaFrames,         \* frames of a DMA buffer
  PacketFrames,      \* FRAMES_PER_PACKET
  MaxFrames,         \* bound: frames written per behaviour
  Slack              \* interrupts a poll may take and still be in time

ASSUME DacAssumption ==
  /\ Isr \notin Streams
  /\ {Room, DmaFrames, PacketFrames} \subseteq Nat \ {0}
  /\ {MaxFrames, Slack} \subseteq Nat

VARIABLES
  chan, made, out,   \* the ring, frames shown so far, the last batch read
  driver,            \* the DAC driver's channels
  WAKER,
  pc,                \* where each stream task is
  left,              \* frames of the packet still to be written
  offer,             \* frames the write under way will show
  isr,               \* where the interrupt is
  take,              \* frames the read under way will remove
  notified, waking,
  heard,             \* the last frame played of this opening of the DAC
  lag,               \* interrupts begun since the writer last ended a poll
  late               \* in this opening the stream task was not in time

ring == <<chan, made, out>>
task == <<pc, left, offer>>
wakes == <<notified, waking>>
core == <<ring, driver, WAKER, task, isr, take, wakes, heard, lag>>
vars == <<core, late>>

Actors == Streams \cup {Isr}

Ring == INSTANCE BoundedFifo
Waker == INSTANCE TaskWaker WITH Tasks <- Actors

Opening == {"reset", "fill", "register", "enable", "start"}
Writing == {"load", "show", "add", "park"}
Closing == {"stop", "disable", "delete"}
HasDac == Opening \cup Writing \cup Closing \cup {"pop"}

TypeOK ==
  /\ Waker!WakerTypeOK
  /\ chan \in Seq(0 .. MaxFrames) /\ Len(chan) <= Room
  /\ out \in Seq(0 .. MaxFrames) /\ Len(out) <= DmaFrames
  /\ made \in 0 .. MaxFrames /\ heard \in 0 .. MaxFrames
  /\ driver \in {"none", "open", "enabled", "async"}
  /\ WAKER \subseteq Actors
  /\ pc \in [Streams -> HasDac \cup {"gone", "new"}]
  /\ left \in [Streams -> 0 .. PacketFrames]
  /\ offer \in [Streams -> 0 .. PacketFrames]
  /\ isr \in {"idle", "copy", "wake", "notify"}
  /\ take \in 0 .. DmaFrames
  /\ lag \in 0 .. Slack + 1
  /\ late \in BOOLEAN

Init ==
  /\ Ring!Init /\ Waker!WakerInit
  /\ driver = "none"
  /\ WAKER = {}
  /\ pc = [t \in Streams |-> "gone"]
  /\ left = [t \in Streams |-> 0]
  /\ offer = [t \in Streams |-> 0]
  /\ isr = "idle" /\ take = 0
  /\ heard = 0 /\ lag = 0 /\ late = FALSE

SmallerOf(a, b) == IF a < b THEN a ELSE b

Goto(t, from, to) == pc[t] = from /\ pc' = [pc EXCEPT ![t] = to]

----------------------------------------------------------------------------
(* A stream task opens the DAC *)

(* start_task: a new task, so with no notification pending.                *)
Spawn(t) ==
  /\ Goto(t, "gone", "new")
  /\ notified' = [notified EXCEPT ![t] = FALSE]
  /\ UNCHANGED <<ring, driver, WAKER, left, offer, isr, take, waking, heard, lag>>

(* Defect: the driver's refusal is not looked at.                          *)
OpenBlind(t) ==
  /\ Goto(t, "new", "reset")
  /\ driver' = IF driver = "none" THEN "open" ELSE driver
  /\ UNCHANGED <<ring, WAKER, left, offer, isr, take, wakes, heard, lag>>

(* dac_continuous_new_channels; `?` ends the task while another has them.  *)
Open(t) ==
  /\ IF driver = "none"
     THEN Goto(t, "new", "reset") /\ driver' = "open"
     ELSE Goto(t, "new", "gone") /\ UNCHANGED driver
  /\ UNCHANGED <<ring, WAKER, left, offer, isr, take, wakes, heard, lag>>

(* Defect: the ring is filled on top of what it holds.                     *)
ResetNothing(t) ==
  /\ Goto(t, "reset", "fill")
  /\ heard' = made
  /\ UNCHANGED <<ring, driver, WAKER, left, offer, isr, take, wakes, lag>>

Reset(t) ==
  /\ Goto(t, "reset", "fill")
  /\ Ring!Reset
  /\ heard' = made
  /\ UNCHANGED <<driver, WAKER, left, offer, isr, take, wakes, lag>>

Fill(t) ==
  /\ Goto(t, "fill", "register")
  /\ Ring!Fill
  /\ UNCHANGED <<driver, WAKER, left, offer, isr, take, wakes, heard, lag>>

Register(t) ==
  /\ Goto(t, "register", "enable")
  /\ UNCHANGED <<ring, driver, WAKER, left, offer, isr, take, wakes, heard, lag>>

Enable(t) ==
  /\ Goto(t, "enable", "start")
  /\ driver' = "enabled"
  /\ UNCHANGED <<ring, WAKER, left, offer, isr, take, wakes, heard, lag>>

StartAsyncWriting(t) ==
  /\ Goto(t, "start", "pop")
  /\ driver' = "async"
  /\ lag' = 0
  /\ UNCHANGED <<ring, WAKER, left, offer, isr, take, wakes, heard>>

(* One of the last three calls fails: the Dac is dropped as far as it got. *)
Fail(t) ==
  /\ \E l \in {"register", "enable", "start"} : Goto(t, l, "stop")
  /\ UNCHANGED <<ring, driver, WAKER, left, offer, isr, take, wakes, heard, lag>>

----------------------------------------------------------------------------
(* It writes packets *)

(* run_stream has a packet, or silence in its place; Dac::write begins.    *)
Pop(t) ==
  /\ made + PacketFrames <= MaxFrames
  /\ Goto(t, "pop", "load")
  /\ left' = [left EXCEPT ![t] = PacketFrames]
  /\ UNCHANGED <<ring, driver, WAKER, offer, isr, take, wakes, heard, lag>>

(* poll_write: RingBuffer::write sees so much room.                        *)
Load(t) ==
  /\ Goto(t, "load", "show")
  /\ offer' = [offer EXCEPT ![t] = SmallerOf(left[t], Room - Len(chan))]
  /\ UNCHANGED <<ring, driver, WAKER, left, isr, take, wakes, heard, lag>>

(* The write is done; Dac::write goes on with the rest of the packet.      *)
Show(t) ==
  /\ offer[t] > 0
  /\ Goto(t, "show", IF offer[t] < left[t] THEN "load" ELSE "pop")
  /\ Ring!Write(offer[t])
  /\ left' = [left EXCEPT ![t] = @ - offer[t]]
  /\ lag' = 0
  /\ UNCHANGED <<driver, WAKER, offer, isr, take, wakes, heard>>

(* It wrote nothing.                                                       *)
ShowNothing(t) ==
  /\ offer[t] = 0
  /\ Goto(t, "show", "add")
  /\ UNCHANGED <<ring, driver, WAKER, left, offer, isr, take, wakes, heard, lag>>

(* Defect: Pending without a registration.                                 *)
AddNobody(t) ==
  /\ Goto(t, "add", "park")
  /\ lag' = 0
  /\ UNCHANGED <<ring, driver, WAKER, left, offer, isr, take, wakes, heard>>

AddSelf(t) ==
  /\ Goto(t, "add", "park")
  /\ WAKER' = Waker!AddTask(WAKER, t)
  /\ lag' = 0
  /\ UNCHANGED <<ring, driver, left, offer, isr, take, wakes, heard>>

Unpark(t) ==
  /\ Goto(t, "park", "load")
  /\ Waker!NotifyWait(t)
  /\ UNCHANGED <<ring, driver, WAKER, left, offer, isr, take, waking, heard, lag>>

----------------------------------------------------------------------------
(* It leaves its loop and drops the Dac *)

(* queue.disconnected()                                                    *)
Leave(t) ==
  /\ Goto(t, "pop", "stop")
  /\ UNCHANGED <<ring, driver, WAKER, left, offer, isr, take, wakes, heard, lag>>

(* The driver calls of Drop; one that does not apply fails, ignored.       *)
Stop(t) ==
  /\ Goto(t, "stop", "disable")
  /\ driver' = IF driver = "async" THEN "enabled" ELSE driver
  /\ UNCHANGED <<ring, WAKER, left, offer, isr, take, wakes, heard, lag>>

Disable(t) ==
  /\ Goto(t, "disable", "delete")
  /\ driver' = IF driver = "enabled" THEN "open" ELSE driver
  /\ UNCHANGED <<ring, WAKER, left, offer, isr, take, wakes, heard, lag>>

(* dac_continuous_del_channels frees the interrupt, on the core it runs    *)
(* on, so not in the middle of it.                                         *)
Delete(t) ==
  /\ isr = "idle"
  /\ Goto(t, "delete", "gone")
  /\ driver' = IF driver = "open" THEN "none" ELSE driver
  /\ UNCHANGED <<ring, WAKER, left, offer, isr, take, wakes, heard, lag>>

----------------------------------------------------------------------------
(* on_convert_done *)

Asleep(t) == pc[t] = "park" /\ ~notified[t]

(* A DMA buffer has been played; read_in_place sees so many frames.        *)
ConvertDone ==
  /\ driver = "async"
  /\ isr = "idle" /\ isr' = "copy"
  /\ take' = SmallerOf(DmaFrames, Len(chan))
  /\ lag' = IF \E t \in Streams : Asleep(t) THEN lag ELSE SmallerOf(lag, Slack) + 1
  /\ UNCHANGED <<ring, driver, WAKER, task, wakes, heard>>

(* They are copied and removed; the rest of the buffer is silence.         *)
Copy ==
  /\ isr = "copy" /\ isr' = "wake"
  /\ Ring!Read(take)
  /\ heard' = heard + Cardinality({i \in 1 .. take : chan[i] # 0})
  /\ UNCHANGED <<driver, WAKER, task, take, wakes, lag>>

(* Defect: writers are woken only when the ring has run dry.               *)
WakeWhenDry ==
  /\ isr = "wake" /\ isr' = "notify"
  /\ IF take < DmaFrames
     THEN Waker!TakeWakeable(Isr, WAKER) /\ WAKER' = {}
     ELSE UNCHANGED <<waking, WAKER>>
  /\ UNCHANGED <<ring, driver, task, take, notified, heard, lag>>

(* wake_from_isr                                                           *)
WakeFromIsr ==
  /\ isr = "wake" /\ isr' = "notify"
  /\ Waker!TakeWakeable(Isr, WAKER)
  /\ WAKER' = {}
  /\ UNCHANGED <<ring, driver, task, take, notified, heard, lag>>

NotifyOne ==
  /\ isr = "notify"
  /\ \E t \in Streams : Waker!Notify(Isr, t)
  /\ UNCHANGED <<ring, driver, WAKER, task, isr, take, heard, lag>>

ConvertReturn ==
  /\ isr = "notify" /\ isr' = "idle"
  /\ waking[Isr] = {}
  /\ UNCHANGED <<ring, driver, WAKER, task, take, wakes, heard, lag>>

(* The lock of the packet queue wakes the same tasks.                      *)
Spurious(t) ==
  /\ pc[t] \notin {"gone", "new"}
  /\ Waker!SpuriousWake(t)
  /\ UNCHANGED <<ring, driver, WAKER, task, isr, take, heard, lag>>

----------------------------------------------------------------------------
Write(t) == Load(t) \/ Show(t) \/ ShowNothing(t) \/ AddSelf(t) \/ Unpark(t)

Close(t) == Stop(t) \/ Disable(t) \/ Delete(t)

Stream(t) ==
  \/ Spawn(t) \/ Open(t) \/ Reset(t) \/ Fill(t)
  \/ Register(t) \/ Enable(t) \/ StartAsyncWriting(t) \/ Fail(t)
  \/ Pop(t) \/ Write(t) \/ Leave(t) \/ Close(t)
  \/ Spurious(t)

Interrupt == ConvertDone \/ Copy \/ WakeFromIsr \/ NotifyOne \/ ConvertReturn

(* A stream task is in time when the interrupt, which the driver allocates *)
(* on the core that opens the DAC, holds it up rather than running beside  *)
(* it, and when at most Slack interrupts come from the end of one poll to  *)
(* the end of the next, its sleep not counted.                             *)
StreamStep ==
  /\ \E t \in Streams : Stream(t)
  /\ late' = (driver # "none" /\ (late \/ isr # "idle"))

InterruptStep == Interrupt /\ late' = (late \/ lag' > Slack)

Next == StreamStep \/ InterruptStep

Spec == Init /\ [][Next]_vars

(* Tasks run, and the converter does not stop while it is started.         *)
FairSpec == Spec /\ WF_core(Interrupt) /\ \A t \in Streams : WF_core(Write(t))

----------------------------------------------------------------------------
(* Properties *)

(* dac.rs on reset and fill: "dac_continuous_new_channels ensures that at   *)
(* most one DAC instance exists at any given time, at this point there      *)
(* cannot be any readers or writers".                                       *)
ResetAlone ==
  \A t \in Streams : pc[t] \in {"reset", "fill"} =>
    isr = "idle" /\ \A u \in Streams \ {t} : pc[u] \notin HasDac

(* What the interrupt plays is the silence of Dac::new and then the frames  *)
(* of the present opening, none missing, repeated or left by an earlier one.*)
PlayedInTurn ==
  isr = "wake" =>
    \E s \in 0 .. Len(out) : \A i \in DOMAIN out :
      out[i] = IF i <= s THEN 0 ELSE heard - Len(out) + i

(* A wake-up missed between the full ring and the registration costs one    *)
(* interrupt and is never audible: a stream task that has packets, and was  *)
(* always in time, is never behind the converter.                           *)
NoUnderrun ==
  isr = "copy" /\ ~late =>
    \A t \in Streams : pc[t] \in Writing \cup {"pop"} => take = DmaFrames

(* A stream task that sleeps on the full ring is in WAKER, or the interrupt *)
(* has taken it from there and is about to notify it, and it leaves nobody  *)
(* behind when it returns: an interrupt between the write that found no     *)
(* room and the registration is the only one that can be missed.            *)
SleeperReachable ==
  /\ \A t \in Streams : Asleep(t) => t \in WAKER \cup waking[Isr]
  /\ isr # "notify" => waking[Isr] = {}

(* poll_write and the interrupt use WAKER as WakerSets asks, across the end *)
(* of one stream task and the start of the next.                            *)
Members == [s \in {"WAKER"} |-> WAKER]
Parked == {t \in Streams : pc[t] = "park"}

Wakers == INSTANCE WakerSets WITH
  Tasks <- Actors, Sets <- {"WAKER"},
  members <- Members, parked <- Parked, stray <- TRUE

UsesSets == Wakers!UseSpec

(* The driver's states and refusals make a Dac the right of one task, which *)
(* ends before the next begins.                                             *)
Holders == {t \in Streams : pc[t] \in HasDac}

Lease == INSTANCE DacLease WITH Tasks <- Streams, holders <- Holders

LeaseSpec == Lease!Spec

(* Every packet gets written: no sleep on WAKER is for ever, whichever      *)
(* interrupts come before the registration.                                 *)
WriteEnds == \A t \in Streams : pc[t] \in Writing ~> pc[t] = "pop"
=============================================================================
