# A verification project for bark-esp

bark-esp is the ESP32 receiver of the bark multi-room audio system: it takes
audio packets off the network, holds them in a jitter buffer and plays them
through the on-board DAC.  The firmware brings its own async runtime on top of
FreeRTOS, its own channel, mutex and ring buffer, and glue to callbacks of lwIP
and to interrupts.  Those are the parts a test on a desk hardly reaches, and the
parts modelled here.

Paths are relative to the repository (`src/...` here means `src/` of the
firmware, `src/src/...` in `PROJECT.json`).

## The system

```
 lwIP thread                  application task                stream task (core 1)      DAC interrupt
 -----------                  ----------------                --------------------      -------------
 udp.rs dispatch  --Queue-->  protocol.receive
   (UdpCallback)              Receiver.prepare_stream
                              stream.receive_audio --PacketQueue--> pop_front
                                 (TaskMutex around it, SharedBox)   convint8
                                                                    dac.write --RingBuffer--> on_convert_done
        every arrow wakes its consumer through a TaskWakerSet (TaskWaker, TaskRegistry)
```

| component (source) | state | operations | what is hard | what makes it correct |
|---|---|---|---|---|
| waker sets, executor (`system/task/waker.rs`, `execute.rs`) | one `AtomicU32` per set; FreeRTOS notification per task | add_task, take_wakeable, wake_all, wake_from_isr, park | registration after the failed poll; bits outlive tasks | a sleeper is always in a set or in a waker's hands |
| task registry (`system/task/registry.rs`) | 32 slots | claim, load, clear | a scan that is not atomic; slots used again | no two tasks in one slot; the scan does not fail while there is room |
| channel (`sync/queue.rs`, `native/queue.c`) | FreeRTOS queue, flags, two waker sets | try_send, send, send_from_isr, send_overwriting_from_isr, receive, drops | two cores; three-call overwriting send; last one out frees | conservation, order, one free, no panic, wake-ups |
| async mutex (`sync/mutex.rs`) | flag, waker set | lock, guard drop | store before wake; lost wake-up | exclusion; not everybody asleep |
| ring buffer (`sync/ringbuffer.rs`) | two indices, slots | write, read_in_place, reset, fill | stale indices; full against empty | disjoint slices; bounded FIFO |
| UDP socket (`platform/net/udp.rs`, `sync/eventgroup.rs`) | event group, boxed callback, lwIP's recv_arg | on_receive, dispatch, drop | freeing what another thread may be calling | running callback keeps its box; the quiesce ends |
| network protocol, application task (`app/protocol.rs`, `app/mod.rs`, `system/task.rs`) | socket, receiver; sender inside the callback | bind, receive loop, destructors, deletion | failure after the hook or the bind; wake-up of a task that is ending | all given back; nobody notifies a deleted task; a failed task ends |
| packet queue (`app/queue.rs`) | head_seq, deque of 50 | insert_packet, pop_front | late, early, repeated, reordered packets; cast of u64 to usize | the slot implies the number; a playout window |
| samples (`convint8` of `app/stream.rs`, `DmaFrame` of `platform/dac.rs`) | | convint8, bias and shift | shifts, a subtraction and casts that may wrap | the level the number asks for; monotone |
| receiver and streams (`app/mod.rs`, `app/stream.rs`, `system/heap/arc.rs`) | current stream, reference counts, stream tasks, the DAC | prepare_stream, receive_audio, start_task, run_stream | replacement of a stream while its task runs on the other core | exact counts; a replaced stream ends; the application is never stuck |
| DAC driver (`platform/dac.rs`) | ring, WAKER, driver handle | new, write, interrupt, drop | interrupt against writer | ring reset alone; frames in order; the writer is woken in time |
| platform events (`platform/mod.rs`, `platform/wifi.rs`) | state word, event flag | Wi-Fi and IP events, platform task | coalescing; application started again at each address | no state missed; the application serves while online |
| timing (`app/timing.rs`) | two histories of 64 | receive_packet, median | boundary of the median | median of the last 64 |
| statistics, logging, UART, NVS, task monitor | counters, output | | | |

How they meet: the channel, the mutex and the DAC share TaskWakerSet; the
callback that `Protocol::bind` hooks into the socket owns the sending end of the
channel, so freeing the callback is dropping the sender; a `PacketQueue` is a
`TaskMutex` in a `SharedBox`, with one handle in `Receiver.stream` and one in the
stream task; the stream task learns that its session is over from the reference
count alone.

## The modules

| module | models | checked by | proofs |
|---|---|---|---|
| `TaskWaker` | waker sets and park, as the state every primitive shares | through `Queue`, `TaskMutex`, `Dac` | |
| `WakerSets` | what waker sets promise to the primitives, and what they ask in turn | through the proofs of `TaskRegistry`, `Queue`, `TaskMutex`, `Dac` | |
| `Queue` | the channel | `Queue.cfg`, `QueueLost.cfg` | `QueueProofs` |
| `TaskMutex` | the async mutex | `TaskMutex.cfg` | `TaskMutexProofs` |
| `TaskRegistry` | slots and bits below `TaskWaker` | `MCTaskRegistry.cfg` | `TaskRegistryProofs` |
| `BoundedFifo` | what a ring promises | through `RingBuffer`, `Dac` | |
| `RingBuffer` | the ring, frame by frame | `RingBuffer.cfg` | `RingBufferProofs` |
| `UdpCallback` | hooking, replacing and freeing the receive callback | `UdpCallbackStale.cfg`, through `Delivery` | `DeliveryProofs` |
| `Delivery` | `UdpCallback` and `Queue` composed, with bind, receive loop and end of the task | `Delivery.cfg` | `DeliveryProofs` |
| `PlayoutBuffer` | what a jitter buffer promises | through `PacketQueue` | |
| `PacketQueue` | the deque and its head | `PacketQueueWide.cfg`, through `Playback` | `PlaybackProofs` |
| `Samples` | from the bits of an f32 to a DMA word, as operators | through `Playback` | `PlaybackProofs` |
| `Playback` | the loop of run_stream over `PacketQueue` and `Samples` | `MCPlayback.cfg` | `PlaybackProofs` |
| `Streams` | receiver, stream tasks, shared queues, the DAC's owner | `Streams.cfg` | `AppProofs` |
| `DacLease` | what it means to have the DAC | through the proofs of `Streams`, `Dac` | |
| `Dac` | stream tasks and the conversion interrupt over a `BoundedFifo` and a waker set | `Dac.cfg` | `DacProofs` |
| `Platform` | Wi-Fi events, platform task, application tasks and their port | `Platform.cfg` | `AppProofs` |

In all of them one action is one call of FreeRTOS or lwIP, one atomic operation,
or a stretch of code no other actor can see into.  A `pc` says where an actor is
between two such steps.  Definitions commented `Defect:` are not part of any
specification: each is the definition after it with a plausible mistake, and
exchanging the two makes a property fail.

**TaskWaker.**  A set of tasks stands for the bits, `waking[a]` for what
`take_wakeable` handed to actor `a` and has not been notified yet, `notified[t]`
for FreeRTOS's pending notification.  Tasks stay registered here; slots that
change hands are in `TaskRegistry`, and `WakerSets` is where the two meet.  Spurious notifications are possible at any
time, because the comment in `waker.rs` calls them safe.

**WakerSets.**  Sets of tasks, hands full of tasks, and who is parked.  `Spec` is
the promise: without stray notifications nobody enters or leaves a set but by
registering and being taken; with them, tasks that are up may besides come, go and be
notified for nothing.  `UseSpec` is the other side: register only on the way to
sleep, take only when all that was taken before is notified.  `TaskRegistry` keeps the
promise under a mapping that reads a bit as the task that has its slot now, and a
loaded pointer as still in the hand; `Queue`, `TaskMutex` and `Dac` keep to the other
side.

**Queue.**  `pc` splits a poll into the look at the queue (`idle`/`poll`), the
registration (`add`) and the park, a send into the queue call, the swap and the
notifications, and the overwriting send into its three queue calls.  Items are
numbered in the order of their sends, so that loss, duplication and reordering
show.  One end is dropped when it is between calls: the borrow checker allows
no other moment.

**TaskMutex.**  `PollLock` is the swap, `AddSelf` the registration after it,
`Unlock` the store, `TakeBits` and `NotifyOne` the wake-up that follows.
`Loopers` are tasks that are certain to come back for the lock.

**TaskRegistry.**  `id[t]` is the slot a scan has reached and then the slot the
task has.  Control blocks of finished tasks are used again.  A waker, a task or one
of `Outside` (an interrupt, a callback on lwIP's thread), swaps a set (`hand`), loads
the pointer in the next slot (`loaded`) and notifies through it later: three steps,
between which the task may be woken by another waker, exit, and its control block
be deleted.  `stray` says whether notifications may come that no waker set caused;
the firmware has none, and `waker.rs` calls them safe, so both are looked at.

**RingBuffer.**  An operation records the slices it built from one load of both
indices and then copies one frame per step; the other side's index may have
moved since.  `Reset` and `Fill` run when no operation does, which is what
`Dac::new` claims.  Frames are numbered by their place in the written stream and
0 is silence.  `Contents` maps the ring to the channel of `BoundedFifo`.

**UdpCallback.**  The application's thread and lwIP's thread meet in two flags.
lwIP loading `recv_arg` (`Input`, external) and `dispatch` touching the flags are
separate steps: lwIP's receive path does not know the flags.  A dispatch that
follows a freed box stops the model in `fault`.

**Delivery.**  `Protocol::bind`, the receive loop and `task::spawn`'s end around
both: the callback of the socket is the sender's `try_send`, called from lwIP's
thread with its own wake-up (`Call`, `Wake`, `Return`), and the box of the callback
owns the sender, so `DropSender` is part of freeing the box.  Hooking, binding and
joining the multicast group can each fail; the loop ends when a reply cannot be
sent.  The destructors run in the order of the language: the receiver before the
socket when bind fails, after it otherwise; `vTaskDelete` comes last.  `Q` is
`Queue` with two actors and `try_send` only.

**PacketQueue.**  The lock is taken for granted (`TaskMutex` shows it), so an
insertion and a pop are one step each.  `UsizeMod` is the width of the cast in
`queue_slot_mut`.  `Held` maps the deque to the window of `PlayoutBuffer`.

**Samples, Playback.**  `convint8` by what its shifts and casts do: an f32 is a record
of its three fields, a shift is a product or a quotient by a power of two, and
`AsI8` keeps the low bits, as a cast does.  A turn of the loop pops, chooses a
sample for the packet and makes the DMA word of it; an underrun makes the word of
`DmaFrame::default`.

**Streams.**  A queue and its stream task have one number.  `stream` is
`Receiver.stream`, `refs` and `freed` the `SharedBox`, `dac` the owner
`dac_continuous_new_channels` admits.  The lock is that of `TaskMutex` with
`wake_all` as one step.  Packets and samples are left out; what a packet does to
the queue is `PacketQueue`.  A panic ends every behaviour, as the panic handler
aborts.

**Dac.**  `Ring == INSTANCE BoundedFifo` is the static `BUFFER`, and a poll of
`write` is the load of the indices (`Load`), the store that shows the frames
(`Show`, `ShowNothing`) and the registration (`AddSelf`).  The interrupt is the
load (`ConvertDone`), the store (`Copy`), the swap (`WakeFromIsr`) and the
notifications.  `driver` is the DAC driver's own state, external: a second owner
is refused, calls that do not apply fail and are ignored by `drop`, and deleting
the channels does not cut an interrupt short.  `heard`, `lag` and `late` are
history: the last frame played, the interrupts since the writer last ended a poll,
and whether it was ever late in this opening.

**DacLease.**  The right of one task to the DAC, taken and given back.  `Dac` maps to
it by the places of its tasks between a successful open and the last call of `drop`,
`Streams` by `dac`: the two views of a stream task agree on when it has the DAC.

**Platform.**  A handler on ESP-IDF's event task is a store (`Handle`) and a flag
(`RaiseEvent`); the platform task is the wait that clears, the load and the
match.  `Protocol::bind` is three steps, of which only `Bind` depends on other
tasks.  Which events can follow which is external: start, then addresses, then at
most one disconnection, since `wifi::init` connects once.  `failed` is history.

## The runs

| run | bounds | what it asks |
|---|---|---|
| `queue` | 2 slots, 4 items | conservation, order, reservation, lifetime, wake-ups under all sender calls and drops |
| `queue_lost` | 2 slots, 4 items, try_send only | **violated**: is a packet refused only when the receiver is busy? |
| `mutex` | application and 2 tasks that loop | exclusion, reachable sleepers, somebody awake, a missed wake-up made good; deadlock checked |
| `registry` | 3 slots, 3 control blocks, 1 set, 1 outside waker, symmetric | can the scan fail, can two share a slot, can stale bits hide a sleeper, can a waker notify a deleted task? |
| `ring` | 4 slots, calls of 0..5 frames, 7 frames | disjoint slices, FIFO |
| `udp` | 1 callback, channel of 2, 4 datagrams | callback, sender and task outlive their calls, flag restored, all given back, a failed task ends |
| `udp_stale` | 1 callback | **violated**: does every dispatch find its box? |
| `packets` | window of 3, numbers 0..6 twice, head up to 7, 128 samples | slots implied; playout window; exact and monotone levels |
| `packets_wide` | 2^64 and 2^32 scaled to 16 and 8 | **violated**: are the numbers implied? |
| `streams` | 3 sessions, 3 queues, start delay 1 | exact counts, final disconnection, application and stream task never asleep on one another, application rescued, replaced stream ends |
| `dac` | 2 stream tasks, room for 3, buffers of 1, packets of 2, 8 frames | ring reset alone, frames in turn, sleeper reachable, writes end, missed wake-ups inaudible |
| `platform` | 3 addresses, 4 application tasks | one application task has the port; no state missed; an online board at rest is served, and gets there |

Why these bounds are enough to be interesting.  A channel of two slots is empty,
half full and full, and four items let it be refilled after it was drained.
Three tasks are the least for a third to slip in between a store and a wake-up.
Three slots let two tasks
be ahead of a scan while its slots are cleared behind it, by a task whose control
block then comes back for one of them; the outside waker holds a pointer over all
of that.
Control blocks are told apart by their slots only, which is why exchanging them
is a symmetry (`MCTaskRegistry`).  The ring wraps twice, with calls that are empty, fit exactly and
exceed the room.  One socket hooks one
callback, as the firmware does; four datagrams fill its channel of two, are refused,
and are under way at every step of the destructors.  Replacing a callback by
another is in `UdpCallback`, which the firmware does not use: it is covered for any
number of callbacks by the proofs alone.  Seven
numbers around a window of three give packets before, in and after it, at both
ends.  The samples are each sign with the exponents the tests of `convint8` divide
and fractions on both sides of each place where its subtraction carries.  Three queues let two stream tasks compete for the DAC while the
application has moved on to a third.  Two stream tasks and four packets let a DAC
be opened again with frames of the last session in the ring, and a write meet a full
ring more than once; as in the firmware (512 slots, DMA buffers of 128 frames) the
ring is four DMA buffers less one slot and a packet is more than one.  Three
addresses and a start event cause at most four application tasks.  `MaxItems`,
`MaxHead`, `MaxQueues`, `MaxChunk`, `MaxFrames` and `MaxAddresses` are the only
bounds that cut behaviours; all stand in guards.

What some properties do not see.  A task that missed a wake-up is registered, so
`ParkedIsRegistered`, `SendWakesReceiver` and `SleeperReachable` hold of it; what the
miss costs is asked by `RefusedOnlyWhenBusy`, `NoUnderrun` and `WriteEnds`, and by
`NotAllStuck` and `LoopersRescue` for the lock.  With one callback, as in `udp`, a
dispatch that returns early has been unhooked: that it restores its flag shows in
`FailedTaskEnds`, not in `SafeRestored`.  In `packets` the width of the cast never
wraps; only `packets_wide` looks at it.  `RestIsServed` and `ServesOnline` excuse a
failure until the next address: what they ask is that nothing of it is left by then.

`CHECK_DEADLOCK FALSE` stands where the system may stop: both ends of a channel
gone, all packets played, everybody asleep until an interrupt, a socket closed
or a fault, a panic.

**Fairness.**  FreeRTOS runs a task that can run, the chip has two cores, and a
call once begun returns unless it parks.  So each model gives weak fairness to
what an actor inside a call does next, and none to what starts one: no packet,
send or datagram is promised.  `TaskMutex` has more for `Loopers`, because
`run_stream` pops once per frame for as long as it lives; in `Streams` the same
follows from the loop itself.  `dac.write` is a fair step there; that it ends is
`WriteEnds` of `Dac`, where the interrupt is fair while the converter is started,
since the DMA hardware raises it after every buffer.  `Delivery` is fair to the task's
thread and to a dispatch once lwIP has entered it; no datagram and no failure of a
reply is promised, and a datagram may come at any time.  `Platform` is fair to tasks
and to a handler once begun, and to no event or failure.

`NoUnderrun` of `Dac` has a condition, about time (`late`): the interrupt runs on the
core of the stream task (`use_alternate_core`, and the driver allocates it where the
DAC is opened), the task ends a poll within one interrupt, and packets or silence are
to be had at once.  The code asks for this with priority 16 on the other core; it is
not a fact about FreeRTOS.

## What the checks found

* **A packet can be refused although the receiver is asleep** (`queue_lost`).
  `poll_receive` looks at the queue and then registers.  A send in between swaps
  an empty waker set.  The receiver parks with a packet in the queue; the next
  send wakes it, unless the queue filled up meanwhile, which takes a send for every
  slot (sixteen in the firmware) between the look and the registration: a refused
  send wakes nobody, and from then on every packet is refused.  The comment in
  `app/protocol.rs:56-58` blames a busy application task.
* **The quiesce frees a callback that is about to be called** (`udp_stale`).
  `CALLBACK_SAFE` is cleared by `dispatch` itself, so a dispatch that lwIP has
  committed to but not begun is invisible to `wait_all` (`udp.rs:89`).
* **A sequence number far ahead aliases a slot** (`packets_wide`): the cast at
  `app/queue.rs:95` comes before the comparison.

A margin worth knowing came out of `NoUnderrun`.  Between finding the ring full and
the next successful write at most three interrupts pass, so a task that is in time is
safe with a ring of four DMA buffers less one frame, packets of at least one DMA
buffer, and one interrupt per poll.  The firmware's ring has 511 frames and its DMA
buffers 128: exactly that.  With a ring of 6 frames and DMA buffers of 2, with packets
of half a DMA buffer, with a poll per two interrupts (`Slack = 2`), or with an
interrupt that runs beside the task, TLC finds an underrun.

Three more that no sentence of the repository contradicts are recorded as hazards:
an application task that is still closing its socket costs the board the task that
a new address started (`ServesOnline` names the exception); a stream task that
missed the last unlock of a replaced queue keeps the DAC (`ReplacedStreamEnds` names
it); and a stream that could not open the DAC is never started again.

## What is proved

TLAPS proves for every value of the constants what the runs show on small ones.
Assumptions on constants are the `ASSUME`s of the modules; `PlaybackProofs`
adds `Narrow`, that all sequence numbers are below `UsizeMod`, without which
the statements are false (`packets_wide`).

* `QueueProofs`: types, `ParkedIsRegistered`, `SendCannotFail`, `SharedLifetime`,
  `Conservation`, `InOrder`.  The invariant adds that only actors that notify have
  taken bits, that a sender past its checks has an item left to number, and that
  `alive` says which ends are gone.  That a reserved or evicted place is still there
  at the send needs no addition: only the sender adds items.  For the items two more
  parts are needed: `Placed`, that every number so far is in exactly one of the
  places an item can be, and `Rising`, that what was received and what is queued
  rise, and the former stays below the latter.
* `TaskMutexProofs`: `MutualExclusion`, `ParkedIsRegistered`, `NotAllStuck`.  The
  invariant is that `flag` is true exactly when some task holds a guard; that
  not all are stuck follows because a flag that is false was stored by a task
  that has yet to take the bits, or has since gone on.
* `TaskRegistryProofs`: `ScanFindsSlot`, `SlotIsOwn`, `SleeperReachable`,
  `WakersFindTask`.  `ScanFindsSlot` is not inductive: the slots a scan saw taken may
  be free by now.  The strengthening `RoomBeyond` bounds how many tasks are at slot
  `i` or beyond by `MaxTasks - i`.  A task passes slot `i` because another one has it,
  and that other is at `i` and not beyond, so the bound for `i + 1` follows from
  the bound for `i`.  `WakersFindTask` follows from how few wake-ups a sleeper has:
  its bit is in one set, or in one hand, or its pointer is loaded by one waker, or
  it is notified, and only one of these.  `ImplementsSets` is the refinement of
  `WakerSets`: a claim or an exit changes what the bits of that slot stand for, but
  only for the task that is up there, and without stray notifications there are no
  such bits.
* `UsesSets` in `QueueProofs`, `TaskMutexProofs` and `DacProofs`: the three primitives
  keep to `UseSpec` of `WakerSets`.  The step that needs the invariants is the swap,
  which must find the hand of the waker empty.  With `ImplementsSets` the set of
  tasks that these models speak of is the bit set the registry has.
* `RingBufferProofs`: `SlicesDisjoint`, `NeverFilled` (which `FifoSpec` implies, so no
  run asks it), and that the ring implements
  `BoundedFifo` (`ImplementsFifo`).  The invariant relates what an operation believes
  (`avail`, from a stale load) to what is there now: the other side only ever makes
  the true room larger.  For the frames it adds what a write has put into slots it
  has not shown, and what a read has copied so far; every step of the ring is then
  a whole step of the FIFO or a stutter.
* `DeliveryProofs`, first part, about `UdpCallback`: `RunningCallbackAlive` and
  `SafeRestored`.  The invariant says which boxes the application's thread owns at
  each of its points and what lwIP can load there, and that between the barrier and
  the return `CALLBACK_SAFE` is clear, so that the wait cannot pass and the
  application is before the points that free.
* `DeliveryProofs`, second part: the composition.  `SocketPart` and `ChannelPart` show
  that the whole system uses the socket and the channel as `UdpCallback` and `Queue`
  say, so that the theorems of both hold in it (those of the channel through an
  instance of `QueueProofs`).  `Between` relates the life of the task, the socket's
  destructor and the two ends of the channel; from it follow
  `SenderOutlivesCallback`, `WakesLiveTask` and `AllReturned`.
* `PlaybackProofs`: `SlotsImplied`, and that `PacketQueue` implements
  `PlayoutBuffer` (`PlaysInTurn`): the initial states map to initial states,
  insertion to `Receive`, a drop to a stutter, a pop to `Play`.  `LevelsExact` and
  `LevelsFollow` are about every f32 in [-1.0, 1.0]: a case for each of the eight
  exponents, then arithmetic with quotients by constants.
* `AppProofs`, first part, about `Platform`: types, `OneServes`, `SeesLatest`,
  `RestIsServed`.  The invariant adds that the port belongs to exactly the task that
  joins, serves or closes (`PortOwned`), carries what was loaded through the match
  (`SeenLatest`), and says that while the board is online and nothing failed, a start
  is still to come or some application task is on its way (`OnTheWay`).
* `AppProofs`, second part, about `Streams`: `HandlesCounted`, `DisconnectIsFinal`,
  `RescuerRuns`.  The invariant adds that queues not yet allocated have no handle and
  that a stream still counting its first packets has no task; hence a count is at most
  2 and no handle of a queue with a single owner is ever cloned.  For `RescuerRuns`
  it adds the lock of each queue: `flag` is true exactly when one of its two users
  holds the guard, whoever sleeps is registered, and while the application waits the
  stream task is in its loop and does not wait itself.  `StreamsKeepLease` maps
  `dac` to `DacLease`.
* `DacProofs`: types, `ResetAlone`, `PlayedInTurn`, `SleeperReachable`, `NoUnderrun`.
  `Exclusive` says that the task that has the DAC has it alone and how far the driver
  is at each of its points; `Confined`, that the interrupt runs only between the start
  and the deletion of the channels; `Content`, that the ring holds what is left of the
  silence of `Dac::new` and then every frame not yet played.  `DacKeepsLease` follows
  from `Exclusive`.
* `NoUnderrun` holds in certain proportions of ring, DMA buffer and packet, and not in
  all: `Proportions` is a hypothesis of `NeverUnderruns`, and the margin above says
  where each part is tight.  The invariant is `InTime`: `Level` is what the ring holds
  once the read under way is done, `Reserve` what is left of it when every interrupt
  has come that may come before the writer ends its poll, and `Enough` how much that
  must be at each place of the writer.  A sleeper of whom no wake-up was missed has
  the full ring less two DMA buffers; one that missed an interrupt, less three, which
  is the last buffer but one frame, and the packet of which a frame is left to write
  makes up for that frame.

The type invariants of all modules with theorems are part of their inductive
invariants, so they are proved and no run asks for them.

`LeaseSpec`, `UsesSets` and `WakerSetsSpec` are theorems and not properties of a run.
TLC confirms all of them on the instances of the runs; for `WakerSetsSpec`
that takes minutes, because of the sets of functions in `Exchange`.

Only model-checked: the liveness properties (`SendWakesReceiver`, `LoopersRescue`,
`WriteEnds`, `AppRescued`, `ReplacedStreamEnds`, `ServesOnline` and those of
`Delivery`), since fairness and ENABLED are beyond the prover.

## Limits, and what is not modelled

* Nothing keeps a task alive for a waker that has loaded its pointer but that it
  sleeps until that very notification (`WakersFindTask`, with `stray` false).  The
  usual cure for the missed wake-ups of `queue_lost`, to register before the last
  look at the queue, would let a registered task go on and exit, and so open the
  window that the present order keeps shut; the mutant of `WakersFindTask` is that.
* `LevelIsExact` speaks of [-1.0, 1.0], as the comment in `convint8` does.  A sample
  above 1.0 and below the clip exponent wraps to a negative level, in the code as
  in `Samples`.
* Memory is sequentially consistent.  The atomics that carry a protocol are
  `SeqCst`, or `Acquire`/`Release` on one index each in the ring; `SLOTS` and
  `SharedBox::unique` use `Relaxed` loads of a single word.
* Ownership of a `HeapBox` is left to the Rust compiler; malloc, FreeRTOS
  queues and event groups, lwIP and the DAC driver are external and atomic.
* Not modelled.  `app/timing.rs`: a history and its median that nothing reads.
  `stats.rs`, `system/log.rs`, `system/task/top.rs`, `system/uart.rs`,
  `system/logo.rs`, `system/panic.rs`: counters and output; no other part depends on
  them.  `platform/net.rs`, `platform/nvs.rs`, `platform/eventloop.rs`: conversions of
  addresses and one-shot calls of ESP-IDF, except the multicast join, a step of
  `Delivery`.  `sync/isr.rs` and `native/critical.c`: a hint to the scheduler and a
  masked section.  `sync/streambuffer.rs`, `system/heap/dma.rs`,
  `system/heap/array.rs`: commented out of the build.  The rest of what
  `PROJECT.json` lists as partly modelled says there what is missing.

## Plan

Done: every module of the table, the composition `Delivery`, and the proofs above.
Left, in this order:

1. `Streams` and `Dac` composed, so that the conversion interrupt is the reason a
   `dac.write` ends there; `Streams` assumes it, `WriteEnds` shows it for `Dac`.  That
   the two agree on who has the DAC is `DacLease`.
2. The channel as an abstract bounded queue with eviction, which `Queue` implements,
   so that `Delivery` can be shown over the abstraction.
