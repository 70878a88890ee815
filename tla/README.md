# Conveyor node: specifications, model checking and proofs

TLA+ modules for the conveyor safety node: the Linux driver `conveyor_node.c`,
the daemon that publishes its events over MQTT (`conveyor_event_daemon.py`) and
the programs behind the broker, the web dashboard (`broker/conveyor_web.py`) and the
terminal subscriber, and the package fetcher of the installation. TLC checks the
modules on small instances; TLAPS proves every safety property the runs check, for every
value of the constants. `PROJECT.json` maps every definition to the lines it
models and lists runs, hazards, findings and theorems.

## 1. The system

```
tilt switch --irq--> tilt_eval_work (50 ms debounce) --+--> state, tilt, blockage
ultrasonic --irq--> distance_cm --+                    |          |
light (ADC) ----------------------+-> fusion_work -----+     push_event
hrtimer 200 ms -------------------^                          /    |    \
                                                        queue   wake   LED
                                                          |
     /dev/conveyor_node0 --> event daemon --MQTT QoS 0--> broker --> terminal subscriber
     /proc/conveyor_node_stats                                  \--> web dashboard --SSE--> tabs
```

| component | state | operations | shared with | hard behaviour |
|---|---|---|---|---|
| state fusion (`conveyor_node.c:230-534`) | `tilt`, `blockage`, `state`, streaks, the two works, the timer | tilt irq, tilt work, fusion work, timer, probe's start | `state_lock`, `q_lock`, the LED GPIO | two works beside each other, copies that outlive their lock, debounce, edges during a run |
| event queue (`:220-228`, `:296-304`, `:536-609`) | ring of 32, `q_head`, `q_tail`, wait queue | append, wake, read, non-blocking read, poll | writers: both works and probe; readers: any process | overwriting under readers, lost wake-ups, several readers |
| ultrasonic (`:339-354`, `:380-407`, `:489-523`) | `echo_phase`, `distance_cm`, `prev_distance_cm`, `distance_fresh` | trigger, echo irq, sample, judge | `data_lock`, `state_lock` | late or merged edges, echoes that do not come |
| light (`:242-279`, `:386-420`) | `light_ema`, `light_value`, streaks, `blockage` | ADC read, average, threshold, streaks | `state_lock` | a failed ADC read, rounding |
| life cycle (`:692-874`) | GPIOs, irqs, misc device, proc entry, `gdev` | probe, unwinding, remove | all of the above | what still runs while the device is taken apart |
| publisher daemon | socket, line in hand | connect, read, publish, retry | device file, broker | connections cut at any step, two exception handlers, a new connection while events of the old one are under way |
| web dashboard | `_current`, `_history`, `_clients`, a queue per stream | reader thread, requests, streams | two locks, one server thread | snapshot and registration, slow tabs, endless requests |
| terminal subscriber, and the dashboard's reader | socket, the packet in hand | connect, subscribe, read packets, ping, reconnect | broker | pieces and timeouts in the middle of a packet, connections that break in silence |
| package fetcher (`fetch_debs.py`) | the downloaded files | fetch and parse an index, resolve, download | mirror | circles, interrupted downloads, repeated runs |
| poll monitor, dashboard page, `mosquitto.conf`, deploy and build scripts | none that lasts | | | none |

What makes each correct:

- state fusion: at rest the state is the one of tilt and blockage, the tilt is the
  switch's, and queue and LED show the state.
- event queue: the newest events are kept, in order, none twice; nobody sleeps on a
  filled queue.
- ultrasonic: no ping while an echo is under way; triggers go on; a distance is
  believed only when fresh.
- light and streaks: the average is one of the levels it is made of; a path that stays
  dark or light is reported for good.
- life cycle: whatever fails, everything acquired is released; whoever runs has its
  device.
- daemon: events reach the broker in order and at most once; only the end of what a
  connection carried is lost, and only if it is cut; who is not connected connects again.
- dashboard: a tab never goes back in time, is never given gaps, shows what is current,
  and holds up nobody else.
- subscriber: in step with the stream, never back to an older event; leaves a connection only when something is wrong
  with it, and notices when there is.
- fetcher: gets what is needed and no more, ends, and knows what it has.

## 2. Modules

| module | what it is | proofs |
|---|---|---|
| `ConveyorTypes` | enumerations and `evaluate_state` | |
| `ConveyorNode` | the fused state machine | `ConveyorOutputs_proofs`, first part |
| `ConveyorOutputs` | extends it with what `push_event` puts out: event, newest entry, LED | `ConveyorOutputs_proofs` |
| `LossyFifo` | abstract: what the queue promises its readers | |
| `EventQueue` | ring, wait queue, writers and readers; implements `LossyFifo` | `EventQueue_proofs` |
| `Ultrasonic` | trigger, echo interrupt, sample | `Sensing_proofs`, first part |
| `Sensing` | extends it with the light path, the streaks and the blockage | `Sensing_proofs` |
| `DriverLifecycle` | probe, its unwinding, remove, and what runs meanwhile | `DriverLifecycle_proofs` |
| `Publisher` | the daemon; its device is `LossyFifo`, which it extends | `Publisher_proofs` |
| `WebDashboard` | reader thread, server thread and tabs | `WebDashboard_proofs` |
| `MqttSubscriber` | the receive loop of subscriber and dashboard, byte by byte | `MqttSubscriber_proofs` |
| `FetchDebs` | resolving and downloading packages, in repeated runs | `FetchDebs_proofs` |
| `MC*` | values of the constants for TLC | |

How they fit: `ConveyorOutputs` takes every step of `ConveyorNode` and adds data
(`OutSpec => Spec` is proved), so the larger state is paid for only where outputs
matter. `Sensing` adds to `Ultrasonic` in the same way (`SensingImplementsUltrasonic`),
and what it says of a blockage is one of the outcomes `ConveyorNode` leaves open.
`MqttSubscriber` is how `WebDashboard`'s reader comes by the events it stores; that each is
newer than the one before, as `Store` has it, is `OnlyNewer` there.
`EventQueue` starts where `push_event`'s second critical section does.
`Publisher` is composed with the abstract queue and not with the ring, which is
sound because the ring implements it (`RingIsLossyFifo`).

### Correspondence with the code

*ConveyorNode.* An action is what one thread does between two points where
another can be seen: a critical section, a GPIO access, an item put on or taken
from the work queue. `pc` says where probe and the two works are. `tiltWork` is
the delayed work (timer armed, then queued); `mod_delayed_work` restarts it from
any state, also while the function runs. `fusionPending` is the pending bit of
`fusion_work`; taking the item clears it, so a running item can be pending again.
The pin is read through `tilt_active_level`. What the sensors say of a sample is
any Boolean (`FusionSample`). The counters for the stats file, `last_tilt_gpio`
and time stamps are left out: nothing is decided by them.

*ConveyorOutputs.* `ev[t]` is the copy a caller of `push_event` holds, `newest`
the state in the event last appended, `led` the GPIO. `overlap` is history: the
last `push_event` began while another had taken its copy.

*EventQueue.* `wait_event_interruptible` and `poll` are looked at step by step:
look, get on the wait queue, look again, sleep, be woken. A signal may end a
wait. The events are numbered in the order of their appends.

*Ultrasonic.* The interrupt is edge triggered: one edge is latched, a second one
before it is served merges with it, and the handler reads the level that is there
when it runs. The sensor answers a ping with a pulse of any length or not at all.

*Sensing.* `adc` is what a transfer would find now, a level or an error; the light is
free to change at any moment. The transfer is part of the step that stores the
average and the blockage part of the one that grows a streak: between them only
`fusion_work_fn` could see the difference. `Scale` is the shift by 3. `lowest` and
`highest` are history.

*DriverLifecycle.* `ProbeOrder` and `RemoveOrder` are the orders in the source;
the `goto` labels are "release downwards from here". `free_irq`, `proc_remove`
and the `_sync` cancellations wait for what runs.

*Publisher.* Connections are numbered (`links` is the newest); `wire[c]` is what was sent
on `c` and not received, and the broker reads connections in any order. `Connect`
is `connect` up to the CONNECT packet, `BrokerAccepts` the broker's handling of it,
`Accepted` the CONNACK the daemon waits for; nothing waits for the events of the
connection before. `conn` is `pub._sock`: `"stale"` is a socket whose connection was cut,
which the daemon cannot know yet: `sendall` succeeds and loses its data, until the socket
is `"broken"` and raises. `Publish` contains the inner `except`. When `connect` raises
inside `__enter__` (`Refused`, `HungUp`), no `__exit__` runs, and the exception keeps the
socket until the handler has slept: `Sleep` drops it. `OpenFails` and `ReadEnds` are
left through `__exit__`, which closes it (`Disconnected`).

Taken from the MQTT standard is what `TakenOver` says: a broker that accepts a client id it
has already ends the older connection first (MQTT 3.1.1, 3.1.4-2). The daemon's id is
always `conveyor-pub` (`conveyor_event_daemon.py:48`). `cut` is history: the connections
that were ended with something under way or while the daemon held them, by a breakdown
of the broker, one of their own, or because the next one was accepted.

*WebDashboard.* `Store` and `Broadcast` are the reader's two critical sections;
`Snapshot`, `Register`, `Get`/`Heartbeat`, `Write`, `Unregister` the handler's
steps. The server serves one tab at a time (`serving`). `missed` is history: an event
was broadcast between the served tab's snapshot and its registration.

*MqttSubscriber.* `wire` holds the bytes sent and not received, each named by its packet
and its place in it; `data`, `head`, `lens` and `rem` are the locals of `_recvn`,
`_read_remlen` and the loop. `conn = "silent"` is a connection that broke without the
reader being told, `"reset"` one whose next use raises. After a timeout inside a packet
the rest is read as packets of any length up to `MaxJunk`; nothing readable comes of
it, as the two bytes taken for the topic's length are text and exceed what was read
(`conveyor_subscriber.py:91-93`): an empty payload, or an exception. `split` and `cut` are
history.

*FetchDebs.* An action is a turn of a loop. `index` gives every package it has the
clauses of its `Depends` line, each with its alternatives; `Deps` is `parse_index`.
`file` is what the output directory holds; it outlives a run. A name with a qualifier
(`python3:any`) is a name the index lacks, and `Pre-Depends` is no part of the index, as
`:67` does not look for it.

## 3. Runs

Passing runs. Every property has a mutant of the code, listed in `PROJECT.json`,
that breaks it.

| run | asks | bounds |
|---|---|---|
| `ConveyorNode` | `SettledStateIsFused`, `SettledTiltIsPin`: is everything consistent once all work is done, whatever the interleaving and the bouncing? `StateRepaired`, `TiltFollowsPin`: is a stale state repaired, is a switch at rest reported for good? | 2 confirming and 1 clearing sample, streaks modulo 3: a streak can start, break, complete and wrap |
| `ConveyorOutputs` | `SettledOutputsAgree`: do queue and LED agree with the state when no two announcements overlapped? Types (`OutTypeOK`) are left to the proof. | 1 and 1 samples, modulo 2: outputs do not depend on the length of a streak |
| `EventQueue` | `NoLostWakeup`, `KeepsNewest`, `FifoSpec`, `EveryEventLeaves` | 2 writers, 2 readers that read, read without blocking and poll in any order, 3 slots, 5 events: the ring fills, overwrites and wraps |
| `Sensing` | `NoPingDuringEcho`, `StuckOnlyByLostEcho`, `StuckStopsBeingStable`: does the echo protocol hold, however late the handler? `AverageWithinLevels`, `BlockageFollows`: does the rounded average follow the light, and the blockage both sensors? | distances zero, in and out of range; levels zero (where the average starts again) and above the threshold; scale 2, so that it rounds; streaks of 2 and 1, modulo 3 |
| `Publisher` | `NothingLostOnTheWay`: is all that was taken on a connection received unless it is cut, and never with a gap? `InOrderOnce`: is nothing doubled or overtaken, also by the next connection? `Retried` | queue of 2, 5 events, 4 faults, up to 5 connections: more than one breakdown, each at any step, events under way from a connection that was closed, and more events than the queue holds |
| `WebDashboard` | `NoQueueLeftBehind`, `StreamHasNoGaps`, `StaleOnlyByGap`, `ShownGoesForward`, `LeavingFreesServer` | 2 tabs, queues of 2, 6 events: a queue can fill, be evicted, and the tab come back |
| `DriverLifecycle` | `NothingLeftHeld`, `UsersHaveDevice`, `WorkLeftOnlyByLateEdge` | none: finite as it is |
| `MqttSubscriber` | `InStep`: is the reader in step with the stream as long as no timeout split a packet? `OnlyNewer`: is no event repeated or overtaken, whatever happens? `LeavesOnlyBroken`: does it leave only what is broken? `Resubscribes`: does it find out that it is? | base 2 instead of 128, so that bodies of 2, 9 and 3 bytes have lengths of 2, 4 and 2 bytes; 3 events, 2 faults, misread packets of up to 4 bytes, which reach into the next one |
| `FetchDebs` | `ResolvesNeeded`: is just what is needed got, in breadth-first order? `DamageOnlyByFailedRuns`, `ResolveEnds` | every index of 3 packages and a base package with up to two dependencies each, 3 runs: chains, circles, diamonds, alternatives and gaps, and two failures before a success |

The bounds are small because the actors are few: each queue is pushed beyond its
capacity, each streak beyond its threshold. `MaxPushed`, `MaxEvents`, `MaxSent`,
`MaxFaults`, `MaxJunk`, `MaxRuns` and `Measurable` are bounds of the models, not of the
code. Where a run says `CHECK_DEADLOCK FALSE` the model may really stop: the daemon blocks when no event comes any more, the
events of the dashboard run out, an unloaded driver does nothing, and nobody starts the
fetcher again.

Runs that find the code at odds with its documents (details and quotations in
`PROJECT.json`, `findings`):

| run | what happens |
|---|---|
| `ConveyorOutputsLed` | two `push_event` calls overlap, the older copy sets the LED last |
| `ConveyorOutputsConsistent` | an event whose state is not the one of its own tilt and blockage |
| `PublisherReconnect` | a failed publish is swallowed and the daemon stays on the dead socket |

Met while modelling; the models have this behaviour, no run asks for its absence:

- A switch that moves between probe's read (`conveyor_node.c:782`) and `request_irq`
  (`:805`) is not noticed until its next edge: `SettledTiltIsPin` and `TiltFollowsPin`
  speak of a switch with an edge handled.
- A stale state is repaired by an event without any changed input in its `reason`
  (`:327-334`), against `README.md:275`.
- A blocking read fails with `-EAGAIN` when another reader was faster (`:570-573`).
- The ring keeps 31 events (`:225-228`), `CODE_EXPLANATION.md:514` says 32.
- The first measurement is compared with the initial zero (`:400`), so that it can
  count as stable without having been repeated (`README.md:39`).
- An event stored after the snapshot and broadcast before the stream's queue is
  registered (`conveyor_web.py:178-189`) is not shown until the next one comes. This is
  the exception `missed` in `StaleOnlyByGap`.
- A ping that is not answered, or a pulse over before the handler reads the pin, leaves
  `echo_phase` at 1 or 2 for good, and `trigger_ultrasonic` refuses from then on (`:344-347`):
  what `StuckOnlyByLostEcho` allows. `CODE_EXPLANATION.md:152` counts exactly this as a bug
  that was removed. The light path goes on alone (`BlockageFollows`).
- `HTTPServer` (`conveyor_web.py:437`) handles one request at a time and a stream lasts as
  long as its tab: every other request waits, against "all browser tabs" in
  `CODE_EXPLANATION.md:459`. `LeavingFreesServer` is what remains true.
- A belt whose ADC reads keep failing is reported clear (`conveyor_node.c:275`).
- A timeout inside a packet leaves subscriber and dashboard out of step with the stream
  (`conveyor_subscriber.py:96`, `conveyor_web.py:127`) until it realigns by chance or raises:
  the exception `split` in `InStep`.
- The answer to a ping is not waited for (`conveyor_subscriber.py:95-97`): a dead connection
  is found by the second ping, which `DEEP_NOTES.md:562` credits to the answer.
- A device file that ends makes the daemon connect again at once
  (`conveyor_event_daemon.py:128-133`). If the broker accepts that before it has read the
  old connection to its end, the rest is lost although nothing broke (`TakenOver`):
  `NothingLostOnTheWay` counts such a connection as cut. That nothing of it comes after
  the newer events (`InOrderOnce`) rests on the fixed client id.
- A connect that is refused or gets no answer leaves its socket open for the five seconds
  of `time.sleep` (`:63-65`, `:142-144`): only the end of the handler releases it, with no
  DISCONNECT. What remains true is that the next connect finds it closed (`TypeOK`).
- A file cut off by a broken download counts as cached in the next run
  (`fetch_debs.py:104`): what `DamageOnlyByFailedRuns` allows.
- A stream whose queue was full (`conveyor_web.py:44-47`) stays open and gets heartbeats
  only: the exception `serving \in clients` there.

Met while reading: `README.md:207` gives 3 as the default of
`blockage_confirm_count` (the code: 5, `:156`); `README.md:102` has the echo
interrupt schedule the fusion work (the code does not); `README.md:263` shows an
event with a field `seq` (the code has none).

### Fairness

- `ConveyorNode`: weak fairness of interrupt, works, probe and timer, since the kernel
  runs them. The debounce timer's expiry is owed only when no edge is waiting:
  every edge restarts it, so a switch that never stops bouncing can put it off for
  ever. The switch owes nothing.
- `EventQueue`: running and woken threads go on (weak), and a reader that is between two
  calls again and again reads with a blocking read again and again (strong), as the
  daemon's loop does (the monitor's ends when a read fails); its other calls come as they may. Signals and new
  events are owed by nobody.
- `Sensing`: interrupts are served, the timer brings fusion work, and the sensor ends
  what it began, with or without an echo. The light and the ADC owe nothing.
- `Publisher`: the daemon runs, a broker that is down is started again, and a broker that is
  up handles CONNECT (a CONNACK that is late is the fault `Refused`). No fault has to
  happen, and no event is owed its arrival.
- `WebDashboard`: both threads run. No browser owes anything.
- `MqttSubscriber`: the thread runs, what was sent arrives or the timeout of `recv` expires.
  Refusals, breakdowns and events are owed by nobody.
- `FetchDebs`: only the resolving loop. `urlretrieve` has no timeout (`:108`), so no download
  is owed an end.

## 4. Proofs

All hold for every value of the constants; the assumptions are `CountAssumption`,
`SizeAssumption`, `ModesAssumption`, `MaxPushedAssumption`, `MeasureAssumption`,
`SensingAssumption`, `PublisherAssumption`, `DashboardAssumption`, `LengthAssumption` and
`IndexAssumption` in the modules. The life cycle has no constants. `LengthAssumption` says
that a body has the two bytes of the topic's length and is no longer than the four bytes
of the remaining length can say, which is the protocol's limit.

- **State fusion.** `SettledStateIsFused` is not inductive. A state that does not
  fit its inputs can only be repaired by a fusion run that has not copied the tilt
  yet, so the invariant (`StateInv`) says: whenever the state does not fit, a run is
  pending, about to be scheduled by `tilt_eval_work_fn`, about to take its copy, or
  holds a copy that is current (`RepairComing`); and a run with an outdated copy is
  never the last (`StaleRunNotLast`). `StartUpAlone` covers probe.
- **Tilt.** `RereadComing`: after a first served edge a tilt that is not the pin's has
  an edge, an armed work or a read still to come.
- **Outputs.** `OutputsImplementNode` maps every step to one of `ConveyorNode`, so its
  invariants carry over. `OutputsInv` adds: without overlap a change of the state is
  still to be announced, or every copy, the newest event and the LED are the state
  of now.
- **Queue.** `NoLostWakeup` from an invariant on who is on the wait queue;
  `KeepsNewest` from the arithmetic of the ring (`NextSlotWraps`, `LengthValue`,
  `MoveHead`, `MoveTail`, `MoveBoth`); `RingIsLossyFifo` from the two: an append maps
  to `Put`, a dequeue to `Take`, every other step to a stutter.
- **Ultrasonic.** `EchoProtocol`: what `echo_phase` says about sensor, latched edge and
  handler. `NoPingDuringEcho` and `StuckOnlyByLostEcho` follow from it.
- **Sensing.** `SensingImplementsUltrasonic` maps every step to one of `Ultrasonic` or a
  stutter. `AverageCorrect` rests on `AverageStep`: with `q` the quotient of the average
  by the scale, one level in and `q` out cannot leave bounds both are within, whatever
  the remainder; the invariant also says that before the first level the average is zero.
- **Life cycle.** `HeldInv`: what is held are the first `Level` resources of `ProbeOrder`,
  where `Level` is read off the place that probe, the unwinding or remove is at; so what
  the `goto` labels release is what was acquired (`NothingLeft`). `UsersInv`: a handler or
  a reader has the resource it came in through, and `ProbeOrder` has what it needs before
  that one (`UsersAreSafe`). `WorksInv`: the timer lives no longer than remove's first
  steps, and the works outlive their cancellation only through an edge (`OnlyLateEdge`).
- **Daemon.** `DeviceIsFifo`: every step of the daemon and its broker puts into the queue,
  takes from it or leaves it alone, so what holds of the abstract queue (`FifoOrdered`:
  it holds numbers that only grow, above all that were taken) holds of the device.
  `OrderInv` then relates broker, connections and the event in hand: each is older than
  the next. It needs that at most one connection has events under way, and that one
  which is open is that one: they are not ordered among each other, but before the broker
  accepts a connection it ends the others. `LinkInv` says of a connection that was not cut
  that received, under way and in hand make up what was taken on it, and of one that was
  that what was received is the beginning; it needs that who reads and publishes on a
  connection that was not cut has it open, so that a failed publish, though it is swallowed,
  leaves no gap. That the connections can be numbered up to `MaxFaults + 1` is shown too
  (`LinksOK`): every further one costs a fault.
- **Subscriber.** `EncRemlen` is recursive; that it is what its definition says is shown by
  unfolding it four times (`EncRemlenIs`), as no length has more digits, and
  `ReadingGoesOn` shows that `_read_remlen` undoes it: after each byte, the value so far
  and what is still to come make up the length. About the wire, `WireGrows`, `WireCut` and
  `WireRead` say what sending a packet, a breakdown and `recv` do to the packets on it.
  `PositionInv`: who took the first byte of a packet for what it is reads that packet to
  its end; after the last byte of one, the next is the first of another. `EventInv`: the
  events in hand and on the wire follow what was yielded without a gap, and up to the last
  one sent if the connection is good; split or not, they are newer than what was yielded.
  `OnlyNewer`, `InStep` and `LeavesOnlyBroken` follow, `InStep` with `GaplessIsInterval`.
- **Fetcher.** `NeededResolved` holds for every index. Safety needs `SeenInv`: what was
  looked at and is in the index was taken, and nothing asked for is forgotten; the order
  needs that each package taken has a first asker, that these do not decrease, and that
  whoever asks for a queued name comes no earlier (`FirstAskers`). `DamageInv` counts
  damaged files against failed runs.
- **Dashboard.** `NoQueueLeftBehind` is inductive as it stands. `StreamHasNoGaps` needs
  that the queue goes on where the message in hand ends and ends with the last event
  broadcast (`StreamInv`); the sequence lemmas are `TailWithoutGap` and
  `AppendWithoutGap`. `ShownGoesForward` rests on `ShownInv`: nothing shown is newer than
  what is still to be written. `StaleOnlyByGap` rests on `FreshInv`: who has nothing to
  write was given the last event broadcast, unless one was missed before registration.

Only model-checked: the liveness properties, as TLAPS has no ENABLED: `StateRepaired`,
`TiltFollowsPin`, `EveryEventLeaves`, `StuckStopsBeingStable`, `BlockageFollows`, `Retried`,
`LeavingFreesServer`, `Resubscribes`, `ResolveEnds`.

## 5. Not modelled

The bits of the SPI transfer; the contents of MQTT packets beyond their length, and
the JSON text; the text of device and stats file; counters and time stamps only shown
there; the dashboard's page; broker configuration, deployment and build scripts.
Real time is not modelled: 50 ms, 200 ms, 25 s and 5 s are
"later". Unbinding the SPI device by hand while a file is open is outside
`DriverLifecycle`. That a late edge leaves a work for a freed device
(`conveyor_remove` cancels at `:863`, frees the interrupt at `:868`; the unwinding of
probe cancels nothing) is what `WorkLeftOnlyByLateEdge` allows, and all it allows.

## 6. Plan

Done, in the order of importance: state fusion, outputs, queue, ultrasonic, daemon,
dashboard, life cycle, subscriber, light and blockage, fetcher.

1. `Pipeline`: outputs, queue, daemon, broker and dashboard end to end on the abstract
   parts: what a tab shows once everything is at rest.
2. Ticks in `Sensing`, so that "five samples are one second" can be asked of a belt
   whose tilt switch bounces (`conveyor_node.c:467` starts samples of its own).
3. Proofs: every invariant a run checks is proved. Next are the invariants of `Pipeline`,
   and, from the abstract queue, that the daemon skips an event only when the queue was
   full.
