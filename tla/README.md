# A TLA+ model of mybbr

mybbr is a sender-side implementation of the BBRv2 congestion controller in C++:
about 4400 lines without the tests. This directory holds TLA+ modules for its
state machines, TLC configurations that check them on small instances, and
TLAPS proofs about all of them: every safety property of a passing run is a
theorem for every value of the constants.

The repository says of itself that it is under development. Only
`bandwidth_sampler.cpp` and what it includes compile alone; the other BBR files
do not (a wrong namespace of `AckedPacket`, `size_t drain_target =
drain_target()`, `bytes_inflight(bytes_inflight)`, a vector returned by value
from a function declared otherwise, functions declared and never defined). The
models translate these statements as they are plainly meant and never repair
their logic; what is declared and has no body is marked external in
`PROJECT.json` and modelled from its uses.

## 1. The system

| Component | State | Operations | Code |
|---|---|---|---|
| Sender | queue of packets not sent, history of packets sent, `bytes_inflight_` | `send_or_queued_pkt`, `on_pkt_ack`, `check_after_acked` | `bbr_sender.*`, `packet_history.h`, `packet_buffer.h` |
| Trunked buffer behind the history | trunks, `begin_`, `end_` | `emplace`, `get` (`erase`, `rotate` without a caller) | `common/circular_buffer.h` |
| Loss detection | none yet: declared, `on_pkts_ack` returns nothing | `on_pkt_ack` | `loss_detect.*` |
| BBR algorithm | mode, pacing rate, congestion window | `on_congestion_event` | `bbr_algorithm.*`, `bbr_mode.h` |
| Modes STARTUP, DRAIN, PROBE_BW, PROBE_RTT | flat rounds and baseline; the probing cycle; the exit time | `enter`, `leave`, `on_congestion_event` of each | `bbr_startup.*`, `bbr_drain.*`, `bbr_probe_bw.*`, `bbr_probe_rtt.*` |
| Network model | min rtt, bandwidth filter of two slots, loss counters, `bw_lo_`, `inflight_lo_`, `inflight_hi_`, gains | `on_congestion_event`, `restart_round`, the bounds | `bbr_model.*` |
| Bandwidth sampler | counters of bytes sent, acked, lost; `state_map_`; the a0 candidates; app-limited phase; ack height | `on_packet_sent`, `on_congestion_event`, `on_app_limited`, `on_pkt_neutered`, `remove_obsolete_pkts` | `bandwidth_sampler.*` |
| Windowed filter | three ranked estimates | `update`, `reset` | `common/windowed_filter.h` |
| Round-trip counter | last packet sent, end of the round, count | `on_pkt_sent`, `on_pkts_acked`, `restart` | `round_trip_counter.h` |
| Units | `TimeDelta`, `Timestamp`, `BitRate` with infinite values | arithmetic | `time/*`, `common/rate.*` |
| Random numbers | generator state | draws for the probing timers | `common/random.*` |
| Unwrapper | last value | `unwrap`, `unwrap_without_update` (no caller) | `common/unwrapper.h` |
| Asynchronous logging | the current and the next buffer and a queue of full ones, under `mutex_`; `running_`; the thread's two spares | `append`, `rtc_log_init` and `rtc_log_uinit` (constructor, destructor), the loop of `thread_pro` | `common/alog/logger.*`, `async_logging.*`, `logstream.*` |
| Log file | the log, its backup, `written_bytes_` | `append`, `roll_file` | `common/alog/log_file.*` |

**How they interact.** An application hands a packet to the sender, which sends it when
the window allows and queues it otherwise. An acknowledgement reaches `on_pkt_ack` or,
for several packets, `on_pkts_ack`: the loss detector is asked, bytes in flight are
reduced, acknowledged and lost packets are reported to BBR, and then `check_after_acked`
drains the queue. `BbrAlgorithm::on_congestion_event` lets the model take the event
through round counter and sampler, then runs the current mode's handler in a loop, once
more after each change of mode and at most four times, and computes pacing rate and
window. All of this is one thread of synchronous calls.

The logging library stands beside it; nothing in the controller calls it yet. Any
thread streams text into a `Logger`, whose destructor appends the line to the
current buffer; a second thread swaps the buffers against its spares every three
seconds, or when it is notified of a full one, and writes them to the log file.

**What is hard about it.** In the controller nothing is concurrent in the sense of
threads. The difficulty lies in long sequences of legal events whose effects cross
several rounds, modes and cycles; in packets that are lost, reordered, acknowledged
twice, or acknowledged after they were declared lost; in several changes of mode within
one event; in unsigned differences of counters recorded at different moments; in unset
values that are infinite and take part in arithmetic. In the log it lies in the
interleavings: lines appended between any two steps of the writing thread, a
notification that comes while nobody waits, buffers that change hands twice per turn and
must be there again, a shutdown that wakes nobody. `PROJECT.json` lists the hazards at
their lines.

**What makes each part correct.**

- Algorithm and modes: a mode finds on entry what it relies on, whichever way it
  was entered and in whichever order the handlers ran within the event; the loop
  over modes ends for the right reason; per-cycle work happens once per cycle;
  STARTUP ends when, and only when, the pipe is full or losses say so.
- Sampler: its differences never wrap; the point an ack rate is measured from is
  the right one for every packet still to be acknowledged; a paced sender cannot
  measure more than its pace; a round takes a round trip.
- Filter: it forgets what has left the window, and no estimate is behind a newer
  sample as large as it is.
- Sender: bytes in flight are those of the outstanding packets, packets leave in
  order, the queue waits only when the window is closed, and is emptied in the end.
- History: every outstanding packet is found under its number.
- Log: the thread never lacks a spare buffer; a full buffer does not wait for the
  timer; lines reach the file whole, in order and once; rolling keeps the last of
  them; the destructor returns.
- Unwrapper: a stream disordered by less than half the range is restored.

## 2. The modules

```
MCBbrHistory -> BbrHistory ---+
MCBbrAlgorithm ---------------+-> BbrAlgorithm -> BbrProbeBw  -+
                              |                -> BbrStartup  -+-> BbrModel
                              |                -> BbrProbeRtt -+
BbrHistoryProofs -> BbrHistory|
                 -> BbrProofs +

MCSampling ----+-> Sampling -> BandwidthSampler -> WindowedFilter
SamplingProofs +            -> RoundTripCounter

MCUtilities ----------+-> WindowedFilterSpec -> WindowedFilter
WindowedFilterProofs -+
MCUtilities ----------+-> Unwrapper
UnwrapperProofs ------+

MCBbrSender ----+-> BbrSender -> CircularBuffer
BbrSenderProofs +             => Fifo

MCAsyncLogging ----+-> AsyncLogging -> LogFile
AsyncLoggingProofs +                => Fifo

BbrSenderProofs, SamplingProofs, AsyncLoggingProofs -> SumTheorems
```

(`->` is EXTENDS, `=>` an abstract specification taken with `INSTANCE ... WITH`.)

**`BbrModel`** declares the path model's variables, `Bbrparams` as the record
`params`, and the helpers of `bbr_model.cpp`. Percentages stand for the float
factors, bandwidth is in bits per tick and amounts are in bytes, as in the code;
`bdp` therefore returns bits that its callers take for bytes, as in the code.
`ModelOnCongestionEvent` is `BbrModel::on_congestion_event` up to the call of the
mode. What the sampler would report is an arbitrary record of `EventType`.

**`BbrStartup`, `BbrProbeBw`, `BbrProbeRtt`** hold the handlers of the modes. A
handler is an action over the mode's own variables and those of the model it
writes. The whole of PROBE_BW's bookkeeping is one record, `cycle`, as in
`struct Cycle`, handed through the steps of a phase handler in the code's order.
DRAIN is a few lines in `BbrStartup`.

**`BbrAlgorithm`** composes them. One event is a sequence of steps: `StartEvent`
(`on_congestion_event` until the loop), one `StartupStep`, `DrainStep`,
`ProbeBwDownStep`, `ProbeBwOtherStep` or `ProbeRttStep` for each turn of the loop, and
`FinishEvent` (pacing rate and window). Rates are whole bits per tick, cut off after the
product with a gain as the code cuts them off to whole bits per second. The steps exist
because the loop's turns are what the properties are about; nothing else runs between
them.

**`BbrHistory`** adds history variables for properties that span rounds, and
changes nothing of the algorithm.

**`BandwidthSampler`** is the sampler's state with one operator per public
operation; **`RoundTripCounter`** and **`WindowedFilter`** are translated alike.
**`Sampling`** drives sampler and counter together: packets are sent, held up by
the network, lost or acknowledged in one or several calls of an event, ticks
pass. An event is the code's order: round counter, each acknowledged packet, each
lost one, ack height. What the sender and the network may do is a record, the
`scenario`, chosen once: `Disordered` is a sender without a pace over a network that
loses and reorders, `Paced` one that keeps a gap between packets over a network
that bunches their acks, `Forgetful` one that gives packets up.
**`WindowedFilterSpec`** puts the filter beside the list of all samples it has been
given. **`Unwrapper`** has the function of the code over a type of `Range` values,
and a stream of numbers around it, each less than half the range away from the one
before; `promoted` tells types narrower than `int`, whose differences C++ computes
with a sign, from the others.

**`BbrSender`** is the sender over **`CircularBuffer`**, with the packet on its
way to the loop of `check_after_acked` as a phase of its own: `OnPktAck` or
`OnPktsAck`, which reports to BBR, then `DrainOne` per packet sent from the queue,
then `DrainDone`. The window that
`can_send` compares with is an arbitrary value chosen at every event, so that
what is shown holds for any congestion controller behind it. The loss detector
is any set of unacknowledged packets older, by the reordering threshold, than one
still outstanding that is acknowledged, or nothing. An acknowledgement names packets
not yet acknowledged, and among them those declared lost before, whose bytes it takes
off a second time; the history variable `recounted` adds these up. With `Duplicates`
it also names packets already acknowledged.

**`AsyncLogging`** is the log with its two sides. A critical section is one action:
`Log` is `~Logger` and `append`, `Wait`, `WakeUp` and `Timeout` are the three ways
through `wait_for` to the swap of the buffers. What the thread does without the
mutex is divided where another thread may matter: `OpenLog`, `CheckRunning` (the
loop's condition, reading `running_`), `WriteOne` per buffer, and the refilling of
the spares. `Start`, `Stop` and `Join` are `rtc_log_init` and the two halves of the
destructor. Buffers are sequences of lines with their length in bytes, `Null` where
a `unique_ptr` owns nothing. **`LogFile`** is the file below it, with its backup.

**`Fifo`** is what both queues promise: items are accepted, pass directly if nothing
waits, are delivered from the front some at a time, and are thrown away only when the
queue is closed. Its history variable `accepted` is the list of the items handed over,
which each implementation maps to what the other side gave it, so that an item lost,
changed or made up before the queue is no step of `Fifo`. `BbrSender` implements it with
`accepted <- submitted`, `pending <- pkts_buffer` and `delivered <- transmitted`, never
closed; `AsyncLogging` with the lines logged as accepted, those of `buffers_to_write`,
`buffers` and `cur_buffer` as pending, the lines given to the file as delivered, and
open while the logger exists. For the log the fair specification is implemented: while
something waits, something is delivered.

Each component's theorems are in the module named after it with `Proofs`. Sums of
bytes are folds of the community modules over a set of packets or a sequence of
lines; what the proofs need to know about them is in **`SumTheorems`**. The modules
that have theorems, or are reached by them, contain no recursive operator.

## 3. What is checked

Passing runs:

| Run | Shows | States |
|---|---|---|
| `cycle` | From the first events of a connection, some without a usable sample, through whole probing cycles with losses, app-limited samples and both outcomes of the overflow: every mode and phase finds its preconditions on entry; the loop over modes never runs out of its budget; the bandwidth filter advances once a cycle; `inflight_hi` is cut at most once per probe; the gains are the last mode's; the pacing rate is zero, which fails the assert of `bbr_algorithm.cpp:80`, only when a positive estimate is too small for its product with the gain (1 or 2 bits per tick in DRAIN, 1 in Down); STARTUP lowers neither rate nor window. | 1.3 million |
| `probe_rtt` | Each visit of PROBE_RTT lasts more than its duration from the tick at which inflight is seen at the target, and visits are a min-rtt window apart. The two switches of `Bbrparams` are set the other way than in `cycle`. | 5.7 million |
| `utilities` | The filter, for every sequence of samples and pauses: estimates are in order, none is outside the window, and each is the largest sample since its own round. The unwrapper: a disordered stream is restored (`StreamRestored`), for narrow and wide types. | 1.2 million |
| `logging` | Six lines, empty or as long as the stream allows, two starts of the logger: no assert fails and no notification is lost, the file and its backup are the last lines and more than `RollSize` bytes of them, the log is a queue (`LogIsFifo`, the refinement), what is in the buffers while the thread waits is written even if the logger is stopped, and the destructor returns. | 215 thousand |
| `sampler` | Three packets lost, reordered, neutered, forgotten, acknowledged together or apart, with and without retransmission, in and out of app-limited phases: counters consistent, candidates ordered and never trimmed too far, ack intervals positive, inflight samples exact, app-limited packets marked, a round takes a round trip. A sender paced at one packet per two ticks measures no more than that, in whatever bursts its acks come: `CompressedAck` of the tests, for every schedule of four packets. | 3.1 million |
| `sender` | Five packets of two sizes, lost and acknowledged, late acknowledgements of lost packets among them: bytes in flight are those of the outstanding packets less exactly what late acknowledgements take off again, the sender is a queue (`QueueIsFifo`, the refinement), no packet waits while the window is open, history complete, and every packet handed over is sent in the end unless a late acknowledgement has upset the count. | 58 thousand |

Runs in which TLC finds what the code does, against what its comments or asserts
say (each is a finding of `PROJECT.json`, with the quotation):

| Run | Shows |
|---|---|
| `bdp_units` | `bdp` is in bits; PROBE_RTT ends its drain at four bandwidth-delay products instead of one half. |
| `full_bw` | A growing round resets the count of flat rounds and is counted as flat. |
| `loss_exit` | The loss counters are not reset at the end of a round. |
| `obsolete` | `remove_obsolete_pkts` removes nothing when all is obsolete. |
| `sender_duplicates` | A repeated acknowledgement is subtracted twice and fails the assert of `bbr_sender.cpp:60`. A late one of a packet declared lost does the same when little else is in flight; `sender` allows it, and `InflightExact` counts what it takes off. |
| `sender_fake_trunks` | An acknowledgement of a number never sent is reported to BBR as a default packet. |

Some properties of passing runs are true only of the environment the run names,
and false beyond it: in a scenario with `duplicates` a repeated acknowledgement breaks
`InflightSampleExact` and `AckIntervalPositive` of the sampler; with
`FirstPacket = TrunkSize` the first position behind the last trunk is not
allocated and `HistoryHoldsUnacked` fails (`circular_buffer.h:111` compares with
`>`); a loss verdict on the acknowledgement of an unknown packet would break
`QueueWaitsForWindow` through the early return of `bbr_sender.cpp:56-59`. STARTUP's
unset baseline is infinite (`bbr_startup.h:53`) and its product with the threshold
overflows: both results of the comparison are choices of the model, and where the
machine's cast saturates no round ever counts as growing. Lines appended to the log
after the thread's last swap are lost: `Join` throws them away, although the comment
of `async_logging.cpp:55` has the thread clean up at intervals and when the data is
full; `AwaitedLinesWritten` says which lines cannot be lost.

**Bounds and why they are enough.** The algorithm's instances use segments of one byte,
a round trip of one or two ticks, and the gains and percentages of `Bbrparams`; timers,
round counts and loss counts are scaled down so that a cycle Down, Cruise, Refill, Up,
Down and the next PROBE_RTT fit into the bounded time. `MaxTime`, `MaxRounds` and
`MaxLossEvents` close the state space: 13 ticks hold two visits of PROBE_RTT in the
window of `dwellParams`; four rounds hold a cycle; `MaxRounds = 6` holds three growing
rounds and the three that end STARTUP. `MaxProbeUpRounds = 2` stands for the code's cap
of 30 on the shift. `Infinity` is larger than any amount that arises. Events that bring
losses only are in `probe_rtt`, events with losses and acknowledgements in both. In
`Sampling`, three packets are the least with one before, one in and one after whatever
happens to the middle one: an a0 candidate made by the first is needed by the last after
the second was acknowledged out of order, lost or neutered. `WindowLength = 5` lets the
filter's quarter and half window rules apply separately, and its clock runs to nearly
twice the window. The unwrapper's sixteen values and numbers to 48 let a stream cross
the end of the range three times in each direction. In `BbrSender` the trunks are two
cells long. `emplace` inserts, so the first trunk grows with every packet and a sender
whose numbers begin below `TrunkSize` never leaves it; five packets outgrow its first
length and that of both first trunks together. Sizes 1 and 2 against windows 1 and 3
close and open the window for one packet and for several. Five packets also let one
event lose two or acknowledge three, and a packet declared lost be acknowledged late,
with bytes still in flight and without. `SizeModulus = 64` is the width of the counter
and lies above what the packets sum to, so that a wrap can come only from a wrong
subtraction. In `AsyncLogging` a stream holds two bytes, a buffer four and the file four
before it rolls; the texts are empty or two bytes. A line of two bytes has lost its
newline, one of one byte is the newline alone; a buffer takes one to three lines, so six
of them use up the current, the next and a third buffer during one turn of the thread,
with some left for the turn after and for a second start.

**Deadlock.** `CHECK_DEADLOCK FALSE` is set for the utilities, the sampler, the sender
and the log: their clocks, packets and starts are bounded, and once all packets are
sent, or the last logger is destroyed, nothing is left to do. That the log's thread is
never stuck is what `StopReturns` and the fair refinement say. The algorithm's runs
check deadlock: an event can always come.

**Fairness.** `sender` and `logging` assume some. In `sender`, for `QueueDrains`, weak
fairness of `DrainOne` and
`DrainDone` is the loop of `check_after_acked` running to its end. Strong
fairness of the acknowledgement of each packet awaited says that every packet
sent is acknowledged in the end, however many other acknowledgements are handled
before. The code needs it: the loss detector reports nothing and there is no
timer, so a packet whose acknowledgement never comes occupies the window for ever.
Under that assumption the window is opened again and again, and the run shows
that each handler passes it on to the queue. `QueueDrains` promises nothing once
bytes have been counted again: `bytes_inflight_` may then have wrapped, and the
window never opens. In `logging`, weak fairness of each of
the thread's steps says that the operating system schedules it, that it gets
`mutex_` in the end, and that the three seconds of `wait_for` pass; weak fairness of
`Join` that `join` returns when the thread has ended. Nothing is assumed of `WakeUp`,
since a notification is never needed for progress, nor of those who log or stop.

## 4. What is proved

A run shows a property on one small instance, a theorem for every value of the
constants. The constants' assumptions are the named ones beside their declaration;
a theorem that needs more says so as a hypothesis of its own.

### The algorithm (`BbrProofs`, `BbrHistoryProofs`)

For every `params` of the right type, every set of events and time steps, and any
number of rounds:

| Theorem | Says | Hypotheses |
|---|---|---|
| `TypeCorrect` | `Spec => []TypeOK` | |
| `ModeBudget` | four changes of mode suffice for any event | |
| `ProbeSamples` | samples count as probing only in Up and the first round of the next Down | |
| `LowerBoundsClear` | the short-term bounds are unset in Refill and Up | |
| `Resumable` | PROBE_RTT interrupts PROBE_BW only in Cruise and Refill | |
| `CyclesAdvance` | a cycle past Down has advanced the bandwidth filter | |
| `OncePerCycle` | and not a second time before the next Down | |
| `GainsFollowMode` | between events the gains are those of mode and phase | |
| `OneCut` | after STARTUP, a probe cuts `inflight_hi` at most once | |
| `StartupKeepsPace` | STARTUP lowers neither window nor rate | `WindowsFinite` |
| `ZeroRateIsRounding` | the assert on the pacing rate fails only for a positive estimate cut off to zero by its gain | `ShortRtts` |
| `PacingStaysPositive` | the assert holds where no sample is that small | and `LeastSample`, `GainsKeep` |
| `VisitsDwell` | a visit of PROBE_RTT lasts more than its duration from the tick that saw inflight drained | |
| `VisitsSpaced` | two entries are a min-rtt window apart | |

`BbrModel` and `BbrAlgorithm` assume that the gains are natural numbers, divisors
and timers are positive, events have their type, and the initial window and rtt are
positive. `WindowsFinite` says that the least windows are not above `Infinity`, the
largest value of `size_t`. `ShortRtts` bounds the rtt by 8 ticks per
byte of the least window: beyond it a window per rtt is less than one bit per tick,
which is cut off to no rate; with the code's rates in bits per second that is an rtt of
hours. `LeastSample(least)` says that no positive sample is below `least`, and
`GainsKeep(least)` that every gain makes at least one unit of rate of it. With the gains
of `Bbrparams` 3 bits per second are enough; 1 and 2 are not, and the code has
nothing that keeps such samples out.

*Types and budget.* Types alone are inductive. That the budget
suffices is not: four changes might be spent in a circle. `BudgetInv` says how much
is left when each mode's turn comes: STARTUP runs first or not at all, DRAIN after
at most one change, PROBE_BW after at most two, and PROBE_RTT either first or with
its exit time unset. A PROBE_RTT that has just been entered stays, since its
exit time is unset; so no circle is closed within an event.

*Phases.* `PhaseInv`, with the first as hypothesis, ties the phase to
the mode (`NotStarted` until PROBE_BW is first entered), the probing flag and
`has_advanced_max_bw` to the phase (`CycleInv`), and states which phases can be
interrupted. The lemmas follow the code: one for each `enter` of a phase,
one for each phase handler, one for each mode's turn, and `PhaseNext` puts them
together.

*Gains.* In the middle of the loop the gains may be the last mode's: DRAIN and PROBE_BW
set theirs when their handlers run. `GainsInv` therefore asks for a match only behind
the loop, and always in PROBE_RTT, which sets its gains on entry and is the mode whose
handler does not set them again. That the loop is left only by a handler that keeps
its mode is the budget theorem.

*STARTUP.* The short-term bounds are unset and full bandwidth is not reached
(`StartupInv`); so the window is limited by nothing that shrinks, and the rate only
follows a larger bandwidth.

*Cuts.* `CutOutcome`: a step that lowers `inflight_hi` finds the probing flag set and
clears it, unless it is STARTUP's loss exit. It is shown of each phase handler; by
`ProbeSamples` the flag is set again only when the next probe starts.

*Pace.* The update keeps the rate when there is no estimate, so a zero rate could
stay behind if an estimate were ever lost. `EstimateInv` says why none is: what is in
the filter is in `latest_max_bw` too, the filter advances only when its newer slot can
take the place of the older, and a loss lowers `bw_lo` to no less than that latest
maximum. `PaceInv` adds that a zero rate goes with a positive estimate, a window that is
at least one of the two least ones, and the bound on every rtt that can become the
minimum. With a least sample, `EstimateInv` keeps every nonzero bandwidth at or above
it, and the gain of the mode (`GainsFollowMode`) keeps a unit of rate.

*Visits.* `VisitInv` says that an exit time is at least `probe_rtt_duration` after the
tick at which this visit saw inflight drained, and
that the minimum rtt has been sampled since the entry, whichever sample it was.

### Sampler and round counter (`SamplingProofs`)

For any packets, sizes, clocks, rates and scenarios, losses, repeated
acknowledgements, neutered and forgotten packets among them:

| Theorem | Says | Hypotheses |
|---|---|---|
| `SamplingTypeCorrect` | `Spec => []TypeOK` | |
| `CountersNeverWrap` | no recorded count is ahead of the current one | |
| `CandidatesInOrder` | the a0 candidates are in order of time and bytes | |
| `TrimmingIsSafe` | `choose_a0` never erases a candidate still needed | |
| `AppLimitedMarked` | an app-limited sampler has marked every packet since | |
| `RoundTrips` | a round ends only with a packet sent in it | |
| `AckIntervals` | the assert `a0.ack_time < ack_time` holds | `NoDuplicates` |
| `InflightSamples` | the inflight sample is what was acked during the flight | `NoDuplicates` |
| `PaceIsKept` | a paced sender measures no more than its pace | and `PacedInOrder`, `SizesBounded` |

`SamplingInv` has, beside types and numbering, `Counted` (every tracked packet's
counts are below the present ones, and rise with the packets), `Points` (the two
recent points are in order, the candidates in order before them, and there is a
candidate whenever a packet could look for one) and `Timed`. `choose_a0` trims what
lies before the candidate it found; a packet sent later has recorded no fewer bytes,
so by `Counted` it needs none of these. The bytes in flight are a sum over a set:
that subtracting acknowledged and lost packets never wraps is `InFlightCounted` with
the lemmas of `SumTheorems`. Under `NoDuplicates` (the network acknowledges a packet
once, as in both scenarios of the run), `AckInv` adds that the
packets being processed are no longer outstanding, and `Dated`: a point whose count
a packet could find is no younger than the packet. With it and a round trip of at
least one tick the interval is positive. This is where a repeated acknowledgement
goes wrong: its packet was sent before points that count less.

`PaceInv` is about a sender that keeps a gap between two packets. Each pair of a
byte count and a time that a packet records, and the next packet will, lies on or
below the line of one largest packet per gap, and so does the difference of any two of
them (`PointsPaced`); a send rate is such a difference. A packet sent after a quiet
period has no send rate (`Lone`) and is measured by its ack rate alone, which a burst
of acknowledgements could raise; but it is the next to be acknowledged, nothing was
acknowledged since it was sent, and the candidate it finds is no younger
(`LonesFirst`, with `Dated`), so the rate counts its own bytes over a round trip. This
is what `PacedInOrder` is for: with a gap, acknowledgements come in order and a round
trip is no shorter than the gap, as in the scenario `Paced` of the run. `SizesBounded`
says that there is a largest packet.

### Windowed filter (`WindowedFilterProofs`)

`FilterTypeCorrect`, `FilterCurrent`, `FilterRanked` and `FilterLargest`, for every
window, every set of samples and every pause. The four properties, with the fact that
what was taken lies in the window, are inductive together and none is alone: a
promoted estimate is in the window because the three are ranked in time and a third
one too old resets all, and it is the largest since its round because it was so
before it moved up.

### Sender (`BbrSenderProofs`)

For any number of packets, sizes, windows and trunks:

| Theorem | Says | Hypotheses |
|---|---|---|
| `SenderTypeCorrect` | `Spec => []TypeOK` | `StartsInFirstTrunk` |
| `QueueWaits` | a packet waits only behind a closed window | `StartsInFirstTrunk` |
| `HistoryComplete` | every outstanding packet is found under its number | `StartsInFirstTrunk` |
| `SenderImplementsQueue` | `Spec => QueueIsFifo`, the refinement of `Fifo` | `StartsInFirstTrunk` |
| `BytesInflightExact` | `bytes_inflight_` is the outstanding packets' size less what was counted again | and `WindowsFit`, no `FakeTrunks` |

`StartsInFirstTrunk` says that the first number lies in the first trunk, which is what
the code does for a connection that numbers from zero; without it the history fails
(section 3). `WindowsFit` says that a window and a packet fit a `size_t`. `SenderInv`
describes the history exactly (`FrontHolds`): the first trunk is its default cells with
the packets sent inserted at their numbers, the second has default cells only. That
`InsertAt` keeps this form needs the numbers to come without a gap (`Numbered`), which
the queue's order provides. The refinement maps each handler to `Fifo`'s accept, pass,
deliver or a stutter. The last theorem is a sum again, and holds for late and repeated
acknowledgements too: modulo the width of a `size_t` it equates the counter with the
outstanding bytes less `recounted`, and until something is counted again no assert
fails. `FakeTrunks` are the acknowledgements it leaves out, shown by a run of their own.

### Log (`AsyncLoggingProofs`)

For buffers and files of every size, every set of texts, and any number of lines
and starts:

| Theorem | Says |
|---|---|
| `TypeCorrect` | `Spec => []TypeOK`: in particular `append` always finds a current buffer |
| `SparesSuffice` | `AssertsHold`: no assert of `thread_pro` fails |
| `FullBufferWakes` | `NoLostWakeUp`: the thread is blocked before a full buffer only if it has been notified |
| `RollingLeavesNoGap` | `NoGap`: backup and log are the last lines written, in order |
| `RecentLinesStay` | `RecentLinesKept`: they are also enough, and not too many |
| `LogImplementsQueue` | `Spec => Queue!Spec`: the log implements `Fifo`, without its fairness |

The assumptions are `LoggingAssumption` (a stream's buffer is smaller than a buffer
of the log, as `kSmallBuffer` and `kLargeBuffer` are) and `LogFileAssumption`.
The invariant behind the first three is `SparesInv`. The asserts at the head of the
loop need both spares to be there, those at its end need enough written buffers to
take them back from. The link is `Owed`: while the thread writes, a missing second
spare means that the next buffer had been used up when the buffers were swapped, and
then a full one came along with the current one, so there are at least two.
`FullOneBehind` carries that to the moment of the swap: the next buffer is missing
only if a full one is queued.

`RecentLinesStay` counts: every buffer's length is the bytes of its lines
(`BuffersCounted`), so a file that is rolled when `written_bytes_` passes `RollSize`
holds more than `RollSize` bytes and at most a buffer more (`FilesBounded`), and
either that or everything since the opening is kept (`EnoughKept`).

For `LogImplementsQueue` the pending lines are what `buffers_to_write`, the full
buffers and the current one hold, read one after the other (`FlattenSeq`).
`WritesInOrder` says what of it is not empty at which point of the thread; then a swap
of buffers leaves the concatenation as it is, an append adds at its end and a write
takes its first part.

### Unwrapper (`UnwrapperProofs`)

`StreamIsRestored`, for every even range, promoted to `int` or not, and streams of any
length. `RestoredInv` adds to `StreamRestored` that what the stream has lost is a
number of whole ranges, so that the last value and the number behind it are cut to
the same; the rest is arithmetic modulo the range, by cases on which of the two is
ahead.

### Folds

The models sum with `MapThenSumSet`, `FoldSeq` and `FlattenSeq`, which the community
modules define by a recursive function on subsets or lengths. That such a function
exists and what it yields is proved without an induction theorem of the library,
from the fact that a set of natural numbers that is not empty has a least element
(`LeastNumber` in `SumTheorems`): a statement that fails somewhere fails at a smallest
subset or a shortest sequence, which the definition unfolds once.

### What the proofs corrected

- An earlier property of the filter, that the best estimate covers every sample of
  the newer part of the window, holds for three sample values and fails for four; it is
  replaced by `LargestSince`, which is inductive.
- `extra_acked` is zero when an event acknowledges nothing new, whatever the ack
  height tracker did before; the model had left it over.
- `AckHeightThreshold` must be positive, as 2.0 is: with zero, an epoch could go on
  with fewer bytes than expected, and the unsigned difference of the two would wrap.
- `Range` of the unwrapper need only be even and positive.

### What is only model-checked

- Liveness under fairness, beyond the prover: `QueueDrains`, `AwaitedLinesWritten`,
  `StopReturns`, and the fairness of `Fifo` in `LogIsFifo`.
- The properties of the violation runs, which do not hold.

## 5. What is not modelled

- `Random`: its draws are nondeterministic choices of the cycle's timers; the
  generator has no state that others see. (`random.h` promises a range without its
  upper end, which the division by the largest value does not keep.)
- `on_exit_quiescence` of all modes: `last_quiescence_start_` is never set to a
  valid time, so the call always returns at its first test.
- `CircularBuffer::erase` and rotation: no caller; `rotate_` is never set, and `get`
  does not look at what `erase` marks.
- The arithmetic of `TimeDelta`, `Timestamp` and `BitRate` in doubles: the model
  computes in integers and cuts off where the code does, after a product with a gain
  and after a quotient, but not what a double loses on the way there. Literals,
  formatting and `num_ack_aggregation_epochs_`, which no property reads. What the
  infinite defaults do is in the modules that meet them.
- Several acknowledged ranges that overlap in one call of `on_pkts_ack`: `OnPktsAck`
  takes the numbers of all its trunks as one set, which is the same for trunks that do
  not overlap; an overlap would acknowledge a packet twice within the call.
- `CircularBuffer::get` past the end of a shorter second trunk, which the first trunk's
  growth can make it compute: `circular_buffer.h:67` indexes the vector out of bounds.
  Only numbers never sent reach it. `Get` gives one of the outcomes, no cell; nothing
  is claimed of the others.
- A socket that refuses a packet: the sender ignores the result.
- Log levels and the formatting of `LogStream`, but for the cut at its size.
- A log file that cannot be written, renamed or opened (`log_file.cpp:63` counts
  bytes that a failed `fwrite` did not store); an empty path, for which the log and
  its backup are the same file (`log_file.cpp:100`).
- A second `rtc_log_init` while a logger exists (`logger.cpp:36`), and logging after
  `rtc_log_uinit`, whose output stays bound to the destroyed logger
  (`logger.cpp:43`): the model's callers do neither.
- `running_` is a plain `bool` read without the mutex. A stale read is the same as
  a later store, which the interleavings of `Stop` include.
- Loss verdicts on the acknowledgement of an unknown packet: the early return of
  `bbr_sender.cpp:56-59` would drop them, but no detector exists that gives them.

## 6. The plan

Done, in this order: the algorithm with its modes, its proofs, the filter, the
sampler with its rounds, the sender with its history, the log with its file and its
proofs, the unwrapper, the queue as an abstract specification of sender and log;
and the proofs of filter, sampler, sender, unwrapper, of what the algorithm does
over several events, and of the log as a queue.

Next:

1. Sender, sampler and algorithm composed, so that `can_send` is the algorithm's and
   the sampler's counters are the sender's packets.
2. `CircularBuffer` with `erase` and rotation, against an abstract map from keys to
   values, once something calls them.
