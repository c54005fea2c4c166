------------------------------ MODULE BbrModel ------------------------------
(***************************************************************************)
(* The network path model of BBR (bbr_model.h, bbr_model.cpp): the state   *)
(* BbrModel keeps about the path, what one congestion event does to it     *)
(* before the mode handlers run, and the helpers those handlers call.      *)
(*                                                                         *)
(* Amounts are natural numbers: bytes in a small unit, time in ticks,      *)
(* bandwidth in bits per tick (BitRate; a bit is an eighth of that unit),  *)
(* gains and fractions in percent.  Infinity stands for every "not set"    *)
(* value of the code: size_t max of the inflight bounds, +infinity of      *)
(* BandWidth, Timestamp and TimeDelta.  It exceeds every real amount, so   *)
(* min, max and < need no special case.                                    *)
(***************************************************************************)
EXTENDS Integers

CONSTANTS
  params,               \* struct Bbrparams, by field name
  Infinity,             \* the unset value of sizes, rates and times
  EventInputs,          \* what one event's acks and losses sample to
  TimeSteps,            \* ticks that can pass between two events
  InitMinRtt,           \* constructor argument init_min_rtt
  InitMinRttTimestamps, \* choices of init_min_rtt_timestamp
  InitCwnd,             \* BbrAlgorithm::init_cwnd_
  MaxTime,              \* bound: no event after this tick
  MaxRounds,            \* bound: rounds counted since the last probe
  MaxLossEvents         \* bound: loss events counted before a restart_round

(* The fields of Bbrparams the algorithm reads, floats as percentages.     *)
ParamsType ==
  [ beta : 0..100, ignore_inflight_lo : BOOLEAN,
    startup_full_bw_threshold : Nat, startup_full_bw_rounds : Nat,
    startup_full_loss_count : Nat, probe_bw_full_loss_count : Nat,
    loss_threshold : Nat,
    startup_cwnd_gain : Nat, startup_pacing_gain : Nat,
    drain_cwnd_gain : Nat, drain_pacing_gain : Nat,
    probe_bw_cwnd_gain : Nat, probe_bw_probe_inflight_gain : Nat,
    probe_bw_probe_up_pacing_gain : Nat, probe_bw_probe_down_pacing_gain : Nat,
    probe_bw_default_pacing_gain : Nat,
    bw_probe_rand_rounds : Nat \ {0}, bbr_bw_probe_base_us : Nat,
    bbr_bw_probe_rand_us : Nat \ {0}, limit_inflight_hi_by_cwnd : BOOLEAN,
    inflight_hi_headroom_fraction : 0..100, min_rtt_win : Nat,
    kDefaultTCPMSS : Nat \ {0}, probe_bw_probe_max_rounds : Nat,
    probe_bw_probe_reno_gain : Nat, probe_rtt_duration : Nat,
    probe_rtt_inflight_target_bdp_fraction : Nat, min_cwnd : Nat \ {0} ]

(* One congestion event as BbrCongestionEvent holds it once the sampler    *)
(* and the round counter have run.  sample_min_rtt is Infinity when there  *)
(* is no valid sample; is_valid, is_app_limited and inflight_at_send       *)
(* describe last_packet_send_state.                                        *)
EventType ==
  [ prior_bytes_in_flight : Nat, bytes_acked : Nat, bytes_lost : Nat,
    end_of_round_trip : BOOLEAN,
    sample_max_bandwidth : Nat, sample_is_app_limited : BOOLEAN,
    sample_min_rtt : Nat \ {0}, sample_max_inflight : Nat,
    is_valid : BOOLEAN, is_app_limited : BOOLEAN, inflight_at_send : Nat,
    max_ack_height : Nat ]

ASSUME ParamsAssumption == params \in ParamsType
ASSUME InputAssumption ==
  /\ EventInputs \subseteq EventType
  /\ TimeSteps \subseteq Nat
ASSUME InitAssumption ==
  /\ Infinity \in Nat \ {0}
  /\ InitMinRtt \in Nat \ {0}
  /\ InitMinRttTimestamps \subseteq Nat
  /\ InitCwnd \in Nat \ {0}
ASSUME BoundAssumption ==
  /\ MaxTime \in Nat
  /\ MaxRounds \in Nat
  /\ MaxLossEvents \in Nat

VARIABLES
  now,                 \* the clock the events are stamped with
  ev,                  \* the BbrCongestionEvent being handled
  cwnd,                \* BbrAlgorithm::cur_cwnd_
  pacing_gain, cwnd_gain,
  min_rtt, min_rtt_timestamp,
  max_bw,              \* MaxBandwidthFilter::max_bw_[2]
  bytes_lost_in_round, lost_event_in_round,
  latest_max_bw, latest_max_inflight,
  bw_lo, inflight_lo, inflight_hi

gainVars  == <<pacing_gain, cwnd_gain>>
rttVars   == <<min_rtt, min_rtt_timestamp>>
lossVars  == <<bytes_lost_in_round, lost_event_in_round>>
loVars    == <<bw_lo, inflight_lo>>
modelVars == <<gainVars, rttVars, max_bw, lossVars, latest_max_bw,
               latest_max_inflight, loVars, inflight_hi>>

-----------------------------------------------------------------------------
Larger(a, b)  == IF a >= b THEN a ELSE b
Smaller(a, b) == IF a <= b THEN a ELSE b
Pct(x, p)     == (x * p) \div 100

(* MaxBandwidthFilter *)
FilterUpdate(f, bw) == [f EXCEPT ![1] = Larger(bw, f[1])]
FilterAdvance(f) ==
  IF f[1] = 0 THEN f ELSE [i \in 0..1 |-> IF i = 0 THEN f[1] ELSE 0]
FilterGet(f) == Larger(f[0], f[1])

estimated_bw(f) == Smaller(FilterGet(f), bw_lo)

(* A rate times a duration counts bits (time/interval.h:142-148), and bdp  *)
(* returns that number: its callers take it for bytes.                     *)
BitsPerByte   == 8
bdp(bw, gain) == Pct(bw * min_rtt, gain)

(* BbrAlgorithm::target_inflight is declared but not defined here; in the  *)
(* algorithm this code follows it is the smaller of bdp and cwnd.          *)
target_inflight(f) == Smaller(bdp(estimated_bw(f), 100), cwnd)

(* last_sample_is_app_limited keeps its default without a valid state.     *)
LastSampleAppLimited == ev.is_valid /\ ev.is_app_limited

Outstanding(e) ==
  IF e.prior_bytes_in_flight >= e.bytes_acked + e.bytes_lost
    THEN e.prior_bytes_in_flight - e.bytes_acked - e.bytes_lost ELSE 0
BytesInFlight == Outstanding(ev)

is_inflight_too_high ==
  /\ ev.is_valid
  /\ ev.inflight_at_send > 0
  /\ bytes_lost_in_round > 0
  /\ bytes_lost_in_round > Pct(ev.inflight_at_send, params.loss_threshold)

inflight_hi_with_headroom(hi) ==
  hi - Pct(hi, params.inflight_hi_headroom_fraction)

(* prior_cwnd is cwnd: it changes only after the last handler has run.     *)
cwnd_limited == BytesInFlight + ev.bytes_acked + ev.bytes_lost >= cwnd

CapInflightLo(lo, cap) ==
  IF params.ignore_inflight_lo \/ lo = Infinity THEN lo ELSE Smaller(lo, cap)

MinRttExpired ==
  /\ min_rtt_timestamp # Infinity
  /\ now >= min_rtt_timestamp + params.min_rtt_win
  /\ ev.sample_min_rtt # Infinity

(* Mutant: keeps the old timestamp. *)
ForceUpdateKeepsTimestamp ==
  /\ min_rtt' = ev.sample_min_rtt
  /\ UNCHANGED min_rtt_timestamp

ForceUpdateMinRtt ==
  /\ min_rtt' = ev.sample_min_rtt
  /\ min_rtt_timestamp' = now

(* restart_round: the round counter it also restarts decides when an event *)
(* has end_of_round_trip, which EventInputs leaves open.                   *)
RestartRound ==
  /\ bytes_lost_in_round' = 0
  /\ lost_event_in_round' = 0

-----------------------------------------------------------------------------
(* adapt_lower_bounds: what a loss at the end of a round that is not       *)
(* probing does to the short-term bounds (f: filter, bw and infl: the      *)
(* round's latest maxima, all after this event's update).                  *)
AdaptLowerBounds(e, f, bw, infl, is_probing) ==
  IF ~e.end_of_round_trip \/ is_probing \/ e.bytes_lost = 0
  THEN UNCHANGED loVars
  ELSE LET keep  == 100 - params.beta
           bwlo0 == IF bw_lo = Infinity THEN FilterGet(f) ELSE bw_lo
           lo0   == IF inflight_lo = Infinity THEN cwnd ELSE inflight_lo
       IN /\ bw_lo' = Larger(bw, Pct(bwlo0, keep))
          /\ inflight_lo' = IF params.ignore_inflight_lo THEN inflight_lo
                            ELSE Larger(infl, Pct(lo0, keep))

MinRttUpdate(e, t) ==
  IF e.sample_min_rtt # Infinity
     /\ (e.sample_min_rtt < min_rtt \/ min_rtt_timestamp = Infinity)
  THEN min_rtt' = e.sample_min_rtt /\ min_rtt_timestamp' = t
  ELSE UNCHANGED rttVars

(* BbrModel::on_congestion_event for the event e at tick t.                *)
ModelOnCongestionEvent(e, t, is_probing) ==
  LET updates == e.bytes_acked > 0
                 /\ (~e.sample_is_app_limited
                     \/ e.sample_max_bandwidth > FilterGet(max_bw))
      f    == IF updates THEN FilterUpdate(max_bw, e.sample_max_bandwidth)
              ELSE max_bw
      bw   == Larger(latest_max_bw, e.sample_max_bandwidth)
      infl == Larger(latest_max_inflight, e.sample_max_inflight)
  IN /\ max_bw' = f
     /\ MinRttUpdate(e, t)
     /\ bytes_lost_in_round' = bytes_lost_in_round + e.bytes_lost
     /\ lost_event_in_round' =
          lost_event_in_round + (IF e.bytes_lost > 0 THEN 1 ELSE 0)
     /\ AdaptLowerBounds(e, f, bw, infl, is_probing)
     /\ latest_max_bw' =
          IF e.end_of_round_trip /\ e.sample_max_bandwidth > 0
            THEN e.sample_max_bandwidth ELSE bw
     /\ latest_max_inflight' =
          IF e.end_of_round_trip /\ e.sample_max_inflight > 0
            THEN e.sample_max_inflight ELSE infl
     /\ UNCHANGED <<gainVars, inflight_hi>>

NoEvent ==
  [ prior_bytes_in_flight |-> 0, bytes_acked |-> 0, bytes_lost |-> 0,
    end_of_round_trip |-> FALSE, sample_max_bandwidth |-> 0,
    sample_is_app_limited |-> FALSE, sample_min_rtt |-> Infinity,
    sample_max_inflight |-> 0, is_valid |-> FALSE, is_app_limited |-> FALSE,
    inflight_at_send |-> 0, max_ack_height |-> 0 ]

ModelInit ==
  /\ now = 0
  /\ ev = NoEvent
  /\ cwnd = InitCwnd
  /\ pacing_gain = params.startup_pacing_gain
  /\ cwnd_gain = params.startup_cwnd_gain
  /\ min_rtt = InitMinRtt
  /\ min_rtt_timestamp \in InitMinRttTimestamps
  /\ max_bw = [i \in 0..1 |-> 0]
  /\ bytes_lost_in_round = 0
  /\ lost_event_in_round = 0
  /\ latest_max_bw = 0
  /\ latest_max_inflight = 0
  /\ bw_lo = Infinity
  /\ inflight_lo = Infinity
  /\ inflight_hi = Infinity

ModelTypeOK ==
  /\ now \in Nat
  /\ ev \in EventType
  /\ cwnd \in Nat \ {0}
  /\ pacing_gain \in Nat
  /\ cwnd_gain \in Nat
  /\ min_rtt \in Nat \ {0}
  /\ min_rtt_timestamp \in Nat
  /\ max_bw \in [0..1 -> Nat]
  /\ bytes_lost_in_round \in Nat
  /\ lost_event_in_round \in Nat
  /\ latest_max_bw \in Nat
  /\ latest_max_inflight \in Nat
  /\ bw_lo \in Nat
  /\ inflight_lo \in Nat
  /\ inflight_hi \in Nat
=============================================================================
