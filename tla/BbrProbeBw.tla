----------------------------- MODULE BbrProbeBw -----------------------------
(***************************************************************************)
(* PROBE_BW (bbr_probe_bw.cpp): the cycle of phases                        *)
(*     Down -> Cruise -> Refill -> Up -> Down                              *)
(* and the bounds each phase adapts.  The code updates cycle_, the         *)
(* bandwidth filter and inflight_hi several times within one event, so the *)
(* operators here take the intermediate values as arguments: c a Cycle,    *)
(* f the filter, hi the value of inflight_hi.                              *)
(***************************************************************************)
EXTENDS BbrModel

CONSTANT MaxProbeUpRounds  \* 30 in the code, small for model checking

ASSUME ProbeUpAssumption ==
  /\ MaxProbeUpRounds \in 0..30
  /\ \A k \in 0..MaxProbeUpRounds : 2^k \in Nat \ {0}

VARIABLES
  cycle,
  last_cycle_probed_too_high,
  last_cycle_stopped_risky_probe

cycleVars == <<cycle, last_cycle_probed_too_high,
               last_cycle_stopped_risky_probe>>

Phases == {"NotStarted", "Up", "Down", "Cruise", "Refill"}

Cycle ==
  [ cycle_start_time : Nat, phase : Phases, rounds_in_phase : Nat,
    phase_start_time : Nat, rounds_since_probe : Nat, probe_wait_time : Nat,
    probe_up_rounds : 0..MaxProbeUpRounds, probe_up_bytes : Nat \ {0},
    probe_up_acked : Nat, has_advanced_max_bw : BOOLEAN,
    is_sample_from_probing : BOOLEAN ]

ProbeBwInit ==
  /\ cycle =
       [ cycle_start_time |-> 0, phase |-> "NotStarted",
         rounds_in_phase |-> 0, phase_start_time |-> 0,
         rounds_since_probe |-> 0, probe_wait_time |-> 0,
         probe_up_rounds |-> 0, probe_up_bytes |-> Infinity,
         probe_up_acked |-> 0, has_advanced_max_bw |-> FALSE,
         is_sample_from_probing |-> FALSE ]
  /\ last_cycle_probed_too_high = FALSE
  /\ last_cycle_stopped_risky_probe = FALSE

ProbeBwTypeOK ==
  /\ cycle \in Cycle
  /\ last_cycle_probed_too_high \in BOOLEAN
  /\ last_cycle_stopped_risky_probe \in BOOLEAN

is_probing == cycle.phase \in {"Refill", "Up"}

-----------------------------------------------------------------------------
(* maybe_adapt_upper_bounds and handle_inflight_too_high.                  *)

TooHigh == is_inflight_too_high
           /\ lost_event_in_round >= params.probe_bw_full_loss_count
ProbedTooHigh(c) == TooHigh /\ c.is_sample_from_probing

(* Mutant: keeps counting samples as probing after the cut. *)
AdaptedCycleKeepsProbing(c) == c

AdaptedCycle(c) ==
  IF ProbedTooHigh(c) THEN [c EXCEPT !.is_sample_from_probing = FALSE] ELSE c

AdaptedHi(c, f) ==
  LET keep   == 100 - params.beta
      target == IF params.limit_inflight_hi_by_cwnd THEN cwnd
                ELSE target_inflight(f)
  IN CASE ProbedTooHigh(c) -> IF ev.is_app_limited THEN inflight_hi
                              ELSE Larger(ev.inflight_at_send, Pct(target, keep))
       [] ev.is_valid /\ ~TooHigh -> Larger(inflight_hi, ev.inflight_at_send)
       [] OTHER -> inflight_hi

-----------------------------------------------------------------------------
(* Timers *)

TimeToProbeForReno(c, f) ==
  LET reno == Pct(target_inflight(f), params.probe_bw_probe_reno_gain)
                \div params.kDefaultTCPMSS
  IN c.rounds_since_probe >=
       IF params.probe_bw_probe_reno_gain > 0
         THEN Smaller(params.probe_bw_probe_max_rounds, reno)
         ELSE params.probe_bw_probe_max_rounds

is_time_to_probe_bw(c, f) ==
  \/ now - c.cycle_start_time > c.probe_wait_time
  \/ TimeToProbeForReno(c, f)

has_stayed_long_enough_in_probe_down(c) == now - c.cycle_start_time > min_rtt

-----------------------------------------------------------------------------
(* Entering a phase *)

StartPhase(c, p) ==
  [c EXCEPT !.phase = p, !.rounds_in_phase = 0, !.phase_start_time = now]

EnterProbeDown(c, probed_too_high, stopped_risky_probe) ==
  /\ \E r \in 0..params.bw_probe_rand_rounds - 1,
        w \in 0..params.bbr_bw_probe_rand_us - 1 :
       cycle' = [StartPhase(c, "Down") EXCEPT
                   !.cycle_start_time = now,
                   !.rounds_since_probe = r,
                   !.probe_wait_time = params.bbr_bw_probe_base_us + w,
                   !.probe_up_bytes = Infinity,
                   !.has_advanced_max_bw = FALSE]
  /\ last_cycle_probed_too_high' = probed_too_high
  /\ last_cycle_stopped_risky_probe' = stopped_risky_probe
  /\ RestartRound
  /\ UNCHANGED <<max_bw, loVars>>

(* exist_probe_down: called when phase Down is left, does the filter       *)
(* advance that phase still owes.                                          *)
OwesAdvance(c) == c.phase = "Down" /\ ~c.has_advanced_max_bw
(* Mutant: forgets that the filter advanced. *)
ExistProbeDownForgets(c) == c

ExistProbeDown(c) ==
  [c EXCEPT !.has_advanced_max_bw = c.has_advanced_max_bw \/ OwesAdvance(c)]
(* Mutant: advances again although the cycle has. *)
FilterAfterDownAlways(c, f) ==
  IF c.phase = "Down" THEN FilterAdvance(f) ELSE f

FilterAfterDown(c, f) == IF OwesAdvance(c) THEN FilterAdvance(f) ELSE f

(* Mutant: Cruise inherits the probing samples of a short Down. *)
EnterProbeCruiseKeepsSample(c, f, hi) ==
  /\ cycle' = StartPhase(ExistProbeDown(c), "Cruise")
  /\ max_bw' = FilterAfterDown(c, f)
  /\ inflight_lo' = CapInflightLo(inflight_lo, hi)
  /\ UNCHANGED <<bw_lo, lossVars, last_cycle_probed_too_high,
                 last_cycle_stopped_risky_probe>>

EnterProbeCruise(c, f, hi) ==
  /\ cycle' = [StartPhase(ExistProbeDown(c), "Cruise") EXCEPT
                 !.is_sample_from_probing = FALSE]
  /\ max_bw' = FilterAfterDown(c, f)
  /\ inflight_lo' = CapInflightLo(inflight_lo, hi)
  /\ UNCHANGED <<bw_lo, lossVars, last_cycle_probed_too_high,
                 last_cycle_stopped_risky_probe>>

(* clear_bw_lo and clear_inflight_lo, declared and not defined, unset.     *)
EnterProbeRefill(c, f, probe_up_rounds) ==
  /\ cycle' = [StartPhase(ExistProbeDown(c), "Refill") EXCEPT
                 !.is_sample_from_probing = FALSE,
                 !.probe_up_rounds = probe_up_rounds,
                 !.probe_up_acked = 0]
  /\ max_bw' = FilterAfterDown(c, f)
  /\ last_cycle_stopped_risky_probe' = FALSE
  /\ bw_lo' = Infinity
  /\ inflight_lo' = Infinity
  /\ RestartRound
  /\ UNCHANGED last_cycle_probed_too_high

(* Mutant: no cap on the exponent. *)
raise_inflight_hi_uncapped(c) ==
  [c EXCEPT !.probe_up_rounds = c.probe_up_rounds + 1,
            !.probe_up_bytes =
              Larger(cwnd \div 2^c.probe_up_rounds, params.kDefaultTCPMSS)]

raise_inflight_hi(c) ==
  [c EXCEPT !.probe_up_rounds =
              Smaller(c.probe_up_rounds + 1, MaxProbeUpRounds),
            !.probe_up_bytes =
              Larger(cwnd \div 2^c.probe_up_rounds, params.kDefaultTCPMSS)]

EnterProbeUp(c) ==
  /\ cycle' = raise_inflight_hi([StartPhase(c, "Up") EXCEPT
                                   !.is_sample_from_probing = TRUE])
  /\ RestartRound
  /\ UNCHANGED <<max_bw, loVars, last_cycle_probed_too_high,
                 last_cycle_stopped_risky_probe>>

StayInPhase(c, f) ==
  /\ cycle' = c
  /\ max_bw' = f
  /\ UNCHANGED <<lossVars, loVars, last_cycle_probed_too_high,
                 last_cycle_stopped_risky_probe>>

-----------------------------------------------------------------------------
(* The four update_probe_* handlers.  c is cycle with its rounds counted.  *)

UpdateProbeDown(c) ==
  LET sampled == c.rounds_in_phase = 1 /\ ev.end_of_round_trip
      advance == sampled /\ ~LastSampleAppLimited
      c1 == [c EXCEPT
               !.is_sample_from_probing = @ /\ ~sampled,
               !.has_advanced_max_bw = @ \/ advance]
      f1 == IF advance THEN FilterAdvance(max_bw) ELSE max_bw
      c2 == AdaptedCycle(c1)
      hi == AdaptedHi(c1, f1)
      drained == /\ ev.prior_bytes_in_flight <= inflight_hi_with_headroom(hi)
                 /\ ev.prior_bytes_in_flight < bdp(FilterGet(f1), 100)
  IN IF sampled /\ last_cycle_stopped_risky_probe /\ ~last_cycle_probed_too_high
     THEN EnterProbeRefill(c1, f1, 0) /\ UNCHANGED inflight_hi
     ELSE /\ inflight_hi' = hi
          /\ IF is_time_to_probe_bw(c2, f1) THEN EnterProbeRefill(c2, f1, 0)
             ELSE IF has_stayed_long_enough_in_probe_down(c2) \/ drained
             THEN EnterProbeCruise(c2, f1, hi)
             ELSE StayInPhase(c2, f1)

(* probe_inflight_high_upward: the grown bound and the cycle.              *)
GrowsHi(hi) == cwnd_limited /\ cwnd >= hi
HiUpward(c, hi) ==
  IF GrowsHi(hi)
  THEN hi + ((c.probe_up_acked + ev.bytes_acked) \div c.probe_up_bytes)
              * params.kDefaultTCPMSS
  ELSE hi
CycleUpward(c, hi) ==
  LET counted == [c EXCEPT !.probe_up_acked =
                    (@ + ev.bytes_acked) % c.probe_up_bytes]
  IN IF ~GrowsHi(hi) THEN c
     ELSE IF ev.end_of_round_trip THEN raise_inflight_hi(counted) ELSE counted

UpdateProbeUp(c) ==
  LET hi  == AdaptedHi(c, max_bw)
      hi1 == HiUpward(c, hi)
      c1  == CycleUpward(c, hi)
      risky == last_cycle_probed_too_high /\ ev.prior_bytes_in_flight >= hi1
      queuing == /\ c.rounds_in_phase > 0
                 /\ ev.prior_bytes_in_flight >=
                      bdp(FilterGet(max_bw), params.probe_bw_probe_inflight_gain)
                        + 2 * params.kDefaultTCPMSS
  IN IF ProbedTooHigh(c)
     THEN inflight_hi' = hi /\ EnterProbeDown(AdaptedCycle(c), TRUE, FALSE)
     ELSE /\ inflight_hi' = hi1
          /\ IF risky \/ queuing THEN EnterProbeDown(c1, FALSE, risky)
             ELSE StayInPhase(c1, max_bw)

UpdateProbeCruise(c) ==
  LET c1 == AdaptedCycle(c)
  IN /\ inflight_hi' = AdaptedHi(c, max_bw)
     /\ IF is_time_to_probe_bw(c1, max_bw) THEN EnterProbeRefill(c1, max_bw, 0)
        ELSE StayInPhase(c1, max_bw)

UpdateProbeRefill(c) ==
  LET c1 == AdaptedCycle(c)
  IN /\ inflight_hi' = AdaptedHi(c, max_bw)
     /\ IF c1.rounds_in_phase > 0 /\ ev.end_of_round_trip THEN EnterProbeUp(c1)
        ELSE StayInPhase(c1, max_bw)

-----------------------------------------------------------------------------
(* on_congestion_event: count the round, update the phase, then either     *)
(* leave for PROBE_RTT or set the gains of the phase reached.              *)

CountRounds(c) ==
  [c EXCEPT
     !.rounds_since_probe =
        IF ev.end_of_round_trip /\ c.cycle_start_time # now THEN @ + 1 ELSE @,
     !.rounds_in_phase =
        IF ev.end_of_round_trip /\ c.phase_start_time # now THEN @ + 1 ELSE @]

PhasePacingGain(phase) ==
  CASE phase = "Up"   -> params.probe_bw_probe_up_pacing_gain
    [] phase = "Down" -> params.probe_bw_probe_down_pacing_gain
    [] OTHER          -> params.probe_bw_default_pacing_gain

(* Mutant: takes the phase the event started in. *)
SetOldPhaseGains ==
  /\ pacing_gain' = PhasePacingGain(cycle.phase)
  /\ cwnd_gain' = params.probe_bw_cwnd_gain

SetPhaseGains ==
  /\ pacing_gain' = PhasePacingGain(cycle'.phase)
  /\ cwnd_gain' = params.probe_bw_cwnd_gain

(* Mutant: leaves for PROBE_RTT also when Down goes on. *)
ProbeBwDownAnyPhase(m) ==
  /\ cycle.phase = "Down"
  /\ UpdateProbeDown(CountRounds(cycle))
  /\ IF MinRttExpired
     THEN m = "PROBE_RTT" /\ ForceUpdateMinRtt
     ELSE m = "PROBE_BW" /\ SetPhaseGains /\ UNCHANGED rttVars

(* Phase Down, the only one that may expire the minimum rtt.               *)
ProbeBwDown(m) ==
  /\ cycle.phase = "Down"
  /\ UpdateProbeDown(CountRounds(cycle))
  /\ IF cycle'.phase # "Down" /\ MinRttExpired
     THEN m = "PROBE_RTT" /\ ForceUpdateMinRtt
     ELSE m = "PROBE_BW" /\ SetPhaseGains /\ UNCHANGED rttVars

(* The other phases.  PROBE_BW never runs before its first enter, so the   *)
(* switch of the code never sees phase NotStarted.                         *)
ProbeBwUp(m) ==
  /\ cycle.phase = "Up"
  /\ UpdateProbeUp(CountRounds(cycle))
  /\ m = "PROBE_BW" /\ SetPhaseGains /\ UNCHANGED rttVars

ProbeBwCruise(m) ==
  /\ cycle.phase = "Cruise"
  /\ UpdateProbeCruise(CountRounds(cycle))
  /\ m = "PROBE_BW" /\ SetPhaseGains /\ UNCHANGED rttVars

ProbeBwRefill(m) ==
  /\ cycle.phase = "Refill"
  /\ UpdateProbeRefill(CountRounds(cycle))
  /\ m = "PROBE_BW" /\ SetPhaseGains /\ UNCHANGED rttVars

(* enter *)
ProbeBwEnter ==
  LET c == [cycle EXCEPT !.cycle_start_time = now]
  IN CASE cycle.phase = "NotStarted" -> EnterProbeDown(cycle, FALSE, FALSE)
       [] cycle.phase = "Cruise" -> EnterProbeCruise(c, max_bw, inflight_hi)
       [] cycle.phase = "Refill" -> EnterProbeRefill(c, max_bw, c.probe_up_rounds)
       [] OTHER -> StayInPhase(c, max_bw)

ProbeBwCwndLimit ==
  Smaller(inflight_lo,
          IF cycle.phase = "Cruise" THEN inflight_hi_with_headroom(inflight_hi)
          ELSE inflight_hi)
=============================================================================
