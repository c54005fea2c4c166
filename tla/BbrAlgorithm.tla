---------------------------- MODULE BbrAlgorithm ----------------------------
(***************************************************************************)
(* BbrAlgorithm::on_congestion_event (bbr_algorithm.cpp): the model takes  *)
(* the event in, then the handler of the current mode runs, again after    *)
(* every mode change, until it keeps its mode or the budget of mode        *)
(* changes is spent; then the pacing rate and the window are updated.      *)
(*                                                                         *)
(* The object is single threaded.  pc splits the call at the mode loop:    *)
(* "idle" between events, "modes" at the head of the loop, "finish" behind *)
(* it.  BbrAlgorithm::on_packet_sent changes nothing of the state here: it *)
(* feeds the sampler and the round counter, whose results EventInputs      *)
(* stands for, and on_exit_quiescence always returns at its first test,    *)
(* because last_quiescence_start_ is only ever +infinity.                  *)
(***************************************************************************)
EXTENDS BbrStartup, BbrProbeBw, BbrProbeRtt

VARIABLES
  pc, cur_mode, mode_changes_allowed,
  pacing_rate,    \* in whole bits per tick
  acked_before    \* total_bytes_acked was positive before this event

algoVars == <<pc, cur_mode, mode_changes_allowed, pacing_rate, acked_before>>
vars == <<now, ev, cwnd, modelVars, startupVars, cycleVars, exit_time, algoVars>>

Modes == {"STARTUP", "DRAIN", "PROBE_BW", "PROBE_RTT"}
(* Mutant: room for two mode changes per event. *)
TwoModeChanges == 2
kMaxModeChanges == 4

Init ==
  /\ ModelInit
  /\ StartupInit
  /\ ProbeBwInit
  /\ ProbeRttInit
  /\ pc = "idle"
  /\ cur_mode = "STARTUP"
  /\ mode_changes_allowed = kMaxModeChanges
  /\ pacing_rate = Infinity
  /\ acked_before = FALSE

(* Mutant: Refill does not count as probing. *)
IsProbingOnlyUp ==
  \/ cur_mode = "STARTUP"
  \/ cur_mode = "PROBE_BW" /\ cycle.phase = "Up"
(* Mutant: STARTUP does not count as probing. *)
IsProbingInProbeBw == cur_mode = "PROBE_BW" /\ is_probing
is_probing_for_bandwidth ==
  \/ cur_mode = "STARTUP"
  \/ cur_mode = "PROBE_BW" /\ is_probing

(* The bounds of the model: nothing in the code limits these counters.     *)
WithinBounds(e, t) ==
  /\ t <= MaxTime
  /\ e.end_of_round_trip => /\ cycle.rounds_since_probe < MaxRounds
                            /\ rounds_without_bw_growth < MaxRounds
  /\ e.bytes_lost > 0 => lost_event_in_round < MaxLossEvents

StartEvent(e, dt) ==
  /\ pc = "idle"
  /\ WithinBounds(e, now + dt)
  /\ now' = now + dt
  /\ ev' = e
  /\ ModelOnCongestionEvent(e, now + dt, is_probing_for_bandwidth)
  /\ mode_changes_allowed' = kMaxModeChanges
  /\ pc' = "modes"
  /\ UNCHANGED <<cwnd, startupVars, cycleVars, exit_time, cur_mode,
                 pacing_rate, acked_before>>

-----------------------------------------------------------------------------
(* One round of the loop, for each mode: the handler returns next_mode.    *)

NextMode(next_mode) ==
  /\ cur_mode' = next_mode
  /\ IF next_mode = cur_mode
     THEN pc' = "finish" /\ UNCHANGED mode_changes_allowed
     ELSE /\ mode_changes_allowed' = mode_changes_allowed - 1
          /\ pc' = IF mode_changes_allowed' < 0 THEN "finish" ELSE "modes"

loopFrame == <<now, ev, cwnd, latest_max_bw, latest_max_inflight,
               pacing_rate, acked_before>>

StartupStep ==
  /\ pc = "modes" /\ cur_mode = "STARTUP"
  /\ \E m \in {"STARTUP", "DRAIN"} : StartupOnCongestionEvent(m) /\ NextMode(m)
  /\ UNCHANGED <<loopFrame, rttVars, max_bw, lossVars, loVars, cycleVars,
                 exit_time>>

DrainStep ==
  /\ pc = "modes" /\ cur_mode = "DRAIN"
  /\ \E m \in {"DRAIN", "PROBE_BW"} :
       /\ DrainOnCongestionEvent(m)
       /\ NextMode(m)
       /\ IF m = "PROBE_BW" THEN ProbeBwEnter
          ELSE UNCHANGED <<cycleVars, max_bw, lossVars, loVars>>
  /\ UNCHANGED <<loopFrame, rttVars, inflight_hi, startupVars, exit_time>>

ProbeBwDownStep ==
  /\ pc = "modes" /\ cur_mode = "PROBE_BW"
  /\ \E m \in {"PROBE_BW", "PROBE_RTT"} :
       /\ ProbeBwDown(m)
       /\ NextMode(m)
       /\ IF m = "PROBE_RTT" THEN ProbeRttEnter ELSE UNCHANGED exit_time
  /\ UNCHANGED <<loopFrame, startupVars>>

ProbeBwOtherStep ==
  /\ pc = "modes" /\ cur_mode = "PROBE_BW"
  /\ ProbeBwUp("PROBE_BW") \/ ProbeBwCruise("PROBE_BW") \/ ProbeBwRefill("PROBE_BW")
  /\ NextMode("PROBE_BW")
  /\ UNCHANGED <<loopFrame, startupVars, exit_time>>

ProbeRttStep ==
  /\ pc = "modes" /\ cur_mode = "PROBE_RTT"
  /\ \E m \in {"PROBE_BW", "PROBE_RTT"} :
       /\ ProbeRttOnCongestionEvent(m)
       /\ NextMode(m)
       /\ IF m = "PROBE_BW" THEN ProbeBwEnter
          ELSE UNCHANGED <<cycleVars, max_bw, lossVars, loVars>>
  /\ UNCHANGED <<loopFrame, gainVars, rttVars, inflight_hi, startupVars>>

-----------------------------------------------------------------------------
(* update_pacing_rate.  A BitRate is an integer, so the product of a gain  *)
(* and a rate is cut off (common/rate.h:90), as the window over the rtt    *)
(* is; a tick stands for the unit of time of the rate.                     *)
(* Mutant: no early return without an estimate. *)
UpdatedPacingRateAlways ==
  LET target == Pct(estimated_bw(max_bw), pacing_gain)
  IN IF ~acked_before THEN (BitsPerByte * cwnd) \div min_rtt
     ELSE IF full_bw_reached THEN target
     ELSE Larger(target, pacing_rate)
UpdatedPacingRate ==
  LET bw     == estimated_bw(max_bw)
      target == Pct(bw, pacing_gain)
  IN IF bw = 0 THEN pacing_rate
     ELSE IF ~acked_before THEN (BitsPerByte * cwnd) \div min_rtt
     ELSE IF full_bw_reached THEN target
     ELSE Larger(target, pacing_rate)

cwnd_upper_limit ==
  CASE cur_mode = "PROBE_BW"  -> ProbeBwCwndLimit
    [] cur_mode = "PROBE_RTT" -> ProbeRttCwndLimit
    [] OTHER                  -> inflight_lo

target_cwnd == Larger(bdp(estimated_bw(max_bw), cwnd_gain), params.min_cwnd)

UpdatedCwnd ==
  LET grown == IF full_bw_reached
               THEN Smaller(cwnd + ev.bytes_acked, target_cwnd + ev.max_ack_height)
               ELSE IF cwnd < target_cwnd \/ cwnd < 2 * InitCwnd
               THEN cwnd + ev.bytes_acked ELSE cwnd
  IN Larger(Smaller(grown, cwnd_upper_limit), params.min_cwnd)

FinishEvent ==
  /\ pc = "finish"
  /\ pacing_rate' = UpdatedPacingRate
  /\ cwnd' = UpdatedCwnd
  /\ acked_before' = (acked_before \/ ev.bytes_acked > 0)
  /\ ev' = NoEvent
  /\ pc' = "idle"
  /\ mode_changes_allowed' = kMaxModeChanges
  /\ UNCHANGED <<now, modelVars, startupVars, cycleVars, exit_time, cur_mode>>

Next ==
  \/ \E e \in EventInputs, dt \in TimeSteps : StartEvent(e, dt)
  \/ StartupStep
  \/ DrainStep
  \/ ProbeBwDownStep
  \/ ProbeBwOtherStep
  \/ ProbeRttStep
  \/ FinishEvent

Spec == Init /\ [][Next]_vars

-----------------------------------------------------------------------------
TypeOK ==
  /\ ModelTypeOK
  /\ StartupTypeOK
  /\ ProbeBwTypeOK
  /\ ProbeRttTypeOK
  /\ pc \in {"idle", "modes", "finish"}
  /\ cur_mode \in Modes
  /\ mode_changes_allowed \in -1..kMaxModeChanges
  /\ pacing_rate \in Nat
  /\ acked_before \in BOOLEAN

(* No event spends the budget of mode changes: the loop always ends        *)
(* because a handler kept its mode (bbr_algorithm.cpp:56-74), so no mode   *)
(* is entered without its handler having run on that event.                *)
ModeBudgetSuffices == mode_changes_allowed >= 0

(* Samples count as probing only in phase Up and in the first round of the *)
(* Down after it, so Cruise and Refill can assert that they never do       *)
(* (bbr_probe_bw.cpp:256,269).                                             *)
ProbeSampleWindow ==
  cycle.is_sample_from_probing =>
    \/ cycle.phase = "Up"
    \/ cycle.phase = "Down" /\ cycle.rounds_in_phase = 0

(* While PROBE_BW refills and probes up, the short-term bounds stay unset: *)
(* cleared on entry of Refill, also when that entry comes back from        *)
(* PROBE_RTT, and not adapted before the next Down                         *)
(* (bbr_probe_bw.cpp:151-152, bbr_model.cpp:150-154).                      *)
LowerBoundsClearWhileProbing ==
  cur_mode = "PROBE_BW" /\ is_probing => bw_lo = Infinity /\ inflight_lo = Infinity

(* Once a cycle has left phase Down, its bandwidth filter has advanced:    *)
(* exist_probe_down makes up for a Down that was left before its first     *)
(* usable round (bbr_probe_bw.cpp:109-115, 171-183).                       *)
CycleAdvanced ==
  cycle.phase \in {"Cruise", "Refill", "Up"} => cycle.has_advanced_max_bw

(* PROBE_RTT interrupts a cycle only in Cruise or Refill, the two phases   *)
(* BbrProbeBandwidth::enter knows how to resume (bbr_probe_bw.cpp:21-27).  *)
ProbeRttResumable ==
  cur_mode = "PROBE_RTT" => cycle.phase \in {"Cruise", "Refill"}

(* Between events the gains are those of the current mode and phase, after *)
(* any chain of mode and phase changes within one event.                   *)
GainsMatchMode ==
  pc = "idle" =>
    <<pacing_gain, cwnd_gain>> =
      CASE cur_mode = "STARTUP" ->
             <<params.startup_pacing_gain, params.startup_cwnd_gain>>
        [] cur_mode = "DRAIN" ->
             <<params.drain_pacing_gain, params.drain_cwnd_gain>>
        [] cur_mode = "PROBE_BW" ->
             <<PhasePacingGain(cycle.phase), params.probe_bw_cwnd_gain>>
        [] cur_mode = "PROBE_RTT" -> <<100, 100>>

(* The assert on the pacing rate (bbr_algorithm.cpp:80) fails for one      *)
(* reason only: the estimate is positive, but so small that its product    *)
(* with the gain is cut off to zero (common/rate.h:90).  It never fails    *)
(* for want of an estimate, whatever acks and losses come first            *)
(* (bbr_algorithm.cpp:121-123).  The model goes on behind the assert, as a *)
(* build without asserts does.                                             *)
ZeroRateOnlyByRounding ==
  pc = "idle" /\ pacing_rate = 0 =>
    /\ estimated_bw(max_bw) > 0
    /\ Pct(estimated_bw(max_bw), pacing_gain) = 0

(* STARTUP never slows down: neither the window nor, once acks have come,  *)
(* the pacing rate falls before STARTUP ends, losses or not, because its   *)
(* losses do not set the short-term bounds that cap the window             *)
(* (bbr_algorithm.cpp:95-141, bbr_model.cpp:150-154, bbr_startup.cpp:78).  *)
StartupNeverSlows ==
  [][cur_mode = "STARTUP" /\ cur_mode' = "STARTUP" =>
       /\ cwnd' >= cwnd
       /\ acked_before => pacing_rate' >= pacing_rate]_vars

(* The filter forgets its older slot at most once a cycle                  *)
(* (bbr_probe_bw.h:36-37: "It is advanced once per cycle.").               *)
FilterAdvancesOncePerCycle ==
  [][max_bw'[0] # max_bw[0] =>
       /\ cycle.phase = "Down" /\ ~cycle.has_advanced_max_bw
       /\ cycle'.has_advanced_max_bw]_vars

(* inflight_hi is lowered only by STARTUP's loss exit or by a sample taken *)
(* while probing, and one probe lowers it once: the cut ends the probing   *)
(* samples (bbr_probe_bw.cpp:318-343, bbr_startup.cpp:68-75).              *)
OneCutPerProbe ==
  [][inflight_hi' < inflight_hi =>
       \/ cur_mode = "STARTUP" /\ cur_mode' = "DRAIN"
       \/ cycle.is_sample_from_probing /\ ~cycle'.is_sample_from_probing]_vars

(* PROBE_RTT waits until inflight is down to                               *)
(* probe_rtt_inflight_target_bdp_fraction of the bandwidth-delay product   *)
(* (bbr_model.h:113), or to the least window: what the parameter's name    *)
(* says, with the product counted in bits (time/interval.h:142) as the     *)
(* sampler counts it (bandwidth_sampler.cpp:17).                           *)
ProbeRttTargetIsBdpFraction ==
  [][exit_time = Infinity /\ exit_time' # Infinity =>
       \/ BytesInFlight <= params.min_cwnd
       \/ BitsPerByte * BytesInFlight <=
            Pct(FilterGet(max_bw) * min_rtt,
                params.probe_rtt_inflight_target_bdp_fraction)]_vars
=============================================================================
