---------------------------- MODULE BbrProbeRtt -----------------------------
(***************************************************************************)
(* PROBE_RTT (bbr_probe_rtt.cpp): drain to the inflight target, stay there *)
(* for probe_rtt_duration, return to PROBE_BW.                             *)
(***************************************************************************)
EXTENDS BbrModel

VARIABLE exit_time    \* Infinity until the inflight target is reached

ProbeRttInit == exit_time = Infinity
ProbeRttTypeOK == exit_time \in Nat

ProbeRttInflightTarget ==
  bdp(FilterGet(max_bw), params.probe_rtt_inflight_target_bdp_fraction)

(* Mutant: keeps the exit time of the visit before. *)
ProbeRttEnterKeepsExit ==
  /\ pacing_gain' = 100
  /\ cwnd_gain' = 100
  /\ UNCHANGED exit_time

ProbeRttEnter ==
  /\ pacing_gain' = 100
  /\ cwnd_gain' = 100
  /\ exit_time' = Infinity

(* The event that starts the wait never ends it.                           *)
ProbeRttOnCongestionEvent(m) ==
  IF exit_time = Infinity
  THEN /\ m = "PROBE_RTT"
       /\ exit_time' =
            IF BytesInFlight <= Larger(ProbeRttInflightTarget, params.min_cwnd)
              THEN now + params.probe_rtt_duration ELSE exit_time
  ELSE /\ m = IF now > exit_time THEN "PROBE_BW" ELSE "PROBE_RTT"
       /\ UNCHANGED exit_time

ProbeRttCwndLimit ==
  Smaller(Smaller(inflight_lo, inflight_hi_with_headroom(inflight_hi)),
          ProbeRttInflightTarget)
=============================================================================
