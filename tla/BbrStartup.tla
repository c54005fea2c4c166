----------------------------- MODULE BbrStartup -----------------------------
(***************************************************************************)
(* STARTUP and DRAIN (bbr_startup.cpp, bbr_drain.cpp).  An operator        *)
(* X...(m) is the whole on_congestion_event of mode X, with m the mode it  *)
(* returns; it leaves unmentioned what it does not touch.                  *)
(***************************************************************************)
EXTENDS BbrModel

CONSTANT OverflowGrowth
(* full_bw_baseline_ starts as BitRate's default, +infinity.  Multiplying  *)
(* it by the threshold overflows the conversion back to int64_t, which C++ *)
(* leaves undefined: x86-64 yields the smallest integer, so any bandwidth  *)
(* passes for growth; AArch64 saturates, so none does.  OverflowGrowth     *)
(* holds the outcomes of the comparison the build can produce.             *)
ASSUME OverflowAssumption ==
  OverflowGrowth \subseteq BOOLEAN /\ OverflowGrowth # {}

VARIABLES full_bw_reached, full_bw_baseline, rounds_without_bw_growth

startupVars == <<full_bw_reached, full_bw_baseline, rounds_without_bw_growth>>

StartupInit ==
  /\ full_bw_reached = FALSE
  /\ full_bw_baseline = Infinity
  /\ rounds_without_bw_growth = 0

StartupTypeOK ==
  /\ full_bw_reached \in BOOLEAN
  /\ full_bw_baseline \in Nat
  /\ rounds_without_bw_growth \in Nat

(* cur_max_bw >= full_bw_baseline_ * startup_full_bw_threshold, scaled so  *)
(* that small bandwidths lose no fraction.                                 *)
BandwidthGrew(baseline) ==
  IF baseline = Infinity THEN OverflowGrowth
  ELSE {100 * FilterGet(max_bw) >= baseline * params.startup_full_bw_threshold}

(* A round that grows restarts the count and is then counted itself.       *)
check_full_bw_reached ==
  IF full_bw_reached \/ ~ev.end_of_round_trip \/ LastSampleAppLimited
  THEN UNCHANGED <<full_bw_baseline, rounds_without_bw_growth>>
  ELSE \E grew \in BandwidthGrew(full_bw_baseline) :
         /\ full_bw_baseline' =
              IF grew THEN FilterGet(max_bw) ELSE full_bw_baseline
         /\ rounds_without_bw_growth' =
              (IF grew THEN 0 ELSE rounds_without_bw_growth) + 1

(* full_bw_reached_ as check_full_bw_reached leaves it.                    *)
FlatForLong ==
  IF full_bw_reached \/ ~ev.end_of_round_trip \/ LastSampleAppLimited
  THEN full_bw_reached
  ELSE rounds_without_bw_growth' >= params.startup_full_bw_rounds

ExcessiveLosses ==
  /\ ev.end_of_round_trip
  /\ lost_event_in_round >= params.startup_full_loss_count
  /\ is_inflight_too_high

StartupOnCongestionEvent(m) ==
  /\ check_full_bw_reached
  /\ full_bw_reached' = (FlatForLong \/ ExcessiveLosses)
  /\ inflight_hi' = IF ~FlatForLong /\ ExcessiveLosses
                      THEN bdp(FilterGet(max_bw), 100) ELSE inflight_hi
  /\ pacing_gain' = params.startup_pacing_gain
  /\ cwnd_gain' = params.startup_cwnd_gain
  /\ m = IF full_bw_reached' THEN "DRAIN" ELSE "STARTUP"

drain_target == Larger(bdp(FilterGet(max_bw), 100), params.min_cwnd)

DrainOnCongestionEvent(m) ==
  /\ pacing_gain' = params.drain_pacing_gain
  /\ cwnd_gain' = params.drain_cwnd_gain
  /\ m = IF BytesInFlight <= drain_target THEN "PROBE_BW" ELSE "DRAIN"
=============================================================================
