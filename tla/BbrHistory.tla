----------------------------- MODULE BbrHistory -----------------------------
(***************************************************************************)
(* BbrAlgorithm with history variables, for properties that relate a step  *)
(* to earlier rounds or to an earlier visit of a mode.  The history        *)
(* variables observe: HNext constrains no variable of BbrAlgorithm.        *)
(***************************************************************************)
EXTENDS BbrAlgorithm, SequencesExt

VARIABLES
  round_bw,      \* max_bw at the ends of STARTUP's counted rounds, newest last
  round_losses,  \* loss events since the last end of a round
  rtt_entered,   \* tick of the last entry into PROBE_RTT, or -1
  rtt_drained    \* tick at which inflight first met the target in this
                 \* visit of PROBE_RTT, or -1

historyVars == <<round_bw, round_losses, rtt_entered, rtt_drained>>
hvars == <<vars, historyVars>>

HInit ==
  /\ Init
  /\ round_bw = <<>>
  /\ round_losses = 0
  /\ rtt_entered = -1
  /\ rtt_drained = -1

Latest(s, n) == IF Len(s) <= n THEN s ELSE SubSeq(s, Len(s) - n + 1, Len(s))

StartupRoundCounted ==
  /\ pc = "modes" /\ cur_mode = "STARTUP"
  /\ ev.end_of_round_trip /\ ~LastSampleAppLimited

LeavesStartup == cur_mode = "STARTUP" /\ cur_mode' # "STARTUP"
EntersProbeRtt == cur_mode # "PROBE_RTT" /\ cur_mode' = "PROBE_RTT"
LeavesProbeRtt == cur_mode = "PROBE_RTT" /\ cur_mode' # "PROBE_RTT"

ObserveRounds ==
  /\ round_bw' =
       IF StartupRoundCounted
         THEN Latest(Append(round_bw, FilterGet(max_bw)),
                     params.startup_full_bw_rounds + 1)
         ELSE IF cur_mode = "STARTUP" THEN round_bw ELSE <<>>
  /\ round_losses' =
       CASE pc = "idle" ->
              round_losses + IF ev'.bytes_lost > 0 THEN 1 ELSE 0
         [] pc = "finish" /\ ev.end_of_round_trip -> 0
         [] OTHER -> round_losses

(* The handler of PROBE_RTT runs and finds inflight at the target.         *)
SeenDrained ==
  /\ pc = "modes" /\ cur_mode = "PROBE_RTT"
  /\ BytesInFlight <= Larger(ProbeRttInflightTarget, params.min_cwnd)

ObserveProbeRtt ==
  /\ rtt_entered' = IF EntersProbeRtt THEN now ELSE rtt_entered
  /\ rtt_drained' =
       CASE cur_mode' # "PROBE_RTT" -> -1
         [] cur_mode' = "PROBE_RTT" /\ rtt_drained < 0 /\ SeenDrained -> now
         [] OTHER -> rtt_drained

HNext == Next /\ ObserveRounds /\ ObserveProbeRtt

HSpec == HInit /\ [][HNext]_hvars

-----------------------------------------------------------------------------
(* A visit of PROBE_RTT ends only when more than probe_rtt_duration has    *)
(* passed since inflight was seen down at the target in that visit: the    *)
(* time it takes to drain does not count, nor does the exit time of an     *)
(* earlier visit (bbr_probe_rtt.cpp:14-39).                                *)
ProbeRttDwells ==
  [][LeavesProbeRtt =>
       /\ rtt_drained >= 0
       /\ now - rtt_drained > params.probe_rtt_duration]_hvars

(* Two entries into PROBE_RTT are at least min_rtt_win apart: entering     *)
(* refreshes the minimum rtt, whatever the samples in between were         *)
(* (bbr_model.cpp:207-218, bbr_probe_bw.cpp:55-58).                        *)
ProbeRttSpaced ==
  [][EntersProbeRtt /\ rtt_entered >= 0 =>
       now - rtt_entered >= params.min_rtt_win]_hvars

(* What bbr_model.h:61-63 says of the parameters: "Full bandwidth is       *)
(* declared if the total bandwidth growth is less than                     *)
(* |startup_full_bw_threshold| times in the last |startup_full_bw_rounds|  *)
(* round trips."  Stated for exits without excessive losses that saw more  *)
(* rounds than that.                                                       *)
FullBwMeansNoGrowthInLastRounds ==
  [][LeavesStartup /\ ~ExcessiveLosses
       /\ Len(round_bw') = params.startup_full_bw_rounds + 1 =>
         100 * Last(round_bw') <
           Head(round_bw') * params.startup_full_bw_threshold]_hvars

(* What bbr_startup.cpp:67 says of the loss exit: "At the end of a round   *)
(* trip. Check if loss is too high in this round."                         *)
LossExitCountsThisRound ==
  [][LeavesStartup /\ ~FlatForLong =>
       round_losses >= params.startup_full_loss_count]_hvars
=============================================================================
