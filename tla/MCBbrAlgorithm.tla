--------------------------- MODULE MCBbrAlgorithm ---------------------------
(***************************************************************************)
(* A small path for TLC: the unit is one segment (kDefaultTCPMSS = 1), the *)
(* round-trip time one or two ticks.  The gains and thresholds are those   *)
(* of Bbrparams where small numbers allow it; round and loss counts, the   *)
(* timers and min_cwnd are scaled down.                                    *)
(***************************************************************************)
EXTENDS BbrAlgorithm

mcParams ==
  [ beta |-> 30, ignore_inflight_lo |-> FALSE,
    startup_full_bw_threshold |-> 125, startup_full_bw_rounds |-> 3,
    startup_full_loss_count |-> 1, probe_bw_full_loss_count |-> 1,
    loss_threshold |-> 2,
    startup_cwnd_gain |-> 288, startup_pacing_gain |-> 288,
    drain_cwnd_gain |-> 288, drain_pacing_gain |-> 35,
    probe_bw_cwnd_gain |-> 200, probe_bw_probe_inflight_gain |-> 125,
    probe_bw_probe_up_pacing_gain |-> 125,
    probe_bw_probe_down_pacing_gain |-> 75,
    probe_bw_default_pacing_gain |-> 100,
    bw_probe_rand_rounds |-> 2, bbr_bw_probe_base_us |-> 2,
    bbr_bw_probe_rand_us |-> 1, limit_inflight_hi_by_cwnd |-> FALSE,
    inflight_hi_headroom_fraction |-> 15, min_rtt_win |-> 2,
    kDefaultTCPMSS |-> 1, probe_bw_probe_max_rounds |-> 3,
    probe_bw_probe_reno_gain |-> 100, probe_rtt_duration |-> 1,
    probe_rtt_inflight_target_bdp_fraction |-> 50, min_cwnd |-> 2 ]

(* QUIC's variants of the two switches.                                    *)
mcParamsByCwnd ==
  [mcParams EXCEPT !.limit_inflight_hi_by_cwnd = TRUE,
                   !.ignore_inflight_lo = TRUE,
                   !.probe_bw_probe_reno_gain = 0]

mcInfinity == 1000000

(* Acks of n segments with the given sample.                               *)
Ack(prior, n, bw, rtt, eor) ==
  [ prior_bytes_in_flight |-> prior, bytes_acked |-> n, bytes_lost |-> 0,
    end_of_round_trip |-> eor, sample_max_bandwidth |-> bw,
    sample_is_app_limited |-> FALSE, sample_min_rtt |-> rtt,
    sample_max_inflight |-> n, is_valid |-> TRUE, is_app_limited |-> FALSE,
    inflight_at_send |-> prior, max_ack_height |-> 0 ]
AppLimited(e) == [e EXCEPT !.sample_is_app_limited = TRUE, !.is_app_limited = TRUE]
WithLoss(e, n) == [e EXCEPT !.bytes_lost = n]
LossOnly(prior, n) ==
  [Ack(prior, 0, 0, mcInfinity, FALSE) EXCEPT !.bytes_lost = n]
(* Acks of packets the sampler no longer knows.                            *)
UnknownAck(prior, eor) ==
  [Ack(prior, 0, 0, mcInfinity, eor) EXCEPT !.is_valid = FALSE,
                                           !.inflight_at_send = 0]

(* Drained and undrained, limited by the application or not, with losses;  *)
(* and what the first events of a connection may bring: no usable sample   *)
(* of the bandwidth, or a packet the sampler does not know.                *)
mcInputs ==
  { Ack(1, 1, 2, 1, TRUE), Ack(6, 2, 2, 2, TRUE), Ack(6, 2, 1, 2, FALSE),
    AppLimited(Ack(2, 1, 1, 1, TRUE)),
    WithLoss(Ack(6, 2, 2, 1, TRUE), 1),
    Ack(4, 2, 0, 2, TRUE), UnknownAck(4, TRUE) }

(* Two segments per tick, 16 bits: with an rtt of 2 the product is four    *)
(* segments.                                                               *)
mcBdpInputs ==
  { Ack(1, 1, 16, 2, TRUE), Ack(9, 2, 16, 2, TRUE) }

(* STARTUP survives one loss event.                                        *)
lossyParams == [mcParams EXCEPT !.startup_full_loss_count = 2]
=============================================================================
