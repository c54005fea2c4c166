---------------------------- MODULE MCBbrHistory ----------------------------
(* The path of MCBbrAlgorithm under the history variables of BbrHistory.   *)
EXTENDS MCBbrAlgorithm, BbrHistory

(* Growing and flat rounds without losses.                                 *)
growthInputs == {Ack(2, 1, bw, 1, TRUE) : bw \in {1, 2, 4}}

lossInputs == {WithLoss(Ack(6, 2, 2, 1, eor), 1) : eor \in BOOLEAN}

(* A window longer than the shortest probing cycle, and the switches the   *)
(* other way.                                                              *)
dwellParams == [mcParamsByCwnd EXCEPT !.min_rtt_win = 6]

(* PROBE_RTT: drained and undrained events with the same rtt, no growth.   *)
dwellInputs ==
  { WithLoss(Ack(4, 1, 2, 2, TRUE), 1), Ack(1, 1, 2, 1, TRUE),
    Ack(9, 1, 2, 2, FALSE), LossOnly(4, 1) }
=============================================================================
