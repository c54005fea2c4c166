----------------------------- MODULE MCSampling -----------------------------
(***************************************************************************)
(* Sampling with packets of one unit.  A rate of RateUnit is one packet    *)
(* per tick; RateUnit is a multiple of every interval up to the bounds.    *)
(***************************************************************************)
EXTENDS Sampling

mcInfinity == 100000

(* A sender without a pace, over a network that reorders and loses, which  *)
(* may be app-limited and give packets up.                                 *)
Disordered ==
  [max_packet |-> 3, max_clock |-> 5, time_steps |-> {0, 1},
   need_retransmit |-> BOOLEAN, send_gap |-> 0, min_rtt |-> 1,
   in_order |-> FALSE, duplicates |-> FALSE, app_limits |-> TRUE,
   neutering |-> TRUE]

(* A sender that sends a packet every second tick at most; its acks come   *)
(* in order, in bursts.                                                    *)
Paced ==
  [max_packet |-> 4, max_clock |-> 9, time_steps |-> {0, 1, 2},
   need_retransmit |-> {TRUE}, send_gap |-> 2, min_rtt |-> 2,
   in_order |-> TRUE, duplicates |-> FALSE, app_limits |-> FALSE,
   neutering |-> FALSE]

(* A sender that gives packets up.                                         *)
Forgetful ==
  [Disordered EXCEPT !.max_packet = 2, !.max_clock = 3, !.app_limits = FALSE,
                     !.need_retransmit = {TRUE}]

mcScenarios == {Disordered, Paced}
mcForgetful == {Forgetful}
=============================================================================
