-------------------------- MODULE BandwidthSampler --------------------------
(***************************************************************************)
(* BandwidthSampler and MaxAckHeightTracker (bandwidth_sampler.h, .cpp):   *)
(* the delivery rate each acknowledged packet measures.  on_congestion_    *)
(* event is taken apart into the packets it loops over, OnPktLost and      *)
(* OnPktAcked, and its end, FinishSample; the composing module runs them   *)
(* in the order of the code.  Sequence numbers are naturals below          *)
(* NoPacket, rates are bytes * RateUnit per tick rounded down, and Unset   *)
(* is a Timestamp that is not valid.                                       *)
(***************************************************************************)
EXTENDS WindowedFilter, RoundTripCounter, Sequences

CONSTANTS
  Infinity,            \* BandWidth and TimeDelta without a value
  RateUnit,            \* resolution of a rate
  AckHeightThreshold   \* MaxAckHeightTracker::threshold_, 2.0

ASSUME SamplerAssumption ==
  /\ Infinity \in Nat
  /\ RateUnit \in Nat \ {0}
  /\ AckHeightThreshold \in Nat \ {0}

VARIABLES
  last_sent_packet,
  total_bytes_sent, total_bytes_acked, total_bytes_lost, total_bytes_neutered,
  total_bytes_sent_at_last_acked_packet,
  last_acked_packet_sent_time, last_acked_packet_ack_time,
  is_app_limited, end_of_app_limited_phase,
  state_map,           \* sequence number -> ConnectionStateOnSentPacket
  ack_points,          \* RecentAckPoints::ack_points_, as <<[0], [1]>>
  a0_candidates,
  aggregation_epoch_start_time, aggregation_epoch_bytes,
  total_bytes_acked_after_last_ack_event,
  event_sample         \* CongestionEventSample and the locals of the event

totalVars == <<total_bytes_sent, total_bytes_acked, total_bytes_lost,
               total_bytes_neutered>>
lastAckVars == <<total_bytes_sent_at_last_acked_packet,
                 last_acked_packet_sent_time, last_acked_packet_ack_time>>
appVars == <<is_app_limited, end_of_app_limited_phase>>
pointVars == <<ack_points, a0_candidates>>
heightVars == <<aggregation_epoch_start_time, aggregation_epoch_bytes,
                estimates, total_bytes_acked_after_last_ack_event>>
samplerVars == <<last_sent_packet, totalVars, lastAckVars, appVars, state_map,
                 pointVars, heightVars, event_sample>>

Unset == -1

Rate(bytes, ticks) == (bytes * RateUnit) \div ticks

(* SendTimeState; the default one is not valid.                            *)
SendTimeState ==
  [ is_valid : BOOLEAN, is_app_limited : BOOLEAN, total_bytes_sent : Nat,
    total_bytes_acked : Nat, total_bytes_lost : Nat, bytes_in_flight : Nat ]
NoSendTimeState ==
  [ is_valid |-> FALSE, is_app_limited |-> FALSE, total_bytes_sent |-> 0,
    total_bytes_acked |-> 0, total_bytes_lost |-> 0, bytes_in_flight |-> 0 ]

AckPoint(time, acked) == [ack_time |-> time, total_bytes_acked |-> acked]

EmptySample ==
  [ sample_max_bandwidth |-> 0, sample_is_app_limited |-> FALSE,
    sample_rtt |-> Infinity, sample_max_inflight |-> 0, extra_acked |-> 0,
    last_packet_send_state |-> NoSendTimeState,
    lost_state |-> NoSendTimeState, acked_state |-> NoSendTimeState ]

SamplerInit ==
  /\ last_sent_packet = NoPacket
  /\ total_bytes_sent = 0
  /\ total_bytes_acked = 0
  /\ total_bytes_lost = 0
  /\ total_bytes_neutered = 0
  /\ total_bytes_sent_at_last_acked_packet = 0
  /\ last_acked_packet_sent_time = Unset
  /\ last_acked_packet_ack_time = Unset
  /\ is_app_limited = FALSE
  /\ end_of_app_limited_phase = NoPacket
  /\ state_map = <<>>
  /\ ack_points = <<AckPoint(Unset, 0), AckPoint(Unset, 0)>>
  /\ a0_candidates = <<>>
  /\ aggregation_epoch_start_time = Unset
  /\ aggregation_epoch_bytes = 0
  /\ estimates = reset(0, 0)
  /\ total_bytes_acked_after_last_ack_event = 0
  /\ event_sample = EmptySample

-----------------------------------------------------------------------------
(* RecentAckPoints                                                         *)

UpdatedPoints(points, time, acked) ==
  CASE time < points[2].ack_time ->
         <<points[1], AckPoint(time, acked)>>
    [] time > points[2].ack_time ->
         <<points[2], AckPoint(time, acked)>>
    [] OTHER ->
         <<points[1], AckPoint(points[2].ack_time, acked)>>

ClearedPoints == <<AckPoint(Unset, 0), AckPoint(Unset, 0)>>

(* A mutant: when the last acked packet was sent, not when it was acked.   *)
SendPoint == AckPoint(last_acked_packet_sent_time, total_bytes_acked)

less_recent_point ==
  IF ack_points[1].total_bytes_acked # 0 THEN ack_points[1] ELSE ack_points[2]

-----------------------------------------------------------------------------
(* Sending.  bytes_in_flight is the caller's count before this packet.     *)

(* A mutant: the packet is counted after its state is taken.               *)
SentPacketEarly(bytes, at, in_flight, sent_at_last, last_sent, last_ack) ==
  [ bytes |-> bytes, sent_time |-> at,
    total_sent_bytes_at_last_acked_pkt |-> sent_at_last,
    last_acked_pkt_sent_time |-> last_sent,
    last_acked_pkt_ack_time |-> last_ack,
    state |-> [ is_valid |-> FALSE, is_app_limited |-> is_app_limited,
                total_bytes_sent |-> total_bytes_sent,
                total_bytes_acked |-> total_bytes_acked,
                total_bytes_lost |-> total_bytes_lost,
                bytes_in_flight |-> bytes + in_flight ] ]

SentPacket(bytes, at, in_flight, sent_at_last, last_sent, last_ack) ==
  [ bytes |-> bytes, sent_time |-> at,
    total_sent_bytes_at_last_acked_pkt |-> sent_at_last,
    last_acked_pkt_sent_time |-> last_sent,
    last_acked_pkt_ack_time |-> last_ack,
    state |-> [ is_valid |-> FALSE, is_app_limited |-> is_app_limited,
                total_bytes_sent |-> total_bytes_sent + bytes,
                total_bytes_acked |-> total_bytes_acked,
                total_bytes_lost |-> total_bytes_lost,
                bytes_in_flight |-> bytes + in_flight ] ]

(* std::map::insert: a sequence number that is there keeps its entry.      *)
Inserted(seq_no, pkt) ==
  IF seq_no \in DOMAIN state_map THEN state_map
  ELSE [s \in DOMAIN state_map \union {seq_no} |->
          IF s = seq_no THEN pkt ELSE state_map[s]]

(* The first packet after a quiet period starts as if the last ack had     *)
(* just arrived.                                                           *)
QuietRestart(bytes, at_time) ==
  /\ total_bytes_sent_at_last_acked_packet' = total_bytes_sent + bytes
  /\ last_acked_packet_sent_time' = at_time
  /\ last_acked_packet_ack_time' = at_time
  /\ ack_points' = UpdatedPoints(ClearedPoints, at_time, total_bytes_acked)
  /\ a0_candidates' = <<AckPoint(at_time, total_bytes_acked)>>

SamplerOnPacketSent(seq_no, bytes, in_flight, at_time, need_retransmit) ==
  /\ last_sent_packet' = seq_no
  /\ IF ~need_retransmit
       THEN UNCHANGED <<total_bytes_sent, lastAckVars, pointVars, state_map>>
       ELSE /\ total_bytes_sent' = total_bytes_sent + bytes
            /\ IF in_flight = 0 THEN QuietRestart(bytes, at_time)
               ELSE UNCHANGED <<lastAckVars, pointVars>>
            /\ state_map' =
                 Inserted(seq_no,
                   SentPacket(bytes, at_time, in_flight,
                              total_bytes_sent_at_last_acked_packet',
                              last_acked_packet_sent_time',
                              last_acked_packet_ack_time'))
  /\ UNCHANGED <<total_bytes_acked, total_bytes_lost, total_bytes_neutered,
                 appVars, heightVars, event_sample>>

-----------------------------------------------------------------------------
(* One congestion event: its lost packets, its acknowledged packets in     *)
(* order, its end.                                                         *)

WithState(state) == [state EXCEPT !.is_valid = TRUE]

(* A mutant: a lost packet counts as delivered.                            *)
OnPktLostAsAcked(seq_no, bytes) ==
  /\ total_bytes_lost' = total_bytes_lost + bytes
  /\ total_bytes_acked' = total_bytes_acked + bytes
  /\ event_sample' =
       IF seq_no \in DOMAIN state_map
         THEN [event_sample EXCEPT !.lost_state =
                 WithState(state_map[seq_no].state)]
         ELSE event_sample
  /\ UNCHANGED <<last_sent_packet, total_bytes_sent, total_bytes_neutered,
                 lastAckVars, appVars, state_map, pointVars, heightVars>>

OnPktLost(seq_no, bytes) ==
  /\ total_bytes_lost' = total_bytes_lost + bytes
  /\ event_sample' =
       IF seq_no \in DOMAIN state_map
         THEN [event_sample EXCEPT !.lost_state =
                 WithState(state_map[seq_no].state)]
         ELSE event_sample
  /\ UNCHANGED <<last_sent_packet, total_bytes_sent, total_bytes_acked,
                 total_bytes_neutered, lastAckVars, appVars, state_map,
                 pointVars, heightVars>>

(* choose_a0: the last candidate acked no later than the packet was sent,  *)
(* or the first one when there is none; older candidates are dropped.      *)
ChosenA0(total_acked) ==
  LET later == {i \in 2..Len(a0_candidates) :
                  a0_candidates[i].total_bytes_acked > total_acked}
  IN  IF later = {} THEN Len(a0_candidates)
      ELSE (CHOOSE i \in later : \A j \in later : i <= j) - 1

(* A mutant: the interval starts at the sampler's last ack.                *)
A0AtLastAck(pkt) == AckPoint(last_acked_packet_ack_time, total_bytes_acked)

A0(pkt) ==
  IF a0_candidates = <<>>
    THEN AckPoint(pkt.last_acked_pkt_ack_time, pkt.state.total_bytes_acked)
    ELSE a0_candidates[ChosenA0(pkt.state.total_bytes_acked)]

(* A mutant: the chosen candidate is dropped with the older ones.          *)
TrimmedTooFar(pkt) ==
  IF a0_candidates = <<>> THEN <<>>
  ELSE SubSeq(a0_candidates, ChosenA0(pkt.state.total_bytes_acked) + 1,
              Len(a0_candidates))

TrimmedCandidates(pkt) ==
  IF a0_candidates = <<>> THEN <<>>
  ELSE SubSeq(a0_candidates, ChosenA0(pkt.state.total_bytes_acked),
              Len(a0_candidates))

SendRate(pkt) ==
  IF pkt.sent_time > pkt.last_acked_pkt_sent_time
    THEN Rate(pkt.state.total_bytes_sent
                - pkt.total_sent_bytes_at_last_acked_pkt,
              pkt.sent_time - pkt.last_acked_pkt_sent_time)
    ELSE Infinity

(* A mutant: the ack rate alone.                                           *)
BandwidthOfAcks(send_rate, ack_rate) == ack_rate

Bandwidth(send_rate, ack_rate) ==
  IF send_rate < ack_rate THEN send_rate ELSE ack_rate

(* The event's sample after one more packet with this bandwidth and rtt;   *)
(* acked is total_bytes_acked_ with the packet counted.                    *)
Merged(pkt, bandwidth, rtt, acked) ==
  LET inflight == acked - pkt.state.total_bytes_acked
      better   == bandwidth # Infinity
                    /\ bandwidth > event_sample.sample_max_bandwidth
  IN  [event_sample EXCEPT
         !.acked_state = WithState(pkt.state),
         !.sample_rtt = IF rtt < @ THEN rtt ELSE @,
         !.sample_max_bandwidth = IF better THEN bandwidth ELSE @,
         !.sample_is_app_limited =
            IF better THEN pkt.state.is_app_limited ELSE @,
         !.sample_max_inflight = IF inflight > @ THEN inflight ELSE @]

(* Acknowledging a packet sent after the mark ends the app-limited phase.  *)
EndsAppLimited(seq_no) ==
  end_of_app_limited_phase = NoPacket \/ seq_no > end_of_app_limited_phase

(* The code asserts that a0 is older than the ack (bandwidth_sampler.cpp:  *)
(* 218); the action stops where the assertion would.                       *)
OnPktAcked(seq_no, ack_time) ==
  IF seq_no \notin DOMAIN state_map THEN UNCHANGED samplerVars
  ELSE
  LET pkt   == state_map[seq_no]
      acked == total_bytes_acked + pkt.bytes
      a0    == A0(pkt)
  IN
  /\ total_bytes_acked' = acked
  /\ total_bytes_sent_at_last_acked_packet' = pkt.state.total_bytes_sent
  /\ last_acked_packet_sent_time' = pkt.sent_time
  /\ last_acked_packet_ack_time' = ack_time
  /\ ack_points' = UpdatedPoints(ack_points, ack_time, acked)
  /\ is_app_limited' = (is_app_limited /\ ~EndsAppLimited(seq_no))
  /\ IF pkt.last_acked_pkt_sent_time = Unset
       THEN UNCHANGED <<a0_candidates, event_sample>>
       ELSE /\ a0.ack_time < ack_time
            /\ a0_candidates' = TrimmedCandidates(pkt)
            /\ event_sample' =
                 Merged(pkt,
                        Bandwidth(SendRate(pkt),
                                  Rate(acked - a0.total_bytes_acked,
                                       ack_time - a0.ack_time)),
                        ack_time - pkt.sent_time, acked)
  /\ UNCHANGED <<last_sent_packet, total_bytes_sent, total_bytes_lost,
                 total_bytes_neutered, end_of_app_limited_phase, state_map,
                 heightVars>>

(* MaxAckHeightTracker::update                                             *)

ExpectedBytesAcked(bw, ack_time) ==
  (bw * (ack_time - aggregation_epoch_start_time)) \div RateUnit

(* A mutant: an epoch never ends.                                          *)
StartsFirstEpoch(bw, ack_time) == aggregation_epoch_start_time = Unset

StartsEpoch(bw, ack_time) ==
  \/ aggregation_epoch_start_time = Unset
  \/ aggregation_epoch_bytes
       <= AckHeightThreshold * ExpectedBytesAcked(bw, ack_time)

ExtraBytesAcked(bw, ack_time, bytes_acked) ==
  IF StartsEpoch(bw, ack_time) THEN 0
  ELSE aggregation_epoch_bytes + bytes_acked - ExpectedBytesAcked(bw, ack_time)

TrackAckHeight(bw, round_count, ack_time, bytes_acked) ==
  IF StartsEpoch(bw, ack_time)
    THEN /\ aggregation_epoch_bytes' = bytes_acked
         /\ aggregation_epoch_start_time' = ack_time
         /\ UNCHANGED estimates
    ELSE /\ aggregation_epoch_bytes' = aggregation_epoch_bytes + bytes_acked
         /\ estimates' = update(ExtraBytesAcked(bw, ack_time, bytes_acked),
                                round_count)
         /\ UNCHANGED aggregation_epoch_start_time

(* extra_acked: a new aggregation epoch leaves an a0 candidate.            *)
ExtraAcked(bw, round_count) ==
  LET newly_acked == total_bytes_acked - total_bytes_acked_after_last_ack_event
  IN  IF newly_acked = 0 THEN UNCHANGED <<heightVars, a0_candidates>>
      ELSE /\ total_bytes_acked_after_last_ack_event' = total_bytes_acked
           /\ TrackAckHeight(bw, round_count, last_acked_packet_ack_time,
                             newly_acked)
           /\ a0_candidates' =
                IF StartsEpoch(bw, last_acked_packet_ack_time)
                  THEN Append(a0_candidates, less_recent_point)
                  ELSE a0_candidates

(* The send state of the later of the last acked and the last lost packet. *)
LastPacketSendState(acked_pkts, lost_pkts) ==
  CASE ~event_sample.lost_state.is_valid -> event_sample.acked_state
    [] event_sample.lost_state.is_valid /\ ~event_sample.acked_state.is_valid ->
         event_sample.lost_state
    [] OTHER ->
         IF lost_pkts[Len(lost_pkts)] > acked_pkts[Len(acked_pkts)]
           THEN event_sample.lost_state ELSE event_sample.acked_state

Capped(max_bw, upper_bound) ==
  LET sampled == IF max_bw < event_sample.sample_max_bandwidth
                   THEN event_sample.sample_max_bandwidth ELSE max_bw
  IN  IF upper_bound < sampled THEN upper_bound ELSE sampled

(* The end of on_congestion_event.                                         *)
FinishSample(acked_pkts, lost_pkts, max_bw, upper_bound, round_count) ==
  /\ IF acked_pkts = <<>>
       THEN /\ event_sample' = [event_sample EXCEPT
                  !.last_packet_send_state = event_sample.lost_state]
            /\ UNCHANGED <<heightVars, a0_candidates>>
       ELSE LET bw == Capped(max_bw, upper_bound)
                newly_acked ==
                  total_bytes_acked - total_bytes_acked_after_last_ack_event
            IN /\ ExtraAcked(bw, round_count)
               /\ event_sample' = [event_sample EXCEPT
                    !.last_packet_send_state =
                        LastPacketSendState(acked_pkts, lost_pkts),
                    !.extra_acked =
                        IF newly_acked = 0 THEN 0
                        ELSE ExtraBytesAcked(bw, last_acked_packet_ack_time,
                                             newly_acked)]
  /\ UNCHANGED <<last_sent_packet, totalVars, lastAckVars, appVars, state_map,
                 ack_points>>

-----------------------------------------------------------------------------
(* The remaining public operations.                                        *)

Without(seqs) ==
  [s \in DOMAIN state_map \ seqs |-> state_map[s]]

OnPktNeutered(seq_no) ==
  /\ seq_no \in DOMAIN state_map
  /\ total_bytes_neutered' = total_bytes_neutered + state_map[seq_no].bytes
  /\ state_map' = Without({seq_no})
  /\ UNCHANGED <<last_sent_packet, total_bytes_sent, total_bytes_acked,
                 total_bytes_lost, lastAckVars, appVars, pointVars,
                 heightVars, event_sample>>

(* remove_obsolete_pkts erases [begin, lower_bound(up_to)), but only when  *)
(* lower_bound finds an entry at or after up_to.                           *)
RemoveObsoletePkts(up_to) ==
  /\ state_map' =
       IF \E s \in DOMAIN state_map : s >= up_to
         THEN Without({s \in DOMAIN state_map : s < up_to})
         ELSE state_map
  /\ UNCHANGED <<last_sent_packet, totalVars, lastAckVars, appVars, pointVars,
                 heightVars, event_sample>>

(* A mutant: the end of the phase is not marked.                           *)
OnAppLimitedUnmarked ==
  /\ is_app_limited' = TRUE
  /\ UNCHANGED <<last_sent_packet, totalVars, lastAckVars, state_map,
                 pointVars, heightVars, event_sample,
                 end_of_app_limited_phase>>

OnAppLimited ==
  /\ is_app_limited' = TRUE
  /\ end_of_app_limited_phase' = last_sent_packet
  /\ UNCHANGED <<last_sent_packet, totalVars, lastAckVars, state_map,
                 pointVars, heightVars, event_sample>>
=============================================================================
