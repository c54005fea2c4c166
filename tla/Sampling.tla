------------------------------ MODULE Sampling ------------------------------
(***************************************************************************)
(* The bandwidth sampler and the round counter as BbrModel drives them     *)
(* (bbr_model.cpp, on_pkt_sent and on_congestion_event), between a sender  *)
(* that numbers its packets upwards and counts its bytes in flight once    *)
(* per packet, and a network that loses, reorders, delays and, if the      *)
(* scenario says so, repeats acknowledgements.                             *)
(***************************************************************************)
EXTENDS BandwidthSampler, FiniteSetsExt, SequencesExt

CONSTANTS
  Sizes,         \* packet sizes
  MaxAcked,      \* bound: packets acknowledged by one event
  MaxBwInputs, UpperBoundInputs,  \* what the model passes to the sampler
  Scenarios      \* choices of the sender, of the network and of the bounds

ScenarioType ==
  [max_packet      : 1..(NoPacket - 1), \* bound: packets are 1..max_packet
   max_clock       : Nat,               \* bound: no event after this tick
   time_steps      : SUBSET Nat,        \* ticks before a send or an event
   need_retransmit : SUBSET BOOLEAN,    \* values of that argument
   send_gap        : Nat,               \* least ticks between two sends
   min_rtt         : Nat \ {0},         \* least ticks from a send to its ack
   in_order        : BOOLEAN,           \* the network does not reorder
   duplicates      : BOOLEAN,  \* an ack may repeat or follow a loss verdict
   app_limits      : BOOLEAN,  \* the sender may report being app-limited
   neutering       : BOOLEAN]  \* the sender may neuter or forget packets

ASSUME EnvironmentAssumption ==
  /\ Sizes \subseteq Nat \ {0}
  /\ MaxAcked \in Nat
  /\ MaxBwInputs \subseteq Nat
  /\ UpperBoundInputs \subseteq Nat
  /\ Scenarios \subseteq ScenarioType

VARIABLES
  scenario,
  clock,
  last_send_time,
  bytes_in_flight,   \* the caller's count
  outstanding,       \* packets neither acknowledged nor declared lost
  event,             \* the event being handled, or NoEvent
  todo_lost, todo_acked,   \* what its loops have left
  removed_up_to,     \* largest argument of remove_obsolete_pkts so far
  while_inflight,    \* history: bytes acked while the packet was in flight
  sent,              \* history: size of a packet and the round it was sent in
  delivered          \* history: every packet ever acknowledged

envVars == <<clock, last_send_time, bytes_in_flight, outstanding, event,
             todo_lost, todo_acked, removed_up_to>>
historyVars == <<while_inflight, sent, delivered>>
vars == <<samplerVars, roundVars, envVars, historyVars, scenario>>

NoEvent == [handled |-> FALSE, acked |-> <<>>, lost |-> <<>>,
            max_bw |-> 0, upper_bound |-> 0]

Init ==
  /\ SamplerInit /\ RoundInit
  /\ scenario \in Scenarios
  /\ clock = 0
  /\ last_send_time = Unset
  /\ bytes_in_flight = 0
  /\ outstanding = {}
  /\ event = NoEvent
  /\ todo_lost = <<>> /\ todo_acked = <<>>
  /\ removed_up_to = 0
  /\ while_inflight = <<>>
  /\ sent = <<>>
  /\ delivered = {}

Idle == ~event.handled

Passes(ticks) == clock + ticks <= scenario.max_clock /\ clock' = clock + ticks

NextPacket == IF last_sent_packet = NoPacket THEN 1 ELSE last_sent_packet + 1

With(f, x, value) ==
  [y \in DOMAIN f \union {x} |-> IF y = x THEN value ELSE f[y]]

(* BbrModel::on_pkt_sent.                                                  *)
Send(bytes, need_retransmit) ==
  LET seq_no == NextPacket IN
  /\ Idle /\ seq_no <= scenario.max_packet
  /\ last_send_time = Unset \/ clock' - last_send_time >= scenario.send_gap
  /\ last_send_time' = clock'
  /\ RoundOnPktSent(seq_no)
  /\ SamplerOnPacketSent(seq_no, bytes, bytes_in_flight, clock',
                         need_retransmit)
  /\ sent' = With(sent, seq_no, [bytes |-> bytes, round |-> round_trip_count])
  /\ IF need_retransmit
       THEN /\ bytes_in_flight' = bytes_in_flight + bytes
            /\ outstanding' = outstanding \union {seq_no}
            /\ while_inflight' = With(while_inflight, seq_no, 0)
       ELSE UNCHANGED <<bytes_in_flight, outstanding, while_inflight>>
  /\ UNCHANGED <<event, todo_lost, todo_acked, removed_up_to, delivered,
                 scenario>>

(* The sequence of a set of packets in increasing order.                   *)
Ascending(packets) ==
  CHOOSE seq \in [1..Cardinality(packets) -> packets] :
    \A i, j \in 1..Cardinality(packets) : i < j => seq[i] < seq[j]

BytesOf(packets) == MapThenSumSet(LAMBDA p : sent[p].bytes, packets)

(* Packets an acknowledgement can name now: a round trip has passed.       *)
Acknowledgeable ==
  {p \in IF scenario.duplicates THEN DOMAIN state_map ELSE outstanding :
     p \in DOMAIN state_map =>
       clock' - state_map[p].sent_time >= scenario.min_rtt}

(* BbrAlgorithm and BbrModel::on_congestion_event up to the sampler's      *)
(* loops: the round counter sees the last acknowledged packet first.       *)
StartEvent(acked, lost) ==
  LET ackedSeq == Ascending(acked)
      lostSeq  == Ascending(lost)
  IN
  /\ Idle /\ acked \union lost # {}
  /\ acked \subseteq Acknowledgeable /\ Cardinality(acked) <= MaxAcked
  /\ lost \subseteq outstanding \ acked
  /\ scenario.in_order =>
       \A p \in acked, q \in outstanding \ (acked \union lost) : p < q
  /\ \E max_bw \in MaxBwInputs, upper_bound \in UpperBoundInputs :
       event' = [handled |-> TRUE, acked |-> ackedSeq, lost |-> lostSeq,
                 max_bw |-> max_bw, upper_bound |-> upper_bound]
  /\ todo_lost' = lostSeq
  /\ todo_acked' = ackedSeq
  /\ bytes_in_flight' =
       bytes_in_flight - BytesOf((acked \union lost) \intersect outstanding)
  /\ outstanding' = outstanding \ (acked \union lost)
  /\ IF acked = {} THEN UNCHANGED roundVars
     ELSE RoundOnPktAcked(ackedSeq[Len(ackedSeq)])
  /\ event_sample' = EmptySample
  /\ UNCHANGED <<last_sent_packet, totalVars, lastAckVars, appVars, state_map,
                 pointVars, heightVars, last_send_time, removed_up_to,
                 historyVars, scenario>>

LosePacket ==
  /\ ~Idle /\ todo_lost # <<>>
  /\ OnPktLost(Head(todo_lost), sent[Head(todo_lost)].bytes)
  /\ todo_lost' = Tail(todo_lost)
  /\ UNCHANGED <<roundVars, clock, last_send_time, bytes_in_flight,
                 outstanding, event, todo_acked, removed_up_to, historyVars,
                 scenario>>

(* In the history a packet's first acknowledgement counts for every packet *)
(* in flight, itself included, and ends its own flight; a repeated one     *)
(* counts for none.                                                        *)
AckPacket ==
  LET p == Head(todo_acked) IN
  /\ ~Idle /\ todo_lost = <<>> /\ todo_acked # <<>>
  /\ OnPktAcked(p, clock)
  /\ todo_acked' = Tail(todo_acked)
  /\ while_inflight' =
       [q \in DOMAIN while_inflight |->
          while_inflight[q] + IF {p, q} \intersect delivered = {}
                                /\ p \in DOMAIN state_map
                                THEN sent[p].bytes ELSE 0]
  /\ delivered' = delivered \union {p}
  /\ UNCHANGED <<roundVars, clock, last_send_time, bytes_in_flight,
                 outstanding, event, todo_lost, removed_up_to, sent, scenario>>

(* The sampler's end of the event; the mode handlers run next and restart  *)
(* the round when they start a probe phase.                                *)
EndEvent ==
  /\ ~Idle /\ todo_lost = <<>> /\ todo_acked = <<>>
  /\ FinishSample(event.acked, event.lost, event.max_bw, event.upper_bound,
                  round_trip_count)
  /\ event' = NoEvent
  /\ RoundRestart \/ UNCHANGED roundVars
  /\ UNCHANGED <<clock, last_send_time, bytes_in_flight,
                 outstanding, todo_lost, todo_acked, removed_up_to,
                 historyVars, scenario>>

AppLimited ==
  /\ Idle /\ scenario.app_limits /\ OnAppLimited
  /\ UNCHANGED <<roundVars, envVars, historyVars, scenario>>

(* The sender gives a packet up: it leaves its count with the sampler's.   *)
Neuter(p) ==
  /\ Idle /\ scenario.neutering /\ p \in outstanding
  /\ OnPktNeutered(p)
  /\ outstanding' = outstanding \ {p}
  /\ bytes_in_flight' = bytes_in_flight - sent[p].bytes
  /\ UNCHANGED <<roundVars, clock, last_send_time, event, todo_lost,
                 todo_acked, removed_up_to, historyVars, scenario>>

(* BbrModel::end_congestion_event's call, with the least packet still      *)
(* awaited, or the next one to be sent.                                    *)
RemoveObsolete(up_to) ==
  /\ Idle /\ scenario.neutering
  /\ up_to \in 1..NextPacket /\ \A p \in outstanding : up_to <= p
  /\ RemoveObsoletePkts(up_to)
  /\ removed_up_to' = Max({up_to, removed_up_to})
  /\ UNCHANGED <<roundVars, clock, last_send_time, bytes_in_flight,
                 outstanding, event, todo_lost, todo_acked, historyVars,
                 scenario>>

Next ==
  \/ \E ticks \in scenario.time_steps : Passes(ticks) /\
       \/ \E bytes \in Sizes, need \in scenario.need_retransmit : Send(bytes, need)
       \/ \E acked \in SUBSET (outstanding \union DOMAIN state_map),
             lost \in SUBSET outstanding : StartEvent(acked, lost)
  \/ LosePacket \/ AckPacket \/ EndEvent
  \/ AppLimited
  \/ \E p \in outstanding : Neuter(p)
  \/ \E up_to \in 1..(scenario.max_packet + 1) : RemoveObsolete(up_to)

Spec == Init /\ [][Next]_vars

-----------------------------------------------------------------------------
TypeOK ==
  /\ RoundTypeOK
  /\ {total_bytes_sent, total_bytes_acked, total_bytes_lost,
      total_bytes_neutered, total_bytes_sent_at_last_acked_packet,
      total_bytes_acked_after_last_ack_event, aggregation_epoch_bytes,
      last_sent_packet, end_of_app_limited_phase, clock, bytes_in_flight}
       \subseteq Nat
  /\ {last_acked_packet_sent_time, last_acked_packet_ack_time,
      aggregation_epoch_start_time, last_send_time} \subseteq Nat \union {Unset}
  /\ is_app_limited \in BOOLEAN
  /\ estimates \in EstimatesType
  /\ DOMAIN state_map \subseteq 1..scenario.max_packet
  /\ \A p \in DOMAIN state_map : state_map[p].state \in SendTimeState
  /\ event_sample.last_packet_send_state \in SendTimeState
  /\ event_sample.extra_acked \in Nat
  /\ outstanding \subseteq 1..scenario.max_packet

(* No unsigned difference of the sampler can wrap: what was sent up to the *)
(* last ack is at most what was sent before the packet itself, and no      *)
(* recorded count of acknowledged bytes is ahead of the current one        *)
(* (bandwidth_sampler.cpp:129, 210, 219, 230).                             *)
CountersConsistent ==
  /\ \A p \in DOMAIN state_map :
       LET pkt == state_map[p] IN
       /\ pkt.total_sent_bytes_at_last_acked_pkt <= pkt.state.total_bytes_sent
       /\ pkt.state.total_bytes_sent <= total_bytes_sent
       /\ pkt.state.total_bytes_acked <= total_bytes_acked
  /\ \A i \in DOMAIN a0_candidates :
       a0_candidates[i].total_bytes_acked <= total_bytes_acked
  /\ total_bytes_acked_after_last_ack_event <= total_bytes_acked

(* choose_a0 scans for the first candidate with more bytes acknowledged:   *)
(* the scan is right only because the candidates stay in order, through    *)
(* quiet periods, repeated timestamps and trimming.                        *)
CandidatesOrdered ==
  \A i \in 1..(Len(a0_candidates) - 1) :
    /\ a0_candidates[i].total_bytes_acked
         <= a0_candidates[i + 1].total_bytes_acked
    /\ a0_candidates[i].ack_time <= a0_candidates[i + 1].ack_time

(* Dropping old candidates never takes away the one a packet in flight     *)
(* will need: unless a later packet was acknowledged first, the oldest     *)
(* candidate left is from before the packet was sent.                      *)
TrimmingKeepsNeededCandidate ==
  \A p \in outstanding \intersect DOMAIN state_map :
    (\A q \in delivered : q < p) =>
      /\ a0_candidates # <<>>
      /\ a0_candidates[1].total_bytes_acked
           <= state_map[p].state.total_bytes_acked

(* assert(a0.ack_time < ack_time), bandwidth_sampler.cpp:218: the packet   *)
(* about to be handled has a positive interval to measure over.            *)
AckIntervalPositive ==
  todo_lost = <<>> /\ todo_acked # <<>> /\ Head(todo_acked) \in DOMAIN state_map
    => A0(state_map[Head(todo_acked)]).ack_time < clock

(* While the sampler is app-limited every packet sent after the mark       *)
(* carries the flag, so its sample cannot pass for one of a busy sender    *)
(* (bandwidth_sampler.h:200-204).                                          *)
AppLimitedPacketsMarked ==
  is_app_limited =>
    \A p \in DOMAIN state_map :
      (end_of_app_limited_phase = NoPacket \/ p > end_of_app_limited_phase)
        => state_map[p].state.is_app_limited

(* A paced sender measures no more than its own pace, however closely the  *)
(* acks are squeezed together (the case of the test CompressedAck); it     *)
(* holds when acks come in order.                                          *)
PaceBoundsSamples ==
  event_sample.sample_max_bandwidth * scenario.send_gap <= RateUnit * Max(Sizes)

(* "INFLIGHT(p) is the number of bytes acked while p is inflight" (bandwidth *)
(* _sampler.h:84-86): no acknowledged packet samples more than that.       *)
InflightSampleExact ==
  [][AckPacket /\ Head(todo_acked) \in DOMAIN state_map =>
       total_bytes_acked' - state_map[Head(todo_acked)].state.total_bytes_acked
         = while_inflight'[Head(todo_acked)]]_vars

(* A round takes a round trip: the packet whose ack ends it was sent after *)
(* the round began (round_trip_counter.h:16-23).                           *)
RoundTakesARoundTrip ==
  [][round_trip_count' # round_trip_count =>
       sent[event'.acked[Len(event'.acked)]].round = round_trip_count]_vars

(* remove_obsolete_pkts(up_to) removes "[0, up_to)" (bandwidth_sampler.cpp:*)
(* 282 and bandwidth_sampler.h:169).                                       *)
ObsoleteRemoved == \A p \in DOMAIN state_map : p >= removed_up_to
=============================================================================
