-------------------------- MODULE RoundTripCounter --------------------------
(***************************************************************************)
(* RoundTripCounter (round_trip_counter.h): a round trip ends when a       *)
(* packet is acknowledged that was sent after the previous round ended.    *)
(***************************************************************************)
EXTENDS Integers

CONSTANT NoPacket   \* uint64 max, above every sequence number in use

ASSUME NoPacketAssumption == NoPacket \in Nat

VARIABLES
  round_trip_count,
  last_sent_packet_no,
  end_of_round_trip    \* last packet sent when the current round began

roundVars == <<round_trip_count, last_sent_packet_no, end_of_round_trip>>

RoundInit ==
  /\ round_trip_count = 0
  /\ last_sent_packet_no = NoPacket
  /\ end_of_round_trip = 0

RoundTypeOK ==
  /\ round_trip_count \in Nat
  /\ last_sent_packet_no \in Nat
  /\ end_of_round_trip \in Nat

RoundOnPktSent(seq_no) ==
  /\ last_sent_packet_no' = seq_no
  /\ UNCHANGED <<round_trip_count, end_of_round_trip>>

(* A mutant: the packet that closed the previous round closes this one.    *)
EndsRoundAgain(acked_seq_no) == acked_seq_no >= end_of_round_trip

EndsRound(acked_seq_no) == acked_seq_no > end_of_round_trip

RoundOnPktAcked(acked_seq_no) ==
  IF EndsRound(acked_seq_no)
    THEN /\ round_trip_count' = round_trip_count + 1
         /\ end_of_round_trip' = last_sent_packet_no
         /\ UNCHANGED last_sent_packet_no
    ELSE UNCHANGED roundVars

(* BbrModel::restart_round calls it while a probe phase starts.            *)
RoundRestart ==
  /\ end_of_round_trip' = last_sent_packet_no
  /\ UNCHANGED <<round_trip_count, last_sent_packet_no>>
=============================================================================
