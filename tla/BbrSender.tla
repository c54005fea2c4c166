----------------------------- MODULE BbrSender ------------------------------
(***************************************************************************)
(* BbrSender (bbr_sender.h, bbr_sender.cpp): packets are sent while the    *)
(* congestion window has room and queued otherwise; acknowledgements free  *)
(* the window and drain the queue.  Around it: an application that         *)
(* submits numbered packets, a peer whose acknowledgements may come after  *)
(* the packet was declared lost, repeat or name packets never sent, a loss *)
(* detector, and the BBR algorithm, of which the sender sees the           *)
(* congestion window only (BbrAlgorithm models the rest).  The loop of     *)
(* check_after_acked is the phase "draining", in which nothing else runs.  *)
(***************************************************************************)
EXTENDS CircularBuffer, FiniteSetsExt

CONSTANTS
  FirstPacket, LastPacket,  \* bound: the application's packet numbers
  Sizes,            \* packet sizes
  Cwnds,            \* values BbrAlgorithm may give cur_cwnd_
  SizeModulus,      \* number of values of a size_t
  kDefaultThreshold,\* LossDetect's reordering threshold, 2
  LossVerdicts,     \* TRUE: the loss detector reports losses
  Duplicates,       \* TRUE: the network repeats acknowledgements
  FakeAcks,         \* TRUE: on_pkt_ack is called for packets never sent
  FakeTrunks        \* TRUE: on_pkts_ack is called for packets never sent

ASSUME SenderAssumption ==
  /\ FirstPacket \in Nat \ {0} /\ LastPacket \in Nat
  /\ Sizes \subseteq Nat \ {0}
  /\ Cwnds \subseteq Nat \ {0} /\ Cwnds # {}
  /\ SizeModulus \in Nat
  /\ \A c \in Cwnds : c < SizeModulus
  /\ kDefaultThreshold \in Nat
  /\ {LossVerdicts, Duplicates, FakeAcks, FakeTrunks} \subseteq BOOLEAN

VARIABLES
  bytes_inflight,
  pkts_buffer,      \* PacketBuffer: a queue of packets
  cur_cwnd,         \* BbrAlgorithm::cur_cwnd_
  phase,            \* "idle", or "draining" inside check_after_acked
  reported,         \* the acked and lost packets of the last congestion event
  assert_failed,    \* an assert of the handlers has failed
  submitted,        \* history: packets the application handed over, in order
  transmitted,      \* history: packets given to the socket, in order
  outstanding,      \* history: sent, neither acknowledged nor declared lost
  acknowledged,     \* history: the numbers acknowledged
  recounted         \* history: bytes acknowledged of packets not outstanding

ackVars == <<acknowledged, recounted>>
vars == <<elems, bytes_inflight, pkts_buffer, cur_cwnd, phase, reported,
          assert_failed, submitted, transmitted, outstanding, ackVars>>

NoReport == [named |-> {}, acked |-> {}, lost |-> {}]

Init ==
  /\ BufferInit
  /\ bytes_inflight = 0
  /\ pkts_buffer = <<>>
  /\ cur_cwnd \in Cwnds
  /\ phase = "idle"
  /\ reported = NoReport
  /\ assert_failed = FALSE
  /\ submitted = <<>>
  /\ transmitted = <<>>
  /\ outstanding = {}
  /\ acknowledged = {}
  /\ recounted = 0

CanSend == bytes_inflight < cur_cwnd

(* send_pkt: the counters advance whatever the socket returns.             *)
SendPkt(packet) ==
  /\ elems' = Emplaced(packet.seq_no, packet)
  /\ bytes_inflight' = (bytes_inflight + packet.size) % SizeModulus
  /\ transmitted' = Append(transmitted, packet)
  /\ outstanding' = outstanding \union {packet}

NextNumber == FirstPacket + Len(submitted)

(* send_or_queued_pkt                                                      *)
SendOrQueued(size) ==
  LET packet == Packet(NextNumber, size) IN
  /\ phase = "idle" /\ NextNumber <= LastPacket
  /\ submitted' = Append(submitted, packet)
  /\ IF CanSend
       THEN SendPkt(packet) /\ UNCHANGED pkts_buffer
       ELSE /\ pkts_buffer' = Append(pkts_buffer, packet)
            /\ UNCHANGED <<elems, bytes_inflight, transmitted, outstanding>>
  /\ UNCHANGED <<cur_cwnd, phase, reported, assert_failed, ackVars>>

Found(key) == IF Get(key) = <<>> THEN {} ELSE {Get(key)[1]}

Bytes(packets) == MapThenSumSet(LAMBDA p : p.size, packets)

(* lost_bytes: what the history says of the lost packets.                  *)
LostBytes(lost) == Bytes(UNION {Found(p.seq_no) : p \in lost})

(* The loss detector (declared in loss_detect.h, not implemented): packets *)
(* outstanding for longer than the reordering threshold when the first ack *)
(* of a later packet comes in.                                             *)
LossVerdict(named) ==
  IF ~LossVerdicts THEN {{}}
  ELSE SUBSET {p \in outstanding :
                 /\ p.seq_no \notin named
                 /\ \E q \in outstanding :
                      /\ q.seq_no \in named
                      /\ p.seq_no + kDefaultThreshold <= q.seq_no}

(* The bytes leave bytes_inflight_, lost ones first, each difference under *)
(* its own assert and modulo the width of size_t.                          *)
Subtract(lost_bytes, acked_bytes) ==
  LET rest == (bytes_inflight - lost_bytes) % SizeModulus IN
  /\ bytes_inflight' = (rest - acked_bytes) % SizeModulus
  /\ assert_failed' = (\/ assert_failed
                       \/ bytes_inflight < lost_bytes
                       \/ rest < acked_bytes)

(* A mutant: a loss cuts the window without a floor.                       *)
CongestionEventUnfloored(named, acked, lost) ==
  /\ IF lost = {} THEN cur_cwnd' \in Cwnds ELSE cur_cwnd' = cur_cwnd - Bytes(lost)
  /\ reported' = [named |-> named, acked |-> acked, lost |-> lost]

(* BbrAlgorithm::on_congestion_event as the sender sees it: a new window.  *)
CongestionEvent(named, acked, lost) ==
  /\ cur_cwnd' \in Cwnds
  /\ reported' = [named |-> named, acked |-> acked, lost |-> lost]

(* The packets sent under these numbers.                                   *)
SentAs(named) ==
  {transmitted[i] : i \in {i \in DOMAIN transmitted : transmitted[i].seq_no \in named}}

(* What the history keeps of an acknowledgement: the packets named leave   *)
(* outstanding; those that left it before, acknowledged or declared lost,  *)
(* are counted again.                                                      *)
Acknowledged(named, lost) ==
  /\ outstanding' = (outstanding \ lost) \ SentAs(named)
  /\ acknowledged' = acknowledged \union named
  /\ recounted' = recounted + Bytes(SentAs(named) \ outstanding)

(* A mutant: the lost packets stay in flight.                              *)
OnPktAckKeepsLost(seq_no) ==
  /\ phase = "idle"
  /\ \E lost \in LossVerdict({seq_no}), p \in Found(seq_no) :
       /\ p.seq_no = seq_no
       /\ Subtract(0, p.size)
       /\ CongestionEvent({seq_no}, {p}, lost)
       /\ Acknowledged({seq_no}, lost)
  /\ phase' = "draining"
  /\ UNCHANGED <<elems, pkts_buffer, submitted, transmitted>>

(* on_pkt_ack for a packet the history knows.                              *)
OnPktAck(seq_no) ==
  /\ phase = "idle"
  /\ \E lost \in LossVerdict({seq_no}), p \in Found(seq_no) :
       /\ p.seq_no = seq_no
       /\ Subtract(LostBytes(lost), p.size)
       /\ CongestionEvent({seq_no}, {p}, lost)
       /\ Acknowledged({seq_no}, lost)
  /\ phase' = "draining"
  /\ UNCHANGED <<elems, pkts_buffer, submitted, transmitted>>

(* on_pkt_ack for any other packet: the early return comes after the lost  *)
(* bytes are subtracted, and before they are reported or the queue looked  *)
(* at.                                                                     *)
OnUnknownPktAck(seq_no) ==
  /\ phase = "idle"
  /\ \A p \in Found(seq_no) : p.seq_no # seq_no
  /\ \E lost \in LossVerdict({seq_no}) :
       /\ Subtract(LostBytes(lost), 0)
       /\ Acknowledged({}, lost)
  /\ UNCHANGED <<elems, pkts_buffer, cur_cwnd, phase, reported, submitted,
                 transmitted>>

(* on_pkts_ack for the numbers of its trunks, which do not overlap: every  *)
(* packet found under one of them counts, whatever its own number.         *)
OnPktsAck(named) ==
  LET hits == {n \in named : Get(n) # <<>>} IN
  /\ phase = "idle"
  /\ \E lost \in LossVerdict(named) :
       /\ Subtract(LostBytes(lost), MapThenSumSet(LAMBDA n : Get(n)[1].size, hits))
       /\ CongestionEvent(named, {Get(n)[1] : n \in hits}, lost)
       /\ Acknowledged(named, lost)
  /\ phase' = "draining"
  /\ UNCHANGED <<elems, pkts_buffer, submitted, transmitted>>

(* A mutant: the loop runs once.                                           *)
DrainsJustOne ==
  /\ phase = "draining" /\ pkts_buffer # <<>> /\ CanSend
  /\ SendPkt(Head(pkts_buffer))
  /\ pkts_buffer' = Tail(pkts_buffer)
  /\ phase' = "idle"
  /\ UNCHANGED <<cur_cwnd, reported, assert_failed, submitted, ackVars>>

(* A mutant: the newest queued packet goes first.                          *)
DrainNewest ==
  /\ phase = "draining" /\ pkts_buffer # <<>> /\ CanSend
  /\ SendPkt(pkts_buffer[Len(pkts_buffer)])
  /\ pkts_buffer' = SubSeq(pkts_buffer, 1, Len(pkts_buffer) - 1)
  /\ UNCHANGED <<cur_cwnd, phase, reported, assert_failed, submitted, ackVars>>

(* One round of check_after_acked's loop, and its end.                     *)
DrainOne ==
  /\ phase = "draining" /\ pkts_buffer # <<>> /\ CanSend
  /\ SendPkt(Head(pkts_buffer))
  /\ pkts_buffer' = Tail(pkts_buffer)
  /\ UNCHANGED <<cur_cwnd, phase, reported, assert_failed, submitted, ackVars>>

(* A mutant: the loop waits for the queue to empty.                        *)
DrainDoneWhenEmpty ==
  /\ phase = "draining" /\ pkts_buffer = <<>>
  /\ phase' = "idle"
  /\ UNCHANGED <<elems, bytes_inflight, pkts_buffer, cur_cwnd, reported,
                 assert_failed, submitted, transmitted, outstanding, ackVars>>

DrainDone ==
  /\ phase = "draining" /\ ~(pkts_buffer # <<>> /\ CanSend)
  /\ phase' = "idle"
  /\ UNCHANGED <<elems, bytes_inflight, pkts_buffer, cur_cwnd, reported,
                 assert_failed, submitted, transmitted, outstanding, ackVars>>

Sent == {transmitted[i].seq_no : i \in DOMAIN transmitted}
Awaited == {p.seq_no : p \in outstanding}
Unsent == (0..(LastPacket + 1)) \ Sent

(* The numbers an acknowledgement may name: packets not yet acknowledged,  *)
(* late ones of packets declared lost included, and what the constants add.*)
Ackable(fakes) ==
  (IF Duplicates THEN Sent ELSE Sent \ acknowledged)
    \union (IF fakes THEN Unsent ELSE {})

Ack ==
  \/ \E n \in Ackable(FakeAcks) : OnPktAck(n)
  \/ \E named \in SUBSET Ackable(FakeTrunks) : named # {} /\ OnPktsAck(named)

Next ==
  \/ \E size \in Sizes : SendOrQueued(size)
  \/ Ack
  \/ \E n \in Ackable(FakeAcks) : OnUnknownPktAck(n)
  \/ DrainOne
  \/ DrainDone

Spec == Init /\ [][Next]_vars

(* The loop of check_after_acked runs to its end, and the acknowledgement  *)
(* of every packet sent is handled in the end, however many others are     *)
(* handled before it.                                                      *)
Fairness ==
  /\ WF_vars(DrainOne)
  /\ WF_vars(DrainDone)
  /\ \A n \in FirstPacket..LastPacket : SF_vars(n \in Awaited /\ OnPktAck(n))

FairSpec == Spec /\ Fairness

-----------------------------------------------------------------------------
PacketType == [seq_no : FirstPacket..LastPacket, size : Sizes]

TypeOK ==
  /\ \A t \in DOMAIN elems : elems[t] \in Seq(PacketType \union {DefaultPacket})
  /\ bytes_inflight \in 0..(SizeModulus - 1)
  /\ pkts_buffer \in Seq(PacketType)
  /\ cur_cwnd \in Cwnds
  /\ phase \in {"idle", "draining"}
  /\ assert_failed \in BOOLEAN
  /\ submitted \in Seq(PacketType)
  /\ transmitted \in Seq(PacketType)
  /\ outstanding \subseteq PacketType
  /\ acknowledged \subseteq Nat
  /\ recounted \in Nat

(* bytes_inflight_, "total sent but didn't acked" (bbr_sender.h:60), is    *)
(* the size of the packets sent and neither acknowledged nor declared      *)
(* lost, and no assert of the handlers fails, until an acknowledgement     *)
(* names a packet that is neither: a repeated one, or the late one of a    *)
(* packet declared lost.  From then on it is short of that size by exactly *)
(* what was counted again, and wraps when it falls below zero              *)
(* (bbr_sender.cpp:53, 61, 85, 107).                                       *)
InflightExact ==
  /\ recounted = 0 => bytes_inflight = Bytes(outstanding) /\ ~assert_failed
  /\ bytes_inflight = (Bytes(outstanding) - recounted) % SizeModulus

Queue == INSTANCE Fifo WITH
  Items <- PacketType, accepted <- submitted, pending <- pkts_buffer,
  delivered <- transmitted, open <- TRUE

(* The sender is a queue: packets leave in the order they were handed      *)
(* over, each once, and one is sent directly only when none waits,         *)
(* although send_or_queued_pkt does not look at the queue.                 *)
QueueIsFifo == Queue!Spec

(* Between two handlers a packet waits only for the window: every handler  *)
(* that may free the window drains the queue, except the early return of   *)
(* on_pkt_ack (bbr_sender.cpp:56-59).                                      *)
QueueWaitsForWindow == phase = "idle" /\ pkts_buffer # <<>> => ~CanSend

(* pkts_history_ holds "all sent but not acked packets" (bbr_sender.h:51). *)
HistoryHoldsUnacked == \A p \in outstanding : Get(p.seq_no) = <<p>>

(* "if we received fake ack-frame, ignore it" (bbr_sender.cpp:97): what    *)
(* BBR is told was acknowledged are sent packets the frame named.          *)
FakeAcksIgnored ==
  \A p \in reported.acked : p.seq_no \in reported.named \intersect Sent

(* assert(bytes_inflight_ >= ...), bbr_sender.cpp:52, 60, 84 and 106.      *)
AssertionsHold == ~assert_failed

(* Every packet handed over is sent in the end, unless bytes were counted  *)
(* again: bytes_inflight_ may then wrap, and the window never opens.       *)
QueueDrains ==
  \A n \in 1..(LastPacket - FirstPacket + 1) :
    Len(submitted) = n ~> Len(transmitted) >= n \/ recounted > 0
=============================================================================
