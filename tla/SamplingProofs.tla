--------------------------- MODULE SamplingProofs ---------------------------
(***************************************************************************)
(* The bandwidth sampler never wraps a difference, keeps the a0 candidates *)
(* it will need in order, marks app-limited packets and counts round trips *)
(* as it should: for any packets, sizes, clocks and scenarios. Over a      *)
(* network that acknowledges no packet twice its ack intervals are         *)
(* positive and its inflight samples exact, and if the acks come in order  *)
(* a paced sender measures no more than its pace.                          *)
(***************************************************************************)
EXTENDS Sampling, SumTheorems, SequenceTheorems

(***************************************************************************)
(* The invariant                                                           *)
(***************************************************************************)
Stamp == Nat \union {Unset}
PointType == [ack_time : Stamp, total_bytes_acked : Nat]
PacketType ==
  [bytes : Nat \ {0}, sent_time : Nat, total_sent_bytes_at_last_acked_pkt : Nat,
   last_acked_pkt_sent_time : Stamp, last_acked_pkt_ack_time : Stamp,
   state : SendTimeState]
SampleType ==
  [sample_max_bandwidth : Nat, sample_is_app_limited : BOOLEAN,
   sample_rtt : Nat, sample_max_inflight : Nat, extra_acked : Nat,
   last_packet_send_state : SendTimeState, lost_state : SendTimeState,
   acked_state : SendTimeState]
EventType ==
  [handled : BOOLEAN, acked : Seq(Nat), lost : Seq(Nat), max_bw : Nat,
   upper_bound : Nat]

Tracked == DOMAIN state_map
Known == DOMAIN sent
AckedBefore(p) == state_map[p].state.total_bytes_acked

Typed ==
  /\ TypeOK
  /\ scenario \in Scenarios
  /\ state_map \in [Tracked -> PacketType]
  /\ event_sample \in SampleType
  /\ a0_candidates \in Seq(PointType)
  /\ ack_points[1] \in PointType /\ ack_points[2] \in PointType
  /\ sent \in [Known -> [bytes : Nat \ {0}, round : Nat]]
  /\ while_inflight \in [DOMAIN while_inflight -> Nat]
  /\ event \in EventType
  /\ todo_lost \in Seq(Known)
  /\ todo_acked \in Seq(Tracked)
  /\ Idle => todo_lost = <<>> /\ todo_acked = <<>>

(* The packets are numbered as they are sent.                              *)
Numbered ==
  /\ Known \subseteq 1..scenario.max_packet
  /\ last_sent_packet_no = last_sent_packet
  /\ \A p \in Known : last_sent_packet # NoPacket /\ p <= last_sent_packet
  /\ last_sent_packet # NoPacket => last_sent_packet \in 1..scenario.max_packet
  /\ delivered \subseteq Known
  /\ DOMAIN while_inflight \subseteq Known
  /\ Tracked \subseteq DOMAIN while_inflight
  /\ outstanding \subseteq Tracked
  /\ \A p \in Tracked : state_map[p].bytes = sent[p].bytes

InFlightCounted == bytes_in_flight = BytesOf(outstanding)

Timed ==
  /\ last_acked_packet_ack_time <= clock
  /\ aggregation_epoch_start_time <= last_acked_packet_ack_time
  /\ total_bytes_acked # 0 => last_acked_packet_ack_time # Unset
  /\ \A p \in Tracked : state_map[p].sent_time <= clock
  /\ \A i \in DOMAIN todo_acked : state_map[todo_acked[i]].sent_time < clock

(* The recorded counts never run ahead.                                    *)
Counted ==
  /\ CountersConsistent
  /\ total_bytes_sent_at_last_acked_packet <= total_bytes_sent
  /\ \A p, q \in Tracked : p < q => AckedBefore(p) <= AckedBefore(q)

Follows(a, b) ==
  /\ a.ack_time <= b.ack_time
  /\ a.total_bytes_acked <= b.total_bytes_acked

(* The points are in order, and the candidates before the next one.        *)
Points ==
  /\ Follows(ack_points[1], ack_points[2])
  /\ ack_points[2].ack_time <= clock
  /\ ack_points[2].total_bytes_acked <= total_bytes_acked
  /\ CandidatesOrdered
  /\ a0_candidates # <<>> =>
       Follows(a0_candidates[Len(a0_candidates)], less_recent_point)
  /\ Tracked # {} \/ total_bytes_acked # 0 => a0_candidates # <<>>

RoundsRecorded ==
  \A p \in Known : p > end_of_round_trip => sent[p].round = round_trip_count

SamplingInv ==
  /\ Typed /\ Numbered /\ InFlightCounted /\ Timed /\ Counted /\ Points
  /\ TrimmingKeepsNeededCandidate /\ AppLimitedPacketsMarked /\ RoundsRecorded

Awaited == outstanding \union {todo_acked[i] : i \in DOMAIN todo_acked}

(* A count no larger than the one a packet was sent with is no younger     *)
(* than the packet.                                                        *)
Dates(point, p) ==
  point.total_bytes_acked <= AckedBefore(p)
    => point.ack_time <= state_map[p].sent_time

AckedOnce ==
  /\ \A i, j \in DOMAIN todo_acked : todo_acked[i] = todo_acked[j] => i = j
  /\ \A i \in DOMAIN todo_acked : todo_acked[i] \notin outstanding \union delivered
  /\ outstanding \intersect delivered = {}

Dated ==
  /\ \A p \in Awaited :
       /\ Dates(ack_points[1], p) /\ Dates(ack_points[2], p)
       /\ \A i \in DOMAIN a0_candidates : Dates(a0_candidates[i], p)
  /\ \A i \in DOMAIN a0_candidates : a0_candidates[i].ack_time <= clock
  /\ a0_candidates # <<>> =>
       \/ a0_candidates[1].ack_time < clock
       \/ \A p \in Awaited : a0_candidates[1].ack_time <= state_map[p].sent_time

FlightsCounted ==
  \A p \in Tracked \ delivered :
    while_inflight[p] = total_bytes_acked - AckedBefore(p)

AckInv == AckedOnce /\ Dated /\ FlightsCounted

-----------------------------------------------------------------------------
(* Facts about the operators.                                              *)

LEMMA DivNat ==
  ASSUME NEW a \in Nat, NEW d \in Nat \ {0}
  PROVE  a \div d \in Nat
OBVIOUS

LEMMA TimesNat == \A a, b \in Nat : a * b \in Nat
OBVIOUS

LEMMA RateNat ==
  ASSUME NEW bytes \in Nat, NEW ticks \in Nat \ {0}
  PROVE  Rate(bytes, ticks) \in Nat
<1>1. RateUnit \in Nat
  BY SamplerAssumption
<1>2. bytes * RateUnit \in Nat
  BY <1>1, TimesNat
<1>. DEFINE a == bytes * RateUnit
<1>3. a \in Nat
  BY <1>2
<1>. HIDE DEF a
<1>4. a \div ticks \in Nat
  BY <1>3, DivNat
<1>. QED
  BY <1>4 DEF a, Rate

(* The sum of the sizes of packets.                                        *)
SizesOf(f, T) == MapThenSumSet(LAMBDA p : f[p].bytes, T)

LEMMA SizesIsTotal ==
  ASSUME NEW f, NEW T, IsFiniteSet(T)
  PROVE  SizesOf(f, T) = Total([p \in T |-> f[p].bytes], T)
<1>. DEFINE w == [p \in T |-> f[p].bytes]
            Sums(g) == g = [s \in SUBSET T |->
                              IF s = {} THEN 0 ELSE f[Pick(s)].bytes + g[s \ {Pick(s)}]]
            iter == CHOOSE g : Sums(g)
<1>1. SizesOf(f, T) = iter[T]
  BY DEF SizesOf, MapThenSumSet, MapThenFoldSet, Pick
<1>2. \A s \in SUBSET T : s # {} => Pick(s) \in T
  BY DEF Pick
<1>3. PICK g : SumsUp(g, w, T) /\ \A s \in SUBSET T : g[s] = Total(w, s)
  BY TotalFunction
<1>4. \A s \in SUBSET T : s # {} => w[Pick(s)] = f[Pick(s)].bytes
  BY <1>2
<1>. HIDE DEF w
<1>5. \A h : Sums(h) <=> SumsUp(h, w, T)
  BY <1>4 DEF SumsUp
<1>6. SumsUp(iter, w, T)
  <2>1. \E h : Sums(h)
    BY <1>3, <1>5
  <2>. HIDE DEF Sums
  <2>2. Sums(iter)
    BY <2>1, Zenon
  <2>. QED  BY <1>5, <2>2, Zenon
<1>7. iter[T] = g[T]
  <2>. HIDE DEF iter
  <2>. QED  BY <1>3, <1>6, SumsAgree
<1>. QED
  BY <1>1, <1>3, <1>7 DEF w

LEMMA SizesWeighted ==
  ASSUME NEW f, NEW S, IsFiniteSet(S), \A p \in S : f[p].bytes \in Nat,
         NEW T \in SUBSET S
  PROVE  LET w == [p \in S |-> f[p].bytes]
         IN  SizesOf(f, T) = Total(w, T) /\ \A p \in S : w[p] \in Nat
<1>. DEFINE w == [p \in S |-> f[p].bytes]
            v == [p \in T |-> f[p].bytes]
<1>1. IsFiniteSet(T)
  BY FS_Subset
<1>2. SizesOf(f, T) = Total(v, T)
  BY <1>1, SizesIsTotal
<1>3. \A p \in T : w[p] = v[p]
  OBVIOUS
<1>. HIDE DEF v
<1>4. Total(v, T) = Total(w, T)
  <2>. HIDE DEF w
  <2>. QED  BY <1>1, <1>3, TotalCongruent
<1>. QED
  BY <1>2, <1>4

LEMMA SizesNat ==
  ASSUME NEW f, NEW S, IsFiniteSet(S), \A p \in S : f[p].bytes \in Nat
  PROVE  SizesOf(f, S) \in Nat
<1>. DEFINE w == [p \in S |-> f[p].bytes]
<1>1. SizesOf(f, S) = Total(w, S) /\ \A p \in S : w[p] \in Nat
  BY SizesWeighted
<1>. HIDE DEF w
<1>. QED
  BY <1>1, TotalNat

LEMMA SizesSplit ==
  ASSUME NEW f, NEW S, IsFiniteSet(S), \A p \in S : f[p].bytes \in Nat,
         NEW T \in SUBSET S
  PROVE  /\ SizesOf(f, S \ T) = SizesOf(f, S) - SizesOf(f, T)
         /\ SizesOf(f, S \ T) \in Nat /\ SizesOf(f, T) \in Nat
<1>. DEFINE w == [p \in S |-> f[p].bytes]
<1>1. /\ SizesOf(f, S) = Total(w, S) /\ SizesOf(f, T) = Total(w, T)
      /\ SizesOf(f, S \ T) = Total(w, S \ T)
      /\ \A p \in S : w[p] \in Nat
  BY SizesWeighted
<1>2. IsFiniteSet(T) /\ IsFiniteSet(S \ T)
  BY FS_Subset
<1>3. SizesOf(f, S \ T) \in Nat /\ SizesOf(f, T) \in Nat
  BY <1>2, SizesNat
<1>. HIDE DEF w
<1>4. Total(w, S \ T) = Total(w, S) - Total(w, T)
  BY <1>1, TotalSplit DEF Weights
<1>. QED
  BY <1>1, <1>3, <1>4

LEMMA SizesOne ==
  ASSUME NEW f, NEW p, f[p].bytes \in Nat
  PROVE  SizesOf(f, {p}) = f[p].bytes
<1>. DEFINE w == [q \in {p} |-> f[q].bytes]
<1>0. IsFiniteSet({}) /\ {} \union {p} = {p} /\ p \notin {}
  BY FS_EmptySet
<1>1. IsFiniteSet({p})
  BY <1>0, FS_AddElement
<1>2. SizesOf(f, {p}) = Total(w, {p}) /\ w[p] = f[p].bytes
  BY <1>1, SizesIsTotal
<1>. HIDE DEF w
<1>4. Weights(w, {} \union {p})
  BY <1>2 DEF Weights
<1>3. Total(w, {} \union {p}) = Total(w, {}) + w[p]
  BY <1>0, <1>4, TotalWith
<1>. QED
  BY <1>0, <1>2, <1>3, TotalOfNone

LEMMA SizesNone == \A f : SizesOf(f, {}) = 0
<1>. TAKE f
<1>1. SizesOf(f, {}) = Total([p \in {} |-> f[p].bytes], {})
  BY FS_EmptySet, SizesIsTotal
<1>. QED
  BY <1>1, TotalOfNone

(* A packet of the set has a size, so a set without size is empty.         *)
LEMMA SizesZero ==
  ASSUME NEW f, NEW S, IsFiniteSet(S), \A p \in S : f[p].bytes \in Nat \ {0},
         SizesOf(f, S) = 0
  PROVE  S = {}
<1>. SUFFICES ASSUME NEW p \in S PROVE FALSE
  OBVIOUS
<1>1. /\ SizesOf(f, S \ {p}) = SizesOf(f, S) - SizesOf(f, {p})
      /\ SizesOf(f, S \ {p}) \in Nat
  BY SizesSplit
<1>2. SizesOf(f, {p}) = f[p].bytes /\ f[p].bytes \in Nat \ {0}
  BY SizesOne
<1>. QED
  BY <1>1, <1>2

LEMMA SizesCongruent ==
  ASSUME NEW f, NEW g, NEW S, IsFiniteSet(S), \A p \in S : f[p].bytes = g[p].bytes
  PROVE  SizesOf(f, S) = SizesOf(g, S)
<1>. DEFINE v == [p \in S |-> f[p].bytes]
            w == [p \in S |-> g[p].bytes]
<1>1. v = w
  OBVIOUS
<1>. HIDE DEF v, w
<1>. QED
  BY <1>1, SizesIsTotal DEF v, w

(* A nonempty set of naturals with a bound has a largest element.          *)
LEMMA LargestNumber ==
  ASSUME NEW T \in SUBSET Nat, T # {}, NEW b \in Nat, \A k \in T : k <= b
  PROVE  \E m \in T : \A k \in T : k <= m
<1>. DEFINE U == {b - k : k \in T}
<1>0. \A k \in T : b - k \in Nat
  OBVIOUS
<1>1. U \in SUBSET Nat /\ U # {}
  BY <1>0
<1>2. PICK u \in U : \A v \in U : u <= v
  <2>. HIDE DEF U
  <2>. QED  BY <1>1, LeastNumber
<1>3. PICK m \in T : u = b - m
  BY <1>2
<1>4. \A k \in T : b - m <= b - k
  BY <1>2, <1>3
<1>. QED
  BY <1>3, <1>4

IsAscending(seq, S) ==
  /\ seq \in [1..Cardinality(S) -> S]
  /\ \A i, j \in 1..Cardinality(S) : i < j => seq[i] < seq[j]

LEMMA AscendingExists ==
  ASSUME NEW b \in Nat, NEW S \in SUBSET (0..b)
  PROVE  \E seq : IsAscending(seq, S)
<1>. DEFINE Bad == {Cardinality(T) : T \in {T \in SUBSET S : ~ \E seq : IsAscending(seq, T)}}
<1>0. IsFiniteSet(S) /\ \A T \in SUBSET S : IsFiniteSet(T) /\ Cardinality(T) \in Nat
  <2>1. IsFiniteSet(0..b)
    BY FS_Interval
  <2>. QED  BY <2>1, FS_Subset, FS_CardinalityType
<1>. SUFFICES ASSUME ~ \E seq : IsAscending(seq, S) PROVE FALSE
  OBVIOUS
<1>1. PICK n \in Bad : \A k \in Bad : n <= k
  <2>1. Bad \in SUBSET Nat /\ Bad # {}
    BY <1>0
  <2>. HIDE DEF Bad
  <2>. QED  BY <2>1, LeastNumber
<1>2. PICK T \in SUBSET S : (~ \E seq : IsAscending(seq, T)) /\ Cardinality(T) = n
  BY <1>1
<1>3. T # {}
  <2>. SUFFICES ASSUME T = {} PROVE FALSE
    OBVIOUS
  <2>1. Cardinality(T) = 0
    BY FS_EmptySet
  <2>2. IsAscending([i \in 1..0 |-> i], T)
    BY <2>1 DEF IsAscending
  <2>. QED  BY <1>2, <2>2
<1>4. PICK m \in T : \A k \in T : k <= m
  <2>1. T \in SUBSET Nat /\ \A k \in T : k <= b
    OBVIOUS
  <2>. QED  BY <1>3, <2>1, LargestNumber
<1>5. /\ Cardinality(T \ {m}) = n - 1 /\ n \in Nat /\ n # 0 /\ n - 1 \in Nat
  <2>1. Cardinality(T \ {m}) = Cardinality(T) - 1
    BY <1>0, <1>2, FS_RemoveElement
  <2>2. Cardinality(T \ {m}) \in Nat /\ Cardinality(T) \in Nat
    BY <1>0, <1>2
  <2>. QED  BY <1>2, <2>1, <2>2
<1>6. PICK seq : IsAscending(seq, T \ {m})
  BY <1>1, <1>2, <1>5
<1>. DEFINE longer == [i \in 1..n |-> IF i = n THEN m ELSE seq[i]]
<1>7. \A i \in 1..(n - 1) : seq[i] \in T /\ seq[i] # m
  BY <1>5, <1>6 DEF IsAscending
<1>8. longer \in [1..n -> T]
  BY <1>5, <1>7
<1>9. ASSUME NEW i \in 1..n, NEW j \in 1..n, i < j
      PROVE  longer[i] < longer[j]
  <2>1. i \in 1..(n - 1) /\ longer[i] = seq[i]
    BY <1>5, <1>9
  <2>2. seq[i] \in T /\ seq[i] # m
    BY <1>7, <2>1
  <2>5. T \subseteq Nat
    OBVIOUS
  <2>6. seq[i] \in Nat /\ m \in Nat /\ seq[i] <= m
    BY <1>4, <2>2, <2>5
  <2>3. CASE j = n
    BY <2>1, <2>2, <2>3, <2>6
  <2>4. CASE j # n
    <3>1. j \in 1..(n - 1) /\ longer[j] = seq[j]
      BY <1>5, <2>4
    <3>2. seq[i] < seq[j]
      BY <1>5, <1>6, <1>9, <2>1, <3>1 DEF IsAscending
    <3>. QED  BY <2>1, <3>1, <3>2
  <2>. QED  BY <2>3, <2>4
<1>10. IsAscending(longer, T)
  <2>. HIDE DEF longer
  <2>. QED  BY <1>2, <1>8, <1>9 DEF IsAscending
<1>. QED
  BY <1>2, <1>10

LEMMA AscendingProperties ==
  ASSUME NEW b \in Nat, NEW S \in SUBSET (0..b)
  PROVE  /\ Ascending(S) \in Seq(S)
         /\ Ascending(S) = <<>> <=> S = {}
         /\ \A i, j \in DOMAIN Ascending(S) : i < j => Ascending(S)[i] < Ascending(S)[j]
         /\ \A i, j \in DOMAIN Ascending(S) : Ascending(S)[i] = Ascending(S)[j] => i = j
<1>1. \E seq : IsAscending(seq, S)
  BY AscendingExists
<1>2. IsAscending(Ascending(S), S)
  <2>. DEFINE P(seq) == /\ seq \in [1..Cardinality(S) -> S]
                        /\ \A i, j \in 1..Cardinality(S) : i < j => seq[i] < seq[j]
  <2>1. Ascending(S) = CHOOSE seq : P(seq)
    BY DEF Ascending
  <2>2. \E seq : P(seq)
    BY <1>1 DEF IsAscending
  <2>. HIDE DEF P
  <2>3. P(Ascending(S))
    BY <2>1, <2>2, Zenon
  <2>. QED  BY <2>3 DEF P, IsAscending
<1>3. IsFiniteSet(S) /\ Cardinality(S) \in Nat
  <2>1. IsFiniteSet(0..b)
    BY FS_Interval
  <2>. QED  BY <2>1, FS_Subset, FS_CardinalityType
<1>. DEFINE a == Ascending(S)
            n == Cardinality(S)
<1>4. n \in Nat /\ a \in [1..n -> S] /\ \A i, j \in 1..n : i < j => a[i] < a[j]
  BY <1>2, <1>3 DEF IsAscending
<1>5. n = 0 <=> S = {}
  BY <1>3, FS_EmptySet
<1>. HIDE DEF a, n
<1>6. a \in Seq(S) /\ Len(a) = n /\ DOMAIN a = 1..n
  BY <1>4
<1>7. a = <<>> <=> S = {}
  BY <1>5, <1>6
<1>8. ASSUME NEW i \in 1..n, NEW j \in 1..n, a[i] = a[j]
      PROVE  i = j
  <2>0. S \subseteq Nat
    OBVIOUS
  <2>1. a[i] \in Nat /\ a[j] \in Nat
    BY <1>4, <2>0
  <2>2. ~ (i < j) /\ ~ (j < i)
    BY <1>4, <1>8, <2>1
  <2>. QED  BY <1>4, <2>2
<1>. QED
  BY <1>4, <1>6, <1>7, <1>8 DEF a

LEMMA ChosenProperties ==
  ASSUME a0_candidates \in Seq(PointType), a0_candidates # <<>>, NEW acked \in Nat
  PROVE  /\ ChosenA0(acked) \in 1..Len(a0_candidates)
         /\ \/ ChosenA0(acked) = 1
            \/ a0_candidates[ChosenA0(acked)].total_bytes_acked <= acked
<1>. DEFINE n == Len(a0_candidates)
            later == {i \in 2..n : a0_candidates[i].total_bytes_acked > acked}
            least == CHOOSE i \in later : \A j \in later : i <= j
<1>1. n \in Nat /\ n # 0
  OBVIOUS
<1>2. \A i \in 1..n : a0_candidates[i].total_bytes_acked \in Nat
  <2>1. \A i \in 1..n : a0_candidates[i] \in PointType
    OBVIOUS
  <2>2. \A e \in PointType : e.total_bytes_acked \in Nat
    BY DEF PointType
  <2>. QED  BY <2>1, <2>2
<1>3. ChosenA0(acked) = IF later = {} THEN n ELSE least - 1
  BY DEF ChosenA0
<1>4. CASE later = {}
  <2>1. n = 1 \/ n \in 2..n
    <3>. HIDE DEF n
    <3>. QED  BY <1>1
  <2>2. n = 1 \/ ~ (a0_candidates[n].total_bytes_acked > acked)
    BY <1>4, <2>1
  <2>3. n \in 1..n
    BY <1>1
  <2>4. n = 1 \/ a0_candidates[n].total_bytes_acked <= acked
    BY <1>2, <2>2, <2>3
  <2>. QED  BY <1>3, <1>4, <2>3, <2>4
<1>5. CASE later # {}
  <2>1. \E i \in later : \A j \in later : i <= j
    <3>1. later \in SUBSET Nat
      BY <1>1
    <3>. HIDE DEF later
    <3>. QED  BY <1>5, <3>1, LeastNumber
  <2>2. least \in later /\ \A j \in later : least <= j
    <3>. HIDE DEF later
    <3>. QED  BY <2>1
  <2>. HIDE DEF least
  <2>3. least \in 2..n
    BY <2>2
  <2>4. least - 1 \in 1..n /\ least - 1 \notin later
    <3>1. ~ (least <= least - 1) /\ least - 1 \in 1..n
      BY <1>1, <2>3
    <3>. QED  BY <2>2, <3>1
  <2>5. least - 1 = 1 \/ least - 1 \in 2..n
    BY <2>3
  <2>6. least - 1 = 1 \/ a0_candidates[least - 1].total_bytes_acked <= acked
    BY <1>2, <2>4, <2>5
  <2>. QED  BY <1>3, <1>5, <2>4, <2>6
<1>. QED
  BY <1>4, <1>5

(* Trimming leaves a nonempty tail that starts with the chosen candidate.  *)
LEMMA TrimmedProperties ==
  ASSUME a0_candidates \in Seq(PointType), a0_candidates # <<>>,
         NEW pkt \in PacketType
  PROVE  LET t == TrimmedCandidates(pkt)
             c == ChosenA0(pkt.state.total_bytes_acked)
         IN  /\ t \in Seq(PointType) /\ t # <<>>
             /\ A0(pkt) = t[1] /\ A0(pkt) \in PointType
             /\ t[Len(t)] = a0_candidates[Len(a0_candidates)]
             /\ Len(t) = Len(a0_candidates) - c + 1
             /\ \A i \in 1..Len(t) : /\ c + i - 1 \in 1..Len(a0_candidates)
                                     /\ t[i] = a0_candidates[c + i - 1]
<1>. DEFINE n == Len(a0_candidates)
            c == ChosenA0(pkt.state.total_bytes_acked)
            t == TrimmedCandidates(pkt)
<1>1. pkt.state.total_bytes_acked \in Nat
  BY DEF PacketType, SendTimeState
<1>2. c \in 1..n
  BY <1>1, ChosenProperties
<1>3. t = SubSeq(a0_candidates, c, n) /\ A0(pkt) = a0_candidates[c]
  BY DEF TrimmedCandidates, A0
<1>. HIDE DEF c, t
<1>4. n \in Nat /\ \A i \in 1..n : a0_candidates[i] \in PointType
  OBVIOUS
<1>5. /\ t \in Seq(PointType) /\ Len(t) = n - c + 1
      /\ \A i \in 1..(n - c + 1) : t[i] = a0_candidates[c + i - 1]
  BY <1>2, <1>3, <1>4, SubSeqProperties
<1>6. 1 \in 1..Len(t) /\ Len(t) \in 1..Len(t) /\ c + 1 - 1 = c /\ c + Len(t) - 1 = n
  BY <1>2, <1>4, <1>5
<1>7. t # <<>>
  BY <1>5, <1>6
<1>8. \A i \in 1..Len(t) : c + i - 1 \in 1..n
  BY <1>2, <1>4, <1>5
<1>9. t[1] = a0_candidates[c] /\ t[Len(t)] = a0_candidates[n]
  BY <1>5, <1>6
<1>10. A0(pkt) = t[1] /\ A0(pkt) \in PointType
  BY <1>2, <1>3, <1>4, <1>9
<1>. QED
  BY <1>5, <1>7, <1>8, <1>9, <1>10 DEF c, t

(* The next point is not earlier than the others, and the point that an    *)
(* epoch would leave as a candidate never moves back.                      *)
LEMMA UpdatedProperties ==
  ASSUME NEW points, points[1] \in PointType, points[2] \in PointType,
         Follows(points[1], points[2]),
         NEW time \in Nat, points[2].ack_time <= time,
         NEW acked \in Nat, points[2].total_bytes_acked <= acked
  PROVE  LET new == UpdatedPoints(points, time, acked)
             less(ps) == IF ps[1].total_bytes_acked # 0 THEN ps[1] ELSE ps[2]
         IN  /\ new[1] \in PointType /\ new[2] \in PointType
             /\ Follows(new[1], new[2])
             /\ new[2] = AckPoint(time, acked)
             /\ new[1] \in {points[1], points[2]}
             /\ Follows(less(points), less(new))
<1>1. /\ points[1].ack_time \in Int /\ points[2].ack_time \in Int
      /\ points[1].total_bytes_acked \in Nat /\ points[2].total_bytes_acked \in Nat
  BY DEF PointType, Stamp, Unset
<1>2. AckPoint(time, acked) \in PointType
  BY DEF AckPoint, PointType, Stamp
<1>3. CASE points[2].ack_time < time
  <2>1. UpdatedPoints(points, time, acked) = <<points[2], AckPoint(time, acked)>>
    BY <1>1, <1>3 DEF UpdatedPoints
  <2>. QED  BY <1>1, <1>2, <1>3, <2>1 DEF Follows, AckPoint
<1>4. CASE points[2].ack_time = time
  <2>1. UpdatedPoints(points, time, acked) = <<points[1], AckPoint(time, acked)>>
    BY <1>1, <1>4 DEF UpdatedPoints
  <2>. QED  BY <1>1, <1>2, <1>4, <2>1 DEF Follows, AckPoint
<1>. QED
  BY <1>1, <1>3, <1>4

LEMMA UpdateType ==
  ASSUME estimates \in EstimatesType, NEW sample \in Nat, NEW time \in Nat
  PROVE  update(sample, time) \in EstimatesType
<1>1. Estimate(sample, time) \in [sample : Nat, time : Nat]
  BY DEF Estimate
<1>2. reset(sample, time) \in EstimatesType
  BY <1>1 DEF reset, EstimatesType
<1>3. Ranked(sample, time) \in EstimatesType
  BY <1>1 DEF Ranked, EstimatesType
<1>4. ASSUME NEW es \in EstimatesType
      PROVE  Promoted(es, sample, time) \in EstimatesType
  <2>. DEFINE once == [i \in 1..3 |-> IF i = 3 THEN Estimate(sample, time) ELSE es[i + 1]]
  <2>1. once \in EstimatesType
    BY <1>1 DEF EstimatesType
  <2>. HIDE DEF once
  <2>2. [once EXCEPT ![1] = once[2], ![2] = once[3]] \in EstimatesType
    BY <2>1 DEF EstimatesType
  <2>. QED  BY <2>1, <2>2 DEF Promoted, once
<1>5. ASSUME NEW es \in EstimatesType
      PROVE  Renewed(es, sample, time) \in EstimatesType
  <2>1. /\ [es EXCEPT ![2] = Estimate(sample, time), ![3] = Estimate(sample, time)] \in EstimatesType
        /\ [es EXCEPT ![3] = Estimate(sample, time)] \in EstimatesType
    BY <1>1 DEF EstimatesType
  <2>. QED  BY <2>1 DEF Renewed
<1>. QED
  BY <1>2, <1>3, <1>4, <1>5 DEF update

LEMMA WithStateType ==
  ASSUME NEW s \in SendTimeState
  PROVE  WithState(s) \in SendTimeState
BY DEF SendTimeState, WithState

LEMMA NoStateType == NoSendTimeState \in SendTimeState
BY DEF SendTimeState, NoSendTimeState

LEMMA EmptySampleType == EmptySample \in SampleType
BY NoStateType, SamplerAssumption DEF SampleType, EmptySample

LEMMA MergedType ==
  ASSUME event_sample \in SampleType, NEW pkt \in PacketType,
         NEW bandwidth \in Nat, NEW rtt \in Nat, NEW acked \in Nat,
         pkt.state.total_bytes_acked <= acked
  PROVE  Merged(pkt, bandwidth, rtt, acked) \in SampleType
<1>1. pkt.state \in SendTimeState
  BY DEF PacketType
<1>2. WithState(pkt.state) \in SendTimeState
  BY <1>1, WithStateType
<1>3. pkt.state.total_bytes_acked \in Nat /\ pkt.state.is_app_limited \in BOOLEAN
  BY <1>1 DEF SendTimeState
<1>. DEFINE inflight == acked - pkt.state.total_bytes_acked
            st == WithState(pkt.state)
            lim == pkt.state.is_app_limited
            better == bandwidth # Infinity /\ bandwidth > event_sample.sample_max_bandwidth
            a == IF rtt < event_sample.sample_rtt THEN rtt ELSE event_sample.sample_rtt
            b == IF better THEN bandwidth ELSE event_sample.sample_max_bandwidth
            c == IF better THEN lim ELSE event_sample.sample_is_app_limited
            d == IF inflight > event_sample.sample_max_inflight THEN inflight
                 ELSE event_sample.sample_max_inflight
<1>4. inflight \in Nat
  BY <1>3
<1>. HIDE DEF inflight, better
<1>5. a \in Nat /\ b \in Nat /\ c \in BOOLEAN /\ d \in Nat
  BY <1>3, <1>4 DEF SampleType
<1>6. Merged(pkt, bandwidth, rtt, acked) =
        [event_sample EXCEPT !.acked_state = st, !.sample_rtt = a,
           !.sample_max_bandwidth = b, !.sample_is_app_limited = c,
           !.sample_max_inflight = d]
  BY DEF Merged, SampleType, inflight, better
<1>. HIDE DEF a, b, c, d, st
<1>7. st \in SendTimeState
  BY <1>2 DEF st
<1>. QED
  BY <1>5, <1>6, <1>7 DEF SampleType

-----------------------------------------------------------------------------
(* The initial states, and the actions one by one.                         *)

LEMMA BytesAreSizes ==
  /\ \A T : BytesOf(T) = SizesOf(sent, T)
  /\ (InFlightCounted <=> bytes_in_flight = SizesOf(sent, outstanding))
  /\ (InFlightCounted' <=> bytes_in_flight' = SizesOf(sent', outstanding'))
<1>1. \A T : BytesOf(T) = SizesOf(sent, T)
  BY DEF BytesOf, SizesOf, MapThenSumSet, MapThenFoldSet
<1>2. InFlightCounted <=> bytes_in_flight = SizesOf(sent, outstanding)
  BY <1>1 DEF InFlightCounted
<1>3. BytesOf(outstanding)' = SizesOf(sent', outstanding')
  BY DEF BytesOf, SizesOf, MapThenSumSet, MapThenFoldSet
<1>4. InFlightCounted' <=> bytes_in_flight' = SizesOf(sent', outstanding')
  BY <1>3 DEF InFlightCounted
<1>. QED
  BY <1>1, <1>2, <1>4

(* TypeOK, variable by variable.                                           *)
Flat ==
  /\ round_trip_count \in Nat /\ last_sent_packet_no \in Nat /\ end_of_round_trip \in Nat
  /\ total_bytes_sent \in Nat /\ total_bytes_acked \in Nat
  /\ total_bytes_lost \in Nat /\ total_bytes_neutered \in Nat
  /\ total_bytes_sent_at_last_acked_packet \in Nat
  /\ total_bytes_acked_after_last_ack_event \in Nat
  /\ aggregation_epoch_bytes \in Nat /\ last_sent_packet \in Nat
  /\ end_of_app_limited_phase \in Nat /\ clock \in Nat /\ bytes_in_flight \in Nat
  /\ last_acked_packet_sent_time \in Stamp /\ last_acked_packet_ack_time \in Stamp
  /\ aggregation_epoch_start_time \in Stamp /\ last_send_time \in Stamp
  /\ is_app_limited \in BOOLEAN
  /\ estimates \in EstimatesType
  /\ Tracked \subseteq 1..scenario.max_packet
  /\ \A p \in Tracked : state_map[p].state \in SendTimeState
  /\ event_sample.last_packet_send_state \in SendTimeState
  /\ event_sample.extra_acked \in Nat
  /\ outstanding \subseteq 1..scenario.max_packet

LEMMA Flattened == (TypeOK <=> Flat) /\ (TypeOK' <=> Flat')
BY DEF TypeOK, Flat, RoundTypeOK, Stamp, Tracked

LEMMA SamplingInit == Init => SamplingInv /\ AckInv
<1>. SUFFICES ASSUME Init PROVE SamplingInv /\ AckInv
  OBVIOUS
<1>. USE DEF Init, SamplerInit, RoundInit
<1>1. Tracked = {} /\ Known = {} /\ DOMAIN while_inflight = {}
  BY DEF Tracked, Known
<1>2. Typed
  <2>1. RoundTypeOK
    BY NoPacketAssumption DEF RoundTypeOK
  <2>2. EmptySample \in SampleType
    BY EmptySampleType
  <2>3. event_sample.last_packet_send_state \in SendTimeState /\ event_sample.extra_acked \in Nat
    BY <2>2 DEF SampleType
  <2>4. estimates \in EstimatesType
    BY DEF reset, Estimate, EstimatesType
  <2>5. AckPoint(Unset, 0) \in PointType
    BY DEF AckPoint, PointType, Stamp
  <2>6. event \in EventType
    BY DEF EventType, NoEvent
  <2>7. TypeOK
    <3>1. {total_bytes_sent, total_bytes_acked, total_bytes_lost,
           total_bytes_neutered, total_bytes_sent_at_last_acked_packet,
           total_bytes_acked_after_last_ack_event, aggregation_epoch_bytes,
           last_sent_packet, end_of_app_limited_phase, clock, bytes_in_flight}
            \subseteq Nat
      BY NoPacketAssumption
    <3>2. {last_acked_packet_sent_time, last_acked_packet_ack_time,
           aggregation_epoch_start_time, last_send_time} \subseteq Nat \union {Unset}
      OBVIOUS
    <3>3. DOMAIN state_map = {} /\ outstanding = {} /\ is_app_limited \in BOOLEAN
      BY <1>1 DEF Tracked
    <3>. QED  BY <2>1, <2>3, <2>4, <3>1, <3>2, <3>3 DEF TypeOK
  <2>8. state_map \in [Tracked -> PacketType]
    BY <1>1
  <2>9. sent \in [Known -> [bytes : Nat \ {0}, round : Nat]]
    BY <1>1
  <2>10. while_inflight \in [DOMAIN while_inflight -> Nat]
    BY <1>1
  <2>. QED  BY <2>2, <2>5, <2>6, <2>7, <2>8, <2>9, <2>10 DEF Typed
<1>3. Numbered
  BY <1>1 DEF Numbered
<1>4. InFlightCounted
  BY SizesNone, BytesAreSizes
<1>5. Timed
  BY <1>1 DEF Timed, Unset
<1>6. Counted
  BY <1>1 DEF Counted, CountersConsistent, Tracked
<1>7. Points
  <2>1. CandidatesOrdered
    BY DEF CandidatesOrdered
  <2>. QED  BY <1>1, <2>1 DEF Points, Follows, AckPoint, Unset
<1>8. TrimmingKeepsNeededCandidate /\ AppLimitedPacketsMarked /\ RoundsRecorded
  BY <1>1 DEF TrimmingKeepsNeededCandidate, AppLimitedPacketsMarked, RoundsRecorded, Tracked
<1>9. AckInv
  BY <1>1 DEF AckInv, AckedOnce, Dated, FlightsCounted, Awaited
<1>. QED
  BY <1>2, <1>3, <1>4, <1>5, <1>6, <1>7, <1>8, <1>9 DEF SamplingInv

LEMMA Stutters == ASSUME SamplingInv, UNCHANGED vars PROVE SamplingInv'
<1>. USE DEF vars, samplerVars, roundVars, envVars, historyVars, totalVars, lastAckVars,
            appVars, pointVars, heightVars
<1>1. InFlightCounted'
  BY BytesAreSizes DEF SamplingInv
<1>2. Typed' /\ Numbered'
  BY DEF SamplingInv, Typed, TypeOK, RoundTypeOK, Numbered, Tracked, Known, Idle
<1>3. Timed' /\ Counted'
  BY DEF SamplingInv, Timed, Counted, CountersConsistent, Tracked, AckedBefore
<1>4. Points'
  BY DEF SamplingInv, Points, CandidatesOrdered, Follows, less_recent_point, Tracked
<1>5. TrimmingKeepsNeededCandidate' /\ AppLimitedPacketsMarked' /\ RoundsRecorded'
  BY DEF SamplingInv, TrimmingKeepsNeededCandidate, AppLimitedPacketsMarked,
         RoundsRecorded, Known
<1>. QED
  BY <1>1, <1>2, <1>3, <1>4, <1>5 DEF SamplingInv

LEMMA StepAppLimited == ASSUME SamplingInv, AppLimited PROVE SamplingInv'
<1>. USE DEF AppLimited, OnAppLimited, roundVars, envVars, historyVars, totalVars,
            lastAckVars, pointVars, heightVars
<1>1. InFlightCounted'
  BY BytesAreSizes DEF SamplingInv
<1>2. Typed' /\ Numbered'
  BY DEF SamplingInv, Typed, TypeOK, RoundTypeOK, Numbered, Tracked, Known, Idle
<1>3. Timed' /\ Counted'
  BY DEF SamplingInv, Timed, Counted, CountersConsistent, Tracked, AckedBefore
<1>4. Points'
  BY DEF SamplingInv, Points, CandidatesOrdered, Follows, less_recent_point, Tracked
<1>5. TrimmingKeepsNeededCandidate' /\ RoundsRecorded'
  BY DEF SamplingInv, TrimmingKeepsNeededCandidate, RoundsRecorded, Known
<1>6. AppLimitedPacketsMarked'
  <2>1. \A p \in Tracked : p \in Nat /\ last_sent_packet \in Nat /\ last_sent_packet # NoPacket
                           /\ p <= last_sent_packet
    BY EnvironmentAssumption DEF SamplingInv, Typed, TypeOK, Numbered
  <2>. QED  BY <2>1 DEF AppLimitedPacketsMarked, Tracked
<1>. QED
  BY <1>1, <1>2, <1>3, <1>4, <1>5, <1>6 DEF SamplingInv

LEMMA StepLosePacket == ASSUME SamplingInv, LosePacket PROVE SamplingInv'
<1>. USE DEF LosePacket, OnPktLost, roundVars, historyVars, lastAckVars, appVars,
            pointVars, heightVars
<1>. DEFINE h == Head(todo_lost)
<1>0. Typed /\ Numbered
  BY DEF SamplingInv
<1>1. h \in Known /\ Tail(todo_lost) \in Seq(Known)
  <2>1. todo_lost \in Seq(Known) /\ todo_lost # <<>>
    BY <1>0 DEF Typed
  <2>. QED  BY <2>1, HeadTailProperties
<1>2. sent[h].bytes \in Nat
  BY <1>0, <1>1 DEF Typed
<1>. HIDE DEF h
<1>3. event_sample' \in SampleType
  <2>1. CASE h \notin DOMAIN state_map
    BY <1>0, <2>1 DEF Typed, h
  <2>2. CASE h \in DOMAIN state_map
    <3>1. state_map[h] \in PacketType
      BY <1>0, <2>2 DEF Typed, Tracked
    <3>2. state_map[h].state \in SendTimeState
      BY <3>1 DEF PacketType
    <3>3. WithState(state_map[h].state) \in SendTimeState
      BY <3>2, WithStateType
    <3>4. event_sample' = [event_sample EXCEPT !.lost_state = WithState(state_map[h].state)]
      BY <2>2 DEF h
    <3>5. event_sample \in SampleType
      BY <1>0 DEF Typed
    <3>. QED  BY <3>3, <3>4, <3>5 DEF SampleType
  <2>. QED  BY <2>1, <2>2
<1>4. InFlightCounted'
  BY BytesAreSizes DEF SamplingInv
<1>5. Typed'
  <2>1. event_sample'.last_packet_send_state \in SendTimeState /\ event_sample'.extra_acked \in Nat
    BY <1>3 DEF SampleType
  <2>5. Flat
    BY <1>0, Flattened DEF Typed
  <2>6. total_bytes_lost' = total_bytes_lost + sent[h].bytes
    BY DEF h
  <2>2. total_bytes_lost' \in Nat
    <3>1. total_bytes_lost \in Nat
      BY <2>5 DEF Flat
    <3>. DEFINE b == sent[h].bytes
    <3>2. b \in Nat /\ total_bytes_lost' = total_bytes_lost + b
      BY <1>2, <2>6
    <3>. HIDE DEF b
    <3>. QED  BY <3>1, <3>2
  <2>7. Flat'
    BY <2>1, <2>2, <2>5 DEF Flat, Tracked
  <2>3. TypeOK'
    BY <2>7, Flattened
  <2>4. todo_lost' \in Seq(Known)
    BY <1>1
  <2>. QED  BY <1>0, <1>3, <2>3, <2>4 DEF Typed, Tracked, Known, Idle
<1>6. Numbered'
  BY <1>0 DEF Numbered, Known, Tracked
<1>7. Timed' /\ Counted'
  BY DEF SamplingInv, Timed, Counted, CountersConsistent, Tracked, AckedBefore
<1>8. Points'
  BY DEF SamplingInv, Points, CandidatesOrdered, Follows, less_recent_point, Tracked
<1>9. TrimmingKeepsNeededCandidate' /\ AppLimitedPacketsMarked' /\ RoundsRecorded'
  BY DEF SamplingInv, TrimmingKeepsNeededCandidate, AppLimitedPacketsMarked,
         RoundsRecorded, Known
<1>. QED
  BY <1>4, <1>5, <1>6, <1>7, <1>8, <1>9 DEF SamplingInv

(* What the sampler forgets between events.                                *)
Forgets(kept) ==
  /\ Idle /\ kept \subseteq Tracked
  /\ state_map' = [s \in kept |-> state_map[s]]
  /\ outstanding' \subseteq outstanding \intersect kept
  /\ bytes_in_flight' \in Nat /\ InFlightCounted'
  /\ total_bytes_neutered' \in Nat
  /\ UNCHANGED <<last_sent_packet, total_bytes_sent, total_bytes_acked,
                 total_bytes_lost, lastAckVars, appVars, pointVars, heightVars,
                 event_sample, roundVars, clock, last_send_time, event, todo_lost,
                 todo_acked, historyVars, scenario>>

LEMMA ForgetKeeps == ASSUME SamplingInv, NEW kept, Forgets(kept) PROVE SamplingInv'
<1>. USE DEF Forgets, roundVars, historyVars, lastAckVars, appVars, pointVars, heightVars
<1>1. /\ Typed /\ Numbered /\ Timed /\ Counted /\ Points
  BY DEF SamplingInv
<1>2. /\ Tracked' = kept /\ kept \subseteq Tracked /\ Known' = Known
      /\ \A p \in kept : state_map'[p] = state_map[p]
  BY DEF Tracked, Known
<1>3. todo_acked = <<>> /\ todo_lost = <<>>
  BY <1>1 DEF Typed
<1>4. Typed'
  <2>1. state_map' \in [Tracked' -> PacketType]
    BY <1>1, <1>2 DEF Typed
  <2>2. TypeOK'
    <3>1. Flat
      BY <1>1, Flattened DEF Typed
    <3>2. Flat'
      BY <1>2, <2>1, <3>1 DEF Flat
    <3>. QED  BY <3>2, Flattened
  <2>3. todo_acked' \in Seq(Tracked')
    BY <1>3
  <2>. QED  BY <1>1, <1>2, <2>1, <2>2, <2>3 DEF Typed, Idle
<1>5. Numbered'
  BY <1>1, <1>2 DEF Numbered
<1>6. Timed'
  BY <1>1, <1>2, <1>3 DEF Timed
<1>7. Counted'
  BY <1>1, <1>2 DEF Counted, CountersConsistent, AckedBefore, Tracked
<1>8. Points'
  BY <1>1, <1>2 DEF Points, CandidatesOrdered, Follows, less_recent_point
<1>9. TrimmingKeepsNeededCandidate' /\ AppLimitedPacketsMarked' /\ RoundsRecorded'
  BY <1>2 DEF SamplingInv, TrimmingKeepsNeededCandidate, AppLimitedPacketsMarked,
         RoundsRecorded, Tracked, Known
<1>. QED
  BY <1>4, <1>5, <1>6, <1>7, <1>8, <1>9 DEF SamplingInv

LEMMA OutstandingFinite ==
  ASSUME SamplingInv
  PROVE  IsFiniteSet(outstanding) /\ \A p \in outstanding : sent[p].bytes \in Nat \ {0}
<1>1. outstanding \subseteq 1..scenario.max_packet /\ scenario \in Scenarios
  BY DEF SamplingInv, Typed, TypeOK
<1>2. scenario.max_packet \in Nat
  BY <1>1, NoPacketAssumption, EnvironmentAssumption DEF ScenarioType
<1>3. IsFiniteSet(1..scenario.max_packet)
  BY <1>2, FS_Interval
<1>4. outstanding \subseteq Known
  BY DEF SamplingInv, Typed, Numbered
<1>. QED
  BY <1>1, <1>3, <1>4, FS_Subset DEF SamplingInv, Typed

LEMMA NeuterForgets ==
  ASSUME SamplingInv, NEW p \in outstanding, Neuter(p)
  PROVE  Forgets(Tracked \ {p})
<1>. USE DEF Neuter, OnPktNeutered
<1>1. Typed /\ Numbered /\ InFlightCounted
  BY DEF SamplingInv
<1>2. p \in Tracked /\ state_map[p].bytes \in Nat
  BY <1>1 DEF Typed, Tracked, PacketType
<1>3. IsFiniteSet(outstanding) /\ \A q \in outstanding : sent[q].bytes \in Nat \ {0}
  BY OutstandingFinite
<1>4. /\ SizesOf(sent, outstanding \ {p}) = SizesOf(sent, outstanding) - SizesOf(sent, {p})
      /\ SizesOf(sent, outstanding \ {p}) \in Nat
  BY <1>3, SizesSplit
<1>5. SizesOf(sent, {p}) = sent[p].bytes
  BY <1>3, SizesOne
<1>6. sent' = sent /\ outstanding' = outstanding \ {p}
  BY DEF historyVars
<1>7. bytes_in_flight' = SizesOf(sent', outstanding') /\ bytes_in_flight' \in Nat
  BY <1>1, <1>4, <1>5, <1>6, BytesAreSizes
<1>8. InFlightCounted'
  BY <1>7, BytesAreSizes
<1>9. total_bytes_neutered' \in Nat
  <2>1. total_bytes_neutered \in Nat
    BY <1>1, Flattened DEF Typed, Flat
  <2>. QED  BY <1>2, <2>1
<1>10. outstanding' \subseteq outstanding \intersect (Tracked \ {p})
  BY <1>1, <1>6 DEF Numbered
<1>. QED
  BY <1>7, <1>8, <1>9, <1>10 DEF Forgets, Without, Tracked

LEMMA RemoveObsoleteForgets ==
  ASSUME SamplingInv, NEW up_to, RemoveObsolete(up_to)
  PROVE  \E kept : Forgets(kept)
<1>. USE DEF RemoveObsolete, RemoveObsoletePkts
<1>1. Typed /\ Numbered /\ InFlightCounted
  BY DEF SamplingInv
<1>2. InFlightCounted'
  BY <1>1, BytesAreSizes DEF historyVars
<1>3. bytes_in_flight' \in Nat /\ total_bytes_neutered' \in Nat
  BY <1>1 DEF Typed, TypeOK, totalVars
<1>4. CASE \E s \in DOMAIN state_map : s >= up_to
  <2>. DEFINE kept == Tracked \ {s \in Tracked : s < up_to}
  <2>1. state_map' = [s \in kept |-> state_map[s]]
    BY <1>4 DEF Without, Tracked
  <2>2. outstanding' \subseteq outstanding \intersect kept
    <3>1. up_to \in Int /\ outstanding \subseteq Tracked /\ outstanding \subseteq Int
      <4>1. NextPacket \in Int
        BY <1>1 DEF NextPacket, Typed, TypeOK
      <4>. QED  BY <1>1, <4>1 DEF Numbered, Typed, TypeOK
    <3>. QED  BY <3>1
  <2>3. Forgets(kept)
    BY <1>2, <1>3, <2>1, <2>2 DEF Forgets, totalVars
  <2>. QED  BY <2>3
<1>5. CASE ~ \E s \in DOMAIN state_map : s >= up_to
  <2>1. state_map' = [s \in Tracked |-> state_map[s]]
    BY <1>1, <1>5 DEF Typed
  <2>2. outstanding' \subseteq outstanding \intersect Tracked
    BY <1>1 DEF Numbered
  <2>3. Forgets(Tracked)
    BY <1>2, <1>3, <2>1, <2>2 DEF Forgets, totalVars
  <2>. QED  BY <2>3
<1>. QED
  BY <1>4, <1>5

(* The packet sent next is new, and above all others.                      *)
LEMMA NextIsNew ==
  ASSUME Typed, Numbered, NextPacket <= scenario.max_packet
  PROVE  /\ NextPacket \in 1..scenario.max_packet /\ NextPacket # NoPacket
         /\ \A p \in Known : p \in Nat /\ p < NextPacket
         /\ NextPacket \notin Known
<1>1. scenario.max_packet \in Nat /\ scenario.max_packet < NoPacket
  BY NoPacketAssumption, EnvironmentAssumption DEF Typed, ScenarioType
<1>2. last_sent_packet \in Nat
  BY Flattened DEF Typed, Flat
<1>3. NextPacket \in 1..scenario.max_packet /\ NextPacket # NoPacket
  BY <1>1, <1>2, NoPacketAssumption DEF NextPacket
<1>4. \A p \in Known : p \in Nat /\ p < NextPacket
  BY <1>1, <1>2 DEF Numbered, NextPacket
<1>. QED
  BY <1>3, <1>4

Sends(n, bytes, need) ==
  /\ n \in 1..scenario.max_packet /\ n # NoPacket /\ n \in Nat
  /\ n \notin Known /\ \A p \in Known : p \in Nat /\ p < n
  /\ clock' \in Nat /\ clock <= clock'
  /\ bytes \in Nat \ {0}
  /\ Known' = Known \union {n}
  /\ \A p \in Known : sent'[p] = sent[p]
  /\ sent'[n] = [bytes |-> bytes, round |-> round_trip_count]
  /\ sent' \in [Known' -> [bytes : Nat \ {0}, round : Nat]]
  /\ last_sent_packet' = n /\ last_sent_packet_no' = n
  /\ last_send_time' = clock'
  /\ Idle
  /\ UNCHANGED <<total_bytes_acked, total_bytes_lost, total_bytes_neutered,
                 appVars, heightVars, event_sample, event, todo_lost, todo_acked,
                 removed_up_to, delivered, scenario, round_trip_count,
                 end_of_round_trip>>

LEMMA SendSends ==
  ASSUME SamplingInv, NEW ticks \in scenario.time_steps, Passes(ticks),
         NEW bytes \in Sizes, NEW need, Send(bytes, need)
  PROVE  Sends(NextPacket, bytes, need)
<1>. DEFINE n == NextPacket
<1>1. Typed /\ Numbered /\ n <= scenario.max_packet
  BY DEF SamplingInv, Send
<1>2. /\ n \in 1..scenario.max_packet /\ n # NoPacket
      /\ \A p \in Known : p \in Nat /\ p < n
      /\ n \notin Known
  BY <1>1, NextIsNew
<1>3. clock' \in Nat /\ clock <= clock'
  <2>1. clock \in Nat
    BY <1>1, Flattened DEF Typed, Flat
  <2>2. ticks \in Nat
    BY <1>1, EnvironmentAssumption DEF Typed, ScenarioType
  <2>. QED  BY <2>1, <2>2 DEF Passes
<1>4. bytes \in Nat \ {0}
  BY EnvironmentAssumption
<1>5. sent' = With(sent, n, [bytes |-> bytes, round |-> round_trip_count])
  BY DEF Send
<1>. HIDE DEF n
<1>6. sent' = [p \in Known \union {n} |->
                 IF p \in Known THEN sent[p] ELSE [bytes |-> bytes, round |-> round_trip_count]]
  BY <1>2, <1>5 DEF Known, With
<1>7. round_trip_count \in Nat
  BY <1>1, Flattened DEF Typed, Flat
<1>8. /\ Known' = Known \union {n}
      /\ \A p \in Known : sent'[p] = sent[p]
      /\ sent'[n] = [bytes |-> bytes, round |-> round_trip_count]
  BY <1>2, <1>6 DEF Known
<1>9. sent' \in [Known' -> [bytes : Nat \ {0}, round : Nat]]
  <2>1. \A p \in Known : sent[p] \in [bytes : Nat \ {0}, round : Nat]
    BY <1>1 DEF Typed
  <2>2. [bytes |-> bytes, round |-> round_trip_count] \in [bytes : Nat \ {0}, round : Nat]
    BY <1>4, <1>7
  <2>. QED  BY <1>6, <1>8, <2>1, <2>2
<1>10. last_sent_packet' = n /\ last_sent_packet_no' = n /\ n \in Nat
  BY <1>2 DEF Send, SamplerOnPacketSent, RoundOnPktSent, n
<1>. QED
  BY <1>2, <1>3, <1>4, <1>8, <1>9, <1>10
     DEF Sends, Send, SamplerOnPacketSent, RoundOnPktSent, n

(* A packet that needs no retransmission leaves the sampler as it is.      *)
LEMMA StepSendUntracked ==
  ASSUME SamplingInv, NEW n, NEW bytes, Sends(n, bytes, FALSE),
         UNCHANGED <<total_bytes_sent, lastAckVars, pointVars, state_map,
                     bytes_in_flight, outstanding, while_inflight>>
  PROVE  SamplingInv'
<1>. USE DEF lastAckVars, pointVars, appVars, heightVars
<1>1. Typed /\ Numbered /\ Timed /\ Counted /\ Points /\ InFlightCounted
  BY DEF SamplingInv
<1>2. Flat
  BY <1>1, Flattened DEF Typed
<1>3. Tracked' = Tracked
  BY DEF Tracked
<1>. USE DEF Sends
<1>4. Typed'
  <2>1. Flat'
    BY <1>2, <1>3 DEF Flat, Stamp
  <2>2. TypeOK'
    BY <2>1, Flattened
  <2>3. todo_lost' = <<>> /\ Idle'
    BY <1>1 DEF Typed, Idle
  <2>. QED  BY <1>1, <1>3, <2>2, <2>3 DEF Typed
<1>5. Numbered'
  BY <1>1, <1>2, <1>3 DEF Numbered, Flat
<1>6. InFlightCounted'
  <2>1. IsFiniteSet(outstanding) /\ outstanding \subseteq Known
    BY <1>1, OutstandingFinite DEF Numbered
  <2>2. \A p \in outstanding : sent'[p].bytes = sent[p].bytes
    BY <2>1
  <2>3. SizesOf(sent', outstanding) = SizesOf(sent, outstanding)
    BY <2>1, <2>2, SizesCongruent
  <2>. QED  BY <1>1, <2>3, BytesAreSizes
<1>7. Timed'
  <2>1. \A i \in DOMAIN todo_acked : state_map[todo_acked[i]].sent_time \in Nat
    BY <1>1 DEF Typed, PacketType
  <2>2. \A p \in Tracked : state_map[p].sent_time \in Nat
    BY <1>1 DEF Typed, PacketType
  <2>. QED  BY <1>1, <1>2, <1>3, <2>1, <2>2 DEF Timed, Flat, Stamp, Unset
<1>8. Counted'
  BY <1>1, <1>3 DEF Counted, CountersConsistent, AckedBefore, Tracked
<1>9. Points'
  <2>1. ack_points[2].ack_time \in Int
    BY <1>1 DEF Typed, PointType, Stamp, Unset
  <2>2. ack_points'[2].ack_time <= clock'
    BY <1>1, <1>2, <2>1 DEF Points, Flat
  <2>. QED  BY <1>1, <1>3, <2>2 DEF Points, CandidatesOrdered, Follows, less_recent_point
<1>10. TrimmingKeepsNeededCandidate' /\ AppLimitedPacketsMarked'
  BY DEF SamplingInv, TrimmingKeepsNeededCandidate, AppLimitedPacketsMarked
<1>11. RoundsRecorded'
  BY DEF SamplingInv, RoundsRecorded
<1>. QED
  BY <1>4, <1>5, <1>6, <1>7, <1>8, <1>9, <1>10, <1>11 DEF SamplingInv

(* The state a tracked packet leaves the sampler in.                       *)
Tracks(n, bytes) ==
  LET pkt == SentPacket(bytes, clock', bytes_in_flight,
                        total_bytes_sent_at_last_acked_packet',
                        last_acked_packet_sent_time', last_acked_packet_ack_time')
  IN /\ total_bytes_sent' = total_bytes_sent + bytes
     /\ Tracked' = Tracked \union {n} /\ state_map'[n] = pkt
     /\ state_map' \in [Tracked' -> PacketType]
     /\ \A p \in Tracked : state_map'[p] = state_map[p]
     /\ bytes_in_flight' = bytes_in_flight + bytes
     /\ outstanding' = outstanding \union {n}
     /\ DOMAIN while_inflight' = DOMAIN while_inflight \union {n}
     /\ while_inflight'[n] = 0
     /\ while_inflight' \in [DOMAIN while_inflight' -> Nat]
     /\ \A p \in DOMAIN while_inflight : while_inflight'[p] = while_inflight[p]
     /\ \/ /\ outstanding = {} /\ QuietRestart(bytes, clock')
        \/ /\ outstanding # {} /\ UNCHANGED <<lastAckVars, pointVars>>

LEMMA SendTracks ==
  ASSUME SamplingInv, NEW ticks \in scenario.time_steps, Passes(ticks),
         NEW bytes \in Sizes, Send(bytes, TRUE), Sends(NextPacket, bytes, TRUE)
  PROVE  Tracks(NextPacket, bytes)
<1>. DEFINE n == NextPacket
<1>1. Typed /\ Numbered /\ InFlightCounted /\ Sends(n, bytes, TRUE)
  BY DEF SamplingInv
<1>2. Flat
  BY <1>1, Flattened DEF Typed
<1>3. /\ total_bytes_sent' = total_bytes_sent + bytes
      /\ bytes_in_flight' = bytes_in_flight + bytes
      /\ outstanding' = outstanding \union {n}
      /\ while_inflight' = With(while_inflight, n, 0)
      /\ IF bytes_in_flight = 0 THEN QuietRestart(bytes, clock')
         ELSE UNCHANGED <<lastAckVars, pointVars>>
      /\ state_map' = Inserted(n,
                   SentPacket(bytes, clock', bytes_in_flight,
                              total_bytes_sent_at_last_acked_packet',
                              last_acked_packet_sent_time',
                              last_acked_packet_ack_time'))
  BY DEF Send, SamplerOnPacketSent
<1>. HIDE DEF n
<1>. DEFINE pkt == SentPacket(bytes, clock', bytes_in_flight,
                              total_bytes_sent_at_last_acked_packet',
                              last_acked_packet_sent_time', last_acked_packet_ack_time')
<1>4. outstanding = {} <=> bytes_in_flight = 0
  <2>1. bytes_in_flight = SizesOf(sent, outstanding)
    BY <1>1, BytesAreSizes
  <2>2. SizesOf(sent, {}) = 0
    BY SizesNone
  <2>3. IsFiniteSet(outstanding) /\ \A p \in outstanding : sent[p].bytes \in Nat \ {0}
    BY OutstandingFinite
  <2>4. SizesOf(sent, outstanding) = 0 => outstanding = {}
    BY <2>3, SizesZero
  <2>. QED  BY <2>1, <2>2, <2>4
<1>5. pkt \in PacketType
  <2>1. /\ total_bytes_sent_at_last_acked_packet' \in Nat
        /\ last_acked_packet_sent_time' \in Stamp /\ last_acked_packet_ack_time' \in Stamp
    <3>1. CASE bytes_in_flight = 0
      BY <1>1, <1>2, <1>3, <3>1 DEF QuietRestart, Flat, Stamp, Sends
    <3>2. CASE bytes_in_flight # 0
      BY <1>2, <1>3, <3>2 DEF lastAckVars, Flat
    <3>. QED  BY <3>1, <3>2
  <2>2. bytes \in Nat \ {0} /\ clock' \in Nat
    BY <1>1 DEF Sends
  <2>3. pkt.state \in SendTimeState
    BY <1>2, <2>2 DEF SentPacket, SendTimeState, Flat
  <2>4. pkt = [ bytes |-> bytes, sent_time |-> clock',
        total_sent_bytes_at_last_acked_pkt |-> total_bytes_sent_at_last_acked_packet',
        last_acked_pkt_sent_time |-> last_acked_packet_sent_time',
        last_acked_pkt_ack_time |-> last_acked_packet_ack_time', state |-> pkt.state]
    BY DEF SentPacket
  <2>. HIDE DEF pkt
  <2>. QED  BY <2>1, <2>2, <2>3, <2>4 DEF PacketType
<1>6. n \notin Known /\ n \notin Tracked /\ n \notin DOMAIN while_inflight
  BY <1>1 DEF Sends, Numbered
<1>. HIDE DEF pkt
<1>7. /\ Tracked' = Tracked \union {n} /\ state_map'[n] = pkt
      /\ state_map' \in [Tracked' -> PacketType]
      /\ \A p \in Tracked : state_map'[p] = state_map[p]
  <2>1. state_map' = [p \in Tracked \union {n} |-> IF p = n THEN pkt ELSE state_map[p]]
    BY <1>3, <1>6 DEF Inserted, Tracked, pkt
  <2>2. Tracked' = Tracked \union {n}
    BY <2>1 DEF Tracked
  <2>3. \A p \in Tracked : state_map[p] \in PacketType
    BY <1>1 DEF Typed
  <2>. QED  BY <1>5, <1>6, <2>1, <2>2, <2>3
<1>8. /\ DOMAIN while_inflight' = DOMAIN while_inflight \union {n}
      /\ while_inflight'[n] = 0
      /\ while_inflight' \in [DOMAIN while_inflight' -> Nat]
      /\ \A p \in DOMAIN while_inflight : while_inflight'[p] = while_inflight[p]
  <2>1. \A p \in DOMAIN while_inflight : while_inflight[p] \in Nat
    BY <1>1 DEF Typed
  <2>2. while_inflight' = [p \in DOMAIN while_inflight \union {n} |->
                             IF p = n THEN 0 ELSE while_inflight[p]]
    BY <1>3 DEF With
  <2>. QED  BY <1>6, <2>1, <2>2
<1>. QED
  BY <1>3, <1>4, <1>7, <1>8 DEF Tracks, n, pkt

LEMMA StepSendTracked ==
  ASSUME SamplingInv, NEW n, NEW bytes, Sends(n, bytes, TRUE), Tracks(n, bytes)
  PROVE  SamplingInv'
<1>1. Typed /\ Numbered /\ Timed /\ Counted /\ Points /\ InFlightCounted
  BY DEF SamplingInv
<1>2. Flat
  BY <1>1, Flattened DEF Typed
<1>. DEFINE pkt == SentPacket(bytes, clock', bytes_in_flight,
                              total_bytes_sent_at_last_acked_packet',
                              last_acked_packet_sent_time', last_acked_packet_ack_time')
<1>3. /\ Tracked' = Tracked \union {n} /\ state_map'[n] = pkt
      /\ state_map' \in [Tracked' -> PacketType]
      /\ \A p \in Tracked : state_map'[p] = state_map[p]
      /\ outstanding' = outstanding \union {n}
      /\ bytes_in_flight' = bytes_in_flight + bytes
      /\ total_bytes_sent' = total_bytes_sent + bytes
      /\ total_bytes_acked' = total_bytes_acked
      /\ n \notin Known /\ n \notin Tracked /\ n \notin outstanding
  BY <1>1 DEF Tracks, Sends, Numbered
<1>4. /\ n \in Nat /\ n # NoPacket /\ n \in 1..scenario.max_packet
      /\ \A p \in Known : p \in Nat /\ p < n
      /\ clock' \in Nat /\ clock <= clock'
      /\ bytes \in Nat \ {0}
      /\ scenario' = scenario
  BY DEF Sends
<1>5. /\ pkt.bytes = bytes /\ pkt.sent_time = clock'
      /\ pkt.total_sent_bytes_at_last_acked_pkt = total_bytes_sent_at_last_acked_packet'
      /\ pkt.state.total_bytes_sent = total_bytes_sent + bytes
      /\ pkt.state.total_bytes_acked = total_bytes_acked
      /\ pkt.state.is_app_limited = is_app_limited
  BY DEF SentPacket
<1>. HIDE DEF pkt
<1>6. \/ /\ outstanding = {}
         /\ total_bytes_sent_at_last_acked_packet' = total_bytes_sent + bytes
         /\ last_acked_packet_sent_time' = clock'
         /\ last_acked_packet_ack_time' = clock'
         /\ ack_points' = <<AckPoint(Unset, 0), AckPoint(clock', total_bytes_acked)>>
         /\ a0_candidates' = <<AckPoint(clock', total_bytes_acked)>>
      \/ /\ outstanding # {} /\ UNCHANGED <<lastAckVars, pointVars>>
  <2>1. UpdatedPoints(ClearedPoints, clock', total_bytes_acked)
          = <<AckPoint(Unset, 0), AckPoint(clock', total_bytes_acked)>>
    <3>1. clock' \in Nat
      BY <1>4
    <3>. DEFINE c == clock'
    <3>. HIDE DEF c
    <3>2. c \in Nat => UpdatedPoints(ClearedPoints, c, total_bytes_acked)
            = <<AckPoint(Unset, 0), AckPoint(c, total_bytes_acked)>>
      BY DEF UpdatedPoints, ClearedPoints, AckPoint, Unset
    <3>. QED  BY <3>1, <3>2 DEF c
  <2>. QED  BY <2>1 DEF Tracks, QuietRestart
<1>7. /\ AckPoint(clock', total_bytes_acked) \in PointType
      /\ AckPoint(Unset, 0) \in PointType
  BY <1>2, <1>4 DEF AckPoint, PointType, Stamp, Flat
<1>8. Typed'
  <2>1. /\ a0_candidates' \in Seq(PointType)
        /\ ack_points'[1] \in PointType /\ ack_points'[2] \in PointType
    <3>1. CASE UNCHANGED pointVars
      BY <1>1, <3>1 DEF Typed, pointVars
    <3>2. CASE /\ ack_points' = <<AckPoint(Unset, 0), AckPoint(clock', total_bytes_acked)>>
               /\ a0_candidates' = <<AckPoint(clock', total_bytes_acked)>>
      BY <1>7, <3>2
    <3>. QED  BY <1>6, <3>1, <3>2
  <2>2. /\ total_bytes_sent_at_last_acked_packet' \in Nat
        /\ last_acked_packet_sent_time' \in Stamp /\ last_acked_packet_ack_time' \in Stamp
    BY <1>2, <1>4, <1>6 DEF Flat, Stamp, lastAckVars
  <2>3. \A p \in Tracked' : state_map'[p].state \in SendTimeState
    BY <1>3 DEF PacketType
  <2>4. /\ total_bytes_sent' \in Nat /\ bytes_in_flight' \in Nat
        /\ Tracked' \subseteq 1..scenario.max_packet
        /\ outstanding' \subseteq 1..scenario.max_packet
    BY <1>2, <1>3, <1>4 DEF Flat
  <2>5. Flat'
    BY <1>2, <1>4, <2>2, <2>3, <2>4 DEF Flat, Sends, appVars, heightVars, Stamp
  <2>6. TypeOK'
    BY <2>5, Flattened
  <2>7. todo_lost' = <<>> /\ todo_acked' = <<>> /\ Idle'
    BY <1>1 DEF Typed, Sends, Idle
  <2>8. while_inflight' \in [DOMAIN while_inflight' -> Nat]
    BY DEF Tracks
  <2>. QED  BY <1>1, <1>3, <2>1, <2>6, <2>7, <2>8 DEF Typed, Sends
<1>9. Numbered'
  <2>1. Known' = Known \union {n} /\ sent'[n].bytes = bytes /\ \A p \in Known : sent'[p] = sent[p]
    BY DEF Sends
  <2>2. last_sent_packet' = n /\ last_sent_packet_no' = n /\ delivered' = delivered
    BY DEF Sends
  <2>3. DOMAIN while_inflight' = DOMAIN while_inflight \union {n}
    BY DEF Tracks
  <2>4. \A p \in Tracked' : state_map'[p].bytes = sent'[p].bytes
    <3>1. \A p \in Tracked : state_map[p].bytes = sent[p].bytes /\ p \in Known
      BY <1>1 DEF Numbered
    <3>. QED  BY <1>3, <1>5, <2>1, <3>1
  <2>. QED  BY <1>1, <1>3, <1>4, <2>1, <2>2, <2>3, <2>4 DEF Numbered
<1>10. InFlightCounted'
  <2>0. IsFiniteSet(outstanding) /\ outstanding \subseteq Known
        /\ \A p \in outstanding : sent[p].bytes \in Nat \ {0}
    BY <1>1, OutstandingFinite DEF Numbered
  <2>1. /\ \A p \in outstanding : sent'[p] = sent[p]
        /\ sent'[n].bytes = bytes
    BY <2>0 DEF Sends
  <2>2. IsFiniteSet(outstanding') /\ \A p \in outstanding' : sent'[p].bytes \in Nat
    BY <1>3, <1>4, <2>0, <2>1, FS_AddElement
  <2>3. {n} \in SUBSET outstanding' /\ outstanding' \ {n} = outstanding
    BY <1>3
  <2>4. SizesOf(sent', outstanding' \ {n}) = SizesOf(sent', outstanding') - SizesOf(sent', {n})
    BY <2>2, <2>3, SizesSplit
  <2>5. SizesOf(sent', {n}) = bytes
    BY <1>4, <2>1, SizesOne
  <2>6. SizesOf(sent', outstanding) = SizesOf(sent, outstanding)
    BY <2>0, <2>1, SizesCongruent
  <2>7. SizesOf(sent', outstanding') \in Nat
    BY <2>2, SizesNat
  <2>8. bytes_in_flight = SizesOf(sent, outstanding)
    BY <1>1, BytesAreSizes
  <2>9. bytes_in_flight' = SizesOf(sent', outstanding')
    <3>. DEFINE x == SizesOf(sent', outstanding')
                y == SizesOf(sent', {n})
    <3>1. bytes_in_flight = x - y /\ x \in Nat /\ y = bytes
      BY <2>3, <2>4, <2>5, <2>6, <2>7, <2>8
    <3>. HIDE DEF x, y
    <3>2. bytes_in_flight + bytes = x
      BY <1>4, <3>1
    <3>. QED  BY <1>3, <3>2 DEF x
  <2>. QED  BY <2>9, BytesAreSizes
<1>11. Timed'
  <2>1. todo_acked' = <<>>
    BY <1>1 DEF Typed, Sends
  <2>2. \A p \in Tracked : state_map[p].sent_time \in Nat /\ state_map[p].sent_time <= clock
    BY <1>1 DEF Typed, PacketType, Timed
  <2>3. \A p \in Tracked' : state_map'[p].sent_time <= clock'
    BY <1>2, <1>3, <1>4, <1>5, <2>2 DEF Flat
  <2>4. /\ last_acked_packet_ack_time' <= clock'
        /\ aggregation_epoch_start_time' <= last_acked_packet_ack_time'
        /\ total_bytes_acked' # 0 => last_acked_packet_ack_time' # Unset
    <3>1. /\ clock \in Nat /\ last_acked_packet_ack_time \in Int
          /\ aggregation_epoch_start_time \in Int
          /\ last_acked_packet_ack_time <= clock
          /\ aggregation_epoch_start_time <= last_acked_packet_ack_time
          /\ total_bytes_acked # 0 => last_acked_packet_ack_time # Unset
          /\ aggregation_epoch_start_time' = aggregation_epoch_start_time
      BY <1>1, <1>2 DEF Timed, Flat, Stamp, Unset, Sends, heightVars
    <3>2. last_acked_packet_ack_time' \in {clock', last_acked_packet_ack_time}
      BY <1>6 DEF lastAckVars
    <3>. QED  BY <1>3, <1>4, <3>1, <3>2 DEF Unset
  <2>. QED  BY <2>1, <2>3, <2>4 DEF Timed
<1>12. Counted'
  <2>1. /\ total_bytes_sent_at_last_acked_packet' \in Nat
        /\ total_bytes_sent_at_last_acked_packet' <= total_bytes_sent + bytes
        /\ total_bytes_sent \in Nat /\ total_bytes_acked \in Nat
    BY <1>1, <1>2, <1>4, <1>6 DEF Counted, Flat, lastAckVars
  <2>2. \A p \in Tracked :
          /\ state_map[p].total_sent_bytes_at_last_acked_pkt <= state_map[p].state.total_bytes_sent
          /\ state_map[p].state.total_bytes_sent \in Nat
          /\ state_map[p].state.total_bytes_sent <= total_bytes_sent
          /\ state_map[p].state.total_bytes_acked \in Nat
          /\ state_map[p].state.total_bytes_acked <= total_bytes_acked
    BY <1>1 DEF Typed, PacketType, SendTimeState, Counted, CountersConsistent, Tracked
  <2>3. \A p \in Tracked' :
          /\ state_map'[p].total_sent_bytes_at_last_acked_pkt <= state_map'[p].state.total_bytes_sent
          /\ state_map'[p].state.total_bytes_sent <= total_bytes_sent'
          /\ state_map'[p].state.total_bytes_acked <= total_bytes_acked'
    BY <1>3, <1>4, <1>5, <2>1, <2>2
  <2>4. \A i \in DOMAIN a0_candidates' :
          a0_candidates'[i].total_bytes_acked <= total_bytes_acked'
    <3>1. CASE a0_candidates' = <<AckPoint(clock', total_bytes_acked)>>
      BY <1>3, <2>1, <3>1 DEF AckPoint
    <3>2. CASE a0_candidates' = a0_candidates
      BY <1>1, <1>3, <3>2 DEF Counted, CountersConsistent
    <3>. QED  BY <1>6, <3>1, <3>2 DEF pointVars
  <2>5. \A p, q \in Tracked' : p < q => AckedBefore(p)' <= AckedBefore(q)'
    <3>1. \A p \in Tracked : p < n /\ p \in Nat
      BY <1>1, <1>4 DEF Numbered
    <3>2. \A p, q \in Tracked : p < q => AckedBefore(p) <= AckedBefore(q)
      BY <1>1 DEF Counted
    <3>3. \A p \in Tracked' : AckedBefore(p)' = state_map'[p].state.total_bytes_acked
      BY DEF AckedBefore
    <3>. QED  BY <1>3, <1>4, <1>5, <2>1, <2>2, <3>1, <3>2, <3>3 DEF AckedBefore
  <2>6. total_bytes_acked_after_last_ack_event' <= total_bytes_acked'
    BY <1>1, <1>3 DEF Counted, CountersConsistent, Sends, heightVars
  <2>7. CountersConsistent'
    BY <2>3, <2>4, <2>6 DEF CountersConsistent, Tracked
  <2>. QED  BY <1>3, <2>1, <2>5, <2>7 DEF Counted
<1>13. a0_candidates' # <<>>
  <2>1. outstanding # {} => Tracked # {}
    BY <1>1 DEF Numbered
  <2>2. CASE outstanding = {}
    BY <1>6, <2>2
  <2>3. CASE outstanding # {}
    BY <1>1, <1>6, <2>1, <2>3 DEF Points, pointVars
  <2>. QED  BY <2>2, <2>3
<1>14. Points'
  <2>1. CASE /\ ack_points' = <<AckPoint(Unset, 0), AckPoint(clock', total_bytes_acked)>>
             /\ a0_candidates' = <<AckPoint(clock', total_bytes_acked)>>
    <3>1. total_bytes_acked \in Nat /\ clock' \in Nat
      BY <1>2, <1>4 DEF Flat
    <3>2. CandidatesOrdered'
      BY <2>1 DEF CandidatesOrdered
    <3>3. less_recent_point' = AckPoint(clock', total_bytes_acked)
      BY <2>1 DEF less_recent_point, AckPoint
    <3>. QED  BY <1>3, <2>1, <3>1, <3>2, <3>3 DEF Points, Follows, AckPoint, Unset
  <2>2. CASE UNCHANGED pointVars
    <3>1. ack_points[2].ack_time \in Int /\ ack_points[2].ack_time <= clock
      BY <1>1 DEF Typed, PointType, Stamp, Unset, Points
    <3>2. ack_points'[2].ack_time <= clock'
      BY <1>2, <1>4, <2>2, <3>1 DEF Flat, pointVars
    <3>. QED  BY <1>1, <1>3, <1>13, <2>2, <3>2
              DEF Points, CandidatesOrdered, Follows, less_recent_point, pointVars
  <2>. QED  BY <1>6, <2>1, <2>2
<1>15. TrimmingKeepsNeededCandidate'
  <2>. SUFFICES ASSUME NEW p \in outstanding' \intersect Tracked',
                       \A q \in delivered' : q < p
                PROVE  /\ a0_candidates' # <<>>
                       /\ a0_candidates'[1].total_bytes_acked
                            <= state_map'[p].state.total_bytes_acked
    BY DEF TrimmingKeepsNeededCandidate, Tracked
  <2>1. CASE p = n
    <3>1. 1 \in DOMAIN a0_candidates'
      BY <1>8, <1>13 DEF Typed
    <3>2. a0_candidates'[1].total_bytes_acked <= total_bytes_acked
      BY <1>3, <1>12, <3>1 DEF Counted, CountersConsistent
    <3>. QED  BY <1>3, <1>5, <1>13, <2>1, <3>2
  <2>2. CASE p # n
    <3>1. p \in outstanding \intersect Tracked /\ outstanding # {}
      BY <1>3, <2>2
    <3>2. a0_candidates' = a0_candidates
      BY <1>6, <3>1 DEF pointVars
    <3>3. \A q \in delivered : q < p
      BY DEF Sends
    <3>4. a0_candidates[1].total_bytes_acked <= state_map[p].state.total_bytes_acked
      BY <3>1, <3>3 DEF SamplingInv, TrimmingKeepsNeededCandidate, Tracked
    <3>. QED  BY <1>3, <1>13, <3>1, <3>2, <3>4
  <2>. QED  BY <2>1, <2>2
<1>16. AppLimitedPacketsMarked'
  BY <1>3, <1>5 DEF SamplingInv, AppLimitedPacketsMarked, Tracked, Sends, appVars
<1>17. RoundsRecorded'
  BY DEF SamplingInv, RoundsRecorded, Sends
<1>. QED
  BY <1>8, <1>9, <1>10, <1>11, <1>12, <1>14, <1>15, <1>16, <1>17 DEF SamplingInv

LEMMA StepSend ==
  ASSUME SamplingInv, NEW ticks \in scenario.time_steps, Passes(ticks),
         NEW bytes \in Sizes, NEW need \in BOOLEAN, Send(bytes, need)
  PROVE  SamplingInv'
<1>1. Sends(NextPacket, bytes, need)
  BY SendSends
<1>2. CASE need = TRUE
  BY <1>1, <1>2, SendTracks, StepSendTracked
<1>3. CASE need = FALSE
  <2>1. UNCHANGED <<total_bytes_sent, lastAckVars, pointVars, state_map,
                     bytes_in_flight, outstanding, while_inflight>>
    BY <1>3 DEF Send, SamplerOnPacketSent
  <2>. QED  BY <1>1, <1>3, <2>1, StepSendUntracked
<1>. QED
  BY <1>2, <1>3

LEMMA SeqOfMore ==
  ASSUME NEW S, NEW T, S \subseteq T, NEW s \in Seq(S)
  PROVE  s \in Seq(T)
<1>1. s \in [1..Len(s) -> S] /\ Len(s) \in Nat
  BY LenProperties
<1>. QED
  BY <1>1

(* What the packets named by an event are.                                 *)
Names(acked, lost) ==
  /\ acked \subseteq Tracked /\ lost \subseteq Known
  /\ acked \subseteq Nat /\ lost \subseteq Nat
  /\ Ascending(acked) \in Seq(acked) /\ Ascending(lost) \in Seq(lost)
  /\ Ascending(acked) = <<>> <=> acked = {}
  /\ \A i, j \in DOMAIN Ascending(acked) : Ascending(acked)[i] = Ascending(acked)[j] => i = j
  /\ \A p \in acked : state_map[p].sent_time < clock'

LEMMA StartNames ==
  ASSUME SamplingInv, NEW ticks \in scenario.time_steps, Passes(ticks),
         NEW acked, NEW lost, StartEvent(acked, lost)
  PROVE  Names(acked, lost) /\ clock' \in Nat /\ clock <= clock'
<1>1. Typed /\ Numbered
  BY DEF SamplingInv
<1>2. Flat
  BY <1>1, Flattened DEF Typed
<1>3. scenario \in ScenarioType /\ scenario.min_rtt \in Nat \ {0}
      /\ scenario.max_packet \in Nat
  BY <1>1, EnvironmentAssumption, NoPacketAssumption DEF Typed, ScenarioType
<1>4. clock' \in Nat /\ clock <= clock'
  <2>1. ticks \in Nat
    BY <1>3 DEF ScenarioType
  <2>. QED  BY <1>2, <2>1 DEF Passes, Flat
<1>5. /\ acked \subseteq Tracked /\ lost \subseteq outstanding
      /\ \A p \in acked : clock' - state_map[p].sent_time >= scenario.min_rtt
  <2>1. acked \subseteq Acknowledgeable /\ lost \subseteq outstanding
    BY DEF StartEvent
  <2>2. Acknowledgeable \subseteq Tracked
    BY <1>1 DEF Acknowledgeable, Tracked, Numbered
  <2>3. \A p \in Acknowledgeable : p \in Tracked =>
          clock' - state_map[p].sent_time >= scenario.min_rtt
    BY DEF Acknowledgeable, Tracked
  <2>. QED  BY <2>1, <2>2, <2>3
<1>6. \A p \in acked : state_map[p].sent_time < clock'
  <2>1. \A p \in acked : state_map[p].sent_time \in Nat
    BY <1>1, <1>5 DEF Typed, PacketType
  <2>. QED  BY <1>3, <1>4, <1>5, <2>1
<1>7. acked \subseteq 0..scenario.max_packet /\ lost \subseteq 0..scenario.max_packet
  BY <1>2, <1>3, <1>5 DEF Flat
<1>8. lost \subseteq Known
  BY <1>1, <1>5 DEF Numbered
<1>. QED
  <2>. DEFINE b == scenario.max_packet
  <2>1. b \in Nat /\ acked \in SUBSET (0..b) /\ lost \in SUBSET (0..b)
    BY <1>3, <1>7
  <2>. HIDE DEF b
  <2>2. Ascending(acked) \in Seq(acked) /\ Ascending(lost) \in Seq(lost)
        /\ (Ascending(acked) = <<>> <=> acked = {})
        /\ \A i, j \in DOMAIN Ascending(acked) : Ascending(acked)[i] = Ascending(acked)[j] => i = j
    BY <2>1, AscendingProperties
  <2>3. acked \subseteq Nat /\ lost \subseteq Nat
    BY <2>1
  <2>. QED  BY <1>4, <1>5, <1>6, <1>8, <2>2, <2>3 DEF Names

LEMMA StepStartEvent ==
  ASSUME SamplingInv, NEW ticks \in scenario.time_steps, Passes(ticks),
         NEW acked, NEW lost, StartEvent(acked, lost)
  PROVE  SamplingInv'
<1>1. Typed /\ Numbered /\ Timed /\ Counted /\ Points /\ InFlightCounted
  BY DEF SamplingInv
<1>2. Flat
  BY <1>1, Flattened DEF Typed
<1>3. Names(acked, lost) /\ clock' \in Nat /\ clock <= clock'
  BY StartNames
<1>. DEFINE a == Ascending(acked)
            l == Ascending(lost)
<1>4. /\ todo_lost' = l /\ todo_acked' = a
      /\ event'.handled /\ event'.acked = a
      /\ event_sample' = EmptySample
      /\ outstanding' = outstanding \ (acked \union lost)
      /\ UNCHANGED <<last_sent_packet, totalVars, lastAckVars, appVars, state_map,
                     pointVars, heightVars, last_send_time, removed_up_to,
                     historyVars, scenario>>
      /\ bytes_in_flight' =
           bytes_in_flight - BytesOf((acked \union lost) \intersect outstanding)
  BY DEF StartEvent
<1>5. event' \in EventType
  <2>1. a \in Seq(Nat) /\ l \in Seq(Nat)
    BY <1>3, SeqOfMore DEF Names
  <2>. HIDE DEF a, l
  <2>2. PICK max_bw \in MaxBwInputs, upper_bound \in UpperBoundInputs :
       event' = [handled |-> TRUE, acked |-> a, lost |-> l,
                 max_bw |-> max_bw, upper_bound |-> upper_bound]
    BY DEF StartEvent, a, l
  <2>3. max_bw \in Nat /\ upper_bound \in Nat
    BY EnvironmentAssumption
  <2>. QED  BY <2>1, <2>2, <2>3 DEF EventType
<1>6. a \in Seq(Tracked) /\ l \in Seq(Known)
  BY <1>3, SeqOfMore DEF Names
<1>7. a # <<>> => a[Len(a)] \in Tracked
  <2>. HIDE DEF a
  <2>. QED  BY <1>6
<1>. HIDE DEF a, l
<1>8. bytes_in_flight' = SizesOf(sent', outstanding') /\ bytes_in_flight' \in Nat
  <2>. DEFINE gone == (acked \union lost) \intersect outstanding
  <2>1. IsFiniteSet(outstanding) /\ \A p \in outstanding : sent[p].bytes \in Nat
    BY OutstandingFinite
  <2>2. gone \in SUBSET outstanding /\ outstanding' = outstanding \ gone
    BY <1>4
  <2>3. /\ SizesOf(sent, outstanding \ gone) = SizesOf(sent, outstanding) - SizesOf(sent, gone)
        /\ SizesOf(sent, outstanding \ gone) \in Nat
    BY <2>1, <2>2, SizesSplit
  <2>4. bytes_in_flight = SizesOf(sent, outstanding)
        /\ bytes_in_flight' = bytes_in_flight - SizesOf(sent, gone)
    BY <1>1, <1>4, BytesAreSizes
  <2>5. sent' = sent
    BY <1>4 DEF historyVars
  <2>. HIDE DEF gone
  <2>. QED  BY <2>2, <2>3, <2>4, <2>5
<1>9. InFlightCounted'
  BY <1>8, BytesAreSizes
<1>10. /\ last_sent_packet_no' = last_sent_packet_no
       /\ \/ UNCHANGED <<round_trip_count, end_of_round_trip>>
          \/ /\ round_trip_count' = round_trip_count + 1
             /\ end_of_round_trip' = last_sent_packet_no
  BY DEF StartEvent, RoundOnPktAcked, roundVars
<1>11. Typed'
  <2>1. event_sample' \in SampleType
    BY <1>4, EmptySampleType
  <2>2. event_sample'.last_packet_send_state \in SendTimeState /\ event_sample'.extra_acked \in Nat
    BY <2>1 DEF SampleType
  <2>3. Flat'
    <3>1. round_trip_count' \in Nat /\ end_of_round_trip' \in Nat /\ last_sent_packet_no' \in Nat
      BY <1>2, <1>10 DEF Flat
    <3>. QED  BY <1>2, <1>3, <1>4, <1>8, <2>2, <3>1
              DEF Flat, Tracked, totalVars, lastAckVars, appVars, heightVars
  <2>4. TypeOK'
    BY <2>3, Flattened
  <2>5. ~Idle'
    BY <1>4 DEF Idle
  <2>. QED  BY <1>1, <1>4, <1>5, <1>6, <2>1, <2>4, <2>5
            DEF Typed, Tracked, Known, pointVars, historyVars
<1>12. Numbered'
  BY <1>1, <1>4, <1>10 DEF Numbered, Known, Tracked, historyVars
<1>13. Timed'
  <2>1. \A i \in DOMAIN a : state_map[a[i]].sent_time < clock'
    <3>1. \A i \in DOMAIN a : a[i] \in acked
      BY <1>3 DEF Names, a
    <3>. QED  BY <1>3, <3>1 DEF Names
  <2>2. \A p \in Tracked : state_map[p].sent_time \in Nat
    BY <1>1 DEF Typed, PacketType
  <2>3. \A p \in Tracked : state_map[p].sent_time <= clock'
    BY <1>1, <1>2, <1>3, <2>2 DEF Timed, Flat
  <2>4. last_acked_packet_ack_time <= clock'
    BY <1>1, <1>2, <1>3 DEF Timed, Flat, Stamp, Unset
  <2>. QED  BY <1>1, <1>4, <2>1, <2>3, <2>4
            DEF Timed, Tracked, lastAckVars, heightVars, totalVars
<1>14. Counted'
  BY <1>1, <1>4 DEF Counted, CountersConsistent, Tracked, AckedBefore, totalVars,
                    lastAckVars, heightVars, pointVars
<1>15. Points'
  <2>1. ack_points[2].ack_time \in Int /\ ack_points[2].ack_time <= clock
    BY <1>1 DEF Typed, PointType, Stamp, Unset, Points
  <2>2. ack_points'[2].ack_time <= clock'
    BY <1>2, <1>3, <1>4, <2>1 DEF Flat, pointVars
  <2>. QED  BY <1>1, <1>4, <2>2 DEF Points, CandidatesOrdered, Follows, less_recent_point,
                                    pointVars, totalVars, Tracked
<1>16. TrimmingKeepsNeededCandidate' /\ AppLimitedPacketsMarked'
  BY <1>4 DEF SamplingInv, TrimmingKeepsNeededCandidate, AppLimitedPacketsMarked,
              pointVars, historyVars, appVars
<1>17. RoundsRecorded'
  <2>1. CASE UNCHANGED <<round_trip_count, end_of_round_trip>>
    BY <1>4, <2>1 DEF SamplingInv, RoundsRecorded, Known, historyVars
  <2>2. CASE end_of_round_trip' = last_sent_packet_no
    <3>2. end_of_round_trip' \in Nat /\ \A p \in Known : p <= end_of_round_trip'
      BY <1>1, <1>2, <2>2 DEF Numbered, Flat
    <3>3. \A p \in Known : p \in Nat
      <4>1. scenario.max_packet \in Nat
        BY <1>1, EnvironmentAssumption, NoPacketAssumption DEF Typed, ScenarioType
      <4>2. Known \subseteq 1..scenario.max_packet
        BY <1>1 DEF Numbered
      <4>. QED  BY <4>1, <4>2
    <3>1. \A p \in Known : ~ (p > end_of_round_trip')
      BY <3>2, <3>3
    <3>. QED  BY <1>4, <3>1 DEF RoundsRecorded, Known, historyVars
  <2>. QED  BY <1>10, <2>1, <2>2
<1>. QED
  BY <1>9, <1>11, <1>12, <1>13, <1>14, <1>15, <1>16, <1>17 DEF SamplingInv

-----------------------------------------------------------------------------
(* An acknowledged packet.                                                 *)

(* What an acknowledgement does, with the packet it is about.              *)
Acks(p, pkt) ==
  /\ p \in Tracked /\ pkt = state_map[p] /\ pkt \in PacketType
  /\ total_bytes_acked' = total_bytes_acked + pkt.bytes
  /\ total_bytes_sent_at_last_acked_packet' = pkt.state.total_bytes_sent
  /\ last_acked_packet_sent_time' = pkt.sent_time
  /\ last_acked_packet_ack_time' = clock
  /\ ack_points' = UpdatedPoints(ack_points, clock, total_bytes_acked')
  /\ is_app_limited' \in BOOLEAN /\ (is_app_limited' => is_app_limited)
  /\ \/ UNCHANGED <<a0_candidates, event_sample>>
     \/ /\ A0(pkt).ack_time < clock
        /\ a0_candidates' = TrimmedCandidates(pkt)
        /\ event_sample' =
             Merged(pkt,
                    Bandwidth(SendRate(pkt),
                              Rate(total_bytes_acked' - A0(pkt).total_bytes_acked,
                                   clock - A0(pkt).ack_time)),
                    clock - pkt.sent_time, total_bytes_acked')
  /\ todo_acked # <<>> /\ p = Head(todo_acked) /\ todo_acked' = Tail(todo_acked)
  /\ delivered' = delivered \union {p}
  /\ UNCHANGED <<last_sent_packet, total_bytes_sent, total_bytes_lost,
                 total_bytes_neutered, end_of_app_limited_phase, state_map,
                 heightVars, roundVars, clock, last_send_time, bytes_in_flight,
                 outstanding, event, todo_lost, removed_up_to, sent, scenario>>

LEMMA AckAcks ==
  ASSUME SamplingInv, AckPacket
  PROVE  LET p == Head(todo_acked)
         IN  /\ Acks(p, state_map[p])
             /\ todo_lost = <<>> /\ ~Idle
             /\ while_inflight' =
                  [q \in DOMAIN while_inflight |->
                     while_inflight[q] + IF {p, q} \intersect delivered = {}
                                           THEN sent[p].bytes ELSE 0]
<1>. DEFINE p == Head(todo_acked)
            pkt == state_map[p]
<1>1. todo_acked \in Seq(Tracked) /\ todo_acked # <<>> /\ Typed
  BY DEF SamplingInv, Typed, AckPacket
<1>2. p \in Tracked /\ pkt \in PacketType
  <2>1. p \in Tracked
    BY <1>1, HeadTailProperties
  <2>. QED  BY <1>1, <2>1 DEF Typed
<1>3. OnPktAcked(p, clock)
  BY DEF AckPacket
<1>. HIDE DEF p
<1>4. p \in DOMAIN state_map
  BY <1>2 DEF Tracked
<1>5. is_app_limited' = (is_app_limited /\ ~EndsAppLimited(p))
  BY <1>3, <1>4 DEF OnPktAcked
<1>6. is_app_limited' \in BOOLEAN /\ (is_app_limited' => is_app_limited)
  <2>1. is_app_limited \in BOOLEAN
    BY <1>1, Flattened DEF Typed, Flat
  <2>. QED  BY <1>5, <2>1
<1>7. Acks(p, pkt)
  <2>1. /\ total_bytes_acked' = total_bytes_acked + pkt.bytes
        /\ total_bytes_sent_at_last_acked_packet' = pkt.state.total_bytes_sent
        /\ last_acked_packet_sent_time' = pkt.sent_time
        /\ last_acked_packet_ack_time' = clock
        /\ ack_points' = UpdatedPoints(ack_points, clock, total_bytes_acked')
        /\ UNCHANGED <<last_sent_packet, total_bytes_sent, total_bytes_lost,
                       total_bytes_neutered, end_of_app_limited_phase, state_map,
                       heightVars>>
    BY <1>3, <1>4 DEF OnPktAcked
  <2>2. \/ UNCHANGED <<a0_candidates, event_sample>>
        \/ /\ A0(pkt).ack_time < clock
           /\ a0_candidates' = TrimmedCandidates(pkt)
           /\ event_sample' =
                Merged(pkt,
                       Bandwidth(SendRate(pkt),
                                 Rate(total_bytes_acked' - A0(pkt).total_bytes_acked,
                                      clock - A0(pkt).ack_time)),
                       clock - pkt.sent_time, total_bytes_acked')
    BY <1>3, <1>4, <2>1 DEF OnPktAcked
  <2>. QED  BY <1>1, <1>2, <1>6, <2>1, <2>2 DEF Acks, AckPacket, p
<1>. QED
  BY <1>4, <1>7 DEF AckPacket, p

LEMMA SendRateType ==
  ASSUME NEW pkt \in PacketType,
         pkt.total_sent_bytes_at_last_acked_pkt <= pkt.state.total_bytes_sent
  PROVE  SendRate(pkt) \in Nat
<1>1. /\ pkt.sent_time \in Int /\ pkt.last_acked_pkt_sent_time \in Int
      /\ pkt.total_sent_bytes_at_last_acked_pkt \in Nat
      /\ pkt.state.total_bytes_sent \in Nat
  BY DEF PacketType, SendTimeState, Stamp, Unset
<1>. DEFINE bytes == pkt.state.total_bytes_sent - pkt.total_sent_bytes_at_last_acked_pkt
            ticks == pkt.sent_time - pkt.last_acked_pkt_sent_time
<1>2. bytes \in Nat /\ (pkt.sent_time > pkt.last_acked_pkt_sent_time => ticks \in Nat \ {0})
  BY <1>1
<1>3. SendRate(pkt) = IF pkt.sent_time > pkt.last_acked_pkt_sent_time
                        THEN Rate(bytes, ticks) ELSE Infinity
  BY DEF SendRate
<1>. HIDE DEF bytes, ticks
<1>. QED
  BY <1>2, <1>3, RateNat, SamplerAssumption

(* The candidates after an acknowledgement: a tail of the old ones that    *)
(* keeps their order and the last of them.                                 *)
LEMMA AckedCandidates ==
  ASSUME SamplingInv, NEW p, NEW pkt, Acks(p, pkt)
  PROVE  /\ a0_candidates # <<>> /\ a0_candidates \in Seq(PointType)
         /\ a0_candidates' # <<>> /\ a0_candidates' \in Seq(PointType)
         /\ a0_candidates'[Len(a0_candidates')] = a0_candidates[Len(a0_candidates)]
         /\ CandidatesOrdered'
         /\ \A i \in DOMAIN a0_candidates' :
              \E j \in DOMAIN a0_candidates : a0_candidates'[i] = a0_candidates[j]
         /\ \/ a0_candidates'[1] = a0_candidates[1]
            \/ a0_candidates'[1].total_bytes_acked <= pkt.state.total_bytes_acked
<1>1. Typed /\ Points
  BY DEF SamplingInv
<1>2. a0_candidates # <<>> /\ a0_candidates \in Seq(PointType) /\ pkt \in PacketType
  BY <1>1 DEF Typed, Points, Acks
<1>3. CASE UNCHANGED a0_candidates
  BY <1>1, <1>2, <1>3 DEF Points, CandidatesOrdered
<1>4. CASE a0_candidates' = TrimmedCandidates(pkt)
  <2>. DEFINE c == ChosenA0(pkt.state.total_bytes_acked)
              n == Len(a0_candidates)
              t == a0_candidates'
  <2>0. n \in Nat
    OBVIOUS
  <2>1. /\ t \in Seq(PointType) /\ t # <<>>
        /\ t[Len(t)] = a0_candidates[n]
        /\ Len(t) = n - c + 1
        /\ \A i \in 1..Len(t) : /\ c + i - 1 \in 1..n
                                /\ t[i] = a0_candidates[c + i - 1]
    BY <1>2, <1>4, TrimmedProperties
  <2>2. pkt.state.total_bytes_acked \in Nat
    BY <1>2 DEF PacketType, SendTimeState
  <2>3. c \in 1..n /\ (c = 1 \/ a0_candidates[c].total_bytes_acked <= pkt.state.total_bytes_acked)
    BY <1>2, <2>2, ChosenProperties
  <2>. HIDE DEF c, n
  <2>4. 1 \in 1..Len(t) /\ t[1] = a0_candidates[c]
    BY <2>0, <2>1, <2>3
  <2>5. CandidatesOrdered'
    <3>. SUFFICES ASSUME NEW i \in 1..(Len(t) - 1)
                  PROVE  Follows(t[i], t[i + 1])
      BY DEF CandidatesOrdered, Follows
    <3>1. i \in 1..Len(t) /\ i + 1 \in 1..Len(t)
      BY <2>0, <2>1, <2>3
    <3>. DEFINE k == c + i - 1
    <3>4. /\ t[i] = a0_candidates[c + i - 1]
          /\ t[i + 1] = a0_candidates[c + (i + 1) - 1]
          /\ c + (i + 1) - 1 \in 1..n
      BY <2>1, <3>1
    <3>5. c + (i + 1) - 1 = k + 1 /\ k \in 1..(n - 1)
      BY <2>0, <2>1, <2>3, <3>1, <3>4
    <3>2. t[i] = a0_candidates[k] /\ t[i + 1] = a0_candidates[k + 1] /\ k \in 1..(n - 1)
      BY <3>4, <3>5
    <3>. HIDE DEF k
    <3>3. Follows(a0_candidates[k], a0_candidates[k + 1])
      BY <1>1, <3>2 DEF Points, CandidatesOrdered, Follows, n
    <3>. QED  BY <3>2, <3>3
  <2>6. \A i \in DOMAIN t : \E j \in DOMAIN a0_candidates : t[i] = a0_candidates[j]
    <3>1. DOMAIN t = 1..Len(t) /\ DOMAIN a0_candidates = 1..n
      BY <1>2, <2>1 DEF n
    <3>. QED  BY <2>1, <3>1
  <2>. QED  BY <1>2, <2>1, <2>3, <2>4, <2>5, <2>6 DEF n
<1>. QED
  BY <1>3, <1>4 DEF Acks

LEMMA AckedSample ==
  ASSUME SamplingInv, NEW p, NEW pkt, Acks(p, pkt)
  PROVE  event_sample' \in SampleType
<1>1. Typed /\ Points /\ Counted /\ Timed
  BY DEF SamplingInv
<1>2. Flat /\ p \in Tracked /\ pkt \in PacketType /\ pkt = state_map[p]
  BY <1>1, Flattened DEF Typed, Acks
<1>3. CASE UNCHANGED event_sample
  BY <1>1, <1>3 DEF Typed
<1>4. CASE /\ A0(pkt).ack_time < clock
           /\ event_sample' =
                Merged(pkt,
                       Bandwidth(SendRate(pkt),
                                 Rate(total_bytes_acked' - A0(pkt).total_bytes_acked,
                                      clock - A0(pkt).ack_time)),
                       clock - pkt.sent_time, total_bytes_acked')
  <2>. DEFINE a0 == A0(pkt)
              acked == total_bytes_acked'
              ackRate == Rate(acked - a0.total_bytes_acked, clock - a0.ack_time)
              bw == Bandwidth(SendRate(pkt), ackRate)
              rtt == clock - pkt.sent_time
  <2>1. /\ pkt.bytes \in Nat /\ pkt.sent_time \in Nat /\ pkt.sent_time <= clock
        /\ pkt.state.total_bytes_acked \in Nat
        /\ pkt.state.total_bytes_acked <= total_bytes_acked
        /\ pkt.total_sent_bytes_at_last_acked_pkt <= pkt.state.total_bytes_sent
    BY <1>1, <1>2 DEF PacketType, SendTimeState, Timed, Counted, CountersConsistent, Tracked
  <2>2. /\ total_bytes_acked \in Nat /\ clock \in Nat
        /\ acked = total_bytes_acked + pkt.bytes
    BY <1>2 DEF Flat, Acks
  <2>. HIDE DEF acked
  <2>3. acked \in Nat /\ total_bytes_acked <= acked /\ rtt \in Nat
        /\ pkt.state.total_bytes_acked <= acked
    BY <2>1, <2>2
  <2>4. a0 \in PointType /\ a0.total_bytes_acked <= total_bytes_acked
    <3>1. a0_candidates # <<>> /\ a0_candidates \in Seq(PointType)
      BY AckedCandidates
    <3>. DEFINE c == ChosenA0(pkt.state.total_bytes_acked)
    <3>2. c \in 1..Len(a0_candidates)
      BY <2>1, <3>1, ChosenProperties
    <3>3. a0 = a0_candidates[c]
      BY <3>1 DEF A0
    <3>. HIDE DEF c, a0
    <3>4. c \in DOMAIN a0_candidates /\ a0_candidates[c] \in PointType
      BY <3>1, <3>2
    <3>. QED  BY <1>1, <3>3, <3>4 DEF Counted, CountersConsistent
  <2>5. a0.ack_time < clock
    BY <1>4
  <2>. HIDE DEF a0
  <2>6. acked - a0.total_bytes_acked \in Nat /\ clock - a0.ack_time \in Nat \ {0}
    BY <2>2, <2>3, <2>4, <2>5 DEF PointType, Stamp, Unset
  <2>7. ackRate \in Nat
    <3>. DEFINE x == acked - a0.total_bytes_acked
                y == clock - a0.ack_time
    <3>. HIDE DEF x, y
    <3>1. x \in Nat /\ y \in Nat \ {0}
      BY <2>6 DEF x, y
    <3>2. Rate(x, y) \in Nat
      BY <3>1, RateNat
    <3>. QED  BY <3>2 DEF x, y
  <2>. HIDE DEF ackRate
  <2>8. bw \in Nat
    BY <1>2, <2>1, <2>7, SendRateType DEF Bandwidth
  <2>9. event_sample' = Merged(pkt, bw, rtt, acked)
    BY <1>4 DEF a0, acked, ackRate
  <2>10. event_sample \in SampleType
    BY <1>1 DEF Typed
  <2>. HIDE DEF bw, rtt
  <2>. QED  BY <1>2, <2>3, <2>8, <2>9, <2>10, MergedType
<1>. QED
  BY <1>3, <1>4 DEF Acks

LEMMA StepAckPacket == ASSUME SamplingInv, AckPacket PROVE SamplingInv'
<1>. DEFINE p == Head(todo_acked)
            pkt == state_map[p]
<1>1. Acks(p, pkt) /\ todo_lost = <<>> /\ ~Idle
      /\ while_inflight' =
           [q \in DOMAIN while_inflight |->
              while_inflight[q] + IF {p, q} \intersect delivered = {} THEN sent[p].bytes ELSE 0]
  BY AckAcks
<1>. HIDE DEF p, pkt
<1>2. Typed /\ Numbered /\ Timed /\ Counted /\ Points /\ InFlightCounted
  BY DEF SamplingInv
<1>3. Flat
  BY <1>2, Flattened DEF Typed
<1>4. /\ p \in Tracked /\ pkt = state_map[p] /\ pkt \in PacketType
      /\ total_bytes_acked' = total_bytes_acked + pkt.bytes
      /\ Tracked' = Tracked /\ Known' = Known
      /\ clock' = clock
  BY <1>1 DEF Acks, Tracked, Known
<1>5. /\ pkt.bytes \in Nat \ {0} /\ pkt.sent_time \in Nat /\ pkt.sent_time <= clock
      /\ pkt.state.total_bytes_acked \in Nat
      /\ pkt.state.total_bytes_acked <= total_bytes_acked
      /\ pkt.state.total_bytes_sent \in Nat
      /\ pkt.state.total_bytes_sent <= total_bytes_sent
  BY <1>2, <1>4 DEF PacketType, SendTimeState, Timed, Counted, CountersConsistent, Tracked
<1>6. /\ total_bytes_acked \in Nat /\ total_bytes_acked' \in Nat
      /\ total_bytes_acked <= total_bytes_acked' /\ total_bytes_acked' # 0
      /\ clock \in Nat
  BY <1>3, <1>4, <1>5 DEF Flat
<1>7. /\ a0_candidates' # <<>> /\ a0_candidates' \in Seq(PointType)
      /\ a0_candidates'[Len(a0_candidates')] = a0_candidates[Len(a0_candidates)]
      /\ CandidatesOrdered'
      /\ \A i \in DOMAIN a0_candidates' :
           \E j \in DOMAIN a0_candidates : a0_candidates'[i] = a0_candidates[j]
      /\ \/ a0_candidates'[1] = a0_candidates[1]
         \/ a0_candidates'[1].total_bytes_acked <= pkt.state.total_bytes_acked
      /\ a0_candidates # <<>> /\ a0_candidates \in Seq(PointType)
  BY <1>1, AckedCandidates
<1>8. /\ ack_points'[1] \in PointType /\ ack_points'[2] \in PointType
      /\ Follows(ack_points'[1], ack_points'[2])
      /\ ack_points'[2] = AckPoint(clock, total_bytes_acked')
      /\ Follows(less_recent_point, less_recent_point')
  <2>. DEFINE points == ack_points
              acked == total_bytes_acked'
  <2>1. /\ points[1] \in PointType /\ points[2] \in PointType
        /\ Follows(points[1], points[2])
        /\ points[2].ack_time <= clock
        /\ points[2].total_bytes_acked <= total_bytes_acked
    BY <1>2 DEF Typed, Points
  <2>2. points[2].total_bytes_acked <= acked
    BY <1>6, <2>1 DEF PointType
  <2>3. ack_points' = UpdatedPoints(points, clock, acked)
    BY <1>1 DEF Acks
  <2>4. acked \in Nat
    BY <1>6
  <2>. HIDE DEF points, acked
  <2>. DEFINE new == UpdatedPoints(points, clock, acked)
              less(ps) == IF ps[1].total_bytes_acked # 0 THEN ps[1] ELSE ps[2]
  <2>5. /\ new[1] \in PointType /\ new[2] \in PointType
        /\ Follows(new[1], new[2])
        /\ new[2] = AckPoint(clock, acked)
        /\ Follows(less(points), less(new))
    BY <1>6, <2>1, <2>2, <2>4, UpdatedProperties
  <2>6. less_recent_point = less(points) /\ less_recent_point' = less(new)
    BY <2>3 DEF less_recent_point, points
  <2>. HIDE DEF new
  <2>. QED  BY <2>3, <2>5, <2>6 DEF new, acked
<1>9. event_sample' \in SampleType
  BY <1>1, AckedSample
<1>10. Typed'
  <2>1. Tail(todo_acked) \in Seq(Tracked)
    <3>1. todo_acked \in Seq(Tracked) /\ todo_acked # <<>>
      BY <1>1, <1>2 DEF Typed, Acks
    <3>. QED  BY <3>1, HeadTailProperties
  <2>2. event_sample'.last_packet_send_state \in SendTimeState /\ event_sample'.extra_acked \in Nat
    BY <1>9 DEF SampleType
  <2>3. /\ total_bytes_sent_at_last_acked_packet' \in Nat
        /\ last_acked_packet_sent_time' \in Stamp
        /\ last_acked_packet_ack_time' \in Stamp
    BY <1>1, <1>5, <1>6 DEF Acks, Stamp
  <2>4. Flat'
    BY <1>1, <1>3, <1>4, <1>6, <2>2, <2>3 DEF Flat, Acks, roundVars, heightVars
  <2>5. TypeOK'
    BY <2>4, Flattened
  <2>6. while_inflight' \in [DOMAIN while_inflight' -> Nat]
    <3>1. sent[p].bytes \in Nat
      BY <1>2, <1>4, <1>5 DEF Numbered
    <3>2. \A q \in DOMAIN while_inflight : while_inflight[q] \in Nat
      BY <1>2 DEF Typed
    <3>. DEFINE b == sent[p].bytes
    <3>. HIDE DEF b
    <3>3. while_inflight' = [q \in DOMAIN while_inflight |->
              while_inflight[q] + IF {p, q} \intersect delivered = {} THEN b ELSE 0]
      BY <1>1 DEF b
    <3>4. b \in Nat
      BY <3>1 DEF b
    <3>. QED  BY <3>2, <3>3, <3>4
  <2>7. ~Idle'
    BY <1>1 DEF Acks, Idle
  <2>. QED  BY <1>1, <1>2, <1>4, <1>7, <1>8, <1>9, <2>1, <2>5, <2>6, <2>7 DEF Typed, Acks
<1>11. Numbered'
  <2>1. delivered' \subseteq Known
    BY <1>1, <1>2, <1>4 DEF Numbered, Acks
  <2>2. DOMAIN while_inflight' = DOMAIN while_inflight
    BY <1>1
  <2>. QED  BY <1>1, <1>2, <1>4, <2>1, <2>2 DEF Numbered, Acks, roundVars
<1>12. InFlightCounted'
  BY <1>1, <1>2, BytesAreSizes DEF Acks
<1>13. Timed'
  <2>1. \A i \in DOMAIN todo_acked' : state_map[todo_acked'[i]].sent_time < clock
    <3>1. todo_acked \in Seq(Tracked) /\ todo_acked # <<>> /\ todo_acked' = Tail(todo_acked)
      BY <1>1, <1>2 DEF Typed, Acks
    <3>2. \A i \in DOMAIN Tail(todo_acked) :
            i + 1 \in DOMAIN todo_acked /\ Tail(todo_acked)[i] = todo_acked[i + 1]
      BY <3>1, HeadTailProperties
    <3>. QED  BY <1>2, <3>1, <3>2 DEF Timed
  <2>2. aggregation_epoch_start_time <= clock
    BY <1>2, <1>3, <1>6 DEF Timed, Flat, Stamp, Unset
  <2>3. state_map' = state_map
    BY <1>1 DEF Acks
  <2>. QED  BY <1>1, <1>2, <1>4, <1>6, <2>1, <2>2, <2>3
            DEF Timed, Acks, heightVars, Unset
<1>14. Counted'
  <2>1. \A i \in DOMAIN a0_candidates' :
          a0_candidates'[i].total_bytes_acked <= total_bytes_acked'
    <3>1. \A j \in DOMAIN a0_candidates :
            /\ a0_candidates[j].total_bytes_acked \in Nat
            /\ a0_candidates[j].total_bytes_acked <= total_bytes_acked
      <4>1. \A j \in DOMAIN a0_candidates : a0_candidates[j] \in PointType
        BY <1>7
      <4>. QED  BY <1>2, <4>1 DEF PointType, Counted, CountersConsistent
    <3>. QED  BY <1>6, <1>7, <3>1
  <2>2. \A q \in Tracked :
          /\ state_map[q].state.total_bytes_acked \in Nat
          /\ state_map[q].state.total_bytes_acked <= total_bytes_acked
    BY <1>2 DEF Typed, PacketType, SendTimeState, Counted, CountersConsistent, Tracked
  <2>3. \A q \in Tracked : state_map[q].state.total_bytes_acked <= total_bytes_acked'
    BY <1>6, <2>2
  <2>4. total_bytes_acked_after_last_ack_event <= total_bytes_acked'
    BY <1>2, <1>3, <1>6 DEF Counted, CountersConsistent, Flat
  <2>5. CountersConsistent'
    BY <1>1, <1>2, <2>1, <2>3, <2>4 DEF Counted, CountersConsistent, Acks, Tracked, heightVars
  <2>. QED  BY <1>1, <1>2, <1>4, <1>5, <2>5 DEF Counted, Acks, AckedBefore
<1>15. Points'
  <2>1. Follows(a0_candidates[Len(a0_candidates)], less_recent_point)
    BY <1>2, <1>7 DEF Points
  <2>2. /\ a0_candidates[Len(a0_candidates)] \in PointType
        /\ less_recent_point \in PointType /\ less_recent_point' \in PointType
    BY <1>2, <1>7, <1>8 DEF Typed, less_recent_point
  <2>3. Follows(a0_candidates'[Len(a0_candidates')], less_recent_point')
    <3>. DEFINE c == a0_candidates[Len(a0_candidates)]
                d == less_recent_point
                e == less_recent_point'
    <3>1. Follows(c, d) /\ Follows(d, e) /\ c \in PointType /\ d \in PointType /\ e \in PointType
      BY <1>8, <2>1, <2>2
    <3>. HIDE DEF c, d, e
    <3>2. Follows(c, e)
      BY <3>1 DEF Follows, PointType, Stamp, Unset
    <3>. QED  BY <1>7, <3>2 DEF c, e
  <2>4. /\ ack_points'[2].ack_time <= clock'
        /\ ack_points'[2].total_bytes_acked <= total_bytes_acked'
    BY <1>4, <1>6, <1>8 DEF AckPoint
  <2>. QED  BY <1>7, <1>8, <2>3, <2>4 DEF Points
<1>16. TrimmingKeepsNeededCandidate'
  <2>. SUFFICES ASSUME NEW q \in outstanding \intersect Tracked,
                       \A r \in delivered' : r < q
                PROVE  a0_candidates'[1].total_bytes_acked <= AckedBefore(q)
    BY <1>1, <1>4, <1>7 DEF TrimmingKeepsNeededCandidate, Tracked, Acks, AckedBefore
  <2>1. p < q /\ \A r \in delivered : r < q
    BY <1>1 DEF Acks
  <2>2. a0_candidates[1].total_bytes_acked <= AckedBefore(q)
    BY <2>1 DEF SamplingInv, TrimmingKeepsNeededCandidate, AckedBefore, Tracked
  <2>3. AckedBefore(p) <= AckedBefore(q) /\ AckedBefore(p) = pkt.state.total_bytes_acked
    BY <1>2, <1>4, <2>1 DEF Counted, AckedBefore
  <2>4. AckedBefore(q) \in Nat /\ a0_candidates'[1].total_bytes_acked \in Nat
    <3>1. a0_candidates'[1] \in PointType
      BY <1>7
    <3>2. state_map[q] \in PacketType
      BY <1>2 DEF Typed
    <3>. QED  BY <3>1, <3>2 DEF AckedBefore, PacketType, SendTimeState, PointType
  <2>. QED  BY <1>5, <1>7, <2>2, <2>3, <2>4
<1>17. AppLimitedPacketsMarked' /\ RoundsRecorded'
  BY <1>1, <1>4 DEF SamplingInv, AppLimitedPacketsMarked, RoundsRecorded, Acks, roundVars
<1>. QED
  BY <1>10, <1>11, <1>12, <1>13, <1>14, <1>15, <1>16, <1>17 DEF SamplingInv

(***************************************************************************)
(* The end of an event                                                     *)
(***************************************************************************)
LEMMA TimesAtLeast ==
  ASSUME NEW t \in Nat \ {0}, NEW e \in Nat
  PROVE  t * e \in Nat /\ t * e >= e
<1>1. \A a, b \in Nat : (a + 1) * b = a * b + b
  OBVIOUS
<1>2. t - 1 \in Nat /\ t = (t - 1) + 1
  OBVIOUS
<1>3. (t - 1) * e \in Nat
  BY <1>2, TimesNat
<1>4. t * e = (t - 1) * e + e
  BY <1>1, <1>2
<1>. QED
  BY <1>3, <1>4

(* The bytes above the expectation are a natural number: an epoch that goes *)
(* on has more than it expects.                                            *)
LEMMA HeightTracked ==
  ASSUME NEW bw \in Nat, NEW at \in Nat, aggregation_epoch_bytes \in Nat,
         aggregation_epoch_start_time \in Stamp, aggregation_epoch_start_time <= at,
         NEW newly \in Nat
  PROVE  ExtraBytesAcked(bw, at, newly) \in Nat
<1>1. CASE StartsEpoch(bw, at)
  BY <1>1 DEF ExtraBytesAcked
<1>2. CASE ~StartsEpoch(bw, at)
  <2>. DEFINE e == ExpectedBytesAcked(bw, at)
  <2>1. at - aggregation_epoch_start_time \in Nat
    BY <1>2 DEF StartsEpoch, Stamp, Unset
  <2>2. bw * (at - aggregation_epoch_start_time) \in Nat
    BY <2>1, TimesNat
  <2>3. e \in Nat
    BY <2>2, DivNat, SamplerAssumption DEF ExpectedBytesAcked
  <2>4. ~(aggregation_epoch_bytes <= AckHeightThreshold * e)
    BY <1>2 DEF StartsEpoch
  <2>5. ExtraBytesAcked(bw, at, newly) = aggregation_epoch_bytes + newly - e
    BY <1>2 DEF ExtraBytesAcked
  <2>. HIDE DEF e
  <2>6. AckHeightThreshold * e \in Nat /\ AckHeightThreshold * e >= e
    BY <2>3, TimesAtLeast, SamplerAssumption
  <2>. QED  BY <2>3, <2>4, <2>5, <2>6
<1>. QED
  BY <1>1, <1>2

LEMMA LastStateType ==
  ASSUME event_sample \in SampleType, NEW acked, NEW lost
  PROVE  LastPacketSendState(acked, lost) \in SendTimeState
BY DEF LastPacketSendState, SampleType, SendTimeState

(* What the end of an event may do to the tracker and to the candidates.   *)
Finished(newly) ==
  \/ UNCHANGED <<heightVars, a0_candidates>>
  \/ /\ newly # 0
     /\ total_bytes_acked_after_last_ack_event' = total_bytes_acked
     /\ aggregation_epoch_start_time' \in Stamp
     /\ aggregation_epoch_start_time' <= last_acked_packet_ack_time
     /\ aggregation_epoch_bytes' \in Nat
     /\ estimates' \in EstimatesType
     /\ \/ UNCHANGED a0_candidates
        \/ a0_candidates' = Append(a0_candidates, less_recent_point)

LEMMA EndFinishes ==
  ASSUME SamplingInv, EndEvent
  PROVE  /\ event_sample' \in SampleType
         /\ Finished(total_bytes_acked - total_bytes_acked_after_last_ack_event)
<1>1. Typed /\ Timed /\ Counted
  BY DEF SamplingInv
<1>2. Flat
  BY <1>1, Flattened DEF Typed
<1>. DEFINE newly == total_bytes_acked - total_bytes_acked_after_last_ack_event
            bw == Capped(event.max_bw, event.upper_bound)
            at == last_acked_packet_ack_time
<1>3. newly \in Nat
  BY <1>1, <1>2 DEF Flat, Counted, CountersConsistent
<1>4. bw \in Nat
  BY <1>1 DEF Typed, EventType, SampleType, Capped
<1>5. newly # 0 => at \in Nat
  BY <1>1, <1>2 DEF Timed, Flat, Stamp, Counted, CountersConsistent
<1>6. /\ aggregation_epoch_start_time \in Stamp /\ aggregation_epoch_start_time <= at
      /\ aggregation_epoch_bytes \in Nat /\ estimates \in EstimatesType
      /\ round_trip_count \in Nat
  BY <1>1, <1>2 DEF Timed, Flat
<1>7. newly # 0 => ExtraBytesAcked(bw, at, newly) \in Nat
  <2>. HIDE DEF newly, bw, at
  <2>. QED  BY <1>3, <1>4, <1>5, <1>6, HeightTracked
<1>8. \/ /\ event.acked = <<>>
         /\ event_sample' =
              [event_sample EXCEPT !.last_packet_send_state = event_sample.lost_state]
         /\ UNCHANGED <<heightVars, a0_candidates>>
      \/ /\ ExtraAcked(bw, round_trip_count)
         /\ event_sample' =
              [event_sample EXCEPT
                 !.last_packet_send_state = LastPacketSendState(event.acked, event.lost),
                 !.extra_acked =
                    IF newly = 0 THEN 0 ELSE ExtraBytesAcked(bw, at, newly)]
  BY DEF EndEvent, FinishSample
<1>9. event_sample' \in SampleType
  <2>1. event_sample \in SampleType
    BY <1>1 DEF Typed
  <2>2. LastPacketSendState(event.acked, event.lost) \in SendTimeState
    BY <2>1, LastStateType
  <2>. DEFINE s == LastPacketSendState(event.acked, event.lost)
              x == IF newly = 0 THEN 0 ELSE ExtraBytesAcked(bw, at, newly)
  <2>3. x \in Nat /\ s \in SendTimeState
    BY <1>7, <2>2
  <2>4. \/ event_sample' =
              [event_sample EXCEPT !.last_packet_send_state = event_sample.lost_state]
        \/ event_sample' =
              [event_sample EXCEPT !.last_packet_send_state = s, !.extra_acked = x]
    BY <1>8
  <2>. HIDE DEF s, x
  <2>. QED  BY <2>1, <2>3, <2>4 DEF SampleType
<1>10. Finished(newly)
  <2>1. CASE UNCHANGED <<heightVars, a0_candidates>>
    BY <2>1 DEF Finished
  <2>2. CASE ExtraAcked(bw, round_trip_count)
    <3>1. CASE newly = 0
      BY <2>2, <3>1 DEF ExtraAcked, Finished
    <3>2. CASE newly # 0
      <4>1. /\ total_bytes_acked_after_last_ack_event' = total_bytes_acked
            /\ TrackAckHeight(bw, round_trip_count, at, newly)
            /\ a0_candidates' = IF StartsEpoch(bw, at)
                                  THEN Append(a0_candidates, less_recent_point)
                                  ELSE a0_candidates
        BY <2>2, <3>2 DEF ExtraAcked
      <4>2. CASE StartsEpoch(bw, at)
        <5>1. /\ aggregation_epoch_bytes' = newly /\ aggregation_epoch_start_time' = at
              /\ estimates' = estimates
          BY <4>1, <4>2 DEF TrackAckHeight
        <5>2. at <= at /\ at \in Stamp
          BY <1>5, <3>2 DEF Stamp
        <5>. QED  BY <1>3, <1>6, <3>2, <4>1, <4>2, <5>1, <5>2 DEF Finished
      <4>3. CASE ~StartsEpoch(bw, at)
        <5>. DEFINE x == ExtraBytesAcked(bw, at, newly)
        <5>1. /\ aggregation_epoch_bytes' = aggregation_epoch_bytes + newly
              /\ estimates' = update(x, round_trip_count)
              /\ aggregation_epoch_start_time' = aggregation_epoch_start_time
          BY <4>1, <4>3 DEF TrackAckHeight
        <5>2. x \in Nat
          BY <1>7, <3>2
        <5>. HIDE DEF x, newly, at
        <5>3. estimates' \in EstimatesType
          BY <1>6, <5>1, <5>2, UpdateType
        <5>4. aggregation_epoch_bytes' \in Nat
          BY <1>3, <1>6, <5>1
        <5>. QED  BY <1>6, <3>2, <4>1, <4>3, <5>1, <5>3, <5>4 DEF Finished, at
      <4>. QED  BY <4>2, <4>3
    <3>. QED  BY <3>1, <3>2
  <2>. QED  BY <1>8, <2>1, <2>2
<1>. QED
  BY <1>9, <1>10

(* The point that joins the candidates is no older than any of them.       *)
LEMMA FinishedCandidates ==
  ASSUME SamplingInv, NEW newly \in Nat, Finished(newly),
         newly # 0 => total_bytes_acked # 0
  PROVE  /\ a0_candidates' \in Seq(PointType)
         /\ CandidatesOrdered'
         /\ \A i \in DOMAIN a0_candidates' :
              \/ i \in DOMAIN a0_candidates /\ a0_candidates'[i] = a0_candidates[i]
              \/ a0_candidates'[i] = less_recent_point
         /\ a0_candidates' # <<>> =>
              Follows(a0_candidates'[Len(a0_candidates')], less_recent_point)
         /\ a0_candidates # <<>> =>
              a0_candidates' # <<>> /\ a0_candidates'[1] = a0_candidates[1]
<1>1. Typed /\ Points
  BY DEF SamplingInv
<1>2. a0_candidates \in Seq(PointType) /\ less_recent_point \in PointType
  BY <1>1 DEF Typed, less_recent_point
<1>3. CASE UNCHANGED a0_candidates
  BY <1>1, <1>2, <1>3 DEF Points, CandidatesOrdered
<1>4. CASE newly # 0 /\ a0_candidates' = Append(a0_candidates, less_recent_point)
  <2>. DEFINE n == Len(a0_candidates)
              c == a0_candidates'
              d == less_recent_point
  <2>1. /\ c \in Seq(PointType) /\ c # <<>> /\ Len(c) = n + 1
        /\ \A i \in 1..n : c[i] = a0_candidates[i]
        /\ c[n + 1] = d /\ n \in Nat
    BY <1>2, <1>4, AppendProperties
  <2>2. a0_candidates # <<>> /\ n > 0
    BY <1>1, <1>2, <1>4 DEF Points
  <2>3. Follows(a0_candidates[n], d)
    BY <1>1, <2>2 DEF Points
  <2>4. \A i \in 1..(n - 1) : Follows(a0_candidates[i], a0_candidates[i + 1])
    BY <1>1 DEF Points, CandidatesOrdered, Follows
  <2>5. Follows(d, d)
    BY <1>2 DEF Follows, PointType, Stamp, Unset
  <2>6. DOMAIN c = 1..(n + 1) /\ DOMAIN a0_candidates = 1..n
    BY <1>2, <2>1
  <2>. HIDE DEF c, d, n
  <2>7. \A i \in 1..n : Follows(c[i], c[i + 1])
    <3>. TAKE i \in 1..n
    <3>1. CASE i = n
      BY <2>1, <2>2, <2>3, <3>1
    <3>2. CASE i # n
      <4>1. i \in 1..(n - 1) /\ i + 1 \in 1..n
        BY <2>1, <3>2
      <4>. QED  BY <2>1, <2>4, <4>1
    <3>. QED  BY <3>1, <3>2
  <2>8. CandidatesOrdered'
    <3>1. \A i \in 1..(Len(c) - 1) : Follows(c[i], c[i + 1])
      BY <2>1, <2>7
    <3>. QED  BY <3>1 DEF CandidatesOrdered, Follows, c
  <2>9. \A i \in DOMAIN c :
          \/ i \in DOMAIN a0_candidates /\ c[i] = a0_candidates[i]
          \/ c[i] = d
    BY <2>1, <2>6
  <2>10. Follows(c[Len(c)], d) /\ c[1] = a0_candidates[1]
    BY <2>1, <2>2, <2>5
  <2>. QED  BY <2>1, <2>8, <2>9, <2>10 DEF c, d
<1>. QED
  BY <1>3, <1>4 DEF Finished

LEMMA StepEndEvent == ASSUME SamplingInv, EndEvent PROVE SamplingInv'
<1>1. Typed /\ Numbered /\ Timed /\ Counted /\ Points /\ InFlightCounted
  BY DEF SamplingInv
<1>2. Flat
  BY <1>1, Flattened DEF Typed
<1>. DEFINE newly == total_bytes_acked - total_bytes_acked_after_last_ack_event
<1>3. event_sample' \in SampleType /\ Finished(newly)
  BY EndFinishes
<1>4. /\ event' = NoEvent /\ Idle' /\ todo_lost' = <<>> /\ todo_acked' = <<>>
      /\ UNCHANGED <<last_sent_packet, totalVars, lastAckVars, appVars, state_map,
                     ack_points, clock, last_send_time, bytes_in_flight, outstanding,
                     removed_up_to, historyVars, scenario>>
      /\ UNCHANGED <<round_trip_count, last_sent_packet_no>>
      /\ end_of_round_trip' \in {end_of_round_trip, last_sent_packet_no}
  BY DEF EndEvent, FinishSample, Idle, NoEvent, RoundRestart, roundVars
<1>5. newly \in Nat /\ (newly # 0 => total_bytes_acked # 0)
  BY <1>1, <1>2 DEF Flat, Counted, CountersConsistent
<1>6. /\ a0_candidates' \in Seq(PointType)
      /\ CandidatesOrdered'
      /\ \A i \in DOMAIN a0_candidates' :
           \/ i \in DOMAIN a0_candidates /\ a0_candidates'[i] = a0_candidates[i]
           \/ a0_candidates'[i] = less_recent_point
      /\ a0_candidates' # <<>> =>
           Follows(a0_candidates'[Len(a0_candidates')], less_recent_point)
      /\ a0_candidates # <<>> =>
           a0_candidates' # <<>> /\ a0_candidates'[1] = a0_candidates[1]
  <2>. HIDE DEF newly
  <2>. QED  BY <1>3, <1>5, FinishedCandidates
<1>7. /\ aggregation_epoch_start_time' \in Stamp
      /\ aggregation_epoch_start_time' <= last_acked_packet_ack_time
      /\ aggregation_epoch_bytes' \in Nat /\ estimates' \in EstimatesType
      /\ total_bytes_acked_after_last_ack_event' \in Nat
      /\ total_bytes_acked_after_last_ack_event' <= total_bytes_acked
  BY <1>1, <1>2, <1>3 DEF Finished, Flat, Timed, Counted, CountersConsistent, heightVars
<1>8. Typed'
  <2>1. event_sample'.last_packet_send_state \in SendTimeState /\ event_sample'.extra_acked \in Nat
    BY <1>3 DEF SampleType
  <2>2. Flat'
    BY <1>2, <1>4, <1>7, <2>1
    DEF Flat, totalVars, lastAckVars, appVars, Tracked
  <2>3. TypeOK'
    BY <2>2, Flattened
  <2>4. event' \in EventType
    BY <1>4 DEF EventType, NoEvent
  <2>. QED  BY <1>1, <1>3, <1>4, <1>6, <2>3, <2>4 DEF Typed, Tracked, Known, historyVars
<1>9. Numbered'
  BY <1>1, <1>4 DEF Numbered, Tracked, Known, historyVars
<1>10. InFlightCounted'
  BY <1>1, <1>4, BytesAreSizes DEF historyVars
<1>11. Timed'
  BY <1>1, <1>4, <1>7 DEF Timed, Tracked, totalVars, lastAckVars
<1>12. less_recent_point' = less_recent_point
  BY <1>4 DEF less_recent_point
<1>13. Counted'
  <2>1. less_recent_point.total_bytes_acked <= total_bytes_acked
    <3>1. /\ ack_points[1].total_bytes_acked <= ack_points[2].total_bytes_acked
          /\ ack_points[2].total_bytes_acked <= total_bytes_acked
          /\ ack_points[1] \in PointType /\ ack_points[2] \in PointType
      BY <1>1 DEF Typed, Points, Follows
    <3>2. /\ ack_points[1].total_bytes_acked \in Nat
          /\ ack_points[2].total_bytes_acked \in Nat /\ total_bytes_acked \in Nat
      BY <1>2, <3>1 DEF PointType, Flat
    <3>3. \/ less_recent_point.total_bytes_acked = ack_points[1].total_bytes_acked
          \/ less_recent_point.total_bytes_acked = ack_points[2].total_bytes_acked
      BY DEF less_recent_point
    <3>. QED  BY <3>1, <3>2, <3>3
  <2>2. \A i \in DOMAIN a0_candidates' :
          a0_candidates'[i].total_bytes_acked <= total_bytes_acked
    BY <1>1, <1>6, <2>1 DEF Counted, CountersConsistent
  <2>. QED  BY <1>1, <1>4, <1>7, <2>2
            DEF Counted, CountersConsistent, AckedBefore, Tracked, totalVars, lastAckVars
<1>14. Points'
  <2>1. Tracked' # {} \/ total_bytes_acked' # 0 => a0_candidates' # <<>>
    BY <1>1, <1>4, <1>6 DEF Points, Tracked, totalVars
  <2>. QED  BY <1>1, <1>4, <1>6, <1>12, <2>1 DEF Points, totalVars
<1>15. TrimmingKeepsNeededCandidate'
  BY <1>4, <1>6 DEF SamplingInv, TrimmingKeepsNeededCandidate, historyVars
<1>16. AppLimitedPacketsMarked'
  BY <1>4 DEF SamplingInv, AppLimitedPacketsMarked, appVars
<1>17. RoundsRecorded'
  <2>1. CASE end_of_round_trip' = end_of_round_trip
    BY <1>4, <2>1 DEF SamplingInv, RoundsRecorded, Known, historyVars
  <2>2. CASE end_of_round_trip' = last_sent_packet_no
    <3>1. \A p \in Known : p <= last_sent_packet_no /\ p \in Int
      <4>1. scenario.max_packet \in Nat
        BY <1>1, EnvironmentAssumption, NoPacketAssumption DEF Typed, ScenarioType
      <4>. QED  BY <1>1, <4>1 DEF Numbered
    <3>2. last_sent_packet_no \in Int
      BY <1>2 DEF Flat
    <3>3. \A p \in Known : ~(p > end_of_round_trip')
      BY <2>2, <3>1, <3>2
    <3>. QED  BY <1>4, <3>3 DEF RoundsRecorded, Known, historyVars
  <2>. QED  BY <1>4, <2>1, <2>2
<1>. QED
  BY <1>8, <1>9, <1>10, <1>11, <1>13, <1>14, <1>15, <1>16, <1>17 DEF SamplingInv

(***************************************************************************)
(* Every step                                                              *)
(***************************************************************************)
LEMMA SamplingNext == SamplingInv /\ [Next]_vars => SamplingInv'
<1>. SUFFICES ASSUME SamplingInv, [Next]_vars PROVE SamplingInv'
  OBVIOUS
<1>0. \A ticks \in scenario.time_steps, need \in scenario.need_retransmit : need \in BOOLEAN
  BY EnvironmentAssumption DEF SamplingInv, Typed, ScenarioType
<1>1. ASSUME NEW ticks \in scenario.time_steps, Passes(ticks),
             NEW bytes \in Sizes, NEW need \in scenario.need_retransmit,
             Send(bytes, need)
      PROVE  SamplingInv'
  BY <1>0, <1>1, StepSend
<1>2. ASSUME NEW ticks \in scenario.time_steps, Passes(ticks),
             NEW acked \in SUBSET (outstanding \union DOMAIN state_map),
             NEW lost \in SUBSET outstanding, StartEvent(acked, lost)
      PROVE  SamplingInv'
  BY <1>2, StepStartEvent
<1>3. CASE LosePacket
  BY <1>3, StepLosePacket
<1>4. CASE AckPacket
  BY <1>4, StepAckPacket
<1>5. CASE EndEvent
  BY <1>5, StepEndEvent
<1>6. CASE AppLimited
  BY <1>6, StepAppLimited
<1>7. ASSUME NEW p \in outstanding, Neuter(p) PROVE SamplingInv'
  BY <1>7, NeuterForgets, ForgetKeeps
<1>8. ASSUME NEW up_to \in 1..(scenario.max_packet + 1), RemoveObsolete(up_to)
      PROVE  SamplingInv'
  BY <1>8, RemoveObsoleteForgets, ForgetKeeps
<1>9. CASE UNCHANGED vars
  BY <1>9, Stutters
<1>. QED
  BY <1>1, <1>2, <1>3, <1>4, <1>5, <1>6, <1>7, <1>8, <1>9 DEF Next

(* The sampler's invariant holds in every reachable state, whatever is     *)
(* sent, lost, repeated, neutered or forgotten.                            *)
THEOREM SamplingInvariant == Spec => []SamplingInv
<1>1. Init => SamplingInv
  BY SamplingInit
<1>. QED
  BY <1>1, SamplingNext, PTL DEF Spec

(* Every variable of BandwidthSampler, RoundTripCounter and their driver   *)
(* keeps its type: the unsigned counters are naturals after every          *)
(* subtraction the code makes.                                             *)
THEOREM SamplingTypeCorrect == Spec => []TypeOK
<1>1. SamplingInv => TypeOK
  BY DEF SamplingInv, Typed
<1>. QED
  BY <1>1, SamplingInvariant, PTL

(* The differences of byte counts that on_pkt_acked and extra_acked take   *)
(* (bandwidth_sampler.cpp:129, 210, 219, 230) never wrap.                  *)
THEOREM CountersNeverWrap == Spec => []CountersConsistent
<1>1. SamplingInv => CountersConsistent
  BY DEF SamplingInv, Counted
<1>. QED
  BY <1>1, SamplingInvariant, PTL

(* choose_a0 always scans candidates that are in order, in time and in     *)
(* bytes, through quiet periods, repeated timestamps and trimming.         *)
THEOREM CandidatesInOrder == Spec => []CandidatesOrdered
<1>1. SamplingInv => CandidatesOrdered
  BY DEF SamplingInv, Points
<1>. QED
  BY <1>1, SamplingInvariant, PTL

(* The candidates choose_a0 erases are never the one a packet in flight    *)
(* needs, as long as no later packet was acknowledged before it.           *)
THEOREM TrimmingIsSafe == Spec => []TrimmingKeepsNeededCandidate
<1>1. SamplingInv => TrimmingKeepsNeededCandidate
  BY DEF SamplingInv
<1>. QED
  BY <1>1, SamplingInvariant, PTL

(* A sampler that is app-limited has marked every packet sent after        *)
(* end_of_app_limited_phase_.                                              *)
THEOREM AppLimitedMarked == Spec => []AppLimitedPacketsMarked
<1>1. SamplingInv => AppLimitedPacketsMarked
  BY DEF SamplingInv
<1>. QED
  BY <1>1, SamplingInvariant, PTL

(* RoundTripCounter counts a round only for a packet sent in it: a packet  *)
(* beyond end_of_round_trip_ was sent after the round began.               *)
THEOREM RoundTrips == Spec => RoundTakesARoundTrip
<1>. DEFINE Trip == round_trip_count' # round_trip_count =>
              sent[event'.acked[Len(event'.acked)]].round = round_trip_count
<1>1. SamplingInv /\ [Next]_vars => [Trip]_vars
  <2>. SUFFICES ASSUME SamplingInv, Next, round_trip_count' # round_trip_count
                PROVE  Trip
    OBVIOUS
  <2>1. PICK ticks \in scenario.time_steps,
             acked \in SUBSET (outstanding \union DOMAIN state_map),
             lost \in SUBSET outstanding :
               Passes(ticks) /\ StartEvent(acked, lost)
    BY DEF Next, Send, RoundOnPktSent, LosePacket, AckPacket, EndEvent, RoundRestart,
           AppLimited, Neuter, RemoveObsolete, roundVars
  <2>2. Names(acked, lost)
    BY <2>1, StartNames
  <2>. DEFINE a == Ascending(acked)
  <2>3. /\ event'.acked = a /\ acked # {}
        /\ a[Len(a)] > end_of_round_trip
    BY <2>1 DEF StartEvent, RoundOnPktAcked, EndsRound, roundVars
  <2>4. a \in Seq(Tracked) /\ a # <<>>
    BY <2>2, <2>3, SeqOfMore DEF Names
  <2>5. a[Len(a)] \in Tracked
    <3>. HIDE DEF a
    <3>. QED  BY <2>4
  <2>6. a[Len(a)] \in Known
    BY <2>5 DEF SamplingInv, Numbered
  <2>. QED  BY <2>3, <2>6 DEF SamplingInv, RoundsRecorded
<1>. QED
  BY <1>1, SamplingInvariant, PTL DEF Spec, RoundTakesARoundTrip

(***************************************************************************)
(* A network that acknowledges a packet once                               *)
(***************************************************************************)
NoDuplicates == \A s \in Scenarios : ~ s.duplicates

LEMMA AwaitedTracked ==
  ASSUME SamplingInv
  PROVE  /\ Awaited \subseteq Tracked
         /\ Idle => Awaited = outstanding
         /\ \A p \in Tracked :
              /\ state_map[p].sent_time \in Nat /\ state_map[p].sent_time <= clock
              /\ AckedBefore(p) \in Nat /\ AckedBefore(p) <= total_bytes_acked
         /\ clock \in Nat /\ total_bytes_acked \in Nat
         /\ a0_candidates \in Seq(PointType)
         /\ ack_points[1] \in PointType /\ ack_points[2] \in PointType
         /\ ack_points[1].ack_time <= clock /\ ack_points[2].ack_time <= clock
<1>1. Typed /\ Numbered /\ Timed /\ Counted /\ Points
  BY DEF SamplingInv
<1>2. Flat
  BY <1>1, Flattened DEF Typed
<1>3. Awaited \subseteq Tracked /\ (Idle => Awaited = outstanding)
  <2>1. todo_acked \in Seq(Tracked) /\ outstanding \subseteq Tracked
        /\ (Idle => todo_acked = <<>>)
    BY <1>1 DEF Typed, Numbered
  <2>2. \A i \in DOMAIN todo_acked : todo_acked[i] \in Tracked
    BY <2>1
  <2>3. todo_acked = <<>> => DOMAIN todo_acked = {}
    OBVIOUS
  <2>. QED  BY <2>1, <2>2, <2>3 DEF Awaited
<1>4. \A p \in Tracked :
        /\ state_map[p].sent_time \in Nat /\ state_map[p].sent_time <= clock
        /\ AckedBefore(p) \in Nat /\ AckedBefore(p) <= total_bytes_acked
  <2>. TAKE p \in Tracked
  <2>1. state_map[p] \in PacketType
    BY <1>1 DEF Typed
  <2>. QED  BY <1>1, <2>1
            DEF PacketType, SendTimeState, AckedBefore, Timed, Counted,
                CountersConsistent, Tracked
<1>5. ack_points[1].ack_time <= clock /\ ack_points[2].ack_time <= clock
  <2>1. /\ ack_points[1] \in PointType /\ ack_points[2] \in PointType
        /\ ack_points[1].ack_time <= ack_points[2].ack_time
        /\ ack_points[2].ack_time <= clock
    BY <1>1 DEF Typed, Points, Follows
  <2>2. ack_points[1].ack_time \in Int /\ ack_points[2].ack_time \in Int /\ clock \in Int
    BY <1>2, <2>1 DEF PointType, Stamp, Unset, Flat
  <2>. QED  BY <2>1, <2>2
<1>. QED
  BY <1>1, <1>2, <1>3, <1>4, <1>5 DEF Typed, Flat

(* AckInv survives what leaves the points, the flights and the awaited     *)
(* packets alone, or forgets some of them.                                 *)
LEMMA AckKept ==
  ASSUME SamplingInv, AckInv, clock' \in Nat, clock <= clock',
         Awaited' \subseteq Awaited, Awaited' \subseteq Tracked',
         Tracked' \subseteq Tracked,
         \A p \in Tracked' : state_map'[p] = state_map[p],
         AckedOnce',
         UNCHANGED <<ack_points, a0_candidates, total_bytes_acked, delivered,
                     while_inflight>>
  PROVE  AckInv'
<1>1. /\ Awaited \subseteq Tracked
      /\ \A p \in Tracked : state_map[p].sent_time \in Nat
      /\ clock \in Nat /\ a0_candidates \in Seq(PointType)
  BY AwaitedTracked
<1>2. \A p \in Awaited' : state_map'[p] = state_map[p] /\ p \in Awaited
  OBVIOUS
<1>3. Dated'
  <2>1. \A p \in Awaited' :
          /\ Dates(ack_points[1], p)' /\ Dates(ack_points[2], p)'
          /\ \A i \in DOMAIN a0_candidates : Dates(a0_candidates[i], p)'
    BY <1>2 DEF AckInv, Dated, Dates, AckedBefore
  <2>2. \A i \in DOMAIN a0_candidates :
          a0_candidates[i].ack_time \in Int /\ a0_candidates[i].ack_time <= clock
    <3>1. \A i \in DOMAIN a0_candidates : a0_candidates[i] \in PointType
      BY <1>1
    <3>. QED  BY <3>1 DEF AckInv, Dated, PointType, Stamp, Unset
  <2>3. \A i \in DOMAIN a0_candidates' : a0_candidates'[i].ack_time <= clock'
    BY <1>1, <2>2
  <2>4. a0_candidates' # <<>> =>
          \/ a0_candidates'[1].ack_time < clock'
          \/ \A p \in Awaited' : a0_candidates'[1].ack_time <= state_map'[p].sent_time
    <3>. HAVE a0_candidates' # <<>>
    <3>1. 1 \in DOMAIN a0_candidates
      BY <1>1
    <3>. QED  BY <1>1, <1>2, <2>2, <3>1 DEF AckInv, Dated
  <2>. QED  BY <2>1, <2>3, <2>4 DEF Dated, Dates, AckedBefore
<1>4. FlightsCounted'
  BY DEF AckInv, FlightsCounted, AckedBefore
<1>. QED
  BY <1>3, <1>4 DEF AckInv

LEMMA AckLosePacket == ASSUME SamplingInv, AckInv, LosePacket PROVE AckInv'
<1>1. UNCHANGED <<ack_points, a0_candidates, total_bytes_acked, delivered,
                  while_inflight, clock, state_map, outstanding, todo_acked>>
  BY DEF LosePacket, OnPktLost, historyVars, pointVars
<1>2. Awaited' = Awaited /\ Tracked' = Tracked /\ AckedOnce'
  BY <1>1 DEF Awaited, Tracked, AckInv, AckedOnce
<1>. QED
  BY <1>1, <1>2, AckKept, AwaitedTracked

LEMMA AckForget ==
  ASSUME SamplingInv, AckInv, NEW kept, Forgets(kept)
  PROVE  AckInv'
<1>1. /\ UNCHANGED <<ack_points, a0_candidates, total_bytes_acked, delivered,
                     while_inflight, clock, todo_acked, event>>
      /\ Tracked' = kept /\ kept \subseteq Tracked
      /\ \A p \in kept : state_map'[p] = state_map[p]
      /\ outstanding' \subseteq outstanding \intersect kept
  BY DEF Forgets, historyVars, pointVars, Tracked
<1>2. todo_acked = <<>>
  BY DEF Forgets, SamplingInv, Typed
<1>3. Awaited' = outstanding' /\ Awaited = outstanding
  BY <1>1, <1>2 DEF Awaited
<1>4. AckedOnce'
  BY <1>1, <1>2 DEF AckInv, AckedOnce
<1>. QED
  BY <1>1, <1>3, <1>4, AckKept, AwaitedTracked

LEMMA AckStartEvent ==
  ASSUME SamplingInv, AckInv, NoDuplicates,
         NEW ticks \in scenario.time_steps, Passes(ticks),
         NEW acked, NEW lost, StartEvent(acked, lost)
  PROVE  AckInv'
<1>1. Names(acked, lost) /\ clock' \in Nat /\ clock <= clock'
  BY StartNames
<1>2. acked \subseteq outstanding
  BY DEF StartEvent, Acknowledgeable, NoDuplicates, SamplingInv, Typed
<1>. DEFINE a == Ascending(acked)
<1>3. /\ UNCHANGED <<ack_points, a0_candidates, total_bytes_acked, delivered,
                     while_inflight, state_map>>
      /\ todo_acked' = a
      /\ outstanding' = outstanding \ (acked \union lost)
      /\ todo_acked = <<>>
  BY DEF StartEvent, historyVars, pointVars, totalVars, SamplingInv, Typed
<1>4. /\ \A i \in DOMAIN a : a[i] \in acked
      /\ \A i, j \in DOMAIN a : a[i] = a[j] => i = j
  <2>1. a \in Seq(acked) /\ \A i, j \in DOMAIN a : a[i] = a[j] => i = j
    BY <1>1 DEF Names
  <2>. HIDE DEF a
  <2>. QED  BY <2>1
<1>. HIDE DEF a
<1>5. Awaited' \subseteq outstanding /\ outstanding \subseteq Awaited
  BY <1>2, <1>3, <1>4 DEF Awaited
<1>6. AckedOnce'
  BY <1>2, <1>3, <1>4 DEF AckInv, AckedOnce
<1>7. Tracked' = Tracked /\ Awaited \subseteq Tracked
  BY <1>3, AwaitedTracked DEF Tracked
<1>. QED
  BY <1>1, <1>3, <1>5, <1>6, <1>7, AckKept

LEMMA AckSend ==
  ASSUME SamplingInv, AckInv,
         NEW ticks \in scenario.time_steps, Passes(ticks),
         NEW bytes \in Sizes, NEW need \in BOOLEAN, Send(bytes, need)
  PROVE  AckInv'
<1>1. PICK n : n = NextPacket /\ Sends(n, bytes, need)
  BY SendSends
<1>2. /\ clock' \in Nat /\ clock <= clock' /\ n \notin Known
      /\ UNCHANGED <<total_bytes_acked, delivered, todo_acked>> /\ Idle
  BY <1>1 DEF Sends
<1>3. /\ todo_acked = <<>> /\ Awaited = outstanding
      /\ outstanding \subseteq Tracked /\ Tracked \subseteq Known /\ delivered \subseteq Known
      /\ Tracked \subseteq DOMAIN while_inflight
  BY <1>2, AwaitedTracked DEF SamplingInv, Typed, Numbered
<1>4. Awaited' = outstanding'
  BY <1>2, <1>3 DEF Awaited
<1>5. CASE need = FALSE
  <2>1. UNCHANGED <<state_map, ack_points, a0_candidates, outstanding, while_inflight>>
    BY <1>5 DEF Send, SamplerOnPacketSent, pointVars
  <2>2. AckedOnce' /\ Tracked' = Tracked
    BY <1>2, <2>1 DEF AckInv, AckedOnce, Tracked
  <2>. QED  BY <1>2, <1>3, <1>4, <2>1, <2>2, AckKept
<1>6. CASE need = TRUE
  <2>. DEFINE pkt == SentPacket(bytes, clock', bytes_in_flight,
                                total_bytes_sent_at_last_acked_packet',
                                last_acked_packet_sent_time',
                                last_acked_packet_ack_time')
  <2>1. Tracks(n, bytes)
    BY <1>1, <1>6, SendTracks
  <2>2. /\ Tracked' = Tracked \union {n} /\ state_map'[n] = pkt
        /\ \A p \in Tracked : state_map'[p] = state_map[p]
        /\ outstanding' = outstanding \union {n}
        /\ while_inflight'[n] = 0
        /\ \A p \in DOMAIN while_inflight : while_inflight'[p] = while_inflight[p]
    BY <2>1 DEF Tracks
  <2>3. pkt.sent_time = clock' /\ pkt.state.total_bytes_acked = total_bytes_acked
    BY DEF SentPacket
  <2>4. /\ state_map'[n].sent_time = clock' /\ AckedBefore(n)' = total_bytes_acked
        /\ \A p \in Tracked : AckedBefore(p)' = AckedBefore(p)
    BY <2>2, <2>3 DEF AckedBefore
  <2>. HIDE DEF pkt
  <2>5. AckedOnce'
    BY <1>2, <1>3, <2>2 DEF AckInv, AckedOnce
  <2>6. FlightsCounted'
    <3>1. total_bytes_acked \in Nat
      BY AwaitedTracked
    <3>. SUFFICES ASSUME NEW p \in Tracked' \ delivered'
                  PROVE  while_inflight'[p] = total_bytes_acked' - AckedBefore(p)'
      BY DEF FlightsCounted
    <3>2. CASE p = n
      BY <1>2, <2>2, <2>4, <3>1, <3>2
    <3>3. CASE p # n
      BY <1>2, <1>3, <2>2, <2>4, <3>3 DEF AckInv, FlightsCounted
    <3>. QED  BY <3>2, <3>3
  <2>7. CASE outstanding = {} /\ QuietRestart(bytes, clock')
    <3>. DEFINE c == clock'
    <3>1. ack_points' = UpdatedPoints(ClearedPoints, c, total_bytes_acked)
          /\ a0_candidates' = <<AckPoint(c, total_bytes_acked)>> /\ c \in Nat
      BY <1>2, <2>7 DEF QuietRestart
    <3>. HIDE DEF c
    <3>2. ack_points' = <<AckPoint(Unset, 0), AckPoint(c, total_bytes_acked)>>
      BY <3>1 DEF UpdatedPoints, ClearedPoints, AckPoint, Unset
    <3>3. /\ ack_points'[1].ack_time <= c /\ ack_points'[2].ack_time <= c
          /\ DOMAIN a0_candidates' = {1} /\ a0_candidates'[1].ack_time = c
      BY <3>1, <3>2 DEF AckPoint, Unset
    <3>4. Awaited' = {n} /\ state_map'[n].sent_time = c /\ c <= c
      BY <1>4, <2>2, <2>4, <2>7, <3>1 DEF c
    <3>. HIDE DEF Awaited, AckedBefore
    <3>5. Dated'
      BY <3>3, <3>4 DEF Dated, Dates, c
    <3>. QED  BY <2>5, <2>6, <3>5 DEF AckInv
  <2>8. CASE outstanding # {} /\ UNCHANGED <<lastAckVars, pointVars>>
    <3>1. ack_points' = ack_points /\ a0_candidates' = a0_candidates
      BY <2>8 DEF pointVars
    <3>2. /\ clock \in Nat
          /\ ack_points[1].ack_time \in Int /\ ack_points[2].ack_time \in Int
          /\ ack_points[1].ack_time <= clock /\ ack_points[2].ack_time <= clock
          /\ a0_candidates \in Seq(PointType)
      BY AwaitedTracked DEF PointType, Stamp, Unset
    <3>3. \A i \in DOMAIN a0_candidates :
            a0_candidates[i].ack_time \in Int /\ a0_candidates[i].ack_time <= clock
      <4>1. \A i \in DOMAIN a0_candidates : a0_candidates[i] \in PointType
        BY <3>2
      <4>. QED  BY <4>1 DEF AckInv, Dated, PointType, Stamp, Unset
    <3>4. \A p \in Awaited' :
            /\ Dates(ack_points[1], p)' /\ Dates(ack_points[2], p)'
            /\ \A i \in DOMAIN a0_candidates' : Dates(a0_candidates[i], p)'
      <4>. TAKE p \in Awaited'
      <4>1. CASE p = n
        BY <1>2, <2>4, <3>1, <3>2, <3>3, <4>1 DEF Dates
      <4>2. CASE p # n
        <5>1. p \in Awaited /\ p \in Tracked
          BY <1>3, <1>4, <2>2, <4>2
        <5>. QED  BY <2>2, <2>4, <3>1, <5>1 DEF AckInv, Dated, Dates
      <4>. QED  BY <4>1, <4>2
    <3>5. a0_candidates' # <<>> =>
            \/ a0_candidates'[1].ack_time < clock'
            \/ \A p \in Awaited' : a0_candidates'[1].ack_time <= state_map'[p].sent_time
      <4>. HAVE a0_candidates' # <<>>
      <4>1. 1 \in DOMAIN a0_candidates /\ a0_candidates # <<>>
        BY <3>1, <3>2
      <4>2. CASE a0_candidates[1].ack_time < clock
        BY <1>2, <3>1, <3>2, <3>3, <4>1, <4>2
      <4>3. CASE \A p \in Awaited : a0_candidates[1].ack_time <= state_map[p].sent_time
        <5>1. a0_candidates[1].ack_time <= clock'
          BY <1>2, <3>2, <3>3, <4>1
        <5>. QED  BY <1>3, <1>4, <2>2, <2>4, <3>1, <4>3, <5>1
      <4>. QED  BY <4>1, <4>2, <4>3 DEF AckInv, Dated
    <3>6. \A i \in DOMAIN a0_candidates' : a0_candidates'[i].ack_time <= clock'
      BY <1>2, <3>1, <3>2, <3>3
    <3>7. Dated'
      BY <3>4, <3>5, <3>6 DEF Dated
    <3>. QED  BY <2>5, <2>6, <3>7 DEF AckInv
  <2>. QED  BY <2>1, <2>7, <2>8 DEF Tracks
<1>. QED
  BY <1>5, <1>6

LEMMA AckAckPacket == ASSUME SamplingInv, AckInv, AckPacket PROVE AckInv'
<1>1. PICK p : p = Head(todo_acked) /\ Acks(p, state_map[p])
      /\ while_inflight' =
           [q \in DOMAIN while_inflight |->
              while_inflight[q] + IF {p, q} \intersect delivered = {} THEN sent[p].bytes ELSE 0]
  BY AckAcks
<1>. DEFINE pkt == state_map[p]
<1>2. Typed /\ Numbered /\ Timed
  BY DEF SamplingInv
<1>3. /\ p \in Tracked /\ pkt \in PacketType
      /\ total_bytes_acked' = total_bytes_acked + pkt.bytes
      /\ ack_points' = UpdatedPoints(ack_points, clock, total_bytes_acked')
      /\ todo_acked # <<>> /\ todo_acked' = Tail(todo_acked)
      /\ delivered' = delivered \union {p}
      /\ UNCHANGED <<state_map, clock, outstanding>>
      /\ Tracked' = Tracked
  BY <1>1 DEF Acks, Tracked
<1>4. /\ Awaited \subseteq Tracked
      /\ \A q \in Tracked :
           /\ state_map[q].sent_time \in Nat
           /\ AckedBefore(q) \in Nat /\ AckedBefore(q) <= total_bytes_acked
      /\ clock \in Nat /\ total_bytes_acked \in Nat
      /\ a0_candidates \in Seq(PointType)
  BY AwaitedTracked
<1>5. /\ 1 \in DOMAIN todo_acked /\ todo_acked[1] = p /\ p \in Awaited
      /\ \A i \in DOMAIN todo_acked' :
           /\ i + 1 \in DOMAIN todo_acked /\ todo_acked'[i] = todo_acked[i + 1]
           /\ i \in Nat \ {0}
  <2>1. todo_acked \in Seq(Tracked) /\ todo_acked # <<>>
    BY <1>2, <1>3 DEF Typed
  <2>2. \A i \in DOMAIN Tail(todo_acked) :
          i + 1 \in DOMAIN todo_acked /\ Tail(todo_acked)[i] = todo_acked[i + 1]
    BY <2>1, HeadTailProperties
  <2>3. DOMAIN Tail(todo_acked) \subseteq Nat \ {0}
    BY <2>1, HeadTailProperties
  <2>4. 1 \in DOMAIN todo_acked /\ todo_acked[1] = p
    BY <1>1, <2>1
  <2>. QED  BY <1>3, <2>2, <2>3, <2>4 DEF Awaited
<1>6. Awaited' \subseteq Awaited
  BY <1>3, <1>5 DEF Awaited
<1>7. p \notin delivered /\ p \notin outstanding
  BY <1>5 DEF AckInv, AckedOnce
<1>8. /\ pkt.bytes \in Nat \ {0} /\ sent[p].bytes = pkt.bytes
      /\ pkt.sent_time \in Nat /\ pkt.sent_time < clock
  BY <1>2, <1>3, <1>5 DEF PacketType, Numbered, Timed
<1>9. AckedOnce'
  <2>1. \A i, j \in DOMAIN todo_acked' : todo_acked'[i] = todo_acked'[j] => i = j
    <3>. SUFFICES ASSUME NEW i \in DOMAIN todo_acked', NEW j \in DOMAIN todo_acked',
                         todo_acked'[i] = todo_acked'[j]
                  PROVE  i = j
      OBVIOUS
    <3>1. i + 1 = j + 1
      BY <1>5 DEF AckInv, AckedOnce
    <3>. QED  BY <1>5, <3>1
  <2>2. \A i \in DOMAIN todo_acked' : todo_acked'[i] # p
    <3>. SUFFICES ASSUME NEW i \in DOMAIN todo_acked', todo_acked'[i] = p
                  PROVE  FALSE
      OBVIOUS
    <3>1. i + 1 = 1
      BY <1>5 DEF AckInv, AckedOnce
    <3>. QED  BY <1>5, <3>1
  <2>3. \A i \in DOMAIN todo_acked' : todo_acked'[i] \notin outstanding' \union delivered'
    BY <1>3, <1>5, <2>2 DEF AckInv, AckedOnce
  <2>. QED  BY <1>3, <1>7, <2>1, <2>3 DEF AckInv, AckedOnce
<1>10. /\ a0_candidates \in Seq(PointType)
       /\ \A i \in DOMAIN a0_candidates' :
            \E j \in DOMAIN a0_candidates : a0_candidates'[i] = a0_candidates[j]
       /\ \/ a0_candidates'[1] = a0_candidates[1]
          \/ a0_candidates'[1].total_bytes_acked <= pkt.state.total_bytes_acked
       /\ a0_candidates # <<>> /\ a0_candidates' # <<>>
       /\ 1 \in DOMAIN a0_candidates'
  <2>1. /\ a0_candidates' # <<>> /\ a0_candidates' \in Seq(PointType)
    BY <1>1, AckedCandidates
  <2>. DEFINE c == a0_candidates'
  <2>. HIDE DEF c
  <2>2. c # <<>> /\ c \in Seq(PointType) => 1 \in DOMAIN c
    OBVIOUS
  <2>. QED  BY <1>1, <2>1, <2>2, AckedCandidates DEF c
<1>11. /\ ack_points'[1] \in {ack_points[1], ack_points[2]}
       /\ ack_points'[2] = AckPoint(clock, total_bytes_acked')
  <2>. DEFINE points == ack_points
              acked == total_bytes_acked'
  <2>1. /\ points[1] \in PointType /\ points[2] \in PointType
        /\ Follows(points[1], points[2])
        /\ points[2].ack_time <= clock
        /\ points[2].total_bytes_acked <= total_bytes_acked
    BY <1>2 DEF Typed, Points, SamplingInv
  <2>2. acked \in Nat /\ points[2].total_bytes_acked <= acked
    BY <1>3, <1>4, <1>8, <2>1 DEF PointType
  <2>3. ack_points' = UpdatedPoints(points, clock, acked)
    BY <1>3
  <2>. HIDE DEF points, acked
  <2>. DEFINE new == UpdatedPoints(points, clock, acked)
  <2>4. new[1] \in {points[1], points[2]} /\ new[2] = AckPoint(clock, acked)
    BY <1>4, <2>1, <2>2, UpdatedProperties
  <2>. HIDE DEF new
  <2>. QED  BY <2>3, <2>4 DEF new, points, acked
<1>12. Dated'
  <2>. HIDE DEF pkt
  <2>1. \A q \in Awaited' : q \in Awaited /\ q \in Tracked
    BY <1>4, <1>6
  <2>2. \A q \in Awaited' : Dates(ack_points'[1], q)
    BY <1>11, <2>1 DEF AckInv, Dated
  <2>3. \A q \in Awaited' : Dates(ack_points'[2], q)
    <3>. TAKE q \in Awaited'
    <3>1. ack_points'[2].total_bytes_acked = total_bytes_acked + pkt.bytes
      BY <1>3, <1>11 DEF AckPoint
    <3>2. ~(ack_points'[2].total_bytes_acked <= AckedBefore(q))
      BY <1>4, <1>8, <2>1, <3>1
    <3>. QED  BY <3>2 DEF Dates
  <2>4. \A q \in Awaited' : \A i \in DOMAIN a0_candidates' : Dates(a0_candidates'[i], q)
    BY <1>10, <2>1 DEF AckInv, Dated
  <2>5. \A i \in DOMAIN a0_candidates' : a0_candidates'[i].ack_time <= clock'
    BY <1>3, <1>10 DEF AckInv, Dated
  <2>6. \/ a0_candidates'[1].ack_time < clock'
        \/ \A q \in Awaited' : a0_candidates'[1].ack_time <= state_map'[q].sent_time
    <3>1. CASE a0_candidates'[1] = a0_candidates[1]
      BY <1>3, <1>6, <1>10, <3>1 DEF AckInv, Dated
    <3>2. CASE a0_candidates'[1].total_bytes_acked <= pkt.state.total_bytes_acked
      <4>1. Dates(a0_candidates'[1], p)
        BY <1>5, <1>10 DEF AckInv, Dated
      <4>2. a0_candidates'[1].ack_time <= pkt.sent_time
        BY <3>2, <4>1 DEF Dates, AckedBefore, pkt
      <4>3. a0_candidates'[1].ack_time \in Int
        <5>1. a0_candidates'[1] \in PointType
          BY <1>10
        <5>. QED  BY <5>1 DEF PointType, Stamp, Unset
      <4>. QED  BY <1>3, <1>4, <1>8, <4>2, <4>3
    <3>. QED  BY <1>10, <3>1, <3>2
  <2>7. \A q \in Awaited' : AckedBefore(q)' = AckedBefore(q) /\ state_map'[q] = state_map[q]
    BY <1>3 DEF AckedBefore
  <2>. QED  BY <2>2, <2>3, <2>4, <2>5, <2>6, <2>7 DEF Dated, Dates
<1>13. FlightsCounted'
  <2>. SUFFICES ASSUME NEW q \in Tracked \ delivered'
                PROVE  while_inflight'[q] = total_bytes_acked' - AckedBefore(q)
    BY <1>3 DEF FlightsCounted, AckedBefore
  <2>1. q \in DOMAIN while_inflight /\ q \notin delivered /\ q # p
    BY <1>2, <1>3 DEF Numbered
  <2>2. while_inflight'[q] = while_inflight[q] + pkt.bytes
    BY <1>1, <1>7, <1>8, <2>1
  <2>3. while_inflight[q] = total_bytes_acked - AckedBefore(q)
    BY <2>1 DEF AckInv, FlightsCounted
  <2>. HIDE DEF pkt
  <2>. QED  BY <1>3, <1>4, <1>8, <2>2, <2>3
<1>. QED
  BY <1>9, <1>12, <1>13 DEF AckInv

LEMMA AckEndEvent == ASSUME SamplingInv, AckInv, EndEvent PROVE AckInv'
<1>. DEFINE newly == total_bytes_acked - total_bytes_acked_after_last_ack_event
<1>1. Typed /\ Counted /\ Points
  BY DEF SamplingInv
<1>2. newly \in Nat /\ (newly # 0 => total_bytes_acked # 0)
  <2>1. Flat /\ total_bytes_acked_after_last_ack_event <= total_bytes_acked
    BY <1>1, Flattened DEF Typed, Counted, CountersConsistent
  <2>. QED  BY <2>1 DEF Flat
<1>3. Finished(newly)
  BY EndFinishes
<1>. HIDE DEF newly
<1>4. /\ \A i \in DOMAIN a0_candidates' :
           \/ i \in DOMAIN a0_candidates /\ a0_candidates'[i] = a0_candidates[i]
           \/ a0_candidates'[i] = less_recent_point
      /\ a0_candidates # <<>> =>
           a0_candidates' # <<>> /\ a0_candidates'[1] = a0_candidates[1]
  BY <1>2, <1>3, FinishedCandidates
<1>5. a0_candidates = <<>> => a0_candidates' = <<>>
  BY <1>1, <1>2, <1>3 DEF Finished, Points
<1>6. /\ UNCHANGED <<ack_points, total_bytes_acked, delivered, while_inflight, clock,
                     state_map, outstanding, todo_acked>>
      /\ Awaited' = Awaited /\ Tracked' = Tracked
  BY DEF EndEvent, FinishSample, historyVars, totalVars, Awaited, Tracked
<1>7. /\ less_recent_point \in {ack_points[1], ack_points[2]}
      /\ ack_points[1].ack_time <= clock /\ ack_points[2].ack_time <= clock
  BY AwaitedTracked DEF less_recent_point
<1>8. Dated'
  <2>1. \A p \in Awaited, i \in DOMAIN a0_candidates' : Dates(a0_candidates'[i], p)
    BY <1>4, <1>7 DEF AckInv, Dated
  <2>2. \A i \in DOMAIN a0_candidates' : a0_candidates'[i].ack_time <= clock
    BY <1>4, <1>7 DEF AckInv, Dated
  <2>3. a0_candidates' # <<>> =>
          \/ a0_candidates'[1].ack_time < clock
          \/ \A p \in Awaited : a0_candidates'[1].ack_time <= state_map[p].sent_time
    BY <1>4, <1>5 DEF AckInv, Dated
  <2>4. \A p \in Awaited : Dates(ack_points[1], p) /\ Dates(ack_points[2], p)
    BY DEF AckInv, Dated
  <2>5. \A p : AckedBefore(p)' = AckedBefore(p)
    BY <1>6 DEF AckedBefore
  <2>. QED  BY <1>6, <2>1, <2>2, <2>3, <2>4, <2>5 DEF Dated, Dates
<1>9. AckedOnce' /\ FlightsCounted'
  BY <1>6 DEF AckInv, AckedOnce, FlightsCounted, AckedBefore
<1>. QED
  BY <1>8, <1>9 DEF AckInv

LEMMA AckNext == ASSUME NoDuplicates PROVE SamplingInv /\ AckInv /\ [Next]_vars => AckInv'
<1>. SUFFICES ASSUME SamplingInv, AckInv, [Next]_vars PROVE AckInv'
  OBVIOUS
<1>0. \A ticks \in scenario.time_steps, need \in scenario.need_retransmit : need \in BOOLEAN
  BY EnvironmentAssumption DEF SamplingInv, Typed, ScenarioType
<1>1. ASSUME NEW ticks \in scenario.time_steps, Passes(ticks),
             NEW bytes \in Sizes, NEW need \in scenario.need_retransmit,
             Send(bytes, need)
      PROVE  AckInv'
  BY <1>0, <1>1, AckSend
<1>2. ASSUME NEW ticks \in scenario.time_steps, Passes(ticks),
             NEW acked \in SUBSET (outstanding \union DOMAIN state_map),
             NEW lost \in SUBSET outstanding, StartEvent(acked, lost)
      PROVE  AckInv'
  BY <1>2, AckStartEvent
<1>3. CASE LosePacket
  BY <1>3, AckLosePacket
<1>4. CASE AckPacket
  BY <1>4, AckAckPacket
<1>5. CASE EndEvent
  BY <1>5, AckEndEvent
<1>6. ASSUME NEW p \in outstanding, Neuter(p) PROVE AckInv'
  BY <1>6, NeuterForgets, AckForget
<1>7. ASSUME NEW up_to \in 1..(scenario.max_packet + 1), RemoveObsolete(up_to)
      PROVE  AckInv'
  BY <1>7, RemoveObsoleteForgets, AckForget
<1>8. CASE AppLimited \/ UNCHANGED vars
  <2>1. UNCHANGED <<ack_points, a0_candidates, total_bytes_acked, delivered,
                    while_inflight, clock, state_map, outstanding, todo_acked>>
    BY <1>8 DEF AppLimited, OnAppLimited, vars, envVars, historyVars, totalVars,
                pointVars, samplerVars
  <2>2. Awaited' = Awaited /\ Tracked' = Tracked /\ AckedOnce'
    BY <2>1 DEF Awaited, Tracked, AckInv, AckedOnce
  <2>. QED  BY <2>1, <2>2, AckKept, AwaitedTracked
<1>. QED
  BY <1>1, <1>2, <1>3, <1>4, <1>5, <1>6, <1>7, <1>8 DEF Next

(* No acknowledgement in sight of the sampler is repeated or older than    *)
(* the points that could date it.                                          *)
THEOREM AckInvariant == ASSUME NoDuplicates PROVE Spec => []AckInv
<1>1. Init => AckInv
  BY SamplingInit
<1>. QED
  BY <1>1, AckNext, SamplingInvariant, PTL DEF Spec

LEMMA IntervalPositive == SamplingInv /\ AckInv => AckIntervalPositive
<1>. SUFFICES ASSUME SamplingInv, AckInv, todo_acked # <<>>,
                     Head(todo_acked) \in DOMAIN state_map
              PROVE  A0(state_map[Head(todo_acked)]).ack_time < clock
  BY DEF AckIntervalPositive
<1>1. Typed /\ Timed /\ Points
  BY DEF SamplingInv
<1>. DEFINE p == Head(todo_acked)
            pkt == state_map[p]
            acked == pkt.state.total_bytes_acked
            c == ChosenA0(acked)
<1>2. 1 \in DOMAIN todo_acked /\ todo_acked[1] = p /\ p \in Tracked
  <2>1. todo_acked \in Seq(Tracked) /\ todo_acked # <<>>
    BY <1>1 DEF Typed
  <2>. QED  BY <2>1 DEF Tracked
<1>3. /\ pkt \in PacketType /\ acked \in Nat /\ acked = AckedBefore(p)
      /\ pkt.sent_time \in Nat /\ pkt.sent_time < clock /\ p \in Awaited
  BY <1>1, <1>2 DEF Typed, PacketType, SendTimeState, AckedBefore, Timed, Awaited
<1>4. a0_candidates # <<>> /\ a0_candidates \in Seq(PointType) /\ clock \in Nat
  BY <1>1, <1>2, AwaitedTracked DEF Points
<1>. HIDE DEF acked
<1>5. /\ c \in 1..Len(a0_candidates)
      /\ c = 1 \/ a0_candidates[c].total_bytes_acked <= acked
  BY <1>3, <1>4, ChosenProperties
<1>6. A0(pkt) = a0_candidates[c]
  BY <1>4 DEF A0, acked
<1>. HIDE DEF p, pkt, c
<1>7. c \in DOMAIN a0_candidates /\ a0_candidates[c].ack_time \in Int
  <2>1. a0_candidates[c] \in PointType /\ c \in DOMAIN a0_candidates
    BY <1>4, <1>5
  <2>. QED  BY <2>1 DEF PointType, Stamp, Unset
<1>8. CASE c = 1
  <2>1. \/ a0_candidates[1].ack_time < clock
        \/ a0_candidates[1].ack_time <= state_map[p].sent_time
    BY <1>3, <1>4 DEF AckInv, Dated
  <2>. QED  BY <1>3, <1>4, <1>6, <1>7, <1>8, <2>1 DEF p, pkt
<1>9. CASE a0_candidates[c].total_bytes_acked <= acked
  <2>1. Dates(a0_candidates[c], p)
    BY <1>3, <1>7 DEF AckInv, Dated
  <2>2. a0_candidates[c].ack_time <= pkt.sent_time
    BY <1>3, <1>9, <2>1 DEF Dates, pkt
  <2>. QED  BY <1>3, <1>4, <1>6, <1>7, <2>2 DEF p, pkt
<1>. QED
  BY <1>5, <1>8, <1>9

(* assert(a0.ack_time < ack_time), bandwidth_sampler.cpp:218, holds of     *)
(* every packet a network without repetitions acknowledges, a round trip   *)
(* of at least one tick after it was sent.                                 *)
THEOREM AckIntervals == ASSUME NoDuplicates PROVE Spec => []AckIntervalPositive
BY IntervalPositive, SamplingInvariant, AckInvariant, PTL

(* The bytes acknowledged since a packet was sent, which on_pkt_acked      *)
(* takes as its inflight sample, are those acknowledged while it was in    *)
(* flight, itself included (bandwidth_sampler.h:84-86).                    *)
THEOREM InflightSamples == ASSUME NoDuplicates PROVE Spec => InflightSampleExact
<1>. DEFINE p == Head(todo_acked)
            Exact == AckPacket /\ p \in DOMAIN state_map =>
                       total_bytes_acked' - state_map[p].state.total_bytes_acked
                         = while_inflight'[p]
<1>1. SamplingInv /\ AckInv /\ [Next]_vars => [Exact]_vars
  <2>. SUFFICES ASSUME SamplingInv, AckInv, AckPacket
                PROVE  total_bytes_acked' - state_map[p].state.total_bytes_acked
                         = while_inflight'[p]
    OBVIOUS
  <2>1. /\ Acks(p, state_map[p])
        /\ while_inflight' =
             [q \in DOMAIN while_inflight |->
                while_inflight[q] + IF {p, q} \intersect delivered = {} THEN sent[p].bytes ELSE 0]
    BY AckAcks
  <2>2. /\ p \in Tracked /\ todo_acked # <<>> /\ state_map[p].bytes \in Nat
        /\ total_bytes_acked' = total_bytes_acked + state_map[p].bytes
        /\ p \in DOMAIN while_inflight /\ sent[p].bytes = state_map[p].bytes
    BY <2>1 DEF Acks, PacketType, SamplingInv, Numbered
  <2>3. p \notin delivered
    <3>1. todo_acked \in Seq(Tracked)
      BY DEF SamplingInv, Typed
    <3>2. 1 \in DOMAIN todo_acked /\ todo_acked[1] = p
      BY <2>2, <3>1
    <3>. QED  BY <3>2 DEF AckInv, AckedOnce
  <2>4. /\ AckedBefore(p) \in Nat /\ total_bytes_acked \in Nat
        /\ AckedBefore(p) = state_map[p].state.total_bytes_acked
    BY <2>2, AwaitedTracked DEF AckedBefore
  <2>5. while_inflight[p] = total_bytes_acked - AckedBefore(p)
    BY <2>2, <2>3 DEF AckInv, FlightsCounted
  <2>. HIDE DEF p
  <2>6. while_inflight'[p] = while_inflight[p] + state_map[p].bytes
    BY <2>1, <2>2, <2>3
  <2>. QED  BY <2>2, <2>4, <2>5, <2>6
<1>. QED
  BY <1>1, SamplingInvariant, AckInvariant, PTL DEF Spec, InflightSampleExact

(***************************************************************************)
(* A paced sender                                                          *)
(***************************************************************************)
(* A sender that keeps a pace is behind a network that keeps the order and *)
(* takes at least as long for a round trip as the sender between packets.  *)
PacedInOrder ==
  \A s \in Scenarios : s.send_gap > 0 => s.in_order /\ s.min_rtt >= s.send_gap

(* There is a largest packet.                                              *)
SizesBounded == \E m \in Sizes : \A s \in Sizes : s <= m

Largest == Max(Sizes)

WithinPace(bytes, ticks) == bytes * scenario.send_gap <= Largest * ticks

(* What was sent since the count total at that time is within the pace.    *)
SentAtPace(total, time) ==
  time # Unset =>
    /\ time <= last_send_time /\ total <= total_bytes_sent
    /\ WithinPace(total_bytes_sent - total, last_send_time - time)

(* So is what was sent between a packet and the point it is measured from. *)
PacketAtPace(pkt) ==
  /\ pkt.bytes <= Largest
  /\ SentAtPace(pkt.state.total_bytes_sent, pkt.sent_time)
  /\ pkt.last_acked_pkt_sent_time <= pkt.sent_time
  /\ pkt.last_acked_pkt_sent_time # Unset =>
       WithinPace(pkt.state.total_bytes_sent - pkt.total_sent_bytes_at_last_acked_pkt,
                  pkt.sent_time - pkt.last_acked_pkt_sent_time)

PointsPaced ==
  /\ SentAtPace(total_bytes_sent_at_last_acked_packet, last_acked_packet_sent_time)
  /\ \A p \in Tracked : PacketAtPace(state_map[p])

(* The first packet after a quiet period has no send rate, ...             *)
Lone(p) == state_map[p].sent_time = state_map[p].last_acked_pkt_sent_time

(* ... but nothing has been acknowledged since, and it is the next to be.  *)
LonesFirst ==
  \A p \in Awaited : Lone(p) =>
    /\ total_bytes_acked = AckedBefore(p)
    /\ total_bytes_acked_after_last_ack_event = AckedBefore(p)
    /\ \A i \in DOMAIN a0_candidates :
         a0_candidates[i].total_bytes_acked >= AckedBefore(p)
    /\ \A q \in Awaited : p <= q

(* Acknowledgements come in order, each after a round trip, and an event   *)
(* without any leaves none to be noticed later.                            *)
InTurn ==
  /\ Idle \/ event.acked = <<>> =>
       total_bytes_acked_after_last_ack_event = total_bytes_acked
  /\ event.acked = <<>> => todo_acked = <<>>
  /\ \A i \in DOMAIN todo_acked :
       /\ \A j \in DOMAIN todo_acked : i < j => todo_acked[i] < todo_acked[j]
       /\ \A q \in outstanding : todo_acked[i] < q
       /\ clock - state_map[todo_acked[i]].sent_time >= scenario.min_rtt

PaceParts == PointsPaced /\ LonesFirst /\ InTurn /\ PaceBoundsSamples

PaceInv == scenario.send_gap > 0 => PaceParts

LEMMA LargestProperties ==
  ASSUME SizesBounded
  PROVE  Largest \in Nat \ {0} /\ \A s \in Sizes : s <= Largest
<1>1. \E m \in Sizes : \A s \in Sizes : m >= s
  BY EnvironmentAssumption DEF SizesBounded
<1>2. Largest \in Sizes /\ \A s \in Sizes : Largest >= s
  BY <1>1 DEF Largest, Max
<1>. QED
  BY <1>2, EnvironmentAssumption

LEMMA PaceOfNothing == \A a, b \in Nat : 0 * a <= b * 0
OBVIOUS

LEMMA TimesMonotone ==
  ASSUME NEW a \in Nat, NEW b \in Nat, NEW c \in Nat, NEW d \in Nat, a <= b, c <= d
  PROVE  a * c <= b * d
<1>1. \A x, y, z \in Nat : (x + y) * z = x * z + y * z
  OBVIOUS
<1>2. \A x, y \in Nat : x * y = y * x
  OBVIOUS
<1>3. PICK e \in Nat : b = a + e
  <2>1. b - a \in Nat /\ b = a + (b - a)
    OBVIOUS
  <2>. QED  BY <2>1
<1>4. PICK f \in Nat : d = c + f
  <2>1. d - c \in Nat /\ d = c + (d - c)
    OBVIOUS
  <2>. QED  BY <2>1
<1>5. b * d = a * d + e * d
  BY <1>1, <1>3
<1>6. a * d = a * c + a * f
  <2>1. a * d = d * a /\ d * a = c * a + f * a
    BY <1>1, <1>2, <1>4
  <2>. QED  BY <1>2, <2>1
<1>7. a * c \in Nat /\ a * f \in Nat /\ e * d \in Nat
  BY TimesNat
<1>. QED
  BY <1>5, <1>6, <1>7

LEMMA PaceGrows ==
  ASSUME NEW g \in Nat, NEW m \in Nat, NEW b \in Nat, NEW t \in Nat,
         NEW size \in Nat, NEW d \in Nat,
         b * g <= m * t, size <= m, g <= d
  PROVE  (b + size) * g <= m * (t + d)
<1>1. \A x, y, z \in Nat : (x + y) * z = x * z + y * z /\ z * (x + y) = z * x + z * y
  OBVIOUS
<1>2. size * g <= m * d
  BY TimesMonotone
<1>3. (b + size) * g = b * g + size * g /\ m * (t + d) = m * t + m * d
  BY <1>1
<1>4. b * g \in Nat /\ size * g \in Nat /\ m * t \in Nat /\ m * d \in Nat
  BY TimesNat
<1>. QED
  BY <1>2, <1>3, <1>4

LEMMA Quotient ==
  ASSUME NEW a \in Nat, NEW t \in Nat \ {0}
  PROVE  a \div t \in Nat /\ (a \div t) * t <= a
<1>1. a = t * (a \div t) + (a % t) /\ a % t \in 0..(t - 1)
  OBVIOUS
<1>2. a \div t \in Nat
  BY DivNat
<1>. DEFINE q == a \div t
            r == a % t
<1>3. q \in Nat /\ r \in Nat /\ a = t * q + r
  BY <1>1, <1>2
<1>. HIDE DEF q, r
<1>4. q * t = t * q /\ t * q \in Nat
  BY <1>3, TimesNat
<1>5. q * t <= a
  BY <1>3, <1>4
<1>. QED
  BY <1>3, <1>5 DEF q

LEMMA PaceOfRate ==
  ASSUME NEW b \in Nat, NEW t \in Nat \ {0}, NEW g \in Nat, NEW m \in Nat,
         b * g <= m * t
  PROVE  Rate(b, t) \in Nat /\ Rate(b, t) * g <= RateUnit * m
<1>. DEFINE x == Rate(b, t)
            u == RateUnit
<1>0. u \in Nat
  BY SamplerAssumption
<1>1. x \in Nat /\ x * t <= b * u
  <2>1. b * u \in Nat
    BY <1>0, TimesNat
  <2>. DEFINE a == b * u
  <2>2. a \in Nat
    BY <2>1
  <2>. HIDE DEF a
  <2>3. a \div t \in Nat /\ (a \div t) * t <= a
    BY <2>2, Quotient
  <2>. QED  BY <2>3 DEF a, Rate
<1>. HIDE DEF x, u
<1>2. (x * t) * g <= (b * u) * g
  BY <1>0, <1>1, TimesMonotone, TimesNat
<1>3. u * (b * g) <= u * (m * t)
  BY <1>0, TimesMonotone, TimesNat
<1>4. \A i, j, k \in Nat : (i * j) * k = j * (i * k) /\ (i * j) * k = (i * k) * j
                           /\ i * (j * k) = (i * j) * k
  OBVIOUS
<1>5. (x * t) * g = (x * g) * t /\ (b * u) * g = u * (b * g) /\ u * (m * t) = (u * m) * t
  BY <1>0, <1>1, <1>4
<1>6. (x * g) * t <= (u * m) * t
  <2>1. (x * t) * g \in Nat /\ (b * u) * g \in Nat /\ u * (m * t) \in Nat
    BY <1>0, <1>1, TimesNat
  <2>. QED  BY <1>2, <1>3, <1>5, <2>1
<1>7. ASSUME x * g > u * m PROVE FALSE
  <2>1. x * g \in Nat /\ u * m \in Nat
    BY <1>0, <1>1, TimesNat
  <2>2. (u * m + 1) * t <= (x * g) * t
    <3>1. u * m + 1 \in Nat /\ u * m + 1 <= x * g /\ t <= t
      BY <1>7, <2>1
    <3>. QED  BY <2>1, <3>1, TimesMonotone
  <2>3. (u * m + 1) * t = (u * m) * t + t
    <3>1. \A i, j \in Nat : (i + 1) * j = i * j + j
      OBVIOUS
    <3>. QED  BY <2>1, <3>1
  <2>4. (u * m) * t \in Nat /\ (x * g) * t \in Nat
    BY <2>1, TimesNat
  <2>. QED  BY <1>6, <2>2, <2>3, <2>4
<1>8. x * g \in Nat /\ u * m \in Nat
  BY <1>0, <1>1, TimesNat
<1>. QED
  BY <1>1, <1>7, <1>8 DEF x, u

LEMMA PointsKept ==
  ASSUME PointsPaced, Tracked' \subseteq Tracked,
         \A p \in Tracked' : state_map'[p] = state_map[p],
         UNCHANGED <<total_bytes_sent, lastAckVars, last_send_time, scenario>>
  PROVE  PointsPaced'
<1>1. \A p \in Tracked' : PacketAtPace(state_map'[p])
  BY DEF PointsPaced
<1>2. SentAtPace(total_bytes_sent_at_last_acked_packet', last_acked_packet_sent_time')
  BY DEF PointsPaced, lastAckVars
<1>3. \A x : PacketAtPace(x)' <=> PacketAtPace(x)
  BY DEF PacketAtPace, SentAtPace, WithinPace
<1>4. \A x, y : SentAtPace(x, y)' <=> SentAtPace(x, y)
  BY DEF SentAtPace, WithinPace
<1>. QED
  BY <1>1, <1>2, <1>3, <1>4 DEF PointsPaced, PacketAtPace, SentAtPace, WithinPace

LEMMA LonesKept ==
  ASSUME LonesFirst, Awaited' \subseteq Awaited,
         \A p \in Awaited' : state_map'[p] = state_map[p],
         UNCHANGED <<total_bytes_acked, total_bytes_acked_after_last_ack_event,
                     a0_candidates>>
  PROVE  LonesFirst'
BY DEF LonesFirst, Lone, AckedBefore

LEMMA InTurnKept ==
  ASSUME InTurn, outstanding' \subseteq outstanding,
         \A i \in DOMAIN todo_acked : state_map'[todo_acked[i]] = state_map[todo_acked[i]],
         UNCHANGED <<total_bytes_acked, total_bytes_acked_after_last_ack_event,
                     event, todo_acked, clock, scenario>>
  PROVE  InTurn'
BY DEF InTurn, Idle

LEMMA BoundKept ==
  ASSUME PaceBoundsSamples, UNCHANGED <<event_sample, scenario>>
  PROVE  PaceBoundsSamples'
BY DEF PaceBoundsSamples

LEMMA PaceLosePacket == ASSUME SamplingInv, PaceInv, LosePacket PROVE PaceInv'
<1>. SUFFICES ASSUME scenario'.send_gap > 0 PROVE PaceParts'
  BY DEF PaceInv
<1>1. /\ UNCHANGED <<total_bytes_sent, lastAckVars, last_send_time, scenario,
                     total_bytes_acked, total_bytes_acked_after_last_ack_event,
                     a0_candidates, state_map, outstanding, event, todo_acked, clock>>
      /\ event_sample'.sample_max_bandwidth = event_sample.sample_max_bandwidth
  <2>1. event_sample \in SampleType
    BY DEF SamplingInv, Typed
  <2>2. event_sample'.sample_max_bandwidth = event_sample.sample_max_bandwidth
    BY <2>1 DEF LosePacket, OnPktLost, SampleType
  <2>. QED  BY <2>2 DEF LosePacket, OnPktLost, pointVars, heightVars
<1>2. PaceParts
  BY <1>1 DEF PaceInv
<1>3. Awaited' = Awaited /\ Tracked' = Tracked
  BY <1>1 DEF Awaited, Tracked
<1>4. PointsPaced' /\ LonesFirst' /\ InTurn'
  BY <1>1, <1>2, <1>3, PointsKept, LonesKept, InTurnKept DEF PaceParts
<1>5. PaceBoundsSamples'
  BY <1>1, <1>2 DEF PaceParts, PaceBoundsSamples
<1>. QED
  BY <1>4, <1>5 DEF PaceParts

LEMMA PaceForget == ASSUME SamplingInv, PaceInv, NEW kept, Forgets(kept) PROVE PaceInv'
<1>. SUFFICES ASSUME scenario'.send_gap > 0 PROVE PaceParts'
  BY DEF PaceInv
<1>1. /\ UNCHANGED <<total_bytes_sent, lastAckVars, last_send_time, scenario,
                     total_bytes_acked, total_bytes_acked_after_last_ack_event,
                     a0_candidates, event, todo_acked, clock, event_sample>>
      /\ Tracked' = kept /\ kept \subseteq Tracked
      /\ \A p \in kept : state_map'[p] = state_map[p]
      /\ outstanding' \subseteq outstanding \intersect kept
      /\ todo_acked = <<>>
  BY DEF Forgets, Tracked, pointVars, heightVars, SamplingInv, Typed
<1>2. PaceParts
  BY <1>1 DEF PaceInv
<1>3. Awaited' = outstanding' /\ Awaited = outstanding /\ DOMAIN todo_acked = {}
  BY <1>1 DEF Awaited
<1>4. PointsPaced' /\ LonesFirst' /\ InTurn' /\ PaceBoundsSamples'
  BY <1>1, <1>2, <1>3, PointsKept, LonesKept, InTurnKept, BoundKept DEF PaceParts
<1>. QED
  BY <1>4 DEF PaceParts

LEMMA PaceStutters ==
  ASSUME SamplingInv, PaceInv, AppLimited \/ UNCHANGED vars
  PROVE  PaceInv'
<1>. SUFFICES ASSUME scenario'.send_gap > 0 PROVE PaceParts'
  BY DEF PaceInv
<1>1. UNCHANGED <<total_bytes_sent, lastAckVars, last_send_time, scenario,
                  total_bytes_acked, total_bytes_acked_after_last_ack_event,
                  a0_candidates, event, todo_acked, clock, event_sample, state_map,
                  outstanding>>
  BY DEF AppLimited, OnAppLimited, vars, envVars, historyVars, totalVars, pointVars,
         samplerVars, heightVars
<1>2. PaceParts
  BY <1>1 DEF PaceInv
<1>3. Awaited' = Awaited /\ Tracked' = Tracked
  BY <1>1 DEF Awaited, Tracked
<1>4. PointsPaced' /\ LonesFirst' /\ InTurn' /\ PaceBoundsSamples'
  BY <1>1, <1>2, <1>3, PointsKept, LonesKept, InTurnKept, BoundKept DEF PaceParts
<1>. QED
  BY <1>4 DEF PaceParts

LEMMA PaceStartEvent ==
  ASSUME SamplingInv, AckInv, PaceInv, NoDuplicates, PacedInOrder, SizesBounded,
         NEW ticks \in scenario.time_steps, Passes(ticks),
         NEW acked, NEW lost, StartEvent(acked, lost)
  PROVE  PaceInv'
<1>. SUFFICES ASSUME scenario'.send_gap > 0 PROVE PaceParts'
  BY DEF PaceInv
<1>. DEFINE a == Ascending(acked)
<1>1. /\ UNCHANGED <<total_bytes_sent, lastAckVars, last_send_time, scenario,
                     total_bytes_acked, total_bytes_acked_after_last_ack_event,
                     a0_candidates, state_map>>
      /\ outstanding' = outstanding \ (acked \union lost)
      /\ todo_acked' = a /\ event'.acked = a /\ Idle
      /\ event_sample' = EmptySample
      /\ acked \subseteq Acknowledgeable
      /\ scenario.in_order =>
           \A p \in acked, q \in outstanding \ (acked \union lost) : p < q
  BY DEF StartEvent, totalVars, pointVars, heightVars
<1>2. PaceParts /\ scenario.in_order /\ scenario \in Scenarios
  BY <1>1 DEF PaceInv, PacedInOrder, SamplingInv, Typed
<1>3. Names(acked, lost)
  BY StartNames
<1>4. Tracked' = Tracked
  BY <1>1 DEF Tracked
<1>5. acked \subseteq outstanding /\ acked \subseteq Tracked
  BY <1>1, <1>2, <1>3 DEF Acknowledgeable, NoDuplicates, Names
<1>6. /\ \A i \in DOMAIN a : a[i] \in acked
      /\ \A i, j \in DOMAIN a : i < j => a[i] < a[j]
  <2>. DEFINE b == scenario.max_packet
  <2>1. b \in Nat /\ acked \in SUBSET (0..b)
    <3>1. b \in Nat
      BY <1>2, EnvironmentAssumption, NoPacketAssumption DEF ScenarioType
    <3>2. Tracked \subseteq 1..b
      BY Flattened DEF SamplingInv, Typed, Flat
    <3>. HIDE DEF b
    <3>. QED  BY <1>5, <3>1, <3>2
  <2>. HIDE DEF b
  <2>2. \A i, j \in DOMAIN a : i < j => a[i] < a[j]
    BY <2>1, AscendingProperties
  <2>3. a \in Seq(acked)
    BY <1>3 DEF Names
  <2>. HIDE DEF a
  <2>. QED  BY <2>2, <2>3
<1>. HIDE DEF a
<1>7. Awaited' \subseteq Awaited
  <2>1. Awaited' \subseteq outstanding
    BY <1>1, <1>5, <1>6 DEF Awaited
  <2>. QED  BY <2>1 DEF Awaited
<1>8. PointsPaced' /\ LonesFirst'
  BY <1>1, <1>2, <1>4, <1>7, PointsKept, LonesKept DEF PaceParts
<1>9. InTurn'
  <2>1. \A p \in acked : clock' - state_map[p].sent_time >= scenario.min_rtt
    BY <1>1, <1>5 DEF Acknowledgeable, Tracked
  <2>2. total_bytes_acked_after_last_ack_event' = total_bytes_acked'
    BY <1>1, <1>2 DEF PaceParts, InTurn
  <2>3. \A i \in DOMAIN todo_acked' :
          /\ \A j \in DOMAIN todo_acked' : i < j => todo_acked'[i] < todo_acked'[j]
          /\ \A q \in outstanding' : todo_acked'[i] < q
          /\ clock' - state_map'[todo_acked'[i]].sent_time >= scenario'.min_rtt
    BY <1>1, <1>2, <1>6, <2>1
  <2>. QED  BY <1>1, <2>2, <2>3 DEF InTurn
<1>10. PaceBoundsSamples'
  <2>1. Largest \in Nat /\ RateUnit \in Nat /\ scenario.send_gap \in Nat
    BY <1>2, LargestProperties, SamplerAssumption, EnvironmentAssumption DEF ScenarioType
  <2>2. RateUnit * Largest \in Nat /\ 0 * scenario.send_gap = 0
    BY <2>1, TimesNat
  <2>3. event_sample'.sample_max_bandwidth = 0
    BY <1>1 DEF EmptySample
  <2>4. 0 <= RateUnit * Largest
    BY <2>2
  <2>. QED  BY <1>1, <2>2, <2>3, <2>4 DEF PaceBoundsSamples, Largest
<1>. QED
  BY <1>8, <1>9, <1>10 DEF PaceParts

LEMMA PaceEndEvent == ASSUME SamplingInv, PaceInv, EndEvent PROVE PaceInv'
<1>. SUFFICES ASSUME scenario'.send_gap > 0 PROVE PaceParts'
  BY DEF PaceInv
<1>. DEFINE newly == total_bytes_acked - total_bytes_acked_after_last_ack_event
<1>1. /\ UNCHANGED <<total_bytes_sent, lastAckVars, last_send_time, scenario,
                     total_bytes_acked, state_map, outstanding, todo_acked, clock>>
      /\ event' = NoEvent /\ todo_acked = <<>>
  BY DEF EndEvent, FinishSample, totalVars
<1>2. PaceParts
  BY <1>1 DEF PaceInv
<1>3. Awaited' = Awaited /\ Tracked' = Tracked
  BY <1>1 DEF Awaited, Tracked
<1>4. /\ total_bytes_acked \in Nat /\ total_bytes_acked_after_last_ack_event \in Nat
      /\ event_sample \in SampleType
  BY Flattened DEF SamplingInv, Typed, Flat
<1>5. newly # 0 => event.acked # <<>> /\ ~Idle
  BY <1>2, <1>4 DEF PaceParts, InTurn
<1>6. Finished(newly)
  BY EndFinishes
<1>7. total_bytes_acked_after_last_ack_event' = total_bytes_acked'
  <2>1. CASE event.acked = <<>>
    <3>1. UNCHANGED heightVars
      BY <2>1 DEF EndEvent, FinishSample
    <3>. QED  BY <1>1, <1>2, <2>1, <3>1 DEF heightVars, PaceParts, InTurn
  <2>2. CASE event.acked # <<>>
    <3>1. ExtraAcked(Capped(event.max_bw, event.upper_bound), round_trip_count)
      BY <2>2 DEF EndEvent, FinishSample
    <3>2. CASE newly = 0
      <4>1. UNCHANGED heightVars
        BY <3>1, <3>2 DEF ExtraAcked
      <4>. QED  BY <1>1, <1>4, <3>2, <4>1 DEF heightVars
    <3>3. CASE newly # 0
      BY <1>1, <3>1, <3>3 DEF ExtraAcked
    <3>. QED  BY <3>2, <3>3
  <2>. QED  BY <2>1, <2>2
<1>8. PointsPaced'
  BY <1>1, <1>2, <1>3, PointsKept DEF PaceParts
<1>9. InTurn'
  <2>1. DOMAIN todo_acked' = {}
    BY <1>1
  <2>. QED  BY <1>1, <1>7, <2>1 DEF InTurn
<1>10. LonesFirst'
  <2>1. CASE newly = 0
    <3>1. UNCHANGED <<heightVars, a0_candidates>>
      BY <1>6, <2>1 DEF Finished
    <3>. QED  BY <1>1, <1>2, <1>3, <3>1, LonesKept DEF PaceParts, heightVars
  <2>2. CASE newly # 0
    <3>. SUFFICES ASSUME NEW p \in Awaited, Lone(p) PROVE FALSE
      BY <1>1, <1>3 DEF LonesFirst, Lone
    <3>. QED  BY <1>2, <1>4, <2>2 DEF PaceParts, LonesFirst
  <2>. QED  BY <2>1, <2>2
<1>11. PaceBoundsSamples'
  <2>1. event_sample'.sample_max_bandwidth = event_sample.sample_max_bandwidth
    BY <1>4 DEF EndEvent, FinishSample, SampleType
  <2>. QED  BY <1>1, <1>2, <2>1 DEF PaceParts, PaceBoundsSamples
<1>. QED
  BY <1>8, <1>9, <1>10, <1>11 DEF PaceParts

(* A packet sent a gap after the last one keeps what was within the pace   *)
(* there.                                                                  *)
LEMMA SendKeepsPace ==
  ASSUME NEW total \in Nat, NEW time \in Stamp, NEW bytes \in Nat,
         SentAtPace(total, time), SizesBounded,
         total_bytes_sent \in Nat, last_send_time \in Stamp, last_send_time' \in Nat,
         total_bytes_sent' = total_bytes_sent + bytes, bytes <= Largest,
         scenario.send_gap \in Nat, scenario' = scenario,
         \/ last_send_time = Unset
         \/ last_send_time' - last_send_time >= scenario.send_gap
  PROVE  SentAtPace(total, time)'
<1>. SUFFICES ASSUME time # Unset
              PROVE  /\ time <= last_send_time' /\ total <= total_bytes_sent'
                     /\ (total_bytes_sent' - total) * scenario.send_gap
                          <= Largest * (last_send_time' - time)
  BY DEF SentAtPace, WithinPace
<1>. DEFINE b == total_bytes_sent - total
            t == last_send_time - time
            d == last_send_time' - last_send_time
            g == scenario.send_gap
<1>1. Largest \in Nat /\ time \in Nat
  BY LargestProperties DEF Stamp
<1>2. /\ time <= last_send_time /\ total <= total_bytes_sent
      /\ b * g <= Largest * t
  BY DEF SentAtPace, WithinPace
<1>3. b \in Nat /\ t \in Nat /\ d \in Nat /\ g \in Nat /\ g <= d
  <2>1. last_send_time \in Nat /\ last_send_time # Unset
    BY <1>1, <1>2 DEF Stamp, Unset
  <2>2. last_send_time' - last_send_time >= g
    BY <2>1
  <2>3. g \in Nat
    OBVIOUS
  <2>4. b \in Nat
    BY <1>1, <1>2
  <2>5. t \in Nat
    BY <1>1, <1>2, <2>1
  <2>6. d \in Nat /\ g <= d
    <3>1. \A x, y, z \in Nat : x - y >= z => x - y \in Nat /\ z <= x - y
      OBVIOUS
    <3>. HIDE DEF g
    <3>. QED  BY <2>1, <2>2, <2>3, <3>1
  <2>. QED  BY <2>3, <2>4, <2>5, <2>6
<1>4. total_bytes_sent' - total = b + bytes /\ last_send_time' - time = t + d
  BY <1>1, <1>2 DEF Stamp, Unset
<1>5. time <= last_send_time' /\ total <= total_bytes_sent'
  BY <1>1, <1>2, <1>3 DEF Stamp, Unset
<1>. HIDE DEF b, t, d, g
<1>6. (b + bytes) * g <= Largest * (t + d)
  BY <1>1, <1>2, <1>3, PaceGrows
<1>. QED
  BY <1>4, <1>5, <1>6 DEF g

LEMMA PaceTypes ==
  ASSUME SamplingInv, SizesBounded
  PROVE  /\ scenario \in Scenarios /\ scenario.send_gap \in Nat /\ scenario.min_rtt \in Nat
         /\ Largest \in Nat \ {0} /\ \A s \in Sizes : s <= Largest /\ s \in Nat
         /\ total_bytes_sent \in Nat /\ last_send_time \in Stamp /\ clock \in Nat
         /\ total_bytes_sent_at_last_acked_packet \in Nat
         /\ last_acked_packet_sent_time \in Stamp
         /\ \A p \in Tracked : state_map[p] \in PacketType
         /\ event_sample \in SampleType
<1>1. scenario \in Scenarios /\ event_sample \in SampleType
      /\ state_map \in [Tracked -> PacketType] /\ Flat
  BY Flattened DEF SamplingInv, Typed
<1>2. scenario.send_gap \in Nat /\ scenario.min_rtt \in Nat
  BY <1>1, EnvironmentAssumption DEF ScenarioType
<1>. QED
  BY <1>1, <1>2, LargestProperties, EnvironmentAssumption DEF Flat

LEMMA PacketKeepsPace ==
  ASSUME NEW pkt \in PacketType, NEW bytes \in Nat,
         PacketAtPace(pkt), SizesBounded,
         total_bytes_sent \in Nat, last_send_time \in Stamp, last_send_time' \in Nat,
         total_bytes_sent' = total_bytes_sent + bytes, bytes <= Largest,
         scenario.send_gap \in Nat, scenario' = scenario,
         \/ last_send_time = Unset
         \/ last_send_time' - last_send_time >= scenario.send_gap
  PROVE  PacketAtPace(pkt)'
<1>1. pkt.state.total_bytes_sent \in Nat /\ pkt.sent_time \in Stamp
  BY DEF PacketType, SendTimeState, Stamp
<1>2. SentAtPace(pkt.state.total_bytes_sent, pkt.sent_time)
  BY DEF PacketAtPace
<1>3. SentAtPace(pkt.state.total_bytes_sent, pkt.sent_time)'
  <2>1. \A x \in Nat, y \in Stamp : SentAtPace(x, y) => SentAtPace(x, y)'
    BY SendKeepsPace
  <2>. QED  BY <1>1, <1>2, <2>1
<1>. QED
  BY <1>3 DEF PacketAtPace, WithinPace, SentAtPace

LEMMA PaceSend ==
  ASSUME SamplingInv, PaceInv, SizesBounded,
         NEW ticks \in scenario.time_steps, Passes(ticks),
         NEW bytes \in Sizes, NEW need \in BOOLEAN, Send(bytes, need)
  PROVE  PaceInv'
<1>. SUFFICES ASSUME scenario'.send_gap > 0 PROVE PaceParts'
  BY DEF PaceInv
<1>1. PICK n : n = NextPacket /\ Sends(n, bytes, need)
  BY SendSends
<1>2. /\ UNCHANGED <<total_bytes_acked, total_bytes_acked_after_last_ack_event,
                     event_sample, event, todo_acked, scenario>>
      /\ last_send_time' = clock' /\ clock' \in Nat /\ Idle
      /\ n \notin Known /\ \A p \in Known : p \in Nat /\ p < n
      /\ n \in Nat
  BY <1>1 DEF Sends, heightVars
<1>3. PaceParts
  BY <1>2 DEF PaceInv
<1>4. /\ todo_acked = <<>> /\ DOMAIN todo_acked = {} /\ Awaited = outstanding
      /\ outstanding \subseteq Tracked /\ Tracked \subseteq Known
  BY <1>2, AwaitedTracked DEF SamplingInv, Typed, Numbered
<1>5. Awaited' = outstanding'
  BY <1>2, <1>4 DEF Awaited
<1>6. /\ scenario.send_gap \in Nat /\ Largest \in Nat
      /\ bytes \in Nat /\ bytes <= Largest
      /\ total_bytes_sent \in Nat /\ last_send_time \in Stamp
      /\ total_bytes_sent_at_last_acked_packet \in Nat
      /\ last_acked_packet_sent_time \in Stamp
      /\ \A p \in Tracked : state_map[p] \in PacketType
  BY PaceTypes
<1>7. \/ last_send_time = Unset
      \/ last_send_time' - last_send_time >= scenario.send_gap
  BY DEF Send
<1>8. InTurn'
  BY <1>2, <1>3, <1>4 DEF PaceParts, InTurn, Idle
<1>9. PaceBoundsSamples'
  BY <1>2, <1>3, BoundKept DEF PaceParts
<1>10. CASE need = FALSE
  <2>1. UNCHANGED <<total_bytes_sent, lastAckVars, state_map, a0_candidates, outstanding>>
    BY <1>10 DEF Send, SamplerOnPacketSent, pointVars
  <2>. DEFINE none == 0
  <2>2. none \in Nat /\ none <= Largest /\ total_bytes_sent' = total_bytes_sent + none
    BY <1>6, <2>1
  <2>. HIDE DEF none
  <2>3. \A x \in Nat, y \in Stamp : SentAtPace(x, y) => SentAtPace(x, y)'
    BY <1>2, <1>6, <1>7, <2>2, SendKeepsPace
  <2>4. \A x \in PacketType : PacketAtPace(x) => PacketAtPace(x)'
    BY <1>2, <1>6, <1>7, <2>2, PacketKeepsPace
  <2>5. PointsPaced'
    <3>1. \A p \in Tracked' : PacketAtPace(state_map[p])'
      <4>1. \A p \in Tracked : state_map[p] \in PacketType /\ PacketAtPace(state_map[p])
        BY <1>3, <1>6 DEF PaceParts, PointsPaced
      <4>2. Tracked' = Tracked /\ state_map' = state_map
        BY <2>1 DEF Tracked
      <4>. QED  BY <2>4, <4>1, <4>2 DEF PacketAtPace, SentAtPace, WithinPace
    <3>2. PICK S, T : /\ S = total_bytes_sent_at_last_acked_packet
                      /\ T = last_acked_packet_sent_time
      OBVIOUS
    <3>3. SentAtPace(S, T)
      BY <1>3, <3>2 DEF PaceParts, PointsPaced
    <3>4. SentAtPace(S, T)'
      BY <1>6, <2>3, <3>2, <3>3
    <3>5. /\ total_bytes_sent_at_last_acked_packet' = S
          /\ last_acked_packet_sent_time' = T
      BY <2>1, <3>2 DEF lastAckVars
    <3>6. SentAtPace(total_bytes_sent_at_last_acked_packet, last_acked_packet_sent_time)'
      BY <3>4, <3>5 DEF SentAtPace, WithinPace
    <3>. QED  BY <3>1, <3>6 DEF PointsPaced
  <2>6. LonesFirst'
    BY <1>2, <1>3, <1>4, <1>5, <2>1, LonesKept DEF PaceParts
  <2>. QED  BY <1>8, <1>9, <2>5, <2>6 DEF PaceParts
<1>11. CASE need = TRUE
  <2>1. Tracks(n, bytes)
    BY <1>1, <1>11, SendTracks
  <2>2. PICK pkt : pkt = SentPacket(bytes, clock', bytes_in_flight,
                                    total_bytes_sent_at_last_acked_packet',
                                    last_acked_packet_sent_time',
                                    last_acked_packet_ack_time')
    OBVIOUS
  <2>3. /\ total_bytes_sent' = total_bytes_sent + bytes
        /\ Tracked' = Tracked \union {n} /\ state_map'[n] = pkt
        /\ \A p \in Tracked : state_map'[p] = state_map[p]
        /\ outstanding' = outstanding \union {n}
    BY <2>1, <2>2 DEF Tracks
  <2>4. /\ pkt.bytes = bytes /\ pkt.sent_time = clock'
        /\ pkt.state.total_bytes_sent = total_bytes_sent'
        /\ pkt.state.total_bytes_acked = total_bytes_acked
        /\ pkt.total_sent_bytes_at_last_acked_pkt = total_bytes_sent_at_last_acked_packet'
        /\ pkt.last_acked_pkt_sent_time = last_acked_packet_sent_time'
    BY <2>2, <2>3 DEF SentPacket
  <2>5. \A x \in Nat, y \in Stamp : SentAtPace(x, y) => SentAtPace(x, y)'
    BY <1>2, <1>6, <1>7, <2>3, SendKeepsPace
  <2>6. \A x \in PacketType : PacketAtPace(x) => PacketAtPace(x)'
    BY <1>2, <1>6, <1>7, <2>3, PacketKeepsPace
  <2>7. \A p \in Tracked : PacketAtPace(state_map[p])'
    <3>. TAKE p \in Tracked
    <3>1. PICK x : x = state_map[p]
      OBVIOUS
    <3>2. x \in PacketType /\ PacketAtPace(x)
      BY <1>3, <1>6, <3>1 DEF PaceParts, PointsPaced
    <3>3. PacketAtPace(x)' /\ state_map'[p] = x
      BY <2>3, <2>6, <3>1, <3>2
    <3>. QED  BY <3>3 DEF PacketAtPace, SentAtPace, WithinPace
  <2>8. PICK S, T : /\ S = total_bytes_sent_at_last_acked_packet'
                    /\ T = last_acked_packet_sent_time'
    OBVIOUS
  <2>9. /\ total_bytes_sent' - total_bytes_sent' = 0 /\ clock' - clock' = 0
        /\ total_bytes_sent' <= total_bytes_sent' /\ clock' <= clock'
        /\ 0 * scenario.send_gap <= Largest * 0
    BY <1>2, <1>6, <2>3, PaceOfNothing
  <2>10. \A x, y : x = total_bytes_sent' /\ y = clock' => SentAtPace(x, y)'
    BY <1>2, <2>9 DEF SentAtPace, WithinPace
  <2>11. /\ SentAtPace(S, T)' /\ T <= clock'
         /\ T = clock' => outstanding = {} /\ S = total_bytes_sent'
                           /\ a0_candidates' = <<AckPoint(clock', total_bytes_acked)>>
         /\ T # clock' => UNCHANGED a0_candidates
    <3>1. CASE outstanding = {} /\ QuietRestart(bytes, clock')
      <4>1. S = total_bytes_sent' /\ T = clock'
            /\ a0_candidates' = <<AckPoint(clock', total_bytes_acked)>>
        BY <2>3, <2>8, <3>1 DEF QuietRestart
      <4>. QED  BY <2>9, <2>10, <3>1, <4>1
    <3>2. CASE UNCHANGED <<lastAckVars, pointVars>>
      <4>1. /\ S = total_bytes_sent_at_last_acked_packet /\ T = last_acked_packet_sent_time
            /\ a0_candidates' = a0_candidates
        BY <2>8, <3>2 DEF lastAckVars, pointVars
      <4>2. SentAtPace(S, T)
        BY <1>3, <4>1 DEF PaceParts, PointsPaced
      <4>3. SentAtPace(S, T)'
        BY <1>6, <2>5, <4>1, <4>2
      <4>4. T \in Stamp /\ (T # Unset => T <= last_send_time)
        BY <1>6, <4>1, <4>2 DEF SentAtPace
      <4>5. T < clock'
        BY <1>2, <1>6, <1>7, <4>4 DEF Stamp, Unset
      <4>6. T # clock' /\ T <= clock'
        BY <1>2, <4>4, <4>5 DEF Stamp, Unset
      <4>. QED  BY <4>1, <4>3, <4>6
    <3>. QED  BY <2>1, <3>1, <3>2 DEF Tracks
  <2>12. PacketAtPace(pkt)'
    <3>1. SentAtPace(pkt.state.total_bytes_sent, pkt.sent_time)'
      BY <2>4, <2>10
    <3>2. T # Unset => (total_bytes_sent' - S) * scenario'.send_gap <= Largest * (clock' - T)
      BY <1>2, <2>11 DEF SentAtPace, WithinPace
    <3>. QED  BY <1>2, <1>6, <2>4, <2>8, <2>11, <3>1, <3>2 DEF PacketAtPace, WithinPace
  <2>13. PointsPaced'
    <3>1. SentAtPace(total_bytes_sent_at_last_acked_packet, last_acked_packet_sent_time)'
      BY <2>8, <2>11 DEF SentAtPace, WithinPace
    <3>2. PacketAtPace(state_map[n])'
      BY <2>3, <2>12 DEF PacketAtPace, SentAtPace, WithinPace
    <3>3. \A p \in Tracked' : PacketAtPace(state_map[p])'
      BY <2>3, <2>7, <3>2
    <3>. QED  BY <3>1, <3>3 DEF PointsPaced
  <2>14. n \notin Awaited /\ Awaited' = Awaited \union {n}
         /\ \A p \in Awaited : state_map'[p] = state_map[p] /\ p \in Nat /\ p < n
    BY <1>2, <1>4, <1>5, <2>3
  <2>15. Lone(n)' <=> T = clock'
    BY <2>3, <2>4, <2>8 DEF Lone
  <2>16. LonesFirst'
    <3>1. CASE T = clock'
      <4>1. Awaited' = {n} /\ AckedBefore(n)' = total_bytes_acked'
            /\ total_bytes_acked_after_last_ack_event' = total_bytes_acked'
        BY <1>2, <1>3, <1>4, <2>3, <2>4, <2>11, <2>14, <3>1 DEF PaceParts, InTurn, AckedBefore
      <4>2. \A i \in DOMAIN a0_candidates' :
              a0_candidates'[i].total_bytes_acked >= total_bytes_acked'
        <5>1. total_bytes_acked \in Nat
          BY AwaitedTracked
        <5>. QED  BY <1>2, <2>11, <3>1, <5>1 DEF AckPoint
      <4>3. n <= n
        BY <1>2
      <4>. QED  BY <4>1, <4>2, <4>3 DEF LonesFirst
    <3>2. CASE T # clock'
      <4>. SUFFICES ASSUME NEW p \in Awaited', Lone(p)'
                    PROVE  /\ total_bytes_acked' = AckedBefore(p)'
                           /\ total_bytes_acked_after_last_ack_event' = AckedBefore(p)'
                           /\ \A i \in DOMAIN a0_candidates' :
                                a0_candidates'[i].total_bytes_acked >= AckedBefore(p)'
                           /\ \A q \in Awaited' : p <= q
        BY DEF LonesFirst
      <4>1. p \in Awaited /\ Lone(p) /\ AckedBefore(p)' = AckedBefore(p)
        BY <2>14, <2>15, <3>2 DEF Lone, AckedBefore
      <4>2. \A q \in Awaited' : p <= q
        BY <1>2, <1>3, <2>14, <4>1 DEF PaceParts, LonesFirst
      <4>3. a0_candidates' = a0_candidates
        BY <2>11, <3>2
      <4>. QED  BY <1>2, <1>3, <4>1, <4>2, <4>3 DEF PaceParts, LonesFirst
    <3>. QED  BY <3>1, <3>2
  <2>. QED  BY <1>8, <1>9, <2>13, <2>16 DEF PaceParts
<1>. QED
  BY <1>10, <1>11

LEMMA PaceOfLess ==
  ASSUME NEW x \in Nat, NEW y \in Nat, NEW g \in Nat, NEW bound, x <= y, y * g <= bound,
         bound \in Nat
  PROVE  x * g <= bound
<1>1. x * g <= y * g
  BY TimesMonotone
<1>2. x * g \in Nat /\ y * g \in Nat
  BY TimesNat
<1>. QED
  BY <1>1, <1>2

(* A packet with a send rate measures no more than the pace it was sent at.*)
LEMMA PaceOfSendRate ==
  ASSUME NEW pkt \in PacketType, PacketAtPace(pkt), SizesBounded,
         scenario.send_gap \in Nat,
         pkt.total_sent_bytes_at_last_acked_pkt <= pkt.state.total_bytes_sent,
         pkt.last_acked_pkt_sent_time # Unset,
         pkt.sent_time # pkt.last_acked_pkt_sent_time
  PROVE  SendRate(pkt) * scenario.send_gap <= RateUnit * Largest
<1>1. /\ pkt.sent_time \in Int /\ pkt.last_acked_pkt_sent_time \in Nat
      /\ pkt.total_sent_bytes_at_last_acked_pkt \in Nat
      /\ pkt.state.total_bytes_sent \in Nat
      /\ pkt.last_acked_pkt_sent_time <= pkt.sent_time
      /\ Largest \in Nat
  BY LargestProperties DEF PacketType, SendTimeState, Stamp, Unset, PacketAtPace
<1>. DEFINE b == pkt.state.total_bytes_sent - pkt.total_sent_bytes_at_last_acked_pkt
            t == pkt.sent_time - pkt.last_acked_pkt_sent_time
<1>2. b \in Nat /\ t \in Nat \ {0}
  BY <1>1
<1>3. b * scenario.send_gap <= Largest * t
  BY DEF PacketAtPace, WithinPace
<1>4. pkt.sent_time > pkt.last_acked_pkt_sent_time
  BY <1>1
<1>5. SendRate(pkt) = Rate(b, t)
  BY <1>4 DEF SendRate
<1>. HIDE DEF b, t
<1>. QED
  BY <1>1, <1>2, <1>3, <1>5, PaceOfRate

(* One without is the first after a quiet period: only its own bytes were  *)
(* acknowledged, over a round trip.                                        *)
LEMMA PaceOfAckRate ==
  ASSUME SamplingInv, AckInv, PaceParts, SizesBounded,
         scenario.send_gap \in Nat, scenario.min_rtt >= scenario.send_gap,
         NEW p \in Awaited, Lone(p),
         clock - state_map[p].sent_time >= scenario.min_rtt,
         NEW x, NEW y,
         x = (total_bytes_acked + state_map[p].bytes) - A0(state_map[p]).total_bytes_acked,
         y = clock - A0(state_map[p]).ack_time
  PROVE  x \in Nat /\ y \in Nat
         /\ (y # 0 => Rate(x, y) * scenario.send_gap <= RateUnit * Largest)
<1>. DEFINE pkt == state_map[p]
            acked == AckedBefore(p)
            c == ChosenA0(pkt.state.total_bytes_acked)
            a0 == A0(pkt)
<1>1. p \in Tracked /\ Typed /\ Points /\ CountersConsistent
  BY AwaitedTracked DEF SamplingInv, Counted
<1>2. /\ pkt \in PacketType /\ pkt.sent_time \in Nat /\ pkt.sent_time <= clock
      /\ acked \in Nat /\ clock \in Nat /\ total_bytes_acked \in Nat
      /\ pkt.bytes \in Nat /\ pkt.bytes <= Largest
      /\ scenario.min_rtt \in Nat /\ Largest \in Nat
  <2>1. pkt \in PacketType /\ scenario.min_rtt \in Nat /\ Largest \in Nat
    BY <1>1, PaceTypes
  <2>2. pkt.bytes \in Nat
    BY <2>1 DEF PacketType
  <2>3. pkt.bytes <= Largest
    BY <1>1 DEF PaceParts, PointsPaced, PacketAtPace
  <2>. QED  BY <1>1, <2>1, <2>2, <2>3, AwaitedTracked
<1>3. a0_candidates # <<>> /\ a0_candidates \in Seq(PointType)
  BY <1>1, AwaitedTracked DEF Points
<1>4. c \in DOMAIN a0_candidates /\ a0 = a0_candidates[c] /\ a0 \in PointType
  <2>1. pkt.state.total_bytes_acked \in Nat
    BY <1>2 DEF AckedBefore
  <2>2. c \in 1..Len(a0_candidates)
    BY <1>3, <2>1, ChosenProperties
  <2>3. a0 = a0_candidates[c]
    BY <1>3 DEF A0
  <2>. HIDE DEF c, a0
  <2>. QED  BY <1>3, <2>2, <2>3
<1>. HIDE DEF c, a0
<1>5. a0.total_bytes_acked = acked /\ total_bytes_acked = acked
  <2>1. a0.total_bytes_acked >= acked /\ total_bytes_acked = acked
    BY <1>4 DEF PaceParts, LonesFirst
  <2>2. a0.total_bytes_acked <= total_bytes_acked /\ a0.total_bytes_acked \in Nat
    BY <1>1, <1>4 DEF CountersConsistent, PointType
  <2>. QED  BY <1>2, <2>1, <2>2
<1>6. a0.ack_time <= pkt.sent_time /\ a0.ack_time \in Int
  <2>1. Dates(a0, p)
    BY <1>4 DEF AckInv, Dated
  <2>2. a0.ack_time <= pkt.sent_time
    BY <1>2, <1>5, <2>1 DEF Dates
  <2>. QED  BY <1>4, <2>2 DEF PointType, Stamp, Unset
<1>7. x = pkt.bytes /\ x \in Nat /\ x <= Largest
  <2>1. x = (total_bytes_acked + pkt.bytes) - a0.total_bytes_acked
    BY DEF a0
  <2>. QED  BY <1>2, <1>5, <2>1
<1>8. y \in Nat /\ scenario.send_gap <= y
  <2>1. y = clock - a0.ack_time
    BY DEF a0
  <2>2. clock - pkt.sent_time >= scenario.min_rtt
    OBVIOUS
  <2>. QED  BY <1>2, <1>6, <2>1, <2>2
<1>9. x * scenario.send_gap <= Largest * y
  BY <1>2, <1>7, <1>8, TimesMonotone
<1>10. ASSUME y # 0 PROVE Rate(x, y) * scenario.send_gap <= RateUnit * Largest
  BY <1>2, <1>7, <1>8, <1>9, <1>10, PaceOfRate
<1>. QED
  BY <1>7, <1>8, <1>10

LEMMA MergedBandwidth ==
  ASSUME event_sample \in SampleType, NEW pkt, NEW bw, NEW rtt, NEW acked
  PROVE  Merged(pkt, bw, rtt, acked).sample_max_bandwidth
           \in {event_sample.sample_max_bandwidth, bw}
BY DEF Merged, SampleType

(* The head of the packets to handle is the least packet awaited.          *)
LEMMA HeadOfTurn ==
  ASSUME SamplingInv, AckInv, InTurn, AckPacket, NEW p, p = Head(todo_acked)
  PROVE  /\ p \in Awaited /\ p \in Tracked
         /\ clock - state_map[p].sent_time >= scenario.min_rtt
         /\ Awaited' \subseteq Awaited \ {p}
         /\ \A q \in Awaited' : p < q
         /\ InTurn'
<1>1. Acks(p, state_map[p]) /\ ~Idle
  BY AckAcks
<1>2. /\ todo_acked # <<>> /\ todo_acked \in Seq(Tracked)
      /\ todo_acked' = Tail(todo_acked) /\ ~Idle'
      /\ UNCHANGED <<state_map, clock, outstanding, event, scenario>>
      /\ Awaited \subseteq Tracked /\ Tracked \subseteq Nat
  <2>1. Tracked \subseteq Known /\ Known \subseteq 1..scenario.max_packet
    BY AwaitedTracked DEF SamplingInv, Numbered
  <2>2. Tracked \subseteq Nat
    BY <2>1
  <2>. QED  BY <1>1, <2>2, AwaitedTracked DEF Acks, SamplingInv, Typed, Idle
<1>3. /\ 1 \in DOMAIN todo_acked /\ todo_acked[1] = p /\ p \in Awaited
      /\ \A i \in DOMAIN todo_acked' :
           /\ i + 1 \in DOMAIN todo_acked /\ todo_acked'[i] = todo_acked[i + 1]
           /\ i \in Nat \ {0}
  <2>1. \A i \in DOMAIN Tail(todo_acked) :
          i + 1 \in DOMAIN todo_acked /\ Tail(todo_acked)[i] = todo_acked[i + 1]
    BY <1>2, HeadTailProperties
  <2>2. DOMAIN Tail(todo_acked) \subseteq Nat \ {0}
    BY <1>2, HeadTailProperties
  <2>3. 1 \in DOMAIN todo_acked /\ todo_acked[1] = p
    BY <1>2
  <2>. QED  BY <1>2, <2>1, <2>2, <2>3 DEF Awaited
<1>4. \A i \in DOMAIN todo_acked' : p < todo_acked'[i]
  <2>. TAKE i \in DOMAIN todo_acked'
  <2>1. 1 < i + 1
    BY <1>3
  <2>. QED  BY <1>3, <2>1 DEF InTurn
<1>5. \A q \in outstanding' : p < q
  BY <1>2, <1>3 DEF InTurn
<1>6. \A q \in Awaited' : p < q /\ q \in Awaited
  BY <1>2, <1>3, <1>4, <1>5 DEF Awaited
<1>7. \A q \in Awaited' : q # p
  BY <1>2, <1>3, <1>6
<1>8. InTurn'
  <2>1. event.acked # <<>>
    BY <1>2 DEF InTurn
  <2>2. \A i, j \in DOMAIN todo_acked' : i < j => i + 1 < j + 1
    BY <1>3
  <2>3. \A i, j \in DOMAIN todo_acked' : i < j => todo_acked'[i] < todo_acked'[j]
    BY <1>3, <2>2 DEF InTurn
  <2>4. \A i \in DOMAIN todo_acked' :
          /\ \A q \in outstanding' : todo_acked'[i] < q
          /\ clock' - state_map'[todo_acked'[i]].sent_time >= scenario'.min_rtt
    BY <1>2, <1>3 DEF InTurn
  <2>. QED  BY <1>2, <2>1, <2>3, <2>4 DEF InTurn
<1>. QED
  BY <1>2, <1>3, <1>6, <1>7, <1>8 DEF InTurn

LEMMA AckedA0 ==
  ASSUME SamplingInv, Tracked # {}, NEW pkt \in PacketType
  PROVE  A0(pkt).ack_time \in Int
<1>. DEFINE c == ChosenA0(pkt.state.total_bytes_acked)
<1>1. a0_candidates # <<>> /\ a0_candidates \in Seq(PointType)
  BY AwaitedTracked DEF SamplingInv, Points
<1>2. pkt.state.total_bytes_acked \in Nat
  BY DEF PacketType, SendTimeState
<1>3. c \in 1..Len(a0_candidates)
  BY <1>1, <1>2, ChosenProperties
<1>4. A0(pkt) = a0_candidates[c]
  BY <1>1 DEF A0
<1>. HIDE DEF c
<1>5. a0_candidates[c] \in PointType
  BY <1>1, <1>3
<1>. QED
  BY <1>4, <1>5 DEF PointType, Stamp, Unset

LEMMA AckedBandwidth ==
  ASSUME SamplingInv, AckInv, PaceParts, SizesBounded, AckPacket,
         scenario.send_gap \in Nat, scenario.min_rtt >= scenario.send_gap
  PROVE  PaceBoundsSamples'
<1>1. PICK p : p = Head(todo_acked)
  OBVIOUS
<1>2. PICK pkt : pkt = state_map[p]
  OBVIOUS
<1>3. /\ p \in Awaited /\ p \in Tracked /\ pkt \in PacketType /\ PacketAtPace(pkt)
      /\ clock - pkt.sent_time >= scenario.min_rtt
  BY <1>1, <1>2, HeadOfTurn, PaceTypes DEF PaceParts, PointsPaced
<1>4. /\ event_sample \in SampleType /\ event_sample' \in SampleType
      /\ scenario' = scenario /\ total_bytes_acked' = total_bytes_acked + pkt.bytes
      /\ pkt.total_sent_bytes_at_last_acked_pkt <= pkt.state.total_bytes_sent
  <2>1. Acks(p, pkt)
    BY <1>1, <1>2, AckAcks
  <2>2. event_sample' \in SampleType
    BY <2>1, AckedSample
  <2>. QED  BY <1>2, <1>3, <2>1, <2>2
            DEF Acks, SamplingInv, Typed, Counted, CountersConsistent, Tracked
<1>5. event_sample.sample_max_bandwidth * scenario.send_gap <= RateUnit * Largest
  BY DEF PaceParts, PaceBoundsSamples, Largest
<1>6. CASE event_sample' = event_sample
  BY <1>4, <1>5, <1>6 DEF PaceBoundsSamples, Largest
<1>7. CASE event_sample' # event_sample
  <2>. DEFINE x == (total_bytes_acked + pkt.bytes) - A0(pkt).total_bytes_acked
              y == clock - A0(pkt).ack_time
              bw == Bandwidth(SendRate(pkt), Rate(x, y))
              g == scenario.send_gap
              m == event_sample'.sample_max_bandwidth
              rtt == clock - pkt.sent_time
              acked == total_bytes_acked + pkt.bytes
  <2>1. /\ pkt.last_acked_pkt_sent_time # Unset
        /\ A0(pkt).ack_time < clock
        /\ event_sample' = Merged(pkt, bw, rtt, acked)
    <3>1. OnPktAcked(p, clock)
      BY <1>1 DEF AckPacket
    <3>2. p \in DOMAIN state_map
      BY <1>3 DEF Tracked
    <3>3. \/ UNCHANGED <<a0_candidates, event_sample>>
          \/ /\ pkt.last_acked_pkt_sent_time # Unset
             /\ A0(pkt).ack_time < clock
             /\ event_sample' = Merged(pkt, bw, rtt, acked)
      BY <1>2, <3>1, <3>2 DEF OnPktAcked
    <3>. QED  BY <1>7, <3>3
  <2>2. m \in {event_sample.sample_max_bandwidth, bw}
    <3>. HIDE DEF bw, rtt, acked
    <3>1. Merged(pkt, bw, rtt, acked).sample_max_bandwidth
            \in {event_sample.sample_max_bandwidth, bw}
      BY <1>4, MergedBandwidth
    <3>. QED  BY <2>1, <3>1
  <2>3. m \in Nat /\ g \in Nat /\ RateUnit * Largest \in Nat
    <3>1. RateUnit \in Nat /\ Largest \in Nat
      BY SamplerAssumption, LargestProperties
    <3>. QED  BY <1>4, <3>1, TimesNat DEF SampleType
  <2>. HIDE DEF m, x, y
  <2>4. ASSUME m = bw PROVE m * g <= RateUnit * Largest
    <3>1. CASE pkt.sent_time # pkt.last_acked_pkt_sent_time
      <4>1. SendRate(pkt) \in Nat /\ SendRate(pkt) * g <= RateUnit * Largest
        BY <1>3, <1>4, <2>1, <3>1, SendRateType, PaceOfSendRate
      <4>2. bw = SendRate(pkt) \/ (bw = Rate(x, y) /\ ~(SendRate(pkt) < bw))
        BY DEF Bandwidth
      <4>4. m <= SendRate(pkt)
        BY <2>3, <2>4, <4>1, <4>2
      <4>. QED  BY <2>3, <4>1, <4>4, PaceOfLess
    <3>2. CASE pkt.sent_time = pkt.last_acked_pkt_sent_time
      <4>1. Lone(p)
        BY <1>2, <3>2 DEF Lone
      <4>2. /\ x \in Nat /\ y \in Nat
            /\ (y # 0 => Rate(x, y) * g <= RateUnit * Largest)
        BY <1>2, <1>3, <4>1, PaceOfAckRate DEF x, y
      <4>3. y # 0
        <5>1. clock \in Nat
          BY AwaitedTracked
        <5>2. A0(pkt).ack_time \in Int
          BY <1>3, AckedA0
        <5>. QED  BY <2>1, <5>1, <5>2 DEF y
      <4>4. Rate(x, y) \in Nat
        BY <4>2, <4>3, RateNat
      <4>5. SendRate(pkt) \in Nat
        BY <1>3, <1>4, SendRateType
      <4>6. m <= Rate(x, y)
        <5>1. bw = Rate(x, y) \/ (bw = SendRate(pkt) /\ SendRate(pkt) < Rate(x, y))
          BY DEF Bandwidth
        <5>. QED  BY <2>3, <2>4, <4>4, <4>5, <5>1
      <4>. QED  BY <2>3, <4>2, <4>3, <4>4, <4>6, PaceOfLess
    <3>. QED  BY <3>1, <3>2
  <2>5. m * g <= RateUnit * Largest
    BY <1>5, <2>2, <2>4
  <2>. QED  BY <1>4, <2>5 DEF PaceBoundsSamples, Largest, m
<1>. QED
  BY <1>6, <1>7

LEMMA PaceAckPacket ==
  ASSUME SamplingInv, AckInv, PaceInv, PacedInOrder, SizesBounded, AckPacket
  PROVE  PaceInv'
<1>. SUFFICES ASSUME scenario'.send_gap > 0 PROVE PaceParts'
  BY DEF PaceInv
<1>1. PICK p, pkt : p = Head(todo_acked) /\ pkt = state_map[p]
  OBVIOUS
<1>2. /\ Acks(p, pkt) /\ scenario' = scenario
      /\ UNCHANGED <<total_bytes_sent, last_send_time, state_map>>
      /\ total_bytes_sent_at_last_acked_packet' = pkt.state.total_bytes_sent
      /\ last_acked_packet_sent_time' = pkt.sent_time
  BY <1>1, AckAcks DEF Acks
<1>3. PaceParts /\ scenario.min_rtt >= scenario.send_gap /\ scenario.send_gap \in Nat
  BY <1>2, PaceTypes DEF PaceInv, PacedInOrder
<1>4. /\ p \in Tracked /\ p \in Awaited
      /\ Awaited' \subseteq Awaited \ {p} /\ \A q \in Awaited' : p < q
      /\ InTurn'
  BY <1>1, <1>3, HeadOfTurn DEF PaceParts
<1>5. PointsPaced'
  <2>1. \A q \in Tracked : PacketAtPace(state_map[q])
    BY <1>3 DEF PaceParts, PointsPaced
  <2>2. SentAtPace(pkt.state.total_bytes_sent, pkt.sent_time)
    BY <1>1, <1>4, <2>1 DEF PacketAtPace
  <2>. QED  BY <1>2, <2>1, <2>2 DEF PointsPaced, PacketAtPace, SentAtPace, WithinPace, Tracked
<1>6. LonesFirst'
  <2>. SUFFICES ASSUME NEW q \in Awaited', Lone(q)' PROVE FALSE
    BY DEF LonesFirst
  <2>1. q \in Awaited /\ Lone(q)
    BY <1>2, <1>4 DEF Lone
  <2>2. q <= p /\ p < q
    BY <1>3, <1>4, <2>1 DEF PaceParts, LonesFirst
  <2>3. q \in Nat /\ p \in Nat
    <3>1. Tracked \subseteq Known /\ Known \subseteq 1..scenario.max_packet
      BY AwaitedTracked DEF SamplingInv, Numbered
    <3>2. Awaited \subseteq Tracked
      BY AwaitedTracked
    <3>. QED  BY <1>4, <2>1, <3>1, <3>2
  <2>. QED  BY <2>2, <2>3
<1>7. PaceBoundsSamples'
  BY <1>3, AckedBandwidth
<1>. QED
  BY <1>4, <1>5, <1>6, <1>7 DEF PaceParts

LEMMA PaceNext ==
  ASSUME NoDuplicates, PacedInOrder, SizesBounded
  PROVE  SamplingInv /\ AckInv /\ PaceInv /\ [Next]_vars => PaceInv'
<1>. SUFFICES ASSUME SamplingInv, AckInv, PaceInv, [Next]_vars PROVE PaceInv'
  OBVIOUS
<1>0. \A ticks \in scenario.time_steps, need \in scenario.need_retransmit : need \in BOOLEAN
  BY EnvironmentAssumption DEF SamplingInv, Typed, ScenarioType
<1>1. ASSUME NEW ticks \in scenario.time_steps, Passes(ticks),
             NEW bytes \in Sizes, NEW need \in scenario.need_retransmit,
             Send(bytes, need)
      PROVE  PaceInv'
  BY <1>0, <1>1, PaceSend
<1>2. ASSUME NEW ticks \in scenario.time_steps, Passes(ticks),
             NEW acked \in SUBSET (outstanding \union DOMAIN state_map),
             NEW lost \in SUBSET outstanding, StartEvent(acked, lost)
      PROVE  PaceInv'
  BY <1>2, PaceStartEvent
<1>3. CASE LosePacket
  BY <1>3, PaceLosePacket
<1>4. CASE AckPacket
  BY <1>4, PaceAckPacket
<1>5. CASE EndEvent
  BY <1>5, PaceEndEvent
<1>6. ASSUME NEW p \in outstanding, Neuter(p) PROVE PaceInv'
  BY <1>6, NeuterForgets, PaceForget
<1>7. ASSUME NEW up_to \in 1..(scenario.max_packet + 1), RemoveObsolete(up_to)
      PROVE  PaceInv'
  BY <1>7, RemoveObsoleteForgets, PaceForget
<1>8. CASE AppLimited \/ UNCHANGED vars
  BY <1>8, PaceStutters
<1>. QED
  BY <1>1, <1>2, <1>3, <1>4, <1>5, <1>6, <1>7, <1>8 DEF Next

LEMMA PaceInit == ASSUME SizesBounded PROVE Init => PaceInv
<1>. SUFFICES ASSUME Init PROVE PaceParts
  BY DEF PaceInv
<1>1. Tracked = {} /\ Awaited = {} /\ DOMAIN todo_acked = {}
  BY DEF Init, SamplerInit, Tracked, Awaited
<1>2. PointsPaced
  BY <1>1 DEF PointsPaced, SentAtPace, Init, SamplerInit
<1>3. LonesFirst
  BY <1>1 DEF LonesFirst
<1>4. InTurn
  BY <1>1 DEF InTurn, Init, SamplerInit, NoEvent
<1>5. PaceBoundsSamples
  <2>1. scenario.send_gap \in Nat /\ Largest \in Nat /\ RateUnit \in Nat
    BY EnvironmentAssumption, SamplerAssumption, LargestProperties DEF Init, ScenarioType
  <2>2. event_sample.sample_max_bandwidth = 0
    BY DEF Init, SamplerInit, EmptySample
  <2>3. 0 * scenario.send_gap = 0 /\ RateUnit * Largest \in Nat
    BY <2>1, TimesNat
  <2>. QED  BY <2>2, <2>3 DEF PaceBoundsSamples, Largest
<1>. QED
  BY <1>2, <1>3, <1>4, <1>5 DEF PaceParts

(* A sender that keeps a pace measures at most that pace, however its acks *)
(* are squeezed together (the test CompressedAck), behind a network that   *)
(* acknowledges in order and not before a gap has passed.                  *)
THEOREM PaceIsKept ==
  ASSUME NoDuplicates, PacedInOrder, SizesBounded
  PROVE  Spec => []PaceBoundsSamples
<1>1. SamplingInv /\ PaceInv => PaceBoundsSamples
  <2>. SUFFICES ASSUME SamplingInv, PaceInv, ~(scenario.send_gap > 0)
                PROVE  PaceBoundsSamples
    BY DEF PaceInv, PaceParts
  <2>1. /\ scenario.send_gap \in Nat /\ Largest \in Nat /\ RateUnit \in Nat
        /\ event_sample.sample_max_bandwidth \in Nat
    BY PaceTypes, SamplerAssumption DEF SampleType
  <2>2. scenario.send_gap = 0
    BY <2>1
  <2>3. RateUnit * Largest \in Nat
    BY <2>1, TimesNat
  <2>4. event_sample.sample_max_bandwidth * 0 = 0
    BY <2>1
  <2>. QED  BY <2>2, <2>3, <2>4 DEF PaceBoundsSamples, Largest
<1>2. SamplingInv /\ AckInv /\ PaceInv /\ [Next]_vars => PaceInv'
  BY PaceNext
<1>3. Init => PaceInv
  BY PaceInit
<1>. QED
  BY <1>1, <1>2, <1>3, SamplingInvariant, AckInvariant, PTL DEF Spec
=============================================================================
