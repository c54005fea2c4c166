-------------------------- MODULE BbrSenderProofs ---------------------------
(***************************************************************************)
(* Proofs about BbrSender for any number of packets, sizes and windows:    *)
(* what its history holds, that it is a queue, and what it counts as in    *)
(* flight. The history is described trunk by trunk: as long as the first   *)
(* number lies in the first trunk, that one takes every packet.            *)
(***************************************************************************)
EXTENDS BbrSender, SumTheorems, SequenceTheorems

Cells == PacketType \union {DefaultPacket}

(* The history when the first number lies in the first trunk: emplace      *)
(* makes that trunk longer by every packet, so none ever leaves it.        *)
FrontHolds ==
  /\ elems \in Seq(Seq(Cells)) /\ Len(elems) = kDefaultTrunkSize
  /\ Len(elems[1]) = TrunkSize + Len(transmitted)
  /\ \A j \in 1..Len(elems[1]) :
       elems[1][j] = IF j - FirstPacket \in 1..Len(transmitted)
                       THEN transmitted[j - FirstPacket] ELSE DefaultPacket
  /\ \A j \in 1..Len(elems[2]) : elems[2][j] = DefaultPacket

(* Packets are numbered without a gap, and sent in the order they were     *)
(* handed over.                                                            *)
Numbered ==
  /\ submitted = transmitted \o pkts_buffer
  /\ \A i \in 1..Len(submitted) : submitted[i].seq_no = FirstPacket + i - 1

OutstandingSent ==
  /\ IsFiniteSet(outstanding)
  /\ \A p \in outstanding : \E i \in 1..Len(transmitted) : p = transmitted[i]

(* The first number lies in the first trunk. A sender that starts behind   *)
(* it finds no cell of its own for the first position after the last trunk *)
(* (circular_buffer.h:111).                                                *)
StartsInFirstTrunk == FirstPacket < TrunkSize

SenderInv ==
  /\ TypeOK /\ FrontHolds /\ Numbered /\ OutstandingSent /\ QueueWaitsForWindow

-----------------------------------------------------------------------------
LEMMA ModRange ==
  ASSUME NEW a \in Int, NEW m \in Nat \ {0}
  PROVE  /\ a % m \in 0..(m - 1)
         /\ a \in 0..(m - 1) => a % m = a
OBVIOUS

LEMMA ModSmall ==
  ASSUME NEW m \in Nat \ {0}, NEW a \in 0..(m - 1)
  PROVE  a % m = a
OBVIOUS

LEMMA ModRest ==
  ASSUME NEW a \in Int, NEW m \in Nat \ {0}
  PROVE  a % m \in Int /\ \E q \in Int : a = q * m + (a % m)
<1>1. \A r \in Nat \ {0} : /\ a % r \in Int /\ a \div r \in Int
                           /\ a = ((a \div r) * r) + (a % r)
  OBVIOUS
<1>. QED
  BY <1>1

Congruent(a, b, m) == \E q \in Int : a = b + q * m

LEMMA ModCongruent ==
  ASSUME NEW a \in Int, NEW b \in Int, NEW m \in Nat \ {0}, Congruent(a, b, m)
  PROVE  a % m = b % m
<1>0. PICK q \in Int : a = b + q * m
  BY DEF Congruent
<1>1. /\ a % m \in Int /\ b % m \in Int
      /\ a % m \in 0..(m - 1) /\ b % m \in 0..(m - 1)
  BY ModRange, ModRest
<1>2. PICK x \in Int, y \in Int : a = x * m + (a % m) /\ b = y * m + (b % m)
  BY ModRest
<1>. DEFINE k == y + q - x
            r == a % m
            t == b % m
<1>3. r = t + k * m /\ k \in Int /\ r \in 0..(m - 1) /\ t \in 0..(m - 1)
  <2>1. \A u \in Int : (y + q - x) * u = y * u + q * u - x * u
    OBVIOUS
  <2>2. x * m \in Int /\ y * m \in Int /\ q * m \in Int
    OBVIOUS
  <2>. DEFINE xm == x * m
              ym == y * m
              qm == q * m
  <2>3. k * m = ym + qm - xm
    BY <2>1
  <2>4. a = xm + r /\ b = ym + t /\ a = b + qm
    BY <1>0, <1>2
  <2>5. xm \in Int /\ ym \in Int /\ qm \in Int /\ r \in Int /\ t \in Int
    BY <1>1, <2>2
  <2>. HIDE DEF xm, ym, qm, r, t, k
  <2>6. r = t + k * m
    BY <2>3, <2>4, <2>5
  <2>. QED  BY <1>1, <2>6 DEF k, r, t
<1>. HIDE DEF r, t, k
<1>4. \A i, j \in Int : j > 0 /\ i >= 1 => i * j >= j
  OBVIOUS
<1>5. \A i, j \in Int : j > 0 /\ i <= -1 => i * j <= -j
  OBVIOUS
<1>6. ~ (k >= 1) /\ ~ (k <= -1)
  BY <1>3, <1>4, <1>5
<1>7. k = 0
  BY <1>3, <1>6
<1>8. r = t
  BY <1>3, <1>7
<1>. QED
  BY <1>8 DEF r, t

(* A remainder may be taken before a further difference or sum.            *)
LEMMA ModFirst ==
  ASSUME NEW a \in Int, NEW b \in Int, NEW m \in Nat \ {0}
  PROVE  ((a % m) + b) % m = (a + b) % m
<1>1. PICK q \in Int : a = q * m + (a % m)
  BY ModRest
<1>2. a % m \in Int /\ q * m \in Int
  BY ModRest
<1>. DEFINE c == a + b
            d == (a % m) + b
<1>3. c = d + q * m /\ c \in Int /\ d \in Int
  BY <1>1, <1>2
<1>. HIDE DEF c, d
<1>4. Congruent(c, d, m)
  BY <1>3 DEF Congruent
<1>5. c % m = d % m
  BY <1>3, <1>4, ModCongruent
<1>. QED
  BY <1>5 DEF c, d

LEMMA DivMod ==
  ASSUME NEW a \in Nat, NEW m \in Nat \ {0}
  PROVE  a \div m \in Nat /\ a % m \in Nat
<1>1. a \div m \in Nat
  OBVIOUS
<1>2. a % m \in 0..(m - 1)
  BY ModRange
<1>. QED
  BY <1>1, <1>2

LEMMA InsertAtProperties ==
  ASSUME NEW S, NEW s \in Seq(S), NEW i \in 1..(Len(s) + 1), NEW e \in S
  PROVE  /\ InsertAt(s, i, e) \in Seq(S)
         /\ Len(InsertAt(s, i, e)) = Len(s) + 1
         /\ \A j \in 1..(Len(s) + 1) :
              InsertAt(s, i, e)[j] =
                IF j < i THEN s[j] ELSE IF j = i THEN e ELSE s[j - 1]
<1>. DEFINE before == SubSeq(s, 1, i - 1)
            after  == SubSeq(s, i, Len(s))
<1>1. /\ before \in Seq(S) /\ Len(before) = i - 1
      /\ \A j \in 1..(i - 1) : before[j] = s[j]
  <2>1. \A j \in 1..(i - 1) : s[j] \in S
    BY ElementOfSeq
  <2>. QED  BY <2>1, SubSeqProperties
<1>2. /\ after \in Seq(S) /\ Len(after) = Len(s) - i + 1
      /\ \A j \in 1..(Len(s) - i + 1) : after[j] = s[i + j - 1]
  <2>1. \A j \in i..Len(s) : s[j] \in S
    BY ElementOfSeq
  <2>2. i <= Len(s) \/ i = Len(s) + 1
    OBVIOUS
  <2>. QED  BY <2>1, <2>2, SubSeqProperties
<1>3. <<e>> \in Seq(S) /\ Len(<<e>>) = 1 /\ <<e>>[1] = e
  OBVIOUS
<1>. HIDE DEF before, after
<1>4. /\ before \o <<e>> \in Seq(S) /\ Len(before \o <<e>>) = i
      /\ \A j \in 1..i : (before \o <<e>>)[j] = IF j < i THEN s[j] ELSE e
  BY <1>1, <1>3, ConcatProperties
<1>5. /\ (before \o <<e>>) \o after \in Seq(S)
      /\ Len((before \o <<e>>) \o after) = Len(s) + 1
      /\ \A j \in 1..(Len(s) + 1) :
           ((before \o <<e>>) \o after)[j] =
             IF j < i THEN s[j] ELSE IF j = i THEN e ELSE s[j - 1]
  <2>. DEFINE both == before \o <<e>>
  <2>1. both \in Seq(S) /\ Len(both) = i
    BY <1>4
  <2>2. \A j \in 1..i : both[j] = IF j < i THEN s[j] ELSE e
    BY <1>4
  <2>. HIDE DEF both
  <2>3. /\ both \o after \in Seq(S)
        /\ Len(both \o after) = i + (Len(s) - i + 1)
        /\ \A j \in 1..(i + (Len(s) - i + 1)) :
             (both \o after)[j] = IF j <= i THEN both[j] ELSE after[j - i]
    BY <1>2, <2>1, ConcatProperties
  <2>4. Len(s) \in Nat /\ i + (Len(s) - i + 1) = Len(s) + 1
    OBVIOUS
  <2>5. ASSUME NEW j \in 1..(Len(s) + 1)
        PROVE  (both \o after)[j] =
                 IF j < i THEN s[j] ELSE IF j = i THEN e ELSE s[j - 1]
    <3>1. CASE j <= i
      BY <2>2, <2>3, <2>4, <3>1
    <3>2. CASE j > i
      <4>1. j - i \in 1..(Len(s) - i + 1) /\ i + (j - i) - 1 = j - 1
        BY <2>4, <3>2
      <4>2. (both \o after)[j] = after[j - i]
        BY <2>3, <2>4, <3>2
      <4>3. after[j - i] = s[j - 1]
        BY <1>2, <4>1
      <4>. QED  BY <3>2, <4>2, <4>3
    <3>3. j <= i \/ j > i
      BY <2>4
    <3>. QED  BY <3>1, <3>2, <3>3, Zenon
  <2>. QED  BY <2>3, <2>4, <2>5 DEF both
<1>6. InsertAt(s, i, e) = (before \o <<e>>) \o after
  BY Zenon DEF InsertAt, before, after
<1>. QED
  BY <1>5, <1>6

-----------------------------------------------------------------------------
LEMMA FrontTyped ==
  ASSUME TypeOK, FrontHolds
  PROVE  /\ Len(elems) = 2 /\ elems \in Seq(Seq(Cells))
         /\ elems[1] \in Seq(Cells) /\ elems[2] \in Seq(Cells)
         /\ Len(elems[1]) \in Nat \ {0} /\ Len(elems[2]) \in Nat
         /\ Len(elems[1]) = TrunkSize + Len(transmitted)
         /\ Len(transmitted) \in Nat
<1>1. /\ Len(elems) = 2 /\ elems \in Seq(Seq(Cells))
      /\ elems[1] \in Seq(Cells) /\ elems[2] \in Seq(Cells)
  BY DEF FrontHolds, kDefaultTrunkSize
<1>2. Len(transmitted) \in Nat /\ Len(elems[1]) \in Nat /\ Len(elems[2]) \in Nat
  BY <1>1 DEF TypeOK
<1>3. Len(elems[1]) = TrunkSize + Len(transmitted)
  BY DEF FrontHolds
<1>. QED
  BY <1>1, <1>2, <1>3, TrunkAssumption

(* What the history says of a number.                                      *)
LEMMA GetInFront ==
  ASSUME TypeOK, FrontHolds, NEW n \in Nat
  PROVE  /\ Get(n) = <<>> \/ (Get(n)[1] \in Cells /\ Get(n) = <<Get(n)[1]>>)
         /\ n < Len(elems[1]) => Get(n) = <<elems[1][n + 1]>>
<1>1. /\ Len(elems) = 2 /\ elems[1] \in Seq(Cells) /\ elems[2] \in Seq(Cells)
      /\ Len(elems[1]) \in Nat \ {0} /\ Len(elems[2]) \in Nat
  BY FrontTyped
<1>2. CASE n < Len(elems[1])
  <2>1. TrunkOf(elems, n) = 1 /\ IndexOf(elems, n) = n
    BY <1>2 DEF TrunkOf, IndexOf, FrontSize
  <2>2. Get(n) = <<elems[1][n + 1]>>
    BY <1>1, <1>2, <2>1 DEF Get
  <2>3. n + 1 \in 1..Len(elems[1]) /\ elems[1][n + 1] \in Cells
    BY <1>1, <1>2
  <2>. QED  BY <2>2, <2>3
<1>3. CASE n >= Len(elems[1])
  <2>. DEFINE size == Len(elems[1])
              q == (n - size) \div size
              t == q + 2
  <2>1. q \in Nat /\ (n - size) % size \in Nat
    <3>. DEFINE d == n - size
    <3>1. size \in Nat \ {0} /\ d \in Nat /\ d \in Int
      BY <1>1, <1>3
    <3>. HIDE DEF size, d
    <3>2. d \div size \in Nat /\ d % size \in Nat
      BY <3>1, DivMod
    <3>. QED  BY <3>2 DEF d
  <2>2. ~ (n < size)
    BY <1>1, <1>3
  <2>3. TrunkOf(elems, n) \in {2, 3}
    <3>1. TrunkOf(elems, n) = IF t > Len(elems) THEN Len(elems) + 1 ELSE t
      BY <2>2 DEF TrunkOf, FrontSize
    <3>. HIDE DEF q
    <3>. QED  BY <1>1, <2>1, <3>1
  <2>4. IndexOf(elems, n) \in Nat
    BY <2>1, <2>2 DEF IndexOf, FrontSize
  <2>5. \/ Get(n) = <<>>
        \/ /\ Get(n) = <<elems[2][IndexOf(elems, n) + 1]>>
           /\ IndexOf(elems, n) < Len(elems[2])
    BY <1>1, <2>3, <2>4 DEF Get
  <2>6. IndexOf(elems, n) < Len(elems[2]) => elems[2][IndexOf(elems, n) + 1] \in Cells
    BY <1>1, <2>4
  <2>. QED  BY <1>3, <1>1, <2>5, <2>6
<1>. QED
  BY <1>1, <1>2, <1>3

LEMMA GetBehind ==
  ASSUME TypeOK, FrontHolds, NEW n \in Nat, n >= Len(elems[1]), Get(n) # <<>>
  PROVE  Get(n)[1] = DefaultPacket
<1>. DEFINE size == Len(elems[1])
            q == (n - size) \div size
            t == q + 2
<1>1. Len(elems) = 2 /\ size \in Nat \ {0} /\ Len(elems[2]) \in Nat
  BY FrontTyped
<1>2. q \in Nat /\ (n - size) % size \in Nat
  <2>. DEFINE d == n - size
  <2>1. size \in Nat \ {0} /\ d \in Nat /\ d \in Int
    BY <1>1
  <2>. HIDE DEF size, d
  <2>2. d \div size \in Nat /\ d % size \in Nat
    BY <2>1, DivMod
  <2>. QED  BY <2>2 DEF d
<1>3. ~ (n < size)
  BY <1>1
<1>4. TrunkOf(elems, n) \in {2, 3}
  <2>1. TrunkOf(elems, n) = IF t > Len(elems) THEN Len(elems) + 1 ELSE t
    BY <1>3 DEF TrunkOf, FrontSize
  <2>. HIDE DEF q
  <2>. QED  BY <1>1, <1>2, <2>1
<1>5. IndexOf(elems, n) \in Nat
  BY <1>2, <1>3 DEF IndexOf, FrontSize
<1>6. /\ Get(n) = <<elems[2][IndexOf(elems, n) + 1]>>
      /\ IndexOf(elems, n) < Len(elems[2])
  BY <1>1, <1>4, <1>5 DEF Get
<1>7. elems[2][IndexOf(elems, n) + 1] = DefaultPacket
  BY <1>1, <1>5, <1>6 DEF FrontHolds
<1>. QED
  BY <1>6, <1>7

(* A packet sent is found under its number.                                *)
LEMMA GetSent ==
  ASSUME TypeOK, FrontHolds, StartsInFirstTrunk, NEW i \in 1..Len(transmitted)
  PROVE  Get(FirstPacket + i - 1) = <<transmitted[i]>>
<1>. DEFINE n == FirstPacket + i - 1
<1>1. /\ Len(transmitted) \in Nat /\ FirstPacket \in Nat \ {0} /\ TrunkSize \in Nat
      /\ Len(elems[1]) = TrunkSize + Len(transmitted)
  BY SenderAssumption, TrunkAssumption DEF TypeOK, FrontHolds
<1>2. n \in Nat /\ n < Len(elems[1]) /\ n + 1 \in 1..Len(elems[1])
      /\ (n + 1) - FirstPacket = i
  BY <1>1 DEF StartsInFirstTrunk
<1>3. elems[1][n + 1] = transmitted[i]
  BY <1>2 DEF FrontHolds
<1>. HIDE DEF n
<1>. QED
  BY <1>2, <1>3, GetInFront DEF n

LEMMA SentNumber ==
  ASSUME TypeOK, Numbered, NEW i \in 1..Len(transmitted)
  PROVE  transmitted[i].seq_no = FirstPacket + i - 1 /\ i \in 1..Len(submitted)
<1>1. transmitted \in Seq(PacketType) /\ pkts_buffer \in Seq(PacketType)
  BY DEF TypeOK
<1>2. /\ i \in 1..Len(submitted)
      /\ submitted[i] = transmitted[i]
  <2>1. /\ Len(transmitted \o pkts_buffer) = Len(transmitted) + Len(pkts_buffer)
        /\ Len(transmitted) \in Nat /\ Len(pkts_buffer) \in Nat
    BY <1>1, ConcatProperties
  <2>2. (transmitted \o pkts_buffer)[i] = transmitted[i]
    BY <1>1, <2>1, ConcatProperties
  <2>. QED  BY <2>1, <2>2 DEF Numbered
<1>. QED
  BY <1>2 DEF Numbered

LEMMA EmplacedInFront ==
  ASSUME TypeOK, FrontHolds, StartsInFirstTrunk, NEW packet,
         NEW n, n = FirstPacket + Len(transmitted)
  PROVE  Emplaced(n, packet) = [elems EXCEPT ![1] = InsertAt(@, n + 1, packet)]
<1>1. /\ Len(transmitted) \in Nat /\ FirstPacket \in Nat \ {0} /\ TrunkSize \in Nat
      /\ Len(elems[1]) = TrunkSize + Len(transmitted)
      /\ Len(elems) = 2
  BY SenderAssumption, TrunkAssumption DEF TypeOK, FrontHolds, kDefaultTrunkSize
<1>2. n \in Nat /\ n < Len(elems[1]) /\ Len(elems[1]) \in Nat
  BY <1>1 DEF StartsInFirstTrunk
<1>3. Allocated(elems, n) = elems
  BY <1>1, <1>2 DEF Allocated, BeyondAllocated, FrontSize
<1>4. TrunkOf(elems, n) = 1 /\ IndexOf(elems, n) = n
  BY <1>2 DEF TrunkOf, IndexOf, FrontSize
<1>5. ~ (TrunkOf(elems, n) > Len(elems))
  BY <1>1, <1>4
<1>6. Emplaced(n, packet) =
        [elems EXCEPT ![TrunkOf(elems, n)] =
                        InsertAt(@, IndexOf(elems, n) + 1, packet)]
  BY <1>3, <1>5, Zenon DEF Emplaced
<1>. QED
  BY <1>4, <1>6, Zenon

-----------------------------------------------------------------------------
(* The sums of sizes, of packets and of what is found under numbers, are   *)
(* sums of weights.                                                        *)
LEMMA BytesIsTotal ==
  ASSUME NEW T, IsFiniteSet(T)
  PROVE  Bytes(T) = Total([p \in T |-> p.size], T)
<1>. DEFINE w == [p \in T |-> p.size]
            Sums(g) == g = [s \in SUBSET T |->
                              IF s = {} THEN 0 ELSE Pick(s).size + g[s \ {Pick(s)}]]
            iter == CHOOSE g : Sums(g)
<1>1. Bytes(T) = iter[T]
  BY DEF Bytes, MapThenSumSet, MapThenFoldSet, Pick
<1>2. \A s \in SUBSET T : s # {} => Pick(s) \in T
  BY DEF Pick
<1>3. PICK g : SumsUp(g, w, T) /\ \A s \in SUBSET T : g[s] = Total(w, s)
  BY TotalFunction
<1>4. \A s \in SUBSET T : s # {} => w[Pick(s)] = Pick(s).size
  BY <1>2
<1>. HIDE DEF w
<1>5. \A h : Sums(h) <=> SumsUp(h, w, T)
  BY <1>4 DEF SumsUp
<1>6. SumsUp(iter, w, T)
  <2>1. \E h : Sums(h)
    BY <1>3, <1>5
  <2>. HIDE DEF Sums
  <2>2. Sums(iter)
    BY <2>1, Zenon
  <2>. QED  BY <1>5, <2>2, Zenon
<1>7. iter[T] = g[T]
  <2>. HIDE DEF iter
  <2>. QED  BY <1>3, <1>6, SumsAgree
<1>. QED
  BY <1>1, <1>3, <1>7 DEF w

FoundBytes(N) == MapThenSumSet(LAMBDA n : Get(n)[1].size, N)

LEMMA FoundBytesIsTotal ==
  ASSUME NEW T, IsFiniteSet(T)
  PROVE  FoundBytes(T) = Total([n \in T |-> Get(n)[1].size], T)
<1>. DEFINE w == [n \in T |-> Get(n)[1].size]
            Sums(g) == g = [s \in SUBSET T |->
                              IF s = {} THEN 0 ELSE Get(Pick(s))[1].size + g[s \ {Pick(s)}]]
            iter == CHOOSE g : Sums(g)
<1>1. FoundBytes(T) = iter[T]
  BY DEF FoundBytes, MapThenSumSet, MapThenFoldSet, Pick
<1>2. \A s \in SUBSET T : s # {} => Pick(s) \in T
  BY DEF Pick
<1>3. PICK g : SumsUp(g, w, T) /\ \A s \in SUBSET T : g[s] = Total(w, s)
  BY TotalFunction
<1>4. \A s \in SUBSET T : s # {} => w[Pick(s)] = Get(Pick(s))[1].size
  BY <1>2
<1>. HIDE DEF w
<1>5. \A h : Sums(h) <=> SumsUp(h, w, T)
  BY <1>4 DEF SumsUp
<1>6. SumsUp(iter, w, T)
  <2>1. \E h : Sums(h)
    BY <1>3, <1>5
  <2>. HIDE DEF Sums
  <2>2. Sums(iter)
    BY <2>1, Zenon
  <2>. QED  BY <1>5, <2>2, Zenon
<1>7. iter[T] = g[T]
  <2>. HIDE DEF iter
  <2>. QED  BY <1>3, <1>6, SumsAgree
<1>. QED
  BY <1>1, <1>3, <1>7 DEF w

LEMMA CellSizes == \A p \in Cells : p.size \in Nat /\ p.seq_no \in Nat
<1>1. \A p \in PacketType : p.size \in Nat /\ p.seq_no \in Nat
  <2>1. Sizes \subseteq Nat /\ FirstPacket..LastPacket \subseteq Nat
    BY SenderAssumption
  <2>. QED  BY <2>1 DEF PacketType
<1>2. DefaultPacket.size = 0 /\ DefaultPacket.seq_no = 0
  BY DEF DefaultPacket, Packet
<1>. QED
  BY <1>1, <1>2 DEF Cells

LEMMA BytesType ==
  ASSUME NEW T \in SUBSET Cells, IsFiniteSet(T)
  PROVE  Bytes(T) \in Nat
<1>. DEFINE w == [p \in T |-> p.size]
<1>1. \A p \in T : w[p] \in Nat
  BY CellSizes
<1>2. Total(w, T) \in Nat
  <2>. HIDE DEF w
  <2>. QED  BY <1>1, TotalNat
<1>. QED
  BY <1>2, BytesIsTotal

LEMMA FoundBytesType ==
  ASSUME NEW N, IsFiniteSet(N), \A n \in N : Get(n)[1] \in Cells
  PROVE  FoundBytes(N) \in Int
<1>. DEFINE w == [n \in N |-> Get(n)[1].size]
<1>1. Weights(w, N)
  BY CellSizes DEF Weights
<1>2. Total(w, N) \in Int
  <2>. HIDE DEF w
  <2>. QED  BY <1>1, TotalType
<1>. QED
  BY <1>2, FoundBytesIsTotal

-----------------------------------------------------------------------------
(* A packet outstanding was sent under its number and is found there.      *)
LEMMA OutstandingFound ==
  ASSUME SenderInv, StartsInFirstTrunk, NEW p \in outstanding
  PROVE  Get(p.seq_no) = <<p>> /\ Found(p.seq_no) = {p}
<1>1. PICK i \in 1..Len(transmitted) : p = transmitted[i]
  BY DEF SenderInv, OutstandingSent
<1>2. p.seq_no = FirstPacket + i - 1
  BY <1>1, SentNumber DEF SenderInv
<1>3. Get(p.seq_no) = <<p>>
  BY <1>1, <1>2, GetSent DEF SenderInv
<1>. QED
  BY <1>3 DEF Found

(* So the bytes reported lost are the sizes of the lost packets.           *)
LEMMA LostAreFound ==
  ASSUME SenderInv, StartsInFirstTrunk, NEW lost \in SUBSET outstanding
  PROVE  LostBytes(lost) = Bytes(lost) /\ LostBytes(lost) \in Int
<1>1. UNION {Found(p.seq_no) : p \in lost} = lost
  <2>1. \A p \in lost : Found(p.seq_no) = {p}
    BY OutstandingFound
  <2>. QED  BY <2>1
<1>2. IsFiniteSet(lost) /\ lost \in SUBSET Cells
  <2>1. IsFiniteSet(outstanding) /\ outstanding \subseteq PacketType
    BY DEF SenderInv, TypeOK, OutstandingSent
  <2>. QED  BY <2>1, FS_Subset DEF Cells
<1>. QED
  BY <1>1, <1>2, BytesType DEF LostBytes

LEMMA WidthPositive == SizeModulus \in Nat \ {0}
<1>1. PICK c \in Cwnds : TRUE
  BY SenderAssumption
<1>. QED
  BY <1>1, SenderAssumption

LEMMA SubtractType ==
  ASSUME TypeOK, NEW lost_bytes \in Int, NEW acked_bytes \in Int,
         Subtract(lost_bytes, acked_bytes)
  PROVE  bytes_inflight' \in 0..(SizeModulus - 1) /\ assert_failed' \in BOOLEAN
<1>. DEFINE rest == (bytes_inflight - lost_bytes) % SizeModulus
<1>1. SizeModulus \in Nat \ {0}
  BY WidthPositive
<1>2. bytes_inflight - lost_bytes \in Int
  BY DEF TypeOK
<1>3. rest - acked_bytes \in Int
  BY <1>1, <1>2, ModRange
<1>4. (rest - acked_bytes) % SizeModulus \in 0..(SizeModulus - 1)
  <2>. HIDE DEF rest
  <2>. QED  BY <1>1, <1>3, ModRange
<1>5. bytes_inflight' = (rest - acked_bytes) % SizeModulus
  BY DEF Subtract
<1>6. assert_failed' \in BOOLEAN
  BY DEF Subtract
<1>. QED
  BY <1>4, <1>5, <1>6

LEMMA VerdictOutstanding ==
  \A named : \A lost \in LossVerdict(named) : lost \in SUBSET outstanding
BY DEF LossVerdict

(* send_pkt for the packet whose turn it is.                               *)
LEMMA SendPktKeeps ==
  ASSUME SenderInv, StartsInFirstTrunk, NEW packet \in PacketType,
         packet.seq_no = FirstPacket + Len(transmitted), SendPkt(packet)
  PROVE  /\ FrontHolds' /\ OutstandingSent'
         /\ bytes_inflight' \in 0..(SizeModulus - 1)
         /\ transmitted' \in Seq(PacketType)
         /\ outstanding' \subseteq PacketType
<1>. DEFINE n == packet.seq_no
            L == Len(transmitted)
<1>1. /\ transmitted \in Seq(PacketType) /\ L \in Nat
      /\ transmitted' = Append(transmitted, packet)
      /\ transmitted' \in Seq(PacketType) /\ Len(transmitted') = L + 1
      /\ \A i \in 1..L : transmitted'[i] = transmitted[i]
      /\ transmitted'[L + 1] = packet
  BY AppendProperties DEF SenderInv, TypeOK, SendPkt
<1>2. /\ Len(elems) = 2 /\ elems \in Seq(Seq(Cells))
      /\ elems[1] \in Seq(Cells) /\ Len(elems[1]) \in Nat
      /\ Len(elems[1]) = TrunkSize + L
      /\ FirstPacket \in Nat \ {0} /\ TrunkSize \in Nat /\ FirstPacket < TrunkSize
  BY FrontTyped, SenderAssumption, TrunkAssumption DEF SenderInv, StartsInFirstTrunk
<1>3. n = FirstPacket + L /\ n + 1 \in 1..(Len(elems[1]) + 1) /\ packet \in Cells
  BY <1>1, <1>2 DEF Cells
<1>. DEFINE front == InsertAt(elems[1], n + 1, packet)
<1>4. elems' = [elems EXCEPT ![1] = front]
  BY EmplacedInFront DEF SendPkt, SenderInv
<1>5. /\ front \in Seq(Cells) /\ Len(front) = Len(elems[1]) + 1
      /\ \A j \in 1..(Len(elems[1]) + 1) :
           front[j] = IF j < n + 1 THEN elems[1][j]
                      ELSE IF j = n + 1 THEN packet ELSE elems[1][j - 1]
  <2>. DEFINE m   == n + 1
              old == elems[1]
  <2>1. old \in Seq(Cells) /\ m \in 1..(Len(old) + 1) /\ packet \in Cells
    BY <1>2, <1>3
  <2>. HIDE DEF m, old
  <2>2. /\ InsertAt(old, m, packet) \in Seq(Cells)
        /\ Len(InsertAt(old, m, packet)) = Len(old) + 1
        /\ \A j \in 1..(Len(old) + 1) :
             InsertAt(old, m, packet)[j] =
               IF j < m THEN old[j] ELSE IF j = m THEN packet ELSE old[j - 1]
    BY <2>1, InsertAtProperties
  <2>. QED  BY <2>2 DEF m, old
<1>. HIDE DEF front
<1>6. /\ elems' \in Seq(Seq(Cells)) /\ Len(elems') = 2
      /\ elems'[1] = front /\ elems'[2] = elems[2]
  <2>1. elems' \in Seq(Seq(Cells)) /\ Len(elems') = Len(elems)
    BY <1>2, <1>4, <1>5, ExceptSeq
  <2>2. 1 \in DOMAIN elems /\ 2 \in DOMAIN elems
    BY <1>2
  <2>. QED  BY <1>2, <1>4, <2>1, <2>2
<1>7. \A j \in 1..Len(elems[1]) :
        elems[1][j] = IF j - FirstPacket \in 1..L
                        THEN transmitted[j - FirstPacket] ELSE DefaultPacket
  BY DEF SenderInv, FrontHolds
<1>8. ASSUME NEW j \in 1..(Len(elems[1]) + 1)
      PROVE  front[j] = IF j - FirstPacket \in 1..(L + 1)
                          THEN transmitted'[j - FirstPacket] ELSE DefaultPacket
  <2>. HIDE DEF n, L
  <2>1. CASE j < n + 1
    <3>1. j \in 1..Len(elems[1]) /\ j - FirstPacket < L + 1
      BY <1>1, <1>2, <1>3, <2>1
    <3>2. front[j] = elems[1][j]
      BY <1>5, <2>1
    <3>3. CASE j - FirstPacket \in 1..L
      BY <1>1, <1>7, <3>1, <3>2, <3>3
    <3>4. CASE j - FirstPacket \notin 1..L
      BY <1>1, <1>2, <1>7, <3>1, <3>2, <3>4
    <3>. QED  BY <3>3, <3>4
  <2>2. CASE j = n + 1
    <3>1. j - FirstPacket = L + 1
      BY <1>1, <1>2, <1>3, <2>2
    <3>2. front[j] = packet
      BY <1>5, <2>2
    <3>. QED  BY <1>1, <3>1, <3>2
  <2>3. CASE j > n + 1
    <3>1. j - 1 \in 1..Len(elems[1]) /\ (j - 1) - FirstPacket > L
      BY <1>1, <1>2, <1>3, <2>3
    <3>2. front[j] = elems[1][j - 1]
      BY <1>3, <1>5, <2>3
    <3>3. elems[1][j - 1] = DefaultPacket
      BY <1>1, <1>7, <3>1
    <3>. QED  BY <1>1, <1>2, <3>1, <3>2, <3>3
  <2>4. j \in Nat /\ n \in Nat
    BY <1>1, <1>2, <1>3
  <2>. QED  BY <2>1, <2>2, <2>3, <2>4
<1>9. FrontHolds'
  <2>1. Len(elems'[1]) = TrunkSize + Len(transmitted')
    BY <1>1, <1>2, <1>5, <1>6
  <2>2. \A j \in 1..Len(elems'[1]) :
          elems'[1][j] = IF j - FirstPacket \in 1..Len(transmitted')
                           THEN transmitted'[j - FirstPacket] ELSE DefaultPacket
    BY <1>1, <1>5, <1>6, <1>8
  <2>3. \A j \in 1..Len(elems'[2]) : elems'[2][j] = DefaultPacket
    BY <1>6 DEF SenderInv, FrontHolds
  <2>. QED  BY <1>6, <2>1, <2>2, <2>3 DEF FrontHolds, kDefaultTrunkSize
<1>10. OutstandingSent'
  <2>1. outstanding' = outstanding \union {packet}
    BY DEF SendPkt
  <2>2. IsFiniteSet(outstanding')
    BY <2>1, FS_AddElement DEF SenderInv, OutstandingSent
  <2>3. ASSUME NEW p \in outstanding'
        PROVE  \E i \in 1..Len(transmitted') : p = transmitted'[i]
    <3>1. CASE p = packet
      BY <1>1, <3>1
    <3>2. CASE p \in outstanding
      <4>1. PICK i \in 1..L : p = transmitted[i]
        BY <3>2 DEF SenderInv, OutstandingSent
      <4>. QED  BY <1>1, <4>1
    <3>. QED  BY <2>1, <3>1, <3>2
  <2>. QED  BY <2>2, <2>3 DEF OutstandingSent
<1>11. bytes_inflight' \in 0..(SizeModulus - 1)
  <2>1. bytes_inflight + packet.size \in Int
    BY <1>3, CellSizes DEF SenderInv, TypeOK
  <2>. QED  BY <2>1, WidthPositive, ModRange DEF SendPkt
<1>12. outstanding' \subseteq PacketType
  BY DEF SendPkt, SenderInv, TypeOK
<1>. QED
  BY <1>1, <1>9, <1>10, <1>11, <1>12
-----------------------------------------------------------------------------
LEMMA QueueGrows ==
  ASSUME TypeOK, Numbered, NEW packet \in PacketType
  PROVE  Append(submitted, packet) = transmitted \o Append(pkts_buffer, packet)
<1>. DEFINE S == PacketType
            t == transmitted
            b == pkts_buffer
<1>1. t \in Seq(S) /\ b \in Seq(S) /\ <<packet>> \in Seq(S) /\ submitted = t \o b
  BY DEF TypeOK, Numbered
<1>. HIDE DEF S, t, b
<1>2. t \o b \in Seq(S) /\ packet \in S
  BY <1>1, ConcatProperties DEF S
<1>3. Append(t \o b, packet) = (t \o b) \o <<packet>> /\ Append(b, packet) = b \o <<packet>>
  BY <1>1, <1>2, AppendIsConcat
<1>4. (t \o b) \o <<packet>> = t \o (b \o <<packet>>)
  BY <1>1, ConcatAssociative
<1>. QED
  BY <1>1, <1>3, <1>4, Zenon DEF t, b

LEMMA HeadMoves ==
  ASSUME NEW S, NEW t \in Seq(S), NEW b \in Seq(S), b # <<>>
  PROVE  /\ Head(b) \in S /\ Tail(b) \in Seq(S)
         /\ Append(t, Head(b)) \o Tail(b) = t \o b
         /\ Len(t) + 1 \in 1..Len(t \o b) /\ (t \o b)[Len(t) + 1] = Head(b)
         /\ Len(b) \in Nat \ {0}
<1>1. /\ Head(b) \in S /\ Tail(b) \in Seq(S) /\ Head(b) = b[1]
      /\ Len(b) \in Nat \ {0} /\ Len(t) \in Nat
  BY HeadTailProperties, EmptySeq
<1>2. <<Head(b)>> \o Tail(b) = b
  <2>. DEFINE h == Head(b)
              r == Tail(b)
  <2>1. /\ <<h>> \in Seq(S) /\ Len(<<h>>) = 1 /\ <<h>>[1] = h
        /\ r \in Seq(S) /\ Len(r) = Len(b) - 1
        /\ \A i \in 1..Len(r) : r[i] = b[i + 1]
    BY <1>1, HeadTailProperties
  <2>. HIDE DEF h, r
  <2>2. /\ <<h>> \o r \in Seq(S) /\ Len(<<h>> \o r) = Len(b)
        /\ \A i \in 1..Len(b) : (<<h>> \o r)[i] = IF i <= 1 THEN <<h>>[i] ELSE r[i - 1]
    BY <1>1, <2>1, ConcatProperties
  <2>3. \A i \in 1..Len(b) : (<<h>> \o r)[i] = b[i]
    BY <1>1, <2>1, <2>2 DEF h
  <2>4. <<h>> \o r = b
    BY <2>2, <2>3, SeqEqual
  <2>. QED  BY <2>4 DEF h, r
<1>3. Append(t, Head(b)) \o Tail(b) = t \o (<<Head(b)>> \o Tail(b))
  <2>1. Append(t, Head(b)) = t \o <<Head(b)>> /\ <<Head(b)>> \in Seq(S)
    BY <1>1, AppendIsConcat
  <2>. DEFINE h == <<Head(b)>>
              r == Tail(b)
  <2>2. h \in Seq(S) /\ r \in Seq(S)
    BY <1>1, <2>1
  <2>. HIDE DEF h, r
  <2>3. (t \o h) \o r = t \o (h \o r)
    BY <2>2, ConcatAssociative
  <2>. QED  BY <2>1, <2>3, Zenon DEF h, r
<1>4. Len(t) + 1 \in 1..Len(t \o b) /\ (t \o b)[Len(t) + 1] = b[1]
  <2>1. Len(t \o b) = Len(t) + Len(b)
    BY ConcatProperties
  <2>2. Len(t) + 1 \in 1..(Len(t) + Len(b))
    BY <1>1
  <2>3. (t \o b)[Len(t) + 1] = IF Len(t) + 1 <= Len(t) THEN t[Len(t) + 1]
                               ELSE b[(Len(t) + 1) - Len(t)]
    BY <2>2, ConcatProperties
  <2>. QED  BY <1>1, <2>1, <2>2, <2>3
<1>. QED
  BY <1>1, <1>2, <1>3, <1>4

LEMMA FirstOfQueue ==
  ASSUME NEW S, NEW b \in Seq(S), b # <<>>
  PROVE  /\ 1 \in 1..Len(b) /\ SubSeq(b, 1, 1) = <<Head(b)>>
         /\ SubSeq(b, 1 + 1, Len(b)) = Tail(b)
<1>1. /\ Len(b) \in Nat \ {0} /\ \A i \in 1..Len(b) : b[i] \in S
      /\ Head(b) = b[1] /\ Tail(b) \in Seq(S) /\ Len(Tail(b)) = Len(b) - 1
      /\ \A i \in 1..Len(Tail(b)) : Tail(b)[i] = b[i + 1]
  BY ElementOfSeq, HeadTailProperties, EmptySeq
<1>2. SubSeq(b, 1, 1) = <<Head(b)>>
  <2>1. /\ SubSeq(b, 1, 1) \in Seq(S) /\ Len(SubSeq(b, 1, 1)) = 1
        /\ SubSeq(b, 1, 1)[1] = b[1]
    BY <1>1, SubSeqProperties
  <2>. DEFINE one == <<Head(b)>>
              first == SubSeq(b, 1, 1)
  <2>2. one \in Seq(S) /\ Len(one) = 1 /\ one[1] = b[1]
    BY <1>1
  <2>3. first \in Seq(S) /\ Len(first) = 1 /\ first[1] = b[1]
    BY <2>1
  <2>. HIDE DEF one, first
  <2>4. \A i \in 1..1 : first[i] = one[i]
    BY <2>2, <2>3
  <2>. QED  BY <2>2, <2>3, <2>4, SeqEqual DEF one, first
<1>3. SubSeq(b, 2, Len(b)) = Tail(b)
  <2>. DEFINE n == Len(b)
              rest == SubSeq(b, 2, n)
              tail == Tail(b)
  <2>1. /\ rest \in Seq(S) /\ Len(rest) = n - 1
        /\ \A i \in 1..(n - 1) : rest[i] = b[2 + i - 1]
    <3>1. 2 <= n + 1 /\ n \in Nat /\ \A i \in 2..n : b[i] \in S
      BY <1>1
    <3>2. CASE 2 <= n
      BY <1>1, <3>1, <3>2, SubSeqProperties
    <3>3. CASE 2 > n
      BY <1>1, <3>1, <3>3, SubSeqProperties
    <3>. QED  BY <3>1, <3>2, <3>3
  <2>2. tail \in Seq(S) /\ Len(tail) = n - 1 /\ n \in Nat
        /\ \A i \in 1..(n - 1) : tail[i] = b[i + 1]
    BY <1>1
  <2>. HIDE DEF rest, tail, n
  <2>3. \A i \in 1..(n - 1) : rest[i] = tail[i]
    BY <2>1, <2>2
  <2>. QED  BY <2>1, <2>2, <2>3, SeqEqual DEF rest, tail, n
<1>. QED
  BY <1>1, <1>2, <1>3

-----------------------------------------------------------------------------
LEMMA SubmittedLength ==
  ASSUME TypeOK, Numbered
  PROVE  /\ Len(submitted) = Len(transmitted) + Len(pkts_buffer)
         /\ Len(submitted) \in Nat /\ Len(transmitted) \in Nat /\ Len(pkts_buffer) \in Nat
BY ConcatProperties DEF TypeOK, Numbered

LEMMA EmptySubmitted ==
  ASSUME TypeOK, Numbered, pkts_buffer = <<>>
  PROVE  submitted = transmitted
BY ConcatEmptySeq DEF TypeOK, Numbered

LEMMA ActionSend ==
  ASSUME SenderInv, StartsInFirstTrunk, NEW size \in Sizes, SendOrQueued(size)
  PROVE  SenderInv' /\ (Queue!Next \/ UNCHANGED Queue!fifoVars)
<1>. DEFINE packet == Packet(NextNumber, size)
<1>1. /\ TypeOK /\ FrontHolds /\ Numbered /\ OutstandingSent /\ QueueWaitsForWindow
      /\ phase = "idle" /\ submitted' = Append(submitted, packet)
      /\ UNCHANGED <<cur_cwnd, phase, reported, assert_failed, acknowledged, recounted>>
  BY DEF SenderInv, SendOrQueued, ackVars
<1>2. /\ packet \in PacketType /\ packet.seq_no = FirstPacket + Len(submitted)
      /\ Len(submitted) \in Nat
  <2>1. Len(submitted) \in Nat /\ NextNumber <= LastPacket
    BY <1>1, SubmittedLength DEF SendOrQueued
  <2>2. NextNumber \in FirstPacket..LastPacket
    BY <2>1, SenderAssumption DEF NextNumber
  <2>. QED  BY <2>1, <2>2 DEF Packet, PacketType, NextNumber
<1>. HIDE DEF packet
<1>3. /\ submitted' \in Seq(PacketType) /\ Len(submitted') = Len(submitted) + 1
      /\ \A i \in 1..Len(submitted) : submitted'[i] = submitted[i]
      /\ submitted'[Len(submitted) + 1] = packet
  BY <1>1, <1>2, AppendProperties DEF TypeOK
<1>4. \A i \in 1..Len(submitted') : submitted'[i].seq_no = FirstPacket + i - 1
  <2>1. ASSUME NEW i \in 1..Len(submitted')
        PROVE  submitted'[i].seq_no = FirstPacket + i - 1
    <3>1. CASE i \in 1..Len(submitted)
      BY <1>1, <1>3, <3>1 DEF Numbered
    <3>2. CASE i = Len(submitted) + 1
      BY <1>2, <1>3, <3>2, SenderAssumption
    <3>. QED  BY <1>2, <1>3, <3>1, <3>2
  <2>. QED  BY <2>1
<1>5. CASE CanSend
  <2>1. SendPkt(packet) /\ pkts_buffer' = pkts_buffer
    BY <1>5 DEF SendOrQueued, packet
  <2>2. pkts_buffer = <<>>
    BY <1>1, <1>5 DEF QueueWaitsForWindow
  <2>3. submitted = transmitted
    BY <1>1, <2>2, EmptySubmitted
  <2>4. /\ FrontHolds' /\ OutstandingSent'
        /\ bytes_inflight' \in 0..(SizeModulus - 1)
        /\ transmitted' \in Seq(PacketType)
        /\ outstanding' \subseteq PacketType
    BY <1>2, <2>1, <2>3, SendPktKeeps
  <2>5. transmitted' = Append(transmitted, packet)
    BY <2>1 DEF SendPkt
  <2>6. Numbered'
    <3>1. transmitted' \o pkts_buffer' = transmitted'
      BY <2>1, <2>2, <2>4, ConcatEmptySeq
    <3>. QED  BY <1>1, <1>4, <2>3, <2>5, <3>1 DEF Numbered
  <2>7. TypeOK'
    <3>1. \A t \in DOMAIN elems' : elems'[t] \in Seq(Cells)
      BY <2>4 DEF FrontHolds
    <3>. QED  BY <1>1, <1>3, <2>1, <2>4, <3>1 DEF TypeOK, Cells
  <2>8. QueueWaitsForWindow'
    BY <2>1, <2>2 DEF QueueWaitsForWindow
  <2>9. Queue!Forward
    BY <1>1, <1>2, <2>1, <2>2, <2>5 DEF Queue!Forward
  <2>. QED  BY <2>4, <2>6, <2>7, <2>8, <2>9 DEF SenderInv, Queue!Next
<1>6. CASE ~ CanSend
  <2>1. /\ pkts_buffer' = Append(pkts_buffer, packet)
        /\ UNCHANGED <<elems, bytes_inflight, transmitted, outstanding>>
    BY <1>6 DEF SendOrQueued, packet
  <2>2. pkts_buffer' \in Seq(PacketType)
    BY <1>1, <1>2, <2>1, AppendProperties DEF TypeOK
  <2>3. TypeOK'
    BY <1>1, <1>3, <2>1, <2>2 DEF TypeOK
  <2>4. Numbered'
    <3>1. submitted' = transmitted \o pkts_buffer'
      BY <1>1, <1>2, <2>1, QueueGrows
    <3>. QED  BY <1>4, <2>1, <3>1 DEF Numbered
  <2>5. FrontHolds' /\ OutstandingSent'
    BY <1>1, <2>1 DEF FrontHolds, OutstandingSent
  <2>6. QueueWaitsForWindow'
    BY <1>1, <1>6, <2>1 DEF QueueWaitsForWindow, CanSend
  <2>7. Queue!Accept
    BY <1>1, <1>2, <2>1 DEF Queue!Accept
  <2>. QED  BY <2>3, <2>4, <2>5, <2>6, <2>7 DEF SenderInv, Queue!Next
<1>. QED
  BY <1>5, <1>6

LEMMA ActionDrainOne ==
  ASSUME SenderInv, StartsInFirstTrunk, DrainOne
  PROVE  SenderInv' /\ (Queue!Next \/ UNCHANGED Queue!fifoVars)
<1>. DEFINE packet == Head(pkts_buffer)
<1>1. /\ TypeOK /\ FrontHolds /\ Numbered /\ OutstandingSent
      /\ phase = "draining" /\ pkts_buffer # <<>>
      /\ pkts_buffer' = Tail(pkts_buffer) /\ SendPkt(packet)
      /\ UNCHANGED <<cur_cwnd, phase, reported, assert_failed, submitted,
                     acknowledged, recounted>>
      /\ transmitted' = Append(transmitted, packet)
  BY DEF SenderInv, DrainOne, SendPkt, ackVars
<1>2. /\ packet \in PacketType /\ pkts_buffer' \in Seq(PacketType)
      /\ transmitted' \o pkts_buffer' = submitted
      /\ Len(transmitted) + 1 \in 1..Len(submitted)
      /\ submitted[Len(transmitted) + 1] = packet
      /\ Len(pkts_buffer) \in Nat \ {0}
  BY <1>1, HeadMoves DEF TypeOK, Numbered
<1>3. packet.seq_no = FirstPacket + Len(transmitted)
  <2>1. packet.seq_no = FirstPacket + (Len(transmitted) + 1) - 1
    BY <1>1, <1>2 DEF Numbered
  <2>2. Len(transmitted) \in Nat /\ FirstPacket \in Nat
    BY <1>1, SenderAssumption DEF TypeOK
  <2>. QED  BY <2>1, <2>2
<1>4. /\ FrontHolds' /\ OutstandingSent'
      /\ bytes_inflight' \in 0..(SizeModulus - 1)
      /\ transmitted' \in Seq(PacketType)
      /\ outstanding' \subseteq PacketType
  BY <1>1, <1>2, <1>3, SendPktKeeps
<1>5. Numbered'
  BY <1>1, <1>2 DEF Numbered
<1>6. TypeOK'
  <2>1. \A t \in DOMAIN elems' : elems'[t] \in Seq(Cells)
    BY <1>4 DEF FrontHolds
  <2>. QED  BY <1>1, <1>2, <1>4, <2>1 DEF TypeOK, Cells
<1>7. QueueWaitsForWindow'
  BY <1>1 DEF QueueWaitsForWindow
<1>8. Queue!Deliver
  <2>1. /\ 1 \in 1..Len(pkts_buffer)
        /\ SubSeq(pkts_buffer, 1, 1) = <<packet>>
        /\ SubSeq(pkts_buffer, 1 + 1, Len(pkts_buffer)) = Tail(pkts_buffer)
    BY <1>1, <1>2, FirstOfQueue DEF TypeOK
  <2>2. Append(transmitted, packet) = transmitted \o <<packet>>
    BY <1>1, <1>2, AppendIsConcat DEF TypeOK
  <2>. QED  BY <1>1, <2>1, <2>2 DEF Queue!Deliver
<1>. QED
  BY <1>4, <1>5, <1>6, <1>7, <1>8 DEF SenderInv, Queue!Next
-----------------------------------------------------------------------------
(* What every handler of an acknowledgement leaves alone.                  *)
LEMMA AckKeeps ==
  ASSUME SenderInv, UNCHANGED <<elems, pkts_buffer, submitted, transmitted>>,
         outstanding' \in SUBSET outstanding,
         acknowledged' \in SUBSET Nat, recounted' \in Nat,
         bytes_inflight' \in 0..(SizeModulus - 1), assert_failed' \in BOOLEAN,
         cur_cwnd' \in Cwnds, phase' \in {"idle", "draining"}
  PROVE  /\ TypeOK' /\ FrontHolds' /\ Numbered' /\ OutstandingSent'
         /\ UNCHANGED Queue!fifoVars
<1>1. TypeOK'
  BY DEF SenderInv, TypeOK
<1>2. FrontHolds' /\ Numbered'
  BY DEF SenderInv, FrontHolds, Numbered
<1>3. OutstandingSent'
  BY FS_Subset DEF SenderInv, OutstandingSent
<1>4. UNCHANGED Queue!fifoVars
  BY DEF Queue!fifoVars
<1>. QED
  BY <1>1, <1>2, <1>3, <1>4

LEMMA FoundTyped ==
  ASSUME SenderInv, NEW n \in Nat
  PROVE  Found(n) \subseteq Cells
BY GetInFront DEF SenderInv, Found

LEMMA FiniteImage ==
  ASSUME NEW S, IsFiniteSet(S), NEW f
  PROVE  IsFiniteSet({f[x] : x \in S})
<1>. DEFINE T == {f[x] : x \in S}
            g == [x \in S |-> f[x]]
<1>1. g \in Surjection(S, T)
  BY DEF Surjection
<1>. HIDE DEF g, T
<1>2. IsFiniteSet(T)
  BY <1>1, FS_Surjection
<1>. QED
  BY <1>2 DEF T

(* What was sent under some numbers are finitely many packets.             *)
LEMMA SentAsTyped ==
  ASSUME SenderInv, NEW named
  PROVE  /\ SentAs(named) \in SUBSET PacketType /\ SentAs(named) \in SUBSET Cells
         /\ IsFiniteSet(SentAs(named))
         /\ IsFiniteSet(SentAs(named) \ outstanding)
         /\ Bytes(SentAs(named) \ outstanding) \in Nat
<1>. DEFINE all == {transmitted[i] : i \in 1..Len(transmitted)}
<1>1. transmitted \in Seq(PacketType) /\ Len(transmitted) \in Nat
      /\ DOMAIN transmitted = 1..Len(transmitted)
  BY DEF SenderInv, TypeOK
<1>2. IsFiniteSet(1..Len(transmitted))
  BY <1>1, FS_Interval
<1>3. IsFiniteSet(all)
  BY <1>2, FiniteImage
<1>4. SentAs(named) \subseteq all /\ SentAs(named) \subseteq PacketType
  BY <1>1 DEF SentAs
<1>5. IsFiniteSet(SentAs(named)) /\ IsFiniteSet(SentAs(named) \ outstanding)
  <2>. HIDE DEF all
  <2>. QED  BY <1>3, <1>4, FS_Subset
<1>6. SentAs(named) \ outstanding \in SUBSET Cells
  BY <1>4 DEF Cells
<1>. QED
  BY <1>4, <1>5, <1>6, BytesType DEF Cells

LEMMA AcknowledgedType ==
  ASSUME SenderInv, NEW named \in SUBSET Nat, NEW lost, Acknowledged(named, lost)
  PROVE  /\ outstanding' \in SUBSET outstanding
         /\ acknowledged' \in SUBSET Nat /\ recounted' \in Nat
<1>1. Bytes(SentAs(named) \ outstanding) \in Nat
  BY SentAsTyped
<1>2. acknowledged \subseteq Nat /\ recounted \in Nat
  BY DEF SenderInv, TypeOK
<1>. QED
  BY <1>1, <1>2 DEF Acknowledged

LEMMA ActionPktAck ==
  ASSUME SenderInv, StartsInFirstTrunk, NEW n \in Nat, OnPktAck(n)
  PROVE  SenderInv' /\ (Queue!Next \/ UNCHANGED Queue!fifoVars)
<1>1. PICK lost \in LossVerdict({n}), p \in Found(n) :
        /\ Subtract(LostBytes(lost), p.size)
        /\ CongestionEvent({n}, {p}, lost)
        /\ Acknowledged({n}, lost)
  BY DEF OnPktAck
<1>2. /\ UNCHANGED <<elems, pkts_buffer, submitted, transmitted>>
      /\ phase' = "draining"
  BY DEF OnPktAck
<1>3. LostBytes(lost) \in Int
  BY VerdictOutstanding, LostAreFound
<1>4. p.size \in Int
  BY FoundTyped, CellSizes
<1>5. bytes_inflight' \in 0..(SizeModulus - 1) /\ assert_failed' \in BOOLEAN
  BY <1>1, <1>3, <1>4, SubtractType DEF SenderInv
<1>6. /\ cur_cwnd' \in Cwnds /\ outstanding' \in SUBSET outstanding
      /\ acknowledged' \in SUBSET Nat /\ recounted' \in Nat
  BY <1>1, AcknowledgedType DEF CongestionEvent
<1>7. QueueWaitsForWindow'
  BY <1>2 DEF QueueWaitsForWindow
<1>. QED
  BY <1>2, <1>5, <1>6, <1>7, AckKeeps DEF SenderInv

LEMMA ActionPktsAck ==
  ASSUME SenderInv, StartsInFirstTrunk, NEW named \in SUBSET Nat,
         IsFiniteSet(named), OnPktsAck(named)
  PROVE  SenderInv' /\ (Queue!Next \/ UNCHANGED Queue!fifoVars)
<1>. DEFINE hits == {n \in named : Get(n) # <<>>}
<1>1. PICK lost \in LossVerdict(named) :
        /\ Subtract(LostBytes(lost), FoundBytes(hits))
        /\ CongestionEvent(named, {Get(n)[1] : n \in hits}, lost)
        /\ Acknowledged(named, lost)
  BY DEF OnPktsAck, FoundBytes
<1>2. /\ UNCHANGED <<elems, pkts_buffer, submitted, transmitted>>
      /\ phase' = "draining"
  BY DEF OnPktsAck
<1>3. LostBytes(lost) \in Int
  BY VerdictOutstanding, LostAreFound
<1>4. FoundBytes(hits) \in Int
  <2>1. IsFiniteSet(hits)
    BY FS_Subset
  <2>2. \A n \in hits : Get(n)[1] \in Cells
    BY GetInFront DEF SenderInv
  <2>. HIDE DEF hits
  <2>. QED  BY <2>1, <2>2, FoundBytesType
<1>5. bytes_inflight' \in 0..(SizeModulus - 1) /\ assert_failed' \in BOOLEAN
  BY <1>1, <1>3, <1>4, SubtractType DEF SenderInv
<1>6. /\ cur_cwnd' \in Cwnds /\ outstanding' \in SUBSET outstanding
      /\ acknowledged' \in SUBSET Nat /\ recounted' \in Nat
  BY <1>1, AcknowledgedType DEF CongestionEvent
<1>7. QueueWaitsForWindow'
  BY <1>2 DEF QueueWaitsForWindow
<1>. QED
  BY <1>2, <1>5, <1>6, <1>7, AckKeeps DEF SenderInv

(* The early return of on_pkt_ack takes no lost packets with it: a packet  *)
(* that is outstanding would have been found under its number.             *)
LEMMA UnknownLosesNone ==
  ASSUME SenderInv, StartsInFirstTrunk, NEW n,
         \A p \in Found(n) : p.seq_no # n, NEW lost \in LossVerdict({n})
  PROVE  lost = {}
<1>1. \A q \in outstanding : q.seq_no # n
  BY OutstandingFound
<1>. QED
  BY <1>1 DEF LossVerdict

LEMMA NoBytes == LostBytes({}) = 0 /\ Bytes({}) = 0
<1>1. Bytes({}) = 0
  BY FS_EmptySet, BytesIsTotal, TotalOfNone
<1>2. LostBytes({}) = Bytes({})
  BY DEF LostBytes
<1>. QED
  BY <1>1, <1>2

LEMMA ActionUnknown ==
  ASSUME SenderInv, StartsInFirstTrunk, NEW n \in Nat, OnUnknownPktAck(n)
  PROVE  /\ SenderInv' /\ (Queue!Next \/ UNCHANGED Queue!fifoVars)
         /\ bytes_inflight' = bytes_inflight /\ outstanding' = outstanding
         /\ assert_failed' = assert_failed /\ recounted' = recounted
<1>1. PICK lost \in LossVerdict({n}) :
        /\ Subtract(LostBytes(lost), 0)
        /\ Acknowledged({}, lost)
  BY DEF OnUnknownPktAck
<1>2. /\ UNCHANGED <<elems, pkts_buffer, cur_cwnd, phase, submitted, transmitted>>
      /\ \A p \in Found(n) : p.seq_no # n
  BY DEF OnUnknownPktAck
<1>3. lost = {}
  BY <1>2, UnknownLosesNone
<1>4. /\ Subtract(0, 0) /\ outstanding' = outstanding
      /\ acknowledged' = acknowledged /\ recounted' = recounted
  <2>1. SentAs({}) = {}
    BY DEF SentAs
  <2>2. /\ Subtract(0, 0) /\ outstanding' = outstanding
        /\ acknowledged' = acknowledged /\ recounted' = recounted + 0
    BY <1>1, <1>3, <2>1, NoBytes DEF Acknowledged
  <2>3. recounted \in Nat
    BY DEF SenderInv, TypeOK
  <2>. QED  BY <2>2, <2>3
<1>5. bytes_inflight' = bytes_inflight /\ assert_failed' = assert_failed
  <2>1. bytes_inflight \in 0..(SizeModulus - 1) /\ assert_failed \in BOOLEAN
    BY DEF SenderInv, TypeOK
  <2>2. (bytes_inflight - 0) % SizeModulus = bytes_inflight
    BY <2>1, WidthPositive, ModRange
  <2>3. bytes_inflight' = bytes_inflight
    BY <1>4, <2>1, <2>2 DEF Subtract
  <2>4. assert_failed' = (assert_failed \/ bytes_inflight < 0 \/ bytes_inflight < 0)
    BY <1>4, <2>2 DEF Subtract
  <2>5. ~ (bytes_inflight < 0)
    BY <2>1, WidthPositive
  <2>. QED  BY <2>1, <2>3, <2>4, <2>5
<1>6. QueueWaitsForWindow'
  BY <1>2, <1>5 DEF SenderInv, QueueWaitsForWindow, CanSend
<1>7. TypeOK' /\ FrontHolds' /\ Numbered' /\ OutstandingSent' /\ UNCHANGED Queue!fifoVars
  <2>1. bytes_inflight \in 0..(SizeModulus - 1) /\ assert_failed \in BOOLEAN
        /\ cur_cwnd \in Cwnds /\ phase \in {"idle", "draining"}
        /\ acknowledged \in SUBSET Nat /\ recounted \in Nat
    BY DEF SenderInv, TypeOK
  <2>. QED  BY <1>2, <1>4, <1>5, <2>1, AckKeeps
<1>. QED
  BY <1>4, <1>5, <1>6, <1>7 DEF SenderInv

LEMMA ActionDrainDone ==
  ASSUME SenderInv, DrainDone
  PROVE  SenderInv' /\ UNCHANGED Queue!fifoVars
<1>1. /\ UNCHANGED <<elems, bytes_inflight, pkts_buffer, cur_cwnd, assert_failed,
                     submitted, transmitted, outstanding, acknowledged, recounted>>
      /\ phase' = "idle" /\ ~ (pkts_buffer # <<>> /\ CanSend)
  BY DEF DrainDone, ackVars
<1>2. TypeOK' /\ FrontHolds' /\ Numbered' /\ OutstandingSent' /\ UNCHANGED Queue!fifoVars
  <2>1. bytes_inflight \in 0..(SizeModulus - 1) /\ assert_failed \in BOOLEAN
        /\ cur_cwnd \in Cwnds /\ acknowledged \in SUBSET Nat /\ recounted \in Nat
    BY DEF SenderInv, TypeOK
  <2>. QED  BY <1>1, <2>1, AckKeeps
<1>3. QueueWaitsForWindow'
  BY <1>1 DEF QueueWaitsForWindow, CanSend
<1>. QED
  BY <1>2, <1>3 DEF SenderInv

LEMMA AckableNat ==
  ASSUME SenderInv, NEW fakes
  PROVE  Ackable(fakes) \subseteq Nat /\ IsFiniteSet(Ackable(fakes))
<1>1. transmitted \in Seq(PacketType) /\ Len(transmitted) \in Nat
      /\ DOMAIN transmitted = 1..Len(transmitted)
  BY DEF SenderInv, TypeOK
<1>2. Sent \subseteq Nat
  <2>1. \A i \in DOMAIN transmitted : transmitted[i] \in PacketType
    BY <1>1
  <2>. QED  BY <2>1, CellSizes DEF Sent, Cells
<1>3. IsFiniteSet(Sent)
  <2>1. IsFiniteSet(1..Len(transmitted))
    BY <1>1, FS_Interval
  <2>. DEFINE f == [i \in 1..Len(transmitted) |-> transmitted[i].seq_no]
  <2>2. Sent = {f[i] : i \in 1..Len(transmitted)}
    BY <1>1 DEF Sent
  <2>. HIDE DEF f
  <2>. QED  BY <2>1, <2>2, FiniteImage
<1>4. Unsent \subseteq Nat /\ IsFiniteSet(Unsent)
  <2>1. IsFiniteSet(0..(LastPacket + 1)) /\ 0..(LastPacket + 1) \subseteq Nat
    BY SenderAssumption, FS_Interval
  <2>. QED  BY <2>1, FS_Subset DEF Unsent
<1>. DEFINE some == IF Duplicates THEN Sent ELSE Sent \ acknowledged
            more == IF fakes THEN Unsent ELSE {}
<1>5. some \subseteq Nat /\ IsFiniteSet(some)
  BY <1>2, <1>3, FS_Subset
<1>6. more \subseteq Nat /\ IsFiniteSet(more)
  BY <1>4, FS_EmptySet
<1>7. Ackable(fakes) = some \union more
  BY DEF Ackable
<1>. HIDE DEF some, more
<1>. QED
  BY <1>5, <1>6, <1>7, FS_Union

LEMMA SenderInit == Init => SenderInv /\ Queue!Init
<1>. SUFFICES ASSUME Init PROVE SenderInv /\ Queue!Init
  OBVIOUS
<1>. DEFINE empty == EmptyTrunk(TrunkSize)
<1>1. /\ pkts_buffer = <<>> /\ submitted = <<>> /\ transmitted = <<>>
      /\ outstanding = {} /\ acknowledged = {} /\ recounted = 0
      /\ bytes_inflight = 0 /\ cur_cwnd \in Cwnds
      /\ phase = "idle" /\ assert_failed = FALSE
      /\ elems = [i \in 1..2 |-> empty]
  BY DEF Init, BufferInit, kDefaultTrunkSize
<1>2. /\ empty \in Seq(Cells) /\ Len(empty) = TrunkSize
      /\ \A j \in 1..TrunkSize : empty[j] = DefaultPacket
  BY TrunkAssumption DEF EmptyTrunk, Cells
<1>. HIDE DEF empty
<1>3. elems \in Seq(Seq(Cells)) /\ Len(elems) = 2 /\ elems[1] = empty /\ elems[2] = empty
      /\ DOMAIN elems = 1..2
  BY <1>1, <1>2
<1>4. TypeOK
  <2>1. \A t \in DOMAIN elems : elems[t] \in Seq(PacketType \union {DefaultPacket})
    BY <1>1, <1>2 DEF Cells
  <2>2. bytes_inflight \in 0..(SizeModulus - 1)
    BY <1>1, WidthPositive
  <2>. QED  BY <1>1, <2>1, <2>2, EmptySeq DEF TypeOK
<1>5. FrontHolds
  BY <1>1, <1>2, <1>3, TrunkAssumption DEF FrontHolds, kDefaultTrunkSize
<1>6. Numbered
  BY <1>1 DEF Numbered
<1>7. OutstandingSent
  BY <1>1, FS_EmptySet DEF OutstandingSent
<1>8. QueueWaitsForWindow
  BY <1>1 DEF QueueWaitsForWindow
<1>9. Queue!Init
  BY <1>1 DEF Queue!Init
<1>. QED
  BY <1>4, <1>5, <1>6, <1>7, <1>8, <1>9 DEF SenderInv

LEMMA SenderNext ==
  ASSUME SenderInv, StartsInFirstTrunk, [Next]_vars
  PROVE  SenderInv' /\ (Queue!Next \/ UNCHANGED Queue!fifoVars)
<1>1. CASE \E size \in Sizes : SendOrQueued(size)
  BY <1>1, ActionSend
<1>2. CASE \E n \in Ackable(FakeAcks) : OnPktAck(n)
  BY <1>2, AckableNat, ActionPktAck
<1>3. CASE \E named \in SUBSET Ackable(FakeTrunks) : named # {} /\ OnPktsAck(named)
  <2>1. PICK named \in SUBSET Ackable(FakeTrunks) : OnPktsAck(named)
    BY <1>3
  <2>2. named \in SUBSET Nat /\ IsFiniteSet(named)
    BY AckableNat, FS_Subset
  <2>. QED  BY <2>1, <2>2, ActionPktsAck
<1>4. CASE \E n \in Ackable(FakeAcks) : OnUnknownPktAck(n)
  BY <1>4, AckableNat, ActionUnknown
<1>5. CASE DrainOne
  BY <1>5, ActionDrainOne
<1>6. CASE DrainDone
  BY <1>6, ActionDrainDone
<1>7. CASE UNCHANGED vars
  <2>1. UNCHANGED <<elems, bytes_inflight, pkts_buffer, cur_cwnd, phase, assert_failed,
                    submitted, transmitted, outstanding, acknowledged, recounted>>
    BY <1>7 DEF vars, ackVars
  <2>2. TypeOK' /\ FrontHolds' /\ Numbered' /\ OutstandingSent' /\ UNCHANGED Queue!fifoVars
    <3>1. bytes_inflight \in 0..(SizeModulus - 1) /\ assert_failed \in BOOLEAN
          /\ cur_cwnd \in Cwnds /\ phase \in {"idle", "draining"}
          /\ acknowledged \in SUBSET Nat /\ recounted \in Nat
      BY DEF SenderInv, TypeOK
    <3>. QED  BY <2>1, <3>1, AckKeeps
  <2>3. QueueWaitsForWindow'
    BY <2>1 DEF SenderInv, QueueWaitsForWindow, CanSend
  <2>. QED  BY <2>2, <2>3 DEF SenderInv
<1>. QED
  BY <1>1, <1>2, <1>3, <1>4, <1>5, <1>6, <1>7 DEF Next, Ack

(* The sender's invariant holds in every reachable state, whatever sizes,  *)
(* windows and acknowledgements come, repeated and unknown ones among      *)
(* them.                                                                   *)
THEOREM SenderInvariant == ASSUME StartsInFirstTrunk PROVE Spec => []SenderInv
<1>1. Init => SenderInv
  BY SenderInit
<1>2. SenderInv /\ [Next]_vars => SenderInv'
  BY SenderNext
<1>. QED
  BY <1>1, <1>2, PTL DEF Spec

(* Every variable of the sender and its history keeps its type; the        *)
(* unsigned bytes_inflight_ wraps within its width (bbr_sender.cpp:53, 61, *)
(* 85, 107).                                                               *)
THEOREM SenderTypeCorrect == ASSUME StartsInFirstTrunk PROVE Spec => []TypeOK
<1>1. SenderInv => TypeOK
  BY DEF SenderInv
<1>. QED
  BY <1>1, SenderInvariant, PTL

(* No handler leaves a packet queued that the window has room for:         *)
(* pkts_buffer_ is not empty only where can_send says no                   *)
(* (bbr_sender.cpp:15-23, 115-121).                                        *)
THEOREM QueueWaits == ASSUME StartsInFirstTrunk PROVE Spec => []QueueWaitsForWindow
<1>1. SenderInv => QueueWaitsForWindow
  BY DEF SenderInv
<1>. QED
  BY <1>1, SenderInvariant, PTL

(* However far its trunk has grown, the history finds a packet again under *)
(* its number as long as its acknowledgement is awaited                    *)
(* (circular_buffer.h:46-68, 108-119).                                     *)
THEOREM HistoryComplete == ASSUME StartsInFirstTrunk PROVE Spec => []HistoryHoldsUnacked
<1>1. SenderInv => HistoryHoldsUnacked
  BY OutstandingFound DEF HistoryHoldsUnacked
<1>. QED
  BY <1>1, SenderInvariant, PTL

(* The sender is a queue: packets go out in the order they were handed     *)
(* over, each once and none overtaking one that waits, whichever handler   *)
(* sends them (bbr_sender.cpp:15-36, 115-121).                             *)
THEOREM SenderImplementsQueue == ASSUME StartsInFirstTrunk PROVE Spec => QueueIsFifo
<1>1. Init => Queue!Init
  BY SenderInit
<1>2. SenderInv /\ [Next]_vars => [Queue!Next]_(Queue!fifoVars)
  BY SenderNext
<1>. QED
  BY <1>1, <1>2, SenderInvariant, PTL DEF Spec, QueueIsFifo, Queue!Spec
-----------------------------------------------------------------------------
(* The bytes in flight.                                                    *)

Weight == [p \in Cells |-> p.size]

LEMMA BytesWeight ==
  ASSUME NEW T \in SUBSET Cells, IsFiniteSet(T)
  PROVE  Bytes(T) = Total(Weight, T) /\ \A p \in T : Weight[p] = p.size /\ Weight[p] \in Nat
<1>. DEFINE v == [p \in T |-> p.size]
<1>1. \A p \in T : Weight[p] = v[p] /\ Weight[p] = p.size /\ Weight[p] \in Nat
  BY CellSizes DEF Weight
<1>2. Bytes(T) = Total(v, T)
  BY BytesIsTotal
<1>. HIDE DEF v
<1>. QED
  BY <1>1, <1>2, TotalCongruent

LEMMA BytesSplit ==
  ASSUME NEW S \in SUBSET Cells, IsFiniteSet(S), NEW T \in SUBSET S
  PROVE  /\ Bytes(S \ T) = Bytes(S) - Bytes(T)
         /\ Bytes(T) <= Bytes(S) /\ Bytes(S) \in Nat /\ Bytes(T) \in Nat
<1>1. IsFiniteSet(T) /\ IsFiniteSet(S \ T)
  BY FS_Subset
<1>2. /\ Bytes(S) = Total(Weight, S) /\ Bytes(T) = Total(Weight, T)
      /\ Bytes(S \ T) = Total(Weight, S \ T)
      /\ \A p \in S : Weight[p] \in Nat
  BY <1>1, BytesWeight
<1>3. Total(Weight, S \ T) = Total(Weight, S) - Total(Weight, T)
  BY <1>2, TotalSplit DEF Weights
<1>. QED
  BY <1>2, <1>3, TotalMonotone

LEMMA BytesWith ==
  ASSUME NEW S \in SUBSET Cells, IsFiniteSet(S), NEW p \in Cells, p \notin S
  PROVE  Bytes(S \union {p}) = Bytes(S) + p.size
<1>1. IsFiniteSet(S \union {p})
  BY FS_AddElement
<1>2. /\ Bytes(S) = Total(Weight, S) /\ Bytes(S \union {p}) = Total(Weight, S \union {p})
      /\ \A q \in S \union {p} : Weight[q] = q.size /\ Weight[q] \in Nat
  BY <1>1, BytesWeight
<1>3. Weights(Weight, S \union {p})
  BY <1>2 DEF Weights
<1>4. Total(Weight, S \union {p}) = Total(Weight, S) + Weight[p]
  BY <1>3, TotalWith
<1>. QED
  BY <1>2, <1>4

LEMMA BytesOne == ASSUME NEW p \in Cells PROVE Bytes({p}) = p.size
<1>1. Bytes({} \union {p}) = Bytes({}) + p.size
  BY FS_EmptySet, BytesWith
<1>2. {} \union {p} = {p}
  OBVIOUS
<1>. QED
  BY <1>1, <1>2, NoBytes, CellSizes

LEMMA OutstandingTyped ==
  ASSUME SenderInv
  PROVE  outstanding \in SUBSET Cells /\ outstanding \in SUBSET PacketType
         /\ IsFiniteSet(outstanding)
BY DEF SenderInv, TypeOK, OutstandingSent, Cells

(* The sizes found under the numbers of outstanding packets are theirs.    *)
(* A packet sent is found under its number, acknowledged or not.           *)
LEMMA SentFound ==
  ASSUME SenderInv, StartsInFirstTrunk, NEW named, NEW p \in SentAs(named)
  PROVE  Get(p.seq_no) = <<p>> /\ Found(p.seq_no) = {p} /\ p.seq_no \in named
<1>1. PICK i \in DOMAIN transmitted : p = transmitted[i] /\ p.seq_no \in named
  BY DEF SentAs
<1>2. i \in 1..Len(transmitted)
  BY DEF SenderInv, TypeOK
<1>3. p.seq_no = FirstPacket + i - 1
  BY <1>1, <1>2, SentNumber DEF SenderInv
<1>4. Get(p.seq_no) = <<p>>
  BY <1>1, <1>2, <1>3, GetSent DEF SenderInv
<1>. QED
  BY <1>1, <1>4 DEF Found

(* The sizes found under the numbers of sent packets are theirs.           *)
LEMMA FoundAreTheirs ==
  ASSUME SenderInv, StartsInFirstTrunk, NEW named, NEW P, P = SentAs(named)
  PROVE  FoundBytes({p.seq_no : p \in P}) = Bytes(P)
<1>. DEFINE f == [p \in P |-> p.seq_no]
            N == {f[p] : p \in P}
            w == [n \in N |-> Get(n)[1].size]
            v == [p \in P |-> w[f[p]]]
            u == [p \in P |-> p.size]
<1>1. IsFiniteSet(P) /\ P \in SUBSET Cells
  BY SentAsTyped
<1>2. \A p \in P : Get(f[p]) = <<p>>
  BY SentFound
<1>3. \A p, q \in P : f[p] = f[q] => p = q
  BY <1>2
<1>4. \A p \in P : w[f[p]] = p.size /\ w[f[p]] \in Int
  BY <1>1, <1>2, CellSizes
<1>5. N = {p.seq_no : p \in P}
  OBVIOUS
<1>6. IsFiniteSet(N)
  <2>. HIDE DEF f
  <2>. QED  BY <1>1, FiniteImage
<1>7. FoundBytes(N) = Total(w, N)
  BY <1>6, FoundBytesIsTotal
<1>8. Total(w, N) = Total(v, P)
  <2>. HIDE DEF w, f
  <2>. QED  BY <1>1, <1>3, <1>4, TotalReindexed
<1>9. Total(v, P) = Total(u, P)
  <2>1. \A p \in P : v[p] = u[p]
    BY <1>4
  <2>. HIDE DEF v, u
  <2>. QED  BY <1>1, <2>1, TotalCongruent
<1>10. Bytes(P) = Total(u, P)
  BY <1>1, BytesIsTotal
<1>. QED
  BY <1>5, <1>7, <1>8, <1>9, <1>10

LEMMA SubtractExact ==
  ASSUME TypeOK, ~ assert_failed, NEW a \in Nat, NEW b \in Nat,
         a + b <= bytes_inflight, Subtract(a, b)
  PROVE  bytes_inflight' = bytes_inflight - a - b /\ ~ assert_failed'
<1>1. bytes_inflight \in 0..(SizeModulus - 1) /\ SizeModulus \in Nat \ {0}
  BY WidthPositive DEF TypeOK
<1>2. bytes_inflight - a \in 0..(SizeModulus - 1)
  BY <1>1
<1>3. (bytes_inflight - a) % SizeModulus = bytes_inflight - a
  <2>. DEFINE r == bytes_inflight - a
  <2>. HIDE DEF r
  <2>1. r % SizeModulus = r
    BY <1>1, <1>2, ModSmall DEF r
  <2>. QED  BY <2>1 DEF r
<1>4. bytes_inflight - a - b \in 0..(SizeModulus - 1)
  BY <1>1
<1>5. (bytes_inflight - a - b) % SizeModulus = bytes_inflight - a - b
  <2>. DEFINE r == bytes_inflight - a - b
  <2>1. r \in 0..(SizeModulus - 1)
    BY <1>4
  <2>. HIDE DEF r
  <2>2. r % SizeModulus = r
    BY <1>1, <2>1, ModSmall
  <2>. QED  BY <2>2 DEF r
<1>6. bytes_inflight' = bytes_inflight - a - b
  BY <1>3, <1>5 DEF Subtract
<1>7. ~ (bytes_inflight < a) /\ ~ (bytes_inflight - a < b)
  BY <1>1
<1>8. ~ assert_failed'
  BY <1>3, <1>7 DEF Subtract
<1>. QED
  BY <1>6, <1>8

(* What a handler of an acknowledgement does to the count: the lost        *)
(* packets and those named leave it, and of the latter the ones that are   *)
(* not outstanding leave it a second time.                                 *)
LEMMA ExactAck ==
  ASSUME SenderInv, InflightExact, NEW lost \in SUBSET outstanding, NEW named,
         lost \intersect SentAs(named) = {}, Acknowledged(named, lost),
         Subtract(Bytes(lost), Bytes(SentAs(named)))
  PROVE  InflightExact'
<1>. DEFINE P == SentAs(named)
            again == P \ outstanding
            acked == P \ again
            gone  == lost \union acked
            M == SizeModulus
<1>1. /\ M \in Nat \ {0} /\ bytes_inflight \in Int /\ recounted \in Nat
      /\ TypeOK /\ outstanding \in SUBSET Cells /\ IsFiniteSet(outstanding)
  BY WidthPositive, OutstandingTyped DEF SenderInv, TypeOK
<1>2. P \in SUBSET Cells /\ IsFiniteSet(P) /\ again \in SUBSET P
  BY SentAsTyped
<1>3. /\ gone \in SUBSET outstanding /\ outstanding' = outstanding \ gone
      /\ lost \in SUBSET gone /\ acked = gone \ lost
      /\ recounted' = recounted + Bytes(again)
  BY DEF Acknowledged
<1>. HIDE DEF gone, acked, again, P, M
<1>4. Bytes(acked) = Bytes(P) - Bytes(again) /\ Bytes(P) \in Nat /\ Bytes(again) \in Nat
  BY <1>2, BytesSplit DEF acked
<1>5. /\ Bytes(outstanding \ gone) = Bytes(outstanding) - Bytes(gone)
      /\ Bytes(gone) <= Bytes(outstanding) /\ Bytes(outstanding) \in Nat
  BY <1>1, <1>3, BytesSplit
<1>6. /\ Bytes(acked) = Bytes(gone) - Bytes(lost)
      /\ Bytes(gone) \in Nat /\ Bytes(lost) \in Nat /\ Bytes(lost) <= Bytes(gone)
  <2>1. gone \in SUBSET Cells /\ IsFiniteSet(gone)
    BY <1>1, <1>3, FS_Subset
  <2>. QED  BY <1>3, <2>1, BytesSplit
<1>. DEFINE O == Bytes(outstanding)
            L == Bytes(lost)
            N == Bytes(P)
            G == Bytes(gone)
            A == Bytes(again)
            left == O - G
<1>7. /\ O \in Nat /\ L \in Nat /\ N \in Nat /\ G \in Nat /\ A \in Nat
      /\ Bytes(outstanding') = left /\ G <= O /\ L <= G /\ G - L = N - A
      /\ recounted' = recounted + A
      /\ Subtract(L, N)
  BY <1>3, <1>4, <1>5, <1>6 DEF P
<1>8. /\ recounted = 0 => bytes_inflight = O /\ ~ assert_failed
      /\ bytes_inflight = (O - recounted) % M
  BY DEF InflightExact, M
<1>. HIDE DEF O, L, N, G, A
<1>9. bytes_inflight' = (left - recounted') % M
  <2>. DEFINE r == (bytes_inflight - L) % M
  <2>1. bytes_inflight' = (r - N) % M
    BY <1>7 DEF Subtract, M
  <2>2. r = ((O - recounted) + (0 - L)) % M
    <3>. DEFINE c == O - recounted
                d == 0 - L
    <3>1. c \in Int /\ d \in Int /\ bytes_inflight = c % M
      BY <1>1, <1>7, <1>8
    <3>2. bytes_inflight - L = bytes_inflight + d
      BY <1>1, <1>7
    <3>. HIDE DEF c, d
    <3>3. ((c % M) + d) % M = (c + d) % M
      BY <1>1, <3>1, ModFirst
    <3>4. r = ((c % M) + d) % M
      BY <3>1, <3>2
    <3>. QED  BY <3>3, <3>4 DEF c, d
  <2>. DEFINE e == (O - recounted) + (0 - L)
              f == 0 - N
  <2>3. e \in Int /\ f \in Int /\ r = e % M /\ r \in Int
    <3>1. e \in Int /\ f \in Int
      BY <1>1, <1>7
    <3>. HIDE DEF e
    <3>2. e % M \in Int
      BY <1>1, <3>1, ModRest
    <3>. QED  BY <2>2, <3>1, <3>2 DEF e
  <2>. HIDE DEF r
  <2>4. r - N = r + f
    BY <1>7, <2>3
  <2>5. e + f = left - recounted'
    BY <1>1, <1>7
  <2>. HIDE DEF e, f
  <2>6. ((e % M) + f) % M = (e + f) % M
    BY <1>1, <2>3, ModFirst
  <2>. HIDE DEF left
  <2>. QED  BY <2>1, <2>3, <2>4, <2>5, <2>6
<1>10. ASSUME recounted' = 0
       PROVE  bytes_inflight' = left /\ ~ assert_failed'
  <2>1. recounted = 0 /\ A = 0
    BY <1>1, <1>7, <1>10
  <2>2. /\ bytes_inflight = O /\ ~ assert_failed
        /\ L + N <= bytes_inflight /\ bytes_inflight - L - N = left
    BY <1>7, <1>8, <2>1
  <2>3. bytes_inflight' = bytes_inflight - L - N /\ ~ assert_failed'
    BY <1>1, <1>7, <2>2, SubtractExact
  <2>. QED  BY <2>2, <2>3
<1>. QED
  BY <1>7, <1>9, <1>10 DEF InflightExact, M

(* A window and one packet more fit a size_t.                              *)
WindowsFit == \A c \in Cwnds, s \in Sizes : c + s <= SizeModulus

LEMMA ExactSend ==
  ASSUME SenderInv, StartsInFirstTrunk, WindowsFit, InflightExact, CanSend,
         NEW packet \in PacketType, packet.seq_no = FirstPacket + Len(transmitted),
         SendPkt(packet), assert_failed' = assert_failed, recounted' = recounted
  PROVE  InflightExact'
<1>1. packet \notin outstanding
  <2>1. ASSUME packet \in outstanding PROVE FALSE
    <3>1. PICK i \in 1..Len(transmitted) : packet = transmitted[i]
      BY <2>1 DEF SenderInv, OutstandingSent
    <3>2. packet.seq_no = FirstPacket + i - 1
      BY <3>1, SentNumber DEF SenderInv
    <3>3. Len(transmitted) \in Nat /\ FirstPacket \in Nat
      BY SenderAssumption DEF SenderInv, TypeOK
    <3>. QED  BY <3>2, <3>3
  <2>. QED  BY <2>1
<1>2. Bytes(outstanding \union {packet}) = Bytes(outstanding) + packet.size
  BY <1>1, OutstandingTyped, BytesWith DEF Cells
<1>3. bytes_inflight + packet.size \in 0..(SizeModulus - 1)
  <2>1. /\ bytes_inflight \in Nat /\ cur_cwnd \in Cwnds /\ cur_cwnd \in Nat
        /\ packet.size \in Sizes /\ packet.size \in Nat /\ SizeModulus \in Nat
    <3>1. bytes_inflight \in 0..(SizeModulus - 1) /\ cur_cwnd \in Cwnds
      BY DEF SenderInv, TypeOK
    <3>2. packet.size \in Sizes
      BY DEF PacketType
    <3>3. Cwnds \subseteq Nat /\ Sizes \subseteq Nat /\ SizeModulus \in Nat
      BY SenderAssumption
    <3>4. bytes_inflight \in Nat
      BY <3>1, <3>3
    <3>. QED  BY <3>1, <3>2, <3>3, <3>4, Zenon
  <2>2. bytes_inflight < cur_cwnd /\ cur_cwnd + packet.size <= SizeModulus
    BY <2>1 DEF CanSend, WindowsFit
  <2>. QED  BY <2>1, <2>2
<1>4. bytes_inflight' = bytes_inflight + packet.size
  <2>. DEFINE r == bytes_inflight + packet.size
  <2>1. r \in 0..(SizeModulus - 1)
    BY <1>3
  <2>2. bytes_inflight' = r % SizeModulus
    BY DEF SendPkt
  <2>. HIDE DEF r
  <2>3. r % SizeModulus = r
    BY <2>1, WidthPositive, ModSmall
  <2>. QED  BY <2>2, <2>3 DEF r
<1>5. Bytes(outstanding') = Bytes(outstanding) + packet.size
  BY <1>2 DEF SendPkt
<1>6. /\ Bytes(outstanding) \in Nat /\ packet.size \in Nat /\ recounted \in Nat
      /\ SizeModulus \in Nat \ {0}
  BY OutstandingTyped, BytesType, CellSizes, WidthPositive DEF SenderInv, TypeOK, Cells
<1>7. bytes_inflight' = (Bytes(outstanding') - recounted') % SizeModulus
  <2>. DEFINE c == Bytes(outstanding) - recounted
              d == packet.size
  <2>1. c \in Int /\ d \in Int /\ Bytes(outstanding') - recounted' = c + d
    BY <1>5, <1>6
  <2>2. bytes_inflight = c % SizeModulus /\ bytes_inflight' = (bytes_inflight + d) % SizeModulus
    BY DEF InflightExact, SendPkt
  <2>. HIDE DEF c, d
  <2>3. ((c % SizeModulus) + d) % SizeModulus = (c + d) % SizeModulus
    BY <1>6, <2>1, ModFirst
  <2>. QED  BY <2>1, <2>2, <2>3
<1>8. recounted' = 0 => bytes_inflight' = Bytes(outstanding') /\ ~ assert_failed'
  BY <1>4, <1>5 DEF InflightExact
<1>. QED
  BY <1>7, <1>8 DEF InflightExact

(* A number that was not sent finds nothing, or the packet of a cell never *)
(* filled.                                                                 *)
LEMMA UnsentFound ==
  ASSUME SenderInv, StartsInFirstTrunk, NEW n \in Nat, n \notin Sent, NEW p \in Found(n)
  PROVE  p = DefaultPacket
<1>1. /\ Len(elems) = 2 /\ Len(elems[1]) \in Nat \ {0} /\ Len(elems[2]) \in Nat
      /\ Len(transmitted) \in Nat /\ FirstPacket \in Nat
      /\ TypeOK /\ FrontHolds /\ Numbered
  BY FrontTyped, SenderAssumption DEF SenderInv
<1>2. Get(n) # <<>> /\ p = Get(n)[1]
  BY DEF Found
<1>3. CASE n < Len(elems[1])
  <2>1. p = elems[1][n + 1] /\ n + 1 \in 1..Len(elems[1])
    BY <1>1, <1>2, <1>3, GetInFront
  <2>2. (n + 1) - FirstPacket \notin 1..Len(transmitted)
    <3>1. SUFFICES ASSUME NEW i \in 1..Len(transmitted), (n + 1) - FirstPacket = i
                   PROVE  n \in Sent
      BY <1>1
    <3>2. transmitted[i].seq_no = n
      <4>1. transmitted[i].seq_no = FirstPacket + i - 1
        BY <1>1, SentNumber
      <4>. QED  BY <1>1, <3>1, <4>1
    <3>3. i \in DOMAIN transmitted
      BY <1>1 DEF TypeOK
    <3>. QED  BY <3>2, <3>3 DEF Sent
  <2>. QED  BY <2>1, <2>2 DEF SenderInv, FrontHolds
<1>4. CASE n >= Len(elems[1])
  BY <1>1, <1>2, <1>4, GetBehind
<1>. QED
  BY <1>1, <1>3, <1>4

(* No packet named by an acknowledgement is declared lost by it.           *)
LEMMA LostUnnamed ==
  ASSUME SenderInv, StartsInFirstTrunk, NEW named, NEW lost \in LossVerdict(named)
  PROVE  lost \intersect SentAs(named) = {}
<1>1. \A p \in lost : p.seq_no \notin named
  BY DEF LossVerdict
<1>2. \A p \in SentAs(named) : p.seq_no \in named
  BY SentFound
<1>. QED
  BY <1>1, <1>2

LEMMA ExactPktAck ==
  ASSUME SenderInv, StartsInFirstTrunk, InflightExact,
         NEW n \in Nat, OnPktAck(n)
  PROVE  InflightExact'
<1>1. PICK lost \in LossVerdict({n}), p \in Found(n) :
        /\ p.seq_no = n
        /\ Subtract(LostBytes(lost), p.size)
        /\ Acknowledged({n}, lost)
  BY DEF OnPktAck
<1>2. lost \in SUBSET outstanding /\ LostBytes(lost) = Bytes(lost)
  BY VerdictOutstanding, LostAreFound
<1>3. Bytes(SentAs({n})) = p.size
  <2>1. CASE n \in Sent
    <3>1. PICK i \in DOMAIN transmitted : transmitted[i].seq_no = n
      BY <2>1 DEF Sent
    <3>2. transmitted[i] \in SentAs({n})
      BY <3>1 DEF SentAs
    <3>3. \A q \in SentAs({n}) : q = p
      BY <1>1, SentFound
    <3>4. SentAs({n}) = {p} /\ p \in Cells
      BY <3>2, <3>3, SentAsTyped
    <3>. QED  BY <3>4, BytesOne
  <2>2. CASE n \notin Sent
    <3>1. p.size = 0
      BY <2>2, UnsentFound DEF DefaultPacket, Packet
    <3>2. SentAs({n}) = {}
      BY <2>2 DEF SentAs, Sent
    <3>. QED  BY <3>1, <3>2, NoBytes
  <2>. QED  BY <2>1, <2>2
<1>. QED
  BY <1>1, <1>2, <1>3, LostUnnamed, ExactAck

LEMMA ExactPktsAck ==
  ASSUME SenderInv, StartsInFirstTrunk, InflightExact,
         NEW named \in SUBSET Sent, OnPktsAck(named)
  PROVE  InflightExact'
<1>. DEFINE hits == {n \in named : Get(n) # <<>>}
            P == SentAs(named)
<1>1. PICK lost \in LossVerdict(named) :
        /\ Subtract(LostBytes(lost), FoundBytes(hits))
        /\ Acknowledged(named, lost)
  BY DEF OnPktsAck, FoundBytes
<1>2. lost \in SUBSET outstanding /\ LostBytes(lost) = Bytes(lost)
  BY VerdictOutstanding, LostAreFound
<1>3. hits = {p.seq_no : p \in P}
  <2>1. \A n \in named : \E p \in P : n = p.seq_no
    BY DEF Sent, SentAs
  <2>2. \A p \in P : p.seq_no \in hits
    BY SentFound
  <2>. QED  BY <2>1, <2>2
<1>4. FoundBytes(hits) = Bytes(P)
  <2>1. P = SentAs(named)
    OBVIOUS
  <2>. HIDE DEF P, hits
  <2>. QED  BY <1>3, <2>1, FoundAreTheirs
<1>. QED
  BY <1>1, <1>2, <1>4, LostUnnamed, ExactAck

LEMMA ExactNext ==
  ASSUME SenderInv, StartsInFirstTrunk, WindowsFit, ~ FakeTrunks,
         InflightExact, [Next]_vars
  PROVE  InflightExact'
<1>1. ASSUME NEW size \in Sizes, SendOrQueued(size)
      PROVE  InflightExact'
  <2>. DEFINE packet == Packet(NextNumber, size)
  <2>1. assert_failed' = assert_failed /\ recounted' = recounted /\ phase = "idle"
    BY <1>1 DEF SendOrQueued, ackVars
  <2>2. CASE CanSend
    <3>1. SendPkt(packet) /\ pkts_buffer = <<>>
      BY <1>1, <2>1, <2>2 DEF SendOrQueued, SenderInv, QueueWaitsForWindow
    <3>2. submitted = transmitted
      BY <3>1, EmptySubmitted DEF SenderInv
    <3>3. packet \in PacketType /\ packet.seq_no = FirstPacket + Len(transmitted)
      <4>1. Len(submitted) \in Nat /\ NextNumber <= LastPacket
        BY <1>1, SubmittedLength DEF SendOrQueued, SenderInv
      <4>2. NextNumber \in FirstPacket..LastPacket
        BY <4>1, SenderAssumption DEF NextNumber
      <4>. QED  BY <3>2, <4>1, <4>2 DEF Packet, PacketType, NextNumber
    <3>. HIDE DEF packet
    <3>. QED  BY <2>1, <2>2, <3>1, <3>3, ExactSend
  <2>3. CASE ~ CanSend
    BY <1>1, <2>1, <2>3 DEF SendOrQueued, InflightExact
  <2>. QED  BY <2>2, <2>3
<1>2. ASSUME NEW n \in Ackable(FakeAcks), OnPktAck(n)
      PROVE  InflightExact'
  BY <1>2, AckableNat, ExactPktAck
<1>3. ASSUME NEW named \in SUBSET Ackable(FakeTrunks), OnPktsAck(named)
      PROVE  InflightExact'
  <2>1. named \subseteq Sent
    BY DEF Ackable
  <2>. QED  BY <1>3, <2>1, ExactPktsAck
<1>4. ASSUME NEW n \in Ackable(FakeAcks), OnUnknownPktAck(n)
      PROVE  InflightExact'
  <2>1. n \in Nat
    BY AckableNat
  <2>. QED  BY <1>4, <2>1, ActionUnknown DEF InflightExact
<1>5. CASE DrainOne
  <2>. DEFINE packet == Head(pkts_buffer)
  <2>1. /\ SendPkt(packet) /\ CanSend /\ assert_failed' = assert_failed
        /\ recounted' = recounted /\ TypeOK /\ Numbered /\ pkts_buffer # <<>>
    BY <1>5 DEF DrainOne, SenderInv, ackVars
  <2>2. /\ packet \in PacketType
        /\ Len(transmitted) + 1 \in 1..Len(submitted)
        /\ submitted[Len(transmitted) + 1] = packet
    BY <2>1, HeadMoves DEF TypeOK, Numbered
  <2>3. packet.seq_no = FirstPacket + Len(transmitted)
    <3>1. packet.seq_no = FirstPacket + (Len(transmitted) + 1) - 1
      BY <2>1, <2>2 DEF Numbered
    <3>2. Len(transmitted) \in Nat /\ FirstPacket \in Nat
      BY <2>1, SenderAssumption DEF TypeOK
    <3>. QED  BY <3>1, <3>2
  <2>. HIDE DEF packet
  <2>. QED  BY <2>1, <2>2, <2>3, ExactSend
<1>6. CASE DrainDone
  BY <1>6 DEF DrainDone, InflightExact, ackVars
<1>7. CASE UNCHANGED vars
  BY <1>7 DEF vars, InflightExact, ackVars
<1>. QED
  BY <1>1, <1>2, <1>3, <1>4, <1>5, <1>6, <1>7 DEF Next, Ack

(* bytes_inflight_ is the sum of the outstanding packets' sizes, and no    *)
(* assert fails, after any losses and any acknowledgements of sent packets *)
(* until one is named that was acknowledged or declared lost before;       *)
(* repeated and late acknowledgements then take off, modulo the width of a *)
(* size_t, exactly the bytes they count again (bbr_sender.cpp:33, 52-61,   *)
(* 84-107).                                                                *)
THEOREM BytesInflightExact ==
  ASSUME StartsInFirstTrunk, WindowsFit, ~ FakeTrunks
  PROVE  Spec => []InflightExact
<1>1. Init => InflightExact
  <2>1. SizeModulus \in Nat \ {0} /\ 0 % SizeModulus = 0
    BY WidthPositive, ModSmall
  <2>. QED  BY <2>1, NoBytes DEF Init, InflightExact
<1>2. SenderInv /\ InflightExact /\ [Next]_vars => InflightExact'
  BY ExactNext
<1>. QED
  BY <1>1, <1>2, SenderInvariant, PTL DEF Spec
=============================================================================
