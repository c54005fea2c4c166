------------------------ MODULE WindowedFilterProofs ------------------------
(***************************************************************************)
(* Proofs about the windowed filter, for every window, every set of        *)
(* samples and every pause between updates. The four properties are        *)
(* inductive only together: that an estimate is the largest since its      *)
(* round is what makes its promotion right.                                *)
(***************************************************************************)
EXTENDS WindowedFilterSpec, TLAPS

TakenInWindow ==
  \A s \in taken : s.time <= last_time /\ last_time - s.time <= WindowLength

Fresh == taken = {} => estimates = reset(0, 0) /\ last_time = 0

FilterInv == /\ FilterTypeOK /\ TakenInWindow /\ Fresh
             /\ EstimatesAreCurrent /\ EstimatesRanked /\ LargestSince

EntryType == [sample : Samples, time : 0..MaxTime]

(* What holds of the three estimates at every stage of an update that does *)
(* not restart the filter: they come from the samples S, are ranked, not   *)
(* below the newest sample, and none misses a later sample.                *)
Fine(es, S, sample) ==
  /\ es[1] \in S /\ es[2] \in S /\ es[3] \in S
  /\ es[1].sample >= es[2].sample /\ es[2].sample >= es[3].sample
  /\ es[1].time <= es[2].time /\ es[2].time <= es[3].time
  /\ es[3].sample >= sample
  /\ \A s \in S : /\ s.time > es[1].time => s.sample < es[1].sample
                  /\ s.time > es[2].time => s.sample < es[2].sample
                  /\ s.time > es[3].time => s.sample < es[3].sample

-----------------------------------------------------------------------------
LEMMA EntryTyped ==
  ASSUME NEW s \in EntryType
  PROVE  s.sample \in Nat \ {0} /\ s.time \in Nat /\ s.time <= MaxTime
<1>1. s.sample \in Samples /\ s.time \in 0..MaxTime
  BY DEF EntryType
<1>2. Samples \subseteq Nat \ {0} /\ MaxTime \in Nat
  BY SamplesAssumption
<1>3. s.sample \in Nat \ {0}
  BY <1>1, <1>2
<1>4. s.time \in Nat /\ s.time <= MaxTime
  BY <1>1, <1>2
<1>. QED
  BY <1>3, <1>4

LEMMA RankedFine ==
  ASSUME FilterInv, taken # {}, NEW sample \in Samples, NEW time \in 0..MaxTime,
         last_time <= time, ~ Reinitialises(sample, time),
         NEW S, S = taken \union {Estimate(sample, time)}
  PROVE  /\ Fine(Ranked(sample, time), S, sample)
         /\ Ranked(sample, time) \in [1..3 -> EntryType]
         /\ time - Ranked(sample, time)[3].time <= WindowLength
<1>. DEFINE new == Estimate(sample, time)
            e1  == estimates[1]
            e2  == estimates[2]
            e3  == estimates[3]
<1>1. /\ new \in EntryType /\ new.sample = sample /\ new.time = time
      /\ sample \in Nat /\ time \in Nat
  BY SamplesAssumption DEF Estimate, EntryType
<1>2. e1 \in taken /\ e2 \in taken /\ e3 \in taken
  BY DEF FilterInv, EstimatesAreCurrent
<1>3. taken \subseteq EntryType /\ S \subseteq EntryType
  BY <1>1 DEF FilterInv, FilterTypeOK, EntryType
<1>4. /\ e1.sample >= e2.sample /\ e2.sample >= e3.sample
      /\ e1.time <= e2.time /\ e2.time <= e3.time
  BY DEF FilterInv, EstimatesRanked
<1>5. \A s \in taken : /\ s.time > e1.time => s.sample < e1.sample
                       /\ s.time > e2.time => s.sample < e2.sample
                       /\ s.time > e3.time => s.sample < e3.sample
  BY DEF FilterInv, LargestSince
<1>6. \A s \in taken : s.time <= time
  <2>1. last_time \in Nat /\ \A s \in taken : s.time <= last_time /\ s.time \in Nat
    BY <1>3, EntryTyped DEF FilterInv, FilterTypeOK, TakenInWindow
  <2>. QED  BY <1>1, <2>1
<1>7. sample < e1.sample /\ time - e3.time <= WindowLength
  <2>1. e1.sample \in Nat /\ e3.time \in Nat
    BY <1>2, <1>3, EntryTyped
  <2>2. ~ (sample >= e1.sample) /\ ~ (time - e3.time > WindowLength)
    BY DEF Reinitialises
  <2>. QED  BY <1>1, <2>1, <2>2, WindowAssumption
<1>8. estimates \in [1..3 -> EntryType] /\ estimates = [estimates EXCEPT ![1] = e1]
  <2>1. DOMAIN estimates = 1..3 /\ estimates = [i \in 1..3 |-> estimates[i]]
    BY DEF FilterInv, FilterTypeOK
  <2>2. \A i \in 1..3 : estimates[i] \in EntryType
    BY <1>3 DEF FilterInv, EstimatesAreCurrent
  <2>. QED  BY <2>1, <2>2
<1>9. /\ e1.sample \in Nat /\ e2.sample \in Nat /\ e3.sample \in Nat
      /\ e1.time \in Nat /\ e2.time \in Nat /\ e3.time \in Nat
      /\ \A s \in taken : s.sample \in Nat /\ s.time \in Nat
  BY <1>2, <1>3, EntryTyped
<1>. DEFINE r == Ranked(sample, time)
<1>10. CASE sample >= e2.sample
  <2>1. r = [estimates EXCEPT ![2] = new, ![3] = new]
    BY <1>10, <1>9, <1>1 DEF Ranked
  <2>2. r[1] = e1 /\ r[2] = new /\ r[3] = new /\ r \in [1..3 -> EntryType]
    BY <1>1, <1>8, <2>1
  <2>. HIDE DEF r, e1, e2, e3, new
  <2>3. Fine(r, S, sample)
    BY <1>1, <1>2, <1>4, <1>5, <1>6, <1>7, <1>9, <2>2 DEF Fine, new
  <2>. QED  BY <1>1, <2>2, <2>3, WindowAssumption DEF r
<1>11. CASE sample < e2.sample /\ sample >= e3.sample
  <2>1. r = [estimates EXCEPT ![3] = new]
    BY <1>11, <1>9, <1>1 DEF Ranked
  <2>2. r[1] = e1 /\ r[2] = e2 /\ r[3] = new /\ r \in [1..3 -> EntryType]
    BY <1>1, <1>8, <2>1
  <2>. HIDE DEF r, e1, e2, e3, new
  <2>3. Fine(r, S, sample)
    BY <1>1, <1>2, <1>4, <1>5, <1>6, <1>7, <1>9, <1>11, <2>2 DEF Fine, new
  <2>. QED  BY <1>1, <2>2, <2>3, WindowAssumption DEF r
<1>12. CASE sample < e2.sample /\ sample < e3.sample
  <2>1. r = estimates
    BY <1>12, <1>9, <1>1 DEF Ranked
  <2>2. r[1] = e1 /\ r[2] = e2 /\ r[3] = e3 /\ r \in [1..3 -> EntryType]
    BY <1>8, <2>1
  <2>. HIDE DEF r, e1, e2, e3, new
  <2>3. Fine(r, S, sample)
    BY <1>1, <1>2, <1>4, <1>5, <1>6, <1>7, <1>9, <1>12, <2>2 DEF Fine, new
  <2>. QED  BY <1>7, <2>2, <2>3 DEF r
<1>. QED
  BY <1>1, <1>9, <1>10, <1>11, <1>12

LEMMA PromotedFine ==
  ASSUME NEW sample \in Samples, NEW time \in 0..MaxTime,
         NEW S, S \subseteq EntryType, Estimate(sample, time) \in S,
         \A s \in S : s.time <= time,
         NEW es \in [1..3 -> EntryType], Fine(es, S, sample),
         time - es[3].time <= WindowLength
  PROVE  /\ Fine(Promoted(es, sample, time), S, sample)
         /\ Promoted(es, sample, time) \in [1..3 -> EntryType]
         /\ time - Promoted(es, sample, time)[1].time <= WindowLength
<1>. DEFINE new == Estimate(sample, time)
            e1  == es[1]
            e2  == es[2]
            e3  == es[3]
            p   == Promoted(es, sample, time)
            once == [i \in 1..3 |-> IF i = 3 THEN new ELSE es[i + 1]]
<1>1. /\ new \in EntryType /\ new.sample = sample /\ new.time = time
      /\ sample \in Nat /\ time \in Nat
  BY SamplesAssumption DEF Estimate, EntryType
<1>2. /\ e2 \in EntryType /\ e3 \in EntryType
      /\ e2.sample \in Nat /\ e3.sample \in Nat /\ e2.time \in Nat /\ e3.time \in Nat
      /\ \A s \in S : s.sample \in Nat /\ s.time \in Nat
  BY EntryTyped
<1>3. once[1] = e2 /\ once[2] = e3 /\ once[3] = new /\ once \in [1..3 -> EntryType]
  BY <1>1, <1>2
<1>4. p = IF time - e2.time > WindowLength
            THEN [once EXCEPT ![1] = once[2], ![2] = once[3]] ELSE once
  BY <1>3 DEF Promoted
<1>5. /\ e2 \in S /\ e3 \in S /\ new \in S
      /\ e2.sample >= e3.sample /\ e2.time <= e3.time /\ e3.sample >= sample
      /\ e2.time <= time /\ e3.time <= time
      /\ \A s \in S : /\ s.time > e2.time => s.sample < e2.sample
                      /\ s.time > e3.time => s.sample < e3.sample
                      /\ ~ (s.time > time)
  BY <1>1, <1>2 DEF Fine
<1>6. time - e3.time <= WindowLength
  OBVIOUS
<1>. HIDE DEF once, new, e1, e2, e3, p
<1>7. CASE time - e2.time > WindowLength
  <2>1. p[1] = e3 /\ p[2] = new /\ p[3] = new /\ p \in [1..3 -> EntryType]
    BY <1>1, <1>2, <1>3, <1>4, <1>7
  <2>2. Fine(p, S, sample)
    BY <1>1, <1>2, <1>5, <2>1 DEF Fine
  <2>. QED  BY <1>6, <2>1, <2>2 DEF p
<1>8. CASE ~ (time - e2.time > WindowLength)
  <2>1. p[1] = e2 /\ p[2] = e3 /\ p[3] = new /\ p \in [1..3 -> EntryType]
    BY <1>3, <1>4, <1>8
  <2>2. Fine(p, S, sample)
    BY <1>1, <1>2, <1>5, <2>1 DEF Fine
  <2>3. time - e2.time <= WindowLength
    BY <1>1, <1>2, <1>8, WindowAssumption
  <2>. QED  BY <2>1, <2>2, <2>3 DEF p
<1>. QED
  BY <1>7, <1>8

LEMMA RenewedFine ==
  ASSUME NEW sample \in Samples, NEW time \in 0..MaxTime,
         NEW S, S \subseteq EntryType, Estimate(sample, time) \in S,
         \A s \in S : s.time <= time,
         NEW es \in [1..3 -> EntryType], Fine(es, S, sample)
  PROVE  /\ Fine(Renewed(es, sample, time), S, sample)
         /\ Renewed(es, sample, time) \in [1..3 -> EntryType]
         /\ Renewed(es, sample, time)[1] = es[1]
<1>. DEFINE new == Estimate(sample, time)
            e1  == es[1]
            e2  == es[2]
            e3  == es[3]
            r   == Renewed(es, sample, time)
<1>1. /\ new \in EntryType /\ new.sample = sample /\ new.time = time
      /\ sample \in Nat /\ time \in Nat
  BY SamplesAssumption DEF Estimate, EntryType
<1>2. /\ e1.sample \in Nat /\ e2.sample \in Nat /\ e3.sample \in Nat
      /\ e1.time \in Nat /\ e2.time \in Nat /\ e3.time \in Nat
      /\ \A s \in S : s.sample \in Nat /\ s.time \in Nat
  BY EntryTyped
<1>3. /\ e1 \in S /\ e2 \in S /\ e3 \in S /\ new \in S
      /\ e1.sample >= e2.sample /\ e2.sample >= e3.sample /\ e3.sample >= sample
      /\ e1.time <= e2.time /\ e2.time <= e3.time
      /\ e1.time <= time /\ e2.time <= time /\ e3.time <= time
      /\ \A s \in S : /\ s.time > e1.time => s.sample < e1.sample
                      /\ s.time > e2.time => s.sample < e2.sample
                      /\ s.time > e3.time => s.sample < e3.sample
                      /\ ~ (s.time > time)
  BY <1>1, <1>2 DEF Fine
<1>4. \/ r = [es EXCEPT ![2] = new, ![3] = new]
      \/ r = [es EXCEPT ![3] = new]
      \/ r = es
  BY DEF Renewed
<1>. HIDE DEF r, new
<1>5. CASE r = [es EXCEPT ![2] = new, ![3] = new]
  <2>1. r[1] = e1 /\ r[2] = new /\ r[3] = new /\ r \in [1..3 -> EntryType]
    BY <1>1, <1>5
  <2>. HIDE DEF e1, e2, e3
  <2>2. Fine(r, S, sample)
    BY <1>1, <1>2, <1>3, <2>1 DEF Fine
  <2>. QED  BY <2>1, <2>2 DEF r, e1
<1>6. CASE r = [es EXCEPT ![3] = new]
  <2>1. r[1] = e1 /\ r[2] = e2 /\ r[3] = new /\ r \in [1..3 -> EntryType]
    BY <1>1, <1>6
  <2>. HIDE DEF e1, e2, e3
  <2>2. Fine(r, S, sample)
    BY <1>1, <1>2, <1>3, <2>1 DEF Fine
  <2>. QED  BY <2>1, <2>2 DEF r, e1
<1>7. CASE r = es
  BY <1>7 DEF r
<1>. QED
  BY <1>4, <1>5, <1>6, <1>7

-----------------------------------------------------------------------------
LEMMA FirstUpdate ==
  ASSUME FilterInv, NEW sample \in Samples, NEW time \in 0..MaxTime, last_time <= time
  PROVE  taken = {} => Reinitialises(sample, time)
BY DEF FilterInv, Fresh, reset, Estimate, Reinitialises

LEMMA FilterNextInv == FilterInv /\ [FilterNext]_fvars => FilterInv'
<1>. SUFFICES ASSUME FilterInv, [FilterNext]_fvars PROVE FilterInv'
  OBVIOUS
<1>1. ASSUME NEW sample \in Samples, NEW step \in TimeSteps,
             Update(sample, last_time + step)
      PROVE  FilterInv'
  <2>. DEFINE time == last_time + step
              new  == Estimate(sample, time)
              S    == taken \union {new}
              kept == {s \in taken : time - s.time <= WindowLength}
  <2>1. /\ last_time \in Nat /\ time \in Nat /\ last_time <= time /\ time \in 0..MaxTime
        /\ MaxTime \in Nat /\ sample \in Nat \ {0}
    BY <1>1, SamplesAssumption DEF FilterInv, FilterTypeOK, Update
  <2>. HIDE DEF time
  <2>2. /\ estimates' = update(sample, time) /\ last_time' = time
        /\ taken' = kept \union {new}
    BY <1>1 DEF Update, time
  <2>3. new \in EntryType /\ new.sample = sample /\ new.time = time
    BY <2>1 DEF Estimate, EntryType
  <2>4. taken \subseteq EntryType /\ S \subseteq EntryType /\ new \in S
    BY <2>3 DEF FilterInv, FilterTypeOK, EntryType
  <2>5. /\ \A s \in taken : s.time <= time /\ s.time \in Nat /\ s.sample \in Nat
        /\ \A s \in S : s.time <= time
    BY <2>1, <2>3, <2>4, EntryTyped DEF FilterInv, TakenInWindow
  <2>. HIDE DEF new
  <2>6. taken' \subseteq EntryType /\ taken' \subseteq S /\ taken' # {}
    BY <2>2, <2>3, <2>4
  <2>7. TakenInWindow'
    <3>1. time - time <= WindowLength /\ time <= time
      BY <2>1, WindowAssumption
    <3>. QED  BY <2>2, <2>3, <2>5, <3>1 DEF TakenInWindow
  <2>8. Fresh'
    BY <2>6 DEF Fresh
  <2>9. CASE Reinitialises(sample, time)
    <3>1. estimates' = [i \in 1..3 |-> new]
      BY <2>2, <2>9 DEF update, reset, new
    <3>2. FilterTypeOK'
      BY <2>1, <2>2, <2>3, <2>6, <3>1 DEF FilterTypeOK, EntryType
    <3>3. EstimatesAreCurrent'
      BY <2>2, <3>1 DEF EstimatesAreCurrent
    <3>4. EstimatesRanked'
      BY <2>1, <2>3, <3>1 DEF EstimatesRanked
    <3>5. LargestSince'
      <4>1. \A s \in taken' : ~ (s.time > time)
        BY <2>1, <2>2, <2>3, <2>5
      <4>. QED  BY <2>3, <3>1, <4>1 DEF LargestSince
    <3>. QED  BY <2>7, <2>8, <3>2, <3>3, <3>4, <3>5 DEF FilterInv
  <2>10. CASE ~ Reinitialises(sample, time)
    <3>. DEFINE r  == Ranked(sample, time)
                es == estimates'
    <3>1. taken # {}
      BY <2>1, <2>10, FirstUpdate
    <3>2. /\ Fine(r, S, sample) /\ r \in [1..3 -> EntryType]
          /\ time - r[3].time <= WindowLength
      BY <2>1, <2>10, <3>1, RankedFine DEF new
    <3>3. es = IF time - r[1].time > WindowLength
                 THEN Promoted(r, sample, time) ELSE Renewed(r, sample, time)
      BY <2>2, <2>10 DEF update
    <3>4. Fine(es, S, sample) /\ es \in [1..3 -> EntryType] /\ time - es[1].time <= WindowLength
      <4>. HIDE DEF r, S
      <4>1. CASE time - r[1].time > WindowLength
        BY <2>1, <2>4, <2>5, <3>2, <3>3, <4>1, PromotedFine DEF new
      <4>2. CASE ~ (time - r[1].time > WindowLength)
        <5>1. time - r[1].time <= WindowLength
          BY <2>1, <3>2, <4>2, EntryTyped, WindowAssumption
        <5>. QED  BY <2>1, <2>4, <2>5, <3>2, <3>3, <4>2, <5>1, RenewedFine DEF new
      <4>. QED  BY <4>1, <4>2
    <3>. HIDE DEF es, r
    <3>5. /\ es[1].time \in Nat /\ es[2].time \in Nat /\ es[3].time \in Nat
          /\ es[1].time <= es[2].time /\ es[2].time <= es[3].time
          /\ es[1] \in S /\ es[2] \in S /\ es[3] \in S
      BY <3>4, EntryTyped DEF Fine
    <3>6. /\ time - es[2].time <= WindowLength /\ time - es[3].time <= WindowLength
      BY <2>1, <3>4, <3>5, WindowAssumption
    <3>7. es[1] \in taken' /\ es[2] \in taken' /\ es[3] \in taken'
      BY <2>2, <3>4, <3>5, <3>6
    <3>8. EstimatesAreCurrent'
      BY <3>7 DEF EstimatesAreCurrent, es
    <3>9. EstimatesRanked'
      BY <3>4 DEF EstimatesRanked, Fine, es
    <3>10. LargestSince'
      BY <2>6, <3>4 DEF LargestSince, Fine, es
    <3>11. FilterTypeOK'
      <4>1. estimates' \in [1..3 -> [sample : Samples \union {0}, time : 0..MaxTime]]
        BY <3>4 DEF es, EntryType
      <4>. QED  BY <2>1, <2>2, <2>6, <4>1 DEF FilterTypeOK, EntryType
    <3>. QED  BY <2>7, <2>8, <3>8, <3>9, <3>10, <3>11 DEF FilterInv
  <2>. QED  BY <2>9, <2>10
<1>2. CASE UNCHANGED fvars
  BY <1>2 DEF fvars, FilterInv, FilterTypeOK, TakenInWindow, Fresh, EstimatesAreCurrent,
              EstimatesRanked, LargestSince, reset, Estimate
<1>. QED
  BY <1>1, <1>2 DEF FilterNext

LEMMA FilterInitInv == FilterInit => FilterInv
<1>. SUFFICES ASSUME FilterInit PROVE FilterInv
  OBVIOUS
<1>1. /\ estimates = [i \in 1..3 |-> [sample |-> 0, time |-> 0]]
      /\ last_time = 0 /\ taken = {}
  BY DEF FilterInit, reset, Estimate
<1>2. FilterTypeOK
  BY <1>1, SamplesAssumption DEF FilterTypeOK
<1>3. EstimatesRanked
  BY <1>1 DEF EstimatesRanked
<1>. QED
  BY <1>1, <1>2, <1>3 DEF FilterInv, TakenInWindow, Fresh, EstimatesAreCurrent, LargestSince,
                          reset, Estimate

(* The filter's invariant holds after every update.                        *)
THEOREM FilterInvariant == FilterSpec => []FilterInv
BY FilterInitInv, FilterNextInv, PTL DEF FilterSpec

(* The estimates stay samples with their rounds, and none is of a round to *)
(* come.                                                                   *)
THEOREM FilterTypeCorrect == FilterSpec => []FilterTypeOK
<1>1. FilterInv => FilterTypeOK
  BY DEF FilterInv
<1>. QED
  BY <1>1, FilterInvariant, PTL

(* One update promotes estimates far enough, whatever time has passed:     *)
(* each estimate is a sample really taken in the window                    *)
(* (windowed_filter.h:44-60).                                              *)
THEOREM FilterCurrent == FilterSpec => []EstimatesAreCurrent
<1>1. FilterInv => EstimatesAreCurrent
  BY DEF FilterInv
<1>. QED
  BY <1>1, FilterInvariant, PTL

(* The three estimates stay in order, values falling and rounds rising,    *)
(* through resets, insertions, promotions and restarts                     *)
(* (windowed_filter.h:27-81).                                              *)
THEOREM FilterRanked == FilterSpec => []EstimatesRanked
<1>1. FilterInv => EstimatesRanked
  BY DEF FilterInv
<1>. QED
  BY <1>1, FilterInvariant, PTL

(* No estimate is ever left behind a newer sample as large as it is        *)
(* (windowed_filter.h:27-81).                                              *)
THEOREM FilterLargest == FilterSpec => []LargestSince
<1>1. FilterInv => LargestSince
  BY DEF FilterInv
<1>. QED
  BY <1>1, FilterInvariant, PTL
=============================================================================
