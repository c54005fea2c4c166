----------------------------- MODULE BbrProofs ------------------------------
(***************************************************************************)
(* Proofs about BbrAlgorithm for every value of its constants: types, the  *)
(* mode budget, and the phase discipline of PROBE_BW.                      *)
(***************************************************************************)
EXTENDS BbrAlgorithm, TLAPS

-----------------------------------------------------------------------------
(* Arithmetic of the model's helpers.                                      *)

LEMMA LargerType == \A a, b \in Nat : Larger(a, b) \in Nat
BY DEF Larger

LEMMA SmallerType == \A a, b \in Nat : Smaller(a, b) \in Nat
BY DEF Smaller

LEMMA DivType == ASSUME NEW x \in Nat, NEW y \in Nat \ {0}
                 PROVE  x \div y \in Nat
OBVIOUS

LEMMA ModType == ASSUME NEW x \in Nat, NEW y \in Nat \ {0}
                 PROVE  x % y \in Nat
OBVIOUS

LEMMA ProductType == ASSUME NEW x \in Nat, NEW y \in Nat
                     PROVE  x * y \in Nat
OBVIOUS

LEMMA PctType == ASSUME NEW x \in Nat, NEW p \in Nat
                 PROVE  Pct(x, p) \in Nat
<1>1. x * p \in Nat
  BY ProductType
<1>. QED
  BY <1>1, DivType DEF Pct

LEMMA FilterTypes ==
  ASSUME NEW f \in [0..1 -> Nat], NEW bw \in Nat
  PROVE  /\ FilterUpdate(f, bw) \in [0..1 -> Nat]
         /\ FilterUpdate(f, bw)[0] = f[0]
         /\ FilterAdvance(f) \in [0..1 -> Nat]
         /\ FilterGet(f) \in Nat
<1>1. f[0] \in Nat /\ f[1] \in Nat
  OBVIOUS
<1>2. Larger(bw, f[1]) \in Nat
  BY <1>1, LargerType
<1>. QED
  BY <1>1, <1>2, LargerType DEF FilterUpdate, FilterAdvance, FilterGet

-----------------------------------------------------------------------------
(* Types of what the PROBE_BW operators compute.                           *)

EntryTypes ==
  /\ ProbeBwTypeOK'
  /\ max_bw' \in [0..1 -> Nat]
  /\ bytes_lost_in_round' \in Nat
  /\ lost_event_in_round' \in Nat
  /\ bw_lo' \in Nat
  /\ inflight_lo' \in Nat

LEMMA BdpType ==
  ASSUME ModelTypeOK, NEW bw \in Nat, NEW gain \in Nat
  PROVE  bdp(bw, gain) \in Nat
<1>1. bw * min_rtt \in Nat
  BY ProductType DEF ModelTypeOK
<1>. QED
  BY <1>1, PctType DEF bdp

LEMMA TargetInflightType ==
  ASSUME ModelTypeOK, NEW f \in [0..1 -> Nat]
  PROVE  target_inflight(f) \in Nat
<1>1. estimated_bw(f) \in Nat
  BY FilterTypes, SmallerType DEF estimated_bw, ModelTypeOK
<1>2. bdp(estimated_bw(f), 100) \in Nat
  BY <1>1, BdpType
<1>. QED
  BY <1>2, SmallerType DEF target_inflight, ModelTypeOK

LEMMA AdaptedHiType ==
  ASSUME ModelTypeOK, NEW c \in Cycle, NEW f \in [0..1 -> Nat]
  PROVE  AdaptedHi(c, f) \in Nat
<1>. DEFINE keep == 100 - params.beta
            target == IF params.limit_inflight_hi_by_cwnd THEN cwnd
                      ELSE target_inflight(f)
<1>1. keep \in Nat
  BY ParamsAssumption DEF ParamsType
<1>2. target \in Nat
  BY TargetInflightType DEF ModelTypeOK
<1>3. Pct(target, keep) \in Nat
  <2>. HIDE DEF keep, target
  <2>. QED  BY <1>1, <1>2, PctType
<1>4. ev.inflight_at_send \in Nat /\ inflight_hi \in Nat
  BY DEF ModelTypeOK, EventType
<1>5. /\ Larger(ev.inflight_at_send, Pct(target, keep)) \in Nat
      /\ Larger(inflight_hi, ev.inflight_at_send) \in Nat
  <2>. HIDE DEF keep, target
  <2>. QED  BY <1>3, <1>4, LargerType
<1>. QED
  BY <1>4, <1>5 DEF AdaptedHi

LEMMA CycleTypes ==
  ASSUME ModelTypeOK, NEW c \in Cycle
  PROVE  /\ AdaptedCycle(c) \in Cycle
         /\ CountRounds(c) \in Cycle
         /\ ExistProbeDown(c) \in Cycle
         /\ \A p \in Phases : StartPhase(c, p) \in Cycle
<1>1. AdaptedCycle(c) \in Cycle
  BY DEF AdaptedCycle, Cycle
<1>2. CountRounds(c) \in Cycle
  <2>. DEFINE s == IF ev.end_of_round_trip /\ c.cycle_start_time # now
                     THEN c.rounds_since_probe + 1 ELSE c.rounds_since_probe
              p == IF ev.end_of_round_trip /\ c.phase_start_time # now
                     THEN c.rounds_in_phase + 1 ELSE c.rounds_in_phase
  <2>1. s \in Nat /\ p \in Nat
    BY DEF Cycle
  <2>2. CountRounds(c) =
          [c EXCEPT !.rounds_since_probe = s, !.rounds_in_phase = p]
    BY DEF CountRounds, Cycle
  <2>. HIDE DEF s, p
  <2>. QED  BY <2>1, <2>2 DEF Cycle
<1>3. ExistProbeDown(c) \in Cycle
  <2>1. (c.has_advanced_max_bw \/ OwesAdvance(c)) \in BOOLEAN
    BY Zenon DEF OwesAdvance, Cycle
  <2>. QED  BY <2>1 DEF ExistProbeDown, Cycle
<1>4. ASSUME NEW p \in Phases PROVE StartPhase(c, p) \in Cycle
  BY DEF StartPhase, Cycle, ModelTypeOK
<1>. QED
  BY <1>1, <1>2, <1>3, <1>4

LEMMA RaiseType ==
  ASSUME ModelTypeOK, NEW c \in Cycle
  PROVE  raise_inflight_hi(c) \in Cycle
<1>1. c.probe_up_rounds \in 0..MaxProbeUpRounds
  BY DEF Cycle
<1>2. 2^c.probe_up_rounds \in Nat \ {0}
  BY <1>1, ProbeUpAssumption
<1>3. cwnd \div 2^c.probe_up_rounds \in Nat
  BY <1>2, DivType DEF ModelTypeOK
<1>4. params.kDefaultTCPMSS \in Nat \ {0}
  BY ParamsAssumption DEF ParamsType
<1>5. Larger(cwnd \div 2^c.probe_up_rounds, params.kDefaultTCPMSS) \in Nat \ {0}
  BY <1>3, <1>4 DEF Larger
<1>6. Smaller(c.probe_up_rounds + 1, MaxProbeUpRounds) \in 0..MaxProbeUpRounds
  BY <1>1, ProbeUpAssumption DEF Smaller
<1>. QED
  BY <1>5, <1>6 DEF raise_inflight_hi, Cycle

LEMMA FilterAfterDownType ==
  ASSUME NEW c, NEW f \in [0..1 -> Nat]
  PROVE  FilterAfterDown(c, f) \in [0..1 -> Nat]
BY FilterTypes DEF FilterAfterDown

LEMMA EnterProbeDownTypes ==
  ASSUME TypeOK, NEW c \in Cycle, NEW h \in BOOLEAN, NEW k \in BOOLEAN,
         EnterProbeDown(c, h, k)
  PROVE  EntryTypes
<1>1. PICK r \in 0..params.bw_probe_rand_rounds - 1,
           w \in 0..params.bbr_bw_probe_rand_us - 1 :
        cycle' = [StartPhase(c, "Down") EXCEPT
                    !.cycle_start_time = now,
                    !.rounds_since_probe = r,
                    !.probe_wait_time = params.bbr_bw_probe_base_us + w,
                    !.probe_up_bytes = Infinity,
                    !.has_advanced_max_bw = FALSE]
  BY DEF EnterProbeDown
<1>2. StartPhase(c, "Down") \in Cycle
  BY CycleTypes DEF TypeOK, Phases
<1>3. r \in Nat /\ params.bbr_bw_probe_base_us + w \in Nat
  BY <1>1, ParamsAssumption DEF ParamsType
<1>4. cycle' \in Cycle
  BY <1>1, <1>2, <1>3, InitAssumption DEF Cycle, TypeOK, ModelTypeOK
<1>. QED
  BY <1>4 DEF EnterProbeDown, RestartRound, EntryTypes, ProbeBwTypeOK, TypeOK,
              ModelTypeOK, loVars

LEMMA EnterProbeCruiseTypes ==
  ASSUME TypeOK, NEW c \in Cycle, NEW f \in [0..1 -> Nat], NEW hi \in Nat,
         EnterProbeCruise(c, f, hi)
  PROVE  EntryTypes
<1>1. StartPhase(ExistProbeDown(c), "Cruise") \in Cycle
  BY CycleTypes DEF TypeOK, Phases
<1>2. cycle' \in Cycle
  BY <1>1 DEF EnterProbeCruise, Cycle
<1>3. max_bw' \in [0..1 -> Nat]
  BY FilterAfterDownType DEF EnterProbeCruise
<1>4. inflight_lo' \in Nat
  BY SmallerType DEF EnterProbeCruise, CapInflightLo, TypeOK, ModelTypeOK
<1>. QED
  BY <1>2, <1>3, <1>4 DEF EnterProbeCruise, EntryTypes, ProbeBwTypeOK, TypeOK,
                          ModelTypeOK, lossVars

LEMMA EnterProbeRefillTypes ==
  ASSUME TypeOK, NEW c \in Cycle, NEW f \in [0..1 -> Nat],
         NEW n \in 0..MaxProbeUpRounds, EnterProbeRefill(c, f, n)
  PROVE  EntryTypes
<1>1. StartPhase(ExistProbeDown(c), "Refill") \in Cycle
  BY CycleTypes DEF TypeOK, Phases
<1>2. cycle' \in Cycle
  BY <1>1 DEF EnterProbeRefill, Cycle
<1>3. max_bw' \in [0..1 -> Nat]
  BY FilterAfterDownType DEF EnterProbeRefill
<1>. QED
  BY <1>2, <1>3, InitAssumption
     DEF EnterProbeRefill, RestartRound, EntryTypes, ProbeBwTypeOK, TypeOK

LEMMA EnterProbeUpTypes ==
  ASSUME TypeOK, NEW c \in Cycle, EnterProbeUp(c)
  PROVE  EntryTypes
<1>1. [StartPhase(c, "Up") EXCEPT !.is_sample_from_probing = TRUE] \in Cycle
  <2>1. StartPhase(c, "Up") \in Cycle
    BY CycleTypes DEF TypeOK, Phases
  <2>. QED  BY <2>1 DEF Cycle
<1>2. cycle' \in Cycle
  BY <1>1, RaiseType DEF EnterProbeUp, TypeOK
<1>. QED
  BY <1>2 DEF EnterProbeUp, RestartRound, EntryTypes, ProbeBwTypeOK, TypeOK,
              ModelTypeOK, loVars

LEMMA StayInPhaseTypes ==
  ASSUME TypeOK, NEW c \in Cycle, NEW f \in [0..1 -> Nat], StayInPhase(c, f)
  PROVE  EntryTypes
BY DEF StayInPhase, EntryTypes, ProbeBwTypeOK, TypeOK, ModelTypeOK, lossVars,
       loVars

-----------------------------------------------------------------------------
(* Types across the four phase handlers.                                   *)

LEMMA UpwardTypes ==
  ASSUME TypeOK, NEW c \in Cycle, NEW hi \in Nat
  PROVE  HiUpward(c, hi) \in Nat /\ CycleUpward(c, hi) \in Cycle
<1>. DEFINE acked == c.probe_up_acked + ev.bytes_acked
<1>1. acked \in Nat /\ c.probe_up_bytes \in Nat \ {0}
  BY DEF Cycle, TypeOK, ModelTypeOK, EventType
<1>2. (acked \div c.probe_up_bytes) \in Nat /\ (acked % c.probe_up_bytes) \in Nat
  <2>. HIDE DEF acked
  <2>. QED  BY <1>1, DivType, ModType
<1>3. params.kDefaultTCPMSS \in Nat
  BY ParamsAssumption DEF ParamsType
<1>4. (acked \div c.probe_up_bytes) * params.kDefaultTCPMSS \in Nat
  <2>. HIDE DEF acked
  <2>. QED  BY <1>2, <1>3, ProductType
<1>5. hi + (acked \div c.probe_up_bytes) * params.kDefaultTCPMSS \in Nat
  <2>. DEFINE grown == (acked \div c.probe_up_bytes) * params.kDefaultTCPMSS
  <2>1. grown \in Nat
    BY <1>4
  <2>. HIDE DEF grown
  <2>. QED  BY <2>1 DEF grown
<1>6. HiUpward(c, hi) \in Nat
  BY <1>5 DEF HiUpward
<1>. DEFINE counted == [c EXCEPT !.probe_up_acked = acked % c.probe_up_bytes]
<1>7. counted \in Cycle
  <2>. DEFINE left == acked % c.probe_up_bytes
  <2>1. left \in Nat
    BY <1>2
  <2>. HIDE DEF left, acked
  <2>. QED  BY <2>1 DEF Cycle, left
<1>8. raise_inflight_hi(counted) \in Cycle
  <2>. HIDE DEF counted
  <2>. QED  BY <1>7, RaiseType DEF TypeOK
<1>. QED
  BY <1>6, <1>7, <1>8 DEF CycleUpward, Cycle

LEMMA UpdateProbeDownTypes ==
  ASSUME TypeOK, NEW c \in Cycle, UpdateProbeDown(c)
  PROVE  EntryTypes /\ inflight_hi' \in Nat
<1>. DEFINE sampled == c.rounds_in_phase = 1 /\ ev.end_of_round_trip
            advance == sampled /\ ~LastSampleAppLimited
            c1 == [c EXCEPT
                     !.is_sample_from_probing = @ /\ ~sampled,
                     !.has_advanced_max_bw = @ \/ advance]
            f1 == IF advance THEN FilterAdvance(max_bw) ELSE max_bw
            c2 == AdaptedCycle(c1)
            hi == AdaptedHi(c1, f1)
<1>1. c1 \in Cycle
  <2>1. /\ (c.is_sample_from_probing /\ ~sampled) \in BOOLEAN
        /\ (c.has_advanced_max_bw \/ advance) \in BOOLEAN
    BY Zenon
  <2>. HIDE DEF sampled, advance
  <2>. QED  BY <2>1 DEF Cycle
<1>2. f1 \in [0..1 -> Nat]
  BY FilterTypes DEF TypeOK, ModelTypeOK
<1>. HIDE DEF c1, f1
<1>3. c2 \in Cycle
  BY <1>1, CycleTypes DEF TypeOK
<1>4. hi \in Nat /\ inflight_hi \in Nat
  BY <1>1, <1>2, AdaptedHiType DEF TypeOK, ModelTypeOK
<1>. HIDE DEF c2, hi
<1>5. \/ EnterProbeRefill(c1, f1, 0) /\ inflight_hi' = inflight_hi
      \/ EnterProbeRefill(c2, f1, 0) /\ inflight_hi' = hi
      \/ EnterProbeCruise(c2, f1, hi) /\ inflight_hi' = hi
      \/ StayInPhase(c2, f1) /\ inflight_hi' = hi
  BY Zenon DEF UpdateProbeDown, c1, f1, c2, hi
<1>6. 0 \in 0..MaxProbeUpRounds
  BY ProbeUpAssumption
<1>. QED
  BY <1>1, <1>2, <1>3, <1>4, <1>5, <1>6, EnterProbeRefillTypes,
     EnterProbeCruiseTypes, StayInPhaseTypes

LEMMA UpdateProbeUpTypes ==
  ASSUME TypeOK, NEW c \in Cycle, UpdateProbeUp(c)
  PROVE  EntryTypes /\ inflight_hi' \in Nat
<1>. DEFINE hi  == AdaptedHi(c, max_bw)
            hi1 == HiUpward(c, hi)
            c1  == CycleUpward(c, hi)
            risky == last_cycle_probed_too_high
                     /\ ev.prior_bytes_in_flight >= hi1
<1>1. hi \in Nat
  BY AdaptedHiType DEF TypeOK, ModelTypeOK
<1>2. AdaptedCycle(c) \in Cycle
  BY CycleTypes DEF TypeOK
<1>3. hi1 \in Nat /\ c1 \in Cycle
  BY <1>1, UpwardTypes
<1>4. max_bw \in [0..1 -> Nat] /\ risky \in BOOLEAN
  BY DEF TypeOK, ModelTypeOK, ProbeBwTypeOK
<1>. HIDE DEF hi, hi1, c1, risky
<1>5. \/ inflight_hi' = hi /\ EnterProbeDown(AdaptedCycle(c), TRUE, FALSE)
      \/ inflight_hi' = hi1 /\ EnterProbeDown(c1, FALSE, risky)
      \/ inflight_hi' = hi1 /\ StayInPhase(c1, max_bw)
  BY Zenon DEF UpdateProbeUp, hi, hi1, c1, risky
<1>. QED
  BY <1>1, <1>2, <1>3, <1>4, <1>5, EnterProbeDownTypes, StayInPhaseTypes

LEMMA UpdateProbeCruiseTypes ==
  ASSUME TypeOK, NEW c \in Cycle, UpdateProbeCruise(c)
  PROVE  EntryTypes /\ inflight_hi' \in Nat
<1>1. max_bw \in [0..1 -> Nat] /\ 0 \in 0..MaxProbeUpRounds
  BY ProbeUpAssumption DEF TypeOK, ModelTypeOK
<1>2. AdaptedCycle(c) \in Cycle /\ AdaptedHi(c, max_bw) \in Nat
  BY <1>1, CycleTypes, AdaptedHiType DEF TypeOK
<1>3. /\ inflight_hi' = AdaptedHi(c, max_bw)
      /\ \/ EnterProbeRefill(AdaptedCycle(c), max_bw, 0)
         \/ StayInPhase(AdaptedCycle(c), max_bw)
  BY Zenon DEF UpdateProbeCruise
<1>. QED
  BY <1>1, <1>2, <1>3, EnterProbeRefillTypes, StayInPhaseTypes

LEMMA UpdateProbeRefillTypes ==
  ASSUME TypeOK, NEW c \in Cycle, UpdateProbeRefill(c)
  PROVE  EntryTypes /\ inflight_hi' \in Nat
<1>1. max_bw \in [0..1 -> Nat]
  BY DEF TypeOK, ModelTypeOK
<1>2. AdaptedCycle(c) \in Cycle /\ AdaptedHi(c, max_bw) \in Nat
  BY <1>1, CycleTypes, AdaptedHiType DEF TypeOK
<1>3. /\ inflight_hi' = AdaptedHi(c, max_bw)
      /\ \/ EnterProbeUp(AdaptedCycle(c))
         \/ StayInPhase(AdaptedCycle(c), max_bw)
  BY Zenon DEF UpdateProbeRefill
<1>. QED
  BY <1>1, <1>2, <1>3, EnterProbeUpTypes, StayInPhaseTypes

LEMMA ProbeBwEnterTypes ==
  ASSUME TypeOK, ProbeBwEnter
  PROVE  EntryTypes
<1>. DEFINE c == [cycle EXCEPT !.cycle_start_time = now]
<1>1. c \in Cycle /\ cycle \in Cycle
  BY DEF Cycle, TypeOK, ProbeBwTypeOK, ModelTypeOK
<1>2. /\ max_bw \in [0..1 -> Nat] /\ inflight_hi \in Nat
      /\ c.probe_up_rounds \in 0..MaxProbeUpRounds
  BY <1>1 DEF TypeOK, ModelTypeOK, Cycle
<1>. HIDE DEF c
<1>3. \/ EnterProbeDown(cycle, FALSE, FALSE)
      \/ EnterProbeCruise(c, max_bw, inflight_hi)
      \/ EnterProbeRefill(c, max_bw, c.probe_up_rounds)
      \/ StayInPhase(c, max_bw)
  BY DEF ProbeBwEnter, c
<1>. QED
  BY <1>1, <1>2, <1>3, EnterProbeDownTypes, EnterProbeCruiseTypes,
     EnterProbeRefillTypes, StayInPhaseTypes

-----------------------------------------------------------------------------
(* Type correctness, one lemma per action.                                 *)

LEMMA GainTypes ==
  /\ params.startup_pacing_gain \in Nat /\ params.startup_cwnd_gain \in Nat
  /\ params.drain_pacing_gain \in Nat /\ params.drain_cwnd_gain \in Nat
  /\ params.probe_bw_cwnd_gain \in Nat
  /\ \A p : PhasePacingGain(p) \in Nat
BY ParamsAssumption DEF ParamsType, PhasePacingGain

LEMMA NoEventType == NoEvent \in EventType
BY InitAssumption DEF NoEvent, EventType

LEMMA NextModeTypes ==
  ASSUME TypeOK, NEW m \in Modes, NextMode(m), pc = "modes",
         mode_changes_allowed >= 0
  PROVE  /\ pc' \in {"idle", "modes", "finish"}
         /\ cur_mode' \in Modes
         /\ mode_changes_allowed' \in -1..kMaxModeChanges
BY DEF NextMode, TypeOK, kMaxModeChanges

LEMMA ModelEventTypes ==
  ASSUME TypeOK, NEW e \in EventType, NEW t \in Nat, NEW b \in BOOLEAN,
         ModelOnCongestionEvent(e, t, b)
  PROVE  /\ max_bw' \in [0..1 -> Nat] /\ max_bw'[0] = max_bw[0]
         /\ min_rtt' \in Nat \ {0} /\ min_rtt_timestamp' \in Nat
         /\ bytes_lost_in_round' \in Nat /\ lost_event_in_round' \in Nat
         /\ latest_max_bw' \in Nat /\ latest_max_inflight' \in Nat
         /\ bw_lo' \in Nat /\ inflight_lo' \in Nat
         /\ UNCHANGED <<pacing_gain, cwnd_gain, inflight_hi>>
<1>. DEFINE updates == e.bytes_acked > 0
                         /\ (~e.sample_is_app_limited
                             \/ e.sample_max_bandwidth > FilterGet(max_bw))
            f    == IF updates
                      THEN FilterUpdate(max_bw, e.sample_max_bandwidth)
                      ELSE max_bw
            bw   == Larger(latest_max_bw, e.sample_max_bandwidth)
            infl == Larger(latest_max_inflight, e.sample_max_inflight)
<1>1. /\ e.sample_max_bandwidth \in Nat /\ e.sample_max_inflight \in Nat
      /\ e.sample_min_rtt \in Nat \ {0} /\ e.bytes_lost \in Nat
  BY DEF EventType
<1>2. f \in [0..1 -> Nat] /\ f[0] = max_bw[0]
  BY <1>1, FilterTypes DEF TypeOK, ModelTypeOK
<1>3. bw \in Nat /\ infl \in Nat
  BY <1>1, LargerType DEF TypeOK, ModelTypeOK
<1>. HIDE DEF f, bw, infl
<1>4. /\ max_bw' = f
      /\ MinRttUpdate(e, t)
      /\ bytes_lost_in_round' = bytes_lost_in_round + e.bytes_lost
      /\ lost_event_in_round' =
           lost_event_in_round + (IF e.bytes_lost > 0 THEN 1 ELSE 0)
      /\ AdaptLowerBounds(e, f, bw, infl, b)
      /\ latest_max_bw' =
           (IF e.end_of_round_trip /\ e.sample_max_bandwidth > 0
              THEN e.sample_max_bandwidth ELSE bw)
      /\ latest_max_inflight' =
           (IF e.end_of_round_trip /\ e.sample_max_inflight > 0
              THEN e.sample_max_inflight ELSE infl)
      /\ UNCHANGED <<gainVars, inflight_hi>>
  BY Zenon DEF ModelOnCongestionEvent, f, bw, infl
<1>5. min_rtt' \in Nat \ {0} /\ min_rtt_timestamp' \in Nat
  BY <1>1, <1>4 DEF MinRttUpdate, rttVars, TypeOK, ModelTypeOK
<1>6. bw_lo' \in Nat /\ inflight_lo' \in Nat
  <2>. DEFINE keep  == 100 - params.beta
              bwlo0 == IF bw_lo = Infinity THEN FilterGet(f) ELSE bw_lo
              lo0   == IF inflight_lo = Infinity THEN cwnd ELSE inflight_lo
  <2>1. keep \in Nat
    BY ParamsAssumption DEF ParamsType
  <2>2. bwlo0 \in Nat /\ lo0 \in Nat
    BY <1>2, FilterTypes DEF TypeOK, ModelTypeOK
  <2>. HIDE DEF keep, bwlo0, lo0
  <2>3. Pct(bwlo0, keep) \in Nat /\ Pct(lo0, keep) \in Nat
    BY <2>1, <2>2, PctType
  <2>4. /\ Larger(bw, Pct(bwlo0, keep)) \in Nat
        /\ Larger(infl, Pct(lo0, keep)) \in Nat
    BY <1>3, <2>3, LargerType
  <2>5. \/ UNCHANGED loVars
        \/ /\ bw_lo' = Larger(bw, Pct(bwlo0, keep))
           /\ \/ inflight_lo' = inflight_lo
              \/ inflight_lo' = Larger(infl, Pct(lo0, keep))
    BY <1>4, Zenon DEF AdaptLowerBounds, keep, bwlo0, lo0
  <2>. QED
    BY <2>4, <2>5 DEF loVars, TypeOK, ModelTypeOK
<1>. QED
  BY <1>1, <1>2, <1>3, <1>4, <1>5, <1>6 DEF gainVars, TypeOK, ModelTypeOK

LEMMA InitTypes == Init => TypeOK
<1>. SUFFICES ASSUME Init PROVE TypeOK
  OBVIOUS
<1>1. ModelTypeOK
  BY NoEventType, GainTypes, InitAssumption DEF Init, ModelInit, ModelTypeOK
<1>2. StartupTypeOK /\ ProbeRttTypeOK
  BY InitAssumption DEF Init, StartupInit, StartupTypeOK, ProbeRttInit,
                        ProbeRttTypeOK
<1>3. 0 \in 0..MaxProbeUpRounds
  BY ProbeUpAssumption
<1>4. ProbeBwTypeOK
  BY <1>3, InitAssumption DEF Init, ProbeBwInit, ProbeBwTypeOK, Cycle, Phases
<1>5. /\ pc = "idle" /\ cur_mode \in Modes
      /\ pacing_rate \in Nat /\ acked_before \in BOOLEAN
  BY InitAssumption DEF Init, Modes
<1>6. mode_changes_allowed \in -1..kMaxModeChanges
  BY DEF Init, kMaxModeChanges
<1>. QED
  BY <1>1, <1>2, <1>4, <1>5, <1>6 DEF TypeOK

LEMMA StartEventTypes ==
  ASSUME TypeOK, NEW e \in EventInputs, NEW dt \in TimeSteps, StartEvent(e, dt)
  PROVE  TypeOK'
<1>1. e \in EventType /\ now + dt \in Nat
  BY InputAssumption DEF TypeOK, ModelTypeOK
<1>2. is_probing_for_bandwidth \in BOOLEAN
  BY DEF is_probing_for_bandwidth
<1>3. ModelTypeOK'
  BY <1>1, <1>2, ModelEventTypes DEF StartEvent, TypeOK, ModelTypeOK
<1>4. (StartupTypeOK /\ ProbeBwTypeOK /\ ProbeRttTypeOK)'
  BY DEF StartEvent, TypeOK, StartupTypeOK, ProbeBwTypeOK, ProbeRttTypeOK,
         startupVars, cycleVars
<1>. QED
  BY <1>3, <1>4 DEF StartEvent, TypeOK, kMaxModeChanges

LEMMA StartupStepTypes ==
  ASSUME TypeOK, mode_changes_allowed >= 0, StartupStep
  PROVE  TypeOK'
<1>1. PICK m \in {"STARTUP", "DRAIN"} : StartupOnCongestionEvent(m) /\ NextMode(m)
  BY DEF StartupStep
<1>2. bdp(FilterGet(max_bw), 100) \in Nat
  BY FilterTypes, BdpType DEF TypeOK, ModelTypeOK
<1>3. inflight_hi' \in Nat /\ pacing_gain' \in Nat /\ cwnd_gain' \in Nat
  BY <1>1, <1>2, GainTypes DEF StartupOnCongestionEvent, TypeOK, ModelTypeOK
<1>4. ModelTypeOK'
  BY <1>3 DEF StartupStep, TypeOK, ModelTypeOK, loopFrame, rttVars, lossVars,
              loVars
<1>5. full_bw_baseline' \in Nat /\ rounds_without_bw_growth' \in Nat
  <2>1. \/ UNCHANGED <<full_bw_baseline, rounds_without_bw_growth>>
        \/ \E grew \in BOOLEAN :
             /\ full_bw_baseline' =
                  IF grew THEN FilterGet(max_bw) ELSE full_bw_baseline
             /\ rounds_without_bw_growth' =
                  (IF grew THEN 0 ELSE rounds_without_bw_growth) + 1
    BY <1>1, Zenon, OverflowAssumption
       DEF StartupOnCongestionEvent, check_full_bw_reached, BandwidthGrew
  <2>2. /\ FilterGet(max_bw) \in Nat /\ full_bw_baseline \in Nat
        /\ rounds_without_bw_growth \in Nat
    BY FilterTypes DEF TypeOK, StartupTypeOK, ModelTypeOK
  <2>. QED  BY <2>1, <2>2
<1>6. full_bw_reached' \in BOOLEAN
  BY <1>1, Zenon DEF StartupOnCongestionEvent
<1>7. (ProbeBwTypeOK /\ ProbeRttTypeOK)'
  BY DEF StartupStep, TypeOK, ProbeBwTypeOK, ProbeRttTypeOK, cycleVars
<1>8. /\ pc' \in {"idle", "modes", "finish"}
      /\ cur_mode' \in Modes
      /\ mode_changes_allowed' \in -1..kMaxModeChanges
  BY <1>1, NextModeTypes DEF StartupStep, Modes
<1>. QED
  BY <1>4, <1>5, <1>6, <1>7, <1>8
     DEF StartupStep, TypeOK, StartupTypeOK, loopFrame

LEMMA DrainStepTypes ==
  ASSUME TypeOK, mode_changes_allowed >= 0, DrainStep
  PROVE  TypeOK'
<1>1. PICK m \in {"DRAIN", "PROBE_BW"} :
        /\ DrainOnCongestionEvent(m)
        /\ NextMode(m)
        /\ IF m = "PROBE_BW" THEN ProbeBwEnter
           ELSE UNCHANGED <<cycleVars, max_bw, lossVars, loVars>>
  BY DEF DrainStep
<1>2. EntryTypes
  BY <1>1, ProbeBwEnterTypes
     DEF EntryTypes, ProbeBwTypeOK, TypeOK, ModelTypeOK, cycleVars, lossVars,
         loVars
<1>3. pacing_gain' \in Nat /\ cwnd_gain' \in Nat
  BY <1>1, GainTypes DEF DrainOnCongestionEvent
<1>4. ModelTypeOK'
  BY <1>2, <1>3 DEF DrainStep, EntryTypes, TypeOK, ModelTypeOK, loopFrame,
                    rttVars
<1>5. /\ pc' \in {"idle", "modes", "finish"}
      /\ cur_mode' \in Modes
      /\ mode_changes_allowed' \in -1..kMaxModeChanges
  BY <1>1, NextModeTypes DEF DrainStep, Modes
<1>. QED
  BY <1>2, <1>4, <1>5
     DEF DrainStep, EntryTypes, TypeOK, StartupTypeOK, ProbeRttTypeOK,
         loopFrame, startupVars

LEMMA ProbeBwDownStepTypes ==
  ASSUME TypeOK, mode_changes_allowed >= 0, ProbeBwDownStep
  PROVE  TypeOK'
<1>1. PICK m \in {"PROBE_BW", "PROBE_RTT"} :
        /\ ProbeBwDown(m)
        /\ NextMode(m)
        /\ IF m = "PROBE_RTT" THEN ProbeRttEnter ELSE UNCHANGED exit_time
  BY DEF ProbeBwDownStep
<1>2. CountRounds(cycle) \in Cycle
  BY CycleTypes DEF TypeOK, ProbeBwTypeOK
<1>3. EntryTypes /\ inflight_hi' \in Nat
  BY <1>1, <1>2, UpdateProbeDownTypes DEF ProbeBwDown
<1>4. /\ pacing_gain' \in Nat /\ cwnd_gain' \in Nat
      /\ min_rtt' \in Nat \ {0} /\ min_rtt_timestamp' \in Nat
      /\ exit_time' \in Nat
  <2>1. CASE m = "PROBE_RTT"
    BY <1>1, <2>1, InitAssumption
       DEF ProbeBwDown, ForceUpdateMinRtt, ProbeRttEnter, TypeOK, ModelTypeOK,
           EventType
  <2>2. CASE m = "PROBE_BW"
    BY <1>1, <2>2, GainTypes
       DEF ProbeBwDown, SetPhaseGains, rttVars, TypeOK, ModelTypeOK,
           ProbeRttTypeOK
  <2>. QED  BY <2>1, <2>2
<1>5. ModelTypeOK'
  BY <1>3, <1>4 DEF ProbeBwDownStep, EntryTypes, TypeOK, ModelTypeOK, loopFrame
<1>6. /\ pc' \in {"idle", "modes", "finish"}
      /\ cur_mode' \in Modes
      /\ mode_changes_allowed' \in -1..kMaxModeChanges
  BY <1>1, NextModeTypes DEF ProbeBwDownStep, Modes
<1>. QED
  BY <1>3, <1>4, <1>5, <1>6
     DEF ProbeBwDownStep, EntryTypes, TypeOK, StartupTypeOK, ProbeRttTypeOK,
         loopFrame, startupVars

LEMMA ProbeBwOtherStepTypes ==
  ASSUME TypeOK, mode_changes_allowed >= 0, ProbeBwOtherStep
  PROVE  TypeOK'
<1>1. CountRounds(cycle) \in Cycle
  BY CycleTypes DEF TypeOK, ProbeBwTypeOK
<1>2. /\ EntryTypes /\ inflight_hi' \in Nat
      /\ SetPhaseGains /\ UNCHANGED rttVars
  BY <1>1, UpdateProbeUpTypes, UpdateProbeCruiseTypes, UpdateProbeRefillTypes
     DEF ProbeBwOtherStep, ProbeBwUp, ProbeBwCruise, ProbeBwRefill
<1>3. ModelTypeOK'
  BY <1>2, GainTypes
     DEF ProbeBwOtherStep, EntryTypes, SetPhaseGains, TypeOK, ModelTypeOK,
         loopFrame, rttVars
<1>4. /\ pc' \in {"idle", "modes", "finish"}
      /\ cur_mode' \in Modes
      /\ mode_changes_allowed' \in -1..kMaxModeChanges
  BY NextModeTypes DEF ProbeBwOtherStep, Modes
<1>. QED
  BY <1>2, <1>3, <1>4
     DEF ProbeBwOtherStep, EntryTypes, TypeOK, StartupTypeOK, ProbeRttTypeOK,
         loopFrame, startupVars

LEMMA ProbeRttStepTypes ==
  ASSUME TypeOK, mode_changes_allowed >= 0, ProbeRttStep
  PROVE  TypeOK'
<1>1. PICK m \in {"PROBE_BW", "PROBE_RTT"} :
        /\ ProbeRttOnCongestionEvent(m)
        /\ NextMode(m)
        /\ IF m = "PROBE_BW" THEN ProbeBwEnter
           ELSE UNCHANGED <<cycleVars, max_bw, lossVars, loVars>>
  BY DEF ProbeRttStep
<1>2. EntryTypes
  BY <1>1, ProbeBwEnterTypes
     DEF EntryTypes, ProbeBwTypeOK, TypeOK, ModelTypeOK, cycleVars, lossVars,
         loVars
<1>3. exit_time' \in Nat
  BY <1>1, ParamsAssumption
     DEF ProbeRttOnCongestionEvent, ParamsType, TypeOK, ModelTypeOK,
         ProbeRttTypeOK
<1>4. ModelTypeOK'
  BY <1>2 DEF ProbeRttStep, EntryTypes, TypeOK, ModelTypeOK, loopFrame,
              gainVars, rttVars
<1>5. /\ pc' \in {"idle", "modes", "finish"}
      /\ cur_mode' \in Modes
      /\ mode_changes_allowed' \in -1..kMaxModeChanges
  BY <1>1, NextModeTypes DEF ProbeRttStep, Modes
<1>. QED
  BY <1>2, <1>3, <1>4, <1>5
     DEF ProbeRttStep, EntryTypes, TypeOK, StartupTypeOK, ProbeRttTypeOK,
         loopFrame, startupVars

LEMMA FinishEventTypes ==
  ASSUME TypeOK, FinishEvent
  PROVE  TypeOK'
<1>1. estimated_bw(max_bw) \in Nat
  BY FilterTypes, SmallerType DEF estimated_bw, TypeOK, ModelTypeOK
<1>2. UpdatedPacingRate \in Nat
  <2>1. Pct(estimated_bw(max_bw), pacing_gain) \in Nat
    BY <1>1, PctType DEF TypeOK, ModelTypeOK
  <2>2. (BitsPerByte * cwnd) \div min_rtt \in Nat
    <3>1. BitsPerByte * cwnd \in Nat /\ min_rtt \in Nat \ {0}
      BY DEF TypeOK, ModelTypeOK, BitsPerByte
    <3>. QED  BY <3>1, DivType
  <2>3. pacing_rate \in Nat
    BY DEF TypeOK
  <2>. QED
    BY <2>1, <2>2, <2>3, LargerType DEF UpdatedPacingRate
<1>3. UpdatedCwnd \in Nat \ {0}
  <2>. DEFINE grown == IF full_bw_reached
                       THEN Smaller(cwnd + ev.bytes_acked,
                                    target_cwnd + ev.max_ack_height)
                       ELSE IF cwnd < target_cwnd \/ cwnd < 2 * InitCwnd
                       THEN cwnd + ev.bytes_acked ELSE cwnd
  <2>1. params.min_cwnd \in Nat \ {0} /\ cwnd \in Nat
        /\ ev.bytes_acked \in Nat /\ ev.max_ack_height \in Nat
    BY ParamsAssumption DEF ParamsType, TypeOK, ModelTypeOK, EventType
  <2>2. target_cwnd \in Nat
    <3>1. bdp(estimated_bw(max_bw), cwnd_gain) \in Nat
      BY <1>1, BdpType DEF TypeOK, ModelTypeOK
    <3>. QED  BY <3>1, <2>1, LargerType DEF target_cwnd
  <2>3. grown \in Nat
    <3>1. /\ cwnd + ev.bytes_acked \in Nat
          /\ target_cwnd + ev.max_ack_height \in Nat
      BY <2>1, <2>2
    <3>. QED  BY <2>1, <3>1, SmallerType
  <2>. HIDE DEF grown
  <2>4. \A hi \in Nat : inflight_hi_with_headroom(hi) \in Int
    <3>1. params.inflight_hi_headroom_fraction \in Nat
      BY ParamsAssumption DEF ParamsType
    <3>2. \A hi \in Nat : Pct(hi, params.inflight_hi_headroom_fraction) \in Nat
      BY <3>1, PctType
    <3>. QED  BY <3>2 DEF inflight_hi_with_headroom
  <2>5. ProbeRttInflightTarget \in Nat
    BY BdpType, FilterTypes, ParamsAssumption
       DEF ProbeRttInflightTarget, ParamsType, TypeOK, ModelTypeOK
  <2>6. cwnd_upper_limit \in Int
    <3>1. inflight_lo \in Nat /\ inflight_hi \in Nat
      BY DEF TypeOK, ModelTypeOK
    <3>2. ProbeBwCwndLimit \in Int
      BY <2>4, <3>1 DEF ProbeBwCwndLimit, Smaller
    <3>3. ProbeRttCwndLimit \in Int
      BY <2>4, <2>5, <3>1 DEF ProbeRttCwndLimit, Smaller
    <3>. QED  BY <3>1, <3>2, <3>3 DEF cwnd_upper_limit
  <2>7. \A a \in Int, b \in Nat \ {0} : Larger(a, b) \in Nat \ {0}
    BY DEF Larger
  <2>8. Smaller(grown, cwnd_upper_limit) \in Int
    BY <2>3, <2>6 DEF Smaller
  <2>9. UpdatedCwnd = Larger(Smaller(grown, cwnd_upper_limit), params.min_cwnd)
    BY DEF UpdatedCwnd, grown
  <2>. QED
    BY <2>1, <2>7, <2>8, <2>9
<1>4. ModelTypeOK'
  BY <1>3, NoEventType
     DEF FinishEvent, TypeOK, ModelTypeOK, modelVars, gainVars, rttVars,
         lossVars, loVars
<1>5. (StartupTypeOK /\ ProbeBwTypeOK /\ ProbeRttTypeOK)'
  BY DEF FinishEvent, TypeOK, StartupTypeOK, ProbeBwTypeOK, ProbeRttTypeOK,
         startupVars, cycleVars
<1>6. acked_before' \in BOOLEAN
  BY Zenon DEF FinishEvent
<1>7. mode_changes_allowed' \in -1..kMaxModeChanges /\ pc' = "idle"
  BY DEF FinishEvent, kMaxModeChanges
<1>. QED
  BY <1>2, <1>4, <1>5, <1>6, <1>7 DEF FinishEvent, TypeOK

-----------------------------------------------------------------------------
(* The mode budget.  TypeOK alone is not inductive: a step at budget -1    *)
(* would leave its type, so the two are proved together.                   *)

(* What is left of the budget when the handler of a mode is about to run.  *)
(* PROBE_RTT reached within the event cannot leave in it, because its exit *)
(* time is still unset.                                                    *)
BudgetInv ==
  /\ mode_changes_allowed >= 1
  /\ pc = "modes" =>
       /\ cur_mode = "STARTUP" => mode_changes_allowed = 4
       /\ cur_mode = "DRAIN" => mode_changes_allowed >= 3
       /\ cur_mode = "PROBE_BW" => mode_changes_allowed >= 2
       /\ cur_mode = "PROBE_RTT" =>
            mode_changes_allowed = 4 \/ exit_time = Infinity

TypedBudget == TypeOK /\ BudgetInv

LEMMA TypedBudgetInit == Init => TypedBudget
BY InitTypes DEF TypedBudget, BudgetInv, Init, kMaxModeChanges

LEMMA TypesNext ==
  ASSUME TypedBudget, [Next]_vars
  PROVE  TypeOK'
<1>1. TypeOK /\ mode_changes_allowed >= 0
  BY DEF TypedBudget, BudgetInv, TypeOK, kMaxModeChanges
<1>2. CASE \E e \in EventInputs, dt \in TimeSteps : StartEvent(e, dt)
  BY <1>1, <1>2, StartEventTypes
<1>3. CASE StartupStep
  BY <1>1, <1>3, StartupStepTypes
<1>4. CASE DrainStep
  BY <1>1, <1>4, DrainStepTypes
<1>5. CASE ProbeBwDownStep
  BY <1>1, <1>5, ProbeBwDownStepTypes
<1>6. CASE ProbeBwOtherStep
  BY <1>1, <1>6, ProbeBwOtherStepTypes
<1>7. CASE ProbeRttStep
  BY <1>1, <1>7, ProbeRttStepTypes
<1>8. CASE FinishEvent
  BY <1>1, <1>8, FinishEventTypes
<1>9. CASE UNCHANGED vars
  BY <1>1, <1>9
     DEF vars, modelVars, gainVars, rttVars, lossVars, loVars, startupVars,
         cycleVars, algoVars, TypeOK, ModelTypeOK, StartupTypeOK,
         ProbeBwTypeOK, ProbeRttTypeOK
<1>. QED
  BY <1>2, <1>3, <1>4, <1>5, <1>6, <1>7, <1>8, <1>9 DEF Next

LEMMA BudgetNext ==
  ASSUME TypedBudget, [Next]_vars
  PROVE  BudgetInv'
<1>. USE DEF TypedBudget, BudgetInv, NextMode, kMaxModeChanges
<1>0. mode_changes_allowed \in Int
  BY DEF TypeOK
<1>1. CASE \E e \in EventInputs, dt \in TimeSteps : StartEvent(e, dt)
  BY <1>0, <1>1 DEF StartEvent
<1>2. CASE StartupStep
  BY <1>0, <1>2 DEF StartupStep
<1>3. CASE DrainStep
  BY <1>0, <1>3 DEF DrainStep
<1>4. CASE ProbeBwDownStep
  BY <1>0, <1>4 DEF ProbeBwDownStep, ProbeRttEnter
<1>5. CASE ProbeBwOtherStep
  BY <1>0, <1>5 DEF ProbeBwOtherStep
<1>6. CASE ProbeRttStep
  BY <1>0, <1>6 DEF ProbeRttStep, ProbeRttOnCongestionEvent
<1>7. CASE FinishEvent
  BY <1>0, <1>7 DEF FinishEvent
<1>8. CASE UNCHANGED vars
  BY <1>0, <1>8 DEF vars, algoVars
<1>. QED
  BY <1>1, <1>2, <1>3, <1>4, <1>5, <1>6, <1>7, <1>8 DEF Next

LEMMA TypedBudgetInvariant == Spec => []TypedBudget
<1>1. TypedBudget /\ [Next]_vars => TypedBudget'
  BY TypesNext, BudgetNext DEF TypedBudget
<1>. QED
  BY TypedBudgetInit, <1>1, PTL DEF Spec

(* Every variable keeps its type: among others the window stays positive   *)
(* (the assertion of bbr_algorithm.cpp:83) and the probe-up exponent stays *)
(* within MaxProbeUpRounds.                                                *)
THEOREM TypeCorrect == Spec => []TypeOK
<1>1. TypedBudget => TypeOK
  BY DEF TypedBudget
<1>. QED
  BY <1>1, TypedBudgetInvariant, PTL

(* The loop over modes never spends its budget of kMaxModeChanges, for any *)
(* parameters and any event: bbr_algorithm.cpp:70-73 never breaks it.      *)
THEOREM ModeBudget == Spec => []ModeBudgetSuffices
<1>1. TypedBudget => ModeBudgetSuffices
  BY DEF TypedBudget, BudgetInv, ModeBudgetSuffices, TypeOK
<1>. QED
  BY <1>1, TypedBudgetInvariant, PTL

-----------------------------------------------------------------------------
(* The phase discipline of PROBE_BW.  CycleInv strengthens                 *)
(* ProbeSampleWindow and CycleAdvanced with what makes them inductive: a   *)
(* round counts only on a later tick than the phase began, so "the first   *)
(* round of Down" happens once, and a Down without a counted round has not *)
(* advanced the filter.                                                    *)

CycleInv(c) ==
  /\ c.is_sample_from_probing =>
       c.phase = "Up" \/ (c.phase = "Down" /\ c.rounds_in_phase = 0)
  /\ c.phase \in {"Cruise", "Refill", "Up"} => c.has_advanced_max_bw
  /\ c.phase_start_time <= now
  /\ c.rounds_in_phase > 0 => c.phase_start_time < now
  /\ c.phase = "Down" /\ c.rounds_in_phase = 0 => ~c.has_advanced_max_bw

LoClear == bw_lo = Infinity /\ inflight_lo = Infinity

PhaseInv ==
  /\ CycleInv(cycle)
  /\ cur_mode \in {"STARTUP", "DRAIN"} => cycle.phase = "NotStarted"
  /\ cur_mode = "PROBE_BW" => cycle.phase # "NotStarted"
  /\ ProbeRttResumable
  /\ LowerBoundsClearWhileProbing

(* What a step of PROBE_BW leaves behind, apart from mode changes.         *)
PhaseOutcome ==
  /\ CycleInv(cycle)'
  /\ cycle'.phase # "NotStarted"
  /\ cycle'.phase \in {"Refill", "Up"} => LoClear'

LEMMA EnterDownOutcome ==
  ASSUME TypeOK, NEW c \in Cycle, NEW h, NEW k, EnterProbeDown(c, h, k),
         now' = now, c.is_sample_from_probing => c.phase \in {"Up", "Down"}
  PROVE  PhaseOutcome /\ max_bw' = max_bw
BY DEF EnterProbeDown, StartPhase, Cycle, PhaseOutcome, CycleInv, TypeOK,
       ModelTypeOK

LEMMA EnterCruiseOutcome ==
  ASSUME TypeOK, NEW c \in Cycle, NEW f, NEW hi, EnterProbeCruise(c, f, hi),
         now' = now, c.phase # "Down" => c.has_advanced_max_bw
  PROVE  /\ PhaseOutcome /\ max_bw' = FilterAfterDown(c, f)
         /\ cycle'.phase = "Cruise" /\ cycle'.has_advanced_max_bw
<1>1. (c.has_advanced_max_bw \/ OwesAdvance(c)) = TRUE
  BY DEF OwesAdvance, Cycle
<1>2. ExistProbeDown(c) = [c EXCEPT !.has_advanced_max_bw = TRUE]
  BY <1>1 DEF ExistProbeDown
<1>3. ExistProbeDown(c) \in Cycle /\ ExistProbeDown(c).has_advanced_max_bw
  BY <1>2 DEF Cycle
<1>. QED
  BY <1>3 DEF EnterProbeCruise, StartPhase, Cycle, PhaseOutcome, CycleInv,
              TypeOK, ModelTypeOK

LEMMA EnterRefillOutcome ==
  ASSUME TypeOK, NEW c \in Cycle, NEW f, NEW n, EnterProbeRefill(c, f, n),
         now' = now, c.phase # "Down" => c.has_advanced_max_bw
  PROVE  /\ PhaseOutcome /\ max_bw' = FilterAfterDown(c, f)
         /\ cycle'.phase = "Refill" /\ cycle'.has_advanced_max_bw
<1>1. (c.has_advanced_max_bw \/ OwesAdvance(c)) = TRUE
  BY DEF OwesAdvance, Cycle
<1>2. ExistProbeDown(c) = [c EXCEPT !.has_advanced_max_bw = TRUE]
  BY <1>1 DEF ExistProbeDown
<1>3. ExistProbeDown(c) \in Cycle /\ ExistProbeDown(c).has_advanced_max_bw
  BY <1>2 DEF Cycle
<1>. QED
  BY <1>3 DEF EnterProbeRefill, StartPhase, Cycle, PhaseOutcome, LoClear, CycleInv,
              TypeOK, ModelTypeOK

LEMMA EnterUpOutcome ==
  ASSUME TypeOK, NEW c \in Cycle, EnterProbeUp(c), now' = now,
         c.has_advanced_max_bw, LoClear
  PROVE  PhaseOutcome /\ max_bw' = max_bw
BY DEF EnterProbeUp, raise_inflight_hi, StartPhase, Cycle, PhaseOutcome,
       LoClear, loVars, CycleInv, TypeOK, ModelTypeOK

LEMMA StayOutcome ==
  ASSUME NEW c \in Cycle, NEW f, StayInPhase(c, f), now' = now, CycleInv(c),
         c.phase # "NotStarted", c.phase \in {"Refill", "Up"} => LoClear
  PROVE  PhaseOutcome /\ cycle' = c /\ max_bw' = f
BY DEF StayInPhase, PhaseOutcome, LoClear, loVars, CycleInv

(* Counting the round keeps CycleInv but for Down's samples, which the     *)
(* first counted round ends.                                               *)
LEMMA CountOutcome ==
  ASSUME TypeOK, CycleInv(cycle), NEW c, c = CountRounds(cycle)
  PROVE  /\ c \in Cycle
         /\ c.phase = cycle.phase
         /\ c.has_advanced_max_bw = cycle.has_advanced_max_bw
         /\ c.is_sample_from_probing = cycle.is_sample_from_probing
         /\ c.phase # "Down" => CycleInv(c)
         /\ c.phase_start_time <= now
         /\ c.rounds_in_phase > 0 => c.phase_start_time < now
         /\ c.rounds_in_phase = 1 /\ ev.end_of_round_trip =>
              cycle.rounds_in_phase = 0
         /\ c.rounds_in_phase = 0 => cycle.rounds_in_phase = 0
         /\ c.rounds_in_phase > 0 /\ cycle.rounds_in_phase = 0 =>
              c.rounds_in_phase = 1 /\ ev.end_of_round_trip
<1>1. c \in Cycle
  BY CycleTypes DEF TypeOK, ProbeBwTypeOK
<1>2. cycle \in Cycle /\ now \in Nat
  BY DEF TypeOK, ProbeBwTypeOK, ModelTypeOK
<1>3. /\ c.phase = cycle.phase
      /\ c.has_advanced_max_bw = cycle.has_advanced_max_bw
      /\ c.is_sample_from_probing = cycle.is_sample_from_probing
      /\ c.phase_start_time = cycle.phase_start_time
      /\ c.rounds_in_phase =
           IF ev.end_of_round_trip /\ cycle.phase_start_time # now
             THEN cycle.rounds_in_phase + 1 ELSE cycle.rounds_in_phase
  BY <1>2 DEF CountRounds, Cycle
<1>4. /\ cycle.rounds_in_phase \in Nat /\ cycle.phase_start_time \in Nat
      /\ c.rounds_in_phase \in Nat
  BY <1>1, <1>2 DEF Cycle
<1>. QED
  BY <1>1, <1>2, <1>3, <1>4 DEF CycleInv

(* Down is left for Cruise or Refill, never straight for Up.               *)
LEMMA DownNeverUp ==
  ASSUME TypeOK, NEW m, ProbeBwDown(m)
  PROVE  cycle'.phase # "Up"
<1>. DEFINE c == CountRounds(cycle)
            sampled == c.rounds_in_phase = 1 /\ ev.end_of_round_trip
            advance == sampled /\ ~LastSampleAppLimited
            c1 == [c EXCEPT
                     !.is_sample_from_probing = @ /\ ~sampled,
                     !.has_advanced_max_bw = @ \/ advance]
            f1 == IF advance THEN FilterAdvance(max_bw) ELSE max_bw
            c2 == AdaptedCycle(c1)
            hi == AdaptedHi(c1, f1)
<1>1. \/ EnterProbeRefill(c1, f1, 0)
      \/ EnterProbeRefill(c2, f1, 0)
      \/ EnterProbeCruise(c2, f1, hi)
      \/ StayInPhase(c2, f1)
  BY Zenon DEF ProbeBwDown, UpdateProbeDown
<1>2. /\ cycle \in Cycle /\ c \in Cycle /\ c.phase = "Down"
  <2>1. cycle \in Cycle /\ ModelTypeOK /\ cycle.phase = "Down"
    BY DEF TypeOK, ProbeBwTypeOK, ProbeBwDown
  <2>2. c \in Cycle
    BY <2>1, CycleTypes
  <2>3. c.phase = cycle.phase
    BY <2>1 DEF CountRounds, Cycle
  <2>. QED
    BY <2>1, <2>2, <2>3
<1>3. c1 \in Cycle /\ c1.phase = "Down"
  <2>1. /\ (c.is_sample_from_probing /\ ~sampled) \in BOOLEAN
        /\ (c.has_advanced_max_bw \/ advance) \in BOOLEAN
    BY Zenon
  <2>. HIDE DEF c, sampled, advance
  <2>. QED  BY <1>2, <2>1 DEF Cycle
<1>. HIDE DEF c1, f1, hi
<1>4. c2 \in Cycle /\ c2.phase = "Down"
  BY <1>3, CycleTypes DEF AdaptedCycle, Cycle, TypeOK
<1>. HIDE DEF c2
<1>5. \A d \in Cycle : ExistProbeDown(d) \in Cycle
  BY CycleTypes DEF TypeOK
<1>6. CASE EnterProbeRefill(c1, f1, 0) \/ EnterProbeRefill(c2, f1, 0)
  BY <1>3, <1>4, <1>5, <1>6 DEF EnterProbeRefill, StartPhase, Cycle
<1>7. CASE EnterProbeCruise(c2, f1, hi)
  BY <1>4, <1>5, <1>7 DEF EnterProbeCruise, StartPhase, Cycle
<1>8. CASE StayInPhase(c2, f1)
  BY <1>4, <1>8 DEF StayInPhase
<1>. QED
  BY <1>1, <1>6, <1>7, <1>8

(* The filter part of FilterAdvancesOncePerCycle.                          *)
FilterOutcome ==
  max_bw'[0] # max_bw[0] =>
    /\ cycle.phase = "Down" /\ ~cycle.has_advanced_max_bw
    /\ cycle'.has_advanced_max_bw

LEMMA AdaptedOutcome ==
  ASSUME TypeOK, NEW c \in Cycle
  PROVE  /\ AdaptedCycle(c) \in Cycle
         /\ AdaptedCycle(c).phase = c.phase
         /\ AdaptedCycle(c).has_advanced_max_bw = c.has_advanced_max_bw
         /\ AdaptedCycle(c).is_sample_from_probing => c.is_sample_from_probing
         /\ CycleInv(c) => CycleInv(AdaptedCycle(c))
<1>1. AdaptedCycle(c) \in Cycle
  BY CycleTypes DEF TypeOK
<1>. QED
  BY <1>1 DEF AdaptedCycle, Cycle, CycleInv

LEMMA UpdateProbeDownOutcome ==
  ASSUME TypeOK, CycleInv(cycle), cycle.phase = "Down", now' = now,
         NEW c, c = CountRounds(cycle), UpdateProbeDown(c)
  PROVE  PhaseOutcome /\ FilterOutcome
<1>. DEFINE sampled == c.rounds_in_phase = 1 /\ ev.end_of_round_trip
            advance == sampled /\ ~LastSampleAppLimited
            c1 == [c EXCEPT
                     !.is_sample_from_probing = @ /\ ~sampled,
                     !.has_advanced_max_bw = @ \/ advance]
            f1 == IF advance THEN FilterAdvance(max_bw) ELSE max_bw
            c2 == AdaptedCycle(c1)
            hi == AdaptedHi(c1, f1)
<1>1. /\ c \in Cycle /\ cycle \in Cycle /\ c.phase = "Down"
      /\ c.rounds_in_phase \in Nat
  BY CountOutcome DEF Cycle, TypeOK, ProbeBwTypeOK
<1>2. /\ (c.is_sample_from_probing /\ ~sampled) \in BOOLEAN
      /\ (c.has_advanced_max_bw \/ advance) \in BOOLEAN
  BY Zenon
<1>3. /\ c1 \in Cycle /\ c1.phase = "Down"
      /\ c1.rounds_in_phase = c.rounds_in_phase
      /\ c1.phase_start_time = c.phase_start_time
      /\ c1.is_sample_from_probing = (c.is_sample_from_probing /\ ~sampled)
      /\ c1.has_advanced_max_bw = (c.has_advanced_max_bw \/ advance)
  <2>. HIDE DEF sampled, advance
  <2>. QED  BY <1>1, <1>2 DEF Cycle
<1>4. CycleInv(c1)
  <2>1. c1.is_sample_from_probing => c.is_sample_from_probing /\ ~sampled
    BY <1>3, Zenon
  <2>2. c1.has_advanced_max_bw => c.has_advanced_max_bw \/ advance
    BY <1>3, Zenon
  <2>3. c.is_sample_from_probing => sampled \/ c.rounds_in_phase = 0
    BY <1>1, CountOutcome DEF CycleInv
  <2>4. c.rounds_in_phase = 0 => ~c.has_advanced_max_bw /\ ~advance
    BY CountOutcome DEF CycleInv
  <2>5. /\ c.phase_start_time <= now
        /\ c.rounds_in_phase > 0 => c.phase_start_time < now
    BY CountOutcome
  <2>. HIDE DEF c1, sampled, advance
  <2>. QED
    BY <1>3, <2>1, <2>2, <2>3, <2>4, <2>5 DEF CycleInv
<1>5. advance => ~cycle.has_advanced_max_bw
  BY CountOutcome DEF CycleInv
<1>6. advance \/ f1 = max_bw
  OBVIOUS
<1>7. c1.has_advanced_max_bw \/ ~cycle.has_advanced_max_bw
  BY <1>3, CountOutcome
<1>8. advance => c1.has_advanced_max_bw
  BY <1>3
<1>9. ~advance => c1.has_advanced_max_bw = cycle.has_advanced_max_bw
  BY <1>1, <1>3, CountOutcome DEF Cycle
<1>. HIDE DEF sampled, advance, c1, f1
<1>10. /\ c2 \in Cycle /\ c2.phase = "Down" /\ CycleInv(c2)
       /\ c2.has_advanced_max_bw = c1.has_advanced_max_bw
  BY <1>3, <1>4, AdaptedOutcome
<1>. HIDE DEF c2, hi
<1>11. \/ EnterProbeRefill(c1, f1, 0)
       \/ EnterProbeRefill(c2, f1, 0)
       \/ EnterProbeCruise(c2, f1, hi)
       \/ StayInPhase(c2, f1)
  BY Zenon DEF UpdateProbeDown, sampled, advance, c1, f1, c2, hi
<1>12. ASSUME NEW d \in Cycle, d.phase = "Down",
              d.has_advanced_max_bw = c1.has_advanced_max_bw,
              max_bw' = FilterAfterDown(d, f1), cycle'.has_advanced_max_bw
       PROVE  FilterOutcome
  <2>1. CASE advance
    BY <1>5, <1>12, <2>1 DEF FilterOutcome
  <2>2. CASE ~advance
    BY <1>6, <1>9, <1>12, <2>2 DEF FilterOutcome, FilterAfterDown, OwesAdvance
  <2>. QED  BY <2>1, <2>2
<1>13. CASE EnterProbeRefill(c1, f1, 0)
  BY <1>3, <1>12, <1>13, EnterRefillOutcome
<1>14. CASE EnterProbeRefill(c2, f1, 0)
  BY <1>10, <1>12, <1>14, EnterRefillOutcome
<1>15. CASE EnterProbeCruise(c2, f1, hi)
  BY <1>10, <1>12, <1>15, EnterCruiseOutcome
<1>16. CASE StayInPhase(c2, f1)
  <2>1. PhaseOutcome /\ cycle' = c2 /\ max_bw' = f1
    BY <1>10, <1>16, StayOutcome
  <2>. QED
    BY <1>5, <1>6, <1>8, <1>10, <2>1 DEF FilterOutcome
<1>. QED
  BY <1>11, <1>13, <1>14, <1>15, <1>16

LEMMA CycleUpwardOutcome ==
  ASSUME TypeOK, NEW c \in Cycle, NEW hi \in Nat, CycleInv(c)
  PROVE  /\ CycleUpward(c, hi) \in Cycle
         /\ CycleInv(CycleUpward(c, hi))
         /\ CycleUpward(c, hi).phase = c.phase
         /\ CycleUpward(c, hi).has_advanced_max_bw = c.has_advanced_max_bw
<1>1. CycleUpward(c, hi) \in Cycle
  BY UpwardTypes
<1>2. /\ CycleUpward(c, hi).phase = c.phase
      /\ CycleUpward(c, hi).has_advanced_max_bw = c.has_advanced_max_bw
      /\ CycleUpward(c, hi).is_sample_from_probing = c.is_sample_from_probing
      /\ CycleUpward(c, hi).rounds_in_phase = c.rounds_in_phase
      /\ CycleUpward(c, hi).phase_start_time = c.phase_start_time
  BY DEF CycleUpward, raise_inflight_hi, Cycle
<1>. QED
  BY <1>1, <1>2 DEF CycleInv

LEMMA UpdateProbeUpOutcome ==
  ASSUME TypeOK, CycleInv(cycle), cycle.phase = "Up", now' = now, LoClear,
         NEW c, c = CountRounds(cycle), UpdateProbeUp(c)
  PROVE  PhaseOutcome /\ FilterOutcome
<1>. DEFINE hi  == AdaptedHi(c, max_bw)
            hi1 == HiUpward(c, hi)
            c1  == CycleUpward(c, hi)
            risky == last_cycle_probed_too_high
                     /\ ev.prior_bytes_in_flight >= hi1
            c0  == AdaptedCycle(c)
<1>1. c \in Cycle /\ c.phase = "Up" /\ CycleInv(c)
  BY CountOutcome
<1>2. hi \in Nat
  BY <1>1, AdaptedHiType DEF TypeOK, ModelTypeOK
<1>3. c0 \in Cycle /\ c0.phase = "Up"
  BY <1>1, AdaptedOutcome
<1>4. c1 \in Cycle /\ c1.phase = "Up" /\ CycleInv(c1)
  BY <1>1, <1>2, CycleUpwardOutcome
<1>. HIDE DEF hi, hi1, c1, risky, c0
<1>5. \/ EnterProbeDown(c0, TRUE, FALSE)
      \/ EnterProbeDown(c1, FALSE, risky)
      \/ StayInPhase(c1, max_bw)
  BY Zenon DEF UpdateProbeUp, hi, hi1, c1, risky, c0
<1>6. PhaseOutcome /\ max_bw' = max_bw
  BY <1>3, <1>4, <1>5, EnterDownOutcome, StayOutcome
<1>. QED
  BY <1>6 DEF FilterOutcome

LEMMA UpdateProbeCruiseOutcome ==
  ASSUME TypeOK, CycleInv(cycle), cycle.phase = "Cruise", now' = now,
         NEW c, c = CountRounds(cycle), UpdateProbeCruise(c)
  PROVE  PhaseOutcome /\ FilterOutcome
<1>. DEFINE c1 == AdaptedCycle(c)
<1>1. c1 \in Cycle /\ c1.phase = "Cruise" /\ CycleInv(c1)
  BY CountOutcome, AdaptedOutcome
<1>. HIDE DEF c1
<1>2. c1.has_advanced_max_bw
  BY <1>1 DEF CycleInv
<1>3. EnterProbeRefill(c1, max_bw, 0) \/ StayInPhase(c1, max_bw)
  BY Zenon DEF UpdateProbeCruise, c1
<1>4. PhaseOutcome /\ max_bw' = max_bw
  BY <1>1, <1>2, <1>3, EnterRefillOutcome, StayOutcome
     DEF FilterAfterDown, OwesAdvance
<1>. QED
  BY <1>4 DEF FilterOutcome

LEMMA UpdateProbeRefillOutcome ==
  ASSUME TypeOK, CycleInv(cycle), cycle.phase = "Refill", now' = now, LoClear,
         NEW c, c = CountRounds(cycle), UpdateProbeRefill(c)
  PROVE  PhaseOutcome /\ FilterOutcome
<1>. DEFINE c1 == AdaptedCycle(c)
<1>1. c1 \in Cycle /\ c1.phase = "Refill" /\ CycleInv(c1)
  BY CountOutcome, AdaptedOutcome
<1>. HIDE DEF c1
<1>2. c1.has_advanced_max_bw
  BY <1>1 DEF CycleInv
<1>3. EnterProbeUp(c1) \/ StayInPhase(c1, max_bw)
  BY Zenon DEF UpdateProbeRefill, c1
<1>4. PhaseOutcome /\ max_bw' = max_bw
  BY <1>1, <1>2, <1>3, EnterUpOutcome, StayOutcome
<1>. QED
  BY <1>4 DEF FilterOutcome

(* Entering PROBE_BW, for the first time or back from PROBE_RTT.           *)
LEMMA ProbeBwEnterOutcome ==
  ASSUME TypeOK, CycleInv(cycle), now' = now, ProbeBwEnter,
         cycle.phase \in {"NotStarted", "Cruise", "Refill"}
  PROVE  PhaseOutcome /\ max_bw' = max_bw
<1>. DEFINE c == [cycle EXCEPT !.cycle_start_time = now]
<1>1. /\ c \in Cycle /\ cycle \in Cycle /\ c.phase = cycle.phase
      /\ c.has_advanced_max_bw = cycle.has_advanced_max_bw
  BY DEF Cycle, TypeOK, ProbeBwTypeOK, ModelTypeOK
<1>. HIDE DEF c
<1>2. CASE cycle.phase = "NotStarted"
  BY <1>1, <1>2, EnterDownOutcome DEF ProbeBwEnter, CycleInv
<1>3. CASE cycle.phase = "Cruise"
  <2>1. EnterProbeCruise(c, max_bw, inflight_hi)
    BY <1>3 DEF ProbeBwEnter, c
  <2>2. c.has_advanced_max_bw /\ c.phase # "Down"
    BY <1>1, <1>3 DEF CycleInv
  <2>. QED
    BY <1>1, <2>1, <2>2, EnterCruiseOutcome DEF FilterAfterDown, OwesAdvance
<1>4. CASE cycle.phase = "Refill"
  <2>1. EnterProbeRefill(c, max_bw, c.probe_up_rounds)
    BY <1>4 DEF ProbeBwEnter, c
  <2>2. c.has_advanced_max_bw /\ c.phase # "Down"
    BY <1>1, <1>4 DEF CycleInv
  <2>. QED
    BY <1>1, <2>1, <2>2, EnterRefillOutcome DEF FilterAfterDown, OwesAdvance
<1>. QED
  BY <1>2, <1>3, <1>4

LEMMA NextModeCases ==
  ASSUME NEW m, NextMode(m)
  PROVE  cur_mode' = m
BY DEF NextMode

(* A step within PROBE_BW that stays there.                                *)
LEMMA PhaseInvFromOutcome ==
  ASSUME PhaseOutcome, cur_mode' = "PROBE_BW"
  PROVE  PhaseInv'
BY DEF PhaseOutcome, PhaseInv, ProbeRttResumable, LowerBoundsClearWhileProbing,
       is_probing, LoClear

LEMMA PhaseInit == Init => PhaseInv
BY DEF Init, ModelInit, ProbeBwInit, PhaseInv, CycleInv, ProbeRttResumable,
       LowerBoundsClearWhileProbing

LEMMA PhaseStartEvent ==
  ASSUME TypeOK, PhaseInv, NEW e \in EventInputs, NEW dt \in TimeSteps,
         StartEvent(e, dt)
  PROVE  PhaseInv' /\ FilterOutcome
<1>1. /\ e \in EventType /\ now + dt \in Nat /\ now' = now + dt /\ now' >= now
      /\ cycle' = cycle /\ cur_mode' = cur_mode
      /\ ModelOnCongestionEvent(e, now + dt, is_probing_for_bandwidth)
  BY InputAssumption DEF StartEvent, TypeOK, ModelTypeOK, cycleVars
<1>2. is_probing_for_bandwidth \in BOOLEAN
  BY DEF is_probing_for_bandwidth
<1>3. max_bw'[0] = max_bw[0]
  BY <1>1, <1>2, ModelEventTypes
<1>4. is_probing_for_bandwidth => UNCHANGED loVars
  BY <1>1, Zenon DEF ModelOnCongestionEvent, AdaptLowerBounds
<1>5. CycleInv(cycle)'
  BY <1>1 DEF PhaseInv, CycleInv, TypeOK, ProbeBwTypeOK, Cycle, ModelTypeOK
<1>6. LowerBoundsClearWhileProbing'
  BY <1>1, <1>4 DEF PhaseInv, LowerBoundsClearWhileProbing, is_probing,
                    is_probing_for_bandwidth, loVars
<1>. QED
  BY <1>1, <1>3, <1>5, <1>6 DEF PhaseInv, ProbeRttResumable, FilterOutcome

LEMMA PhaseStartupStep ==
  ASSUME TypeOK, PhaseInv, StartupStep
  PROVE  PhaseInv' /\ FilterOutcome
<1>1. cur_mode' \in {"STARTUP", "DRAIN"}
  BY NextModeCases DEF StartupStep
<1>2. cur_mode = "STARTUP" /\ cycle' = cycle /\ now' = now /\ max_bw' = max_bw
  BY DEF StartupStep, cycleVars, loopFrame
<1>. QED
  BY <1>1, <1>2 DEF PhaseInv, CycleInv, ProbeRttResumable,
                    LowerBoundsClearWhileProbing, FilterOutcome

LEMMA PhaseDrainStep ==
  ASSUME TypeOK, PhaseInv, DrainStep
  PROVE  PhaseInv' /\ FilterOutcome
<1>1. /\ cycle.phase = "NotStarted" /\ CycleInv(cycle)
      /\ cur_mode = "DRAIN" /\ now' = now
  BY DEF PhaseInv, DrainStep, loopFrame
<1>2. CASE cur_mode' = "PROBE_BW"
  <2>1. ProbeBwEnter
    BY <1>2, NextModeCases DEF DrainStep
  <2>2. PhaseOutcome /\ max_bw' = max_bw
    BY <1>1, <2>1, ProbeBwEnterOutcome
  <2>. QED  BY <1>2, <2>2, PhaseInvFromOutcome DEF FilterOutcome
<1>3. CASE cur_mode' = "DRAIN"
  <2>1. cycle' = cycle /\ max_bw' = max_bw
    BY <1>3, NextModeCases DEF DrainStep, cycleVars
  <2>. QED
    BY <1>1, <1>3, <2>1 DEF PhaseInv, CycleInv, ProbeRttResumable,
                            LowerBoundsClearWhileProbing, FilterOutcome
<1>. QED
  BY <1>2, <1>3, NextModeCases DEF DrainStep

LEMMA PhaseProbeBwDownStep ==
  ASSUME TypeOK, PhaseInv, ProbeBwDownStep
  PROVE  PhaseInv' /\ FilterOutcome
<1>1. PICK m \in {"PROBE_BW", "PROBE_RTT"} : ProbeBwDown(m) /\ NextMode(m)
  BY DEF ProbeBwDownStep
<1>2. PhaseOutcome /\ FilterOutcome
  BY <1>1, UpdateProbeDownOutcome
     DEF ProbeBwDown, ProbeBwDownStep, PhaseInv, loopFrame
<1>3. cur_mode' = m
  BY <1>1, NextModeCases
<1>4. CASE m = "PROBE_BW"
  BY <1>2, <1>3, <1>4, PhaseInvFromOutcome
<1>5. CASE m = "PROBE_RTT"
  <2>1. cycle'.phase \in {"Cruise", "Refill"}
    <3>1. EntryTypes
      BY <1>1, CycleTypes, UpdateProbeDownTypes
         DEF ProbeBwDown, TypeOK, ProbeBwTypeOK
    <3>2. cycle'.phase \in Phases /\ cycle'.phase # "Down"
      BY <1>1, <1>5, <3>1 DEF ProbeBwDown, EntryTypes, ProbeBwTypeOK, Cycle
    <3>3. cycle'.phase # "Up"
      BY <1>1, DownNeverUp
    <3>. QED  BY <1>2, <3>2, <3>3 DEF Phases, PhaseOutcome
  <2>. QED
    BY <1>2, <1>3, <1>5, <2>1
       DEF PhaseOutcome, PhaseInv, ProbeRttResumable,
           LowerBoundsClearWhileProbing
<1>. QED
  BY <1>4, <1>5

LEMMA PhaseProbeBwOtherStep ==
  ASSUME TypeOK, PhaseInv, ProbeBwOtherStep
  PROVE  PhaseInv' /\ FilterOutcome
<1>1. /\ cur_mode = "PROBE_BW" /\ cur_mode' = "PROBE_BW" /\ now' = now
      /\ CycleInv(cycle)
  BY NextModeCases DEF ProbeBwOtherStep, loopFrame, PhaseInv
<1>2. cycle.phase \in {"Refill", "Up"} => LoClear
  BY <1>1 DEF PhaseInv, LowerBoundsClearWhileProbing, is_probing, LoClear
<1>3. PhaseOutcome /\ FilterOutcome
  BY <1>1, <1>2, UpdateProbeUpOutcome, UpdateProbeCruiseOutcome,
     UpdateProbeRefillOutcome
     DEF ProbeBwOtherStep, ProbeBwUp, ProbeBwCruise, ProbeBwRefill
<1>. QED
  BY <1>1, <1>3, PhaseInvFromOutcome

LEMMA PhaseProbeRttStep ==
  ASSUME TypeOK, PhaseInv, ProbeRttStep
  PROVE  PhaseInv' /\ FilterOutcome
<1>1. /\ cycle.phase \in {"Cruise", "Refill"} /\ CycleInv(cycle)
      /\ cur_mode = "PROBE_RTT" /\ now' = now
  BY DEF PhaseInv, ProbeRttResumable, ProbeRttStep, loopFrame
<1>2. CASE cur_mode' = "PROBE_BW"
  <2>1. ProbeBwEnter
    BY <1>2, NextModeCases DEF ProbeRttStep
  <2>2. PhaseOutcome /\ max_bw' = max_bw
    BY <1>1, <2>1, ProbeBwEnterOutcome
  <2>. QED  BY <1>2, <2>2, PhaseInvFromOutcome DEF FilterOutcome
<1>3. CASE cur_mode' = "PROBE_RTT"
  <2>1. cycle' = cycle /\ max_bw' = max_bw
    BY <1>3, NextModeCases DEF ProbeRttStep, cycleVars
  <2>. QED
    BY <1>1, <1>3, <2>1 DEF PhaseInv, CycleInv, ProbeRttResumable,
                            LowerBoundsClearWhileProbing, FilterOutcome
<1>. QED
  BY <1>2, <1>3, NextModeCases DEF ProbeRttStep

LEMMA PhaseNext ==
  ASSUME TypeOK, PhaseInv, [Next]_vars
  PROVE  PhaseInv' /\ FilterOutcome
<1>1. CASE FinishEvent
  <2>1. /\ cycle' = cycle /\ now' = now /\ max_bw' = max_bw
        /\ cur_mode' = cur_mode /\ UNCHANGED loVars
    BY <1>1 DEF FinishEvent, cycleVars, modelVars
  <2>. QED
    BY <2>1 DEF PhaseInv, CycleInv, ProbeRttResumable, is_probing, loVars,
                LowerBoundsClearWhileProbing, FilterOutcome
<1>2. CASE UNCHANGED vars
  <2>1. /\ cycle' = cycle /\ now' = now /\ max_bw' = max_bw
        /\ cur_mode' = cur_mode /\ UNCHANGED loVars
    BY <1>2 DEF vars, cycleVars, modelVars, algoVars
  <2>. QED
    BY <2>1 DEF PhaseInv, CycleInv, ProbeRttResumable, is_probing, loVars,
                LowerBoundsClearWhileProbing, FilterOutcome
<1>. QED
  BY <1>1, <1>2, PhaseStartEvent, PhaseStartupStep, PhaseDrainStep,
     PhaseProbeBwDownStep, PhaseProbeBwOtherStep, PhaseProbeRttStep DEF Next

LEMMA PhaseInvariant == Spec => [](TypedBudget /\ PhaseInv)
<1>1. Init => TypedBudget /\ PhaseInv
  BY TypedBudgetInit, PhaseInit
<1>2. (TypedBudget /\ PhaseInv) /\ [Next]_vars => (TypedBudget /\ PhaseInv)'
  BY TypesNext, BudgetNext, PhaseNext DEF TypedBudget
<1>. QED
  BY <1>1, <1>2, PTL DEF Spec

(* The assertions of update_probe_cruise and update_probe_refill           *)
(* (bbr_probe_bw.cpp:256,269) never fail.                                  *)
THEOREM ProbeSamples == Spec => []ProbeSampleWindow
<1>1. PhaseInv => ProbeSampleWindow
  BY DEF PhaseInv, CycleInv, ProbeSampleWindow
<1>. QED
  BY <1>1, PhaseInvariant, PTL

(* Refill and Up run with the short-term bounds unset, also when PROBE_RTT *)
(* interrupted Refill.                                                     *)
THEOREM LowerBoundsClear == Spec => []LowerBoundsClearWhileProbing
<1>1. PhaseInv => LowerBoundsClearWhileProbing
  BY DEF PhaseInv
<1>. QED
  BY <1>1, PhaseInvariant, PTL

(* BbrProbeBandwidth::enter always finds a phase it resumes.               *)
THEOREM Resumable == Spec => []ProbeRttResumable
<1>1. PhaseInv => ProbeRttResumable
  BY DEF PhaseInv
<1>. QED
  BY <1>1, PhaseInvariant, PTL

(* Leaving Down pays the filter advance the cycle owes ...                 *)
THEOREM CyclesAdvance == Spec => []CycleAdvanced
<1>1. PhaseInv => CycleAdvanced
  BY DEF PhaseInv, CycleInv, CycleAdvanced
<1>. QED
  BY <1>1, PhaseInvariant, PTL

(* ... and no cycle advances the filter twice (bbr_probe_bw.h:36-37).      *)
THEOREM OncePerCycle == Spec => FilterAdvancesOncePerCycle
<1>1. TypedBudget /\ PhaseInv /\ [Next]_vars => FilterOutcome
  BY PhaseNext DEF TypedBudget
<1>2. TypedBudget /\ PhaseInv /\ [Next]_vars =>
        [max_bw'[0] # max_bw[0] =>
           /\ cycle.phase = "Down" /\ ~cycle.has_advanced_max_bw
           /\ cycle'.has_advanced_max_bw]_vars
  BY <1>1 DEF FilterOutcome
<1>. QED
  BY <1>2, PhaseInvariant, PTL DEF Spec, FilterAdvancesOncePerCycle
=============================================================================
