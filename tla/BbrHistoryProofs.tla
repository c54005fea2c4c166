-------------------------- MODULE BbrHistoryProofs --------------------------
(***************************************************************************)
(* Proofs about what BbrAlgorithm does over several events: the gains its  *)
(* handlers leave behind, the pace and the window they make, the cuts of   *)
(* inflight_hi and the visits of PROBE_RTT.  They build on the invariants  *)
(* of BbrProofs.                                                           *)
(***************************************************************************)
EXTENDS BbrHistory, BbrProofs

(***************************************************************************)
(* The gains                                                               *)
(***************************************************************************)
GainsMatch ==
  <<pacing_gain, cwnd_gain>> =
    CASE cur_mode = "STARTUP" ->
           <<params.startup_pacing_gain, params.startup_cwnd_gain>>
      [] cur_mode = "DRAIN" ->
           <<params.drain_pacing_gain, params.drain_cwnd_gain>>
      [] cur_mode = "PROBE_BW" ->
           <<PhasePacingGain(cycle.phase), params.probe_bw_cwnd_gain>>
      [] cur_mode = "PROBE_RTT" -> <<100, 100>>

(* PROBE_RTT sets its gains when it is entered, the other modes when their *)
(* handlers run, so only behind the loop do the gains match.               *)
GainsInv ==
  /\ pc # "modes" => GainsMatch
  /\ cur_mode = "PROBE_RTT" => GainsMatch

LEMMA GainsInit == Init => GainsInv
BY DEF Init, ModelInit, GainsInv, GainsMatch

(* A handler that keeps its mode leaves the loop; one that changes it runs *)
(* the next handler, as the budget is not spent.                           *)
LEMMA NextModeLoops ==
  ASSUME TypedBudget, NEW m, NextMode(m)
  PROVE  /\ cur_mode' = m
         /\ m = cur_mode => pc' = "finish"
         /\ m # cur_mode => pc' = "modes"
BY DEF TypedBudget, BudgetInv, TypeOK, NextMode, kMaxModeChanges

LEMMA GainsNext ==
  ASSUME TypedBudget, GainsInv, [Next]_vars
  PROVE  GainsInv'
<1>1. ASSUME NEW e \in EventInputs, NEW dt \in TimeSteps, StartEvent(e, dt)
      PROVE  GainsInv'
  BY <1>1 DEF StartEvent, ModelOnCongestionEvent, gainVars, cycleVars, GainsInv,
              GainsMatch
<1>2. CASE StartupStep
  <2>1. PICK m \in {"STARTUP", "DRAIN"} : StartupOnCongestionEvent(m) /\ NextMode(m)
    BY <1>2 DEF StartupStep
  <2>2. cur_mode = "STARTUP"
    BY <1>2 DEF StartupStep
  <2>. QED  BY <2>1, <2>2, NextModeLoops DEF StartupOnCongestionEvent, GainsInv, GainsMatch
<1>3. CASE DrainStep
  <2>1. PICK m \in {"DRAIN", "PROBE_BW"} : DrainOnCongestionEvent(m) /\ NextMode(m)
    BY <1>3 DEF DrainStep
  <2>2. cur_mode = "DRAIN"
    BY <1>3 DEF DrainStep
  <2>. QED  BY <2>1, <2>2, NextModeLoops DEF DrainOnCongestionEvent, GainsInv, GainsMatch
<1>4. CASE ProbeBwDownStep
  <2>1. PICK m \in {"PROBE_BW", "PROBE_RTT"} :
          /\ ProbeBwDown(m) /\ NextMode(m)
          /\ m = "PROBE_RTT" => ProbeRttEnter
    BY <1>4 DEF ProbeBwDownStep
  <2>2. cur_mode = "PROBE_BW"
    BY <1>4 DEF ProbeBwDownStep
  <2>3. CASE m = "PROBE_BW"
    <3>1. SetPhaseGains
      BY <2>1, <2>3 DEF ProbeBwDown
    <3>. QED  BY <2>1, <2>2, <2>3, <3>1, NextModeLoops DEF SetPhaseGains, GainsInv, GainsMatch
  <2>4. CASE m = "PROBE_RTT"
    BY <2>1, <2>2, <2>4, NextModeLoops DEF ProbeRttEnter, GainsInv, GainsMatch
  <2>. QED  BY <2>3, <2>4
<1>5. CASE ProbeBwOtherStep
  <2>1. SetPhaseGains /\ NextMode("PROBE_BW") /\ cur_mode = "PROBE_BW"
    BY <1>5 DEF ProbeBwOtherStep, ProbeBwUp, ProbeBwCruise, ProbeBwRefill
  <2>. QED  BY <2>1, NextModeLoops DEF SetPhaseGains, GainsInv, GainsMatch
<1>6. CASE ProbeRttStep
  <2>1. PICK m \in {"PROBE_BW", "PROBE_RTT"} : NextMode(m)
    BY <1>6 DEF ProbeRttStep
  <2>2. cur_mode = "PROBE_RTT" /\ UNCHANGED gainVars
    BY <1>6 DEF ProbeRttStep
  <2>3. GainsMatch
    BY <2>2 DEF GainsInv
  <2>. QED  BY <2>1, <2>2, <2>3, NextModeLoops DEF gainVars, GainsInv, GainsMatch
<1>7. CASE FinishEvent
  BY <1>7 DEF FinishEvent, modelVars, gainVars, cycleVars, GainsInv, GainsMatch
<1>8. CASE UNCHANGED vars
  BY <1>8 DEF vars, modelVars, gainVars, cycleVars, algoVars, GainsInv, GainsMatch
<1>. QED
  BY <1>1, <1>2, <1>3, <1>4, <1>5, <1>6, <1>7, <1>8 DEF Next

(* Between events the gains are those of the mode and phase the event      *)
(* ended in, whatever chain of modes and phases it went through.           *)
THEOREM GainsFollowMode == Spec => []GainsMatchMode
<1>1. GainsInv => GainsMatchMode
  BY DEF GainsInv, GainsMatch, GainsMatchMode
<1>. QED
  BY <1>1, GainsInit, GainsNext, TypedBudgetInvariant, PTL DEF Spec

(***************************************************************************)
(* STARTUP                                                                 *)
(***************************************************************************)
(* Infinity is size_t's largest value.                                     *)
WindowsFinite == InitCwnd <= Infinity /\ params.min_cwnd <= Infinity

(* In STARTUP full bandwidth is not reached, or the handler would have     *)
(* left, and nothing has set the short-term bounds.                        *)
StartupInv ==
  cur_mode = "STARTUP" =>
    /\ ~full_bw_reached
    /\ LoClear
    /\ cwnd <= Infinity

LEMMA StartupInvInit == ASSUME WindowsFinite PROVE Init => StartupInv
BY InitAssumption DEF Init, ModelInit, StartupInit, StartupInv, LoClear, WindowsFinite

(* What the end of an event makes of pace and window in STARTUP.           *)
LEMMA StartupGrows ==
  ASSUME TypeOK, StartupInv, WindowsFinite, cur_mode = "STARTUP"
  PROVE  /\ UpdatedCwnd >= cwnd /\ UpdatedCwnd <= Infinity
         /\ acked_before => UpdatedPacingRate >= pacing_rate
<1>1. ~full_bw_reached /\ inflight_lo = Infinity /\ cwnd <= Infinity
  BY DEF StartupInv, LoClear
<1>2. /\ cwnd \in Nat /\ ev.bytes_acked \in Nat /\ Infinity \in Nat
      /\ params.min_cwnd \in Nat /\ params.min_cwnd <= Infinity
      /\ pacing_rate \in Nat /\ max_bw \in [0..1 -> Nat] /\ pacing_gain \in Nat
      /\ bw_lo \in Nat
  BY ParamsAssumption, InitAssumption
  DEF ParamsType, TypeOK, ModelTypeOK, EventType, WindowsFinite
<1>3. UpdatedCwnd >= cwnd /\ UpdatedCwnd <= Infinity
  <2>. DEFINE grown == IF cwnd < target_cwnd \/ cwnd < 2 * InitCwnd
                         THEN cwnd + ev.bytes_acked ELSE cwnd
  <2>1. cwnd_upper_limit = Infinity
    BY <1>1 DEF cwnd_upper_limit
  <2>2. UpdatedCwnd = Larger(Smaller(grown, Infinity), params.min_cwnd)
    BY <1>1, <2>1 DEF UpdatedCwnd
  <2>3. grown \in Nat /\ grown >= cwnd
    BY <1>2
  <2>. HIDE DEF grown
  <2>. QED  BY <1>1, <1>2, <2>2, <2>3 DEF Larger, Smaller
<1>4. acked_before => UpdatedPacingRate >= pacing_rate
  <2>. DEFINE bw == estimated_bw(max_bw)
              target == Pct(bw, pacing_gain)
  <2>1. bw \in Nat
    BY <1>2, FilterTypes, SmallerType DEF estimated_bw
  <2>2. target \in Nat
    <3>. HIDE DEF bw
    <3>. QED  BY <1>2, <2>1, PctType
  <2>3. acked_before => UpdatedPacingRate \in {pacing_rate, Larger(target, pacing_rate)}
    BY <1>1 DEF UpdatedPacingRate
  <2>. HIDE DEF target
  <2>. QED  BY <1>2, <2>2, <2>3 DEF Larger
<1>. QED
  BY <1>3, <1>4

LEMMA StartupInvNext ==
  ASSUME WindowsFinite, TypedBudget, StartupInv, [Next]_vars
  PROVE  StartupInv'
<1>. SUFFICES ASSUME cur_mode' = "STARTUP"
              PROVE  (~full_bw_reached /\ LoClear /\ cwnd <= Infinity)'
  BY DEF StartupInv
<1>1. ASSUME NEW e \in EventInputs, NEW dt \in TimeSteps, StartEvent(e, dt)
      PROVE  (~full_bw_reached /\ LoClear /\ cwnd <= Infinity)'
  <2>1. cur_mode = "STARTUP" /\ UNCHANGED <<cwnd, startupVars>>
        /\ ModelOnCongestionEvent(e, now + dt, is_probing_for_bandwidth)
    BY <1>1 DEF StartEvent
  <2>2. UNCHANGED loVars
    BY <2>1 DEF ModelOnCongestionEvent, AdaptLowerBounds, is_probing_for_bandwidth
  <2>. QED  BY <2>1, <2>2 DEF StartupInv, LoClear, loVars, startupVars
<1>2. CASE StartupStep
  <2>1. PICK m \in {"STARTUP", "DRAIN"} : StartupOnCongestionEvent(m) /\ NextMode(m)
    BY <1>2 DEF StartupStep
  <2>2. m = "STARTUP" /\ cur_mode = "STARTUP" /\ UNCHANGED <<cwnd, loVars>>
    BY <1>2, <2>1, NextModeCases DEF StartupStep, loopFrame
  <2>3. ~full_bw_reached'
    BY <2>1, <2>2 DEF StartupOnCongestionEvent
  <2>. QED  BY <2>2, <2>3 DEF StartupInv, LoClear, loVars
<1>3. CASE FinishEvent
  <2>1. /\ cur_mode = "STARTUP" /\ UNCHANGED <<startupVars, loVars>>
        /\ cwnd' = UpdatedCwnd
    BY <1>3 DEF FinishEvent, modelVars
  <2>2. UpdatedCwnd <= Infinity
    BY <2>1, StartupGrows DEF TypedBudget
  <2>. QED  BY <2>1, <2>2 DEF StartupInv, LoClear, loVars, startupVars
<1>4. CASE UNCHANGED vars
  BY <1>4 DEF vars, modelVars, startupVars, algoVars, loVars, StartupInv, LoClear
<1>5. ~DrainStep /\ ~ProbeBwDownStep /\ ~ProbeBwOtherStep /\ ~ProbeRttStep
  BY NextModeCases DEF DrainStep, ProbeBwDownStep, ProbeBwOtherStep, ProbeRttStep
<1>. QED
  BY <1>1, <1>2, <1>3, <1>4, <1>5 DEF Next

LEMMA StartupInvariant == ASSUME WindowsFinite PROVE Spec => []StartupInv
BY StartupInvInit, StartupInvNext, TypedBudgetInvariant, PTL DEF Spec

(* STARTUP neither narrows the window nor, once acks have come, slows the  *)
(* pace, whatever it loses: its losses set no short-term bound, and the    *)
(* window it grows stays below the unset one.                              *)
THEOREM StartupKeepsPace == ASSUME WindowsFinite PROVE Spec => StartupNeverSlows
<1>. DEFINE Grows == cur_mode = "STARTUP" /\ cur_mode' = "STARTUP" =>
                       /\ cwnd' >= cwnd
                       /\ acked_before => pacing_rate' >= pacing_rate
<1>1. TypedBudget /\ StartupInv /\ [Next]_vars => [Grows]_vars
  <2>. SUFFICES ASSUME TypeOK, StartupInv, Next,
                       cur_mode = "STARTUP", cur_mode' = "STARTUP"
                PROVE  cwnd' >= cwnd /\ (acked_before => pacing_rate' >= pacing_rate)
    BY DEF TypedBudget
  <2>1. CASE FinishEvent
    BY <2>1, StartupGrows DEF FinishEvent
  <2>2. CASE ~FinishEvent
    <3>1. UNCHANGED <<cwnd, pacing_rate>>
      BY <2>2 DEF Next, StartEvent, StartupStep, DrainStep, ProbeBwDownStep,
                  ProbeBwOtherStep, ProbeRttStep, loopFrame
    <3>2. cwnd \in Nat /\ pacing_rate \in Nat
      BY DEF TypeOK, ModelTypeOK
    <3>. QED  BY <3>1, <3>2
  <2>. QED  BY <2>1, <2>2
<1>. QED
  BY <1>1, StartupInvariant, TypedBudgetInvariant, PTL DEF Spec, StartupNeverSlows

(***************************************************************************)
(* The cuts of inflight_hi                                                 *)
(***************************************************************************)
CutOutcome ==
  inflight_hi' < inflight_hi =>
    cycle.is_sample_from_probing /\ ~cycle'.is_sample_from_probing

(* Only a probing sample lowers the bound, and then it stops being one.    *)
LEMMA AdaptedCuts ==
  ASSUME TypeOK, NEW c \in Cycle, NEW f \in [0..1 -> Nat]
  PROVE  /\ AdaptedHi(c, f) < inflight_hi =>
              /\ c.is_sample_from_probing
              /\ ~AdaptedCycle(c).is_sample_from_probing
         /\ AdaptedHi(c, f) \in Nat
         /\ ~ProbedTooHigh(c) => AdaptedHi(c, f) >= inflight_hi
<1>1. inflight_hi \in Nat /\ ev.inflight_at_send \in Nat
  BY DEF TypeOK, ModelTypeOK, EventType
<1>2. ASSUME ~ProbedTooHigh(c) PROVE AdaptedHi(c, f) >= inflight_hi
  <2>1. AdaptedHi(c, f) \in {Larger(inflight_hi, ev.inflight_at_send), inflight_hi}
    BY <1>2 DEF AdaptedHi
  <2>. QED  BY <1>1, <2>1 DEF Larger
<1>3. ASSUME ProbedTooHigh(c)
      PROVE  c.is_sample_from_probing /\ ~AdaptedCycle(c).is_sample_from_probing
  BY <1>3 DEF ProbedTooHigh, AdaptedCycle, Cycle
<1>4. AdaptedHi(c, f) \in Nat
  BY AdaptedHiType DEF TypeOK
<1>. QED
  BY <1>1, <1>2, <1>3, <1>4

(* What entering a phase makes of the probing samples.                     *)
LEMMA EntrySamples ==
  ASSUME TypeOK, NEW c \in Cycle
  PROVE  /\ \A h, k : EnterProbeDown(c, h, k) =>
              cycle'.is_sample_from_probing = c.is_sample_from_probing
         /\ \A f, hi : EnterProbeCruise(c, f, hi) => ~cycle'.is_sample_from_probing
         /\ \A f, n : EnterProbeRefill(c, f, n) => ~cycle'.is_sample_from_probing
         /\ \A f : StayInPhase(c, f) => cycle' = c
<1>1. ExistProbeDown(c) \in Cycle
  BY CycleTypes DEF TypeOK
<1>2. ASSUME NEW h, NEW k, EnterProbeDown(c, h, k)
      PROVE  cycle'.is_sample_from_probing = c.is_sample_from_probing
  BY <1>2 DEF EnterProbeDown, StartPhase, Cycle
<1>3. ASSUME NEW f, NEW hi, EnterProbeCruise(c, f, hi)
      PROVE  ~cycle'.is_sample_from_probing
  BY <1>1, <1>3 DEF EnterProbeCruise, StartPhase, Cycle
<1>4. ASSUME NEW f, NEW n, EnterProbeRefill(c, f, n)
      PROVE  ~cycle'.is_sample_from_probing
  BY <1>1, <1>4 DEF EnterProbeRefill, StartPhase, Cycle
<1>. QED
  BY <1>2, <1>3, <1>4, Zenon DEF StayInPhase

LEMMA DownCuts ==
  ASSUME TypeOK, CycleInv(cycle), cycle.phase = "Down",
         NEW c, c = CountRounds(cycle), UpdateProbeDown(c)
  PROVE  CutOutcome
<1>. DEFINE sampled == c.rounds_in_phase = 1 /\ ev.end_of_round_trip
            advance == sampled /\ ~LastSampleAppLimited
            c1 == [c EXCEPT
                     !.is_sample_from_probing = @ /\ ~sampled,
                     !.has_advanced_max_bw = @ \/ advance]
            f1 == IF advance THEN FilterAdvance(max_bw) ELSE max_bw
            c2 == AdaptedCycle(c1)
            hi == AdaptedHi(c1, f1)
<1>1. c \in Cycle /\ c.is_sample_from_probing = cycle.is_sample_from_probing
  BY CountOutcome
<1>2. /\ (c.is_sample_from_probing /\ ~sampled) \in BOOLEAN
      /\ (c.has_advanced_max_bw \/ advance) \in BOOLEAN
  BY Zenon
<1>3. /\ c1 \in Cycle
      /\ c1.is_sample_from_probing = (c.is_sample_from_probing /\ ~sampled)
  <2>. HIDE DEF sampled, advance
  <2>. QED  BY <1>1, <1>2 DEF Cycle
<1>4. c1.is_sample_from_probing => cycle.is_sample_from_probing
  <2>. HIDE DEF sampled, c1
  <2>. QED  BY <1>1, <1>3, Zenon
<1>5. f1 \in [0..1 -> Nat]
  BY FilterTypes DEF TypeOK, ModelTypeOK
<1>6. inflight_hi \in Nat
  BY DEF TypeOK, ModelTypeOK
<1>. HIDE DEF sampled, advance, c1, f1
<1>7. /\ c2 \in Cycle
      /\ hi < inflight_hi => c1.is_sample_from_probing /\ ~c2.is_sample_from_probing
  BY <1>3, <1>5, AdaptedCuts, AdaptedOutcome
<1>. HIDE DEF c2, hi
<1>8. \/ UNCHANGED inflight_hi
      \/ inflight_hi' = hi /\ EnterProbeRefill(c2, f1, 0)
      \/ inflight_hi' = hi /\ EnterProbeCruise(c2, f1, hi)
      \/ inflight_hi' = hi /\ StayInPhase(c2, f1)
  BY Zenon DEF UpdateProbeDown, sampled, advance, c1, f1, c2, hi
<1>9. CASE UNCHANGED inflight_hi
  BY <1>6, <1>9 DEF CutOutcome
<1>10. CASE /\ inflight_hi' = hi
            /\ \/ EnterProbeRefill(c2, f1, 0)
               \/ EnterProbeCruise(c2, f1, hi)
               \/ StayInPhase(c2, f1)
  <2>1. ~cycle'.is_sample_from_probing \/ cycle' = c2
    BY <1>7, <1>10, EntrySamples
  <2>. QED
    BY <1>4, <1>7, <1>10, <2>1 DEF CutOutcome
<1>. QED
  BY <1>8, <1>9, <1>10

LEMMA UpwardGrows ==
  ASSUME TypeOK, NEW c \in Cycle, NEW hi \in Nat
  PROVE  HiUpward(c, hi) >= hi
<1>1. /\ c.probe_up_acked \in Nat /\ ev.bytes_acked \in Nat
      /\ c.probe_up_bytes \in Nat \ {0} /\ params.kDefaultTCPMSS \in Nat
  BY ParamsAssumption DEF ParamsType, TypeOK, ModelTypeOK, EventType, Cycle
<1>. DEFINE n == (c.probe_up_acked + ev.bytes_acked) \div c.probe_up_bytes
            grown == n * params.kDefaultTCPMSS
<1>2. n \in Nat
  BY <1>1, DivType
<1>3. grown \in Nat
  <2>. HIDE DEF n
  <2>. QED  BY <1>1, <1>2, ProductType
<1>4. HiUpward(c, hi) = hi + grown \/ HiUpward(c, hi) = hi
  BY DEF HiUpward
<1>. HIDE DEF grown
<1>. QED
  BY <1>3, <1>4

LEMMA UpCuts ==
  ASSUME TypeOK, CycleInv(cycle),
         NEW c, c = CountRounds(cycle), UpdateProbeUp(c)
  PROVE  CutOutcome
<1>. DEFINE hi  == AdaptedHi(c, max_bw)
            hi1 == HiUpward(c, hi)
            c0  == AdaptedCycle(c)
<1>1. c \in Cycle /\ c.is_sample_from_probing = cycle.is_sample_from_probing
  BY CountOutcome
<1>2. inflight_hi \in Nat /\ max_bw \in [0..1 -> Nat]
  BY DEF TypeOK, ModelTypeOK
<1>3. /\ hi \in Nat
      /\ hi < inflight_hi => c.is_sample_from_probing /\ ~c0.is_sample_from_probing
      /\ ~ProbedTooHigh(c) => hi >= inflight_hi
  BY <1>1, <1>2, AdaptedCuts
<1>4. hi1 \in Nat /\ hi1 >= hi
  BY <1>1, <1>3, UpwardGrows, UpwardTypes
<1>5. c0 \in Cycle
  BY <1>1, AdaptedOutcome
<1>. HIDE DEF hi, hi1, c0
<1>6. \/ inflight_hi' = hi /\ EnterProbeDown(c0, TRUE, FALSE)
      \/ ~ProbedTooHigh(c) /\ inflight_hi' = hi1
  BY Zenon DEF UpdateProbeUp, hi, hi1, c0
<1>7. CASE inflight_hi' = hi /\ EnterProbeDown(c0, TRUE, FALSE)
  <2>1. cycle'.is_sample_from_probing = c0.is_sample_from_probing
    BY <1>5, <1>7, EntrySamples
  <2>. QED
    BY <1>1, <1>3, <1>7, <2>1 DEF CutOutcome
<1>8. CASE ~ProbedTooHigh(c) /\ inflight_hi' = hi1
  BY <1>2, <1>3, <1>4, <1>8 DEF CutOutcome
<1>. QED
  BY <1>6, <1>7, <1>8

(* In Cruise and Refill no sample is from probing.                         *)
LEMMA QuietCuts ==
  ASSUME TypeOK, CycleInv(cycle), cycle.phase \in {"Cruise", "Refill"},
         NEW c, c = CountRounds(cycle), inflight_hi' = AdaptedHi(c, max_bw)
  PROVE  CutOutcome
<1>1. c \in Cycle /\ c.is_sample_from_probing = cycle.is_sample_from_probing
  BY CountOutcome
<1>2. ~cycle.is_sample_from_probing
  BY DEF CycleInv
<1>3. max_bw \in [0..1 -> Nat]
  BY DEF TypeOK, ModelTypeOK
<1>. QED
  BY <1>1, <1>2, <1>3, AdaptedCuts DEF CutOutcome

(* A probe that overshoots cuts inflight_hi once, not on every lossy event *)
(* after it: the samples stop counting as probing with the cut, in phase   *)
(* Up and in the first round of the Down that follows.                     *)
THEOREM OneCut == Spec => OneCutPerProbe
<1>. DEFINE StartupCut == cur_mode = "STARTUP" /\ cur_mode' = "DRAIN"
            ProbeCut == cycle.is_sample_from_probing
                        /\ ~cycle'.is_sample_from_probing
            Cut == inflight_hi' < inflight_hi => StartupCut \/ ProbeCut
<1>1. TypedBudget /\ PhaseInv /\ [Next]_vars => [Cut]_vars
  <2>. SUFFICES ASSUME TypeOK, CycleInv(cycle), Next  PROVE Cut
    BY DEF TypedBudget, PhaseInv
  <2>0. inflight_hi \in Nat
    BY DEF TypeOK, ModelTypeOK
  <2>1. CASE StartupStep
    <3>1. PICK m \in {"STARTUP", "DRAIN"} : StartupOnCongestionEvent(m) /\ NextMode(m)
      BY <2>1 DEF StartupStep
    <3>2. cur_mode = "STARTUP" /\ cur_mode' = m
      BY <2>1, <3>1, NextModeCases DEF StartupStep
    <3>3. CASE ~FlatForLong /\ ExcessiveLosses
      BY <3>1, <3>2, <3>3 DEF StartupOnCongestionEvent
    <3>4. CASE ~(~FlatForLong /\ ExcessiveLosses)
      <4>1. UNCHANGED inflight_hi
        BY <3>1, <3>4 DEF StartupOnCongestionEvent
      <4>. QED  BY <2>0, <4>1
    <3>. QED  BY <3>3, <3>4
  <2>2. CASE ProbeBwDownStep
    <3>1. cycle.phase = "Down" /\ UpdateProbeDown(CountRounds(cycle))
      BY <2>2 DEF ProbeBwDownStep, ProbeBwDown
    <3>2. CutOutcome
      BY <3>1, DownCuts
    <3>. QED  BY <3>2 DEF CutOutcome
  <2>3. CASE ProbeBwOtherStep
    <3>1. \/ UpdateProbeUp(CountRounds(cycle))
          \/ /\ cycle.phase \in {"Cruise", "Refill"}
             /\ inflight_hi' = AdaptedHi(CountRounds(cycle), max_bw)
      BY <2>3 DEF ProbeBwOtherStep, ProbeBwUp, ProbeBwCruise, ProbeBwRefill,
                  UpdateProbeCruise, UpdateProbeRefill
    <3>2. CutOutcome
      BY <3>1, UpCuts, QuietCuts
    <3>. QED  BY <3>2 DEF CutOutcome
  <2>4. CASE ~StartupStep /\ ~ProbeBwDownStep /\ ~ProbeBwOtherStep
    <3>1. UNCHANGED inflight_hi
      BY <2>4 DEF Next, StartEvent, ModelOnCongestionEvent, DrainStep,
                  ProbeRttStep, FinishEvent, modelVars
    <3>. QED  BY <2>0, <3>1
  <2>. QED  BY <2>1, <2>2, <2>3, <2>4
<1>. QED
  BY <1>1, PhaseInvariant, PTL DEF Spec, OneCutPerProbe

(***************************************************************************)
(* The estimate                                                            *)
(***************************************************************************)
(* A bandwidth taken from samples of at least least, or none yet.          *)
FromSamples(bw, least) == bw = 0 \/ bw >= least

EstimateInv(least) ==
  /\ FromSamples(max_bw[0], least) /\ FromSamples(max_bw[1], least)
  /\ FromSamples(latest_max_bw, least) /\ FromSamples(bw_lo, least)
  /\ latest_max_bw = 0 =>
       max_bw[0] = 0 /\ max_bw[1] = 0 /\ bw_lo \in {0, Infinity}

LEMMA EstimateInit ==
  ASSUME NEW least \in Nat \ {0}, least <= Infinity
  PROVE  Init => EstimateInv(least)
BY InitAssumption DEF Init, ModelInit, EstimateInv, FromSamples

(* What a handler of PROBE_BW may do to the filter and the bound.          *)
EstimateOutcome ==
  /\ \/ max_bw' = max_bw
     \/ max_bw' = FilterAdvance(max_bw)
     \/ max_bw' = FilterAdvance(FilterAdvance(max_bw))
  /\ UNCHANGED bw_lo \/ bw_lo' = Infinity

LEMMA EntryEstimates ==
  ASSUME NEW c
  PROVE  /\ \A h, k : EnterProbeDown(c, h, k) => UNCHANGED <<max_bw, bw_lo>>
         /\ EnterProbeUp(c) => UNCHANGED <<max_bw, bw_lo>>
         /\ \A f, hi : EnterProbeCruise(c, f, hi) =>
              max_bw' \in {f, FilterAdvance(f)} /\ UNCHANGED bw_lo
         /\ \A f, n : EnterProbeRefill(c, f, n) =>
              max_bw' \in {f, FilterAdvance(f)} /\ bw_lo' = Infinity
         /\ \A f : StayInPhase(c, f) => max_bw' = f /\ UNCHANGED bw_lo
BY Zenon DEF EnterProbeDown, EnterProbeUp, EnterProbeCruise, EnterProbeRefill,
             StayInPhase, FilterAfterDown, loVars

LEMMA DownEstimates ==
  ASSUME NEW c, UpdateProbeDown(c)  PROVE EstimateOutcome
<1>. DEFINE sampled == c.rounds_in_phase = 1 /\ ev.end_of_round_trip
            advance == sampled /\ ~LastSampleAppLimited
            c1 == [c EXCEPT
                     !.is_sample_from_probing = @ /\ ~sampled,
                     !.has_advanced_max_bw = @ \/ advance]
            f1 == IF advance THEN FilterAdvance(max_bw) ELSE max_bw
            c2 == AdaptedCycle(c1)
            hi == AdaptedHi(c1, f1)
<1>1. f1 \in {max_bw, FilterAdvance(max_bw)}
  BY Zenon
<1>2. \/ EnterProbeRefill(c1, f1, 0)
      \/ EnterProbeRefill(c2, f1, 0)
      \/ EnterProbeCruise(c2, f1, hi)
      \/ StayInPhase(c2, f1)
  BY Zenon DEF UpdateProbeDown
<1>. HIDE DEF c1, f1, c2, hi
<1>3. /\ max_bw' \in {f1, FilterAdvance(f1)}
      /\ UNCHANGED bw_lo \/ bw_lo' = Infinity
  BY <1>2, EntryEstimates
<1>. QED
  BY <1>1, <1>3 DEF EstimateOutcome

LEMMA OtherEstimates ==
  ASSUME NEW c, \/ UpdateProbeUp(c)
                \/ UpdateProbeCruise(c)
                \/ UpdateProbeRefill(c)
  PROVE  EstimateOutcome
<1>1. CASE UpdateProbeUp(c)
  <2>1. \/ \E d, h, k : EnterProbeDown(d, h, k)
        \/ \E d : StayInPhase(d, max_bw)
    BY <1>1, Zenon DEF UpdateProbeUp
  <2>. QED  BY <2>1, EntryEstimates DEF EstimateOutcome
<1>2. CASE UpdateProbeCruise(c) \/ UpdateProbeRefill(c)
  <2>1. \/ \E d : EnterProbeRefill(d, max_bw, 0)
        \/ \E d : EnterProbeUp(d)
        \/ \E d : StayInPhase(d, max_bw)
    BY <1>2, Zenon DEF UpdateProbeCruise, UpdateProbeRefill
  <2>. QED  BY <2>1, EntryEstimates DEF EstimateOutcome
<1>. QED
  BY <1>1, <1>2

LEMMA EnterEstimates == ASSUME ProbeBwEnter PROVE EstimateOutcome
<1>1. \/ EnterProbeDown(cycle, FALSE, FALSE)
      \/ \E c : \/ EnterProbeCruise(c, max_bw, inflight_hi)
                \/ \E n : EnterProbeRefill(c, max_bw, n)
                \/ StayInPhase(c, max_bw)
  BY Zenon DEF ProbeBwEnter
<1>2. CASE EnterProbeDown(cycle, FALSE, FALSE)
  <2>1. UNCHANGED <<max_bw, bw_lo>>
    BY <1>2, EntryEstimates, Zenon
  <2>. QED  BY <2>1 DEF EstimateOutcome
<1>3. ASSUME NEW c, \/ EnterProbeCruise(c, max_bw, inflight_hi)
                    \/ \E n : EnterProbeRefill(c, max_bw, n)
                    \/ StayInPhase(c, max_bw)
      PROVE  EstimateOutcome
  BY <1>3, EntryEstimates DEF EstimateOutcome
<1>. QED
  BY <1>1, <1>2, <1>3, Zenon

(* Only the start of an event brings samples to the estimate; the handlers *)
(* only advance the filter and clear the bound.                            *)
LEMMA HandlerEstimates ==
  ASSUME Next, pc # "idle"
  PROVE  EstimateOutcome /\ UNCHANGED latest_max_bw
<1>1. CASE StartupStep \/ FinishEvent
  BY <1>1, Zenon DEF StartupStep, FinishEvent, modelVars, loopFrame, loVars,
                     EstimateOutcome
<1>2. CASE DrainStep
  BY <1>2, EnterEstimates, Zenon DEF DrainStep, loopFrame, loVars, EstimateOutcome
<1>3. CASE ProbeRttStep
  BY <1>3, EnterEstimates, Zenon DEF ProbeRttStep, loopFrame, loVars, EstimateOutcome
<1>4. CASE ProbeBwDownStep
  BY <1>4, DownEstimates, Zenon DEF ProbeBwDownStep, ProbeBwDown, loopFrame
<1>5. CASE ProbeBwOtherStep
  BY <1>5, OtherEstimates, Zenon
  DEF ProbeBwOtherStep, ProbeBwUp, ProbeBwCruise, ProbeBwRefill, loopFrame
<1>. QED
  BY <1>1, <1>2, <1>3, <1>4, <1>5 DEF Next, StartEvent

(* Advancing the filter forgets no bandwidth without another in its place. *)
LEMMA AdvanceKeeps ==
  ASSUME NEW least \in Nat \ {0}, NEW f \in [0..1 -> Nat]
  PROVE  /\ FilterAdvance(f) \in [0..1 -> Nat]
         /\ FilterGet(f) > 0 => FilterGet(FilterAdvance(f)) > 0
         /\ FromSamples(f[0], least) /\ FromSamples(f[1], least) =>
              /\ FromSamples(FilterAdvance(f)[0], least)
              /\ FromSamples(FilterAdvance(f)[1], least)
         /\ f[0] = 0 /\ f[1] = 0 => FilterAdvance(f) = f
<1>1. CASE f[1] = 0
  BY <1>1 DEF FilterAdvance
<1>2. CASE f[1] # 0
  <2>. DEFINE g == FilterAdvance(f)
  <2>1. g = [i \in 0..1 |-> IF i = 0 THEN f[1] ELSE 0]
    BY <1>2 DEF FilterAdvance
  <2>2. g \in [0..1 -> Nat] /\ g[0] = f[1] /\ g[1] = 0 /\ f[1] \in Nat
    BY <2>1
  <2>. HIDE DEF g
  <2>. QED  BY <1>2, <2>2 DEF FilterGet, Larger, FromSamples, g
<1>. QED
  BY <1>1, <1>2

(* No sample of a bandwidth is below least.                                *)
LeastSample(least) ==
  \A e \in EventInputs : FromSamples(e.sample_max_bandwidth, least)

(* The event's samples enter the filter only together with the latest      *)
(* maximum, and a loss lowers the bound to no less than that.              *)
LEMMA EventEstimates ==
  ASSUME NEW least \in Nat \ {0}, least <= Infinity, LeastSample(least),
         TypeOK, EstimateInv(least), NEW e \in EventInputs, NEW t \in Nat,
         NEW probing, ModelOnCongestionEvent(e, t, probing)
  PROVE  /\ EstimateInv(least)'
         /\ FilterGet(max_bw) > 0 => FilterGet(max_bw') > 0
         /\ FilterGet(max_bw) > 0 /\ bw_lo > 0 => bw_lo' > 0
<1>. DEFINE sample == e.sample_max_bandwidth
            updates == e.bytes_acked > 0
                       /\ (~e.sample_is_app_limited
                           \/ e.sample_max_bandwidth > FilterGet(max_bw))
            f  == IF updates THEN FilterUpdate(max_bw, sample) ELSE max_bw
            bw == Larger(latest_max_bw, sample)
            keep == 100 - params.beta
            old == IF bw_lo = Infinity THEN FilterGet(f) ELSE bw_lo
            kept == Pct(old, keep)
<1>1. /\ sample \in Nat /\ FromSamples(sample, least)
      /\ max_bw \in [0..1 -> Nat] /\ latest_max_bw \in Nat /\ bw_lo \in Nat
      /\ Infinity \in Nat /\ keep \in Nat
  BY InputAssumption, InitAssumption, ParamsAssumption
  DEF LeastSample, EventType, TypeOK, ModelTypeOK, ParamsType
<1>2. /\ max_bw' = f
      /\ latest_max_bw' \in {bw, sample} /\ (sample = 0 => latest_max_bw' = bw)
      /\ bw_lo' = bw_lo \/ bw_lo' = Larger(bw, kept)
  <2>1. latest_max_bw' = IF e.end_of_round_trip /\ sample > 0 THEN sample ELSE bw
    BY Zenon DEF ModelOnCongestionEvent
  <2>2. AdaptLowerBounds(e, f, bw, Larger(latest_max_inflight, e.sample_max_inflight),
                         probing)
    BY Zenon DEF ModelOnCongestionEvent
  <2>. HIDE DEF f, bw, kept
  <2>3. bw_lo' = bw_lo \/ bw_lo' = Larger(bw, kept)
    BY <2>2 DEF AdaptLowerBounds, loVars, kept, old, keep
  <2>4. max_bw' = f
    BY Zenon DEF ModelOnCongestionEvent, f
  <2>. QED  BY <2>1, <2>3, <2>4, <1>1
<1>3. /\ f \in [0..1 -> Nat] /\ f[0] = max_bw[0]
      /\ f[1] \in {max_bw[1], sample} /\ f[1] >= max_bw[1]
  <2>1. FilterUpdate(max_bw, sample) = [max_bw EXCEPT ![1] = Larger(sample, max_bw[1])]
    BY DEF FilterUpdate
  <2>2. max_bw[1] \in Nat
    BY <1>1
  <2>. QED  BY <1>1, <2>1, <2>2 DEF Larger
<1>. HIDE DEF f, sample, keep
<1>4. bw \in Nat /\ bw >= latest_max_bw /\ bw >= sample /\ bw \in {latest_max_bw, sample}
  BY <1>1 DEF Larger
<1>5. old \in Nat /\ kept \in Nat
  <2>1. FilterGet(f) \in Nat
    BY <1>3 DEF FilterGet, Larger
  <2>2. old \in Nat
    BY <1>1, <2>1
  <2>. HIDE DEF old
  <2>. QED  BY <1>1, <2>2, PctType
<1>. HIDE DEF bw
<1>6. /\ FromSamples(f[0], least) /\ FromSamples(f[1], least)
      /\ FromSamples(bw, least) /\ FromSamples(latest_max_bw', least)
      /\ latest_max_bw' \in Nat
  BY <1>1, <1>2, <1>3, <1>4 DEF EstimateInv, FromSamples
<1>7. latest_max_bw' = 0 => bw = 0 /\ sample = 0 /\ latest_max_bw = 0
  BY <1>1, <1>2, <1>4
<1>8. latest_max_bw = 0 /\ sample = 0 => f[0] = 0 /\ f[1] = 0
  BY <1>3 DEF EstimateInv
<1>9. bw = 0 => kept = 0
  <2>. SUFFICES ASSUME bw = 0 PROVE kept = 0
    OBVIOUS
  <2>1. latest_max_bw = 0 /\ sample = 0
    BY <1>1, <1>4
  <2>2. old = 0
    BY <1>8, <2>1 DEF EstimateInv, FilterGet, Larger
  <2>3. \A k \in Nat : Pct(0, k) = 0
    BY DEF Pct
  <2>. HIDE DEF old
  <2>. QED  BY <1>1, <2>2, <2>3
<1>. HIDE DEF kept
<1>10. Larger(bw, kept) \in Nat /\ FromSamples(Larger(bw, kept), least)
       /\ (bw = 0 => Larger(bw, kept) = 0) /\ Larger(bw, kept) >= bw
  BY <1>4, <1>5, <1>6, <1>9 DEF Larger, FromSamples
<1>11. EstimateInv(least)'
  <2>1. FromSamples(max_bw'[0], least) /\ FromSamples(max_bw'[1], least)
    BY <1>2, <1>6
  <2>2. FromSamples(bw_lo', least)
    BY <1>2, <1>10 DEF EstimateInv
  <2>3. latest_max_bw' = 0 => max_bw'[0] = 0 /\ max_bw'[1] = 0 /\ bw_lo' \in {0, Infinity}
    BY <1>2, <1>7, <1>8, <1>10 DEF EstimateInv
  <2>. QED  BY <1>6, <2>1, <2>2, <2>3 DEF EstimateInv, FromSamples
<1>12. FilterGet(max_bw) > 0 => FilterGet(max_bw') > 0
  <2>1. max_bw[0] \in Nat /\ max_bw[1] \in Nat /\ f[1] \in Nat
    BY <1>1, <1>3
  <2>. QED  BY <1>2, <1>3, <2>1 DEF FilterGet, Larger
<1>13. FilterGet(max_bw) > 0 /\ bw_lo > 0 => bw_lo' > 0
  <2>1. FilterGet(max_bw) > 0 => latest_max_bw > 0
    BY <1>1 DEF EstimateInv, FilterGet, Larger
  <2>2. latest_max_bw > 0 => Larger(bw, kept) > 0
    BY <1>1, <1>4, <1>10
  <2>. QED  BY <1>1, <1>2, <2>1, <2>2
<1>. QED
  BY <1>11, <1>12, <1>13

(* Once there is an estimate there always is one.                          *)
LEMMA EstimateNext ==
  ASSUME NEW least \in Nat \ {0}, least <= Infinity, LeastSample(least),
         TypeOK, EstimateInv(least), [Next]_vars
  PROVE  /\ EstimateInv(least)'
         /\ estimated_bw(max_bw) > 0 => estimated_bw(max_bw)' > 0
<1>1. max_bw \in [0..1 -> Nat] /\ bw_lo \in Nat /\ Infinity \in Nat /\ Infinity > 0
  BY InitAssumption DEF TypeOK, ModelTypeOK
<1>2. SUFFICES /\ EstimateInv(least)'
               /\ max_bw' \in [0..1 -> Nat] /\ bw_lo' \in Nat
               /\ FilterGet(max_bw) > 0 => FilterGet(max_bw') > 0
               /\ FilterGet(max_bw) > 0 /\ bw_lo > 0 => bw_lo' > 0
  <2>1. \A f \in [0..1 -> Nat] : FilterGet(f) \in Nat
    BY FilterTypes
  <2>2. \A a, b \in Nat : Smaller(a, b) > 0 <=> a > 0 /\ b > 0
    BY DEF Smaller
  <2>. QED  BY <1>1, <1>2, <2>1, <2>2 DEF estimated_bw
<1>3. CASE Next /\ pc = "idle"
  <2>1. PICK e \in EventInputs, dt \in TimeSteps : StartEvent(e, dt)
    BY <1>3 DEF Next, StartupStep, DrainStep, ProbeBwDownStep, ProbeBwOtherStep,
                ProbeRttStep, FinishEvent
  <2>2. now + dt \in Nat
    BY InputAssumption DEF TypeOK, ModelTypeOK
  <2>3. ModelOnCongestionEvent(e, now + dt, is_probing_for_bandwidth)
    BY <2>1 DEF StartEvent
  <2>4. max_bw' \in [0..1 -> Nat] /\ bw_lo' \in Nat
    BY <2>1, StartEventTypes DEF TypeOK, ModelTypeOK
  <2>. QED  BY <2>2, <2>3, <2>4, EventEstimates
<1>4. CASE Next /\ pc # "idle"
  <2>1. EstimateOutcome /\ UNCHANGED latest_max_bw
    BY <1>4, HandlerEstimates
  <2>2. /\ max_bw' \in [0..1 -> Nat]
        /\ FilterGet(max_bw) > 0 => FilterGet(max_bw') > 0
        /\ FromSamples(max_bw'[0], least) /\ FromSamples(max_bw'[1], least)
        /\ max_bw[0] = 0 /\ max_bw[1] = 0 => max_bw' = max_bw
    <3>. DEFINE g == FilterAdvance(max_bw)
    <3>1. /\ g \in [0..1 -> Nat]
          /\ FilterGet(max_bw) > 0 => FilterGet(g) > 0
          /\ FromSamples(g[0], least) /\ FromSamples(g[1], least)
          /\ max_bw[0] = 0 /\ max_bw[1] = 0 => g = max_bw
      BY <1>1, AdvanceKeeps DEF EstimateInv
    <3>. HIDE DEF g
    <3>2. /\ FilterAdvance(g) \in [0..1 -> Nat]
          /\ FilterGet(g) > 0 => FilterGet(FilterAdvance(g)) > 0
          /\ FromSamples(FilterAdvance(g)[0], least)
          /\ FromSamples(FilterAdvance(g)[1], least)
          /\ g[0] = 0 /\ g[1] = 0 => FilterAdvance(g) = g
      BY <3>1, AdvanceKeeps
    <3>3. max_bw' \in {max_bw, g, FilterAdvance(g)}
      BY <2>1 DEF EstimateOutcome, g
    <3>. QED  BY <1>1, <3>1, <3>2, <3>3 DEF EstimateInv
  <2>3. bw_lo' \in {bw_lo, Infinity}
    BY <2>1 DEF EstimateOutcome
  <2>4. EstimateInv(least)'
    BY <1>1, <2>1, <2>2, <2>3 DEF EstimateInv, FromSamples
  <2>. QED  BY <1>1, <2>2, <2>3, <2>4
<1>5. CASE UNCHANGED vars
  BY <1>1, <1>5 DEF vars, modelVars, loVars, EstimateInv
<1>. QED
  BY <1>3, <1>4, <1>5

(***************************************************************************)
(* The pace                                                                *)
(***************************************************************************)
(* Over this rtt either least window makes a rate the unit can express.    *)
ShortRtt(rtt) ==
  /\ rtt <= BitsPerByte * InitCwnd
  /\ rtt <= BitsPerByte * params.min_cwnd

ShortRtts ==
  /\ ShortRtt(InitMinRtt)
  /\ \A e \in EventInputs : e.sample_min_rtt # Infinity => ShortRtt(e.sample_min_rtt)

PaceInv ==
  /\ pacing_rate = 0 => estimated_bw(max_bw) > 0
  /\ pc = "idle" /\ pacing_rate = 0 => Pct(estimated_bw(max_bw), pacing_gain) = 0
  /\ cwnd >= InitCwnd \/ cwnd >= params.min_cwnd
  /\ ShortRtt(min_rtt)
  /\ ev.sample_min_rtt # Infinity => ShortRtt(ev.sample_min_rtt)

LEMMA PaceInit == ASSUME ShortRtts PROVE Init => PaceInv
BY InitAssumption DEF Init, ModelInit, NoEvent, ShortRtts, PaceInv

(* The update makes a zero rate of nothing but a positive estimate whose   *)
(* product with the gain is cut off: without an estimate it keeps the      *)
(* rate, before the first ack it takes the window over the rtt.            *)
LEMMA UpdatedRateZero ==
  ASSUME TypeOK, PaceInv, UpdatedPacingRate = 0
  PROVE  /\ estimated_bw(max_bw) > 0
         /\ Pct(estimated_bw(max_bw), pacing_gain) = 0
<1>1. /\ cwnd \in Nat /\ min_rtt \in Nat \ {0} /\ pacing_rate \in Nat
      /\ pacing_gain \in Nat
  BY DEF TypeOK, ModelTypeOK
<1>. DEFINE bw == estimated_bw(max_bw)
            target == Pct(bw, pacing_gain)
            initial == (BitsPerByte * cwnd) \div min_rtt
<1>2. bw \in Nat
  BY FilterTypes, SmallerType DEF estimated_bw, TypeOK, ModelTypeOK
<1>3. target \in Nat
  <2>. HIDE DEF bw
  <2>. QED  BY <1>1, <1>2, PctType
<1>4. initial > 0
  <2>1. min_rtt <= BitsPerByte * cwnd
    BY <1>1, InitAssumption, ParamsAssumption
    DEF PaceInv, ShortRtt, ParamsType, BitsPerByte
  <2>2. \A x \in Nat, y \in Nat \ {0} : y <= x => x \div y > 0
    OBVIOUS
  <2>3. BitsPerByte * cwnd \in Nat
    BY <1>1 DEF BitsPerByte
  <2>. QED  BY <1>1, <2>1, <2>2, <2>3
<1>5. \/ bw = 0 /\ UpdatedPacingRate = pacing_rate
      \/ UpdatedPacingRate = initial
      \/ bw # 0 /\ UpdatedPacingRate \in {target, Larger(target, pacing_rate)}
  BY DEF UpdatedPacingRate
<1>6. bw = 0 => pacing_rate # 0
  BY DEF PaceInv
<1>. HIDE DEF bw, target, initial
<1>7. bw > 0 /\ target = 0
  BY <1>1, <1>2, <1>3, <1>4, <1>5, <1>6 DEF Larger
<1>. QED
  BY <1>7 DEF bw, target

LEMMA PaceNext ==
  ASSUME ShortRtts, TypeOK, PaceInv, [Next]_vars,
         estimated_bw(max_bw) > 0 => estimated_bw(max_bw)' > 0
  PROVE  PaceInv'
<1>1. ASSUME NEW e \in EventInputs, NEW dt \in TimeSteps, StartEvent(e, dt)
      PROVE  PaceInv'
  <2>1. /\ ev' = e /\ UNCHANGED <<cwnd, pacing_rate>> /\ pc' = "modes"
        /\ \/ UNCHANGED min_rtt
           \/ /\ e.sample_min_rtt # Infinity
              /\ min_rtt' = e.sample_min_rtt
    BY <1>1 DEF StartEvent, ModelOnCongestionEvent, MinRttUpdate, rttVars
  <2>. QED  BY <2>1 DEF PaceInv, ShortRtts, ShortRtt
<1>2. CASE ProbeBwDownStep
  <2>1. /\ UNCHANGED <<cwnd, pacing_rate, ev>> /\ pc' # "idle"
        /\ \/ UNCHANGED min_rtt
           \/ /\ ev.sample_min_rtt # Infinity
              /\ min_rtt' = ev.sample_min_rtt
    BY <1>2 DEF ProbeBwDownStep, ProbeBwDown, MinRttExpired, ForceUpdateMinRtt,
                rttVars, loopFrame, NextMode
  <2>. QED  BY <2>1 DEF PaceInv, ShortRtt
<1>3. CASE StartupStep \/ DrainStep \/ ProbeBwOtherStep \/ ProbeRttStep
  <2>1. UNCHANGED <<cwnd, pacing_rate, ev, min_rtt>> /\ pc' # "idle"
    BY <1>3 DEF StartupStep, DrainStep, ProbeBwOtherStep, ProbeBwUp,
                ProbeBwCruise, ProbeBwRefill, ProbeRttStep, rttVars, loopFrame,
                NextMode
  <2>. QED  BY <2>1 DEF PaceInv, ShortRtt
<1>4. CASE FinishEvent
  <2>1. /\ pacing_rate' = UpdatedPacingRate
        /\ UNCHANGED <<min_rtt, pacing_gain, max_bw, bw_lo>>
        /\ ev'.sample_min_rtt = Infinity
    BY <1>4 DEF FinishEvent, modelVars, gainVars, rttVars, loVars, NoEvent
  <2>2. cwnd' >= params.min_cwnd
    <3>. DEFINE bound == Smaller(IF full_bw_reached
                     THEN Smaller(cwnd + ev.bytes_acked, target_cwnd + ev.max_ack_height)
                     ELSE IF cwnd < target_cwnd \/ cwnd < 2 * InitCwnd
                     THEN cwnd + ev.bytes_acked ELSE cwnd, cwnd_upper_limit)
    <3>1. cwnd' = Larger(bound, params.min_cwnd)
      BY <1>4 DEF FinishEvent, UpdatedCwnd
    <3>2. cwnd' \in Nat /\ params.min_cwnd \in Nat
      BY <1>4, FinishEventTypes, ParamsAssumption DEF ParamsType, TypeOK, ModelTypeOK
    <3>. HIDE DEF bound
    <3>. QED  BY <3>1, <3>2 DEF Larger
  <2>3. estimated_bw(max_bw)' = estimated_bw(max_bw)
    BY <2>1 DEF estimated_bw
  <2>4. Pct(estimated_bw(max_bw), pacing_gain)' = Pct(estimated_bw(max_bw), pacing_gain)
    BY <2>1, <2>3
  <2>. QED  BY <2>1, <2>2, <2>3, <2>4, UpdatedRateZero DEF PaceInv, ShortRtt
<1>5. CASE UNCHANGED vars
  <2>1. /\ UNCHANGED <<pacing_rate, pc, cwnd, min_rtt, ev>>
        /\ UNCHANGED <<max_bw, bw_lo, pacing_gain>>
    BY <1>5 DEF vars, modelVars, gainVars, rttVars, loVars, algoVars
  <2>2. estimated_bw(max_bw)' = estimated_bw(max_bw)
    BY <2>1 DEF estimated_bw
  <2>3. Pct(estimated_bw(max_bw), pacing_gain)' = Pct(estimated_bw(max_bw), pacing_gain)
    BY <2>1, <2>2
  <2>. QED  BY <2>1, <2>2, <2>3 DEF PaceInv, ShortRtt
<1>. QED
  BY <1>1, <1>2, <1>3, <1>4, <1>5 DEF Next

LEMMA PaceInvariant ==
  ASSUME NEW least \in Nat \ {0}, least <= Infinity, LeastSample(least), ShortRtts
  PROVE  Spec => [](EstimateInv(least) /\ PaceInv)
<1>1. Init => EstimateInv(least) /\ PaceInv
  BY EstimateInit, PaceInit
<1>2. TypedBudget /\ EstimateInv(least) /\ PaceInv /\ [Next]_vars =>
        (EstimateInv(least) /\ PaceInv)'
  <2>. SUFFICES ASSUME TypeOK, EstimateInv(least), PaceInv, [Next]_vars
                PROVE  EstimateInv(least)' /\ PaceInv'
    BY DEF TypedBudget
  <2>1. /\ EstimateInv(least)'
        /\ estimated_bw(max_bw) > 0 => estimated_bw(max_bw)' > 0
    BY EstimateNext
  <2>. QED  BY <2>1, PaceNext
<1>. QED
  BY <1>1, <1>2, TypedBudgetInvariant, PTL DEF Spec

(* The assert of bbr_algorithm.cpp:80 fails only for a positive estimate   *)
(* whose product with the gain is cut off to zero, whatever the sampler    *)
(* reports, as long as no rtt is so long that a least window per rtt is    *)
(* cut off to no rate at all.  In particular an estimate, once there is    *)
(* one, is never lost to losses, cleared bounds or filter advances.        *)
THEOREM ZeroRateIsRounding ==
  ASSUME ShortRtts
  PROVE  Spec => []ZeroRateOnlyByRounding
<1>1. PICK least \in Nat \ {0} : least = 1
  OBVIOUS
<1>2. least <= Infinity /\ LeastSample(least)
  BY <1>1, InitAssumption, InputAssumption DEF LeastSample, FromSamples, EventType
<1>3. Spec => [](EstimateInv(least) /\ PaceInv)
  BY <1>2, PaceInvariant
<1>4. PaceInv => ZeroRateOnlyByRounding
  BY DEF PaceInv, ZeroRateOnlyByRounding
<1>. QED
  BY <1>3, <1>4, PTL

(* Every gain makes at least one unit of rate of the bandwidth least.      *)
GainsKeep(least) ==
  /\ params.startup_pacing_gain * least >= 100
  /\ params.drain_pacing_gain * least >= 100
  /\ params.probe_bw_probe_up_pacing_gain * least >= 100
  /\ params.probe_bw_probe_down_pacing_gain * least >= 100
  /\ params.probe_bw_default_pacing_gain * least >= 100

LEMMA GainKeeps ==
  ASSUME NEW least \in Nat \ {0}, GainsKeep(least), TypeOK, GainsMatchMode,
         pc = "idle"
  PROVE  pacing_gain * least >= 100
<1>1. pacing_gain =
        CASE cur_mode = "STARTUP"   -> params.startup_pacing_gain
          [] cur_mode = "DRAIN"     -> params.drain_pacing_gain
          [] cur_mode = "PROBE_BW"  -> PhasePacingGain(cycle.phase)
          [] cur_mode = "PROBE_RTT" -> 100
  BY DEF GainsMatchMode, TypeOK, Modes
<1>2. \/ pacing_gain = params.startup_pacing_gain
      \/ pacing_gain = params.drain_pacing_gain
      \/ pacing_gain = PhasePacingGain(cycle.phase)
      \/ pacing_gain = 100
  BY <1>1 DEF TypeOK, Modes
<1>3. PhasePacingGain(cycle.phase) * least >= 100
  BY DEF PhasePacingGain, GainsKeep
<1>4. 100 * least >= 100
  OBVIOUS
<1>. QED
  BY <1>2, <1>3, <1>4 DEF GainsKeep

(* So the assert never fails where no sample is too small for the gains:   *)
(* with the gains of Bbrparams, where no sample is below 3 bits per second.*)
THEOREM PacingStaysPositive ==
  ASSUME NEW least \in Nat \ {0}, least <= Infinity, LeastSample(least),
         GainsKeep(least), ShortRtts
  PROVE  Spec => [](pc = "idle" => pacing_rate > 0)
<1>1. ASSUME TypeOK, EstimateInv(least), PaceInv, GainsMatchMode, pc = "idle"
      PROVE  pacing_rate > 0
  <2>. SUFFICES ASSUME pacing_rate = 0 PROVE FALSE
    BY <1>1 DEF TypeOK
  <2>. DEFINE bw == estimated_bw(max_bw)
  <2>1. bw > 0 /\ Pct(bw, pacing_gain) = 0
    BY <1>1 DEF PaceInv
  <2>2. bw \in Nat /\ bw \in {max_bw[0], max_bw[1], bw_lo}
    BY <1>1 DEF estimated_bw, FilterGet, Larger, Smaller, TypeOK, ModelTypeOK
  <2>. HIDE DEF bw
  <2>3. bw >= least
    BY <1>1, <2>1, <2>2 DEF EstimateInv, FromSamples
  <2>4. pacing_gain \in Nat /\ pacing_gain * least >= 100
    BY <1>1, GainKeeps DEF TypeOK, ModelTypeOK
  <2>5. \A g, l, b \in Nat : b >= l => b * g >= g * l
    OBVIOUS
  <2>6. bw * pacing_gain \in Nat /\ bw * pacing_gain >= 100
    BY <2>2, <2>3, <2>4, <2>5
  <2>7. \A n \in Nat : n >= 100 => n \div 100 > 0
    OBVIOUS
  <2>. QED  BY <2>1, <2>6, <2>7 DEF Pct
<1>2. Spec => [](EstimateInv(least) /\ PaceInv)
  BY PaceInvariant
<1>3. TypedBudget /\ EstimateInv(least) /\ PaceInv /\ GainsMatchMode =>
        (pc = "idle" => pacing_rate > 0)
  BY <1>1 DEF TypedBudget
<1>. QED
  BY <1>2, <1>3, TypedBudgetInvariant, GainsFollowMode, PTL

(***************************************************************************)
(* The visits of PROBE_RTT                                                 *)
(***************************************************************************)
(* What a visit knows of its past: an exit time counts from the tick it    *)
(* saw inflight drained, and the minimum rtt has been sampled since the    *)
(* entry.                                                                  *)
VisitInv ==
  /\ rtt_entered \in Int /\ rtt_entered <= now
  /\ rtt_drained \in Int /\ rtt_drained <= now
  /\ cur_mode = "PROBE_RTT" /\ exit_time # Infinity =>
       rtt_drained >= 0 /\ exit_time >= rtt_drained + params.probe_rtt_duration
  /\ rtt_entered >= 0 => rtt_entered <= min_rtt_timestamp

LEMMA HistoryObserves == HSpec => Spec
<1>1. HInit => Init
  BY DEF HInit
<1>2. [HNext]_hvars => [Next]_vars
  BY DEF HNext, hvars
<1>. QED
  BY <1>1, <1>2, PTL DEF HSpec, Spec

LEMMA VisitInit == HInit => VisitInv
BY DEF HInit, Init, ModelInit, VisitInv

(* Only phase Down, with an expired minimum rtt, enters.                   *)
LEMMA EntryOnExpiry ==
  ASSUME TypeOK, Next, EntersProbeRtt
  PROVE  /\ MinRttExpired /\ min_rtt_timestamp' = now
         /\ exit_time' = Infinity /\ now' = now
<1>1. ProbeBwDownStep
  <2>1. ~ProbeRttStep /\ ~FinishEvent /\ ~StartupStep /\ ~DrainStep
    BY NextModeCases DEF EntersProbeRtt, ProbeRttStep, FinishEvent, StartupStep,
                         DrainStep
  <2>2. ~ProbeBwOtherStep /\ \A e, dt : ~StartEvent(e, dt)
    BY NextModeCases DEF EntersProbeRtt, ProbeBwOtherStep, StartEvent
  <2>. QED  BY <2>1, <2>2 DEF Next
<1>2. PICK m \in {"PROBE_BW", "PROBE_RTT"} :
        /\ ProbeBwDown(m) /\ NextMode(m)
        /\ m = "PROBE_RTT" => ProbeRttEnter
  BY <1>1 DEF ProbeBwDownStep
<1>3. m = "PROBE_RTT"
  BY <1>2, NextModeCases DEF EntersProbeRtt
<1>4. MinRttExpired /\ ForceUpdateMinRtt
  BY <1>2, <1>3 DEF ProbeBwDown
<1>. QED
  BY <1>1, <1>2, <1>3, <1>4 DEF ForceUpdateMinRtt, ProbeRttEnter, ProbeBwDownStep,
                                loopFrame

(* What a step can do to a visit that is neither begun by it nor outside.  *)
LEMMA StayingStep ==
  ASSUME TypeOK, Next, cur_mode = "PROBE_RTT", exit_time' # Infinity
  PROVE  \/ UNCHANGED exit_time
         \/ /\ pc = "modes" /\ now' = now
            /\ SeenDrained
            /\ exit_time' = now + params.probe_rtt_duration
<1>1. ~StartupStep /\ ~DrainStep /\ ~ProbeBwDownStep /\ ~ProbeBwOtherStep
  BY DEF StartupStep, DrainStep, ProbeBwDownStep, ProbeBwOtherStep
<1>2. CASE ProbeRttStep
  BY <1>2 DEF ProbeRttStep, ProbeRttOnCongestionEvent, SeenDrained, loopFrame
<1>3. CASE ~ProbeRttStep
  BY <1>1, <1>3 DEF Next, StartEvent, FinishEvent
<1>. QED
  BY <1>2, <1>3

(* Time does not go back, and samples keep the timestamp or renew it.      *)
LEMMA ClockAdvances ==
  ASSUME TypeOK, Next
  PROVE  /\ now' >= now
         /\ min_rtt_timestamp' \in {min_rtt_timestamp, now'}
<1>1. ASSUME NEW e \in EventInputs, NEW dt \in TimeSteps, StartEvent(e, dt)
      PROVE  now' >= now /\ min_rtt_timestamp' \in {min_rtt_timestamp, now'}
  <2>1. now' = now + dt /\ now \in Nat /\ dt \in Nat
    BY <1>1, InputAssumption DEF StartEvent, TypeOK, ModelTypeOK
  <2>. QED
    BY <1>1, <2>1 DEF StartEvent, ModelOnCongestionEvent, MinRttUpdate, rttVars
<1>2. now \in Nat
  BY DEF TypeOK, ModelTypeOK
<1>3. CASE ProbeBwDownStep
  BY <1>2, <1>3 DEF ProbeBwDownStep, ProbeBwDown, ForceUpdateMinRtt, rttVars, loopFrame
<1>4. CASE StartupStep \/ DrainStep \/ ProbeBwOtherStep \/ ProbeRttStep \/ FinishEvent
  BY <1>2, <1>4 DEF StartupStep, DrainStep, ProbeBwOtherStep, ProbeBwUp,
     ProbeBwCruise, ProbeBwRefill, ProbeRttStep, FinishEvent, modelVars, rttVars,
     loopFrame
<1>. QED
  BY <1>1, <1>3, <1>4 DEF Next

LEMMA VisitNext ==
  ASSUME TypeOK, TypeOK', VisitInv, [HNext]_hvars
  PROVE  VisitInv'
<1>1. CASE UNCHANGED hvars
  BY <1>1 DEF hvars, historyVars, vars, modelVars, rttVars, algoVars, VisitInv
<1>2. CASE HNext
  <2>. Next /\ ObserveProbeRtt
    BY <1>2 DEF HNext
  <2>1. /\ now \in Nat /\ now' \in Nat /\ rtt_entered \in Int /\ rtt_entered <= now
        /\ min_rtt_timestamp \in Nat /\ params.probe_rtt_duration \in Nat
    BY ParamsAssumption DEF ParamsType, TypeOK, ModelTypeOK, VisitInv
  <2>0. now' >= now /\ rtt_drained \in Int /\ rtt_drained <= now
    BY ClockAdvances DEF VisitInv
  <2>2. rtt_drained' \in Int /\ rtt_drained' <= now'
    <3>1. rtt_drained' \in {-1, now, rtt_drained}
      BY Zenon DEF ObserveProbeRtt
    <3>. QED  BY <2>0, <2>1, <3>1
  <2>3. CASE EntersProbeRtt
    <3>1. rtt_entered' = now /\ now' = now /\ min_rtt_timestamp' = now
          /\ exit_time' = Infinity
      BY <2>3, EntryOnExpiry DEF ObserveProbeRtt
    <3>. QED  BY <2>1, <2>2, <3>1 DEF VisitInv
  <2>4. CASE ~EntersProbeRtt
    <3>1. rtt_entered' = rtt_entered
      BY <2>4 DEF ObserveProbeRtt
    <3>2. now' >= now /\ min_rtt_timestamp' \in {min_rtt_timestamp, now'}
      BY ClockAdvances
    <3>3. ASSUME cur_mode' = "PROBE_RTT", exit_time' # Infinity
          PROVE  /\ rtt_drained' >= 0
                 /\ exit_time' >= rtt_drained' + params.probe_rtt_duration
      <4>1. cur_mode = "PROBE_RTT"
        BY <2>4, <3>3 DEF EntersProbeRtt
      <4>2. CASE UNCHANGED exit_time
        <5>1. rtt_drained >= 0 /\ exit_time >= rtt_drained + params.probe_rtt_duration
          BY <3>3, <4>1, <4>2 DEF VisitInv
        <5>2. rtt_drained' = rtt_drained
          BY <2>0, <3>3, <5>1 DEF ObserveProbeRtt
        <5>. QED  BY <4>2, <5>1, <5>2
      <4>3. CASE /\ pc = "modes" /\ now' = now /\ SeenDrained
                 /\ exit_time' = now + params.probe_rtt_duration
        <5>1. rtt_drained' = IF rtt_drained < 0 THEN now ELSE rtt_drained
          BY <2>0, <3>3, <4>3 DEF ObserveProbeRtt
        <5>. QED  BY <2>0, <2>1, <4>3, <5>1
      <4>. QED  BY <3>3, <4>1, <4>2, <4>3, StayingStep
    <3>. QED  BY <2>1, <2>2, <3>1, <3>2, <3>3 DEF VisitInv
  <2>. QED  BY <2>3, <2>4
<1>. QED
  BY <1>1, <1>2

LEMMA VisitInvariant == HSpec => [](TypeOK /\ VisitInv)
<1>1. HSpec => []TypeOK
  BY HistoryObserves, TypeCorrect, PTL
<1>. QED
  BY <1>1, VisitInit, VisitNext, PTL DEF HSpec

(* No visit of PROBE_RTT is cut short: whatever an earlier one left in     *)
(* exit_time, the mode is left only when more than probe_rtt_duration has  *)
(* passed since this visit saw inflight drained to the target.             *)
THEOREM VisitsDwell == HSpec => ProbeRttDwells
<1>1. TypeOK /\ VisitInv /\ [HNext]_hvars =>
        [LeavesProbeRtt =>
           rtt_drained >= 0 /\ now - rtt_drained > params.probe_rtt_duration]_hvars
  <2>. SUFFICES ASSUME TypeOK, VisitInv, Next, LeavesProbeRtt
                PROVE  rtt_drained >= 0 /\ now - rtt_drained > params.probe_rtt_duration
    BY DEF HNext
  <2>1. ProbeRttStep
    <3>1. cur_mode = "PROBE_RTT" /\ cur_mode' # "PROBE_RTT"
      BY DEF LeavesProbeRtt
    <3>. QED
      BY <3>1 DEF Next, StartEvent, StartupStep, DrainStep, ProbeBwDownStep,
                  ProbeBwOtherStep, FinishEvent
  <2>2. PICK m : ProbeRttOnCongestionEvent(m) /\ NextMode(m)
    BY <2>1 DEF ProbeRttStep
  <2>3. m # "PROBE_RTT" /\ cur_mode = "PROBE_RTT"
    BY <2>2, NextModeCases DEF LeavesProbeRtt
  <2>4. exit_time # Infinity /\ now > exit_time
    BY <2>2, <2>3 DEF ProbeRttOnCongestionEvent
  <2>5. /\ now \in Nat /\ exit_time \in Nat /\ rtt_drained \in Int
        /\ params.probe_rtt_duration \in Nat
    BY ParamsAssumption DEF ParamsType, TypeOK, ModelTypeOK, ProbeRttTypeOK, VisitInv
  <2>. QED  BY <2>3, <2>4, <2>5 DEF VisitInv
<1>. QED
  BY <1>1, VisitInvariant, PTL DEF HSpec, ProbeRttDwells

(* Two entries are at least min_rtt_win apart: each renews the timestamp   *)
(* the next has to wait out, even when its sample is larger than the       *)
(* minimum it replaces.                                                    *)
THEOREM VisitsSpaced == HSpec => ProbeRttSpaced
<1>1. TypeOK /\ VisitInv /\ [HNext]_hvars =>
        [EntersProbeRtt /\ rtt_entered >= 0 =>
           now - rtt_entered >= params.min_rtt_win]_hvars
  <2>. SUFFICES ASSUME TypeOK, VisitInv, Next, EntersProbeRtt, rtt_entered >= 0
                PROVE  now - rtt_entered >= params.min_rtt_win
    BY DEF HNext
  <2>1. now >= min_rtt_timestamp + params.min_rtt_win
    BY EntryOnExpiry DEF MinRttExpired
  <2>2. /\ now \in Nat /\ min_rtt_timestamp \in Nat /\ rtt_entered \in Int
        /\ params.min_rtt_win \in Nat
    BY ParamsAssumption DEF ParamsType, TypeOK, ModelTypeOK, VisitInv
  <2>. QED  BY <2>1, <2>2 DEF VisitInv
<1>. QED
  BY <1>1, VisitInvariant, PTL DEF HSpec, ProbeRttSpaced
=============================================================================
