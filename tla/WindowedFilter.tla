--------------------------- MODULE WindowedFilter ---------------------------
(***************************************************************************)
(* WindowedFilter<uint64_t, MaxFilter<uint64_t>, int, int>                 *)
(* (common/windowed_filter.h): the largest samples of a sliding window,    *)
(* kept as three estimates, the best one first.  Times are round counts.   *)
(***************************************************************************)
EXTENDS Integers

CONSTANT WindowLength   \* window_length_

ASSUME WindowAssumption == WindowLength \in Nat

VARIABLE estimates      \* estimates_[3], as a function on 1..3

(* A mutant: the two fields are taken in the wrong order.                  *)
EstimateSwapped(sample, time) == [sample |-> time, time |-> sample]

Estimate(sample, time) == [sample |-> sample, time |-> time]

EstimatesType == [1..3 -> [sample : Nat, time : Nat]]

reset(sample, time) == [i \in 1..3 |-> Estimate(sample, time)]

(* A new best, or a silence longer than the window, restarts the filter.   *)
Reinitialises(sample, time) ==
  \/ estimates[1].sample = 0
  \/ sample >= estimates[1].sample
  \/ time - estimates[3].time > WindowLength

(* A mutant: a new second best leaves the third one behind.                *)
RankedKeepsThird(sample, time) ==
  IF sample >= estimates[2].sample
    THEN [estimates EXCEPT ![2] = Estimate(sample, time)]
    ELSE estimates

(* A mutant: a sample that only equals the second best is not its renewal. *)
RankedStrict(sample, time) ==
  CASE sample > estimates[2].sample ->
         [estimates EXCEPT ![2] = Estimate(sample, time),
                           ![3] = Estimate(sample, time)]
    [] sample < estimates[2].sample /\ sample >= estimates[3].sample ->
         [estimates EXCEPT ![3] = Estimate(sample, time)]
    [] OTHER -> estimates

Ranked(sample, time) ==
  CASE sample >= estimates[2].sample ->
         [estimates EXCEPT ![2] = Estimate(sample, time),
                           ![3] = Estimate(sample, time)]
    [] sample < estimates[2].sample /\ sample >= estimates[3].sample ->
         [estimates EXCEPT ![3] = Estimate(sample, time)]
    [] OTHER -> estimates

(* A mutant: the promotion is not repeated.                                *)
PromotedOnce(es, sample, time) ==
  [i \in 1..3 |-> IF i = 3 THEN Estimate(sample, time) ELSE es[i + 1]]

(* The best estimate has left the window: promote the others, twice when   *)
(* the second one has left it too.                                         *)
Promoted(es, sample, time) ==
  LET once == [i \in 1..3 |-> IF i = 3 THEN Estimate(sample, time) ELSE es[i + 1]]
  IN  IF time - once[1].time > WindowLength
        THEN [once EXCEPT ![1] = once[2], ![2] = once[3]]
        ELSE once

(* A quarter, or half, of the window without a better sample: the lower    *)
(* estimates are taken from the later part of the window.                  *)
Renewed(es, sample, time) ==
  LET stale(i, part) == /\ es[i].sample = es[i - 1].sample
                        /\ time - es[i].time > part
  IN  CASE stale(2, WindowLength \div 4) ->
             [es EXCEPT ![2] = Estimate(sample, time),
                        ![3] = Estimate(sample, time)]
        [] ~stale(2, WindowLength \div 4) /\ stale(3, WindowLength \div 2) ->
             [es EXCEPT ![3] = Estimate(sample, time)]
        [] OTHER -> es

update(sample, time) ==
  IF Reinitialises(sample, time)
    THEN reset(sample, time)
    ELSE LET ranked == Ranked(sample, time)
         IN  IF time - ranked[1].time > WindowLength
               THEN Promoted(ranked, sample, time)
               ELSE Renewed(ranked, sample, time)

get_best == estimates[1].sample
=============================================================================
