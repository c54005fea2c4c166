------------------------- MODULE WindowedFilterSpec -------------------------
(***************************************************************************)
(* The filter alone, fed any samples, next to the record of those in the   *)
(* window: what its three estimates are worth compared with them.          *)
(***************************************************************************)
EXTENDS WindowedFilter

CONSTANTS
  Samples,      \* values a sample may have; zero is the unset value
  TimeSteps,    \* rounds that may pass between two updates
  MaxTime       \* bound: no update after this round

ASSUME SamplesAssumption ==
  /\ Samples \subseteq Nat \ {0}
  /\ TimeSteps \subseteq Nat
  /\ MaxTime \in Nat

VARIABLES
  last_time,    \* round of the last update
  taken         \* history: the [sample, time] pairs given to update that are
                \* not older than the window

fvars == <<estimates, last_time, taken>>

FilterInit ==
  /\ estimates = reset(0, 0)
  /\ last_time = 0
  /\ taken = {}

Update(sample, time) ==
  /\ time <= MaxTime
  /\ estimates' = update(sample, time)
  /\ last_time' = time
  /\ taken' = {s \in taken : time - s.time <= WindowLength}
                \union {Estimate(sample, time)}

FilterNext == \E sample \in Samples, step \in TimeSteps :
                Update(sample, last_time + step)

FilterSpec == FilterInit /\ [][FilterNext]_fvars

-----------------------------------------------------------------------------
FilterTypeOK ==
  /\ estimates \in [1..3 -> [sample : Samples \union {0}, time : 0..MaxTime]]
  /\ last_time \in 0..MaxTime
  /\ taken \subseteq [sample : Samples, time : 0..MaxTime]

(* After an update every estimate is a sample that was really given, and   *)
(* none has left the window: the two promotions of update are enough,      *)
(* whatever time passed since the last call (windowed_filter.h:51-54).     *)
EstimatesAreCurrent ==
  taken # {} => \A i \in 1..3 : estimates[i] \in taken

(* The three estimates are ranked: values fall and times rise.             *)
EstimatesRanked ==
  \A i \in 1..2 : /\ estimates[i].sample >= estimates[i + 1].sample
                  /\ estimates[i].time <= estimates[i + 1].time

(* An estimate is the largest of the samples taken since its own round:    *)
(* promoting the lower estimates, restarting them from the later part of   *)
(* the window, or skipping rounds never leaves one behind a newer, larger  *)
(* sample.  (The quarters of update's comments bound no more than this: a  *)
(* sample stored by a promotion is overwritten by the next update, which   *)
(* finds the two best estimates equal and old, windowed_filter.h:43-62.)   *)
LargestSince ==
  \A i \in 1..3 : \A s \in taken :
    s.time > estimates[i].time => s.sample < estimates[i].sample
=============================================================================
