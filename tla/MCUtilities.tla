---------------------------- MODULE MCUtilities -----------------------------
(***************************************************************************)
(* The templates under common/ that keep a state: each behaviour exercises *)
(* one of them.  The filter has the window the bandwidth sampler gives it  *)
(* (5 rounds), the unwrapper a type of sixteen values.                     *)
(***************************************************************************)
EXTENDS WindowedFilterSpec, Unwrapper

VARIABLE unit     \* the template under test

UtilitiesInit ==
  /\ unit \in {"filter", "unwrapper"}
  /\ FilterInit
  /\ UnwrapperInit
  /\ unit = "filter" => promoted

UtilitiesNext ==
  \/ unit = "filter" /\ FilterNext /\ UNCHANGED <<uvars, unit>>
  \/ unit = "unwrapper" /\ UnwrapperNext /\ UNCHANGED <<fvars, unit>>

UtilitiesSpec == UtilitiesInit /\ [][UtilitiesNext]_<<fvars, uvars, unit>>
=============================================================================
