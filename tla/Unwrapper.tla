----------------------------- MODULE Unwrapper ------------------------------
(***************************************************************************)
(* Unwrapper<U> (common/unwrapper.h): numbers of an unsigned type U are    *)
(* turned back into the numbers they were cut from, each taken as close    *)
(* to the last one as it can be.  Around it a stream of numbers that are   *)
(* reordered, and lost, within half the range of U of each other.          *)
(***************************************************************************)
EXTENDS Integers

CONSTANTS
  Range,       \* number of values of U, a power of two
  MaxNumber    \* bound: the stream's numbers

ASSUME RangeAssumption ==
  Range \in Nat \ {0} /\ Range % 2 = 0 /\ MaxNumber \in Nat

VARIABLES
  last_value,  \* last_value_; -1: none yet
  promoted,    \* U is narrower than int: differences of two U are signed
  number,      \* history: the number behind last_value
  base         \* history: what the stream's numbers have lost for good

uvars == <<last_value, promoted, number, base>>

kBreakpoint == Range \div 2
Cropped(n) == n % Range
Difference(value, prev_value) ==
  IF promoted THEN value - prev_value ELSE Cropped(value - prev_value)

is_newer(value, prev_value) ==
  \/ Difference(value, prev_value) = kBreakpoint /\ value > prev_value
  \/ /\ Difference(value, prev_value) # kBreakpoint
     /\ value # prev_value
     /\ Cropped(value - prev_value) < kBreakpoint

(* A mutant: going backwards may end below zero.                           *)
UnwrappedBelowZero(value) ==
  LET delta == Difference(value, Cropped(last_value))
      newer == is_newer(value, Cropped(last_value))
  IN  CASE last_value = -1 -> value
        [] last_value # -1 /\ newer /\ delta < 0 -> last_value + delta + Range
        [] last_value # -1 /\ ~newer /\ delta > 0 -> last_value + delta - Range
        [] OTHER -> last_value + delta

(* Forwards over the end of the range, or backwards over its start unless  *)
(* that ends below zero.                                                   *)
unwrap_without_update(value) ==
  LET delta == Difference(value, Cropped(last_value))
      newer == is_newer(value, Cropped(last_value))
  IN  CASE last_value = -1 -> value
        [] last_value # -1 /\ newer /\ delta < 0 -> last_value + delta + Range
        [] /\ last_value # -1 /\ ~newer /\ delta > 0
           /\ last_value + delta - Range >= 0 -> last_value + delta - Range
        [] OTHER -> last_value + delta

UnwrapperInit ==
  /\ last_value = -1 /\ promoted \in BOOLEAN
  /\ number = -1 /\ base = 0

(* unwrap of the next number that arrives.  The first one loses the ranges *)
(* before its own; one that goes back before what was lost is taken for    *)
(* one of the next range.                                                  *)
Unwrap(n) ==
  /\ number = -1 \/ (n - number < kBreakpoint /\ number - n < kBreakpoint)
  /\ last_value' = unwrap_without_update(Cropped(n))
  /\ number' = n
  /\ base' = CASE number = -1 -> n - Cropped(n)
              [] number # -1 /\ n < base -> base - Range
              [] OTHER -> base
  /\ UNCHANGED promoted

UnwrapperNext == \E n \in 0..MaxNumber : Unwrap(n)

UnwrapperSpec == UnwrapperInit /\ [][UnwrapperNext]_uvars

(* A stream disordered by less than half the range is restored, up to the  *)
(* ranges it began behind, never below zero, and alike for types narrower  *)
(* than int and for others (unwrapper.h:19-48).                            *)
StreamRestored ==
  number # -1 => last_value = number - base /\ last_value >= 0
=============================================================================
