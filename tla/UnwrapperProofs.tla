-------------------------- MODULE UnwrapperProofs ---------------------------
(***************************************************************************)
(* The proof that Unwrapper restores a disordered stream, for every width  *)
(* of the type and every length of the stream.                             *)
(***************************************************************************)
EXTENDS Unwrapper, TLAPS

-----------------------------------------------------------------------------
(* Arithmetic modulo Range.                                                *)

LEMMA Halves == kBreakpoint \in Nat \ {0} /\ Range = 2 * kBreakpoint /\ Range \in Nat
BY RangeAssumption DEF kBreakpoint

LEMMA Cropping ==
  ASSUME NEW n \in Int
  PROVE  /\ Cropped(n) \in 0..Range - 1
         /\ \E q \in Int : n = q * Range + Cropped(n)
<1>1. \A r \in Nat \ {0} : /\ n % r \in 0..r - 1
                           /\ n \div r \in Int
                           /\ n = ((n \div r) * r) + (n % r)
  OBVIOUS
<1>. QED
  BY <1>1, RangeAssumption DEF Cropped

(* A number is cut to the rest it leaves, however the rest is written.     *)
LEMMA CroppedRest ==
  ASSUME NEW n \in Int, NEW q \in Int, NEW r \in 0..Range - 1, n = q * Range + r
  PROVE  Cropped(n) = r
<1>1. PICK p \in Int : n = p * Range + Cropped(n)
  BY Cropping
<1>2. Cropped(n) \in 0..Range - 1 /\ Range \in Nat
  BY Cropping, Halves
<1>3. (p - q) * Range = r - Cropped(n)
  BY <1>1, <1>2
<1>4. \A k, m \in Int : m > 0 /\ k >= 1 => k * m >= m
  OBVIOUS
<1>5. \A k, m \in Int : m > 0 /\ k <= -1 => k * m <= -m
  OBVIOUS
<1>6. ~(p - q >= 1) /\ ~(p - q <= -1)
  BY <1>2, <1>3, <1>4, <1>5
<1>7. p = q
  BY <1>6
<1>. QED
  BY <1>1, <1>2, <1>7

-----------------------------------------------------------------------------
(* What was lost is a number of whole ranges, so that last_value and the   *)
(* number behind it are cut to the same.                                   *)
RestoredInv ==
  /\ promoted \in BOOLEAN
  /\ number = -1 \/ number \in Nat
  /\ number = -1 <=> last_value = -1
  /\ number # -1 => /\ last_value = number - base /\ last_value \in Nat
                    /\ \E b \in Int : base = b * Range

LEMMA RestoredInit == UnwrapperInit => RestoredInv
BY DEF UnwrapperInit, RestoredInv

LEMMA FirstNumber ==
  ASSUME RestoredInv, number = -1, NEW n \in Nat, Unwrap(n)
  PROVE  RestoredInv'
<1>1. /\ last_value' = Cropped(n) /\ number' = n /\ base' = n - Cropped(n)
      /\ promoted' = promoted
  BY DEF Unwrap, RestoredInv, unwrap_without_update
<1>2. PICK q \in Int : n = q * Range + Cropped(n)
  BY Cropping
<1>3. Cropped(n) \in Nat /\ Range \in Nat
  BY Cropping, Halves
<1>4. n - Cropped(n) = q * Range
  BY <1>2, <1>3
<1>5. \E b \in Int : base' = b * Range
  BY <1>1, <1>4
<1>. QED
  BY <1>1, <1>3, <1>5 DEF RestoredInv

(* Seen through the cut, the step d of the stream has lost w ranges, one   *)
(* at most; and is_newer finds its direction.                              *)
LEMMA StepSeen ==
  ASSUME promoted \in BOOLEAN, NEW m \in Nat, NEW n \in Nat,
         n - m < kBreakpoint, m - n < kBreakpoint
  PROVE  LET prev == Cropped(m)  value == Cropped(n)  d == n - m
         IN  /\ prev \in 0..Range - 1 /\ value \in 0..Range - 1
             /\ \E w \in {-1, 0, 1} : value - prev = d - w * Range
             /\ Cropped(value - prev) = IF d >= 0 THEN d ELSE d + Range
             /\ is_newer(value, prev) <=> d > 0
<1>a. PICK prev : prev = Cropped(m)
  OBVIOUS
<1>b. PICK value : value = Cropped(n)
  OBVIOUS
<1>c. PICK d : d = n - m
  OBVIOUS
<1>1. /\ kBreakpoint \in Nat \ {0} /\ Range = 2 * kBreakpoint /\ Range \in Nat
      /\ prev \in 0..Range - 1 /\ value \in 0..Range - 1 /\ d \in Int
      /\ d < kBreakpoint /\ -d < kBreakpoint
  BY <1>a, <1>b, <1>c, Halves, Cropping
<1>2. PICK q1 \in Int : m = q1 * Range + prev
  BY <1>a, Cropping
<1>3. PICK q2 \in Int : n = q2 * Range + value
  BY <1>b, Cropping
<1>4. PICK w \in Int : w = q2 - q1
  OBVIOUS
<1>5. w * Range = q2 * Range - q1 * Range
  BY <1>1, <1>4
<1>6. value - prev = d - w * Range
  <2>. DEFINE x == q1 * Range
              y == q2 * Range
              z == w * Range
  <2>1. x \in Int /\ y \in Int /\ z = y - x /\ m = x + prev /\ n = y + value
    BY <1>1, <1>2, <1>3, <1>5
  <2>2. d = n - m
    BY <1>c
  <2>. HIDE DEF x, y, z
  <2>3. value - prev = d - z
    BY <1>1, <2>1, <2>2
  <2>. QED  BY <2>3 DEF z
<1>7. w \in {-1, 0, 1}
  <2>1. \A k, r \in Int : r > 0 /\ k >= 2 => k * r >= 2 * r
    OBVIOUS
  <2>2. \A k, r \in Int : r > 0 /\ k <= -2 => k * r <= -(2 * r)
    OBVIOUS
  <2>3. ~(w >= 2) /\ ~(w <= -2)
    BY <1>1, <1>6, <2>1, <2>2
  <2>. QED  BY <2>3
<1>8. value - prev = -Range + d \/ value - prev = d \/ value - prev = Range + d
  BY <1>1, <1>6, <1>7
<1>9. Cropped(value - prev) = IF d >= 0 THEN d ELSE d + Range
  <2>1. PICK q \in {-1, 0, 1} : value - prev = q * Range + d
    BY <1>1, <1>8
  <2>0. value - prev \in Int /\ q \in Int
    BY <1>1
  <2>2. CASE d >= 0
    <3>1. d \in 0..Range - 1
      BY <1>1, <2>2
    <3>2. Cropped(value - prev) = d
      BY <2>0, <2>1, <3>1, CroppedRest
    <3>. QED  BY <2>2, <3>2
  <2>3. CASE d < 0
    <3>1. d + Range \in 0..Range - 1
      BY <1>1, <2>3
    <3>2. value - prev = (q - 1) * Range + (d + Range) /\ q - 1 \in Int
      BY <1>1, <2>1
    <3>3. Cropped(value - prev) = d + Range
      BY <2>0, <3>1, <3>2, CroppedRest
    <3>. QED  BY <1>1, <2>3, <3>3
  <2>. QED  BY <1>1, <2>2, <2>3
<1>10. Difference(value, prev) # kBreakpoint
  BY <1>1, <1>8, <1>9 DEF Difference
<1>11. value # prev <=> d # 0
  BY <1>1, <1>8
<1>12. is_newer(value, prev) <=> d > 0
  BY <1>1, <1>9, <1>10, <1>11 DEF is_newer
<1>. QED
  BY <1>a, <1>b, <1>c, <1>1, <1>6, <1>7, <1>9, <1>12

LEMMA LaterNumber ==
  ASSUME RestoredInv, number # -1, NEW n \in Nat, Unwrap(n)
  PROVE  RestoredInv'
<1>1. /\ number \in Nat /\ last_value \in Nat /\ last_value = number - base
      /\ promoted \in BOOLEAN /\ base \in Int
  BY Halves DEF RestoredInv
<1>2. PICK b \in Int : base = b * Range
  BY DEF RestoredInv
<1>3. PICK d \in Int : d = n - number
  BY <1>1
<1>4. PICK prev : prev = Cropped(number)
  OBVIOUS
<1>5. PICK value : value = Cropped(n)
  OBVIOUS
<1>6. /\ kBreakpoint \in Nat \ {0} /\ Range = 2 * kBreakpoint /\ Range \in Nat
      /\ d < kBreakpoint /\ -d < kBreakpoint
  BY <1>1, <1>3, Halves DEF Unwrap
<1>7. PICK q \in Int : number = q * Range + prev
  BY <1>1, <1>4, Cropping
<1>8. /\ prev \in 0..Range - 1 /\ value \in 0..Range - 1
      /\ \E w \in {-1, 0, 1} : value - prev = d - w * Range
      /\ Cropped(value - prev) = IF d >= 0 THEN d ELSE d + Range
      /\ is_newer(value, prev) <=> d > 0
  <2>1. n - number < kBreakpoint /\ number - n < kBreakpoint
    BY <1>1, <1>3, <1>6
  <2>. QED  BY <1>1, <1>3, <1>4, <1>5, <2>1, StepSeen
<1>9. PICK w \in {-1, 0, 1} : value - prev = d - w * Range
  BY <1>8
<1>10. last_value = (q - b) * Range + prev
  <2>1. (q - b) * Range = q * Range - b * Range
    BY <1>6
  <2>. QED  BY <1>1, <1>2, <1>6, <1>7, <1>8, <2>1
<1>11. Cropped(last_value) = prev
  BY <1>1, <1>8, <1>10, CroppedRest
<1>12. last_value >= prev
  <2>1. \A k, r \in Int : r > 0 /\ k >= 0 => k * r >= 0
    OBVIOUS
  <2>2. \A k, r \in Int : r > 0 /\ k <= -1 => k * r <= -r
    OBVIOUS
  <2>3. (q - b) >= 0 \/ (q - b) <= -1
    OBVIOUS
  <2>. QED  BY <1>1, <1>6, <1>8, <1>10, <2>1, <2>2, <2>3
<1>13. /\ last_value' = unwrap_without_update(value) /\ number' = n
       /\ base' = IF n < base THEN base - Range ELSE base
       /\ promoted' = promoted /\ last_value # -1
  BY <1>1, <1>5 DEF Unwrap
<1>. DEFINE delta == Difference(value, prev)
            newer == is_newer(value, prev)
<1>14. unwrap_without_update(value) =
         CASE newer /\ delta < 0 -> last_value + delta + Range
           [] ~newer /\ delta > 0 /\ last_value + delta - Range >= 0 ->
                last_value + delta - Range
           [] OTHER -> last_value + delta
  BY <1>11, <1>13 DEF unwrap_without_update
<1>15. /\ delta \in Int /\ newer <=> d > 0
       /\ \/ delta = d - w * Range
          \/ delta = IF d >= 0 THEN d ELSE d + Range
  BY <1>1, <1>6, <1>8, <1>9 DEF Difference
<1>. HIDE DEF delta, newer
<1>16. unwrap_without_update(value) =
         IF last_value + d >= 0 THEN last_value + d ELSE last_value + d + Range
  <2>1. CASE w = 0
    <3>1. delta = d \/ (d < 0 /\ delta = d + Range)
      BY <1>6, <1>15, <2>1
    <3>2. last_value + d >= 0
      BY <1>1, <1>6, <1>8, <1>9, <1>12, <2>1
    <3>. QED  BY <1>1, <1>6, <1>14, <1>15, <3>1, <3>2
  <2>2. CASE w = 1
    <3>1. d > 0 /\ (delta = d \/ delta = d - Range)
      BY <1>6, <1>8, <1>9, <1>15, <2>2
    <3>. QED  BY <1>1, <1>6, <1>14, <1>15, <3>1
  <2>3. CASE w = -1
    <3>1. d < 0 /\ delta = d + Range
      BY <1>6, <1>8, <1>9, <1>15, <2>3
    <3>. QED  BY <1>1, <1>6, <1>14, <1>15, <3>1
  <2>. QED  BY <2>1, <2>2, <2>3
<1>17. n < base <=> last_value + d < 0
  BY <1>1, <1>3
<1>18. last_value' = n - base' /\ last_value' \in Nat
  BY <1>1, <1>3, <1>6, <1>13, <1>16, <1>17
<1>19. \E c \in Int : base' = c * Range
  <2>1. base - Range = (b - 1) * Range /\ b - 1 \in Int
    BY <1>2, <1>6
  <2>. QED  BY <1>2, <1>13, <2>1
<1>. QED
  BY <1>1, <1>13, <1>18, <1>19 DEF RestoredInv

LEMMA RestoredNext == RestoredInv /\ [UnwrapperNext]_uvars => RestoredInv'
<1>1. ASSUME RestoredInv, NEW n \in 0..MaxNumber, Unwrap(n) PROVE RestoredInv'
  BY <1>1, FirstNumber, LaterNumber, RangeAssumption
<1>2. ASSUME RestoredInv, UNCHANGED uvars PROVE RestoredInv'
  BY <1>2 DEF uvars, RestoredInv
<1>. QED
  BY <1>1, <1>2 DEF UnwrapperNext

(* For every width, promoted to int or not, every number of the stream is  *)
(* restored, up to the ranges before the stream began, and none is put     *)
(* below zero (unwrapper.h:19-48).                                         *)
THEOREM StreamIsRestored == UnwrapperSpec => []StreamRestored
<1>1. RestoredInv => StreamRestored
  BY DEF RestoredInv, StreamRestored
<1>. QED
  BY <1>1, RestoredInit, RestoredNext, PTL DEF UnwrapperSpec
=============================================================================
