-------------------------------- MODULE Desk --------------------------------
(***************************************************************************)
(* What a stack calculator promises: values on top of one another, over    *)
(* zeros without end. Nothing is said of how it is stored: value[1] is the *)
(* top and used the number of values that were put there.                  *)
(***************************************************************************)
EXTENDS Integers

CONSTANTS Values, Depth

VARIABLES value, used

DInit == value = [k \in 1..Depth |-> 0] /\ used = 0

Below(k) == IF k <= Depth THEN value[k] ELSE 0
Less(n, k) == IF n < k THEN 0 ELSE n - k

\* k values are taken and v takes their place.
Replace(k, v) ==
  /\ used' = Less(used, k) + 1 /\ used' <= Depth
  /\ value' = [j \in 1..Depth |-> IF j = 1 THEN v ELSE Below(j - 1 + k)]

Drop ==
  /\ used' = Less(used, 1)
  /\ value' = [j \in 1..Depth |-> Below(j + 1)]

Clear == used' = 0 /\ value' = [j \in 1..Depth |-> 0]

DNext == (\E v \in Values : Replace(0, v) \/ Replace(2, v)) \/ Drop \/ Clear
DSpec == DInit /\ [][DNext]_<<value, used>>
=============================================================================
