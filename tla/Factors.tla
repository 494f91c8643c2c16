------------------------------ MODULE Factors ------------------------------
(***************************************************************************)
(* factor.c: the factors of a number, the least one first. A step is a     *)
(* number that is tried, or what follows from it.                          *)
(***************************************************************************)
EXTENDS Integers, Sequences

CONSTANT Numbers
FactorsAssumption == Numbers \subseteq Nat

VARIABLES number,   \* the argument
          ul, i,    \* what is left of it, what is tried; i = 0 between two calls
          out,      \* what has been printed
          product,  \* and the product of it
          pc
vars == <<number, ul, i, out, product, pc>>

Init == /\ number \in Numbers /\ ul = number
        /\ i = 0 /\ out = <<>> /\ product = 1 /\ pc = "main"

\* The call of factor returns a factor that is at least 2.
Found(fact) == /\ out' = Append(out, fact) /\ product' = product * fact
               /\ ul' = ul \div fact /\ i' = 0 /\ pc' = "main"

-----------------------------------------------------------------------------
\* factor(ul) tells numbers below 2 and even numbers at once.
Less == pc = "main" /\ ul < 2 /\ pc' = "done" /\ UNCHANGED <<number, ul, i, out, product>>
Even == pc = "main" /\ ul >= 2 /\ ul % 2 = 0 /\ Found(2) /\ UNCHANGED number
Odd == pc = "main" /\ ul >= 2 /\ ul % 2 # 0 /\ pc' = "try" /\ i' = 2 /\ UNCHANGED <<number, ul, out, product>>

\* Mutant: only numbers whose square is less are tried.
BelowTheRoot == i * i < ul

Half == i <= ul \div 2
Divides == pc = "try" /\ Half /\ ul % i = 0 /\ Found(i) /\ UNCHANGED number
DoesNot == pc = "try" /\ Half /\ ul % i # 0 /\ i' = i + 1 /\ UNCHANGED <<number, ul, out, product, pc>>
IsPrime == pc = "try" /\ ~Half /\ Found(ul) /\ UNCHANGED number

Program == Less \/ Even \/ Odd \/ Divides \/ DoesNot \/ IsPrime
Done == pc = "done" /\ UNCHANGED vars
Next == Program \/ Done
Spec == Init /\ [][Next]_vars /\ WF_vars(Program)

-----------------------------------------------------------------------------
TypeOK == /\ number \in Nat /\ ul \in Nat /\ i \in Nat
          /\ out \in Seq(Nat) /\ product \in Nat
          /\ pc \in {"main", "try", "done"}

\* factor.c: at any time what is printed, multiplied with what is left, is the
\* number; at the end one is left, or the number is zero.
ProductKept == /\ product * ul = number
               /\ pc = "done" => ul = IF number = 0 THEN 0 ELSE 1

\* factor.c: every number printed is a prime, and none is less than the one
\* before it.
Prime(n) == n >= 2 /\ \A d \in 2..(n - 1) : n % d # 0
AllPrime == \A k \in 1..Len(out) : Prime(out[k])
Ascending == \A k \in 1..(Len(out) - 1) : out[k] <= out[k + 1]

-----------------------------------------------------------------------------
\* For the proof: what has been printed last, and what is tried, leave no smaller divisor.
NoneBelow(a, f) == \A d \in 2..(f - 1) : a % d # 0
Trying == pc = "try" => ul >= 2 /\ i >= 2 /\ NoneBelow(ul, i)
LastIsLeast == out # <<>> => ul > 0 /\ NoneBelow(ul, out[Len(out)])
Product == product * ul = number /\ (ul = 0 <=> number = 0)
Finished == pc = "done" => ul < 2

IInv == TypeOK /\ Trying /\ LastIsLeast /\ Product /\ Finished /\ AllPrime /\ Ascending
=============================================================================
