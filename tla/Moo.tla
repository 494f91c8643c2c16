-------------------------------- MODULE Moo --------------------------------
(***************************************************************************)
(* moo: the program shuffles the digits in the farm, the first of them are *)
(* the secret, and answers each guess with its bulls (right digit, right   *)
(* place) and cows (right digit, wrong place).                             *)
(***************************************************************************)
EXTENDS Integers, FiniteSets

CONSTANTS N,       \* digits in the farm: 10
          SECRET   \* those that are to be guessed: 4

MooAssumption == N \in Nat \ {0} /\ SECRET \in 1..N

VARIABLES pc,      \* "shuffle", "guess" or "done"
          farm, i,
          line,    \* what the first SECRET places of the buffer hold
          typed,   \* length of the last line that was typed, -1 before any
          feof,
          b, c     \* bulls and cows that were printed last

vars == <<pc, farm, i, line, typed, feof, b, c>>

Digits == 0..N - 1
Places == 0..SECRET - 1
NEWLINE == -1
NUL == -2

\* The buffer is on the stack: before the first fgets it holds anything.
Init ==
  /\ pc = "shuffle" /\ i = N - 1
  /\ farm = [k \in Digits |-> k]
  /\ line \in [Places -> {NUL, 0, 1} \cap (Digits \cup {NUL})]
  /\ typed = -1 /\ feof = FALSE /\ b = 0 /\ c = 0

Swap(r) == [farm EXCEPT ![i] = farm[r], ![r] = farm[i]]
Unshuffled == 0..i

\* Mutant: the test for a leading zero without the continue.
ShuffleOnward == \E r \in Unshuffled :
  /\ pc = "shuffle" /\ i >= 1
  /\ farm' = Swap(r) /\ i' = IF r = 0 THEN i ELSE i - 1
  /\ UNCHANGED <<pc, line, typed, feof, b, c>>

\* One turn of the loop over i. The test for a leading zero repeats the turn.
Shuffle == \E r \in Unshuffled :
  /\ pc = "shuffle" /\ i >= 1
  /\ IF r = 0 /\ farm[i] = 0 THEN UNCHANGED <<farm, i>>
     ELSE farm' = Swap(r) /\ i' = i - 1
  /\ UNCHANGED <<pc, line, typed, feof, b, c>>

Shuffled ==
  /\ pc = "shuffle" /\ i < 1 /\ pc' = "guess"
  /\ UNCHANGED <<farm, i, line, typed, feof, b, c>>

\* Mutant: a place that is a bull is looked at for cows too.
CowsOfBulls(g) == Cardinality({k \in Places : \E j \in Places : g[k] = farm[j]})

\* Mutant: a bull is a digit of the secret wherever it stands.
BullsAnywhere(g) == Cardinality({k \in Places : \E j \in Places : g[k] = farm[j]})

Bulls(g) == Cardinality({k \in Places : g[k] = farm[k]})
Cows(g) == Cardinality({k \in Places : g[k] # farm[k] /\ \E j \in Places : g[k] = farm[j]})

\* fgets writes the n characters of a line, its newline if there is one, and
\* a NUL; what was in the buffer after them stays there.
Typed(g, n, newline) ==
  [k \in Places |-> CASE k < n -> g[k]
                      [] k = n -> IF newline THEN NEWLINE ELSE NUL
                      [] k = n + 1 /\ newline -> NUL
                      [] OTHER -> line[k]]

Answer ==
  /\ b' = Bulls(line') /\ c' = Cows(line')
  /\ pc' = IF b' = SECRET \/ feof' THEN "done" ELSE "guess"
  /\ UNCHANGED <<farm, i>>

Guess == \E g \in [Places -> Digits], n \in 0..SECRET, newline \in BOOLEAN :
  /\ pc = "guess" /\ (newline \/ n > 0)
  /\ line' = Typed(g, n, newline) /\ typed' = n
  /\ feof' = ~newline
  /\ Answer

\* fgets fails and nobody looks: the old line is answered again.
EndOfInput ==
  /\ pc = "guess" /\ feof' = TRUE
  /\ UNCHANGED <<line, typed>>
  /\ Answer

Done == pc = "done" /\ UNCHANGED vars

Next == Shuffle \/ Shuffled \/ Guess \/ EndOfInput \/ Done
Program == Shuffle \/ Shuffled

-----------------------------------------------------------------------------
\* Among them that there are never more bulls and cows than places.
TypeOK ==
  /\ pc \in {"shuffle", "guess", "done"}
  /\ i \in Digits /\ farm \in [Digits -> Digits]
  /\ line \in [Places -> Digits \cup {NEWLINE, NUL}]
  /\ typed \in -1..SECRET /\ feof \in BOOLEAN
  /\ b \in Nat /\ c \in Nat /\ b + c <= SECRET

\* The shuffle only moves digits: each of them is in the farm once, so that
\* no cow counts twice.
FarmPermuted == \A j, k \in Digits : farm[j] = farm[k] => j = k

\* The zero leaves the first place only for a place that is not touched any
\* more, so the test for it is never true: it neither repeats a turn for ever
\* nor keeps a zero out of the first place.
NeverRetried == pc = "shuffle" /\ i >= 1 => farm[i] # 0

\* Nobody wins by a line that is too short, whatever it leaves in the buffer:
\* a game is over by the secret or by the end of the input.
WonBySecret ==
  pc = "done" => feof \/ (typed = SECRET /\ \A k \in Places : line[k] = farm[k])

-----------------------------------------------------------------------------
(***************************************************************************)
(* The invariant that the proofs need: the zero is in the first place or   *)
(* among those that the loop has left.                                     *)
(***************************************************************************)
ZeroAhead == pc = "shuffle" => farm[0] = 0 \/ \E k \in i + 1..N - 1 : farm[k] = 0

IInv == TypeOK /\ FarmPermuted /\ ZeroAhead /\ WonBySecret
=============================================================================
