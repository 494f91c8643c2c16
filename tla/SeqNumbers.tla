----------------------------- MODULE SeqNumbers -----------------------------
(***************************************************************************)
(* seq: the numbers from FIRST to LAST in steps of STEP, in two's          *)
(* complement integers up to LLONG_MAX.  The sum i + step that does not    *)
(* fit is undefined in C; the addition that is compiled for it wraps.      *)
(***************************************************************************)
EXTENDS Integers

CONSTANT LLONG_MAX

SeqAssumption == LLONG_MAX \in Nat \ {0}

VARIABLES first, step, last, i,
          printed,  \* the numbers on the last lines printed: the last one, or nothing
          pc        \* "validate", "loop", "done" or "refused"

vars == <<first, step, last, i, printed, pc>>

Values == -LLONG_MAX - 1..LLONG_MAX
Nothing == LLONG_MAX + 1

\* strtoll gives the nearest value to a number that does not fit; a FIRST or
\* a STEP that is not given is 1.
Init ==
  /\ first \in Values /\ step \in Values /\ last \in Values
  /\ i = first /\ printed = Nothing /\ pc = "validate"

\* Mutant: a step of zero is taken.
AcceptsZero == ~(first < last /\ step < 0) /\ ~(first > last /\ step > 0)

Accepts ==
  /\ ~(first < last /\ step < 0)
  /\ ~(first > last /\ step > 0)
  /\ step # 0

Validate ==
  /\ pc = "validate" /\ pc' = IF Accepts THEN "loop" ELSE "refused"
  /\ UNCHANGED <<first, step, last, i, printed>>

Wrap(n) == ((n + (LLONG_MAX + 1)) % (2 * LLONG_MAX + 2)) - (LLONG_MAX + 1)

\* Mutant: the last number is not printed.
Before == i < last

InRange == i <= last

Advance == i' = Wrap(i + step)

Turn ==
  /\ pc = "loop" /\ InRange
  /\ printed' = i /\ Advance
  /\ UNCHANGED <<first, step, last, pc>>

Leaves == pc = "loop" /\ ~InRange /\ pc' = "done" /\ UNCHANGED <<first, step, last, i, printed>>

Done == pc \in {"done", "refused"} /\ UNCHANGED vars

Program == Validate \/ Turn \/ Leaves
Next == Program \/ Done
Spec == Init /\ [][Next]_vars /\ WF_vars(Program)

-----------------------------------------------------------------------------
TypeOK ==
  /\ first \in Values /\ step \in Values /\ last \in Values /\ i \in Values
  /\ printed \in Values \cup {Nothing} /\ pc \in {"validate", "loop", "done", "refused"}

Fits == step > 0 /\ last + step <= LLONG_MAX  \* no sum leaves the integers

\* The numbers begin with FIRST, each is STEP above the one before it, and no
\* number is beyond LAST. When it ends, no number is missing: the next one
\* would be beyond LAST.
InSteps ==
  Fits =>
    /\ printed' # printed =>
         /\ printed' = IF printed = Nothing THEN first ELSE printed + step
         /\ printed' <= last
    /\ pc' = "done" => first <= printed' /\ printed' <= last /\ printed' + step > last

\* It must end when the number beyond LAST is an integer, when there is no
\* step, and downwards.
Bounded == Fits \/ step = 0 \/ last < first

-----------------------------------------------------------------------------
\* For the proof: what has been printed is one step behind, and as long as no
\* sum wraps there is a next number.
Started == pc = "validate" => i = first /\ printed = Nothing
Behind ==
  Fits /\ pc \in {"loop", "done"} =>
    /\ first <= last /\ first <= i
    /\ IF printed = Nothing THEN i = first
       ELSE i = printed + step /\ first <= printed /\ printed <= last
    /\ pc = "done" => i > last
IInv == TypeOK /\ Started /\ Behind
=============================================================================
