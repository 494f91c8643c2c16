-------------------------------- MODULE Bfi --------------------------------
(***************************************************************************)
(* bfi: the interpreter finds the bracket that matches another one by      *)
(* walking over the program, one character a turn, and counting in l the   *)
(* loops that open on the way.                                             *)
(***************************************************************************)
EXTENDS Integers, Sequences

CONSTANTS Programs,  \* programs in files
          MEMSZ, INTSZ, TC_EOF   \* as in Brainfuck

BfiAssumption ==
  /\ Programs \subseteq Seq(STRING)
  /\ MEMSZ \in Nat \ {0} /\ INTSZ \in Nat \ {0} /\ TC_EOF \in Int

VARIABLES p, pc,     \* the program and the program counter, from 1
          l,         \* depth of loops
          xc, x,     \* working pointer and memory
          io,        \* last character read or written
          mode,      \* "run", "forward" or "back" inside the loops of '[' and
                     \* ']', "end", or "undefined" outside the arrays
          at         \* history: the instruction that is executed

vars == <<p, pc, l, xc, x, io, mode, at>>

Init ==
  /\ p \in Programs /\ pc = 1 /\ l = 0 /\ at = 1
  /\ xc = 0 /\ x = [c \in 0..MEMSZ - 1 |-> 0] /\ io = TC_EOF
  /\ mode = IF p = <<>> THEN "end" ELSE "run"

\* The for loop goes to the instruction k, or ends.
Goto(k) == pc' = k /\ at' = k /\ mode' = IF k > Len(p) THEN "end" ELSE "run"

\* An instruction on x[xc]. There is no test of xc: the pointer may leave the
\* memory, and is then the end of what can be said.
Touches == mode = "run" /\ p[pc] \in {"+", "-", ".", ",", "["}
InMemory == xc \in 0..MEMSZ - 1
Undefined == /\ Touches /\ ~InMemory /\ mode' = "undefined"
             /\ UNCHANGED <<p, pc, l, xc, x, io, at>>

Set(v) == x' = [x EXCEPT ![xc] = v % INTSZ]
Plus == Set(x[xc] + 1) /\ UNCHANGED <<xc, io>>
Minus == Set(x[xc] - 1) /\ UNCHANGED <<xc, io>>
Dot == io' = x[xc] /\ UNCHANGED <<xc, x>>
Comma == \E c \in 0..INTSZ - 1 : io' = c /\ Set(c) /\ UNCHANGED xc
Right == xc' = xc + 1 /\ UNCHANGED <<x, io>>
Left == xc' = xc - 1 /\ UNCHANGED <<x, io>>
Plain(c) == CASE c = "+" -> Plus [] c = "-" -> Minus [] c = "." -> Dot
              [] c = "," -> Comma [] c = ">" -> Right [] c = "<" -> Left
              [] OTHER -> UNCHANGED <<xc, x, io>>

Step ==
  /\ mode = "run" /\ p[pc] \notin {"[", "]"} /\ (Touches => InMemory)
  /\ Plain(p[pc]) /\ Goto(pc + 1) /\ UNCHANGED <<p, l>>

Open ==
  /\ mode = "run" /\ p[pc] = "[" /\ InMemory
  /\ IF x[xc] = 0 THEN pc' = pc + 1 /\ mode' = "forward" /\ UNCHANGED at
     ELSE Goto(pc + 1)
  /\ UNCHANGED <<p, l, xc, x, io>>

Close ==
  /\ mode = "run" /\ p[pc] = "]" /\ pc' = pc - 1 /\ mode' = "back"
  /\ UNCHANGED <<p, l, xc, x, io, at>>

Counted(c, opens, closes) == CASE c = opens -> l + 1 [] c = closes -> l - 1 [] OTHER -> l
\* Mutant: the first bracket that is met ends the search.
FoundFirst(c) == p[pc] = c
Found(c) == l = 0 /\ p[pc] = c

Walk(step) == pc' = pc + step

Forward ==
  /\ mode = "forward" /\ pc \in DOMAIN p
  /\ IF Found("]") THEN Goto(pc + 1) /\ UNCHANGED l
     ELSE l' = Counted(p[pc], "[", "]") /\ Walk(1) /\ UNCHANGED <<mode, at>>
  /\ UNCHANGED <<p, xc, x, io>>

\* The '[' is executed again: the loop steps back once more and the for loop
\* forward.
Back ==
  /\ mode = "back" /\ pc \in DOMAIN p
  /\ IF Found("[") THEN Goto(pc) /\ UNCHANGED l
     ELSE l' = Counted(p[pc], "]", "[") /\ Walk(-1) /\ UNCHANGED <<mode, at>>
  /\ UNCHANGED <<p, xc, x, io>>

\* The search leaves the program.
Astray ==
  /\ mode \in {"forward", "back"} /\ pc \notin DOMAIN p /\ mode' = "undefined"
  /\ UNCHANGED <<p, pc, l, xc, x, io, at>>

Done == mode \in {"end", "undefined"} /\ UNCHANGED vars

Search == Forward \/ Back \/ Astray
Next == Undefined \/ Step \/ Open \/ Close \/ Forward \/ Back \/ Astray \/ Done
Spec == Init /\ [][Next]_vars /\ WF_vars(Search)

-----------------------------------------------------------------------------
BF == INSTANCE Brainfuck WITH ip <- at

Depth(k) == BF!Rise(p, 1, k)
WellFormed == Depth(Len(p)) = 0 /\ \A k \in 0..Len(p) : Depth(k) >= 0

\* The counter is never negative and is back at zero whenever the program
\* runs, so no search starts with what another one has left.
TypeOK ==
  /\ p \in Programs /\ pc \in 0..Len(p) + 1
  /\ mode \in {"run", "forward", "back", "end", "undefined"}
  /\ x \in [0..MEMSZ - 1 -> 0..INTSZ - 1]
  /\ l \in Nat /\ (mode = "run" => l = 0)

\* In a well-formed program a search never leaves the program: only the
\* working pointer can.
FindsBracket ==
  WellFormed => /\ mode \in {"forward", "back"} => pc \in DOMAIN p
                /\ mode = "undefined" => ~InMemory

\* bfi does what the language says, a search being part of the step of its
\* bracket; this is said of well-formed programs.
LanguageInit == BF!Init
LanguageStep == WellFormed => [BF!Next]_(BF!vars)

-----------------------------------------------------------------------------
(***************************************************************************)
(* The invariant that the proofs need: what the counter counts, and that   *)
(* no bracket that was passed by is the one that is searched for.          *)
(***************************************************************************)
Running == mode = "run" => pc \in DOMAIN p /\ at = pc

GoesForward ==
  mode = "forward" =>
    /\ at \in DOMAIN p /\ p[at] = "[" /\ xc \in 0..MEMSZ - 1 /\ x[xc] = 0
    /\ pc > at /\ BF!Rise(p, at, pc - 1) = l + 1
    /\ \A k \in at..pc - 1 : BF!Rise(p, at, k) > 0

GoesBack ==
  mode = "back" =>
    /\ at \in DOMAIN p /\ p[at] = "]"
    /\ pc < at /\ BF!Rise(p, pc + 1, at) = -(l + 1)
    /\ \A k \in pc + 1..at : BF!Rise(p, k, at) < 0

IInv == TypeOK /\ Running /\ GoesForward /\ GoesBack /\ (WellFormed /\ mode = "undefined" => ~InMemory)
=============================================================================
