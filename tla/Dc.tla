--------------------------------- MODULE Dc ---------------------------------
(***************************************************************************)
(* dc: a character of input is a digit of a number, or an operation on a   *)
(* stack of STSZ values and on registers named by a character. A value is  *)
(* a long.                                                                 *)
(***************************************************************************)
EXTENDS Integers, SequencesExt

CONSTANTS STSZ,       \* 10000
          LONG_MAX,   \* of the C library
          MAXDIGITS,  \* digits of a number: 63
          Digits,     \* those on the keyboard
          Names       \* characters a register can be named by

DcAssumption ==
  /\ STSZ \in Nat \ {0} /\ LONG_MAX \in Nat /\ MAXDIGITS \in Nat \ {0}
  /\ Digits \subseteq 0..9

VARIABLES pc,     \* "command", "number", "load", "store", "done" or "trap"
          stack, reg,
          n,      \* digits of the number that is read
          feof

vars == <<pc, stack, reg, n, feof>>

EOF == "EOF"  \* as a name, the character 255
MinValue == -LONG_MAX - 1
Values == MinValue..LONG_MAX
Wrap(v) == ((v - MinValue) % (2 * LONG_MAX + 2)) + MinValue

\* Division of C, towards zero.
Quot(a, b) == LET q == (IF a < 0 THEN -a ELSE a) \div (IF b < 0 THEN -b ELSE b)
              IN  IF (a < 0) = (b < 0) THEN q ELSE -q
Rem(a, b) == a - b * Quot(a, b)

\* Mutant: one place too many.
PushedPast(s, v) == IF Len(s) > STSZ THEN s ELSE Append(s, v)

\* push, peek and pop.
Pushed(s, v) == IF Len(s) = STSZ THEN s ELSE Append(s, v)
Peek(s) == IF s = <<>> THEN 0 ELSE s[Len(s)]
Popped(s) == IF s = <<>> THEN s ELSE SubSeq(s, 1, Len(s) - 1)

\* strtol, of base 8 if the first digit is a zero: the number that the digits
\* are, up to one that the base does not have; the greatest value for more.
NumberOf(d) ==
  LET base == IF d[1] = 0 THEN 8 ELSE 10
      End == CHOOSE e \in 0..Len(d) : /\ \A k \in 1..e : d[k] < base
                                      /\ e = Len(d) \/ d[e + 1] >= base
  IN  FoldLeft(LAMBDA a, k : base * a + k, 0, SubSeq(d, 1, End))
Strtol(d) == IF NumberOf(d) \in Values THEN NumberOf(d) ELSE LONG_MAX

Init ==
  /\ pc = "command" /\ stack = <<>> /\ reg = [c \in Names \cup {EOF} |-> 0]
  /\ n = <<>> /\ feof = FALSE

\* The main loop goes on unless the end of the input has been seen.
Loop == pc' = IF feof' THEN "done" ELSE "command"

\* A digit, the first of a number or one more of it.
Digit == \E d \in Digits :
  /\ pc \in {"command", "number"} /\ ~feof
  /\ pc = "number" => Len(n) < MAXDIGITS
  /\ n' = (IF pc = "command" THEN <<d>> ELSE Append(n, d)) /\ pc' = "number"
  /\ UNCHANGED <<stack, reg, feof>>

\* Something else, or one digit too many, is put back and the number pushed.
\* At the end of the input there is nothing to be put back.
NumberEnds ==
  /\ pc = "number" /\ feof' \in BOOLEAN
  /\ stack' = Pushed(stack, Strtol(n)) /\ n' = <<>>
  /\ Loop /\ UNCHANGED reg

\* The language does not say which pop() of an expression is evaluated first:
\* the top may be the left operand or the right one.
Operands == LET p == Peek(stack)  q == Peek(Popped(stack)) IN {<<p, q>>, <<q, p>>}

Rest == Popped(Popped(stack))

Command == pc = "command" /\ ~feof

Arithmetic == \E o \in Operands, op \in {"+", "-", "*"} :
  LET a == o[1]  b == o[2]
      v == CASE op = "+" -> a + b [] op = "-" -> a - b [] op = "*" -> a * b
  IN  /\ Command /\ stack' = Pushed(Rest, Wrap(v))
      /\ UNCHANGED <<pc, reg, n, feof>>

\* The processor traps a division by zero, and the one that overflows.
Division == \E o \in Operands, op \in {"/", "%"} :
  LET a == o[1]  b == o[2] IN
  /\ Command
  /\ IF b = 0 \/ (a = MinValue /\ b = -1) THEN pc' = "trap" /\ stack' = Rest
     ELSE stack' = Pushed(Rest, IF op = "/" THEN Quot(a, b) ELSE Rem(a, b)) /\ UNCHANGED pc
  /\ UNCHANGED <<reg, n, feof>>

Duplicate ==
  /\ Command /\ stack' = Pushed(stack, Peek(stack))
  /\ UNCHANGED <<pc, reg, n, feof>>

\* "f" prints the values and leaves none.
PrintAll ==
  /\ Command /\ stack' = <<>>
  /\ UNCHANGED <<pc, reg, n, feof>>

\* "l" and "s" take the next character, whatever it is, for a name.
Name ==
  /\ Command /\ pc' \in {"load", "store"}
  /\ UNCHANGED <<stack, reg, n, feof>>

Load == \E c \in Names \cup {EOF} :
  /\ pc = "load" /\ stack' = Pushed(stack, reg[c])
  /\ feof' = (c = EOF) /\ Loop /\ UNCHANGED <<reg, n>>

Store == \E c \in Names \cup {EOF} :
  /\ pc = "store" /\ reg' = [reg EXCEPT ![c] = Peek(stack)] /\ stack' = Popped(stack)
  /\ feof' = (c = EOF) /\ Loop /\ UNCHANGED n

\* "q"; or the end of the input, to which the answer is "?".
Quit ==
  /\ Command /\ feof' \in BOOLEAN /\ pc' = "done"
  /\ UNCHANGED <<stack, reg, n>>

Done == pc \in {"done", "trap"} /\ UNCHANGED vars

Next == \/ Digit \/ NumberEnds \/ Arithmetic \/ Division \/ Duplicate
        \/ PrintAll \/ Name \/ Load \/ Store \/ Quit \/ Done
Spec == Init /\ [][Next]_vars

-----------------------------------------------------------------------------
TypeOK ==
  /\ pc \in {"command", "number", "load", "store", "done", "trap"}
  /\ stack \in Seq(Values) /\ Len(stack) <= STSZ
  /\ reg \in [Names \cup {EOF} -> Values]
  /\ n \in Seq(Digits) /\ Len(n) <= MAXDIGITS /\ (pc = "number" <=> n # <<>>)
  /\ feof \in BOOLEAN

\* The k-th value from the top, with zeros below the last.
ValueAt == [k \in 1..STSZ |-> IF k <= Len(stack) THEN stack[Len(stack) + 1 - k] ELSE 0]

\* dc is a desk calculator: on an empty stack, on one with a single value and
\* on a full one, too, an operation takes two values, zeros for those that are
\* not there, and leaves one. A push that has no room leaves all as it is, and
\* a division that traps has taken its operands.
Calculator == INSTANCE Desk WITH Depth <- STSZ, value <- ValueAt, used <- Len(stack)
DeskInit == Calculator!DInit
DeskStep == [pc' = "trap" \/ Calculator!DNext]_<<ValueAt, Len(stack)>>

\* Only the operations that push a value alone can find no room: what is
\* calculated is never lost.
ResultKept ==
  (Arithmetic \/ Division) /\ pc' # "trap" =>
    Len(stack') = IF Len(stack) < 2 THEN 1 ELSE Len(stack) - 1
=============================================================================
