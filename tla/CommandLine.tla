---------------------------- MODULE CommandLine ----------------------------
(***************************************************************************)
(* How command lines are put together and taken apart: argvify of shell.c  *)
(* and the substitution of foreach.c, character by character.              *)
(***************************************************************************)
EXTENDS Integers, Sequences, SequencesExt, FiniteSetsExt

CONSTANTS MaxLen    \* length of the strings that are tried

NUL == "NUL"
Chars == {"x", " ", "{", "}"}

VARIABLES cmd,      \* a command line: the shell's, or foreach's operands joined
          line,     \* a line of foreach's standard input, without its newline
          eol       \* what ends the shell's line

vars == <<cmd, line, eol>>

Init == cmd = <<>> /\ line = <<>> /\ eol \in {<<>>, <<"\n">>, <<"\r", "\n">>}

TypeCmd == /\ Len(cmd) < MaxLen
           /\ \E c \in Chars : cmd' = Append(cmd, c)
           /\ UNCHANGED <<line, eol>>
TypeLine == /\ Len(line) < MaxLen
            /\ \E c \in {"{", "}"} : line' = Append(line, c)
            /\ UNCHANGED <<cmd, eol>>
Typed == Len(cmd) = MaxLen /\ Len(line) = MaxLen /\ UNCHANGED vars
Next == TypeCmd \/ TypeLine \/ Typed
Spec == Init /\ [][Next]_vars

-----------------------------------------------------------------------------
\* shell.c, argvify: the line with each separator overwritten by a NUL, and
\* where each entry of argv points in it.
Spaces(s) == {k \in 1..Len(s) : s[k] = " "}

Slots(s) == Cardinality(Spaces(s)) + 1

Terminate(s) == [k \in 1..Len(s) |-> IF s[k] \in {" ", "\n", "\r"} THEN NUL ELSE s[k]]

Pointers(s) == <<1>> \o SetToSortSeq({k + 1 : k \in Spaces(s)}, <)

\* The C string that starts at k.
StringAt(s, k) ==
  LET end == Min({j \in k..Len(s) : s[j] = NUL} \cup {Len(s) + 1})
  IN  SubSeq(s, k, end - 1)

Argvify(s) == [k \in 1..Len(Pointers(s)) |-> StringAt(Terminate(s), Pointers(s)[k])]

\* foreach.c: one pass over the command; skip says that cmd[k] is the '}' of
\* a placeholder already replaced.
IsPlaceholder(s, k) == k < Len(s) /\ s[k] = "{" /\ s[k + 1] = "}"

\* Mutant: the closing brace of a placeholder is not skipped.
SubstituteNoSkip(s, l) ==
  FoldLeftDomain(LAMBDA r, k : IF IsPlaceholder(s, k) THEN r \o l ELSE Append(r, s[k]),
           <<>>, s)

Substitute(s, l) ==
  FoldLeftDomain(LAMBDA r, k : IF IsPlaceholder(s, k) THEN r \o l
                         ELSE IF k > 1 /\ IsPlaceholder(s, k - 1) THEN r
                         ELSE Append(r, s[k]),
           <<>>, s)

\* The bytes allocated for the result.
Allocated(s) ==
  Len(s) + Cardinality({k \in 1..Len(s) : IsPlaceholder(s, k)}) * Len(s) + 1 + 1

-----------------------------------------------------------------------------
TypeOK == /\ cmd \in Seq(Chars) /\ line \in Seq({"{", "}"})
          /\ Pointers(cmd \o eol) \in Seq(1..Len(cmd) + 1)

\* Joined by single spaces, the strings that argvify finds are the line again:
\* no word is cut short, runs into the next one, or keeps the end of the line.
ArgvifyLosesNothing ==
  LET words == Argvify(cmd \o eol)
  IN  FlattenSeq([k \in 1..Len(words) |->
        IF k = 1 THEN words[k] ELSE <<" ">> \o words[k]]) = cmd

\* argvify never writes beyond the array it has allocated.
ArgvifyFits == Len(Pointers(cmd \o eol)) <= Slots(cmd \o eol)

\* foreach's command is the operands with every {} replaced by the line, and
\* a line that contains {} itself is not replaced again.
SubstituteReplaces ==
  LET at == SetToSortSeq({k \in 1..Len(cmd) : IsPlaceholder(cmd, k)}, <)
      last == Len(at) + 1
      from(j) == IF j = 1 THEN 1 ELSE at[j - 1] + 2
      to(j) == IF j = last THEN Len(cmd) ELSE at[j] - 1
  IN  Substitute(cmd, line) =
        FlattenSeq([j \in 1..last |->
          (IF j = 1 THEN <<>> ELSE line) \o SubSeq(cmd, from(j), to(j))])

-----------------------------------------------------------------------------
\* shell.c:92 "last entry in argv must be TC_NULL": there is an entry after
\* the words. The array has exactly as many entries as there are words.
ArgvTerminated == Len(Pointers(cmd \o eol)) < Slots(cmd \o eol)

\* foreach.c:123 "executes a command for every line of standard input": for
\* every line there is room for the command and its NUL. The room is that of a
\* line as long as the command, so that a longer one may not fit.
SubstituteFits == Len(Substitute(cmd, line)) + 1 <= Allocated(cmd)
=============================================================================
