------------------------------ MODULE MC_Texts ------------------------------
(***************************************************************************)
(* The programs that read texts, and those that write numbers, one of      *)
(* which is chosen at the start: spell, grep, cmp, seq and factor. They    *)
(* share no state; variables of the same name are one variable here, the   *)
(* others are Unused.                                                      *)
(***************************************************************************)
EXTENDS Integers, Sequences

CONSTANTS Alnum, Inner, Others, Dictionary, LineLen, MaxLines,   \* of spell
          Lower, Upper, Patterns, TextLen, LINESZ,               \* of grep
          FileChars, FileLen,                                    \* of cmp
          LLONG_MAX, Numbers                                     \* of seq and factor

VARIABLES program, pc, pos, out,
          toload, cells, terminal, buf, s, lines, feof,
          text, pattern, fixed_mode, icase, just_count, lineno, count,
          file, bad, flag_s, byte, line, report, status,
          first, step, last, i, printed,
          number, ul, product

spellVars == <<toload, cells, terminal, buf, s, lines, feof>>
grepVars == <<text, pattern, fixed_mode, icase, just_count, lineno, count>>
cmpVars == <<file, bad, flag_s, byte, line, report, status>>
seqVars == <<first, step, last, i, printed>>
factorVars == <<number, ul, product>>
vars == <<program, pc, pos, out, spellVars, grepVars, cmpVars, seqVars, factorVars>>

\* For TLC: a letter, an apostrophe and a blank; two lines of up to three
\* characters.
MCDictionary == {<<"a", "'", "a">>, <<"a", "'", "a", "a">>}
Spell == INSTANCE Spell

\* Two letters, one of them in upper case too, in all texts of up to five
\* characters; a buffer for lines of up to three.
MCLower == <<"a", "b">>
MCUpper == <<"A", "b">>
MCPatterns == {<<>>, <<"a">>, <<"a", "b">>, <<"b", "A">>}
Grep == INSTANCE Grep WITH MaxLen <- TextLen

\* All pairs of files of up to three characters, and errors anywhere in them.
MCFileChars == {"a", "b", "\n"}
Cmp == INSTANCE Cmp WITH Chars <- FileChars, MaxLen <- FileLen

\* All arguments in integers of four bits.
SeqNumbers == INSTANCE SeqNumbers

\* Zero, one, primes, their powers and products.
MCNumbers == 0..130
Factors == INSTANCE Factors

ASSUME SpellAssumed == Spell!SpellAssumption
ASSUME GrepAssumed == Grep!GrepAssumption
ASSUME CmpAssumed == Cmp!CmpAssumption
ASSUME SeqAssumed == SeqNumbers!SeqAssumption
ASSUME FactorsAssumed == Factors!FactorsAssumption

Unused == "unused"
UnusedSpell == /\ toload = Unused /\ cells = Unused /\ terminal = Unused /\ buf = Unused
               /\ s = Unused /\ lines = Unused /\ feof = Unused
UnusedGrep == /\ text = Unused /\ pattern = Unused /\ fixed_mode = Unused /\ icase = Unused
              /\ just_count = Unused /\ lineno = Unused /\ count = Unused
UnusedCmp == /\ file = Unused /\ bad = Unused /\ flag_s = Unused /\ byte = Unused
             /\ line = Unused /\ report = Unused /\ status = Unused
UnusedSeq == /\ first = Unused /\ step = Unused /\ last = Unused
             /\ printed = Unused
UnusedFactor == number = Unused /\ ul = Unused /\ product = Unused

Init ==
  \/ /\ program = "spell" /\ Spell!Init /\ pos = Unused
     /\ UnusedGrep /\ UnusedCmp /\ UnusedSeq /\ UnusedFactor /\ i = Unused
  \/ /\ program = "grep" /\ Grep!Init
     /\ UnusedSpell /\ UnusedCmp /\ UnusedSeq /\ UnusedFactor /\ i = Unused
  \/ /\ program = "cmp" /\ Cmp!Init /\ pc = Unused /\ out = Unused
     /\ UnusedSpell /\ UnusedGrep /\ UnusedSeq /\ UnusedFactor /\ i = Unused
  \/ /\ program = "seq" /\ SeqNumbers!Init /\ pos = Unused /\ out = Unused
     /\ UnusedSpell /\ UnusedGrep /\ UnusedCmp /\ UnusedFactor
  \/ /\ program = "factor" /\ Factors!Init /\ pos = Unused
     /\ UnusedSpell /\ UnusedGrep /\ UnusedCmp /\ UnusedSeq

OnlySpell == program = "spell" /\ UNCHANGED <<program, pos, grepVars, cmpVars, seqVars, factorVars>>
OnlyGrep == program = "grep" /\ UNCHANGED <<program, spellVars, cmpVars, seqVars, factorVars>>
OnlyCmp == program = "cmp" /\ UNCHANGED <<program, pc, out, spellVars, grepVars, seqVars, factorVars>>
OnlySeq == program = "seq" /\ UNCHANGED <<program, pos, out, spellVars, grepVars, cmpVars, factorVars>>
OnlyFactor == program = "factor" /\ UNCHANGED <<program, pos, spellVars, grepVars, cmpVars,
                                                first, step, last, printed>>

Next == \/ OnlySpell /\ Spell!Next
        \/ OnlyGrep /\ Grep!Next
        \/ OnlyCmp /\ Cmp!Next
        \/ OnlySeq /\ SeqNumbers!Next
        \/ OnlyFactor /\ Factors!Next

\* The programs run on; no line has to come.
Runs == \/ OnlySpell /\ Spell!Program
        \/ OnlySeq /\ SeqNumbers!Program
        \/ OnlyFactor /\ Factors!Program

Spec == Init /\ [][Next]_vars /\ WF_vars(Runs)

-----------------------------------------------------------------------------
\* Among the types: spell's cells are a trie, in which each word ends in a
\* cell, and what grep prints is what it counts.
TypeOK ==
  /\ program = "spell" => Spell!TypeOK
  /\ program = "grep" => Grep!TypeOK
  /\ program = "cmp" => Cmp!TypeOK
  /\ program = "seq" => SeqNumbers!TypeOK
  /\ program = "factor" => Factors!TypeOK

\* spell.c: of the dictionary at most the last entry is not known as it is,
\* but without its last character (if no newline ends it, line 70); no word that
\* is not known is passed over, nothing that is known is reported, and where
\* single blanks separate the words only words are.
MisspeltFound ==
  program = "spell" =>
    \E known \in Spell!Known : Spell!MissesNothing(known) /\ Spell!AccusesWords(known)

\* grep.c: of a text whose lines fit into the buffer, each with its newline,
\* every line with the pattern is printed, whole and with its number; by a
\* regular expression no other. An empty pattern is in every line, but -F finds
\* it in none (line 51 compares with its NUL).
MatchesFound ==
  program = "grep" =>
    Grep!PrintsLines /\ Grep!FindsAll /\ Grep!FindsNone /\ Grep!RegexFindsOnly

\* cmp.c: the exit status tells whether the files are the same as far as they
\* can be read (an error of reading is taken for the end of the file, line 121),
\* and the first difference is the one reported.
DifferenceFound == program = "cmp" => Cmp!TellsSame /\ Cmp!FirstDifference

\* seq.c: the numbers from FIRST to LAST in steps, none missing and none beyond,
\* where STEP is positive and the sum beyond LAST is an integer: otherwise it
\* overflows (seq.c:98). Nothing is said of a sequence downwards (seq 5 -1 1),
\* which prints nothing.
\* factor.c: the factors of the number, in ascending order, primes only, and
\* with each of them and what is left the number itself.
NumbersInSteps ==
  /\ [][program = "seq" => SeqNumbers!InSteps]_vars
  /\ [](program = "factor" => Factors!ProductKept /\ Factors!AllPrime /\ Factors!Ascending)

\* spell searches every line that is read to its end, seq ends where its
\* numbers fit, and factor always.
Waits == \/ program = "spell" /\ pc = "word"
         \/ program = "seq" /\ SeqNumbers!Bounded
         \/ program = "factor"
Ended == \/ program = "spell" /\ pc # "word"
         \/ program = "seq" /\ pc \in {"done", "refused"}
         \/ program = "factor" /\ pc = "done"
Terminates == Waits ~> Ended

-----------------------------------------------------------------------------
\* grep.c:77 "performed fixed string search (similar to fgrep)": with -F, too,
\* only lines that contain the pattern are printed.
FixedFindsOnly == program = "grep" => Grep!FixedFindsOnly
=============================================================================
