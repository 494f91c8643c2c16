-------------------------------- MODULE Grep --------------------------------
(***************************************************************************)
(* grep, with a regular expression or -F, and fgrep: the input is read in  *)
(* pieces of at most LINESZ - 1 characters, a line if it is that short,    *)
(* and the last character of each piece is taken for the newline.          *)
(***************************************************************************)
EXTENDS Integers, SequencesExt, FiniteSetsExt

CONSTANTS Lower, Upper,  \* characters, and the same in upper case
          Patterns, MaxLen,
          LINESZ         \* 2048

Chars == Range(Lower) \cup Range(Upper)

GrepAssumption ==
  /\ Len(Lower) = Len(Upper) /\ MaxLen \in Nat /\ LINESZ \in Nat /\ LINESZ > 2
  /\ Patterns \subseteq Seq(Chars)

VARIABLES text, pos,     \* the input, and how much of it has been read
          pattern, fixed_mode, icase, just_count,
          lineno, count,
          out,           \* the lines printed: [no, line]
          pc             \* "read" or "done"

vars == <<text, pos, pattern, fixed_mode, icase, just_count, lineno, count, out, pc>>

NL == "\n"
ToLower(c) ==
  IF c \in Range(Upper) THEN Lower[CHOOSE k \in DOMAIN Upper : Upper[k] = c] ELSE c

Init ==
  /\ text \in UNION {[1..k -> Chars \cup {NL}] : k \in 0..MaxLen} /\ pos = 0
  /\ pattern \in Patterns /\ fixed_mode \in BOOLEAN /\ icase \in BOOLEAN /\ just_count \in BOOLEAN
  /\ lineno = 0 /\ count = 0 /\ out = <<>> /\ pc = "read"

SameChar(a, b) == a = b \/ (icase /\ ToLower(a) = ToLower(b))

\* regexec, of a pattern that is a string, and tc_strstr.
HasPattern(line) == \E i \in 0..Len(line) - Len(pattern) :
  \A k \in DOMAIN pattern : SameChar(line[i + k], pattern[k])

\* tccmp: the same as far as the shorter of the two goes.
Tccmp(x) == \A k \in DOMAIN x \cap DOMAIN pattern : SameChar(x[k], pattern[k])

\* Mutant: the last place is not tried.
TcstrstrBefore(line) == pattern # <<>> /\ \E i \in 1..Len(line) - 1 :
  SameChar(line[i], pattern[1]) /\ Tccmp(SubSeq(line, i, Len(line)))

\* tcstrstr: at every place where the first character is the pattern's; of an
\* empty pattern that is the NUL, which no place has.
Tcstrstr(line) == pattern # <<>> /\ \E i \in DOMAIN line :
  SameChar(line[i], pattern[1]) /\ Tccmp(SubSeq(line, i, Len(line)))

Matches(line) == IF fixed_mode THEN Tcstrstr(line) ELSE HasPattern(line)

\* fgets reads up to a newline, but no more than has room before the NUL.
PieceEnd == CHOOSE e \in pos + 1..Len(text) :
  /\ text[e] = NL \/ e = Len(text) \/ e - pos = LINESZ - 1
  /\ e - pos <= LINESZ - 1 /\ \A k \in pos + 1..e - 1 : text[k] # NL
Piece == SubSeq(text, pos + 1, PieceEnd)

Numbered(line) == lineno + 1

\* The end of the file is seen as soon as a piece ends without a newline and
\* before its room is used up.
SawEof == pos' = Len(text) /\ Last(Piece) # NL /\ Len(Piece) < LINESZ - 1

Count == count' = count + 1

Turn ==
  LET line == Front(Piece) IN
  /\ pc = "read" /\ pos < Len(text)
  /\ pos' = pos + Len(Piece)
  /\ lineno' = Numbered(line)
  /\ IF Matches(line)
     THEN /\ Count
          /\ out' = IF just_count THEN out ELSE Append(out, [no |-> lineno', line |-> line])
     ELSE UNCHANGED <<count, out>>
  /\ pc' = IF SawEof THEN "done" ELSE "read"
  /\ UNCHANGED <<text, pattern, fixed_mode, icase, just_count>>

EndOfFile ==
  /\ pc = "read" /\ pos = Len(text) /\ pc' = "done"
  /\ UNCHANGED <<text, pos, pattern, fixed_mode, icase, just_count, lineno, count, out>>

Done == pc = "done" /\ UNCHANGED vars

Next == Turn \/ EndOfFile \/ Done
Spec == Init /\ [][Next]_vars

-----------------------------------------------------------------------------
TypeOK ==
  /\ text \in Seq(Chars \cup {NL}) /\ pattern \in Patterns
  /\ {fixed_mode, icase, just_count} \subseteq BOOLEAN
  /\ pos \in 0..Len(text) /\ pc \in {"read", "done"}
  /\ lineno \in 0..pos /\ count \in 0..lineno
  /\ out \in Seq([no : 1..lineno, line : Seq(Chars \cup {NL})])
  /\ Len(out) = (IF just_count THEN 0 ELSE count)

\* The lines of the text that has been read: a line ends with the newline at k,
\* behind the newline before it.
EndsUpTo(k) == {j \in 1..k : text[j] = NL}
Ends == EndsUpTo(pos)
LineAt(k) == SubSeq(text, Max({0} \cup EndsUpTo(k - 1)) + 1, k - 1)
NumberAt(k) == Cardinality(EndsUpTo(k))

\* Every line has a newline and fits into the buffer with it.
WellFormed ==
  /\ text # <<>> => text[Len(text)] = NL
  /\ \A b \in 0..Len(text) - LINESZ + 1 : \E k \in b + 1..b + LINESZ - 1 : text[k] = NL

\* What is printed is a line of the text with its own number, in the order of
\* the text: the pieces are the lines.
PrintsLines ==
  WellFormed =>
    /\ \A m \in DOMAIN out : \E k \in Ends : out[m] = [no |-> NumberAt(k), line |-> LineAt(k)]
    /\ \A m, j \in DOMAIN out : m < j => out[m].no < out[j].no

LinesFound == {k \in Ends : HasPattern(LineAt(k))}

\* A line that contains the pattern is counted and printed, in each mode; but
\* -F finds an empty pattern nowhere.
EmptyFixed == fixed_mode /\ pattern = <<>>
FindsNone == EmptyFixed => count = 0
FindsAll ==
  WellFormed /\ ~EmptyFixed =>
    /\ ~just_count => \A k \in LinesFound : \E m \in DOMAIN out : out[m].no = NumberAt(k)
    /\ count >= Cardinality(LinesFound)

\* Without -F no other line is.
RegexFindsOnly == ~fixed_mode => \A m \in DOMAIN out : HasPattern(out[m].line)

-----------------------------------------------------------------------------
\* grep.c:77 "performed fixed string search (similar to fgrep)". The search
\* of -F also takes a line that ends with the beginning of the pattern.
FixedFindsOnly == fixed_mode => \A m \in DOMAIN out : HasPattern(out[m].line)

-----------------------------------------------------------------------------
\* For the proof: the program is between two lines.
BetweenLines == WellFormed => /\ pos = 0 \/ text[pos] = NL
                              /\ lineno = Cardinality(Ends)
IInv == TypeOK /\ BetweenLines /\ PrintsLines /\ FindsAll /\ FindsNone /\ RegexFindsOnly
=============================================================================
