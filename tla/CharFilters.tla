---------------------------- MODULE CharFilters ----------------------------
(***************************************************************************)
(* The programs that turn standard input into standard output character by *)
(* character. All of them are fed the same text; a step of one of them is  *)
(* one turn of its tc_getc (or getc) loop, its state the variables that    *)
(* live from one turn to the next and what it has written so far.          *)
(***************************************************************************)
EXTENDS Integers, Sequences, SequencesExt, FiniteSetsExt, Stepwise

CONSTANTS MaxLen,      \* characters of text
          Alphabet,    \* those that are typed
          TABSTOP,     \* expand, unexpand: the 4 of expand.c:76
          TAB_WIDTH,   \* fold: 8
          Width,       \* fold -w
          TC_LINEMAX   \* makewords: size of its buffer less one

\* What may be read or written: SP and BS are a space and a backspace, STAMP
\* is ts's, EOF what unexpand makes of it.
STAMP == "[time]"
Chars == Alphabet \cup {"SP", "\t", "\n", "\r", "BS", "NUL", "EOF", STAMP}
FilterAssumption == /\ MaxLen \in Nat /\ Width \in Nat \ {0}
                    /\ {TABSTOP, TAB_WIDTH, TC_LINEMAX} \subseteq Nat \ {0, 1}
                    /\ STAMP \notin Alphabet

VARIABLES text,      \* the input so far
          eof,       \* the end of the input has been seen
          expand, unexpand, fold, words, wc, ts, unix2dos, rev

vars == <<text, eof, expand, unexpand, fold, words, wc, ts, unix2dos, rev>>

Letter(c) == c \in {"a", "under", "'"}
Times(c, n) == [k \in 1..n |-> c]

-----------------------------------------------------------------------------
\* expand.c: a tab becomes one space and then more up to the next stop.
\* Mutant: always as many spaces as a tab stop is wide.
ExpandFixed(s, c) ==
  IF c = "\t" THEN [out |-> s.out \o Times("SP", TABSTOP), col |-> s.col + TABSTOP]
  ELSE [out |-> Append(s.out, c), col |-> IF c = "\n" THEN 0 ELSE s.col + 1]

Expand(s, c) ==
  LET n == TABSTOP - (s.col % TABSTOP)
  IN  IF c = "\t" THEN [out |-> s.out \o Times("SP", n), col |-> s.col + n]
      ELSE [out |-> Append(s.out, c), col |-> IF c = "\n" THEN 0 ELSE s.col + 1]

\* unexpand.c: spaces at column 0 are collected (the first is not counted)
\* and come out as tabs before the character that ends them. That character
\* may be TC_EOF.
Unexpand(s, c) ==
  CASE s.collect /\ c = "SP" -> [s EXCEPT !.col = @ + 1]
    [] s.collect /\ c # "SP" ->
         [out |-> s.out \o Times("\t", (s.col + 1) \div TABSTOP) \o <<c>>,
          col |-> s.col, collect |-> FALSE]
    [] ~s.collect /\ c = "SP" /\ s.col = 0 -> [s EXCEPT !.collect = TRUE]
    [] OTHER -> [out |-> Append(s.out, c),
                 col |-> IF c = "\n" THEN 0 ELSE s.col + 1, collect |-> s.collect]

\* fold.c: the column after c; a character that would pass the width goes to
\* a line of its own. The flag -b is parsed and never looked at.
Column(col, c) ==
  CASE c = "\t" -> col + (TAB_WIDTH - (col % TAB_WIDTH))
    [] c = "BS" -> IF col = 0 THEN 0 ELSE col - 1
    [] c \in {"\n", "\r"} -> 0
    [] OTHER -> col + 1

Fold(s, c) ==
  LET col == Column(s.col, c)
  IN  IF col > Width
      THEN [out |-> s.out \o <<"\n", c>>, col |-> IF c = "\t" THEN TAB_WIDTH ELSE 1]
      ELSE [out |-> Append(s.out, c), col |-> col]

\* makewords.c: letters gather in the buffer b until another character; the
\* loop ends for good when the buffer is full.
\* Mutants: one character too many fits; the character that ends a word
\* starts the next.
RoomForOneMore(b) == Len(b) < TC_LINEMAX
EndWordGreedy(s, c) == [out |-> Append(s.out, s.b), b |-> <<c>>, full |-> s.full]

Room(b) == Len(b) < TC_LINEMAX - 1
EndWord(s, c) == [out |-> Append(s.out, s.b), b |-> <<>>, full |-> s.full]
Makewords(s, c) ==
  CASE s.full \/ ~Room(s.b) -> [s EXCEPT !.full = TRUE]
    [] ~s.full /\ Room(s.b) /\ Letter(c) -> [s EXCEPT !.b = Append(@, c)]
    [] OTHER -> IF s.b = <<>> THEN s ELSE EndWord(s, c)

\* wc.c, count.
Blank(c) == c \in {"\n", "\t", "SP"}
Count(s, c) ==
  [lines |-> s.lines + IF c = "\n" THEN 1 ELSE 0,
   words |-> s.words + IF ~Blank(c) /\ ~s.inword THEN 1 ELSE 0,
   bytes |-> s.bytes + 1,
   inword |-> ~Blank(c)]

\* ts.c: a stamp first of all, and before every character that follows a newline.
Stamp(s, c) ==
  [out |-> s.out \o IF s.pch = "\n" THEN <<STAMP, c>> ELSE <<c>>, pch |-> c]

\* unix2dos.c and dos2unix.c.
Unix2dos(s, c) == s \o IF c = "\n" THEN <<"\r", c>> ELSE <<c>>
Dos2unix(s) == Only(s, Chars \ {"\r"})

\* rev.c: what is printed for a line of len characters, the newline among
\* them: those before the last one, backwards, and a newline.
Reversed(line) == Append(Reverse(SubSeq(line, 1, Len(line) - 1)), "\n")
Rev(s, c) == LET line == Append(s.line, c)
             IN  IF c = "\n" THEN [out |-> s.out \o Reversed(line), line |-> <<>>]
                 ELSE [s EXCEPT !.line = line]

-----------------------------------------------------------------------------
Init ==
  /\ text = <<>> /\ eof = FALSE
  /\ expand = [out |-> <<>>, col |-> 0]
  /\ unexpand = [out |-> <<>>, col |-> 0, collect |-> FALSE]
  /\ fold = [out |-> <<>>, col |-> 0]
  /\ words = [out |-> <<>>, b |-> <<>>, full |-> FALSE]
  /\ wc = [lines |-> 0, words |-> 0, bytes |-> 0, inword |-> FALSE]
  /\ ts = [out |-> <<STAMP>>, pch |-> "NUL"]
  /\ unix2dos = <<>>
  /\ rev = [out |-> <<>>, line |-> <<>>]

Getc == \E c \in Alphabet :
  /\ ~eof /\ Len(text) < MaxLen
  /\ text' = Append(text, c) /\ eof' = eof
  /\ expand' = Expand(expand, c)
  /\ unexpand' = Unexpand(unexpand, c)
  /\ fold' = Fold(fold, c)
  /\ words' = Makewords(words, c)
  /\ wc' = Count(wc, c)
  /\ ts' = Stamp(ts, c)
  /\ unix2dos' = Unix2dos(unix2dos, c)
  /\ rev' = Rev(rev, c)

\* unexpand writes TC_EOF if it was collecting spaces; getline hands rev the
\* line that has no newline.
EndOfInput ==
  /\ ~eof /\ eof' = TRUE
  /\ unexpand' = IF unexpand.collect THEN Unexpand(unexpand, "EOF") ELSE unexpand
  /\ rev' = IF rev.line = <<>> THEN rev
            ELSE [out |-> rev.out \o Reversed(rev.line), line |-> <<>>]
  /\ UNCHANGED <<text, expand, fold, words, wc, ts, unix2dos>>

Done == eof /\ UNCHANGED vars

Next == Getc \/ EndOfInput \/ Done
Spec == Init /\ [][Next]_vars

-----------------------------------------------------------------------------
\* Columns stay natural numbers, backspaces included, and a word and its NUL
\* stay inside makewords's buffer.
TypeOK ==
  /\ text \in Seq(Alphabet) /\ eof \in BOOLEAN
  /\ expand.col \in Nat /\ unexpand.col \in Nat /\ fold.col \in Nat
  /\ Len(words.b) < TC_LINEMAX

\* Where a terminal with tab stops every n columns has its cursor, as <<row,
\* column>>, and where it shows the printing characters of s.
Cursor(n) ==
  [p \in Nat \X Nat |-> [c \in Chars |->
     CASE c = "\n" -> <<p[1] + 1, 0>>
       [] c = "\t" -> <<p[1], (p[2] \div n + 1) * n>>
       [] OTHER -> <<p[1], p[2] + 1>>]]
Screen(s, n) ==
  LET at == Running(Cursor(n), <<0, 0>>, s)
  IN  {<<at[k - 1], s[k]>> : k \in {j \in DOMAIN s : s[j] \notin {"SP", "\t", "\n"}}}

Plain == \A k \in DOMAIN text : text[k] \notin {"BS", "\r"}

\* expand leaves no tab, and every character appears in the row and column in
\* which the tabs had put it.
ExpandKeepsColumns ==
  Plain => /\ "\t" \notin ToSet(expand.out)
           /\ Screen(expand.out, TABSTOP) = Screen(text, TABSTOP)

\* The column behind each character; a newline sets it to 0.
Columns == [col \in Nat |-> [c \in Chars |-> Column(col, c)]]

\* No line that fold writes is wider than the width, whatever tabs,
\* backspaces and carriage returns it holds; a width below that of a tab
\* cannot be kept.
FoldFits ==
  Width >= TAB_WIDTH =>
    LET col == Running(Columns, 0, fold.out) IN \A k \in DOMAIN fold.out : col[k] <= Width

\* s with a newline before each character whose place is in b, and whether the
\* k-th character of the text would pass the width, behind those before it.
Broken(s, b) == FlattenSeq([k \in DOMAIN s |-> IF k \in b THEN <<"\n", s[k]>> ELSE <<s[k]>>])
TooWide(b, k) == Column(Folded(Columns, 0, Broken(SubSeq(text, 1, k - 1), b)), text[k]) > Width

\* fold writes the text with a newline before some of its characters and
\* changes nothing else; they are those that would pass the width where they
\* stand, and no others, unless the width is below that of a tab.
FoldOnlyBreaks ==
  \E b \in SUBSET DOMAIN text :
    /\ fold.out = Broken(text, b)
    /\ Width >= TAB_WIDTH => \A k \in DOMAIN text : k \in b <=> TooWide(b, k)

\* makewords prints the maximal runs of letters in their order, up to the
\* one that is not finished yet; after a word that fills the buffer it stops.
Starts(s) == Ascending(Len(s), {k \in DOMAIN s : Letter(s[k]) /\ (k = 1 \/ ~Letter(s[k - 1]))})
EndOf(s, k) == Min({j \in k..Len(s) + 1 : j = Len(s) + 1 \/ ~Letter(s[j])})
Runs(s) == LET at == Starts(s) IN [k \in 1..Len(at) |-> SubSeq(s, at[k], EndOf(s, at[k]) - 1)]
MakewordsSplits ==
  /\ ~words.full => Runs(text) = words.out \o IF words.b = <<>> THEN <<>> ELSE <<words.b>>
  /\ IsPrefix(words.out, Runs(text))

\* wc counts maximal runs of non-blanks, newlines and characters.
WcCounts ==
  /\ wc.words = Cardinality({k \in DOMAIN text :
                   ~Blank(text[k]) /\ (k = 1 \/ Blank(text[k - 1]))})
  /\ wc.lines = Len(Only(text, {"\n"}))
  /\ wc.bytes = Len(text)

\* ts puts exactly one stamp in front of each line, none inside a line and
\* none after the last newline; the text itself is unchanged.
TsStampsLines ==
  /\ Only(ts.out, Chars \ {STAMP}) = text
  /\ \A k \in DOMAIN ts.out :
       ts.out[k] = STAMP <=> k = 1 \/ ts.out[k - 1] = "\n"

\* dos2unix undoes unix2dos on a text without carriage returns, and every
\* newline of unix2dos has one in front of it.
DosRoundTrip ==
  /\ Dos2unix(unix2dos) = Dos2unix(text)
  /\ \A k \in DOMAIN unix2dos : unix2dos[k] = "\n" => k > 1 /\ unix2dos[k - 1] = "\r"

\* The k-th line of s, without its newline.
Ends(s) == Ascending(Len(s), {j \in DOMAIN s : s[j] = "\n"})
LineOf(s, k) == LET ends == Ends(s) IN SubSeq(s, IF k = 1 THEN 1 ELSE ends[k - 1] + 1, ends[k] - 1)

\* rev turns every line that ends in a newline round, in its place: turned
\* round again, its lines are those of the text.
RevReverses ==
  \A k \in 1..wc.lines : LineOf(rev.out, k) = Reverse(LineOf(text, k))

-----------------------------------------------------------------------------
(***************************************************************************)
(* The invariant that the proofs need: what each filter remembers between  *)
(* two characters is what it should know of those it has read.             *)
(***************************************************************************)
Typed ==
  /\ expand \in [out : Seq(Chars), col : Nat]
  /\ unexpand \in [out : Seq(Chars), col : Nat, collect : BOOLEAN]
  /\ fold \in [out : Seq(Chars), col : Nat]
  /\ words \in [out : Seq(Seq(Chars)), b : Seq(Chars), full : BOOLEAN]
  /\ wc \in [lines : Nat, words : Nat, bytes : Nat, inword : BOOLEAN]
  /\ ts \in [out : Seq(Chars), pch : Chars]
  /\ unix2dos \in Seq(Chars)
  /\ rev \in [out : Seq(Chars), line : Seq(Chars)]

\* The character that was read last.
Latest == IF text = <<>> THEN "NUL" ELSE text[Len(text)]

SameCursor ==
  Plain => /\ Folded(Cursor(TABSTOP), <<0, 0>>, expand.out) = Folded(Cursor(TABSTOP), <<0, 0>>, text)
           /\ expand.col = Folded(Cursor(TABSTOP), <<0, 0>>, text)[2]

ColumnKnown == Width >= TAB_WIDTH => fold.col = Folded(Columns, 0, fold.out) /\ fold.col <= Width

WordInHand ==
  /\ ~words.full => (words.b = <<>> <=> ~Letter(Latest))
  /\ words.full => Len(words.out) < Len(Runs(text))

BlankKnown == wc.inword <=> text # <<>> /\ ~Blank(Latest)

StampDue == /\ ts.pch = Latest /\ ts.out # <<>>
            /\ ts.out[Len(ts.out)] = IF text = <<>> THEN STAMP ELSE Latest

LastEnd(s) == IF Ends(s) = <<>> THEN 0 ELSE Ends(s)[Len(Ends(s))]
LineInHand ==
  ~eof => /\ rev.line = SubSeq(text, LastEnd(text) + 1, Len(text))
          /\ Len(Ends(text)) = wc.lines /\ Len(Ends(rev.out)) = wc.lines
          /\ LastEnd(rev.out) = Len(rev.out)

Kept == /\ ExpandKeepsColumns /\ FoldFits /\ FoldOnlyBreaks /\ MakewordsSplits /\ WcCounts
        /\ TsStampsLines /\ DosRoundTrip /\ RevReverses
IInv == /\ TypeOK /\ Typed /\ Kept
        /\ SameCursor /\ ColumnKnown /\ WordInHand /\ BlankKnown /\ StampDue /\ LineInHand
=============================================================================
