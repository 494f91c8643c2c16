---------------------------- MODULE WordFilters ----------------------------
(***************************************************************************)
(* Filters that look at more than a character at a time: chef at words,    *)
(* extract and litc at lines, hexdump at pieces of sixteen bytes. A step   *)
(* is a turn of the main loop of the one that runs.                        *)
(***************************************************************************)
EXTENDS Integers, Sequences, SequencesExt, FiniteSetsExt, Stepwise

CONSTANTS ChefTexts,    \* sequences of characters
          TC_LINEMAX,   \* size of chef's buffer
          Formats,      \* extract: sequences of literals, "$$" and placeholders
          MatchLines,   \* extract: sequences of lines, sequences of characters
          Match,        \* extract: what regexec finds in a line, <<>> if nothing
          NMatch,       \* size of pmatch
          LitLines,     \* litc: sequences of lines, lead being what they begin with
          Dumps,        \* hexdump: sequences of bytes
          Piece         \* hexdump: 16

Digit == {"0", "1", "2", "3", "4", "5", "6", "7", "8", "9"}
IsDigit(c) == c \in Digit
IsPiece(p) == \/ Len(p) = 1 \/ p = <<"$", "$">>
              \/ Len(p) > 1 /\ p[1] = "$" /\ \A k \in 2..Len(p) : IsDigit(p[k])

WordAssumption ==
  /\ TC_LINEMAX \in Nat \ {0, 1} /\ {Piece, NMatch} \subseteq Nat \ {0}
  /\ ChefTexts \subseteq Seq(STRING)
  /\ \A f \in Formats : f \in Seq(Seq(STRING)) /\ \A k \in 1..Len(f) : IsPiece(f[k])
  /\ \A s \in MatchLines : s \in Seq(Seq(STRING))
                           /\ \A k \in 1..Len(s) : Match[Front(s[k])] \in Seq(Seq(STRING))
  /\ LitLines \subseteq Seq([lead : {"none", "spaces", "tab", "fence"}, rest : STRING])
  /\ Dumps \subseteq Seq(Nat)

VARIABLES prog, text, format, at, buf, out, pc
vars == <<prog, text, format, at, buf, out, pc>>

-----------------------------------------------------------------------------
\* chef.c, tr: the first rule that fits at a place is applied, and goes on
\* behind what it has found. FIRST comes before LAST for a word of one letter.
Places == {"FIRST", "MIDDLE", "LAST"}
Where(w, k) == IF k = 1 THEN "FIRST" ELSE IF k = Len(w) THEN "LAST" ELSE "MIDDLE"
Rule(find, places, put) == [find |-> find, places |-> places, put |-> put]
Rules == <<
  Rule(<<"a","n">>, Places, <<"u","n">>), Rule(<<"A","n">>, Places, <<"U","n">>),
  Rule(<<"a","u">>, Places, <<"o","o">>), Rule(<<"A","u">>, Places, <<"O","o">>),
  Rule(<<"a">>, Places \ {"LAST"}, <<"e">>), Rule(<<"A">>, Places \ {"LAST"}, <<"E">>),
  Rule(<<"e","n">>, {"LAST"}, <<"e","e">>), Rule(<<"e","w">>, Places \ {"FIRST"}, <<"o","o">>),
  Rule(<<"e">>, {"LAST"}, <<"e","-","a">>), Rule(<<"e">>, {"FIRST"}, <<"i">>),
  Rule(<<"E">>, {"FIRST"}, <<"I">>), Rule(<<"f">>, Places \ {"FIRST"}, <<"f","f">>),
  Rule(<<"i","r">>, Places \ {"FIRST"}, <<"u","r">>), Rule(<<"t","h","e">>, Places, <<"z","e","e">>),
  Rule(<<"T","h","e">>, Places, <<"Z","e","e">>), Rule(<<"t","h">>, {"LAST"}, <<"t">>),
  Rule(<<"t","i","o","n">>, Places \ {"FIRST"}, <<"s","h","u","n">>),
  Rule(<<"u">>, Places \ {"FIRST"}, <<"o","o">>), Rule(<<"U">>, Places \ {"FIRST"}, <<"O","o">>),
  Rule(<<"v">>, Places, <<"f">>), Rule(<<"V">>, Places, <<"F">>),
  Rule(<<"w">>, Places, <<"v">>), Rule(<<"W">>, Places, <<"V">>) >>

Fits(r, w, k) == /\ IsPrefix(Rules[r].find, SubSeq(w, k, Len(w)))
                 /\ Where(w, k) \in Rules[r].places
RuleAt(w, k) == LET fit == {r \in DOMAIN Rules : Fits(r, w, k)}
                IN  IF fit = {} THEN Rule(<<w[k]>>, Places, <<w[k]>>) ELSE Rules[Min(fit)]
Behind(w, k) == LET e == k + Len(RuleAt(w, k).find) IN IF e <= Len(w) THEN e ELSE Len(w) + 1
Tr(w) == Chained([k \in 1..Len(w) |-> RuleAt(w, k).put], [k \in 1..Len(w) |-> Behind(w, k)])[1]

NotInWord == {"SP", "\n", "-"}

\* Mutant: the character that ends a word is not put back.
EndWordEats == /\ out' = out \o Tr(buf)
               /\ buf' = <<>> /\ at' = at + 1 /\ pc' = pc

EndWord == /\ out' = out \o Tr(buf)
           /\ buf' = <<>> /\ UNCHANGED <<at, pc>>
Chef ==
  /\ prog = "chef" /\ pc = "main"
  /\ IF at = Len(text) \/ Len(buf) >= TC_LINEMAX - 1
     THEN pc' = "done" /\ UNCHANGED <<at, buf, out>>
     ELSE LET ch == text[at + 1]
          IN  IF ch \notin NotInWord
              THEN buf' = Append(buf, ch) /\ at' = at + 1 /\ UNCHANGED <<out, pc>>
              ELSE IF buf = <<>>
              THEN out' = Append(out, ch) /\ at' = at + 1 /\ UNCHANGED <<buf, pc>>
              ELSE EndWord
  /\ UNCHANGED <<prog, text, format>>

-----------------------------------------------------------------------------
\* extract.c: a format is made of characters, of which those after a dollar
\* decide what it means; the digits of a number end where others begin.
Decimal == [d \in Digit |-> CASE d = "0" -> 0 [] d = "1" -> 1 [] d = "2" -> 2 [] d = "3" -> 3 [] d = "4" -> 4
                             [] d = "5" -> 5 [] d = "6" -> 6 [] d = "7" -> 7 [] d = "8" -> 8 [] OTHER -> 9]
Strtol(s) == Value(10, [k \in 1..Len(s) |-> Decimal[s[k]]])
DigitsFrom(s, k) ==
  SubSeq(s, k, (CHOOSE e \in k..(Len(s) + 1) :
                  (e = Len(s) + 1 \/ ~IsDigit(s[e])) /\ \A x \in k..(e - 1) : IsDigit(s[x])) - 1)

Group(groups, n) == IF n < NMatch /\ n < Len(groups) /\ groups[n + 1] # <<"unset">>
                    THEN groups[n + 1] ELSE <<>>
Dollar(s, k) == s[k] = "$" /\ k < Len(s)
Put(s, groups, k) ==
  CASE Dollar(s, k) /\ s[k + 1] = "$" -> <<"$">>
    [] Dollar(s, k) /\ IsDigit(s[k + 1]) -> Group(groups, Strtol(DigitsFrom(s, k + 1)))
    [] OTHER -> <<s[k]>>
GoOn(s, k) ==
  CASE Dollar(s, k) /\ s[k + 1] = "$" -> k + 2
    [] Dollar(s, k) /\ IsDigit(s[k + 1]) -> k + 1 + Len(DigitsFrom(s, k + 1))
    [] OTHER -> k + 1
Fill(s, groups) == Chained([k \in 1..Len(s) |-> Put(s, groups, k)], [k \in 1..Len(s) |-> GoOn(s, k)])[1]

\* Mutant: a line without a match is filled in as well.
ExtractedAlways(l) == Append(Fill(FlattenSeq(format), Match[l]), "\n")

Extracted(l) == IF Match[l] = <<>> THEN <<>> ELSE Append(Fill(FlattenSeq(format), Match[l]), "\n")
\* The last character of each line is dropped, newline or not.
Extract == /\ prog = "extract" /\ pc = "main"
           /\ IF at = Len(text) THEN pc' = "done" /\ UNCHANGED <<at, out>>
              ELSE at' = at + 1 /\ out' = out \o Extracted(Front(text[at + 1])) /\ UNCHANGED pc
           /\ UNCHANGED <<prog, text, format, buf>>

-----------------------------------------------------------------------------
\* litc.c: buf is in_code_block.
Fence(l) == l.lead = "fence"
LitcLine(l) == CASE buf = 1 -> <<l>>
                 [] buf = 0 /\ l.lead \in {"spaces", "tab"} -> <<[lead |-> "none", rest |-> l.rest]>>
                 [] OTHER -> <<>>
Litc == /\ prog = "litc" /\ pc = "main"
        /\ IF at = Len(text) THEN pc' = "done" /\ UNCHANGED <<at, buf, out>>
           ELSE LET l == text[at + 1]
                IN  /\ at' = at + 1 /\ UNCHANGED pc
                    /\ buf' = IF Fence(l) THEN 1 - buf ELSE buf
                    /\ out' = IF Fence(l) THEN out ELSE out \o LitcLine(l)
        /\ UNCHANGED <<prog, text, format>>

-----------------------------------------------------------------------------
\* hexdump.c: a piece that is short is shown as if zeroes followed it; buf is
\* addr.
Hexdump ==
  /\ prog = "hexdump" /\ pc = "main"
  /\ LET bytes == SubSeq(text, at + 1, Min({at + Piece, Len(text)}))
     IN  IF bytes = <<>> THEN pc' = "done" /\ UNCHANGED <<at, buf, out>>
         ELSE /\ at' = at + Len(bytes) /\ buf' = buf + Len(bytes) /\ UNCHANGED pc
              /\ out' = Append(out, [addr |-> buf,
                                     bytes |-> [k \in 1..Piece |-> IF k <= Len(bytes) THEN bytes[k] ELSE 0]])
  /\ UNCHANGED <<prog, text, format>>

-----------------------------------------------------------------------------
Init == /\ at = 0 /\ out = <<>> /\ pc = "main"
        /\ \/ prog = "chef" /\ text \in ChefTexts /\ format = <<>> /\ buf = <<>>
           \/ prog = "extract" /\ text \in MatchLines /\ format \in Formats /\ buf = <<>>
           \/ prog = "litc" /\ text \in LitLines /\ format = <<>> /\ buf = 0
           \/ prog = "hexdump" /\ text \in Dumps /\ format = <<>> /\ buf = 0
Done == pc = "done" /\ UNCHANGED vars
Next == Chef \/ Extract \/ Litc \/ Hexdump \/ Done

-----------------------------------------------------------------------------
\* The buffer of chef keeps room for the NUL.
TypeOK == /\ prog \in {"chef", "extract", "litc", "hexdump"}
          /\ at \in 0..Len(text) /\ pc \in {"main", "done"}
          /\ prog = "chef" => Len(buf) < TC_LINEMAX
          /\ prog = "litc" => buf \in {0, 1}
          /\ prog = "hexdump" => buf = at

\* chef.c: until a word fills the buffer, each run of letters with something
\* behind it is translated as a whole, and what is between them is kept.
WordStart(s, k) == s[k] \notin NotInWord /\ (k = 1 \/ s[k - 1] \in NotInWord)
WordEnd(s, k) == CHOOSE e \in k..Len(s) : /\ \A x \in k..e : s[x] \notin NotInWord
                                          /\ e = Len(s) \/ s[e + 1] \in NotInWord
Translated(s) == [k \in 1..Len(s) |->
  IF s[k] \in NotInWord THEN <<s[k]>>
  ELSE IF WordStart(s, k) /\ WordEnd(s, k) < Len(s) THEN Tr(SubSeq(s, k, WordEnd(s, k))) ELSE <<>>]
WordsFit(s) == \A k \in 1..Len(s) : WordStart(s, k) => WordEnd(s, k) - k + 1 < TC_LINEMAX - 1
ChefTranslates == prog = "chef" /\ pc = "done" /\ WordsFit(text) => out = FlattenSeq(Translated(text))

\* extract.c: in a format whose placeholders no digit follows, each piece
\* stands for itself, a dollar, or what its group has matched.
Piecewise(f) == \A k \in 1..(Len(f) - 1) :
  /\ Len(f[k]) > 1 /\ f[k][2] # "$" => ~IsDigit(f[k + 1][1])
  /\ f[k] # <<"$">>
Meaning(p, groups) == CASE p = <<"$", "$">> -> <<"$">>
                        [] Len(p) > 1 /\ p # <<"$", "$">> -> Group(groups, Strtol(Tail(p)))
                        [] OTHER -> p
Meanings(f, groups) == [p \in 1..Len(f) |-> Meaning(f[p], groups)]
ExtractFills ==
  prog = "extract" /\ pc = "done" /\ Piecewise(format) =>
    out = FlattenSeq([k \in 1..Len(text) |->
            IF Match[Front(text[k])] = <<>> THEN <<>>
            ELSE FlattenSeq(Meanings(format, Match[Front(text[k])])) \o <<"\n">>])

\* litc.c: exactly the lines between an odd fence and the next are kept as
\* they are, and of the others those that are indented, without that.
InBlock(s, k) == Cardinality({x \in 1..(k - 1) : Fence(s[x])}) % 2 = 1
Shown(s) == {k \in DOMAIN s : ~Fence(s[k]) /\ (InBlock(s, k) \/ s[k].lead # "none")}
AsShown(s, k) == IF InBlock(s, k) THEN s[k] ELSE [lead |-> "none", rest |-> s[k].rest]
LitcExtracts ==
  prog = "litc" =>
    LET shown == Ascending(at, Shown(text))
    IN  out = [n \in 1..Len(shown) |-> AsShown(text, shown[n])]

\* hexdump.c: from the dump the file can be had back, but for zeroes at its
\* end, and each address is the place of its piece.
HexdumpShows ==
  prog = "hexdump" =>
    /\ \A n \in 1..Len(out) : out[n].addr = (n - 1) * Piece
    /\ \A k \in 1..(Piece * Len(out)) :
         out[((k - 1) \div Piece) + 1].bytes[((k - 1) % Piece) + 1] = IF k <= at THEN text[k] ELSE 0

-----------------------------------------------------------------------------
(***************************************************************************)
(* The invariant that the proofs need: what has been printed is what the   *)
(* part read so far asks for, and what each program remembers is what it   *)
(* should know of it.                                                      *)
(***************************************************************************)
Begun == /\ prog = "chef" => text \in ChefTexts
         /\ prog = "extract" => text \in MatchLines /\ format \in Formats
         /\ prog = "litc" => text \in LitLines
         /\ prog = "hexdump" => text \in Dumps

\* The letters in the buffer are the last ones read, from the beginning of a
\* word on.
LettersInHand ==
  prog = "chef" =>
    LET before == at - Len(buf)
    IN  /\ before \in 0..at /\ buf = SubSeq(text, before + 1, at)
        /\ \A k \in (before + 1)..at : text[k] \notin NotInWord
        /\ before < Len(text) /\ text[before + 1] \notin NotInWord => WordStart(text, before + 1)
        /\ out = FlattenSeq(SubSeq(Translated(text), 1, before))
        /\ pc = "done" => at = Len(text) \/ Len(buf) >= TC_LINEMAX - 1

FilledSoFar ==
  prog = "extract" => /\ out = FlattenSeq([k \in 1..at |-> Extracted(Front(text[k]))])
                      /\ pc = "done" => at = Len(text)

FencesCounted ==
  prog = "litc" => buf = Cardinality({x \in 1..at : Fence(text[x])}) % 2

PiecesShown ==
  prog = "hexdump" => /\ out \in Seq([addr : Nat, bytes : [1..Piece -> Nat]])
                      /\ at <= Piece * Len(out)
                      /\ at = Piece * Len(out) \/ at = Len(text)

IInv == /\ TypeOK /\ Begun /\ LettersInHand /\ FilledSoFar /\ FencesCounted /\ PiecesShown
        /\ LitcExtracts /\ HexdumpShows
=============================================================================
