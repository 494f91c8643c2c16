-------------------------------- MODULE Spell --------------------------------
(***************************************************************************)
(* spell: the words of the dictionaries are put into a trie; every line of *)
(* the text is searched for words, from a pointer s on that moves through  *)
(* the buffer of getline, and those that are not in the trie are reported. *)
(***************************************************************************)
EXTENDS Integers, SequencesExt

CONSTANTS Alnum, Inner,  \* characters that make a word, and that may be inside
          Others,        \* characters between words
          Dictionary,    \* its lines, without their newlines
          LineLen, MaxLines

NL == "\n"
NUL == "NUL"
JUNK == "junk"  \* what was never written
WordChars == Alnum \cup Inner
Chars == WordChars \cup Others

SpellAssumption ==
  /\ Dictionary \subseteq Seq(WordChars) /\ {LineLen, MaxLines} \subseteq Nat
  /\ {NL, NUL, JUNK} \cap Chars = {}

VARIABLES pc,      \* "load", "line", "word", "done" or "undefined"
          toload,  \* lines of the dictionary that are still to be read
          cells, terminal,  \* the trie: a cell is the characters that lead to it
          buf,     \* the buffer of getline, of LineLen + 2 characters
          s,       \* index of the next character in it
          lines,   \* the lines read so far
          feof,
          out      \* what is reported: [word, lineno]

vars == <<pc, toload, cells, terminal, buf, s, lines, feof, out>>

Init ==
  /\ pc = "load" /\ toload = Dictionary /\ cells = {<<>>} /\ terminal = {}
  /\ buf = [k \in 1..LineLen + 2 |-> JUNK] /\ s = 1
  /\ lines = <<>> /\ feof = FALSE /\ out = {}

\* Mutant: no cell for the last character.
CellsBefore(w) == IF w = <<>> THEN {w} ELSE Prefixes(Front(w))

CellsOf(w) == Prefixes(w)
TerminalOf(w) == {w}

\* A line of the dictionary: cell_define takes its last character for the
\* newline, although the last line need not have one.
Load == \E w \in toload, newline \in BOOLEAN :
  LET word == IF newline \/ w = <<>> THEN w ELSE Front(w) IN
  /\ pc = "load" /\ toload' = toload \ {w}
  /\ newline \/ toload' = {}
  /\ cells' = cells \cup CellsOf(word) /\ terminal' = terminal \cup TerminalOf(word)
  /\ UNCHANGED <<pc, buf, s, lines, feof, out>>

Loaded ==
  /\ pc = "load" /\ toload = {} /\ pc' = "line"
  /\ UNCHANGED <<toload, cells, terminal, buf, s, lines, feof, out>>

CellDefined(w) == Prefixes(w) \subseteq cells /\ w \in terminal

Texts == UNION {[1..k -> Chars] : k \in 0..LineLen}

\* getline writes the line and a NUL; what was behind them stays there.
GetLine == \E t \in Texts, newline \in BOOLEAN :
  LET line == IF newline THEN Append(t, NL) ELSE t IN
  /\ pc = "line" /\ ~feof /\ line # <<>> /\ Len(lines) < MaxLines
  /\ lines' = Append(lines, line) /\ feof' = ~newline
  /\ buf' = [k \in DOMAIN buf |-> CASE k <= Len(line) -> line[k]
                                    [] k = Len(line) + 1 -> NUL
                                    [] OTHER -> buf[k]]
  /\ s' = 1 /\ pc' = "word"
  /\ UNCHANGED <<toload, cells, terminal, out>>

NoLine ==
  /\ pc = "line" /\ pc' = "done"
  /\ UNCHANGED <<toload, cells, terminal, buf, s, lines, feof, out>>

\* match: of the string at s the leftmost word, as long as can be.
End == CHOOSE k \in s..Len(buf) + 1 :
  /\ k > Len(buf) \/ buf[k] \in {NUL, JUNK}
  /\ \A j \in s..k - 1 : buf[j] \notin {NUL, JUNK}
Starts == {i \in s..End - 1 : buf[i] \in Alnum}
Start == CHOOSE i \in Starts : \A j \in Starts : i <= j
Stops == {j \in Start..End - 1 : buf[j] \in Alnum /\ \A k \in Start..j : buf[k] \in WordChars}
Stop == CHOOSE j \in Stops : \A k \in Stops : k <= j
Word == SubSeq(buf, Start, Stop)

\* Mutant: the pointer stops at the last character of the word.
ToLast(n) == n - 1

Advance(n) == n + 1

\* The string ends in what was never written: nothing can be said of it.
Astray ==
  /\ pc = "word" /\ (End > Len(buf) \/ buf[End] = JUNK) /\ pc' = "undefined"
  /\ UNCHANGED <<toload, cells, terminal, buf, s, lines, feof, out>>

NextLine == IF feof THEN "done" ELSE "line"

\* One turn of the loop over the words of a line. The pointer moves by the
\* length of the word and one more, wherever the word was found.
Check ==
  /\ pc = "word" /\ End <= Len(buf) /\ buf[End] = NUL
  /\ IF Starts = {} THEN pc' = NextLine /\ UNCHANGED <<s, out>>
     ELSE /\ out' = IF CellDefined(Word) THEN out
                    ELSE out \cup {[word |-> Word, lineno |-> Len(lines)]}
          /\ s' = s + Advance(Len(Word))
          /\ pc' = IF s' <= Len(buf) /\ buf[s'] = NUL THEN NextLine ELSE "word"
  /\ UNCHANGED <<toload, cells, terminal, buf, lines, feof>>

Done == pc \in {"done", "undefined"} /\ UNCHANGED vars

Program == Load \/ Loaded \/ Astray \/ Check \/ NoLine
Next == Program \/ GetLine \/ Done
Spec == Init /\ [][Next]_vars /\ WF_vars(Program)

-----------------------------------------------------------------------------
\* Among the types: the cells are a trie, and a word ends in one of them; a
\* newline ends a line.
TypeOK ==
  /\ pc \in {"load", "line", "word", "done", "undefined"}
  /\ \A c \in cells : Prefixes(c) \subseteq cells
  /\ terminal \subseteq cells /\ toload \subseteq Dictionary
  /\ buf \in [1..LineLen + 2 -> Chars \cup {NL, NUL, JUNK}]
  /\ s \in 1..LineLen + 3 /\ feof \in BOOLEAN
  /\ lines \in Seq(Seq(Chars \cup {NL}) \ {<<>>})
  /\ \A k \in DOMAIN lines : \A j \in 1..Len(lines[k]) - 1 : lines[k][j] \in Chars
  /\ \A r \in out : r.lineno \in DOMAIN lines /\ r.word # <<>>

\* The words of a line: a run of WordChars as long as can be, from its first to
\* its last Alnum.
InRun(l, a, b) == \A k \in a..b : l[k] \in WordChars
IsWord(l, a, b) ==
  /\ a <= b /\ l[a] \in Alnum /\ l[b] \in Alnum /\ InRun(l, a, b)
  /\ \A k \in 1..a - 1 : l[k] \in Alnum => ~InRun(l, k, a)
  /\ \A k \in b + 1..Len(l) : l[k] \in Alnum => ~InRun(l, b, k)
WordsOf(l) ==
  {SubSeq(l, p[1], p[2]) : p \in {q \in (1..Len(l)) \X (1..Len(l)) : IsWord(l, q[1], q[2])}}

Searched == {k \in DOMAIN lines : k < Len(lines) \/ pc \in {"line", "done"}}
Reported(k) == {r.word : r \in {q \in out : q.lineno = k}}

\* What the program may know: the dictionary, or the dictionary with its last
\* entry cut, for want of a newline, by a character.
Known == {Dictionary} \cup {(Dictionary \ {d}) \cup {Front(d)} : d \in Dictionary \ {<<>>}}

\* Every word of a line that has been searched is reported, unless it is known:
\* what the pointer skips is never the beginning of a word.
MissesNothing(known) ==
  \A k \in Searched : \A w \in WordsOf(lines[k]) : w \in Reported(k) \/ w \in known

\* Nothing that is known is reported; and with one blank between the words, and
\* none before the first, only words are.
SingleSpaced(l) ==
  /\ l[Len(l)] = NL /\ l[1] \in Alnum
  /\ \A k \in 1..Len(l) - 1 : l[k] \notin Alnum => l[k + 1] \in Alnum \cup {NL}
AccusesWords(known) == \A k \in DOMAIN lines :
  /\ Reported(k) \cap known = {}
  /\ SingleSpaced(lines[k]) => Reported(k) \subseteq WordsOf(lines[k])

-----------------------------------------------------------------------------
\* For the proof: the text is not read before the dictionary, of whose words
\* the trie is made; the line that is searched is in the buffer, the words before
\* the pointer have been looked up, and between single blanks the pointer goes
\* from the beginning of a word to that of the next.
Learnt ==
  /\ IF pc = "load" THEN lines = <<>> ELSE toload = {}
  /\ terminal = Dictionary \ toload \/ (toload = {} /\ terminal \in Known)
CurrentLine == lines[Len(lines)]
InBuffer ==
  pc = "word" => /\ lines # <<>> /\ Len(CurrentLine) < LineLen + 2
                 /\ \A k \in 1..Len(CurrentLine) : buf[k] = CurrentLine[k]
                 /\ buf[Len(CurrentLine) + 1] = NUL
SoFar ==
  pc = "word" => \A a, b \in 1..Len(CurrentLine) : IsWord(CurrentLine, a, b) /\ a < s =>
                   SubSeq(CurrentLine, a, b) \in Reported(Len(lines)) \cup terminal
AtWord ==
  pc = "word" /\ SingleSpaced(CurrentLine) =>
    /\ s <= Len(CurrentLine)
    /\ \/ s = Len(CurrentLine)
       \/ CurrentLine[s] \in Alnum /\ (s = 1 \/ CurrentLine[s - 1] \notin WordChars)
IInv == /\ TypeOK /\ Learnt /\ InBuffer /\ SoFar /\ AtWord
        /\ MissesNothing(terminal) /\ AccusesWords(terminal)
=============================================================================
