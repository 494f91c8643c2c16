---------------------------- MODULE MC_Filters ----------------------------
(***************************************************************************)
(* The programs that filter a text, one group of which is chosen at the    *)
(* start: those that read characters, fed with every text of six           *)
(* characters, those that read lines, fed with every text of four lines    *)
(* under every value of the options of one of them at a time, those that   *)
(* look for words or pieces, the one that makes a sound of a text, and     *)
(* those that gather what they get before they use it.                     *)
(***************************************************************************)
EXTENDS Integers, Sequences, SequencesExt, LineAndWordFilters_proofs

CONSTANTS MaxLen, Alphabet, TABSTOP, TAB_WIDTH, Width, WordSize,  \* of the filters of characters
          Texts, SpeedOptions, Leftover, TC_WAV_SAMPLE_RATE,       \* of cw2wav
          Inputs, CAP, Headers, ID1, ID2, W, OldTimes, Arguments, MSGSZ

VARIABLES reads,
          expand, unexpand, fold, words, wc, ts, unix2dos, rev,
          speed, i, full, sound,
          tool, mem, size, told, status

charVars == <<expand, unexpand, fold, words, wc, ts, unix2dos, rev>>
morseVars == <<speed, i, full, sound>>
gatherVars == <<tool, mem, size, told, status>>
vars == <<reads, text, eof, at, pc, charVars, lineVars, wordVars, morseVars, gatherVars>>

\* For TLC: tab stops, width and buffer are small enough for the texts to
\* pass them.
MCAlphabet == {"a", "SP", "\t", "\n", "BS"}
Characters == INSTANCE CharFilters WITH TC_LINEMAX <- WordSize

\* For TLC: an empty line, and lines that differ in one field only.
MCLines == {<<>>, <<1, 1>>, <<1, 2>>, <<2, 2>>}
Defaults == [unique_only |-> FALSE, duplicate |-> FALSE, to_file |-> FALSE, nskip_fields |-> 0,
             tail_n |-> 2, bflag |-> "a", rows |-> 3, file |-> <<<<1, 1>>>>, junk |-> <<>>]
Files == {<<l>> : l \in MCLines}
         \cup {<<<<>>, l>> : l \in MCLines} \cup {<<<<1, 1>>, l>> : l \in MCLines \ {<<>>}}
         \cup {<<<<1, 2>>, l>> : l \in {<<1, 2>>, <<2, 2>>}} \cup {<<<<2, 2>>, <<2, 2>>>>}
MCOptions ==
  {[Defaults EXCEPT !.unique_only = u, !.duplicate = d, !.to_file = o, !.nskip_fields = n]
     : u, d, o \in BOOLEAN, n \in 0..2}
  \cup {[Defaults EXCEPT !.tail_n = n] : n \in 0..5}
  \cup {[Defaults EXCEPT !.bflag = b] : b \in {"a", "t", "n"}}
  \cup {[Defaults EXCEPT !.rows = r] : r \in 0..4}
  \cup {[Defaults EXCEPT !.file = f] : f \in Files}
  \cup {[Defaults EXCEPT !.file = <<>>, !.junk = j] : j \in {<<>>, <<1, 2>>}}

\* For TLC: all texts of five of these characters for chef, in a buffer for
\* words of three letters; formats of two pieces and a pattern with two groups,
\* the second of which may match nothing; fences and indented lines; files of
\* up to five bytes in pieces of two.
MCMatch == [l \in BoundedSeq({"a", "b", "c"}, 2) |-> IF l = <<>> \/ l[1] # "a" THEN <<>>
              ELSE <<l, <<"a">>, IF Len(l) > 1 /\ l[2] = "b" THEN <<"b">> ELSE <<"unset">>>>]
MCChefTexts == BoundedSeq({"t", "h", "e", "n", "SP"}, 5)
MCFormats == BoundedSeq({<<"x">>, <<"1">>, <<"$">>, <<"$", "$">>, <<"$", "0">>, <<"$", "1">>,
                         <<"$", "2">>, <<"$", "3">>, <<"$", "1", "0">>}, 2)
MCMatchLines == {<<<<"a", "b", "\n">>, <<"c", "\n">>, <<"a", "c", "\n">>>>, <<<<"\n">>, <<"a", "b">>>>}
MCLitLines == BoundedSeq([lead : {"none", "spaces", "tab", "fence"}, rest : {"x"}], 4)
MCDumps == BoundedSeq({0, 7}, 5)

\* For TLC: e and t, of one tone, A, of theirs one after the other, blanks, and
\* characters without a code; spacing slower, much slower and far too fast.
MCTexts == BoundedSeq({101, 84, 65, 32, 35, 255}, 3)
MCSpeedOptions == {[w |-> 12, f |-> 0], [w |-> 12, f |-> 4], [w |-> 12, f |-> 40], [w |-> 0, f |-> 101]}
MCLeftover == {0 - 1, 0, 7}
Sound == INSTANCE Morse WITH Garbage <- Leftover

\* For TLC: a buffer that grows twice; bytes of four bits, headers whole, with
\* a wrong beginning, and cut anywhere; messages of up to five characters.
Header(begin, time) == begin \o <<8, 10>> \o time \o <<0, 3>>
MCInputs == BoundedSeq({"a", "b"}, 5)
MCHeaders == {SubSeq(Header(b, t), 1, n) : b \in {<<1, 11>>, <<1, 8>>, <<2, 11>>},
                                           t \in [1..4 -> {0, 7, 15}], n \in 0..10}
MCOldTimes == {0, 2^16 - 1, 12345}
MCArguments == BoundedSeq(BoundedSeq({"a", "b"}, 3), 2) \cup BoundedSeq({<<>>, <<"a">>, <<"b", "c", "d", "e">>}, 3)
Bytes == INSTANCE Gather

ASSUME BytesAssumed == Bytes!GatherAssumption
ASSUME CharactersAssumed == Characters!FilterAssumption
ASSUME SoundAssumed == Sound!MorseAssumption
ASSUME CodesDiffer == Sound!CodesDiffer

Unused == "unused"
UnusedCharacters == /\ expand = Unused /\ unexpand = Unused /\ fold = Unused /\ words = Unused
                    /\ wc = Unused /\ ts = Unused /\ unix2dos = Unused /\ rev = Unused
UnusedLines == /\ opt = Unused /\ uniq = Unused /\ tail = Unused /\ tac = Unused
               /\ nl = Unused /\ more = Unused /\ mismatch = Unused
UnusedWords == prog = Unused /\ format = Unused /\ buf = Unused /\ out = Unused
UnusedSound == speed = Unused /\ i = Unused /\ full = Unused /\ sound = Unused
UnusedBytes == tool = Unused /\ mem = Unused /\ size = Unused /\ told = Unused /\ status = Unused
Init ==
  \/ /\ reads = "characters" /\ Characters!Init /\ at = Unused /\ pc = Unused
     /\ UnusedLines /\ UnusedWords /\ UnusedSound /\ UnusedBytes
  \/ /\ reads = "lines" /\ LinesOf!Init /\ at = Unused /\ pc = Unused
     /\ UnusedCharacters /\ UnusedWords /\ UnusedSound /\ UnusedBytes
  \/ /\ reads = "words" /\ WordsOf!Init /\ eof = Unused
     /\ UnusedCharacters /\ UnusedLines /\ UnusedSound /\ UnusedBytes
  \/ /\ reads = "codes" /\ Sound!Init /\ eof = Unused
     /\ UnusedCharacters /\ UnusedLines /\ UnusedWords /\ UnusedBytes
  \/ /\ reads = "bytes" /\ Bytes!Init /\ eof = Unused /\ pc = Unused
     /\ UnusedCharacters /\ UnusedLines /\ UnusedWords /\ UnusedSound

CharacterStep == reads = "characters" /\ Characters!Next
                 /\ UNCHANGED <<reads, at, pc, lineVars, wordVars, morseVars, gatherVars>>
LineStep == reads = "lines" /\ LinesOf!Next
            /\ UNCHANGED <<reads, at, pc, charVars, wordVars, morseVars, gatherVars>>
WordStep == reads = "words" /\ WordsOf!Next
            /\ UNCHANGED <<reads, eof, charVars, lineVars, morseVars, gatherVars>>
CodeStep == reads = "codes" /\ Sound!Next
            /\ UNCHANGED <<reads, eof, charVars, lineVars, wordVars, gatherVars>>
ByteStep == reads = "bytes" /\ Bytes!Next
            /\ UNCHANGED <<reads, eof, pc, charVars, lineVars, wordVars, morseVars>>

Next == CharacterStep \/ LineStep \/ WordStep \/ CodeStep \/ ByteStep
Spec == Init /\ [][Next]_vars

-----------------------------------------------------------------------------
TypeOK ==
  /\ reads = "characters" => Characters!TypeOK
  /\ reads = "lines" => LinesOf!TypeOK
  /\ reads = "words" => WordsOf!TypeOK
  /\ reads = "codes" => Sound!TypeOK
  /\ reads = "bytes" => Bytes!TypeOK

\* expand.c, fold.c: what a terminal shows of the text stays in its row and
\* column, or is broken where the width asks for it and nowhere else.
ColumnsKept ==
  reads = "characters" =>
    Characters!ExpandKeepsColumns /\ Characters!FoldFits /\ Characters!FoldOnlyBreaks

\* makewords.c, wc.c, ts.c, unix2dos.c, rev.c, chef.c, hexdump.c: words, lines
\* and characters are those of the text, each once and in its place; but a word
\* that the text ends with may be missing from makewords, and nothing is said of
\* what rev makes of a last line without a newline. md2.c, gzinfo.c, logger.c:
\* what is digested, shown or logged is what was read; but logger may cut the
\* ends of arguments that are longer than the room behind all of them.
TextKept ==
  /\ reads = "characters" =>
       /\ Characters!MakewordsSplits /\ Characters!WcCounts /\ Characters!TsStampsLines
       /\ Characters!DosRoundTrip /\ Characters!RevReverses
  /\ reads = "words" => WordsOf!ChefTranslates /\ WordsOf!HexdumpShows
  /\ reads = "bytes" => Bytes!DigestsWhole /\ Bytes!ShowsHeader /\ Bytes!LogsArguments

\* cw2wav.c: the text can be heard in the sound, its characters as long as
\* the spaces between them are longer than those within, its words where
\* nothing else makes a longer space. Where the index at cw2wav.c:454 happens to
\* be 0 the space is missing, and just those two characters run together.
TextHeard == reads = "codes" => Sound!CharactersHeard /\ Sound!WordsHeard

\* uniq.c, tail.c, nl.c, more.c, mismatch.c, extract.c, litc.c: the lines that
\* are printed, counted or paged are those that the definition of each
\* program chooses.
LinesChosen ==
  /\ reads = "lines" =>
       /\ LinesOf!UniqGroups /\ LinesOf!TailLines /\ LinesOf!NlConsecutive
       /\ LinesOf!MorePages /\ LinesOf!MismatchFinds
  /\ reads = "words" => WordsOf!ExtractFills /\ WordsOf!LitcExtracts

\* uniq.c:177 "skip comparison of the first N fields".
UniqSkipsFields == reads = "lines" => LinesOf!UniqSkipsFields
=============================================================================
