------------------------------- MODULE Morse -------------------------------
(***************************************************************************)
(* cw2wav.c: a text as the sound of its Morse code. What the model hears   *)
(* is the sequence of tones and silences with their lengths in samples;    *)
(* the wave form is left out. Characters are bytes.                        *)
(***************************************************************************)
EXTENDS Integers, Sequences, SequencesExt, Stepwise

CONSTANTS Texts,              \* what the input file may hold
          SpeedOptions,       \* numbers given with -w and -f, 0 for none
          Garbage,            \* what the uninitialised i may hold
          TC_WAV_SAMPLE_RATE

DEFAULT_WPM == 18
TC_EOF == 255                 \* (char) 255 and TC_EOF are both -1

MorseAssumption == /\ TC_WAV_SAMPLE_RATE \in Nat \ {0}
                   /\ Garbage \subseteq Int
                   /\ SpeedOptions \subseteq [w : Int, f : Int]
                   /\ \A t \in Texts : t \in Seq(0..255)

VARIABLES text, speed, at, i, full, sound, pc
vars == <<text, speed, at, i, full, sound, pc>>

-----------------------------------------------------------------------------
\* A dit is one unit long and a dah three; the codes are those of the letters
\* from A to Z and of the digits.
Letters == <<
  <<1,3>>, <<3,1,1,1>>, <<3,1,3,1>>, <<3,1,1>>, <<1>>, <<1,1,3,1>>, <<3,3,1>>,
  <<1,1,1,1>>, <<1,1>>, <<1,3,3,3>>, <<3,1,3>>, <<1,3,1,1>>, <<3,3>>, <<3,1>>,
  <<3,3,3>>, <<1,3,3,1>>, <<3,3,1,3>>, <<1,3,1>>, <<1,1,1>>, <<3>>, <<1,1,3>>,
  <<1,1,1,3>>, <<1,3,3>>, <<3,1,1,3>>, <<3,1,3,3>>, <<3,3,1,1>> >>
Digits == [d \in 0..9 |-> [k \in 1..5 |-> IF d <= 5 THEN (IF k <= d THEN 1 ELSE 3)
                                          ELSE (IF k <= d - 5 THEN 3 ELSE 1)]]

Blank(c) == c \in {7, 10, 32}
Code(c) ==
  CASE c \in 65..90 -> Letters[c - 64]
    [] c \in 97..122 -> Letters[c - 96]
    [] c \in 48..57 -> Digits[c - 48]
    [] c = 44 -> <<3,3,1,1,3,3>>
    [] c = 46 -> <<1,3,1,3,1,3>>
    [] c = 61 -> <<3,1,1,1,3>>
    [] c = 63 -> <<1,1,3,3,1,1>>
    [] OTHER -> <<>>

\* Options out of range fall back to the default, and fwpm to wpm.
InRange(n) == n \in 1..100
Wpm(o) == IF InRange(o.w) THEN o.w ELSE DEFAULT_WPM
Fwpm(o) == IF InRange(o.f) THEN o.f ELSE Wpm(o)

Unit(wpm) == (TC_WAV_SAMPLE_RATE * 60) \div (50 * wpm)
Tone(k) == [on |-> TRUE, n |-> k * Unit(Wpm(speed))]
Silence(wpm, k) == <<[on |-> FALSE, n |-> k * Unit(wpm)]>>
IntraCharacterSpace == Silence(Wpm(speed), 1)

\* Mutant: the space between two characters is as long as that within one.
InterCharacterSpaceShort == Silence(Wpm(speed), 1)
InterCharacterSpace == Silence(Fwpm(speed), 3)
InterWordSpace == Silence(Fwpm(speed), 5)

WriteCharacter(c) ==
  IF Blank(c) THEN InterWordSpace
  ELSE FlattenSeq([k \in 1..Len(Code(c)) |->
         (IF k = 1 THEN <<>> ELSE IntraCharacterSpace) \o <<Tone(Code(c)[k])>>])

-----------------------------------------------------------------------------
Init == /\ text \in Texts /\ speed \in SpeedOptions /\ i \in Garbage
        /\ at = 0 /\ full = FALSE /\ sound = <<>> /\ pc = "init"

\* init_space and init_tone allocate five buffers, each of which may fail.
Allocate == /\ pc = "init"
            /\ pc' \in {"main", "failed"}
            /\ UNCHANGED <<text, speed, at, i, full, sound>>

\* What tc_wav_write returns is not looked at.
WavWrite(s) == sound' = IF full THEN sound ELSE sound \o s
DiskFull == /\ pc = "main" /\ ~full
            /\ full' = TRUE
            /\ UNCHANGED <<text, speed, at, i, sound, pc>>

GetCharacter ==
  /\ pc = "main" /\ at < Len(text) /\ text[at + 1] # TC_EOF
  /\ WavWrite((IF i # 0 THEN InterCharacterSpace ELSE <<>>) \o WriteCharacter(text[at + 1]))
  /\ at' = at + 1 /\ i' = i + 1
  /\ UNCHANGED <<text, speed, full, pc>>

EndOfInput == /\ pc = "main" /\ ~(at < Len(text) /\ text[at + 1] # TC_EOF)
              /\ pc' = "done"
              /\ UNCHANGED <<text, speed, at, i, full, sound>>

Done == pc \in {"done", "failed"} /\ UNCHANGED vars
Next == Allocate \/ DiskFull \/ GetCharacter \/ EndOfInput \/ Done

-----------------------------------------------------------------------------
TypeOK == /\ text \in Texts /\ speed \in SpeedOptions
          /\ at \in 0..Len(text) /\ i - at \in Garbage
          /\ full \in BOOLEAN /\ sound \in Seq([on : BOOLEAN, n : Nat])
          /\ pc \in {"init", "main", "done", "failed"}
          /\ pc \in {"init", "failed"} => sound = <<>>

\* The tones in groups that are apart by a silence longer than limit.
Hear(limit) ==
  [acc \in [groups : Seq(Seq(Nat)), gap : Nat] |-> [e \in [on : BOOLEAN, n : Nat] |->
     CASE ~e.on -> [acc EXCEPT !.gap = @ + e.n]
       [] e.on /\ (acc.groups = <<>> \/ acc.gap > limit) -> [groups |-> Append(acc.groups, <<e.n>>), gap |-> 0]
       [] OTHER -> [groups |-> Append(Front(acc.groups), Append(Last(acc.groups), e.n)), gap |-> 0]]]
Groups(limit) == Folded(Hear(limit), [groups |-> <<>>, gap |-> 0], sound).groups
Tones(c) == [k \in 1..Len(Code(c)) |-> Code(c)[k] * Unit(Wpm(speed))]

Read == SubSeq(text, 1, at)
Heard == pc = "done" /\ ~full

\* The character before which i was 0, at any place or nowhere: it has no space
\* before it, and runs together with the one before it, if there is one.
Zeroth == at - i + 1
Joins == Zeroth \in 2..at /\ Code(text[Zeroth - 1]) # <<>> /\ Code(text[Zeroth]) # <<>>
JoinedAt(s, n) ==
  [k \in 1..Len(s) - 1 |-> IF k < n THEN s[k] ELSE IF k = n THEN s[n] \o s[n + 1] ELSE s[k + 1]]

\* cw2wav.c: no two characters have the same code, and wherever fwpm is less
\* than three times wpm the characters can be told apart again by their
\* silences: those with a code are heard, in their order, and nothing else.
\* Whatever the uninitialised i holds, at most two of them run together.
CharactersHeard ==
  Heard /\ Fwpm(speed) < 3 * Wpm(speed) =>
    LET Coded(t) == Only(t, {c \in 0..255 : Code(c) # <<>>})
        apart == [k \in 1..Len(Coded(Read)) |-> Tones(Coded(Read)[k])]
    IN  Groups(Unit(Wpm(speed))) =
          IF Joins THEN JoinedAt(apart, Len(Coded(SubSeq(text, 1, Zeroth - 1)))) ELSE apart
CodesDiffer == \A c, d \in 32..96 : Code(c) = Code(d) /\ Code(c) # <<>> => c = d

\* cw2wav.c: of a text in which every character has a code or is blank, words
\* are heard as they are written, with any i.
Spell ==
  [acc \in [words : Seq(Seq(Nat)), open : BOOLEAN] |-> [c \in 0..255 |->
     CASE Blank(c) -> [acc EXCEPT !.open = FALSE]
       [] ~Blank(c) /\ acc.open -> [acc EXCEPT !.words = Append(Front(@), Last(@) \o Tones(c))]
       [] OTHER -> [words |-> Append(acc.words, Tones(c)), open |-> TRUE]]]
WordsOf(t) == Folded(Spell, [words |-> <<>>, open |-> FALSE], t).words
WordsHeard ==
  Heard /\ Fwpm(speed) <= Wpm(speed) /\ (\A k \in 1..at : Blank(text[k]) \/ Code(text[k]) # <<>>) =>
    Groups(3 * Unit(Fwpm(speed))) = WordsOf(Read)
=============================================================================
