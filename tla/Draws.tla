------------------------------- MODULE Draws -------------------------------
(***************************************************************************)
(* Programs that ask for random numbers until one of them will do, or for  *)
(* as many as they need: xkcdpass, which draws words from a list, d6,      *)
(* which throws a die, and uuidgen, whose first digits are the time. A     *)
(* step is one line, one number or one digit; random numbers are any.      *)
(***************************************************************************)
EXTENDS Integers, Sequences, SequencesExt, FiniteSetsExt, Stepwise

CONSTANTS WordLists,  \* sequences of characters
          Acrostics,  \* words, and None
          None,
          NWords,     \* without an acrostic, 4
          Phrases,    \* option -c
          TcTolower,  \* of the letters
          Times,      \* in units of ten microseconds
          BYTES, DIGIT \* of the time uuidgen prints 6 bytes, of two digits below 16 each

DrawsAssumption ==
  /\ WordLists \subseteq Seq(STRING) /\ Acrostics \ {None} \subseteq Seq(STRING)
  /\ {NWords, Phrases, BYTES, DIGIT} \subseteq Nat /\ DIGIT > 0 /\ Times \subseteq Nat

VARIABLES game, dict, acrostic,
          words,    \* the offsets of the lines
          at,       \* read so far
          i, j,     \* phrase, word in it
          said,     \* what has been printed
          ts, outcome
vars == <<game, dict, acrostic, words, at, i, j, said, ts, outcome>>
given == <<game, dict, acrostic, ts>>

Init == /\ game \in {"xkcdpass", "d6", "uuidgen"}
        /\ dict \in IF game = "xkcdpass" THEN WordLists ELSE {<<>>}
        /\ acrostic \in IF game = "xkcdpass" THEN Acrostics ELSE {None}
        /\ ts \in IF game = "uuidgen" THEN Times ELSE {0}
        /\ words = <<0>> /\ at = 0 /\ i = 0 /\ j = 0
        /\ said = IF game = "xkcdpass" /\ Phrases > 0 THEN <<<<>>>> ELSE <<>>
        /\ outcome = "none"

-----------------------------------------------------------------------------
\* The line that getline gives at an offset, with its newline.
LineAt(offset) ==
  LET ends == {k \in (offset + 1)..Len(dict) : dict[k] = "\n"}
  IN  SubSeq(dict, offset + 1, IF ends = {} THEN Len(dict) ELSE Min(ends))

\* The offset behind every line that is read is added to the list, that of
\* the end of the file too.
Loading == game = "xkcdpass" /\ outcome = "none" /\ at < Len(dict)
Load == /\ Loading
        /\ at' = at + Len(LineAt(at))
        /\ words' = Append(words, at')
        /\ UNCHANGED <<given, i, j, said, outcome>>

n == IF acrostic = None THEN NWords ELSE Len(acrostic)
Drawing == game = "xkcdpass" /\ outcome = "none" /\ at = Len(dict) /\ i < Phrases

\* Mutant: the end of the file is among the lines.
AllOffsets == 0..(Len(words) - 1)

Offsets == 0..(Len(words) - 2)
Line(r) == LineAt(words[r + 1])

\* A line feed at the end goes, then a carriage return there, then all from
\* an apostrophe on.
WithoutLast(l, c) == IF l # <<>> /\ Last(l) = c THEN Front(l) ELSE l
Stripped(l) == LET s == WithoutLast(WithoutLast(l, "\n"), "\r")
                   cuts == {k \in DOMAIN s : s[k] = "'"}
               IN  IF cuts = {} THEN s ELSE SubSeq(s, 1, Min(cuts) - 1)

\* Where there is no line the phrase is over.
Suits(r) == acrostic # None /\ Line(r) # <<>> => Line(r)[1] = TcTolower[acrostic[j + 1]]
Take(r) == /\ Drawing /\ j < n /\ r \in Offsets /\ Suits(r)
           /\ IF Line(r) = <<>> THEN j' = n /\ said' = said
              ELSE j' = j + 1 /\ said' = [said EXCEPT ![i + 1] = Append(@, Stripped(Line(r)))]
           /\ UNCHANGED <<given, words, at, i, outcome>>

\* A word with another letter counts for nothing; j-- is made good by j++.
Reject(r) == Drawing /\ j < n /\ r \in Offsets /\ ~Suits(r) /\ UNCHANGED vars

\* The remainder of a division by the number of lines of an empty list.
Trap == Drawing /\ j < n /\ Len(words) = 1 /\ outcome' = "trap" /\ UNCHANGED <<given, words, at, i, j, said>>

NextPhrase == /\ Drawing /\ j = n
              /\ i' = i + 1 /\ j' = 0
              /\ said' = IF i + 1 < Phrases THEN Append(said, <<>>) ELSE said
              /\ UNCHANGED <<given, words, at, outcome>>
AllSaid == /\ game = "xkcdpass" /\ outcome = "none" /\ at = Len(dict) /\ i = Phrases
           /\ outcome' = "success" /\ UNCHANGED <<given, words, at, i, j, said>>

-----------------------------------------------------------------------------
\* d6.c: three bits, taken again while they are 6 or 7.
Throw(roll) == /\ game = "d6" /\ outcome = "none" /\ roll < 6
               /\ said' = <<roll + 1>> /\ outcome' = "success"
               /\ UNCHANGED <<given, words, at, i, j>>
ThrowAgain(roll) == game = "d6" /\ outcome = "none" /\ roll >= 6 /\ UNCHANGED vars

\* uuidgen.c: the bytes of the time, the high one first, each as two digits.
\* Mutant: the low digit is printed first.
LowFirst(byte) == <<byte % DIGIT, byte \div DIGIT>>

Digits(byte) == <<byte \div DIGIT, byte % DIGIT>>
BASE == DIGIT * DIGIT
Byte(k) == (ts \div Power(BASE, BYTES - 1 - k)) % BASE
TimeByte == /\ game = "uuidgen" /\ outcome = "none" /\ at < BYTES
            /\ said' = said \o Digits(Byte(at)) /\ at' = at + 1
            /\ UNCHANGED <<given, words, i, j, outcome>>
\* Version, variant and random digits follow.
TheRest == /\ game = "uuidgen" /\ outcome = "none" /\ at = BYTES
           /\ outcome' = "success" /\ UNCHANGED <<given, words, at, i, j, said>>
\* /dev/urandom or the list cannot be opened, or there is too little of the
\* former: nothing has been printed.
NoRandom == /\ outcome = "none" /\ at = 0 /\ game \in {"xkcdpass", "uuidgen"}
            /\ i = 0 /\ j = 0
            /\ outcome' = "failure" /\ UNCHANGED <<given, words, at, i, j, said>>

TakeAny == \E r \in 0..Len(dict) : Take(r)
ThrowAny == \E roll \in 0..7 : Throw(roll)
Draws == TakeAny \/ ThrowAny
Program == \/ Load \/ Trap \/ NextPhrase \/ AllSaid \/ TimeByte \/ TheRest \/ NoRandom
           \/ (\E r \in 0..Len(dict) : Reject(r)) \/ \E roll \in 0..7 : ThrowAgain(roll)
Done == outcome # "none" /\ UNCHANGED vars
Next == Program \/ Draws \/ Done

-----------------------------------------------------------------------------
TypeOK == /\ game \in {"xkcdpass", "d6", "uuidgen"}
          /\ dict \in WordLists \cup {<<>>} /\ acrostic \in Acrostics \cup {None}
          /\ at \in 0..(Len(dict) + BYTES) /\ i \in 0..Phrases /\ j \in 0..n
          /\ outcome \in {"none", "success", "failure", "trap"}
          /\ words \in Seq(0..Len(dict))

\* xkcdpass.c: a passphrase is of words of the list, as many as are asked for
\* or one for each letter of the acrostic, which it begins with; what may be
\* missing of a word is what stands behind an apostrophe.
ListLines(d) == {SubSeq(d, q[1], q[2]) : q \in {p \in (DOMAIN d) \X (DOMAIN d) :
                    /\ p[1] <= p[2] /\ (p[1] = 1 \/ d[p[1] - 1] = "\n")
                    /\ (p[2] = Len(d) \/ d[p[2]] = "\n")
                    /\ \A k \in p[1]..(p[2] - 1) : d[k] # "\n"}}
InList(d, w) == \E l \in ListLines(d) : /\ IsPrefix(w, l)
                                        /\ \A k \in DOMAIN w : w[k] # "'"
                                        /\ \/ Len(w) = Len(l)
                                           \/ l[Len(w) + 1] \in {"'", "\n", "\r"}
WordFor(d, a, m, w) == /\ InList(d, w)
                       /\ a # None /\ w # <<>> => w[1] = TcTolower[a[m]]
PhrasesOfWords ==
  game = "xkcdpass" =>
    /\ \A k \in DOMAIN said : \A m \in DOMAIN said[k] : WordFor(dict, acrostic, m, said[k][m])
    /\ outcome = "success" => Len(said) = Phrases /\ \A k \in DOMAIN said : Len(said[k]) = n
    /\ outcome = "trap" => dict = <<>>

\* d6.c: one of six.
OneOfSix == game = "d6" /\ outcome = "success" => said \in {<<k>> : k \in 1..6}

\* uuidgen.c: the digits are those of the time, so that a later UUID comes
\* behind an earlier one, as long as the time fits into them.
InOrderOfTime ==
  game = "uuidgen" /\ outcome = "success" =>
    /\ Len(said) = 2 * BYTES
    /\ Value(DIGIT, said) = ts % Power(BASE, BYTES)

\* A passphrase comes to its end if each letter of the acrostic begins a line
\* of the list; the die and the UUID always do.
CanEnd == \/ game # "xkcdpass"
          \/ acrostic = None
          \/ \A m \in DOMAIN acrostic : \E l \in ListLines(dict) : l[1] = TcTolower[acrostic[m]]
Ended == outcome # "none"

-----------------------------------------------------------------------------
(***************************************************************************)
(* The invariant that the proofs need: every offset but the last is where  *)
(* a line begins, the phrases before the one that is drawn are whole, and  *)
(* the digits are those of the time.                                       *)
(***************************************************************************)
Begins(o) == o = 0 \/ o = Len(dict) \/ dict[o] = "\n"

Loaded ==
  game = "xkcdpass" =>
    /\ Len(words) > 0 /\ words[1] = 0 /\ words[Len(words)] = at /\ at <= Len(dict)
    /\ \A k \in 1..Len(words) : Begins(words[k])
    /\ \A k \in 1..Len(words) - 1 : words[k] < Len(dict)

Whole ==
  game = "xkcdpass" =>
    /\ said \in Seq(Seq(Seq(STRING)))
    /\ Len(said) = IF i < Phrases THEN i + 1 ELSE Phrases
    /\ \A k \in 1..Len(said) : Len(said[k]) = IF k = i + 1 THEN j ELSE n
    /\ \A k \in 1..Len(said) : \A m \in 1..Len(said[k]) : WordFor(dict, acrostic, m, said[k][m])
    /\ outcome = "success" => i = Phrases
    /\ outcome = "trap" => dict = <<>>

\* The digits that have been said are those of the time but for its last bytes.
Dated ==
  game = "uuidgen" =>
    /\ ts \in Nat /\ at <= BYTES /\ (outcome = "success" => at = BYTES)
    /\ said \in Seq(Nat) /\ Len(said) = 2 * at
    /\ Value(DIGIT, said) = (ts \div Power(BASE, BYTES - at)) % Power(BASE, at)

IInv == TypeOK /\ Loaded /\ Whole /\ OneOfSix /\ Dated
=============================================================================
