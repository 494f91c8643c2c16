-------------------------- MODULE MC_Texts_proofs --------------------------
(***************************************************************************)
(* What spell, grep, cmp, seq and factor promise, for texts of any length, *)
(* all dictionaries and patterns, integers of any width and all numbers.   *)
(***************************************************************************)
EXTENDS MC_Texts, FiniteSetTheorems, SequenceTheorems, WellFoundedInduction, TLAPS

\* A set of natural numbers has a least element.
LEMMA Smallest == ASSUME NEW T \in SUBSET Nat, T # {} PROVE \E a \in T : \A b \in T : a <= b
<1> DEFINE R == {q \in Nat \X Nat : q[1] < q[2]}
<1>1. IsWellFoundedOn(R, Nat)
  BY NatLessThanWellFounded DEF OpToRel
<1>2. PICK a \in T : \A b \in T : <<b, a>> \notin R
  <2> HIDE DEF R
  <2> QED
    BY <1>1, WFMin
<1>3. ASSUME NEW b \in T PROVE ~(b < a)
  <2>1. <<b, a>> \in Nat \X Nat /\ <<b, a>>[1] = b /\ <<b, a>>[2] = a
    OBVIOUS
  <2>2. <<b, a>> \notin R
    BY <1>2
  <2> QED
    BY <2>1, <2>2
<1>4. \A b \in T : b \in Nat /\ a \in Nat
  OBVIOUS
<1> HIDE DEF R
<1>5. \A b \in T : a <= b
  BY <1>3, <1>4
<1> QED
  BY <1>5

\* So has a bounded one a largest.
LEMMA Largest ==
  ASSUME NEW n \in Nat, NEW T \in SUBSET (0..n), T # {} PROVE \E a \in T : \A b \in T : b <= a
<1> DEFINE U == {q \in 0..n : n - q \in T}
<1>1. U \in SUBSET Nat /\ U # {}
  <2>1. PICK a \in T : TRUE
    OBVIOUS
  <2>2. a \in Nat /\ a <= n /\ n - a \in 0..n /\ n - (n - a) = a
    BY <2>1
  <2>3. n - a \in U
    BY <2>1, <2>2
  <2>4. \A q \in 0..n : q \in Nat
    OBVIOUS
  <2> QED
    BY <2>3, <2>4
<1>2. PICK m \in U : \A q \in U : m <= q
  <2> HIDE DEF U
  <2> QED
    BY <1>1, Smallest
<1>3. m \in 0..n /\ n - m \in T
  BY <1>2
<1>4. ASSUME NEW b \in T PROVE b <= n - m
  <2>1. b \in 0..n /\ n - b \in 0..n /\ n - (n - b) = b
    OBVIOUS
  <2>2. n - b \in U
    BY <2>1, <1>4
  <2>3. m <= n - b
    BY <1>2, <2>2
  <2> QED
    BY <1>3, <2>1, <2>3
<1> QED
  BY <1>3, <1>4

-----------------------------------------------------------------------------
\* spell

LineChars == Spell!Chars \cup {Spell!NL}

\* What is put into the trie for a word, all that it begins with, is closed.
LEMMA PrefixesClosed ==
  ASSUME NEW S, NEW w \in Seq(S)
  PROVE  w \in Spell!Prefixes(w) /\ \A p \in Spell!Prefixes(w) : Spell!Prefixes(p) \subseteq Spell!Prefixes(w)
<1> DEFINE Pre(q) == {SubSeq(q, 1, n) : n \in 0..Len(q)}
<1>1. Len(w) \in Nat /\ SubSeq(w, 1, Len(w)) = w
  OBVIOUS
<1>2. w \in Pre(w)
  <2>1. Len(w) \in 0..Len(w)
    BY <1>1
  <2> QED
    BY <1>1, <2>1
<1>3. ASSUME NEW m \in 0..Len(w), NEW n \in 0..m
      PROVE SubSeq(SubSeq(w, 1, m), 1, n) = SubSeq(w, 1, n)
  <2> DEFINE p == SubSeq(w, 1, m)
             x == SubSeq(p, 1, n)
             y == SubSeq(w, 1, n)
  <2>1. m \in Nat /\ n \in Nat /\ n <= m /\ m <= Len(w)
    BY <1>1
  <2>2. p \in Seq(S) /\ Len(p) = m /\ \A j \in 1..m : p[j] = w[j]
    BY <2>1
  <2>3. y \in Seq(S) /\ Len(y) = n /\ \A j \in 1..n : y[j] = w[j]
    BY <2>1
  <2> HIDE DEF p, y
  <2>4. x \in Seq(S) /\ Len(x) = n /\ \A j \in 1..n : x[j] = w[j]
    BY <2>1, <2>2
  <2> HIDE DEF x
  <2>5. x = y
    BY <2>3, <2>4, SeqEqual
  <2> QED
    BY <2>5 DEF x, y, p
<1>4. ASSUME NEW p \in Pre(w) PROVE Pre(p) \subseteq Pre(w)
  <2>1. PICK m \in 0..Len(w) : p = SubSeq(w, 1, m)
    BY <1>4
  <2>2. Len(p) = m
    BY <1>1, <2>1
  <2>3. ASSUME NEW n \in 0..m PROVE SubSeq(p, 1, n) \in Pre(w)
    <3>1. n \in 0..Len(w)
      BY <1>1
    <3>2. SubSeq(p, 1, n) = SubSeq(w, 1, n)
      BY <1>3, <2>1
    <3> QED
      BY <3>1, <3>2
  <2> QED
    BY <2>2, <2>3
<1>5. \A q : Pre(q) = Spell!Prefixes(q)
  BY DEF Spell!Prefixes
<1> HIDE DEF Pre
<1> QED
  BY <1>2, <1>4, <1>5

\* A word of a line that begins at the pointer or behind it, but not behind
\* the one that was found, is the one that was found.
LEMMA FirstWord ==
  ASSUME NEW l, Len(l) \in Nat, NEW s0 \in Nat, NEW A \in Nat, NEW B \in Nat,
         1 <= s0, s0 <= A, A <= B, B <= Len(l), l[A] \in Alnum, l[B] \in Alnum,
         Spell!InRun(l, A, B),
         \A k \in s0..A - 1 : l[k] \notin Alnum,
         \A k \in B + 1..Len(l) : l[k] \in Alnum => ~Spell!InRun(l, A, k),
         NEW a \in Nat, NEW b \in Nat, b <= Len(l), Spell!IsWord(l, a, b), s0 <= a, a <= B + 1
  PROVE  a = A /\ b = B
<1> DEFINE L(k) == l[k] \in Alnum
           R(x, y) == Spell!InRun(l, x, y)
           W(k) == l[k] \in Spell!WordChars
<1>1. /\ a <= b /\ L(a) /\ L(b) /\ R(a, b)
      /\ \A k \in 1..a - 1 : L(k) => ~R(k, a)
      /\ \A k \in b + 1..Len(l) : L(k) => ~R(b, k)
  BY Zenon DEF Spell!IsWord
<1>2. L(A) /\ L(B) /\ R(A, B) /\ (\A k \in s0..A - 1 : ~L(k)) /\ \A k \in B + 1..Len(l) : L(k) => ~R(A, k)
  OBVIOUS
<1>3. \A x, y : R(x, y) <=> \A k \in x..y : W(k)
  BY DEF Spell!InRun
<1>4. \A k : L(k) => W(k)
  BY DEF Spell!WordChars
<1> HIDE DEF L, R, W
<1>5. ~(a < A)
  BY <1>1, <1>2
<1>6. a # B + 1
  <2> SUFFICES ASSUME a = B + 1 PROVE FALSE
    OBVIOUS
  <2>1. R(A, a)
    BY <1>1, <1>2, <1>3, <1>4
  <2> QED
    BY <1>1, <1>2, <2>1
<1>7. ~(A < a)
  <2> SUFFICES ASSUME A < a PROVE FALSE
    OBVIOUS
  <2>1. a <= B /\ A \in 1..a - 1
    BY <1>6
  <2>2. R(A, a)
    BY <1>2, <1>3, <2>1
  <2> QED
    BY <1>1, <1>2, <2>1, <2>2
<1>8. a = A
  BY <1>5, <1>7
<1>9. ~(b < B)
  <2> SUFFICES ASSUME b < B PROVE FALSE
    OBVIOUS
  <2>1. R(b, B)
    BY <1>1, <1>2, <1>3, <1>8
  <2> QED
    BY <1>1, <1>2, <2>1
<1>10. ~(B < b)
  BY <1>1, <1>2, <1>8
<1> QED
  BY <1>8, <1>9, <1>10

-----------------------------------------------------------------------------
LEMMA SpellTypes ==
  ASSUME Spell!TypeOK
  PROVE  /\ LineLen \in Nat /\ Len(buf) = LineLen + 2 /\ DOMAIN buf = 1..LineLen + 2
         /\ buf \in Seq(LineChars \cup {Spell!NUL, Spell!JUNK})
         /\ s \in Nat /\ 1 <= s /\ s <= LineLen + 3
         /\ lines \in Seq(Seq(LineChars) \ {<<>>}) /\ Len(lines) \in Nat /\ DOMAIN lines = 1..Len(lines)
         /\ \A k \in DOMAIN lines : /\ lines[k] \in Seq(LineChars) /\ Len(lines[k]) \in Nat
                                    /\ 1 <= Len(lines[k])
         /\ ({Spell!NL, Spell!NUL, Spell!JUNK} \cap Spell!Chars) = {}
         /\ Dictionary \subseteq Seq(Spell!WordChars)
<1>1. LineLen \in Nat /\ Dictionary \subseteq Seq(Spell!WordChars)
      /\ ({Spell!NL, Spell!NUL, Spell!JUNK} \cap Spell!Chars) = {}
  BY SpellAssumed DEF Spell!SpellAssumption
<1>2. /\ buf \in [1..LineLen + 2 -> LineChars \cup {Spell!NUL, Spell!JUNK}]
      /\ s \in 1..LineLen + 3
      /\ lines \in Seq(Seq(LineChars) \ {<<>>})
  <2>1. Spell!Chars \cup {Spell!NL, Spell!NUL, Spell!JUNK} = LineChars \cup {Spell!NUL, Spell!JUNK}
    BY DEF LineChars
  <2> QED
    BY <2>1, Zenon DEF Spell!TypeOK, LineChars
<1>3. Len(buf) = LineLen + 2 /\ DOMAIN buf = 1..LineLen + 2
      /\ buf \in Seq(LineChars \cup {Spell!NUL, Spell!JUNK})
  BY <1>1, <1>2
<1>4. s \in Nat /\ 1 <= s /\ s <= LineLen + 3
  BY <1>1, <1>2
<1>5. Len(lines) \in Nat /\ DOMAIN lines = 1..Len(lines)
  BY <1>2
<1>6. ASSUME NEW k \in DOMAIN lines
      PROVE  lines[k] \in Seq(LineChars) /\ Len(lines[k]) \in Nat /\ 1 <= Len(lines[k])
  <2>1. lines[k] \in Seq(LineChars) /\ lines[k] # <<>>
    BY <1>2
  <2>2. Len(lines[k]) \in Nat /\ Len(lines[k]) # 0
    BY <2>1, EmptySeq
  <2> QED
    BY <2>1, <2>2
<1> QED
  BY <1>1, <1>2, <1>3, <1>4, <1>5, <1>6

\* The string at the pointer ends somewhere, at the latest with the buffer.
LEMMA SpellEnd ==
  ASSUME Spell!TypeOK
  PROVE  /\ Spell!End \in Nat /\ s <= Spell!End /\ Spell!End <= LineLen + 3
         /\ Spell!End > Len(buf) \/ buf[Spell!End] \in {Spell!NUL, Spell!JUNK}
         /\ \A j \in s..Spell!End - 1 : buf[j] \notin {Spell!NUL, Spell!JUNK}
<1> DEFINE len == Len(buf)
           Stops(k) == k > len \/ buf[k] \in {Spell!NUL, Spell!JUNK}
           Goes(j) == buf[j] \notin {Spell!NUL, Spell!JUNK}
           T == {k \in s..len + 1 : Stops(k)}
           At(k) == Stops(k) /\ \A j \in s..k - 1 : Goes(j)
           z == CHOOSE k \in s..len + 1 : At(k)
<1>1. LineLen \in Nat /\ len = LineLen + 2 /\ s \in Nat /\ s <= len + 1
  BY SpellTypes
<1>2. \A j \in Nat : Stops(j) \/ Goes(j)
  OBVIOUS
<1>3. Stops(len + 1)
  BY <1>1
<1> HIDE DEF len, Stops, Goes
<1>4. T \in SUBSET Nat /\ len + 1 \in T
  BY <1>1, <1>3
<1>5. PICK k \in T : \A j \in T : k <= j
  BY <1>4, Smallest
<1>6. k \in s..len + 1 /\ Stops(k)
  OBVIOUS
<1>7. ASSUME NEW j \in s..k - 1 PROVE Goes(j)
  <2>1. j \in s..len + 1 /\ ~(k <= j) /\ j \in Nat
    BY <1>1, <1>6
  <2> QED
    BY <1>2, <1>5, <2>1
<1>8. z \in s..len + 1 /\ At(z)
  <2>1. At(k)
    BY <1>6, <1>7
  <2> HIDE DEF At
  <2> QED
    BY <1>6, <2>1
<1>9. z = Spell!End
  BY Zenon DEF Spell!End, len, Stops, Goes
<1> HIDE DEF z
<1>10. z \in Nat /\ s <= z /\ z <= LineLen + 3
  BY <1>1, <1>8
<1> QED
  BY <1>8, <1>9, <1>10 DEF len, Stops, Goes

\* What match finds: the first Alnum, and the last that it can be joined to.
LEMMA SpellMatch ==
  ASSUME Spell!TypeOK, Spell!Starts # {}, Spell!End <= Len(buf)
  PROVE  /\ Spell!Start \in Nat /\ Spell!Stop \in Nat
         /\ s <= Spell!Start /\ Spell!Start <= Spell!Stop /\ Spell!Stop < Spell!End
         /\ buf[Spell!Start] \in Alnum /\ buf[Spell!Stop] \in Alnum
         /\ Spell!InRun(buf, Spell!Start, Spell!Stop)
         /\ \A k \in s..Spell!Start - 1 : buf[k] \notin Alnum
         /\ \A k \in Spell!Stop + 1..Spell!End - 1 : buf[k] \in Alnum => ~Spell!InRun(buf, Spell!Start, k)
         /\ Spell!Word \in Seq(LineChars \cup {Spell!NUL, Spell!JUNK})
         /\ Len(Spell!Word) = (Spell!Stop - Spell!Start) + 1
         /\ \A k \in 1..(Spell!Stop - Spell!Start) + 1 : Spell!Word[k] = buf[(Spell!Start + k) - 1]
<1> DEFINE e == Spell!End
           L(k) == buf[k] \in Alnum
           W(k) == buf[k] \in Spell!WordChars
           Run(x, y) == \A k \in x..y : W(k)
           A == Spell!Start
           B == Spell!Stop
           T == {j \in s..e - 1 : L(j)}
           U == {j \in A..e - 1 : L(j) /\ Run(A, j)}
<1>1. s \in Nat /\ e \in Nat /\ s <= e /\ e <= Len(buf) /\ 1 <= s
  BY SpellTypes, SpellEnd
<1>2. T = Spell!Starts
  BY Zenon DEF Spell!Starts
<1>3. \A k : L(k) => W(k)
  BY DEF Spell!WordChars
<1> HIDE DEF e, L, W
<1>4. T \in SUBSET Nat
  BY <1>1
<1>5. A \in T /\ \A j \in T : A <= j
  <2>1. \E a \in T : \A j \in T : a <= j
    BY <1>2, <1>4, Smallest
  <2>2. A = CHOOSE a \in T : \A j \in T : a <= j
    BY <1>2, Zenon DEF Spell!Start
  <2> HIDE DEF T, A
  <2> QED
    BY <2>1, <2>2
<1>6. U = Spell!Stops
  BY Zenon DEF Spell!Stops, e, L, W
<1>7. A \in Nat /\ s <= A /\ A <= e - 1 /\ L(A)
  <2> HIDE DEF A
  <2> QED
    BY <1>1, <1>5
<1> HIDE DEF A
<1>8. A \in U
  BY <1>1, <1>3, <1>7
<1>9. U \in SUBSET (0..e)
  BY <1>1, <1>7
<1>10. B \in U /\ \A j \in U : j <= B
  <2>1. \E b \in U : \A j \in U : j <= b
    <3> HIDE DEF U
    <3> QED
      BY <1>1, <1>8, <1>9, Largest
  <2>2. B = CHOOSE b \in U : \A j \in U : j <= b
    BY <1>6, Zenon DEF Spell!Stop
  <2> HIDE DEF U, B
  <2> QED
    BY <2>1, <2>2
<1> HIDE DEF B
<1>11. B \in Nat /\ A <= B /\ B < e /\ L(B) /\ Run(A, B)
  BY <1>1, <1>7, <1>10
<1>12. ASSUME NEW k \in s..A - 1 PROVE ~L(k)
  BY <1>1, <1>5, <1>7
<1>13. ASSUME NEW k \in B + 1..e - 1, L(k) PROVE ~Run(A, k)
  <2>1. k \in A..e - 1 /\ ~(k <= B)
    BY <1>1, <1>7, <1>11
  <2> HIDE DEF Run
  <2>2. Run(A, k) => k \in U
    BY <1>13, <2>1
  <2> QED
    BY <1>10, <2>1, <2>2
<1>14. \A x, y : Run(x, y) <=> Spell!InRun(buf, x, y)
  BY Zenon DEF Spell!InRun, W
<1>15. Spell!Word = SubSeq(buf, A, B)
  BY Zenon DEF Spell!Word, A, B
<1>16. 1 <= A /\ B <= Len(buf) /\ A <= B /\ A \in Nat /\ B \in Nat /\ Len(buf) \in Nat
  BY <1>1, <1>7, <1>11, SpellTypes
<1>17. /\ Spell!Word \in Seq(LineChars \cup {Spell!NUL, Spell!JUNK})
       /\ Len(Spell!Word) = (B - A) + 1
       /\ \A k \in 1..(B - A) + 1 : Spell!Word[k] = buf[(A + k) - 1]
  <2> DEFINE C == LineChars \cup {Spell!NUL, Spell!JUNK}
             w == SubSeq(buf, A, B)
  <2>1. buf \in Seq(C)
    BY SpellTypes
  <2> HIDE DEF C
  <2>2. \A k \in A..B : buf[k] \in C
    BY <1>16, <2>1
  <2>3. w \in Seq(C) /\ Len(w) = (B - A) + 1 /\ \A k \in 1..(B - A) + 1 : w[k] = buf[(A + k) - 1]
    BY <1>16, <2>1, <2>2, SubSeqProperties
  <2> QED
    BY <1>15, <2>3 DEF C
<1> HIDE DEF Run
<1> QED
  BY <1>7, <1>11, <1>12, <1>13, <1>14, <1>17 DEF A, B, L, e

\* While the pointer is in the line, what is searched ends with the line.
LEMMA SpellLine ==
  ASSUME Spell!TypeOK, Spell!InBuffer, pc = "word"
  PROVE  LET l == Spell!CurrentLine IN
         /\ Len(lines) \in DOMAIN lines
         /\ l \in Seq(LineChars) /\ Len(l) \in Nat /\ 1 <= Len(l) /\ Len(l) < LineLen + 2
         /\ \A k \in 1..Len(l) : buf[k] = l[k] /\ l[k] \notin {Spell!NUL, Spell!JUNK}
         /\ buf[Len(l) + 1] = Spell!NUL
         /\ s <= Len(l) + 1 => Spell!End = Len(l) + 1
<1> DEFINE l == Spell!CurrentLine
           len == Len(l)
           e == Spell!End
           Goes(j) == buf[j] \notin {Spell!NUL, Spell!JUNK}
<1>1. /\ lines # <<>> /\ len < LineLen + 2 /\ (\A k \in 1..len : buf[k] = l[k])
      /\ buf[len + 1] = Spell!NUL
  BY DEF Spell!InBuffer
<1>2. Len(lines) \in DOMAIN lines
  <2>1. Len(lines) # 0 /\ Len(lines) \in Nat /\ DOMAIN lines = 1..Len(lines)
    BY <1>1, SpellTypes, EmptySeq
  <2> QED
    BY <2>1
<1>3. l \in Seq(LineChars) /\ len \in Nat /\ 1 <= len
  BY <1>2, SpellTypes DEF Spell!CurrentLine
<1>4. ASSUME NEW k \in 1..len PROVE l[k] \notin {Spell!NUL, Spell!JUNK}
  <2>1. l[k] \in LineChars
    BY <1>3
  <2>2. ({Spell!NL, Spell!NUL, Spell!JUNK} \cap Spell!Chars) = {}
    BY SpellTypes
  <2>3. Spell!NL # Spell!NUL /\ Spell!NL # Spell!JUNK
    BY DEF Spell!NL, Spell!NUL, Spell!JUNK
  <2> QED
    BY <2>1, <2>2, <2>3 DEF LineChars
<1>5. ASSUME s <= len + 1 PROVE e = len + 1
  <2>1. /\ e \in Nat /\ s <= e /\ (e > Len(buf) \/ ~Goes(e)) /\ (\A j \in s..e - 1 : Goes(j))
        /\ s \in Nat /\ 1 <= s /\ LineLen \in Nat /\ Len(buf) = LineLen + 2
    BY SpellEnd, SpellTypes
  <2>2. ~Goes(len + 1) /\ \A j \in 1..len : Goes(j)
    BY <1>1, <1>4
  <2> HIDE DEF Goes, e
  <2> HIDE DEF l
  <2> QED
    BY <1>1, <1>3, <1>5, <2>1, <2>2
<1> HIDE DEF l
<1> QED
  BY <1>1, <1>2, <1>3, <1>4, <1>5 DEF l

\* What the trie accepts are the words that have been put into it.
LEMMA SpellAccepts == ASSUME Spell!TypeOK, NEW w PROVE Spell!CellDefined(w) <=> w \in terminal
<1>1. terminal \subseteq cells /\ \A c \in cells : Spell!Prefixes(c) \subseteq cells
  BY Zenon DEF Spell!TypeOK
<1> QED
  BY <1>1 DEF Spell!CellDefined

LEMMA SpellReported ==
  ASSUME out \subseteq out', NEW k PROVE Spell!Reported(k) \subseteq Spell!Reported(k)'
BY DEF Spell!Reported

\* A turn of the loop over the words of a line that has been searched up to
\* the pointer: the word it looks up, if any, and what it leaves behind.
LEMMA SpellTurn ==
  ASSUME Spell!TypeOK, Spell!InBuffer, pc = "word", Spell!Starts # {}, Spell!End <= Len(buf),
         s <= Len(Spell!CurrentLine)
  PROVE  /\ Spell!Word = SubSeq(Spell!CurrentLine, Spell!Start, Spell!Stop)
         /\ Spell!Stop <= Len(Spell!CurrentLine)
         /\ Spell!CurrentLine[Spell!Start] \in Alnum /\ Spell!CurrentLine[Spell!Stop] \in Alnum
         /\ Spell!InRun(Spell!CurrentLine, Spell!Start, Spell!Stop)
         /\ \A k \in s..Spell!Start - 1 : Spell!CurrentLine[k] \notin Alnum
         /\ \A k \in Spell!Stop + 1..Len(Spell!CurrentLine) :
              Spell!CurrentLine[k] \in Alnum => ~Spell!InRun(Spell!CurrentLine, Spell!Start, k)
         /\ \A a, b \in 1..Len(Spell!CurrentLine) :
              Spell!IsWord(Spell!CurrentLine, a, b) /\ s <= a /\ a <= Spell!Stop + 1
                => a = Spell!Start /\ b = Spell!Stop
<1> DEFINE l == Spell!CurrentLine
           len == Len(l)
           A == Spell!Start
           B == Spell!Stop
           C == LineChars \cup {Spell!NUL, Spell!JUNK}
<1>1. /\ l \in Seq(LineChars) /\ len \in Nat /\ (\A k \in 1..len : buf[k] = l[k])
      /\ Spell!End = len + 1
  BY SpellLine, SpellTypes
<1>2. /\ A \in Nat /\ B \in Nat /\ s <= A /\ A <= B /\ B <= len
      /\ buf[A] \in Alnum /\ buf[B] \in Alnum /\ Spell!InRun(buf, A, B)
      /\ \A k \in s..A - 1 : buf[k] \notin Alnum
      /\ \A k \in B + 1..len : buf[k] \in Alnum => ~Spell!InRun(buf, A, k)
  BY <1>1, SpellMatch
<1>3. s \in Nat /\ 1 <= s
  BY SpellTypes
<1> HIDE DEF l, A, B
<1>4. ASSUME NEW x \in Nat, NEW y \in Nat, 1 <= x, y <= len
      PROVE Spell!InRun(buf, x, y) <=> Spell!InRun(l, x, y)
  <2>1. \A k \in x..y : k \in 1..len
    BY <1>1, <1>4
  <2>2. \A k \in x..y : buf[k] = l[k]
    BY <1>1, <2>1
  <2> QED
    BY <2>2, Zenon DEF Spell!InRun
<1>5. /\ l[A] \in Alnum /\ l[B] \in Alnum /\ Spell!InRun(l, A, B)
      /\ \A k \in s..A - 1 : l[k] \notin Alnum
      /\ \A k \in B + 1..len : l[k] \in Alnum => ~Spell!InRun(l, A, k)
  <2>1. A \in 1..len /\ B \in 1..len /\ 1 <= A /\ B <= len
    BY <1>1, <1>2, <1>3
  <2>2. l[A] \in Alnum /\ l[B] \in Alnum
    BY <1>1, <1>2, <2>1
  <2>3. Spell!InRun(l, A, B)
    BY <1>2, <1>4, <2>1
  <2>4. ASSUME NEW k \in s..A - 1 PROVE l[k] \notin Alnum
    <3>1. k \in 1..len
      BY <1>1, <1>2, <1>3
    <3> QED
      BY <1>1, <1>2, <3>1
  <2>5. ASSUME NEW k \in B + 1..len, l[k] \in Alnum PROVE ~Spell!InRun(l, A, k)
    <3>1. k \in 1..len /\ k \in Nat /\ k <= len
      BY <1>1, <1>2
    <3>2. ~Spell!InRun(buf, A, k)
      BY <1>1, <1>2, <2>5, <3>1
    <3> QED
      BY <1>2, <1>4, <2>1, <3>1, <3>2
  <2> QED
    BY <2>2, <2>3, <2>4, <2>5
<1>6. ASSUME NEW a \in 1..len, NEW b \in 1..len, Spell!IsWord(l, a, b), s <= a, a <= B + 1
      PROVE a = A /\ b = B
  <2>1. a \in Nat /\ b \in Nat /\ b <= len
    BY <1>1
  <2> QED
    BY <1>1, <1>2, <1>3, <1>5, <1>6, <2>1, FirstWord
<1>7. Spell!Word = SubSeq(l, A, B)
  <2> DEFINE n == (B - A) + 1
             u == Spell!Word
             v == SubSeq(l, A, B)
  <2>1. u \in Seq(C) /\ Len(u) = n /\ \A k \in 1..n : u[k] = buf[(A + k) - 1]
    BY <1>1, SpellMatch DEF A, B
  <2>2. 1 <= A /\ n \in Nat
    BY <1>2, <1>3
  <2>3. l \in Seq(C)
    BY <1>1
  <2> HIDE DEF C, n
  <2>4. v \in Seq(C) /\ Len(v) = n /\ \A k \in 1..n : v[k] = l[(A + k) - 1]
    <3>1. \A k \in A..B : l[k] \in C
      BY <1>1, <1>2, <2>2, <2>3
    <3> QED
      BY <1>1, <1>2, <2>2, <2>3, <3>1, SubSeqProperties DEF n
  <2>5. ASSUME NEW k \in 1..n PROVE u[k] = v[k]
    <3>1. (A + k) - 1 \in 1..len
      BY <1>1, <1>2, <2>2 DEF n
    <3> QED
      BY <1>1, <2>1, <2>4, <3>1
  <2> HIDE DEF u, v
  <2>6. u = v
    BY <2>1, <2>4, <2>5, SeqEqual
  <2> QED
    BY <2>6 DEF u, v
<1> QED
  BY <1>2, <1>5, <1>6, <1>7 DEF l, A, B

-----------------------------------------------------------------------------
LEMMA SpellInit == ASSUME Spell!Init PROVE Spell!IInv
<1>1. /\ pc = "load" /\ toload = Dictionary /\ cells = {<<>>} /\ terminal = {}
      /\ buf = [k \in 1..LineLen + 2 |-> Spell!JUNK] /\ s = 1
      /\ lines = <<>> /\ feof = FALSE /\ out = {}
  BY DEF Spell!Init
<1>2. LineLen \in Nat
  BY SpellAssumed DEF Spell!SpellAssumption
<1>3. Spell!TypeOK
  <2>1. \A c \in cells : Spell!Prefixes(c) \subseteq cells
    <3>1. SubSeq(<<>>, 1, 0) = <<>> /\ Len(<<>>) = 0 /\ 0..0 = {0}
      OBVIOUS
    <3>2. Spell!Prefixes(<<>>) = {<<>>}
      BY <3>1 DEF Spell!Prefixes
    <3> QED
      BY <1>1, <3>2
  <2>2. buf \in [1..LineLen + 2 -> Spell!Chars \cup {Spell!NL, Spell!NUL, Spell!JUNK}]
    BY <1>1
  <2>3. s \in 1..LineLen + 3
    BY <1>1, <1>2
  <2>4. DOMAIN lines = {} /\ lines \in Seq(Seq(Spell!Chars \cup {Spell!NL}) \ {<<>>})
    BY <1>1
  <2> QED
    BY <1>1, <2>1, <2>2, <2>3, <2>4 DEF Spell!TypeOK
<1>4. DOMAIN lines = {}
  BY <1>1
<1>5. Spell!InBuffer /\ Spell!SoFar /\ Spell!AtWord
  BY <1>1 DEF Spell!InBuffer, Spell!SoFar, Spell!AtWord
<1>6. Spell!MissesNothing(terminal) /\ Spell!AccusesWords(terminal)
  BY <1>4 DEF Spell!MissesNothing, Spell!AccusesWords, Spell!Searched
<1>7. Spell!Learnt
  BY <1>1 DEF Spell!Learnt
<1> QED
  BY <1>3, <1>5, <1>6, <1>7 DEF Spell!IInv

\* The steps that leave the text alone.
LEMMA SpellStill ==
  ASSUME Spell!IInv, Spell!TypeOK', Spell!Learnt', pc' # "word",
         UNCHANGED <<lines, out>>, Spell!Searched' \subseteq Spell!Searched,
         terminal' = terminal \/ lines = <<>>
  PROVE  Spell!IInv'
<1>1. Spell!InBuffer' /\ Spell!SoFar' /\ Spell!AtWord'
  BY DEF Spell!InBuffer, Spell!SoFar, Spell!AtWord
<1>2. Spell!MissesNothing(terminal)'
  <2>1. Spell!MissesNothing(terminal)
    BY DEF Spell!IInv
  <2>2. CASE terminal' = terminal
    BY <2>1, <2>2 DEF Spell!MissesNothing, Spell!Reported
  <2>3. CASE lines = <<>>
    <3>1. DOMAIN lines' = {}
      BY <2>3
    <3> QED
      BY <3>1 DEF Spell!MissesNothing, Spell!Searched
  <2> QED
    BY <2>2, <2>3
<1>3. Spell!AccusesWords(terminal)'
  <2>1. Spell!AccusesWords(terminal)
    BY DEF Spell!IInv
  <2>2. CASE terminal' = terminal
    BY <2>1, <2>2 DEF Spell!AccusesWords, Spell!Reported
  <2>3. CASE lines = <<>>
    <3>1. DOMAIN lines' = {}
      BY <2>3
    <3> QED
      BY <3>1 DEF Spell!AccusesWords
  <2> QED
    BY <2>2, <2>3
<1> QED
  BY <1>1, <1>2, <1>3 DEF Spell!IInv

\* A word of the dictionary is added to the trie whole, or without its last
\* character.
LEMMA SpellLoad == ASSUME Spell!IInv, Spell!Load PROVE Spell!IInv'
<1> DEFINE Read(w, newline) == IF newline \/ w = <<>> THEN w ELSE Spell!Front(w)
<1>1. PICK w \in toload, newline \in BOOLEAN :
        LET word == Read(w, newline) IN
        /\ pc = "load" /\ toload' = toload \ {w}
        /\ newline \/ toload' = {}
        /\ cells' = cells \cup Spell!Prefixes(word) /\ terminal' = terminal \cup {word}
        /\ UNCHANGED <<pc, buf, s, lines, feof, out>>
  BY Zenon DEF Spell!Load, Spell!CellsOf, Spell!TerminalOf
<1> DEFINE word == Read(w, newline)
<1>2. Spell!TypeOK /\ Spell!Learnt
  BY DEF Spell!IInv
<1>3. w \in Dictionary /\ w \in Seq(Spell!WordChars)
  <2>1. w \in Dictionary
    BY <1>2, Zenon DEF Spell!TypeOK
  <2> QED
    BY <1>2, <2>1, SpellTypes
<1>4. /\ word \in Seq(Spell!WordChars)
      /\ word = w \/ (w # <<>> /\ word = Spell!Front(w) /\ toload' = {})
  <2>1. CASE newline \/ w = <<>>
    BY <1>3, <2>1
  <2>2. CASE ~newline /\ w # <<>>
    <3>1. word = Spell!Front(w) /\ word = SubSeq(w, 1, Len(w) - 1)
      BY <2>2 DEF Spell!Front
    <3>2. word \in Seq(Spell!WordChars)
      <4>1. Len(w) \in Nat /\ Len(w) # 0
        BY <1>3, <2>2, EmptySeq
      <4>2. \A k \in 1..Len(w) - 1 : w[k] \in Spell!WordChars
        BY <1>3, <4>1
      <4> QED
        BY <1>3, <3>1, <4>1, <4>2, SubSeqProperties
    <3> QED
      BY <1>1, <2>2, <3>1, <3>2
  <2> QED
    BY <2>1, <2>2
<1> HIDE DEF word
<1>5. /\ pc' = pc /\ pc = "load" /\ toload' = toload \ {w}
      /\ cells' = cells \cup Spell!Prefixes(word) /\ terminal' = terminal \cup {word}
      /\ UNCHANGED <<buf, s, lines, feof, out>>
  BY <1>1 DEF word
<1>6. /\ toload \subseteq Dictionary /\ terminal \subseteq cells
      /\ \A c \in cells : Spell!Prefixes(c) \subseteq cells
  BY <1>2, Zenon DEF Spell!TypeOK
<1>7. word \in Spell!Prefixes(word) /\ \A p \in Spell!Prefixes(word) : Spell!Prefixes(p) \subseteq Spell!Prefixes(word)
  BY <1>4, PrefixesClosed
<1>8. /\ toload' \subseteq Dictionary /\ terminal' \subseteq cells'
      /\ \A c \in cells' : Spell!Prefixes(c) \subseteq cells'
  BY <1>5, <1>6, <1>7, Zenon
<1>9. Spell!TypeOK'
  BY <1>2, <1>5, <1>8, Zenon DEF Spell!TypeOK
<1>10. Spell!Learnt'
  <2>1. terminal = Dictionary \ toload /\ lines = <<>>
    BY <1>2, <1>5 DEF Spell!Learnt
  <2>2. CASE word = w
    <3>1. terminal' = Dictionary \ toload'
      BY <1>3, <1>5, <2>1, <2>2
    <3> QED
      BY <1>5, <2>1, <3>1 DEF Spell!Learnt
  <2>3. CASE w # <<>> /\ word = Spell!Front(w) /\ toload' = {}
    <3>1. toload = {w}
      BY <1>5, <2>3
    <3>2. terminal' = (Dictionary \ {w}) \cup {Spell!Front(w)}
      BY <1>5, <2>1, <2>3, <3>1
    <3>3. terminal' \in Spell!Known
      BY <1>3, <2>3, <3>2 DEF Spell!Known
    <3> QED
      BY <1>5, <2>1, <2>3, <3>3 DEF Spell!Learnt
  <2> QED
    BY <1>4, <2>2, <2>3
<1>11. Spell!Searched' \subseteq Spell!Searched
  BY <1>5 DEF Spell!Searched
<1> QED
  BY <1>2, <1>5, <1>9, <1>10, <1>11, SpellStill DEF Spell!Learnt

LEMMA SpellOther ==
  ASSUME Spell!IInv, Spell!Loaded \/ Spell!NoLine \/ Spell!Astray \/ Spell!Done PROVE Spell!IInv'
<1>1. Spell!TypeOK /\ Spell!Learnt
  BY DEF Spell!IInv
<1>2. /\ UNCHANGED <<toload, cells, terminal, buf, s, lines, feof, out>>
      /\ \/ pc = "load" /\ pc' = "line" /\ lines = <<>> /\ toload = {}
         \/ pc = "line" /\ pc' = "done"
         \/ pc # "load" /\ pc' = "undefined"
         \/ pc' = pc /\ pc = "done"
  BY <1>1 DEF Spell!Loaded, Spell!NoLine, Spell!Astray, Spell!Done, Spell!vars, Spell!Learnt
<1>3. Spell!TypeOK' /\ Spell!Learnt'
  <2>1. pc' \in {"load", "line", "word", "done", "undefined"} /\ pc' # "load"
    BY <1>2
  <2> QED
    BY <1>1, <1>2, <2>1, Zenon DEF Spell!TypeOK, Spell!Learnt
<1>4. Spell!Searched' \subseteq Spell!Searched
  <2>1. CASE lines = <<>>
    <3>1. DOMAIN lines' = {}
      BY <1>2, <2>1
    <3> QED
      BY <3>1 DEF Spell!Searched
  <2>2. CASE lines # <<>>
    BY <1>2, <2>2 DEF Spell!Searched
  <2> QED
    BY <2>1, <2>2
<1>5. pc' # "word"
  BY <1>2
<1> QED
  BY <1>2, <1>3, <1>4, <1>5, SpellStill

\* A line is read into the buffer: of it nothing has been searched.
LEMMA SpellGetLine == ASSUME Spell!IInv, Spell!GetLine PROVE Spell!IInv'
<1> DEFINE Got(t, newline) == IF newline THEN Append(t, Spell!NL) ELSE t
<1>1. Spell!TypeOK /\ Spell!Learnt /\ Spell!MissesNothing(terminal) /\ Spell!AccusesWords(terminal)
  BY DEF Spell!IInv
<1>2. PICK t \in Spell!Texts, newline \in BOOLEAN :
        LET l == Got(t, newline) IN
        /\ pc = "line" /\ l # <<>>
        /\ lines' = Append(lines, l) /\ feof' = ~newline
        /\ buf' = [k \in DOMAIN buf |-> CASE k <= Len(l) -> l[k]
                                          [] k = Len(l) + 1 -> Spell!NUL
                                          [] OTHER -> buf[k]]
        /\ s' = 1 /\ pc' = "word"
        /\ UNCHANGED <<toload, cells, terminal, out>>
  BY Zenon DEF Spell!GetLine
<1> DEFINE l == Got(t, newline)
           len == Len(l)
<1>3. /\ pc = "line" /\ pc' = "word" /\ l # <<>> /\ lines' = Append(lines, l)
      /\ feof' \in BOOLEAN /\ s' = 1
      /\ buf' = [k \in DOMAIN buf |-> CASE k <= len -> l[k]
                                        [] k = len + 1 -> Spell!NUL
                                        [] OTHER -> buf[k]]
      /\ UNCHANGED <<toload, cells, terminal, out>>
  BY <1>2
<1>4. LineLen \in Nat /\ DOMAIN buf = 1..LineLen + 2
  BY <1>1, SpellTypes
<1>5. t \in Seq(Spell!Chars) /\ Len(t) \in Nat /\ Len(t) <= LineLen
  <2>1. PICK n \in 0..LineLen : t \in [1..n -> Spell!Chars]
    BY DEF Spell!Texts
  <2> QED
    BY <1>4, <2>1
<1>6. /\ l \in Seq(LineChars) /\ len \in Nat /\ len <= LineLen + 1
      /\ \A j \in 1..len - 1 : l[j] \in Spell!Chars
  <2>1. CASE newline
    <3>1. l = Append(t, Spell!NL) /\ t \in Seq(LineChars) /\ Spell!NL \in LineChars
      BY <1>5, <2>1 DEF LineChars
    <3>2. l \in Seq(LineChars) /\ len = Len(t) + 1 /\ \A j \in 1..Len(t) : l[j] = t[j]
      BY <3>1
    <3> QED
      BY <1>4, <1>5, <3>2
  <2>2. CASE ~newline
    <3>1. l = t
      BY <2>2
    <3> QED
      BY <1>4, <1>5, <3>1 DEF LineChars
  <2> QED
    BY <2>1, <2>2
<1>7. 1 <= len
  BY <1>3, <1>6, EmptySeq
<1> HIDE DEF l
<1>8. /\ lines \in Seq(Seq(LineChars) \ {<<>>}) /\ Len(lines) \in Nat /\ DOMAIN lines = 1..Len(lines)
      /\ lines' \in Seq(Seq(LineChars) \ {<<>>}) /\ Len(lines') = Len(lines) + 1
      /\ DOMAIN lines' = 1..Len(lines) + 1
      /\ (\A k \in 1..Len(lines) : lines'[k] = lines[k]) /\ lines'[Len(lines) + 1] = l
  <2>1. l \in Seq(LineChars) \ {<<>>}
    BY <1>3, <1>6
  <2>2. lines \in Seq(Seq(LineChars) \ {<<>>}) /\ Len(lines) \in Nat /\ DOMAIN lines = 1..Len(lines)
    BY <1>1, SpellTypes
  <2> QED
    BY <1>3, <2>1, <2>2, AppendProperties
<1> DEFINE n == Len(lines)
<1>9. DOMAIN lines \subseteq DOMAIN lines'
  BY <1>8
<1>10. Spell!CurrentLine' = l
  BY <1>8 DEF Spell!CurrentLine
<1>11. /\ buf' \in [1..LineLen + 2 -> Spell!Chars \cup {Spell!NL, Spell!NUL, Spell!JUNK}]
       /\ \A k \in 1..len : buf'[k] = l[k]
       /\ buf'[len + 1] = Spell!NUL
  <2> DEFINE C == Spell!Chars \cup {Spell!NL, Spell!NUL, Spell!JUNK}
  <2>1. buf \in [1..LineLen + 2 -> C] /\ Spell!NUL \in C /\ LineChars \subseteq C
    BY <1>1, Zenon DEF Spell!TypeOK, LineChars
  <2>2. \A k \in 1..len : l[k] \in C
    BY <1>6, <2>1
  <2> HIDE DEF C
  <2>3. ASSUME NEW k \in 1..LineLen + 2
        PROVE  /\ buf'[k] \in C /\ (k <= len => buf'[k] = l[k])
               /\ (k = len + 1 => buf'[k] = Spell!NUL)
    <3>1. buf'[k] = CASE k <= len -> l[k] [] k = len + 1 -> Spell!NUL [] OTHER -> buf[k]
      BY <1>3, <1>4
    <3>2. CASE k <= len
      BY <1>6, <2>2, <3>1, <3>2
    <3>3. CASE k = len + 1
      BY <1>6, <2>1, <3>1, <3>3
    <3>4. CASE ~(k <= len) /\ k # len + 1
      BY <2>1, <3>1, <3>4
    <3> QED
      BY <3>2, <3>3, <3>4
  <2>4. DOMAIN buf' = 1..LineLen + 2 /\ buf' = [k \in 1..LineLen + 2 |-> buf'[k]]
    BY <1>3, <1>4
  <2>5. buf' \in [1..LineLen + 2 -> C]
    BY <2>3, <2>4
  <2>6. len + 1 \in 1..LineLen + 2 /\ 1..len \subseteq 1..LineLen + 2
    BY <1>4, <1>6
  <2> QED
    BY <1>6, <2>3, <2>5, <2>6 DEF C
<1>12. Spell!TypeOK'
  <2>1. s' \in 1..LineLen + 3
    BY <1>3, <1>4
  <2>2. \A k \in DOMAIN lines' : \A j \in 1..Len(lines'[k]) - 1 : lines'[k][j] \in Spell!Chars
    <3>1. \A k \in DOMAIN lines : \A j \in 1..Len(lines[k]) - 1 : lines[k][j] \in Spell!Chars
      BY <1>1, Zenon DEF Spell!TypeOK
    <3>2. ASSUME NEW k \in 1..n + 1, NEW j \in 1..Len(lines'[k]) - 1 PROVE lines'[k][j] \in Spell!Chars
      <4>1. CASE k = n + 1
        BY <1>6, <1>8, <4>1
      <4>2. CASE k \in 1..n
        BY <1>8, <3>1, <4>2
      <4> QED
        BY <1>8, <4>1, <4>2
    <3> QED
      BY <1>8, <3>2
  <2>3. \A r \in out' : r.lineno \in DOMAIN lines' /\ r.word # <<>>
    <3>1. \A r \in out : r.lineno \in DOMAIN lines /\ r.word # <<>>
      BY <1>1, Zenon DEF Spell!TypeOK
    <3> QED
      BY <1>3, <1>9, <3>1
  <2>4. /\ pc' \in {"load", "line", "word", "done", "undefined"}
        /\ \A c \in cells' : Spell!Prefixes(c) \subseteq cells'
        /\ terminal' \subseteq cells' /\ toload' \subseteq Dictionary
    <3>1. /\ \A c \in cells : Spell!Prefixes(c) \subseteq cells
          /\ terminal \subseteq cells /\ toload \subseteq Dictionary
      BY <1>1, Zenon DEF Spell!TypeOK
    <3> QED
      BY <1>3, <3>1
  <2>5. lines' \in Seq(Seq(Spell!Chars \cup {Spell!NL}) \ {<<>>})
    BY <1>8 DEF LineChars
  <2> QED
    BY <1>3, <1>11, <2>1, <2>2, <2>3, <2>4, <2>5, Zenon DEF Spell!TypeOK
<1>13. Spell!Learnt'
  BY <1>1, <1>3 DEF Spell!Learnt
<1>14. Spell!InBuffer'
  <2>1. lines' # <<>>
    BY <1>8
  <2>2. len < LineLen + 2
    BY <1>4, <1>6
  <2> QED
    BY <1>10, <1>11, <2>1, <2>2 DEF Spell!InBuffer
<1>15. Spell!SoFar'
  <2>1. \A a \in 1..len : ~(a < s')
    BY <1>3
  <2> QED
    BY <1>10, <2>1 DEF Spell!SoFar
<1>16. Spell!AtWord'
  <2>1. Spell!SingleSpaced(l) => l[1] \in Alnum
    BY DEF Spell!SingleSpaced
  <2> QED
    BY <1>3, <1>7, <1>10, <2>1 DEF Spell!AtWord
<1>17. Spell!MissesNothing(terminal)'
  <2>1. ASSUME NEW k \in Spell!Searched', NEW w \in Spell!WordsOf(lines'[k])
        PROVE (w \in Spell!Reported(k))' \/ w \in terminal
    <3>1. k \in 1..n + 1 /\ k < n + 1
      BY <1>3, <1>8 DEF Spell!Searched
    <3>2. k \in DOMAIN lines /\ lines'[k] = lines[k]
      BY <1>8, <3>1
    <3>3. k \in Spell!Searched
      BY <1>3, <3>2 DEF Spell!Searched
    <3>4. w \in Spell!Reported(k) \/ w \in terminal
      BY <1>1, <3>2, <3>3 DEF Spell!MissesNothing
    <3> QED
      BY <1>3, <3>4 DEF Spell!Reported
  <2> QED
    BY <1>3, <2>1 DEF Spell!MissesNothing
<1>18. Spell!AccusesWords(terminal)'
  <2>1. ASSUME NEW k \in DOMAIN lines'
        PROVE  /\ Spell!Reported(k)' \cap terminal = {}
               /\ Spell!SingleSpaced(lines'[k]) => Spell!Reported(k)' \subseteq Spell!WordsOf(lines'[k])
    <3>0. Spell!Reported(k)' = Spell!Reported(k)
      BY <1>3 DEF Spell!Reported
    <3>1. CASE k \in DOMAIN lines
      <4>1. lines'[k] = lines[k]
        BY <1>8, <3>1
      <4> QED
        BY <1>1, <2>1, <3>0, <3>1, <4>1 DEF Spell!AccusesWords
    <3>2. CASE k \notin DOMAIN lines
      <4>1. \A r \in out : r.lineno \in DOMAIN lines
        BY <1>1, Zenon DEF Spell!TypeOK
      <4>2. Spell!Reported(k) = {}
        BY <3>2, <4>1 DEF Spell!Reported
      <4> QED
        BY <3>0, <4>2
    <3> QED
      BY <3>1, <3>2
  <2> QED
    BY <1>3, <2>1 DEF Spell!AccusesWords
<1> QED
  BY <1>12, <1>13, <1>14, <1>15, <1>16, <1>17, <1>18 DEF Spell!IInv

\* Between single blanks what is found is the word at the pointer, and behind
\* it there are a blank and another word, or the end of the line.
LEMMA SpellAtWord ==
  ASSUME Spell!TypeOK, Spell!InBuffer, Spell!AtWord, pc = "word", Spell!Starts # {},
         Spell!End <= Len(buf), Spell!SingleSpaced(Spell!CurrentLine)
  PROVE  LET l == Spell!CurrentLine IN
         /\ s <= Len(l) /\ Spell!Start = s /\ Spell!IsWord(l, Spell!Start, Spell!Stop)
         /\ \/ Spell!Stop + 1 = Len(l)
            \/ Spell!Stop + 2 = Len(l)
            \/ /\ Spell!Stop + 2 < Len(l) /\ l[Spell!Stop + 2] \in Alnum
               /\ l[Spell!Stop + 1] \notin Spell!WordChars
<1> DEFINE l == Spell!CurrentLine
           len == Len(l)
           A == Spell!Start
           B == Spell!Stop
           L(k) == l[k] \in Alnum
           W(k) == l[k] \in Spell!WordChars
           NLat(k) == l[k] = Spell!NL
           R(x, y) == Spell!InRun(l, x, y)
<1>1. /\ len \in Nat /\ 1 <= len /\ Len(lines) \in DOMAIN lines /\ (\A k \in 1..len : buf[k] = l[k])
      /\ (s <= len + 1 => Spell!End = len + 1)
  BY SpellLine
<1>2. s <= len /\ (s = len \/ (L(s) /\ (s = 1 \/ ~W(s - 1))))
  BY DEF Spell!AtWord
<1>3. s \in Nat /\ 1 <= s
  BY SpellTypes
<1>4. A \in Nat /\ B \in Nat /\ s <= A /\ A <= B /\ B <= len
  BY <1>1, <1>2, <1>3, SpellMatch
<1>5. /\ L(A) /\ L(B) /\ R(A, B) /\ (\A k \in s..A - 1 : ~L(k))
      /\ \A k \in B + 1..len : L(k) => ~R(A, k)
  BY <1>2, SpellTurn
<1>6. NLat(len) /\ \A k \in 1..len - 1 : ~L(k) => L(k + 1) \/ NLat(k + 1)
  BY DEF Spell!SingleSpaced
<1>7. \A k \in 1..len - 1 : ~NLat(k)
  <2>1. \A k \in 1..len - 1 : l[k] \in Spell!Chars
    BY <1>1, Zenon DEF Spell!TypeOK, Spell!CurrentLine
  <2> QED
    BY <2>1, SpellTypes
<1>8. \A k : L(k) => W(k) /\ ~NLat(k)
  <2>1. Spell!NL \notin Spell!Chars
    BY SpellTypes
  <2> QED
    BY <2>1 DEF Spell!WordChars, Spell!Chars
<1>9. \A x, y : R(x, y) <=> \A k \in x..y : W(k)
  BY DEF Spell!InRun
<1>10. Spell!IsWord(l, A, B) <=> /\ A <= B /\ L(A) /\ L(B) /\ R(A, B)
                                 /\ \A k \in 1..A - 1 : L(k) => ~R(k, A)
                                 /\ \A k \in B + 1..len : L(k) => ~R(B, k)
  BY Zenon DEF Spell!IsWord
<1> HIDE DEF l, A, B, L, W, NLat, R
<1>11. B < len /\ s # len
  <2>1. ~L(len)
    BY <1>6, <1>8
  <2>2. B # len
    BY <1>5, <2>1
  <2> QED
    BY <1>1, <1>3, <1>4, <2>2
<1>12. A = s
  BY <1>2, <1>3, <1>4, <1>5, <1>11
<1>13. \A k \in 1..A - 1 : L(k) => ~R(k, A)
  <2>1. ASSUME NEW k \in 1..A - 1 PROVE ~R(k, A)
    <3>1. A # 1 /\ A - 1 \in k..A
      BY <1>3, <1>4, <1>12
    <3>2. ~W(A - 1)
      BY <1>2, <1>11, <1>12, <3>1
    <3> QED
      BY <1>9, <3>1, <3>2
  <2> QED
    BY <2>1
<1>14. \A k \in B + 1..len : L(k) => ~R(B, k)
  <2>1. ASSUME NEW k \in B + 1..len, R(B, k) PROVE R(A, k)
    <3>1. \A j \in A..k : j \in A..B \/ j \in B..k
      BY <1>1, <1>4
    <3> QED
      BY <1>5, <1>9, <2>1, <3>1
  <2> QED
    BY <1>5, <2>1
<1>15. Spell!IsWord(l, A, B)
  BY <1>4, <1>5, <1>10, <1>13, <1>14
<1>16. ASSUME B + 1 # len, B + 2 # len PROVE B + 2 < len /\ L(B + 2) /\ ~W(B + 1)
  <2>1. B + 2 < len /\ B + 1 \in 1..len - 1 /\ B + 2 \in 1..len - 1
        /\ B + 1 \in B + 1..len /\ B + 2 \in B + 1..len
    BY <1>1, <1>4, <1>11, <1>16
  <2>2. ~L(B + 1)
    <3>1. SUFFICES ASSUME L(B + 1) PROVE FALSE
      OBVIOUS
    <3>2. \A k \in A..B + 1 : k \in A..B \/ k = B + 1
      BY <1>4
    <3>3. R(A, B + 1)
      BY <1>5, <1>8, <1>9, <3>1, <3>2
    <3> QED
      BY <1>5, <2>1, <3>1, <3>3
  <2>3. L(B + 2)
    <3>1. L((B + 1) + 1) \/ NLat((B + 1) + 1)
      BY <1>6, <2>1, <2>2
    <3>2. (B + 1) + 1 = B + 2
      BY <1>4
    <3>3. ~NLat(B + 2)
      BY <1>7, <2>1
    <3> QED
      BY <3>1, <3>2, <3>3
  <2>4. ~W(B + 1)
    <3>1. SUFFICES ASSUME W(B + 1) PROVE FALSE
      OBVIOUS
    <3>2. \A k \in A..B + 2 : k \in A..B \/ k = B + 1 \/ k = B + 2
      BY <1>4
    <3>3. R(A, B + 2)
      BY <1>5, <1>8, <1>9, <2>3, <3>1, <3>2
    <3> QED
      BY <1>5, <2>1, <2>3, <3>3
  <2> QED
    BY <2>1, <2>3, <2>4
<1> QED
  BY <1>2, <1>12, <1>15, <1>16 DEF l, A, B, L, W

\* What the pointer skips is searched: it holds no beginning of a word.
LEMMA SpellCheck == ASSUME Spell!IInv, Spell!Check PROVE Spell!IInv'
<1>0. PICK n : n = Len(lines)
  OBVIOUS
<1> DEFINE l == Spell!CurrentLine
           len == Len(l)
           A == Spell!Start
           B == Spell!Stop
           none == Spell!Starts = {}
           found == [word |-> Spell!Word, lineno |-> n]
<1>1. /\ Spell!TypeOK /\ Spell!Learnt /\ Spell!InBuffer /\ Spell!SoFar /\ Spell!AtWord
      /\ Spell!MissesNothing(terminal) /\ Spell!AccusesWords(terminal)
  BY DEF Spell!IInv
<1>2. /\ pc = "word" /\ Spell!End <= Len(buf)
      /\ UNCHANGED <<toload, cells, terminal, buf, lines, feof>>
      /\ none => pc' = Spell!NextLine /\ UNCHANGED <<s, out>>
      /\ ~none => /\ out' = IF Spell!CellDefined(Spell!Word) THEN out ELSE out \cup {found}
                  /\ s' = (s + (Len(Spell!Word) + 1))
                  /\ pc' = IF s' <= Len(buf) /\ buf[s'] = Spell!NUL THEN Spell!NextLine ELSE "word"
  BY <1>0 DEF Spell!Check, Spell!Advance
<1>3. /\ n \in DOMAIN lines /\ len \in Nat /\ 1 <= len /\ len < LineLen + 2
      /\ (\A k \in 1..len : buf[k] = l[k] /\ l[k] \notin {Spell!NUL, Spell!JUNK})
      /\ buf[len + 1] = Spell!NUL /\ (s <= len + 1 => Spell!End = len + 1)
  BY <1>0, <1>1, <1>2, SpellLine
<1>4. s \in Nat /\ 1 <= s /\ s <= LineLen + 3 /\ LineLen \in Nat /\ Len(buf) = LineLen + 2
  BY <1>1, SpellTypes
<1>5. ASSUME ~none
      PROVE  /\ A \in Nat /\ B \in Nat /\ s <= A /\ A <= B /\ B < Spell!End
             /\ Len(Spell!Word) = (B - A) + 1
  BY <1>1, <1>2, <1>5, SpellMatch
<1>6. Spell!End \in Nat /\ s <= Spell!End
  BY <1>1, SpellEnd
<1>7. ASSUME ~none PROVE s' \in Nat /\ s < s' /\ s' <= B + 2 /\ s' <= LineLen + 3 /\ s' = s + ((B - A) + 2)
  <2>1. s' = s + (((B - A) + 1) + 1)
    BY <1>2, <1>5, <1>7
  <2> HIDE DEF A, B, none
  <2> QED
    BY <1>2, <1>4, <1>5, <1>6, <1>7, <2>1
<1>8. /\ out \subseteq out'
      /\ \A r \in out' : r \in out \/ (~none /\ r = found /\ Spell!Word \notin terminal)
  BY <1>1, <1>2, SpellAccepts
<1>9. Spell!NextLine \in {"line", "done"}
  BY DEF Spell!NextLine
<1>10. Spell!TypeOK'
  <2>1. pc' \in {"load", "line", "word", "done", "undefined"}
    BY <1>2, <1>9
  <2>2. s' \in 1..LineLen + 3
    <3>1. CASE none
      BY <1>2, <1>4, <3>1
    <3>2. CASE ~none
      BY <1>4, <1>7, <3>2
    <3> QED
      BY <3>1, <3>2
  <2>3. \A r \in out' : r.lineno \in DOMAIN lines /\ r.word # <<>>
    <3>1. \A r \in out : r.lineno \in DOMAIN lines /\ r.word # <<>>
      BY <1>1, Zenon DEF Spell!TypeOK
    <3>2. ~none => Spell!Word # <<>>
      <4>1. ASSUME ~none PROVE Len(Spell!Word) # 0
        <5> HIDE DEF A, B, none
        <5> QED
          BY <1>5, <4>1
      <4>2. Len(<<>>) = 0
        OBVIOUS
      <4> QED
        BY <4>1, <4>2
    <3>3. found.word = Spell!Word /\ found.lineno = n
      OBVIOUS
    <3> QED
      BY <1>3, <1>8, <3>1, <3>2, <3>3
  <2> QED
    BY <1>1, <1>2, <2>1, <2>2, <2>3, Zenon DEF Spell!TypeOK
<1>11. Spell!Learnt'
  <2>1. pc' # "load"
    BY <1>2, <1>9
  <2> QED
    BY <1>1, <1>2, <2>1 DEF Spell!Learnt
<1>12. l' = l
  BY <1>2 DEF Spell!CurrentLine
<1>13. Spell!InBuffer'
  BY <1>1, <1>2, <1>12 DEF Spell!InBuffer
<1>14. \A k : Spell!Reported(k) \subseteq Spell!Reported(k)'
  BY <1>8 DEF Spell!Reported
<1> DEFINE Reports(w) == w \in Spell!Reported(n)' \/ w \in terminal
<1>15. ASSUME NEW a \in 1..len, NEW b \in 1..len, Spell!IsWord(l, a, b), a < s'
       PROVE  Reports(SubSeq(l, a, b))
  <2>1. CASE a < s
    <3>1. SubSeq(l, a, b) \in Spell!Reported(n) \cup terminal
      BY <1>0, <1>1, <1>2, <1>15, <2>1 DEF Spell!SoFar
    <3> QED
      BY <1>14, <3>1
  <2>2. CASE ~(a < s)
    <3>1. ~none
      BY <1>2, <1>15, <2>2
    <3>2. s <= len /\ s <= a /\ a <= B + 1
      <4>1. a \in Nat /\ a <= len
        BY <1>3
      <4> HIDE DEF A, B, none
      <4> QED
        BY <1>4, <1>5, <1>7, <1>15, <2>2, <3>1, <4>1
    <3>3. a = A /\ b = B /\ Spell!Word = SubSeq(l, A, B)
      BY <1>1, <1>2, <1>15, <3>1, <3>2, SpellTurn
    <3>4. CASE Spell!CellDefined(Spell!Word)
      BY <1>1, <3>3, <3>4, SpellAccepts
    <3>5. CASE ~Spell!CellDefined(Spell!Word)
      <4>1. found \in out' /\ found.word = Spell!Word /\ found.lineno = n
        BY <1>2, <3>1, <3>5
      <4>2. Spell!Word \in Spell!Reported(n)'
        BY <1>2, <4>1 DEF Spell!Reported
      <4> QED
        BY <3>3, <4>2
    <3> QED
      BY <3>4, <3>5
  <2> QED
    BY <2>1, <2>2
<1>16. ASSUME pc' # "word", NEW a \in 1..len, NEW b \in 1..len, Spell!IsWord(l, a, b) PROVE a < s'
  <2>0. a \in Nat /\ 1 <= a /\ a <= len
    BY <1>3
  <2>1. CASE none
    <3>1. SUFFICES ASSUME ~(a < s) PROVE FALSE
      BY <1>2, <2>1
    <3>2. a \in s..Spell!End - 1
      BY <1>3, <1>4, <2>0, <3>1
    <3>3. buf[a] \in Alnum
      BY <1>3, <1>16 DEF Spell!IsWord
    <3> QED
      BY <2>1, <3>2, <3>3 DEF Spell!Starts
  <2>2. CASE ~none
    <3>1. buf[s'] = Spell!NUL
      BY <1>2, <1>16, <2>2
    <3>2. s' \notin 1..len
      BY <1>3, <3>1
    <3>3. s' \in Nat /\ s < s'
      BY <1>7, <2>2
    <3> QED
      BY <1>3, <1>4, <2>0, <3>2, <3>3
  <2> QED
    BY <2>1, <2>2
<1>17. Spell!SoFar'
  <2>1. Spell!Reported(Len(lines))' = Spell!Reported(n)'
    BY <1>0, <1>2 DEF Spell!Reported
  <2> QED
    BY <1>2, <1>12, <1>15, <2>1 DEF Spell!SoFar
<1>18. Spell!MissesNothing(terminal)'
  <2>1. ASSUME NEW k \in Spell!Searched', NEW w \in Spell!WordsOf(lines[k])
        PROVE w \in Spell!Reported(k)' \/ w \in terminal
    <3>1. k \in DOMAIN lines /\ (k < n \/ pc' \in {"line", "done"})
      BY <1>0, <1>2 DEF Spell!Searched
    <3>2. CASE k < n
      <4>1. k \in Spell!Searched
        BY <1>0, <3>1, <3>2 DEF Spell!Searched
      <4>2. w \in Spell!Reported(k) \/ w \in terminal
        BY <1>1, <4>1 DEF Spell!MissesNothing
      <4> QED
        BY <1>14, <4>2
    <3>3. CASE ~(k < n)
      <4>1. k = n
        <5>1. DOMAIN lines = 1..n /\ n \in Nat
          BY <1>0, <1>1, SpellTypes
        <5> QED
          BY <3>1, <3>3, <5>1
      <4>2. pc' # "word"
        BY <3>1, <3>3
      <4>3. PICK a \in 1..len, b \in 1..len : Spell!IsWord(l, a, b) /\ w = SubSeq(l, a, b)
        <5>1. w \in Spell!WordsOf(l)
          BY <1>0, <4>1 DEF Spell!CurrentLine
        <5> QED
          BY <5>1 DEF Spell!WordsOf
      <4>4. a < s'
        BY <1>16, <4>2, <4>3
      <4> QED
        BY <1>15, <4>1, <4>3, <4>4
    <3> QED
      BY <3>2, <3>3
  <2> QED
    BY <1>2, <2>1 DEF Spell!MissesNothing
<1>19. Spell!AccusesWords(terminal)'
  <2>1. ASSUME NEW k \in DOMAIN lines, NEW w \in Spell!Reported(k)'
        PROVE w \notin terminal /\ (Spell!SingleSpaced(lines[k]) => w \in Spell!WordsOf(lines[k]))
    <3>1. PICK r \in out' : r.lineno = k /\ w = r.word
      BY <2>1 DEF Spell!Reported
    <3>2. CASE r \in out
      <4>1. w \in Spell!Reported(k)
        BY <3>1, <3>2 DEF Spell!Reported
      <4> QED
        BY <1>1, <2>1, <4>1 DEF Spell!AccusesWords
    <3>3. CASE r \notin out
      <4>1. ~none /\ k = n /\ w = Spell!Word /\ w \notin terminal
        BY <1>8, <3>1, <3>3
      <4> SUFFICES ASSUME Spell!SingleSpaced(lines[k]) PROVE w \in Spell!WordsOf(lines[k])
        BY <4>1
      <4>2. Spell!SingleSpaced(l) /\ l = lines[k]
        BY <1>0, <2>1, <4>1 DEF Spell!CurrentLine
      <4>3. s <= len /\ A = s /\ Spell!IsWord(l, A, B)
        BY <1>1, <1>2, <4>1, <4>2, SpellAtWord
      <4>4. Spell!Word = SubSeq(l, A, B) /\ B <= len
        BY <1>1, <1>2, <4>1, <4>3, SpellTurn
      <4>5. A \in 1..len /\ B \in 1..len
        <5> HIDE DEF A, B, none, l
        <5> QED
          BY <1>3, <1>4, <1>5, <4>1, <4>3, <4>4
      <4>6. SubSeq(l, A, B) \in Spell!WordsOf(l)
        <5> DEFINE q == <<A, B>>
        <5>1. q \in (1..len) \X (1..len) /\ q[1] = A /\ q[2] = B
          BY <4>5
        <5> HIDE DEF q, A, B, l
        <5> QED
          BY <4>3, <5>1 DEF Spell!WordsOf
      <4> QED
        BY <4>1, <4>2, <4>4, <4>6
    <3> QED
      BY <3>2, <3>3
  <2> QED
    BY <1>2, <2>1 DEF Spell!AccusesWords
<1>20. Spell!AtWord'
  <2>1. SUFFICES ASSUME pc' = "word", Spell!SingleSpaced(l)
                 PROVE  /\ s' <= len
                        /\ \/ s' = len
                           \/ l[s'] \in Alnum /\ (s' = 1 \/ l[s' - 1] \notin Spell!WordChars)
    BY <1>12 DEF Spell!AtWord
  <2>2. ~none
    BY <1>2, <1>9, <2>1
  <2>3. /\ A = s
        /\ B + 1 = len \/ B + 2 = len \/ (B + 2 < len /\ l[B + 2] \in Alnum /\ l[B + 1] \notin Spell!WordChars)
    BY <1>1, <1>2, <2>1, <2>2, SpellAtWord
  <2>4. s' = B + 2 /\ s' - 1 = B + 1 /\ B \in Nat
    <3> HIDE DEF A, B, none
    <3> QED
      BY <1>4, <1>5, <1>7, <2>2, <2>3
  <2>5. B + 1 # len
    <3> SUFFICES ASSUME B + 1 = len PROVE FALSE
      OBVIOUS
    <3>1. s' = len + 1
      <4> HIDE DEF B, l
      <4> QED
        BY <1>3, <2>4
    <3>2. s' <= Len(buf) /\ buf[s'] = Spell!NUL
      BY <1>3, <1>4, <3>1
    <3> QED
      BY <1>2, <1>9, <2>1, <2>2, <3>2
  <2> HIDE DEF B, l
  <2>6. CASE B + 2 = len
    BY <1>3, <2>4, <2>6
  <2>7. CASE B + 2 < len /\ l[B + 2] \in Alnum /\ l[B + 1] \notin Spell!WordChars
    BY <1>3, <2>4, <2>7
  <2> QED
    BY <2>3, <2>5, <2>6, <2>7
<1> QED
  BY <1>10, <1>11, <1>13, <1>17, <1>18, <1>19, <1>20 DEF Spell!IInv

LEMMA SpellUnchanged == ASSUME Spell!IInv, UNCHANGED <<spellVars, pc, out>> PROVE Spell!IInv'
<1>1. /\ toload' = toload /\ cells' = cells /\ terminal' = terminal /\ buf' = buf /\ s' = s
      /\ lines' = lines /\ feof' = feof /\ pc' = pc /\ out' = out
  BY DEF spellVars
<1> QED
  BY <1>1 DEF Spell!IInv, Spell!TypeOK, Spell!Learnt, Spell!InBuffer, Spell!SoFar,
     Spell!AtWord, Spell!MissesNothing, Spell!AccusesWords, Spell!Searched, Spell!Reported,
     Spell!CurrentLine

LEMMA SpellStep == ASSUME Spell!IInv, Spell!Next PROVE Spell!IInv'
<1>1. CASE Spell!Load
  BY <1>1, SpellLoad
<1>2. CASE Spell!Loaded \/ Spell!Astray \/ Spell!NoLine \/ Spell!Done
  BY <1>2, SpellOther
<1>3. CASE Spell!Check
  BY <1>3, SpellCheck
<1>4. CASE Spell!GetLine
  BY <1>4, SpellGetLine
<1> QED
  BY <1>1, <1>2, <1>3, <1>4 DEF Spell!Next, Spell!Program

-----------------------------------------------------------------------------
\* grep

GrepChars == Grep!Chars \cup {Grep!NL}

LEMMA GrepCardinality == ASSUME NEW S PROVE Grep!Cardinality(S) = Cardinality(S)
BY DEF Grep!Cardinality, Cardinality

LEMMA GrepTypes ==
  ASSUME Grep!TypeOK
  PROVE  /\ text \in Seq(GrepChars) /\ Len(text) \in Nat /\ pos \in Nat /\ pos <= Len(text)
         /\ lineno \in Nat /\ count \in Nat /\ lineno <= pos /\ count <= lineno
         /\ LINESZ \in Nat /\ LINESZ > 2
         /\ Len(pattern) \in Nat /\ DOMAIN pattern = 1..Len(pattern)
         /\ pattern # <<>> => Len(pattern) >= 1
         /\ out \in Seq([no : 1..lineno, line : Seq(GrepChars)])
         /\ just_count \in BOOLEAN /\ fixed_mode \in BOOLEAN
<1>1. text \in Seq(GrepChars) /\ out \in Seq([no : 1..lineno, line : Seq(GrepChars)])
  BY Zenon DEF Grep!TypeOK, GrepChars
<1>2. Len(text) \in Nat
  BY <1>1
<1>3. pos \in 0..Len(text) /\ lineno \in 0..pos /\ count \in 0..lineno
  BY Zenon DEF Grep!TypeOK
<1>4. LINESZ \in Nat /\ LINESZ > 2
  BY GrepAssumed DEF Grep!GrepAssumption
<1>5. pattern \in Seq(Grep!Chars)
  BY GrepAssumed DEF Grep!GrepAssumption, Grep!TypeOK
<1>6. /\ Len(pattern) \in Nat /\ DOMAIN pattern = 1..Len(pattern)
      /\ pattern # <<>> => Len(pattern) # 0
  BY <1>5, EmptySeq
<1>7. just_count \in BOOLEAN /\ fixed_mode \in BOOLEAN
  BY DEF Grep!TypeOK
<1> QED
  BY <1>1, <1>2, <1>3, <1>4, <1>6, <1>7

\* fgets stops at the first place where it may: a newline, the end, or where
\* the room ends.
LEMMA GrepPieceEnd ==
  ASSUME Grep!TypeOK, pos < Len(text)
  PROVE  /\ Grep!PieceEnd \in Nat /\ pos < Grep!PieceEnd /\ Grep!PieceEnd <= Len(text)
         /\ \/ text[Grep!PieceEnd] = Grep!NL
            \/ Grep!PieceEnd = Len(text)
            \/ Grep!PieceEnd - pos = LINESZ - 1
         /\ Grep!PieceEnd - pos <= LINESZ - 1
         /\ \A k \in pos + 1..Grep!PieceEnd - 1 : text[k] # Grep!NL
<1> DEFINE len == Len(text)
           NLat(k) == text[k] = Grep!NL
           Here(e) == /\ NLat(e) \/ e = len \/ e - pos = LINESZ - 1
                      /\ e - pos <= LINESZ - 1 /\ \A k \in pos + 1..e - 1 : ~NLat(k)
           S == {e \in pos + 1..len : NLat(e) \/ e = len \/ e - pos = LINESZ - 1}
<1>1. len \in Nat /\ pos \in Nat /\ pos < len /\ LINESZ \in Nat /\ LINESZ > 2
  BY GrepTypes
<1> HIDE DEF len, NLat
<1>2. S \in SUBSET Nat /\ len \in S
  BY <1>1
<1>3. PICK e \in S : \A b \in S : e <= b
  BY <1>2, Smallest
<1>4. e \in pos + 1..len /\ Here(e)
  <2>1. e \in pos + 1..len /\ (NLat(e) \/ e = len \/ e - pos = LINESZ - 1)
    OBVIOUS
  <2>2. e - pos <= LINESZ - 1
    <3> SUFFICES ASSUME ~(e - pos <= LINESZ - 1) PROVE FALSE
      OBVIOUS
    <3> DEFINE b == pos + (LINESZ - 1)
    <3>1. b \in pos + 1..len /\ b - pos = LINESZ - 1 /\ ~(e <= b)
      BY <1>1, <2>1
    <3> QED
      BY <1>3, <3>1
  <2>3. ASSUME NEW k \in pos + 1..e - 1 PROVE ~NLat(k)
    <3>1. k \in pos + 1..len /\ ~(e <= k)
      BY <1>1, <2>1
    <3> QED
      BY <1>3, <3>1
  <2> QED
    BY <2>1, <2>2, <2>3
<1> DEFINE z == CHOOSE b \in pos + 1..len : Here(b)
<1>5. z \in pos + 1..len /\ Here(z)
  <2> HIDE DEF Here
  <2> QED
    BY <1>4
<1>6. z = Grep!PieceEnd
  BY Zenon DEF Grep!PieceEnd, len, NLat
<1> HIDE DEF z
<1>7. z \in Nat /\ pos < z /\ z <= len
  BY <1>1, <1>5
<1> QED
  BY <1>5, <1>6, <1>7 DEF len, NLat

\* What is searched is the piece without its last character.
LEMMA GrepPiece ==
  ASSUME Grep!TypeOK, pos < Len(text)
  PROVE  /\ Len(Grep!Piece) = Grep!PieceEnd - pos
         /\ Grep!Front(Grep!Piece) = SubSeq(text, pos + 1, Grep!PieceEnd - 1)
         /\ Grep!Front(Grep!Piece) \in Seq(GrepChars)
<1> DEFINE e == Grep!PieceEnd
<1>1. /\ text \in Seq(GrepChars) /\ pos \in Nat /\ e \in Nat /\ pos < e /\ e <= Len(text) /\ Len(text) \in Nat
  BY GrepTypes, GrepPieceEnd
<1> HIDE DEF e
<1> DEFINE piece == SubSeq(text, pos + 1, e)
           head == SubSeq(piece, 1, (e - pos) - 1)
           line1 == SubSeq(text, pos + 1, e - 1)
<1>2. /\ piece \in Seq(GrepChars) /\ Len(piece) = e - pos
      /\ \A k \in 1..(e - pos) : piece[k] = text[pos + k]
  BY <1>1
<1>3. /\ line1 \in Seq(GrepChars) /\ Len(line1) = (e - pos) - 1
      /\ \A k \in 1..(e - pos) - 1 : line1[k] = text[pos + k]
  BY <1>1
<1> HIDE DEF piece, line1
<1>4. /\ head \in Seq(GrepChars) /\ Len(head) = (e - pos) - 1
      /\ \A k \in 1..(e - pos) - 1 : head[k] = text[pos + k]
  BY <1>1, <1>2
<1> HIDE DEF head
<1>5. head = line1
  BY <1>3, <1>4, SeqEqual
<1> QED
  BY <1>2, <1>3, <1>5 DEF Grep!Piece, Grep!Front, e, piece, head, line1

LEMMA GrepEnds ==
  ASSUME NEW k \in Nat
  PROVE  /\ Grep!EndsUpTo(k) \in SUBSET (1..k) /\ IsFiniteSet(Grep!EndsUpTo(k))
         /\ Cardinality(Grep!EndsUpTo(k)) \in Nat
<1>1. Grep!EndsUpTo(k) \in SUBSET (1..k) /\ IsFiniteSet(1..k)
  BY FS_Interval DEF Grep!EndsUpTo
<1> QED
  BY <1>1, FS_Subset, FS_CardinalityType

\* Where every line fits, a piece is a line: that which ends where it ends.
LEMMA GrepLine ==
  ASSUME Grep!IInv, Grep!WellFormed, pos < Len(text)
  PROVE  /\ text[Grep!PieceEnd] = Grep!NL
         /\ Grep!EndsUpTo(Grep!PieceEnd) = Grep!Ends \cup {Grep!PieceEnd}
         /\ Grep!PieceEnd \notin Grep!Ends
         /\ Grep!LineAt(Grep!PieceEnd) = Grep!Front(Grep!Piece)
         /\ Grep!NumberAt(Grep!PieceEnd) = lineno + 1
<1> DEFINE e == Grep!PieceEnd
           len == Len(text)
           NLat(k) == text[k] = Grep!NL
<1>0. Grep!TypeOK /\ Grep!BetweenLines
  BY DEF Grep!IInv
<1>1. /\ e \in Nat /\ pos < e /\ e <= len /\ len \in Nat /\ pos \in Nat /\ LINESZ \in Nat /\ LINESZ > 2
      /\ NLat(e) \/ e = len \/ e - pos = LINESZ - 1
      /\ e - pos <= LINESZ - 1 /\ \A k \in pos + 1..e - 1 : ~NLat(k)
      /\ text \in Seq(GrepChars) /\ lineno \in Nat
  BY <1>0, GrepTypes, GrepPieceEnd
<1>2. /\ text # <<>> => NLat(len)
      /\ \A b \in 0..len - LINESZ + 1 : \E k \in b + 1..b + LINESZ - 1 : NLat(k)
  BY Zenon DEF Grep!WellFormed
<1>3. text # <<>>
  <2>1. len # 0
    BY <1>1
  <2> QED
    BY <1>1, <2>1, EmptySeq
<1> HIDE DEF e, len, NLat
<1>4. NLat(e)
  <2>1. CASE e = len
    BY <1>2, <1>3, <2>1
  <2>2. CASE e - pos = LINESZ - 1
    <3>1. pos \in 0..len - LINESZ + 1
      BY <1>1, <2>2
    <3>2. PICK k \in pos + 1..pos + LINESZ - 1 : NLat(k)
      BY <1>2, <3>1
    <3>3. k = e \/ k \in pos + 1..e - 1
      BY <1>1, <2>2
    <3> QED
      BY <1>1, <3>2, <3>3
  <2> QED
    BY <1>1, <2>1, <2>2
<1> DEFINE before == Grep!EndsUpTo(pos)
<1>5. before = {k \in 1..pos : NLat(k)} /\ Grep!EndsUpTo(e) = {k \in 1..e : NLat(k)}
      /\ Grep!EndsUpTo(e - 1) = {k \in 1..e - 1 : NLat(k)}
  BY DEF Grep!EndsUpTo, NLat
<1>6. Grep!EndsUpTo(e) = before \cup {e} /\ e \notin before /\ Grep!EndsUpTo(e - 1) = before
  <2>1. \A k \in 1..e : k = e \/ k \in 1..e - 1
    BY <1>1
  <2>2. \A k \in 1..e - 1 : k \in 1..pos \/ k \in pos + 1..e - 1
    BY <1>1
  <2>3. \A k \in 1..pos : k \in 1..e /\ k \in 1..e - 1 /\ k # e
    BY <1>1
  <2>4. e \in 1..e
    BY <1>1
  <2> QED
    BY <1>1, <1>4, <1>5, <2>1, <2>2, <2>3, <2>4
<1>7. before \in SUBSET (1..pos) /\ IsFiniteSet(before) /\ Cardinality(before) \in Nat
  BY <1>1, GrepEnds
<1>8. (pos = 0 \/ NLat(pos)) /\ lineno = Cardinality(before)
  BY <1>0, GrepCardinality DEF Grep!BetweenLines, Grep!Ends, NLat
<1>9. Grep!NumberAt(e) = lineno + 1
  <2>1. Cardinality(before \cup {e}) = Cardinality(before) + 1
    BY <1>6, <1>7, FS_AddElement
  <2> QED
    BY <1>6, <1>8, <2>1, GrepCardinality DEF Grep!NumberAt
<1>10. Grep!Max({0} \cup before) = pos
  <2> DEFINE T == {0} \cup before
  <2>1. pos \in T
    <3>1. CASE pos = 0
      BY <3>1
    <3>2. CASE pos # 0
      <4>1. pos \in 1..pos
        BY <1>1, <3>2
      <4> QED
        BY <1>5, <1>8, <3>2, <4>1
    <3> QED
      BY <3>1, <3>2
  <2>2. \A b \in T : b \in Nat /\ b <= pos
    BY <1>1, <1>7
  <2> HIDE DEF T
  <2>3. \A b \in T : (\A c \in T : b >= c) => b = pos
    BY <1>1, <2>1, <2>2
  <2>4. \A c \in T : pos >= c
    BY <1>1, <2>2
  <2> QED
    BY <2>1, <2>3, <2>4 DEF Grep!Max, T
<1>11. Grep!LineAt(e) = SubSeq(text, pos + 1, e - 1)
  BY <1>6, <1>10 DEF Grep!LineAt
<1>12. Grep!LineAt(e) = Grep!Front(Grep!Piece)
  BY <1>0, <1>11, GrepPiece DEF e, len
<1> QED
  BY <1>4, <1>6, <1>9, <1>12 DEF e, NLat, Grep!Ends

\* A line that has the pattern is taken in both modes, but for an empty pattern
\* and -F.
LEMMA GrepTakes ==
  ASSUME Grep!TypeOK, NEW x \in Seq(GrepChars), Grep!HasPattern(x), ~Grep!EmptyFixed
  PROVE  Grep!Matches(x)
<1>0. CASE ~fixed_mode
  BY <1>0 DEF Grep!Matches
<1> SUFFICES ASSUME pattern # <<>> PROVE Grep!Matches(x)
  BY <1>0 DEF Grep!EmptyFixed
<1> DEFINE np == Len(pattern)
           nx == Len(x)
           Same(a, b) == Grep!SameChar(a, b)
<1>1. np \in Nat /\ np >= 1 /\ DOMAIN pattern = 1..np /\ nx \in Nat /\ DOMAIN x = 1..nx
  BY GrepTypes
<1>2. PICK j \in 0..nx - np : \A k \in DOMAIN pattern : Same(x[j + k], pattern[k])
  BY DEF Grep!HasPattern
<1> DEFINE tail == SubSeq(x, j + 1, nx)
<1> HIDE DEF np, Same
<1>3. j + 1 \in 1..nx /\ 1 \in 1..np
  BY <1>1, <1>2
<1>4. DOMAIN tail = 1..(nx - j) /\ \A k \in 1..(nx - j) : tail[k] = x[j + k]
  BY <1>1, <1>3
<1> HIDE DEF tail, nx
<1>5. Same(x[j + 1], pattern[1])
  BY <1>1, <1>2, <1>3
<1>6. \A k \in (DOMAIN tail) \cap DOMAIN pattern : Same(tail[k], pattern[k])
  BY <1>2, <1>4
<1>7. Grep!Tccmp(tail)
  BY <1>6 DEF Grep!Tccmp, Same
<1>8. Grep!Tcstrstr(x)
  BY <1>1, <1>3, <1>5, <1>7 DEF Grep!Tcstrstr, Same, tail, nx
<1> QED
  BY <1>8 DEF Grep!Matches

LEMMA GrepInit == Grep!Init => Grep!IInv
<1> SUFFICES ASSUME Grep!Init PROVE Grep!IInv
  OBVIOUS
<1>1. pos = 0 /\ lineno = 0 /\ count = 0 /\ out = <<>> /\ pc = "read"
  BY DEF Grep!Init
<1>2. text \in Seq(GrepChars)
  <2>1. TextLen \in Nat
    BY GrepAssumed DEF Grep!GrepAssumption
  <2>2. \A k \in 0..TextLen : [1..k -> GrepChars] \subseteq Seq(GrepChars)
    OBVIOUS
  <2>3. text \in UNION {[1..k -> GrepChars] : k \in 0..TextLen}
    BY Zenon DEF Grep!Init, GrepChars
  <2>4. PICK k \in 0..TextLen : text \in [1..k -> GrepChars]
    BY <2>3
  <2> QED
    BY <2>2, <2>4, Zenon
<1>3. Grep!TypeOK
  <2>1. pos \in 0..Len(text) /\ lineno \in 0..pos /\ count \in 0..lineno
    BY <1>1, <1>2
  <2>2. out \in Seq([no : 1..lineno, line : Seq(GrepChars)]) /\ Len(out) = IF just_count THEN 0 ELSE count
    BY <1>1
  <2>3. pattern \in Patterns /\ {fixed_mode, icase, just_count} \subseteq BOOLEAN /\ pc \in {"read", "done"}
    BY DEF Grep!Init
  <2> QED
    BY <1>2, <2>1, <2>2, <2>3, Zenon DEF Grep!TypeOK, GrepChars
<1>4. Grep!Ends = {}
  <2>1. 1..pos = {}
    BY <1>1
  <2> QED
    BY <2>1 DEF Grep!Ends, Grep!EndsUpTo
<1>5. Cardinality({}) = 0
  BY FS_EmptySet
<1>6. Grep!BetweenLines
  BY <1>1, <1>4, <1>5, GrepCardinality DEF Grep!BetweenLines
<1>7. DOMAIN out = {}
  BY <1>1
<1>8. Grep!PrintsLines /\ Grep!RegexFindsOnly
  BY <1>7, Zenon DEF Grep!PrintsLines, Grep!RegexFindsOnly
<1>9. Grep!LinesFound = {}
  BY <1>4 DEF Grep!LinesFound
<1>10. Grep!FindsAll /\ Grep!FindsNone
  <2>1. count >= Grep!Cardinality(Grep!LinesFound)
    BY <1>1, <1>5, <1>9, GrepCardinality
  <2> QED
    BY <1>1, <1>9, <2>1, Zenon DEF Grep!FindsAll, Grep!FindsNone
<1> QED
  BY <1>3, <1>6, <1>8, <1>10 DEF Grep!IInv

\* One line more: the counters.
LEMMA GrepTurnTypes ==
  ASSUME Grep!IInv, Grep!Turn
  PROVE  LET x == Grep!Front(Grep!Piece)
             row == [no |-> lineno + 1, line |-> x]
         IN  /\ Grep!TypeOK'
             /\ pos' = Grep!PieceEnd /\ pos < Len(text) /\ lineno' = lineno + 1
             /\ x \in Seq(GrepChars)
             /\ IF Grep!Matches(x) THEN count' = count + 1 ELSE count' = count
             /\ \/ Grep!Matches(x) /\ ~just_count /\ Len(out') = Len(out) + 1 /\ out'[Len(out) + 1] = row
                   /\ \A m \in 1..Len(out) : out'[m] = out[m]
                \/ out' = out /\ (just_count \/ ~Grep!Matches(x))
             /\ Len(out) \in Nat /\ DOMAIN out = 1..Len(out) /\ DOMAIN out' = 1..Len(out')
             /\ UNCHANGED <<text, pattern, fixed_mode, icase, just_count>>
<1> DEFINE x == Grep!Front(Grep!Piece)
           row == [no |-> lineno + 1, line |-> x]
           Rows(k) == [no : 1..k, line : Seq(GrepChars)]
<1>0. Grep!TypeOK
  BY DEF Grep!IInv
<1>1. /\ pos < Len(text) /\ pc = "read" /\ pc' \in {"read", "done"}
      /\ pos' = pos + Len(Grep!Piece) /\ lineno' = lineno + 1
      /\ UNCHANGED <<text, pattern, fixed_mode, icase, just_count>>
  BY DEF Grep!Turn, Grep!Numbered
<1>2. IF Grep!Matches(x) THEN count' = count + 1 /\ out' = IF just_count THEN out ELSE Append(out, [no |-> lineno', line |-> x])
      ELSE count' = count /\ out' = out
  BY Zenon DEF Grep!Turn, Grep!Count
<1>3. /\ pos \in Nat /\ Len(text) \in Nat /\ lineno \in Nat /\ lineno <= pos /\ count \in Nat /\ count <= lineno
      /\ out \in Seq(Rows(lineno)) /\ just_count \in BOOLEAN
  BY <1>0, GrepTypes
<1>4. Len(Grep!Piece) = Grep!PieceEnd - pos /\ x \in Seq(GrepChars)
      /\ Grep!PieceEnd \in Nat /\ pos < Grep!PieceEnd /\ Grep!PieceEnd <= Len(text)
  BY <1>0, <1>1, GrepPiece, GrepPieceEnd
<1> DEFINE e == Grep!PieceEnd
<1> HIDE DEF x, e
<1>5. pos' = e
  BY <1>1, <1>3, <1>4 DEF e
<1>6. pos' \in 0..Len(text) /\ lineno' \in 0..pos'
  BY <1>1, <1>3, <1>4, <1>5 DEF e
<1>7. count' \in 0..lineno'
  <2>1. count' = count \/ count' = count + 1
    BY <1>2
  <2> QED
    BY <1>1, <1>3, <2>1
<1>8. out \in Seq(Rows(lineno')) /\ row \in Rows(lineno')
  <2>1. 1..lineno \subseteq 1..(lineno + 1) /\ lineno + 1 \in 1..(lineno + 1)
    BY <1>3
  <2>2. Rows(lineno) \subseteq Rows(lineno + 1)
    BY <2>1
  <2>3. row \in Rows(lineno + 1)
    BY <1>4, <2>1
  <2> HIDE DEF Rows
  <2>4. out \in Seq(Rows(lineno + 1))
    BY <1>3, <2>2, ElementOfSeq, IsASeq
  <2> QED
    BY <1>1, <2>3, <2>4
<1>9. Len(out) \in Nat /\ DOMAIN out = 1..Len(out)
  BY <1>3
<1> DEFINE longer == Append(out, row)
<1>10. longer \in Seq(Rows(lineno')) /\ Len(longer) = Len(out) + 1 /\ longer[Len(out) + 1] = row
       /\ \A m \in 1..Len(out) : longer[m] = out[m]
  <2> HIDE DEF row, Rows
  <2> QED
    BY <1>8, AppendProperties
<1>11. Len(out) = IF just_count THEN 0 ELSE count
  BY <1>0, Zenon DEF Grep!TypeOK
<1> HIDE DEF row, Rows
<1>12. IF Grep!Matches(x) /\ ~just_count THEN out' = longer ELSE out' = out
  BY <1>1, <1>2, <1>3, Zenon DEF row
<1>13. out' \in Seq(Rows(lineno')) /\ DOMAIN out' = 1..Len(out')
  BY <1>8, <1>10, <1>12
<1>14. Len(out') = IF just_count' THEN 0 ELSE count'
  <2> HIDE DEF longer
  <2>1. CASE just_count
    <3>1. out' = out
      BY <1>12, <2>1
    <3> QED
      BY <1>1, <1>11, <2>1, <3>1
  <2>2. CASE ~just_count /\ Grep!Matches(x)
    <3>1. out' = longer /\ count' = count + 1 /\ Len(out) = count
      BY <1>2, <1>11, <1>12, <2>2, Zenon
    <3> QED
      BY <1>1, <1>10, <2>2, <3>1
  <2>3. CASE ~just_count /\ ~Grep!Matches(x)
    <3>1. out' = out /\ count' = count /\ Len(out) = count
      BY <1>2, <1>11, <1>12, <2>3, Zenon
    <3> QED
      BY <1>1, <2>3, <3>1
  <2> QED
    BY <2>1, <2>2, <2>3
<1>15. Grep!TypeOK'
  <2>1. text' \in Seq(Grep!Chars \cup {Grep!NL}) /\ pattern' \in Patterns
        /\ {fixed_mode', icase', just_count'} \subseteq BOOLEAN /\ pc' \in {"read", "done"}
    BY <1>0, <1>1, Zenon DEF Grep!TypeOK
  <2>2. pos' \in 0..Len(text')
    BY <1>1, <1>6
  <2>3. out' \in Seq([no : 1..lineno', line : Seq(Grep!Chars \cup {Grep!NL})])
    BY <1>13, Zenon DEF Rows, GrepChars
  <2> QED
    BY <1>6, <1>7, <1>14, <2>1, <2>2, <2>3, Zenon DEF Grep!TypeOK
<1>16. \/ /\ Grep!Matches(x) /\ ~just_count /\ Len(out') = Len(out) + 1 /\ out'[Len(out) + 1] = row
           /\ \A m \in 1..Len(out) : out'[m] = out[m]
       \/ out' = out /\ (just_count \/ ~Grep!Matches(x))
  BY <1>10, <1>12, Zenon
<1>17. IF Grep!Matches(x) THEN count' = count + 1 ELSE count' = count
  BY <1>2, Zenon
<1> QED
  BY <1>1, <1>4, <1>5, <1>9, <1>13, <1>15, <1>16, <1>17, Zenon DEF x, e, row

\* The text and the pattern stay: so do lines and matches.
LEMMA GrepStill ==
  ASSUME UNCHANGED <<text, pattern, fixed_mode, icase, just_count>>
  PROVE  /\ \A k : /\ Grep!EndsUpTo(k)' = Grep!EndsUpTo(k) /\ Grep!LineAt(k)' = Grep!LineAt(k)
                  /\ Grep!NumberAt(k)' = Grep!NumberAt(k)
         /\ \A q : Grep!HasPattern(q)' <=> Grep!HasPattern(q)
         /\ Grep!WellFormed' <=> Grep!WellFormed
<1>1. ASSUME NEW k PROVE Grep!EndsUpTo(k)' = Grep!EndsUpTo(k)
  BY DEF Grep!EndsUpTo
<1>2. ASSUME NEW k PROVE Grep!LineAt(k)' = Grep!LineAt(k)
  BY DEF Grep!LineAt, Grep!EndsUpTo
<1>3. ASSUME NEW k PROVE Grep!NumberAt(k)' = Grep!NumberAt(k)
  BY DEF Grep!NumberAt, Grep!EndsUpTo
<1>4. ASSUME NEW q PROVE Grep!HasPattern(q)' <=> Grep!HasPattern(q)
  BY DEF Grep!HasPattern, Grep!SameChar
<1>5. Grep!WellFormed' <=> Grep!WellFormed
  BY DEF Grep!WellFormed
<1> QED
  BY <1>1, <1>2, <1>3, <1>4, <1>5, Zenon

\* A piece is a line where the lines fit, and is printed if it has the pattern.
LEMMA GrepTurn == Grep!IInv /\ Grep!Turn => Grep!IInv'
<1> SUFFICES ASSUME Grep!IInv, Grep!Turn PROVE Grep!IInv'
  OBVIOUS
<1> DEFINE x == Grep!Front(Grep!Piece)
           e == Grep!PieceEnd
           row == [no |-> lineno + 1, line |-> x]
<1>1. /\ Grep!TypeOK'
      /\ pos' = e /\ pos < Len(text) /\ lineno' = lineno + 1
      /\ x \in Seq(GrepChars)
      /\ IF Grep!Matches(x) THEN count' = count + 1 ELSE count' = count
      /\ \/ Grep!Matches(x) /\ ~just_count /\ Len(out') = Len(out) + 1 /\ out'[Len(out) + 1] = row
            /\ \A m \in 1..Len(out) : out'[m] = out[m]
         \/ out' = out /\ (just_count \/ ~Grep!Matches(x))
      /\ Len(out) \in Nat /\ DOMAIN out = 1..Len(out) /\ DOMAIN out' = 1..Len(out')
      /\ UNCHANGED <<text, pattern, fixed_mode, icase, just_count>>
  BY GrepTurnTypes, Zenon
<1>2. /\ Grep!TypeOK /\ Grep!BetweenLines /\ Grep!PrintsLines /\ Grep!FindsAll /\ Grep!FindsNone /\ Grep!RegexFindsOnly
      /\ lineno \in Nat /\ count \in Nat /\ pos \in Nat
      /\ \A m \in DOMAIN out : out[m].no \in 1..lineno
  <2>1. /\ Grep!TypeOK /\ Grep!BetweenLines /\ Grep!PrintsLines /\ Grep!FindsAll
        /\ Grep!FindsNone /\ Grep!RegexFindsOnly
    BY DEF Grep!IInv
  <2>2. out \in Seq([no : 1..lineno, line : Seq(GrepChars)])
    BY <2>1, GrepTypes
  <2>3. \A m \in DOMAIN out : out[m].no \in 1..lineno
    <3> DEFINE Rows == [no : 1..lineno, line : Seq(GrepChars)]
    <3>1. \A q \in Rows : q.no \in 1..lineno
      OBVIOUS
    <3> HIDE DEF Rows
    <3>2. \A m \in DOMAIN out : out[m] \in Rows
      <4>1. out \in Seq(Rows)
        BY <2>2, Zenon DEF Rows
      <4>2. \A S : out \in Seq(S) => \A m \in DOMAIN out : out[m] \in S
        OBVIOUS
      <4> QED
        BY <4>1, <4>2, Zenon
    <3> QED
      BY <3>1, <3>2, Zenon
  <2> QED
    BY <2>1, <2>3, GrepTypes
<1>3. Grep!HasPattern(x) /\ ~Grep!EmptyFixed => Grep!Matches(x)
  BY <1>1, <1>2, GrepTakes
<1>4. /\ \A k : /\ Grep!EndsUpTo(k)' = Grep!EndsUpTo(k) /\ Grep!LineAt(k)' = Grep!LineAt(k)
               /\ Grep!NumberAt(k)' = Grep!NumberAt(k)
      /\ \A q : Grep!HasPattern(q)' <=> Grep!HasPattern(q)
      /\ Grep!WellFormed' <=> Grep!WellFormed
  BY <1>1, GrepStill
<1>5. Grep!WellFormed =>
        /\ text[e] = Grep!NL /\ Grep!EndsUpTo(e) = Grep!Ends \cup {e} /\ e \notin Grep!Ends
        /\ Grep!LineAt(e) = x /\ Grep!NumberAt(e) = lineno + 1
  BY <1>1, GrepLine
<1> DEFINE C(S) == Grep!Cardinality(S)
           n0 == Len(out)
<1>6. row.no = lineno + 1 /\ row.line = x
  OBVIOUS
<1> HIDE DEF x, e, row, C, n0
<1>7. Grep!WellFormed => Grep!Ends' = Grep!Ends \cup {e}
  <2>1. Grep!Ends' = Grep!EndsUpTo(e)
    BY <1>1 DEF Grep!Ends, Grep!EndsUpTo
  <2> QED
    BY <1>5, <2>1
<1>8. ASSUME NEW m \in DOMAIN out'
      PROVE  \/ m \in DOMAIN out /\ out'[m] = out[m] /\ m <= n0
             \/ m = n0 + 1 /\ m \notin DOMAIN out /\ out'[m] = row /\ Grep!Matches(x)
  <2>1. CASE out' = out
    <3>1. m \in DOMAIN out /\ out'[m] = out[m]
      BY <2>1
    <3>2. m \in 1..n0 /\ n0 \in Nat
      BY <1>1, <3>1 DEF n0
    <3> QED
      BY <3>1, <3>2
  <2>2. CASE Grep!Matches(x) /\ Len(out') = Len(out) + 1 /\ out'[Len(out) + 1] = row
             /\ \A k \in 1..Len(out) : out'[k] = out[k]
    <3>1. m \in 1..(n0 + 1) /\ n0 \in Nat
      BY <1>1, <2>2 DEF n0
    <3>2. (m \in 1..n0 /\ m <= n0) \/ (m = n0 + 1 /\ m \notin 1..n0)
      BY <3>1
    <3> QED
      BY <1>1, <2>2, <3>2, Zenon DEF n0
  <2> QED
    BY <1>1, <2>1, <2>2, Zenon
<1>9. DOMAIN out \subseteq DOMAIN out' /\ n0 \in Nat /\ DOMAIN out = 1..n0 /\ Len(out') \in Nat
  <2>1. n0 \in Nat /\ DOMAIN out = 1..n0
    BY <1>1, Zenon DEF n0
  <2>2. Len(out') = n0 \/ Len(out') = n0 + 1
    BY <1>1, Zenon DEF n0
  <2>3. \A b : b = n0 \/ b = n0 + 1 => b \in Nat /\ 1..n0 \subseteq 1..b
    BY <2>1
  <2> QED
    BY <1>1, <2>1, <2>2, <2>3, Zenon
<1>10. \A m \in DOMAIN out : out'[m] = out[m]
  BY <1>1, Zenon
<1>11. Grep!BetweenLines'
  <2> SUFFICES ASSUME Grep!WellFormed PROVE Grep!BetweenLines'
    BY <1>4 DEF Grep!BetweenLines
  <2>1. text'[pos'] = Grep!NL
    BY <1>1, <1>5
  <2>2. lineno' = Grep!Cardinality(Grep!Ends')
    <3>1. Grep!Cardinality(Grep!EndsUpTo(e)) = lineno + 1
      BY <1>5, Zenon DEF Grep!NumberAt
    <3> QED
      BY <1>1, <1>5, <1>7, <3>1
  <2> QED
    BY <2>1, <2>2 DEF Grep!BetweenLines
<1>12. Grep!PrintsLines'
  <2> SUFFICES ASSUME Grep!WellFormed PROVE Grep!PrintsLines'
    BY <1>4, Zenon DEF Grep!PrintsLines
  <2>1. ASSUME NEW m \in DOMAIN out'
        PROVE  \E k \in Grep!Ends' : out'[m] = [no |-> Grep!NumberAt(k)', line |-> Grep!LineAt(k)']
    <3>1. CASE m \in DOMAIN out
      <4>1. PICK k \in Grep!Ends : out[m] = [no |-> Grep!NumberAt(k), line |-> Grep!LineAt(k)]
        BY <1>2, <3>1, Zenon DEF Grep!PrintsLines
      <4>2. k \in Grep!Ends'
        BY <1>7
      <4>3. out'[m] = [no |-> Grep!NumberAt(k)', line |-> Grep!LineAt(k)']
        BY <1>4, <1>10, <3>1, <4>1, Zenon
      <4> QED
        BY <4>2, <4>3, Zenon
    <3>2. CASE m \notin DOMAIN out
      <4>1. out'[m] = row
        BY <1>8, <3>2, Zenon
      <4>2. PICK k : k = e
        OBVIOUS
      <4>3. Grep!NumberAt(k)' = lineno + 1 /\ Grep!LineAt(k)' = x
        BY <1>4, <1>5, <4>2, Zenon
      <4>4. row = [no |-> Grep!NumberAt(k)', line |-> Grep!LineAt(k)']
        BY <4>3, Zenon DEF row
      <4>5. k \in Grep!Ends'
        BY <1>7, <4>2
      <4> QED
        BY <4>1, <4>4, <4>5, Zenon
    <3> QED
      BY <3>1, <3>2
  <2>2. ASSUME NEW m \in DOMAIN out', NEW j \in DOMAIN out', m < j PROVE out'[m].no < out'[j].no
    <3>0. m \in Nat /\ j \in Nat
      <4>1. m \in 1..Len(out') /\ j \in 1..Len(out')
        BY <1>1, Zenon
      <4> QED
        BY <1>9, <4>1
    <3>1. m \in DOMAIN out /\ out'[m] = out[m]
      <4>1. ~(m = n0 + 1)
        <5>1. j <= n0 + 1
          BY <1>8, <1>9
        <5> QED
          BY <1>9, <2>2, <3>0, <5>1
      <4> QED
        BY <1>8, <4>1, Zenon
    <3>2. CASE j \in DOMAIN out
      <4>1. out[m].no < out[j].no
        BY <1>2, <2>2, <3>1, <3>2, Zenon DEF Grep!PrintsLines
      <4> QED
        BY <1>10, <3>1, <3>2, <4>1, Zenon
    <3>3. CASE j \notin DOMAIN out
      <4>1. out'[j] = row
        BY <1>8, <3>3, Zenon
      <4>2. out[m].no \in 1..lineno
        BY <1>2, <3>1, Zenon
      <4>3. \A a \in 1..lineno : a < lineno + 1
        BY <1>2
      <4>4. out[m].no < lineno + 1
        BY <4>2, <4>3, Zenon
      <4> QED
        BY <1>6, <3>1, <4>1, <4>4, Zenon
    <3> QED
      BY <3>2, <3>3
  <2> QED
    BY <2>1, <2>2, Zenon DEF Grep!PrintsLines
<1>13. Grep!WellFormed =>
         Grep!LinesFound' = IF Grep!HasPattern(x) THEN Grep!LinesFound \cup {e} ELSE Grep!LinesFound
  <2> SUFFICES ASSUME Grep!WellFormed
               PROVE  Grep!LinesFound' = IF Grep!HasPattern(x) THEN Grep!LinesFound \cup {e} ELSE Grep!LinesFound
    OBVIOUS
  <2>1. \A k : Grep!HasPattern(Grep!LineAt(k))' <=> Grep!HasPattern(Grep!LineAt(k))
    <3> TAKE k
    <3>1. Grep!LineAt(k)' = Grep!LineAt(k)
      BY <1>4, Zenon
    <3> QED
      BY <1>1, <3>1 DEF Grep!HasPattern, Grep!SameChar
  <2>2. \A k : k \in Grep!LinesFound' <=> k \in Grep!Ends' /\ Grep!HasPattern(Grep!LineAt(k))
    BY <2>1 DEF Grep!LinesFound
  <2>3. \A k : k \in Grep!LinesFound <=> k \in Grep!Ends /\ Grep!HasPattern(Grep!LineAt(k))
    BY DEF Grep!LinesFound
  <2>4. Grep!HasPattern(Grep!LineAt(e)) <=> Grep!HasPattern(x)
    BY <1>5, Zenon
  <2>5. \A k : k \in Grep!LinesFound' <=> k \in Grep!LinesFound \/ (k = e /\ Grep!HasPattern(x))
    BY <1>5, <1>7, <2>2, <2>3, <2>4
  <2> QED
    BY <2>5
<1>14. Grep!FindsAll'
  <2> SUFFICES ASSUME Grep!WellFormed, ~Grep!EmptyFixed PROVE Grep!FindsAll'
    BY <1>1, <1>4, Zenon DEF Grep!FindsAll, Grep!EmptyFixed
  <2>0. /\ ~just_count => \A k \in Grep!LinesFound : \E m \in DOMAIN out : out[m].no = Grep!NumberAt(k)
        /\ count >= C(Grep!LinesFound)
    BY <1>2, Zenon DEF Grep!FindsAll, C
  <2>1. ASSUME ~just_count, NEW k \in Grep!LinesFound'
        PROVE  \E m \in DOMAIN out' : out'[m].no = Grep!NumberAt(k)'
    <3>1. CASE k \in Grep!LinesFound
      <4>1. PICK m \in DOMAIN out : out[m].no = Grep!NumberAt(k)
        BY <2>0, <2>1, <3>1, Zenon
      <4>2. m \in DOMAIN out' /\ out'[m].no = Grep!NumberAt(k)'
        BY <1>4, <1>9, <1>10, <4>1, Zenon
      <4> QED
        BY <4>2, Zenon
    <3>2. CASE k \notin Grep!LinesFound
      <4>1. k = e /\ Grep!HasPattern(x)
        BY <1>13, <3>2, <2>1
      <4>2. out'[n0 + 1] = row /\ Len(out') = n0 + 1
        BY <1>1, <1>3, <2>1, <4>1, Zenon DEF n0
      <4>3. n0 + 1 \in DOMAIN out'
        BY <1>1, <1>9, <4>2
      <4>4. Grep!NumberAt(k)' = lineno + 1
        BY <1>4, <1>5, <4>1, Zenon
      <4>5. out'[n0 + 1].no = Grep!NumberAt(k)'
        BY <1>6, <4>2, <4>4, Zenon
      <4> QED
        BY <4>3, <4>5, Zenon
    <3> QED
      BY <3>1, <3>2
  <2>2. count' >= C(Grep!LinesFound')
    <3>1. IsFiniteSet(Grep!LinesFound) /\ Cardinality(Grep!LinesFound) \in Nat /\ e \notin Grep!LinesFound
      <4>1. IsFiniteSet(Grep!Ends) /\ Grep!LinesFound \subseteq Grep!Ends
        BY <1>2, GrepEnds DEF Grep!LinesFound, Grep!Ends
      <4> QED
        BY <1>5, <4>1, FS_Subset, FS_CardinalityType
    <3>2. Cardinality(Grep!LinesFound \cup {e}) = Cardinality(Grep!LinesFound) + 1
      BY <3>1, FS_AddElement
    <3>3. count >= Cardinality(Grep!LinesFound)
      BY <2>0, GrepCardinality DEF C
    <3>4. CASE Grep!HasPattern(x)
      <4>1. count' = count + 1 /\ Grep!LinesFound' = Grep!LinesFound \cup {e}
        BY <1>1, <1>3, <1>13, <3>4, Zenon
      <4>2. count' >= Cardinality(Grep!LinesFound')
        BY <1>2, <3>1, <3>2, <3>3, <4>1
      <4> QED
        BY <4>2, GrepCardinality DEF C
    <3>5. CASE ~Grep!HasPattern(x)
      <4>1. (count' = count \/ count' = count + 1) /\ Grep!LinesFound' = Grep!LinesFound
        BY <1>1, <1>13, <3>5, Zenon
      <4>2. count' >= Cardinality(Grep!LinesFound')
        BY <1>2, <3>1, <3>3, <4>1
      <4> QED
        BY <4>2, GrepCardinality DEF C
    <3> QED
      BY <3>4, <3>5
  <2> QED
    BY <1>1, <2>1, <2>2, Zenon DEF Grep!FindsAll, C
<1>15. Grep!RegexFindsOnly'
  <2>1. ASSUME ~fixed_mode, NEW m \in DOMAIN out' PROVE Grep!HasPattern(out'[m].line)
    <3>1. CASE m \in DOMAIN out
      BY <1>2, <1>10, <2>1, <3>1, Zenon DEF Grep!RegexFindsOnly
    <3>2. CASE m \notin DOMAIN out
      <4>1. out'[m] = row /\ Grep!Matches(x)
        BY <1>8, <3>2, Zenon
      <4>2. Grep!HasPattern(x)
        BY <2>1, <4>1 DEF Grep!Matches
      <4> QED
        BY <1>6, <4>1, <4>2, Zenon
    <3> QED
      BY <3>1, <3>2
  <2>2. \A q : Grep!HasPattern(q) => Grep!HasPattern(q)'
    BY <1>4, Zenon
  <2>3. ASSUME NEW m \in DOMAIN out', ~fixed_mode' PROVE Grep!HasPattern(out[m].line)'
    <3>1. PICK q : q = out'[m].line
      OBVIOUS
    <3>2. Grep!HasPattern(q)
      BY <1>1, <2>1, <2>3, <3>1
    <3>3. Grep!HasPattern(q)'
      BY <2>2, <3>2, Zenon
    <3> QED
      BY <3>1, <3>3 DEF Grep!HasPattern, Grep!SameChar
  <2> QED
    BY <2>3, Zenon DEF Grep!RegexFindsOnly
<1>16. Grep!FindsNone'
  <2>1. Grep!EmptyFixed => ~Grep!Matches(x)
    BY DEF Grep!EmptyFixed, Grep!Matches, Grep!Tcstrstr
  <2> QED
    BY <1>1, <1>2, <2>1 DEF Grep!FindsNone, Grep!EmptyFixed
<1> QED
  BY <1>1, <1>11, <1>12, <1>14, <1>15, <1>16 DEF Grep!IInv

LEMMA GrepStep == Grep!IInv /\ [Grep!Next]_(Grep!vars) => Grep!IInv'
<1> SUFFICES ASSUME Grep!IInv, [Grep!Next]_(Grep!vars), ~Grep!Turn PROVE Grep!IInv'
  BY GrepTurn
<1>1. /\ UNCHANGED <<text, pattern, fixed_mode, icase, just_count, pos, lineno, count, out>>
      /\ pc' \in {"read", "done"}
  <2>1. CASE Grep!EndOfFile
    BY <2>1 DEF Grep!EndOfFile
  <2>2. CASE UNCHANGED Grep!vars
    BY <2>2 DEF Grep!vars, Grep!IInv, Grep!TypeOK
  <2> QED
    BY <2>1, <2>2 DEF Grep!Next, Grep!Done
<1>2. Grep!TypeOK'
  BY <1>1 DEF Grep!IInv, Grep!TypeOK
<1>3. Grep!BetweenLines'
  BY <1>1 DEF Grep!IInv, Grep!BetweenLines, Grep!WellFormed, Grep!Ends, Grep!EndsUpTo
<1>4. Grep!PrintsLines'
  BY <1>1 DEF Grep!IInv, Grep!PrintsLines, Grep!WellFormed, Grep!Ends, Grep!EndsUpTo, Grep!NumberAt, Grep!LineAt
<1>5. Grep!FindsAll'
  <2>1. Grep!LinesFound' = Grep!LinesFound
    BY <1>1 DEF Grep!LinesFound, Grep!HasPattern, Grep!SameChar, Grep!Ends, Grep!EndsUpTo, Grep!LineAt
  <2>2. /\ \A k : Grep!NumberAt(k)' = Grep!NumberAt(k)
        /\ Grep!WellFormed' <=> Grep!WellFormed
    BY <1>1, GrepStill
  <2> QED
    BY <1>1, <2>1, <2>2, Zenon DEF Grep!IInv, Grep!FindsAll, Grep!EmptyFixed
<1>6. Grep!RegexFindsOnly' /\ Grep!FindsNone'
  BY <1>1 DEF Grep!IInv, Grep!RegexFindsOnly, Grep!FindsNone, Grep!EmptyFixed, Grep!HasPattern, Grep!SameChar
<1> QED
  BY <1>2, <1>3, <1>4, <1>5, <1>6 DEF Grep!IInv

-----------------------------------------------------------------------------
\* cmp

LEMMA CmpCardinality == ASSUME NEW S PROVE Cmp!Cardinality(S) = Cardinality(S)
BY DEF Cmp!Cardinality, Cardinality

LEMMA CmpTypes ==
  ASSUME Cmp!TypeOK
  PROVE  /\ 1 \in Cmp!F /\ 2 \in Cmp!F /\ \A f \in Cmp!F : f = 1 \/ f = 2
         /\ file \in [Cmp!F -> Seq(FileChars)]
         /\ \A f \in Cmp!F : file[f] \in Seq(FileChars) /\ Len(file[f]) \in Nat
         /\ pos \in Nat /\ pos <= Len(file[1]) + 1 /\ byte = pos + 1 /\ line \in 1..byte
         /\ flag_s \in BOOLEAN /\ status \in {"", "success", "failure"}
<1>1. 1 \in Cmp!F /\ 2 \in Cmp!F /\ \A f \in Cmp!F : f = 1 \/ f = 2
  BY DEF Cmp!F
<1>2. file \in [Cmp!F -> Seq(FileChars)]
  BY Zenon DEF Cmp!TypeOK
<1>3. \A f \in Cmp!F : file[f] \in Seq(FileChars) /\ Len(file[f]) \in Nat
  BY <1>2
<1>4. pos \in 0..(Len(file[1]) + 1) /\ byte = pos + 1 /\ line \in 1..byte
  BY Zenon DEF Cmp!TypeOK
<1>5. pos \in Nat /\ pos <= Len(file[1]) + 1
  BY <1>1, <1>3, <1>4
<1>6. flag_s \in BOOLEAN /\ status \in {"", "success", "failure"}
  BY Zenon DEF Cmp!TypeOK
<1> QED
  BY <1>1, <1>2, <1>3, <1>4, <1>5, <1>6

\* What can be read of a file is a beginning of it, up to the error.
LEMMA CmpReadable ==
  ASSUME Cmp!TypeOK, NEW f \in Cmp!F
  PROVE  /\ Cmp!Readable(f) \in Seq(FileChars) /\ Len(Cmp!Readable(f)) \in Nat
         /\ Len(Cmp!Readable(f)) <= Len(file[f]) /\ bad[f] \in Nat
         /\ IF bad[f] \in 1..Len(file[f]) THEN Len(Cmp!Readable(f)) = bad[f] - 1
            ELSE Len(Cmp!Readable(f)) = Len(file[f])
         /\ \A k \in 1..Len(Cmp!Readable(f)) : Cmp!Readable(f)[k] = file[f][k]
<1> DEFINE r == Cmp!Readable(f)
           t == file[f]
           b == bad[f]
<1>1. t \in Seq(FileChars) /\ Len(t) \in Nat
  BY CmpTypes
<1>2. b \in Nat
  <2>1. bad \in [Cmp!F -> 0..FileLen] /\ FileLen \in Nat
    BY CmpAssumed, Zenon DEF Cmp!TypeOK, Cmp!CmpAssumption
  <2> QED
    BY <2>1
<1>3. r = IF b \in 1..Len(t) THEN SubSeq(t, 1, b - 1) ELSE t
  BY DEF Cmp!Readable
<1> HIDE DEF r, t, b
<1>4. CASE b \in 1..Len(t)
  <2>1. r = SubSeq(t, 1, b - 1) /\ b - 1 \in Nat /\ b - 1 <= Len(t)
    BY <1>1, <1>2, <1>3, <1>4
  <2>2. r \in Seq(FileChars) /\ Len(r) = b - 1 /\ \A k \in 1..b - 1 : r[k] = t[k]
    BY <1>1, <2>1
  <2> QED
    BY <1>1, <1>2, <1>4, <2>1, <2>2 DEF r, t, b
<1>5. CASE b \notin 1..Len(t)
  <2>1. r = t
    BY <1>3, <1>5
  <2> QED
    BY <1>1, <1>2, <1>5, <2>1 DEF r, t, b
<1> QED
  BY <1>4, <1>5

\* What getc returns: the next character of what can be read, or the end when
\* there is none left.
LEMMA CmpGetc ==
  ASSUME Cmp!TypeOK, NEW f \in Cmp!F, pos <= Len(Cmp!Readable(f))
  PROVE  /\ Cmp!Getc(f) # Cmp!EOF => pos < Len(Cmp!Readable(f)) /\ Cmp!Getc(f) = file[f][pos + 1]
         /\ pos < Len(Cmp!Readable(f)) => Cmp!Getc(f) = file[f][pos + 1] /\ Cmp!Getc(f) # Cmp!EOF
<1>1. file[f] \in Seq(FileChars) /\ pos \in Nat /\ Cmp!EOF \notin FileChars
  BY CmpAssumed, CmpTypes DEF Cmp!CmpAssumption
<1>2. Len(file[f]) \in Nat
  BY <1>1
<1>3. pos < Len(Cmp!Readable(f)) <=> pos < Len(file[f]) /\ ~Cmp!Fails(f)
  <2> DEFINE n == Len(file[f])
             b == bad[f]
  <2>1. /\ n \in Nat /\ b \in Nat
        /\ IF b \in 1..n THEN Len(Cmp!Readable(f)) = b - 1 ELSE Len(Cmp!Readable(f)) = n
        /\ Cmp!Fails(f) <=> b = pos + 1 /\ pos + 1 <= n
    BY CmpReadable DEF Cmp!Fails
  <2> HIDE DEF n, b
  <2>2. pos < Len(Cmp!Readable(f)) <=> pos < n /\ ~Cmp!Fails(f)
    BY <1>1, <2>1
  <2> QED
    BY <2>2 DEF n
<1>4. pos < Len(file[f]) => file[f][pos + 1] \in FileChars
  BY <1>1, <1>2
<1> QED
  BY <1>1, <1>3, <1>4 DEF Cmp!Getc

\* The newlines before a position, counted one position on.
LEMMA CmpNewlines ==
  ASSUME NEW k \in Nat
  PROVE  /\ Cmp!Cardinality(Cmp!Newlines(k)) \in Nat
         /\ Cmp!Cardinality(Cmp!Newlines(k + 1)) =
              IF file[1][k + 1] = "\n" THEN Cmp!Cardinality(Cmp!Newlines(k)) + 1
              ELSE Cmp!Cardinality(Cmp!Newlines(k))
<1>1. Cmp!Newlines(k) \in SUBSET (1..k) /\ IsFiniteSet(1..k)
  BY FS_Interval DEF Cmp!Newlines
<1>2. IsFiniteSet(Cmp!Newlines(k)) /\ k + 1 \notin Cmp!Newlines(k)
  BY <1>1, FS_Subset
<1>3. Cmp!Newlines(k + 1) =
        IF file[1][k + 1] = "\n" THEN Cmp!Newlines(k) \cup {k + 1} ELSE Cmp!Newlines(k)
  <2>1. 1..(k + 1) = (1..k) \cup {k + 1}
    OBVIOUS
  <2> QED
    BY <2>1 DEF Cmp!Newlines
<1> QED
  BY <1>2, <1>3, FS_AddElement, FS_CardinalityType, CmpCardinality

LEMMA CmpInit == Cmp!Init => Cmp!IInv
<1> SUFFICES ASSUME Cmp!Init PROVE Cmp!IInv
  OBVIOUS
<1> USE CmpAssumed DEF Cmp!CmpAssumption
<1>1. file \in [Cmp!F -> Seq(FileChars)]
  <2>1. \A k \in 0..FileLen : [1..k -> FileChars] \subseteq Seq(FileChars)
    OBVIOUS
  <2>2. UNION {[1..k -> FileChars] : k \in 0..FileLen} \subseteq Seq(FileChars)
    BY <2>1
  <2> QED
    BY <2>2 DEF Cmp!Init
<1>2. \A f \in Cmp!F : Len(file[f]) \in Nat
  BY <1>1
<1>3. Cmp!Cardinality(Cmp!Newlines(0)) = 0
  <2>1. Cmp!Newlines(0) = {}
    BY DEF Cmp!Newlines
  <2> QED
    BY <2>1, FS_EmptySet, CmpCardinality
<1>4. Cmp!TypeOK
  <2>1. 1 \in Cmp!F
    BY DEF Cmp!F
  <2>2. pos = 0 /\ byte = 1 /\ line = 1
    BY DEF Cmp!Init
  <2>3. pos \in 0..(Len(file[1]) + 1) /\ byte = pos + 1 /\ line \in 1..byte
    BY <1>2, <2>1, <2>2
  <2> QED
    BY <1>1, <2>3 DEF Cmp!Init, Cmp!TypeOK
<1>5. Cmp!Agrees
  <2>1. pos = 0 /\ line = 1
    BY DEF Cmp!Init
  <2>2. line = 1 + Cmp!Cardinality(Cmp!Newlines(pos))
    BY <1>3, <2>1
  <2>3. \A f \in Cmp!F : pos <= Len(Cmp!Readable(f))
    BY <1>4, <2>1, CmpReadable
  <2>4. \A k \in 1..pos : FALSE
    BY <2>1
  <2>5. \A k \in 1..pos : file[1][k] = file[2][k]
    BY <2>4
  <2> QED
    BY <2>2, <2>3, <2>5, Zenon DEF Cmp!Agrees
<1>6. Cmp!Told
  BY DEF Cmp!Init, Cmp!Told
<1> QED
  BY <1>4, <1>5, <1>6 DEF Cmp!IInv

\* Two characters that are the same: so are the files up to them.
LEMMA CmpSame == Cmp!IInv /\ Cmp!Same => Cmp!IInv'
<1> SUFFICES ASSUME Cmp!IInv, Cmp!Same PROVE Cmp!IInv'
  OBVIOUS
<1> DEFINE over == \E f \in Cmp!F : Cmp!Getc(f) = Cmp!EOF
<1>1. /\ pos' = pos + 1 /\ byte' = byte + 1 /\ status = "" /\ status' = IF over THEN "success" ELSE ""
      /\ file' = file /\ bad' = bad /\ flag_s' = flag_s /\ report' = report
      /\ Cmp!Getc(1) = Cmp!Getc(2)
      /\ line' = IF Cmp!Getc(1) = "\n" THEN line + 1 ELSE line
  BY DEF Cmp!Same, Cmp!CountByte, Cmp!NextLine, Cmp!Ended, Cmp!Differs
<1>2. Cmp!TypeOK /\ Cmp!Agrees /\ Cmp!Told
  BY DEF Cmp!IInv
<1>3. /\ byte = pos + 1 /\ line \in 1..byte /\ pos \in Nat
      /\ 1 \in Cmp!F /\ 2 \in Cmp!F /\ \A f \in Cmp!F : f = 1 \/ f = 2
      /\ file \in [Cmp!F -> Seq(FileChars)]
  BY <1>2, CmpTypes
<1>4. \A f \in Cmp!F : file[f] \in Seq(FileChars) /\ Len(file[f]) \in Nat
  BY <1>3
<1>5. /\ \A f \in Cmp!F : pos <= Len(Cmp!Readable(f))
      /\ \A k \in 1..pos : file[1][k] = file[2][k]
      /\ line = 1 + Cmp!Cardinality(Cmp!Newlines(pos))
      /\ report = <<>>
  <2>1. status # "success" /\ status # "failure"
    BY <1>1
  <2> QED
    BY <1>2, <2>1, Zenon DEF Cmp!Agrees, Cmp!Told
<1>6. pos + 1 <= Len(file[1]) + 1 /\ pos + 1 \in 0..(Len(file[1]) + 1)
  <2> DEFINE len == Len(file[1])
  <2>0. pos <= Len(Cmp!Readable(1)) /\ Len(Cmp!Readable(1)) <= len /\ Len(Cmp!Readable(1)) \in Nat
    BY <1>2, <1>3, <1>5, CmpReadable
  <2>1. len \in Nat /\ pos <= len
    BY <1>3, <1>4, <2>0
  <2> HIDE DEF len
  <2>2. pos + 1 <= len + 1 /\ pos + 1 \in 0..(len + 1)
    BY <1>3, <2>1
  <2> QED
    BY <2>2 DEF len
<1>7. Cmp!TypeOK'
  <2>1. line \in 1..byte /\ byte \in Int => line \in 1..(byte + 1) /\ line + 1 \in 1..(byte + 1)
    OBVIOUS
  <2>2. line' = line \/ line' = line + 1
    BY <1>1
  <2>3. byte \in Int
    BY <1>3
  <2>4. line' \in 1..byte'
    BY <1>1, <1>3, <2>1, <2>2, <2>3, Zenon
  <2>5. byte' = pos' + 1
    BY <1>1, <1>3
  <2>6. pos' \in 0..(Len(file'[1]) + 1)
    BY <1>1, <1>6
  <2>7. status' \in {"", "success", "failure"}
    BY <1>1
  <2>8. report' = <<>>
    BY <1>1, <1>5
  <2> QED
    BY <1>1, <1>2, <2>4, <2>5, <2>6, <2>7, <2>8, Zenon DEF Cmp!TypeOK
<1>8. ~over => \A f \in Cmp!F : pos < Len(Cmp!Readable(f)) /\ Cmp!Getc(f) = file[f][pos + 1]
  BY <1>2, <1>5, CmpGetc
<1> HIDE DEF over
<1>9. Cmp!Agrees'
  <2> SUFFICES ASSUME ~over PROVE Cmp!Agrees'
    BY <1>1 DEF Cmp!Agrees
  <2>1. \A f \in Cmp!F : pos' <= Len(Cmp!Readable(f)')
    <3>1. \A u, v \in Nat : u < v => u + 1 <= v
      OBVIOUS
    <3>2. \A f \in Cmp!F : pos + 1 <= Len(Cmp!Readable(f))
      BY <1>2, <1>3, <1>8, <3>1, CmpReadable, Zenon
    <3>3. \A f \in Cmp!F : Cmp!Readable(f)' = Cmp!Readable(f)
      BY <1>1 DEF Cmp!Readable
    <3> QED
      BY <1>1, <3>2, <3>3, Zenon
  <2>2. \A k \in 1..pos' : file'[1][k] = file'[2][k]
    <3>1. file[1][pos + 1] = file[2][pos + 1]
      BY <1>1, <1>3, <1>8
    <3>2. \A k \in 1..(pos + 1) : k \in 1..pos \/ k = pos + 1
      BY <1>3
    <3> QED
      BY <1>1, <1>5, <3>1, <3>2, Zenon
  <2>3. line' = 1 + Cmp!Cardinality(Cmp!Newlines(pos'))
    <3>1. line' = IF file[1][pos + 1] = "\n" THEN line + 1 ELSE line
      BY <1>1, <1>3, <1>8
    <3> DEFINE c == Cmp!Cardinality(Cmp!Newlines(pos))
               d == Cmp!Cardinality(Cmp!Newlines(pos + 1))
    <3>2. c \in Nat /\ d = IF file[1][pos + 1] = "\n" THEN c + 1 ELSE c
      BY <1>3, CmpNewlines
    <3>3. line = 1 + c
      BY <1>5
    <3> HIDE DEF c, d
    <3>4. line' = 1 + d
      <4>1. CASE file[1][pos + 1] = "\n"
        <5>1. line' = line + 1 /\ d = c + 1
          BY <3>1, <3>2, <4>1, Zenon
        <5> QED
          BY <3>2, <3>3, <5>1
      <4>2. CASE file[1][pos + 1] # "\n"
        <5>1. line' = line /\ d = c
          BY <3>1, <3>2, <4>2, Zenon
        <5> QED
          BY <3>2, <3>3, <5>1
      <4> QED
        BY <4>1, <4>2
    <3> QED
      BY <1>1, <3>4 DEF d
  <2>4. Cmp!Newlines(pos)' = Cmp!Newlines(pos')
    BY <1>1 DEF Cmp!Newlines
  <2> QED
    BY <2>1, <2>2, <2>3, <2>4, Zenon DEF Cmp!Agrees
<1>10. Cmp!Told'
  <2>1. ASSUME over PROVE Cmp!Readable(1)' = Cmp!Readable(2)'
    <3> DEFINE R(f) == Cmp!Readable(f)
    <3>1. /\ R(1)' = R(1) /\ R(2)' = R(2)
          /\ \A f \in Cmp!F : /\ R(f) \in Seq(FileChars) /\ Len(R(f)) \in Nat
                              /\ \A k \in 1..Len(R(f)) : R(f)[k] = file[f][k]
      BY <1>1, <1>2, CmpReadable DEF Cmp!Readable
    <3>2. Cmp!Getc(1) = Cmp!EOF /\ Cmp!Getc(2) = Cmp!EOF
      BY <1>1, <1>3, <2>1 DEF over
    <3>3. ~(pos < Len(R(1))) /\ ~(pos < Len(R(2)))
      BY <1>2, <1>3, <1>5, <3>2, CmpGetc
    <3> HIDE DEF R
    <3>4. \A u, v \in Nat : u <= v /\ ~(u < v) => v = u
      OBVIOUS
    <3>5. Len(R(1)) = pos /\ Len(R(2)) = pos
      BY <1>3, <1>5, <3>1, <3>3, <3>4, Zenon DEF R
    <3>6. \A k \in 1..pos : R(1)[k] = R(2)[k]
      BY <1>3, <1>5, <3>1, <3>5
    <3>7. R(1) = R(2)
      BY <1>3, <3>1, <3>5, <3>6, SeqEqual
    <3> QED
      BY <3>1, <3>7 DEF R
  <2>2. status' # "failure" /\ (status' = "success" => over) /\ report' = <<>>
    BY <1>1, <1>5
  <2> QED
    BY <1>1, <2>1, <2>2 DEF Cmp!Told
<1> QED
  BY <1>7, <1>9, <1>10 DEF Cmp!IInv

LEMMA CmpStep == Cmp!IInv /\ [Cmp!Next]_(Cmp!vars) => Cmp!IInv'
<1> SUFFICES ASSUME Cmp!IInv, [Cmp!Next]_(Cmp!vars) PROVE Cmp!IInv'
  OBVIOUS
<1>1. CASE Cmp!Differ
  <2>1. /\ status = "" /\ status' = "failure" /\ Cmp!Differs
        /\ report' = IF flag_s THEN <<>> ELSE <<byte, line>>
        /\ file' = file /\ bad' = bad /\ flag_s' = flag_s /\ pos' = pos /\ byte' = byte /\ line' = line
    BY <1>1 DEF Cmp!Differ
  <2>2. Cmp!TypeOK'
    BY <2>1 DEF Cmp!IInv, Cmp!TypeOK
  <2>3. Cmp!Agrees'
    BY <2>1 DEF Cmp!IInv, Cmp!Agrees, Cmp!Newlines, Cmp!Readable
  <2>4. Cmp!Told'
    BY <2>1 DEF Cmp!Told, Cmp!Differs, Cmp!Getc, Cmp!Fails
  <2> QED
    BY <2>2, <2>3, <2>4 DEF Cmp!IInv
<1>2. CASE UNCHANGED Cmp!vars
  BY <1>2 DEF Cmp!vars, Cmp!IInv, Cmp!TypeOK, Cmp!Agrees, Cmp!Newlines, Cmp!Told, Cmp!Differs, Cmp!Getc,
              Cmp!Fails, Cmp!Readable
<1> QED
  BY <1>1, <1>2, CmpSame DEF Cmp!Next, Cmp!Done

\* What the loop has seen when it ends is what is to be told.
LEMMA CmpTells == Cmp!IInv => Cmp!TellsSame /\ Cmp!FirstDifference
<1> SUFFICES ASSUME Cmp!IInv PROVE Cmp!TellsSame /\ Cmp!FirstDifference
  OBVIOUS
<1>0. Cmp!Agrees /\ Cmp!Told /\ Cmp!TypeOK
  BY DEF Cmp!IInv
<1>1. 1 \in Cmp!F /\ 2 \in Cmp!F /\ \A f \in Cmp!F : f = 1 \/ f = 2
  BY <1>0, CmpTypes
<1> DEFINE R(f) == Cmp!Readable(f)
<1>2. /\ byte = pos + 1 /\ pos \in Nat /\ status \in {"", "success", "failure"}
      /\ \A f \in Cmp!F : /\ R(f) \in Seq(FileChars) /\ Len(R(f)) \in Nat
                          /\ \A k \in 1..Len(R(f)) : R(f)[k] = file[f][k]
  BY <1>0, CmpTypes, CmpReadable
<1>3. ASSUME status = "failure"
      PROVE  /\ pos <= Len(R(1)) /\ pos <= Len(R(2))
             /\ pos < Len(R(1)) \/ pos < Len(R(2))
             /\ pos < Len(R(1)) /\ pos < Len(R(2)) => R(1)[pos + 1] # R(2)[pos + 1]
             /\ \A k \in 1..pos : R(1)[k] = R(2)[k]
             /\ line = 1 + Cmp!Cardinality(Cmp!Newlines(pos))
  <2>1. /\ \A f \in Cmp!F : pos <= Len(R(f))
        /\ \A k \in 1..pos : file[1][k] = file[2][k]
        /\ line = 1 + Cmp!Cardinality(Cmp!Newlines(pos))
    BY <1>0, <1>3 DEF Cmp!Agrees
  <2>2. Cmp!Getc(1) # Cmp!Getc(2)
    BY <1>0, <1>3 DEF Cmp!Told, Cmp!Differs
  <2>3. /\ pos < Len(R(1)) \/ pos < Len(R(2))
        /\ pos < Len(R(1)) /\ pos < Len(R(2)) => file[1][pos + 1] # file[2][pos + 1]
    BY <1>0, <1>1, <2>1, <2>2, CmpGetc, Zenon
  <2> DEFINE u == R(1)
             v == R(2)
  <2>4. /\ \A k \in 1..Len(u) : u[k] = file[1][k]
        /\ \A k \in 1..Len(v) : v[k] = file[2][k]
        /\ Len(u) \in Nat /\ Len(v) \in Nat /\ pos <= Len(u) /\ pos <= Len(v) /\ pos \in Nat
        /\ \A k \in 1..pos : file[1][k] = file[2][k]
        /\ pos < Len(u) /\ pos < Len(v) => file[1][pos + 1] # file[2][pos + 1]
    BY <1>1, <1>2, <2>1, <2>3, Zenon
  <2> HIDE DEF u, v
  <2>5. /\ \A k \in 1..pos : u[k] = v[k]
        /\ pos < Len(u) /\ pos < Len(v) => u[pos + 1] # v[pos + 1]
    BY ONLY <2>4
  <2> QED
    BY <1>1, <2>1, <2>3, <2>5, Zenon DEF u, v
<1>4. Cmp!TellsSame
  <2>1. ASSUME status = "success" PROVE R(1) = R(2)
    BY <2>1 DEF Cmp!IInv, Cmp!Told
  <2>2. ASSUME status = "failure" PROVE R(1) # R(2)
    BY <1>3, <2>2
  <2> QED
    BY <1>2, <2>1, <2>2 DEF Cmp!TellsSame
<1> HIDE DEF R
<1>5. Cmp!FirstDifference
  <2> SUFFICES ASSUME report # <<>> PROVE Cmp!FirstDifference
    BY DEF Cmp!FirstDifference
  <2>1. status = "failure" /\ report = <<byte, line>>
    BY DEF Cmp!IInv, Cmp!Told
  <2>2. report[1] = pos + 1 /\ report[2] = line /\ (pos + 1) - 1 = pos
    BY <1>2, <2>1
  <2>3. SubSeq(R(1), 1, pos) = SubSeq(R(2), 1, pos)
    <3>1. \A f \in Cmp!F : /\ Len(SubSeq(R(f), 1, pos)) = pos
                           /\ SubSeq(R(f), 1, pos) \in Seq(FileChars)
                           /\ \A k \in 1..pos : SubSeq(R(f), 1, pos)[k] = R(f)[k]
      BY <1>1, <1>2, <1>3, <2>1 DEF Cmp!F
    <3> QED
      BY <1>1, <1>3, <2>1, <3>1, SeqEqual
  <2>4. \/ \E f \in Cmp!F : Len(R(f)) = pos /\ Len(R(3 - f)) >= pos + 1
        \/ pos + 1 <= Len(R(1)) /\ pos + 1 <= Len(R(2)) /\ R(1)[pos + 1] # R(2)[pos + 1]
    <3>0. \A u, v \in Nat : (u < v => u + 1 <= v) /\ (u <= v => v = u \/ u < v)
      OBVIOUS
    <3>1. CASE pos < Len(R(1)) /\ pos < Len(R(2))
      BY <1>1, <1>2, <1>3, <2>1, <3>0, <3>1, Zenon
    <3>2. CASE Len(R(1)) = pos
      <4>1. Len(R(3 - 1)) >= pos + 1
        <5>1. 3 - 1 = 2
          OBVIOUS
        <5> QED
          BY <1>1, <1>2, <1>3, <2>1, <3>2, <5>1
      <4> QED
        BY <1>1, <3>2, <4>1
    <3>3. CASE Len(R(2)) = pos
      <4>1. Len(R(3 - 2)) >= pos + 1
        <5>1. 3 - 2 = 1
          OBVIOUS
        <5> QED
          BY <1>1, <1>2, <1>3, <2>1, <3>3, <5>1
      <4> QED
        BY <1>1, <3>3, <4>1
    <3> QED
      BY <1>1, <1>2, <1>3, <2>1, <3>0, <3>1, <3>2, <3>3, Zenon
  <2> QED
    BY <1>3, <2>1, <2>2, <2>3, <2>4 DEF Cmp!FirstDifference, R
<1> QED
  BY <1>4, <1>5

-----------------------------------------------------------------------------
\* seq

\* A sum that fits is left as it is.
LEMMA SeqWrap ==
  ASSUME NEW m \in Int
  PROVE  /\ SeqNumbers!Wrap(m) \in SeqNumbers!Values
         /\ m \in SeqNumbers!Values => SeqNumbers!Wrap(m) = m
<1> DEFINE h == LLONG_MAX + 1
           w == 2 * LLONG_MAX + 2
           a == m + h
<1>1. LLONG_MAX \in Nat /\ LLONG_MAX > 0
  BY SeqAssumed DEF SeqNumbers!SeqAssumption
<1>2. h \in Nat /\ w \in Nat /\ w > 0 /\ w = 2 * h /\ a \in Int
  BY <1>1
<1> HIDE DEF h, w, a
<1>3. a % w \in 0..(w - 1) /\ (a \in 0..(w - 1) => a % w = a)
  BY <1>2
<1>4. m = a - h /\ SeqNumbers!Wrap(m) = (a % w) - h
  BY <1>1, <1>2 DEF SeqNumbers!Wrap, h, w, a
<1>5. SeqNumbers!Values = (-h)..(h - 1)
  BY <1>1 DEF SeqNumbers!Values, h
<1> QED
  BY <1>2, <1>3, <1>4, <1>5

LEMMA SeqTypes ==
  ASSUME SeqNumbers!TypeOK
  PROVE  /\ LLONG_MAX \in Nat /\ first \in Int /\ step \in Int /\ last \in Int /\ i \in Int
         /\ first \in SeqNumbers!Values /\ step \in SeqNumbers!Values /\ last \in SeqNumbers!Values
         /\ i \in SeqNumbers!Values /\ printed \in SeqNumbers!Values \cup {SeqNumbers!Nothing}
         /\ SeqNumbers!Nothing \notin SeqNumbers!Values
         /\ \A v \in SeqNumbers!Values : v \in Int /\ v <= LLONG_MAX
<1>1. LLONG_MAX \in Nat
  BY SeqAssumed DEF SeqNumbers!SeqAssumption
<1>2. SeqNumbers!Nothing \notin SeqNumbers!Values /\ \A v \in SeqNumbers!Values : v \in Int /\ v <= LLONG_MAX
  BY <1>1 DEF SeqNumbers!Nothing, SeqNumbers!Values
<1> QED
  BY <1>1, <1>2 DEF SeqNumbers!TypeOK

LEMMA SeqInit == SeqNumbers!Init => SeqNumbers!IInv
BY DEF SeqNumbers!Init, SeqNumbers!IInv, SeqNumbers!TypeOK, SeqNumbers!Started, SeqNumbers!Behind

\* A step of the loop leaves everything in order and prints the next number.
LEMMA SeqTurn ==
  ASSUME SeqNumbers!IInv, SeqNumbers!Turn
  PROVE  SeqNumbers!IInv'
<1>1. /\ pc = "loop" /\ pc' = "loop" /\ i <= last /\ printed' = i /\ i' = SeqNumbers!Wrap(i + step)
      /\ first' = first /\ step' = step /\ last' = last
  BY DEF SeqNumbers!Turn, SeqNumbers!InRange, SeqNumbers!Advance
<1>2. SeqNumbers!TypeOK /\ SeqNumbers!Behind
  BY DEF SeqNumbers!IInv
<1>3. /\ LLONG_MAX \in Nat /\ first \in Int /\ step \in Int /\ last \in Int /\ i \in Int
      /\ i \in SeqNumbers!Values /\ SeqNumbers!Nothing \notin SeqNumbers!Values
  BY <1>2, SeqTypes
<1>4. SeqNumbers!TypeOK'
  <2>1. i' \in SeqNumbers!Values
    BY <1>1, <1>3, SeqWrap
  <2> QED
    BY <1>1, <1>2, <1>3, <2>1 DEF SeqNumbers!TypeOK
<1>5. SeqNumbers!Behind'
  <2> SUFFICES ASSUME SeqNumbers!Fits PROVE SeqNumbers!Behind'
    BY <1>1 DEF SeqNumbers!Behind, SeqNumbers!Fits
  <2>1. first <= last /\ first <= i
    BY <1>1, <1>2 DEF SeqNumbers!Behind
  <2>2. i + step \in SeqNumbers!Values /\ step > 0
    <3>1. step > 0 /\ last + step <= LLONG_MAX /\ i >= -LLONG_MAX - 1
      BY <1>3 DEF SeqNumbers!Fits, SeqNumbers!Values
    <3> QED
      BY <1>1, <1>3, <3>1 DEF SeqNumbers!Values
  <2>3. i' = i + step
    BY <1>1, <1>3, <2>2, SeqWrap
  <2>4. printed' # SeqNumbers!Nothing
    BY <1>1, <1>3
  <2>5. i' = printed' + step' /\ first' <= printed' /\ printed' <= last' /\ first' <= last' /\ first' <= i'
    BY <1>1, <1>3, <2>1, <2>2, <2>3
  <2>6. pc' # "done"
    BY <1>1
  <2> QED
    BY <2>4, <2>5, <2>6, Zenon DEF SeqNumbers!Behind
<1>6. SeqNumbers!Started'
  BY <1>1 DEF SeqNumbers!Started
<1> QED
  BY <1>4, <1>5, <1>6 DEF SeqNumbers!IInv

LEMMA SeqStep == SeqNumbers!IInv /\ [SeqNumbers!Next]_(SeqNumbers!vars) => SeqNumbers!IInv'
<1> SUFFICES ASSUME SeqNumbers!IInv, [SeqNumbers!Next]_(SeqNumbers!vars) PROVE SeqNumbers!IInv'
  OBVIOUS
<1>0. SeqNumbers!TypeOK /\ SeqNumbers!Behind /\ SeqNumbers!Started
  BY DEF SeqNumbers!IInv
<1>1. CASE SeqNumbers!Validate
  <2>1. /\ pc = "validate" /\ pc' = (IF SeqNumbers!Accepts THEN "loop" ELSE "refused")
        /\ first' = first /\ step' = step /\ last' = last /\ i' = i /\ printed' = printed
    BY <1>1 DEF SeqNumbers!Validate
  <2>2. SeqNumbers!TypeOK'
    BY <1>0, <2>1 DEF SeqNumbers!TypeOK
  <2>3. i = first /\ printed = SeqNumbers!Nothing
    BY <1>0, <2>1 DEF SeqNumbers!Started
  <2>4. ASSUME SeqNumbers!Accepts, SeqNumbers!Fits PROVE first <= last
    BY <1>0, <2>4, SeqTypes DEF SeqNumbers!Accepts, SeqNumbers!Fits
  <2>5. SeqNumbers!Behind'
    <3> SUFFICES ASSUME SeqNumbers!Fits, SeqNumbers!Accepts PROVE SeqNumbers!Behind'
      BY <2>1 DEF SeqNumbers!Behind, SeqNumbers!Fits
    <3>1. first' <= last' /\ first' <= i' /\ printed' = SeqNumbers!Nothing /\ i' = first'
      BY <1>0, <2>1, <2>3, <2>4, SeqTypes
    <3>2. pc' # "done"
      BY <2>1
    <3> QED
      BY <3>1, <3>2, Zenon DEF SeqNumbers!Behind
  <2>6. SeqNumbers!Started'
    BY <2>1 DEF SeqNumbers!Started
  <2> QED
    BY <2>2, <2>5, <2>6 DEF SeqNumbers!IInv
<1>2. CASE SeqNumbers!Leaves
  <2>1. /\ pc = "loop" /\ pc' = "done" /\ ~(i <= last)
        /\ first' = first /\ step' = step /\ last' = last /\ i' = i /\ printed' = printed
    BY <1>2 DEF SeqNumbers!Leaves, SeqNumbers!InRange
  <2>2. i > last
    BY <1>0, <2>1, SeqTypes
  <2>3. SeqNumbers!TypeOK' /\ SeqNumbers!Started'
    BY <1>0, <2>1 DEF SeqNumbers!TypeOK, SeqNumbers!Started
  <2>4. SeqNumbers!Behind'
    BY <1>0, <2>1, <2>2 DEF SeqNumbers!Behind, SeqNumbers!Fits
  <2> QED
    BY <2>3, <2>4 DEF SeqNumbers!IInv
<1>3. CASE UNCHANGED SeqNumbers!vars
  BY <1>3 DEF SeqNumbers!vars, SeqNumbers!IInv, SeqNumbers!TypeOK, SeqNumbers!Started, SeqNumbers!Behind,
              SeqNumbers!Fits
<1> QED
  BY <1>1, <1>2, <1>3, SeqTurn DEF SeqNumbers!Next, SeqNumbers!Program, SeqNumbers!Done

\* What a step prints follows what has been printed.
LEMMA SeqInSteps ==
  ASSUME SeqNumbers!IInv, SeqNumbers!Next
  PROVE  SeqNumbers!InSteps
<1>0. SeqNumbers!TypeOK /\ SeqNumbers!Behind /\ SeqNumbers!Started
  BY DEF SeqNumbers!IInv
<1> SUFFICES ASSUME SeqNumbers!Fits PROVE SeqNumbers!InSteps
  BY DEF SeqNumbers!InSteps
<1>1. ASSUME printed' # printed
      PROVE  /\ printed' = IF printed = SeqNumbers!Nothing THEN first ELSE printed + step
             /\ printed' <= last
  <2>1. SeqNumbers!Turn
    BY <1>1 DEF SeqNumbers!Next, SeqNumbers!Program, SeqNumbers!Validate, SeqNumbers!Leaves, SeqNumbers!Done,
                SeqNumbers!vars
  <2>2. pc = "loop" /\ printed' = i /\ i <= last
    BY <2>1 DEF SeqNumbers!Turn, SeqNumbers!InRange
  <2> QED
    BY <1>0, <2>2 DEF SeqNumbers!Behind
<1>2. ASSUME pc' = "done"
      PROVE  first <= printed' /\ printed' <= last /\ printed' + step > last
  <2>1. SeqNumbers!Leaves \/ SeqNumbers!Done
    BY <1>2 DEF SeqNumbers!Next, SeqNumbers!Program, SeqNumbers!Validate, SeqNumbers!Turn
  <2>2. printed' = printed /\ pc \in {"loop", "done"} /\ (i > last \/ ~(i <= last))
    <3>1. CASE SeqNumbers!Leaves
      BY <3>1 DEF SeqNumbers!Leaves, SeqNumbers!InRange
    <3>2. CASE SeqNumbers!Done
      <4>1. printed' = printed /\ pc = "done"
        BY <1>2, <3>2 DEF SeqNumbers!Done, SeqNumbers!vars
      <4> QED
        BY <1>0, <4>1 DEF SeqNumbers!Behind
    <3> QED
      BY <2>1, <3>1, <3>2
  <2>3. first <= last /\ i > last
    BY <1>0, <2>2, SeqTypes DEF SeqNumbers!Behind
  <2>4. printed # SeqNumbers!Nothing
    BY <1>0, <2>2, <2>3, SeqTypes DEF SeqNumbers!Behind
  <2> QED
    BY <1>0, <2>2, <2>3, <2>4 DEF SeqNumbers!Behind
<1> QED
  BY <1>1, <1>2 DEF SeqNumbers!InSteps

-----------------------------------------------------------------------------
\* factor

\* What a division gives, and how a divisor is known.
LEMMA Division ==
  ASSUME NEW a \in Nat, NEW d \in Nat, d > 0
  PROVE  /\ a \div d \in Nat /\ a % d \in Nat /\ a % d < d
         /\ a = d * (a \div d) + (a % d)
  BY SMT

LEMMA Multiple ==
  ASSUME NEW k \in Nat, NEW d \in Nat, d > 0
  PROVE  (d * k) % d = 0
<1>1. (d * k) = d * ((d * k) \div d) + ((d * k) % d) /\ (d * k) % d < d /\ (d * k) % d \in Nat /\ (d * k) \div d \in Nat
  BY Division, d * k \in Nat
<1> DEFINE q == (d * k) \div d
           r == (d * k) % d
<1>2. d * (k - q) = r
  BY <1>1
<1>3. k - q \in Int /\ q \in Nat
  BY <1>1
<1>4. ~(k - q >= 1)
  <2>1. SUFFICES ASSUME k - q >= 1 PROVE FALSE
    OBVIOUS
  <2>2. d * (k - q) >= d
    BY <2>1, <1>3
  <2> QED BY <2>2, <1>2, <1>1
<1>5. ~(k - q <= -1)
  <2>1. SUFFICES ASSUME k - q <= -1 PROVE FALSE
    OBVIOUS
  <2>2. d * (k - q) <= -d
    BY <2>1, <1>3
  <2> QED BY <2>2, <1>2, <1>1
<1> QED BY <1>1, <1>2, <1>3, <1>4, <1>5

LEMMA Associative ==
  ASSUME NEW a \in Nat, NEW b \in Nat, NEW c \in Nat
  PROVE  (a * b) * c = a * (b * c)
OBVIOUS

\* A divisor of a divisor, and one of what is left when one is taken out.
LEMMA Transitive ==
  ASSUME NEW a \in Nat, NEW f \in Nat, NEW d \in Nat, f > 0, d > 0,
         a % f = 0, f % d = 0 \/ (a \div f) % d = 0
  PROVE  a % d = 0
<1>1. a = f * (a \div f) /\ a \div f \in Nat
  BY Division
<1>2. CASE f % d = 0
  <2>1. f = d * (f \div d) /\ f \div d \in Nat
    BY Division, <1>2
  <2>2. a = d * ((f \div d) * (a \div f)) /\ (f \div d) * (a \div f) \in Nat
    BY <1>1, <2>1
  <2> DEFINE k == (f \div d) * (a \div f)
  <2>3. (d * k) % d = 0
    BY <2>2, Multiple
  <2> QED BY <2>2, <2>3
<1>3. CASE (a \div f) % d = 0
  <2>1. (a \div f) = d * ((a \div f) \div d) /\ (a \div f) \div d \in Nat
    BY Division, <1>1, <1>3
  <2>2. a = d * (f * ((a \div f) \div d)) /\ f * ((a \div f) \div d) \in Nat
    BY <1>1, <2>1
  <2> DEFINE k == f * ((a \div f) \div d)
  <2>3. (d * k) % d = 0
    BY <2>2, Multiple
  <2> QED BY <2>2, <2>3
<1> QED BY <1>2, <1>3

LEMMA Quotient ==
  ASSUME NEW a \in Nat, NEW f \in Nat, a > 0, f > 0, a % f = 0
  PROVE  a \div f \in Nat /\ a \div f > 0 /\ f * (a \div f) = a
<1>1. a = f * (a \div f) /\ a \div f \in Nat
  BY Division
<1> QED BY <1>1


LEMMA FactorsInit == Factors!Init => Factors!IInv
BY FactorsAssumed DEF Factors!FactorsAssumption, Factors!Init, Factors!IInv, Factors!TypeOK, Factors!Trying, Factors!LastIsLeast, Factors!Product, Factors!Finished, Factors!AllPrime, Factors!Ascending

\* The least divisor of a number is a prime.
LEMMA LeastIsPrime ==
  ASSUME NEW a \in Nat, NEW f \in Nat, f >= 2, a % f = 0, Factors!NoneBelow(a, f)
  PROVE  Factors!Prime(f)
<1> SUFFICES ASSUME NEW d \in 2..(f - 1), f % d = 0 PROVE FALSE
  BY DEF Factors!Prime
<1>1. d \in Nat /\ d > 0 /\ f > 0
  OBVIOUS
<1>2. a % d = 0
  BY <1>1, Transitive
<1> QED BY <1>2 DEF Factors!NoneBelow

\* A number that has no divisor up to its half has none but itself.
LEMMA HalfIsEnough ==
  ASSUME NEW a \in Nat, a >= 2, \A d \in 2..(a \div 2) : a % d # 0
  PROVE  a % a = 0 /\ Factors!NoneBelow(a, a)
<1>1. a % a = 0
  <2>1. (a * 1) % a = 0
    BY Multiple
  <2> QED BY <2>1
<1>2. ASSUME NEW d \in 2..(a - 1), a % d = 0 PROVE FALSE
  <2>1. a = d * (a \div d) /\ a \div d \in Nat /\ d \in Nat /\ d >= 2 /\ d < a
    BY <1>2, Division
  <2> DEFINE h == a \div 2
  <2>2. h \in Nat /\ ~(d \in 2..h)
    <3>1. h \in Nat
      BY Division
    <3>2. ~(d \in 2..h)
      BY <1>2, Zenon
    <3> QED BY <3>1, <3>2
  <2>3. a = 2 * (a \div 2) + (a % 2) /\ a % 2 < 2 /\ a % 2 \in Nat /\ a \div 2 \in Nat
    BY Division
  <2>4. 2 * d > a
    BY <2>2, <2>3
  <2>5. a \div d # 0 /\ a \div d # 1
    BY <2>1
  <2> DEFINE q == a \div d
  <2>6. q >= 2
    BY <2>1, <2>5
  <2>7. d * q >= d * 2
    BY <2>6, <2>1
  <2> QED BY <2>1, <2>4, <2>7
<1> QED BY <1>1, <1>2 DEF Factors!NoneBelow

\* One more factor, the least of those that are left.
LEMMA FoundKeeps ==
  ASSUME Factors!IInv, ul >= 2, NEW f \in Nat, f >= 2, ul % f = 0, Factors!NoneBelow(ul, f),
         Factors!Found(f), number' = number
  PROVE  Factors!IInv'
<1> DEFINE q == ul \div f
<1> USE DEF Factors!Found
<1>0. ul \in Nat /\ ul > 0 /\ f > 0 /\ product \in Nat
  BY DEF Factors!IInv, Factors!TypeOK
<1>1. q \in Nat /\ q > 0 /\ f * q = ul
  BY <1>0, Quotient
<1>2. Factors!TypeOK'
  BY <1>1 DEF Factors!IInv, Factors!TypeOK
<1>3. Factors!Trying' /\ Factors!Finished'
  BY DEF Factors!Trying, Factors!Finished
<1>4. out' \in Seq(Nat) /\ Len(out') = Len(out) + 1 /\ out'[Len(out')] = f
      /\ \A k \in 1..Len(out) : out'[k] = out[k]
  BY DEF Factors!IInv, Factors!TypeOK
<1>5. Factors!LastIsLeast'
  <2>1. \A d \in 2..(f - 1) : ul' % d # 0
    <3> SUFFICES ASSUME NEW d \in 2..(f - 1), q % d = 0 PROVE FALSE
      OBVIOUS
    <3>0. d \in Nat /\ d > 0
      OBVIOUS
    <3>1. ul % d = 0
      BY <1>0, <3>0, Transitive
    <3> QED BY <3>1 DEF Factors!NoneBelow
  <2> QED BY <1>1, <1>4, <2>1 DEF Factors!LastIsLeast, Factors!NoneBelow
<1>6. Factors!Product'
  <2>1. product' * ul' = (product * f) * q
    OBVIOUS
  <2>2. (product * f) * q = product * (f * q)
    BY <1>0, <1>1, Associative
  <2>3. number # 0
    BY DEF Factors!IInv, Factors!Product
  <2> QED BY <1>1, <2>1, <2>2, <2>3 DEF Factors!IInv, Factors!Product
<1>7. Factors!AllPrime'
  <2>1. Factors!Prime(f)
    BY LeastIsPrime DEF Factors!IInv, Factors!TypeOK
  <2> SUFFICES ASSUME NEW k \in 1..Len(out') PROVE Factors!Prime(out'[k])
    BY DEF Factors!AllPrime, Factors!Prime
  <2> QED BY <1>4, <2>1 DEF Factors!IInv, Factors!TypeOK, Factors!AllPrime
<1>8. Factors!Ascending'
  <2>1. out # <<>> => out[Len(out)] <= f
    BY DEF Factors!IInv, Factors!TypeOK, Factors!LastIsLeast, Factors!NoneBelow
  <2> SUFFICES ASSUME NEW k \in 1..(Len(out') - 1) PROVE out'[k] <= out'[k + 1]
    BY DEF Factors!Ascending
  <2>2. CASE k < Len(out)
    BY <1>4, <2>2 DEF Factors!IInv, Factors!TypeOK, Factors!Ascending
  <2>3. CASE k = Len(out)
    BY <1>4, <2>1, <2>3 DEF Factors!IInv, Factors!TypeOK
  <2> QED BY <1>4, <2>2, <2>3 DEF Factors!IInv, Factors!TypeOK
<1> QED BY <1>2, <1>3, <1>5, <1>6, <1>7, <1>8 DEF Factors!IInv

\* What is found divides what is left, and nothing smaller does.
LEMMA FactorsStep == Factors!IInv /\ [Factors!Next]_(Factors!vars) => Factors!IInv'
<1> SUFFICES ASSUME Factors!IInv, [Factors!Next]_(Factors!vars) PROVE Factors!IInv'
  OBVIOUS
<1> USE DEF Factors!IInv, Factors!TypeOK
<1>1. CASE Factors!Less
  BY <1>1 DEF Factors!Less, Factors!Trying, Factors!LastIsLeast, Factors!Product, Factors!Finished, Factors!AllPrime, Factors!Ascending, Factors!Prime
<1>2. CASE Factors!Even
  <2>1. Factors!NoneBelow(ul, 2)
    BY DEF Factors!NoneBelow
  <2> QED BY <1>2, <2>1, FoundKeeps DEF Factors!Even
<1>3. CASE Factors!Odd
  <2>1. ul' >= 2 /\ i' = 2
    BY <1>3 DEF Factors!Odd
  <2>2. \A d : ~(d \in 2..(i' - 1))
    BY <2>1
  <2>3. Factors!NoneBelow(ul, i)'
    BY <2>2, Zenon DEF Factors!NoneBelow
  <2>4. Factors!Trying'
    <3>1. ul' >= 2 /\ i' >= 2
      BY <2>1
    <3> QED BY <3>1, <2>3, Zenon DEF Factors!Trying
  <2> QED BY <1>3, <2>4 DEF Factors!Odd, Factors!LastIsLeast, Factors!NoneBelow, Factors!Product, Factors!Finished, Factors!AllPrime, Factors!Ascending, Factors!Prime
<1>4. CASE Factors!Divides
  BY <1>4, FoundKeeps DEF Factors!Divides, Factors!Trying
<1>5. CASE Factors!DoesNot
  <2>0. pc = "try" /\ ul % i # 0 /\ i' = i + 1 /\ ul' = ul
    BY <1>5 DEF Factors!DoesNot
  <2>1. Factors!Trying'
    <3>1. ul >= 2 /\ i >= 2 /\ Factors!NoneBelow(ul, i)
      BY <2>0 DEF Factors!Trying
    <3>2. \A d \in 2..(i' - 1) : d \in 2..(i - 1) \/ d = i
      BY <2>0
    <3>3. \A d \in 2..(i' - 1) : ul % d # 0
      BY <2>0, <3>1, <3>2, Zenon DEF Factors!NoneBelow
    <3>4. Factors!NoneBelow(ul, i)'
      BY <2>0, <3>3, Zenon DEF Factors!NoneBelow
    <3>5. ul' >= 2 /\ i' >= 2
      BY <2>0, <3>1
    <3> QED BY <3>4, <3>5, Zenon DEF Factors!Trying
  <2> QED BY <1>5, <2>1 DEF Factors!DoesNot, Factors!LastIsLeast, Factors!NoneBelow, Factors!Product, Factors!Finished, Factors!AllPrime, Factors!Ascending, Factors!Prime
<1>6. CASE Factors!IsPrime
  <2>1. ul >= 2 /\ i > ul \div 2 /\ Factors!NoneBelow(ul, i) /\ ul \div 2 \in Nat
    BY <1>6, Division DEF Factors!IsPrime, Factors!Half, Factors!Trying
  <2> DEFINE h == ul \div 2
  <2>2. \A d \in 2..h : ul % d # 0
    <3>1. h \in Nat /\ i > h
      BY <2>1
    <3> HIDE DEF h
    <3>2. \A d \in 2..h : d \in 2..(i - 1)
      BY <3>1
    <3> QED BY <2>1, <3>2 DEF Factors!NoneBelow
  <2>3. ul % ul = 0 /\ Factors!NoneBelow(ul, ul)
    BY <2>1, <2>2, HalfIsEnough
  <2> QED BY <1>6, <2>1, <2>3, FoundKeeps DEF Factors!IsPrime
<1>7. CASE UNCHANGED Factors!vars
  <2>1. number' = number /\ ul' = ul /\ i' = i /\ out' = out /\ product' = product /\ pc' = pc
    BY <1>7 DEF Factors!vars
  <2>2. Factors!TypeOK' /\ Factors!Finished' /\ Factors!Product'
    BY <2>1 DEF Factors!Finished, Factors!Product
  <2>3. Factors!Trying' /\ Factors!LastIsLeast'
    BY <2>1 DEF Factors!Trying, Factors!NoneBelow, Factors!LastIsLeast
  <2>4. Factors!AllPrime' /\ Factors!Ascending'
    BY <2>1 DEF Factors!AllPrime, Factors!Ascending, Factors!Prime
  <2> QED BY <2>2, <2>3, <2>4
<1> HIDE DEF Factors!IInv, Factors!TypeOK
<1> QED BY <1>1, <1>2, <1>3, <1>4, <1>5, <1>6, <1>7 DEF Factors!Next, Factors!Program, Factors!Done

\* When no number is left to be divided, one is, or zero was given.
LEMMA FactorsRight == Factors!IInv => Factors!ProductKept /\ Factors!AllPrime /\ Factors!Ascending
<1> SUFFICES ASSUME Factors!IInv PROVE Factors!ProductKept /\ Factors!AllPrime /\ Factors!Ascending
  OBVIOUS
<1>1. ul < 2 => ul = IF number = 0 THEN 0 ELSE 1
  BY DEF Factors!IInv, Factors!TypeOK, Factors!Product
<1> QED
  BY <1>1 DEF Factors!IInv, Factors!Product, Factors!Finished, Factors!ProductKept

-----------------------------------------------------------------------------
\* What is true of each of the programs while it runs.
TextsInv ==
  /\ program = "spell" => Spell!IInv
  /\ program = "grep" => Grep!IInv
  /\ program = "cmp" => Cmp!IInv
  /\ program = "seq" => SeqNumbers!IInv
  /\ program = "factor" => Factors!IInv

LEMMA TextsInit == Init => TextsInv
<1> SUFFICES ASSUME Init PROVE TextsInv
  OBVIOUS
<1>1. /\ program \in {"spell", "grep", "cmp", "seq", "factor"}
      /\ program = "spell" => Spell!Init
      /\ program = "grep" => Grep!Init
      /\ program = "cmp" => Cmp!Init
      /\ program = "seq" => SeqNumbers!Init
      /\ program = "factor" => Factors!Init
  BY DEF Init
<1> QED
  BY <1>1, SpellInit, GrepInit, CmpInit, SeqInit, FactorsInit DEF TextsInv

\* The program does not change, and a step is one of it or leaves it alone.
LEMMA TextsStep ==
  ASSUME [Next]_vars
  PROVE  /\ program' = program
         /\ program = "spell" => Spell!Next \/ UNCHANGED <<spellVars, pc, out>>
         /\ program = "grep" => [Grep!Next]_(Grep!vars)
         /\ program = "cmp" => [Cmp!Next]_(Cmp!vars)
         /\ program = "seq" => [SeqNumbers!Next]_(SeqNumbers!vars)
         /\ program = "factor" => [Factors!Next]_(Factors!vars)
<1>1. CASE UNCHANGED vars
  BY <1>1 DEF vars, spellVars, grepVars, cmpVars, seqVars, factorVars,
     Grep!vars, Cmp!vars, SeqNumbers!vars, Factors!vars
<1>2. CASE Next
  BY <1>2 DEF Next, OnlySpell, OnlyGrep, OnlyCmp, OnlySeq, OnlyFactor
<1> QED
  BY <1>1, <1>2

LEMMA TextsNext == TextsInv /\ [Next]_vars => TextsInv'
<1> SUFFICES ASSUME TextsInv, [Next]_vars PROVE TextsInv'
  OBVIOUS
<1>1. program' = program
  BY TextsStep
<1>2. program = "spell" => Spell!IInv'
  BY TextsStep, SpellStep, SpellUnchanged DEF TextsInv
<1>3. program = "grep" => Grep!IInv'
  BY TextsStep, GrepStep DEF TextsInv
<1>4. program = "cmp" => Cmp!IInv'
  BY TextsStep, CmpStep DEF TextsInv
<1>5. program = "seq" => SeqNumbers!IInv'
  BY TextsStep, SeqStep DEF TextsInv
<1>6. program = "factor" => Factors!IInv'
  BY TextsStep, FactorsStep DEF TextsInv
<1> QED
  BY <1>1, <1>2, <1>3, <1>4, <1>5, <1>6 DEF TextsInv

\* The invariants of all five programs.
THEOREM TextsInvariant == Spec => []TextsInv
BY TextsInit, TextsNext, PTL DEF Spec

\* spell.c, grep.c, cmp.c and the others: the cells stay a trie, every word
\* reported has a line, and no counter leaves what it counts.
THEOREM TextsTypeCorrect == Spec => []TypeOK
<1>1. TextsInv => TypeOK
  BY DEF TextsInv, TypeOK, Spell!IInv, Grep!IInv, Cmp!IInv, SeqNumbers!IInv, Factors!IInv
<1> QED
  BY <1>1, TextsInvariant, PTL

\* spell.c: although the pointer moves by the length of a word and not to its
\* end, no word that no dictionary has is passed over; and between single
\* blanks what is reported are words.
THEOREM MisspeltWordsFound == Spec => []MisspeltFound
<1>1. ASSUME Spell!IInv
      PROVE  \E known \in Spell!Known : Spell!MissesNothing(known) /\ Spell!AccusesWords(known)
  <2>1. /\ Spell!MissesNothing(terminal) /\ Spell!AccusesWords(terminal) /\ Spell!Learnt
        /\ Dictionary \in Spell!Known
    BY <1>1 DEF Spell!IInv, Spell!Known
  <2>2. CASE pc = "load"
    <3>1. DOMAIN lines = {}
      BY <2>1, <2>2 DEF Spell!Learnt
    <3>2. Spell!MissesNothing(Dictionary) /\ Spell!AccusesWords(Dictionary)
      BY <3>1 DEF Spell!MissesNothing, Spell!AccusesWords, Spell!Searched
    <3> QED
      BY <2>1, <3>2
  <2>3. CASE pc # "load"
    <3>1. terminal \in Spell!Known
      BY <2>1, <2>3 DEF Spell!Learnt
    <3> QED
      BY <2>1, <3>1
  <2> QED
    BY <2>2, <2>3
<1>2. TextsInv => MisspeltFound
  BY <1>1 DEF TextsInv, MisspeltFound
<1> QED
  BY <1>2, TextsInvariant, PTL

\* grep.c: of a text whose lines fit into the buffer, every line with the
\* pattern is printed, whole and with its number; by a regular expression no
\* other.
THEOREM MatchingLinesFound == Spec => []MatchesFound
<1>1. TextsInv => MatchesFound
  BY DEF TextsInv, MatchesFound, Grep!IInv
<1> QED
  BY <1>1, TextsInvariant, PTL

\* cmp.c: the exit status tells whether the files are the same, and the first
\* difference is the one reported, with its byte and its line.
THEOREM FirstDifferenceTold == Spec => []DifferenceFound
<1>1. TextsInv => DifferenceFound
  BY CmpTells DEF TextsInv, DifferenceFound
<1> QED
  BY <1>1, TextsInvariant, PTL

\* seq.c: whatever is the width of the integers, where the numbers fit they are
\* printed from FIRST to LAST in steps. factor.c: what is printed are the prime
\* factors of the number, in ascending order.
THEOREM NumbersPrintedInSteps == Spec => NumbersInSteps
<1>1. TextsInv => (program = "factor" => Factors!ProductKept /\ Factors!AllPrime /\ Factors!Ascending)
  BY FactorsRight DEF TextsInv
<1>2. ASSUME TextsInv, [Next]_vars PROVE [program = "seq" => SeqNumbers!InSteps]_vars
  <2>1. CASE UNCHANGED vars
    BY <2>1
  <2>2. CASE Next
    <3>1. program = "seq" => SeqNumbers!Next /\ SeqNumbers!IInv
      BY <1>2, <2>2 DEF Next, OnlySpell, OnlyGrep, OnlyCmp, OnlySeq, OnlyFactor, TextsInv
    <3> QED
      BY <3>1, SeqInSteps
  <2> QED
    BY <1>2, <2>1, <2>2
<1> QED
  BY <1>1, <1>2, TextsInvariant, PTL DEF Spec, NumbersInSteps
=============================================================================
