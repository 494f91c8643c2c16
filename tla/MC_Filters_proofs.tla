-------------------------- MODULE MC_Filters_proofs --------------------------
(***************************************************************************)
(* Proofs about the programs that filter a text, program by program and    *)
(* then of all: for texts, lines, files and messages of any length, any    *)
(* tab stops, widths and sizes of buffers, and any options.                *)
(***************************************************************************)
EXTENDS MC_Filters

-----------------------------------------------------------------------------
(* expand, unexpand, fold, makewords, wc, ts, unix2dos, rev *)

LEMMA CharSizes ==
  /\ MaxLen \in Nat /\ Width \in Nat \ {0}
  /\ TABSTOP \in Nat \ {0} /\ TAB_WIDTH \in Nat \ {0} /\ WordSize \in Nat \ {0, 1}
  /\ Alphabet \subseteq Characters!Chars /\ Characters!STAMP \notin Alphabet
  /\ {"SP", "\t", "\n", "\r", "NUL", "EOF", Characters!STAMP} \subseteq Characters!Chars
<1>1. MaxLen \in Nat /\ Width \in Nat \ {0} /\ Characters!STAMP \notin Alphabet
  BY CharactersAssumed DEF Characters!FilterAssumption
<1>2. TABSTOP \in Nat \ {0} /\ TAB_WIDTH \in Nat \ {0} /\ WordSize \in Nat \ {0, 1}
  BY CharactersAssumed DEF Characters!FilterAssumption
<1>3. Alphabet \subseteq Characters!Chars /\ {"SP", "\t", "\n", "\r", "NUL", "EOF", Characters!STAMP} \subseteq Characters!Chars
  BY DEF Characters!Chars
<1> QED
  BY <1>1, <1>2, <1>3

LEMMA OneMoreIn ==
  ASSUME NEW X, NEW s, NEW c, s \in Seq(X), c \in X
  PROVE  Characters!ToSet(Append(s, c)) = Characters!ToSet(s) \cup {c}
<1> DEFINE u == Append(s, c)
           m == Len(s)
<1>1. /\ DOMAIN s = 1..m /\ DOMAIN u = 1..(m + 1) /\ m \in Nat
      /\ (\A k \in 1..m : u[k] = s[k]) /\ u[m + 1] = c
  BY OneMore
<1> HIDE DEF u, m
<1>2. Characters!ToSet(u) = Characters!ToSet(s) \cup {c}
  BY <1>1 DEF Characters!ToSet
<1> QED
  BY <1>2 DEF u

LEMMA Repeated ==
  ASSUME NEW X, NEW c \in X, NEW k \in Nat
  PROVE  /\ Characters!Times(c, k) \in Seq(X) /\ Characters!Times(c, 0) = <<>>
         /\ Characters!Times(c, k + 1) = Append(Characters!Times(c, k), c)
BY DEF Characters!Times

LEMMA OneMoreBehind ==
  ASSUME NEW X, NEW s, NEW t, NEW c, s \in Seq(X), t \in Seq(X), c \in X
  PROVE  s \o Append(t, c) = Append(s \o t, c) /\ s \o t \in Seq(X) /\ s \o <<>> = s
OBVIOUS

LEMMA CursorSteps ==
  ASSUME NEW d \in Nat \ {0}
  PROVE  /\ Characters!Steps(Characters!Cursor(d), Nat \X Nat, Characters!Chars)
         /\ \A q \in Nat \X Nat :
              /\ Characters!After(Characters!Cursor(d), q, "\n") = <<q[1] + 1, 0>>
              /\ Characters!After(Characters!Cursor(d), q, "\t") = <<q[1], (q[2] \div d + 1) * d>>
              /\ \A c \in Characters!Chars \ {"\n", "\t"} : Characters!After(Characters!Cursor(d), q, c) = <<q[1], q[2] + 1>>
<1>1. ASSUME NEW q \in Nat \X Nat, NEW c \in Characters!Chars
      PROVE  Characters!After(Characters!Cursor(d), q, c) = CASE c = "\n" -> <<q[1] + 1, 0>>
                                            [] c = "\t" -> <<q[1], (q[2] \div d + 1) * d>>
                                            [] OTHER -> <<q[1], q[2] + 1>>
  BY DEF Characters!After, Characters!Cursor
<1>2. ASSUME NEW q \in Nat \X Nat PROVE (q[2] \div d + 1) * d \in Nat
  <2> DEFINE e == q[2] \div d
  <2>1. q[2] \in Nat
    OBVIOUS
  <2>2. e \in Nat
    BY <2>1, Divided
  <2> HIDE DEF e
  <2> QED
    BY <2>2
<1>3. ASSUME NEW q \in Nat \X Nat, NEW c \in Characters!Chars PROVE Characters!After(Characters!Cursor(d), q, c) \in Nat \X Nat
  <2> DEFINE e == (q[2] \div d + 1) * d
  <2>1. e \in Nat
    BY <1>2
  <2>2. Characters!After(Characters!Cursor(d), q, c) = CASE c = "\n" -> <<q[1] + 1, 0>>
                                       [] c = "\t" -> <<q[1], e>>
                                       [] OTHER -> <<q[1], q[2] + 1>>
    BY <1>1
  <2> HIDE DEF e
  <2> QED
    BY <2>1, <2>2
<1>4. Characters!Steps(Characters!Cursor(d), Nat \X Nat, Characters!Chars)
  BY <1>3 DEF Characters!Steps
<1>5. {"\n", "\t"} \subseteq Characters!Chars
  BY CharSizes
<1>6. ASSUME NEW q \in Nat \X Nat
      PROVE  /\ Characters!After(Characters!Cursor(d), q, "\n") = <<q[1] + 1, 0>>
             /\ Characters!After(Characters!Cursor(d), q, "\t") = <<q[1], (q[2] \div d + 1) * d>>
             /\ \A c \in Characters!Chars \ {"\n", "\t"} : Characters!After(Characters!Cursor(d), q, c) = <<q[1], q[2] + 1>>
  <2>1. Characters!After(Characters!Cursor(d), q, "\n") = <<q[1] + 1, 0>>
    BY <1>1, <1>5
  <2>2. Characters!After(Characters!Cursor(d), q, "\t") = <<q[1], (q[2] \div d + 1) * d>>
    BY <1>1, <1>5
  <2>3. ASSUME NEW c \in Characters!Chars \ {"\n", "\t"} PROVE Characters!After(Characters!Cursor(d), q, c) = <<q[1], q[2] + 1>>
    BY <1>1
  <2> QED
    BY <2>1, <2>2, <2>3
<1> QED
  BY <1>4, <1>6

\* The cursor behind the text, and what one character more shows.
CursorAfter(s, d) == Characters!Folded(Characters!Cursor(d), <<0, 0>>, s)

LEMMA CursorType ==
  ASSUME NEW d \in Nat \ {0}, NEW s, s \in Seq(Characters!Chars)
  PROVE  CursorAfter(s, d) \in Nat \X Nat
<1> DEFINE F == Characters!Cursor(d)
           S == Nat \X Nat
           base == <<0, 0>>
<1>1. Characters!Steps(F, S, Characters!Chars) /\ base \in S
  BY CursorSteps
<1> HIDE DEF F, S, base
<1>2. Characters!Folded(F, base, s) \in S
  BY <1>1, Characters!FoldedType
<1> QED
  BY <1>2 DEF CursorAfter, F, S, base

LEMMA CursorMoves ==
  ASSUME NEW d \in Nat \ {0}, NEW s, NEW c, s \in Seq(Characters!Chars), c \in Characters!Chars
  PROVE  CursorAfter(Append(s, c), d) = Characters!After(Characters!Cursor(d), CursorAfter(s, d), c)
<1> DEFINE F == Characters!Cursor(d)
           S == Nat \X Nat
           base == <<0, 0>>
<1>1. Characters!Steps(F, S, Characters!Chars) /\ base \in S
  BY CursorSteps
<1> HIDE DEF F, S, base
<1>2. Characters!Folded(F, base, Append(s, c)) = Characters!After(F, Characters!Folded(F, base, s), c)
  BY <1>1, Characters!FoldedAppend
<1> QED
  BY <1>2 DEF CursorAfter, F, base

Invisible == {"SP", "\t", "\n"}

LEMMA ScreenGrows ==
  ASSUME NEW d \in Nat \ {0}, NEW s, NEW c, s \in Seq(Characters!Chars), c \in Characters!Chars
  PROVE  Characters!Screen(Append(s, c), d) =
           Characters!Screen(s, d) \cup IF c \in Invisible THEN {} ELSE {<<CursorAfter(s, d), c>>}
<1> DEFINE F == Characters!Cursor(d)
           S == Nat \X Nat
           base == <<0, 0>>
           u == Append(s, c)
           f == Characters!Running(F, base, s)
           g == Characters!Running(F, base, u)
           m == Len(s)
<1>1. Characters!Steps(F, S, Characters!Chars) /\ base \in S
  BY CursorSteps
<1>2. CursorAfter(s, d) = f[m]
  BY DEF CursorAfter, Characters!Folded
<1>3. Characters!Screen(s, d) = {<<f[k - 1], s[k]>> : k \in {j_ \in DOMAIN s : s[j_] \notin Invisible}}
  BY DEF Characters!Screen, Invisible
<1>4. Characters!Screen(u, d) = {<<g[k - 1], u[k]>> : k \in {j_ \in DOMAIN u : u[j_] \notin Invisible}}
  BY DEF Characters!Screen, Invisible
<1>5. \A k \in 0..m : g[k] = f[k]
  <2> HIDE DEF F, S, base
  <2> QED
    BY <1>1, Characters!RunningAppend
<1>6. /\ m \in Nat /\ u[m + 1] = c /\ \A k \in 1..m : u[k] = s[k]
      /\ DOMAIN s = 1..m /\ DOMAIN u = 1..(m + 1)
  BY OneMore
<1> HIDE DEF F, S, base, u, f, g, m
<1>7. ASSUME NEW e, e \in Characters!Screen(s, d) PROVE e \in Characters!Screen(u, d)
  <2>1. PICK k \in 1..m : s[k] \notin Invisible /\ e = <<f[k - 1], s[k]>>
    BY <1>3, <1>6, <1>7
  <2>2. k \in 1..(m + 1) /\ k - 1 \in 0..m
    BY <1>6
  <2> QED
    BY <1>4, <1>5, <1>6, <2>1, <2>2
<1>8. ASSUME c \notin Invisible PROVE <<f[m], c>> \in Characters!Screen(u, d)
  <2>1. m + 1 \in 1..(m + 1) /\ (m + 1) - 1 = m /\ m \in 0..m
    BY <1>6
  <2>2. <<g[(m + 1) - 1], u[m + 1]>> \in Characters!Screen(u, d)
    BY <1>4, <1>6, <1>8, <2>1
  <2> QED
    BY <1>5, <1>6, <2>1, <2>2
<1>9. ASSUME NEW e, e \in Characters!Screen(u, d), e \notin Characters!Screen(s, d) PROVE c \notin Invisible /\ e = <<f[m], c>>
  <2>1. PICK k \in 1..(m + 1) : u[k] \notin Invisible /\ e = <<g[k - 1], u[k]>>
    BY <1>4, <1>6, <1>9
  <2>2. k \notin 1..m
    <3> SUFFICES ASSUME k \in 1..m PROVE FALSE
      OBVIOUS
    <3>1. k - 1 \in 0..m
      BY <1>6
    <3>2. e = <<f[k - 1], s[k]>> /\ s[k] \notin Invisible
      BY <1>5, <1>6, <2>1, <3>1
    <3> QED
      BY <1>3, <1>6, <1>9, <3>2
  <2>3. k = m + 1 /\ k - 1 = m /\ m \in 0..m
    BY <1>6, <2>2
  <2> QED
    BY <1>5, <1>6, <2>1, <2>3
<1>10. Characters!Screen(u, d) = Characters!Screen(s, d) \cup IF c \in Invisible THEN {} ELSE {<<f[m], c>>}
  BY <1>7, <1>8, <1>9
<1> QED
  BY <1>2, <1>10 DEF u

\* Spaces show nothing and move the cursor as far as they are many.
LEMMA SpacesShowNothing ==
  ASSUME NEW d \in Nat \ {0}, NEW s, s \in Seq(Characters!Chars), "\t" \notin Characters!ToSet(s), NEW m \in Nat
  PROVE  /\ s \o Characters!Times("SP", m) \in Seq(Characters!Chars) /\ "\t" \notin Characters!ToSet(s \o Characters!Times("SP", m))
         /\ Characters!Screen(s \o Characters!Times("SP", m), d) = Characters!Screen(s, d)
         /\ CursorAfter(s \o Characters!Times("SP", m), d) = <<CursorAfter(s, d)[1], CursorAfter(s, d)[2] + m>>
<1> DEFINE u(k) == s \o Characters!Times("SP", k)
           Good == {k \in Nat : /\ u(k) \in Seq(Characters!Chars) /\ "\t" \notin Characters!ToSet(u(k))
                                /\ Characters!Screen(u(k), d) = Characters!Screen(s, d)
                                /\ CursorAfter(u(k), d) = <<CursorAfter(s, d)[1], CursorAfter(s, d)[2] + k>>}
<1>0. "SP" \in Characters!Chars
  BY CharSizes
<1>1. CursorAfter(s, d) \in Nat \X Nat
  BY CursorType
<1>2. 0 \in Good
  <2>1. Characters!Times("SP", 0) = <<>>
    BY Repeated
  <2>2. u(0) = s
    BY <2>1, OneMoreBehind
  <2> HIDE DEF u
  <2> QED
    BY <1>1, <2>2
<1>3. ASSUME NEW k \in Nat, k \in Good PROVE k + 1 \in Good
  <2> DEFINE q == CursorAfter(u(k), d)
  <2>1. /\ u(k) \in Seq(Characters!Chars) /\ "\t" \notin Characters!ToSet(u(k)) /\ Characters!Screen(u(k), d) = Characters!Screen(s, d)
        /\ q = <<CursorAfter(s, d)[1], CursorAfter(s, d)[2] + k>>
    BY <1>3
  <2>2. u(k + 1) = Append(u(k), "SP")
    <3>1. Characters!Times("SP", k) \in Seq(Characters!Chars) /\ Characters!Times("SP", k + 1) = Append(Characters!Times("SP", k), "SP")
      BY <1>0, Repeated
    <3> DEFINE t0 == Characters!Times("SP", k)
               t1 == Characters!Times("SP", k + 1)
               sp == "SP"
    <3>2. t0 \in Seq(Characters!Chars) /\ t1 = Append(t0, sp) /\ sp \in Characters!Chars
      BY <1>0, <3>1
    <3>3. u(k) = s \o t0 /\ u(k + 1) = s \o t1
      OBVIOUS
    <3> HIDE DEF t0, t1, sp, u
    <3>4. s \o Append(t0, sp) = Append(s \o t0, sp)
      BY <3>2, OneMoreBehind
    <3> QED
      BY <3>2, <3>3, <3>4 DEF sp
  <2> HIDE DEF u
  <2>3. u(k + 1) \in Seq(Characters!Chars) /\ Characters!ToSet(u(k + 1)) = Characters!ToSet(u(k)) \cup {"SP"}
    <3> DEFINE x == u(k)
               sp == "SP"
    <3>1. x \in Seq(Characters!Chars) /\ sp \in Characters!Chars
      BY <1>0, <2>1
    <3> HIDE DEF x, sp
    <3>2. Append(x, sp) \in Seq(Characters!Chars) /\ Characters!ToSet(Append(x, sp)) = Characters!ToSet(x) \cup {sp}
      BY <3>1, OneMore, OneMoreIn
    <3> QED
      BY <2>2, <3>2 DEF x, sp
  <2>4. Characters!Screen(u(k + 1), d) = Characters!Screen(u(k), d)
    <3>1. Characters!Screen(Append(u(k), "SP"), d) =
            Characters!Screen(u(k), d) \cup IF "SP" \in Invisible THEN {} ELSE {<<CursorAfter(u(k), d), "SP">>}
      BY <1>0, <2>1, ScreenGrows
    <3> QED
      BY <2>2, <3>1 DEF Invisible
  <2>5. CursorAfter(u(k + 1), d) = Characters!After(Characters!Cursor(d), q, "SP")
    BY <1>0, <2>1, <2>2, CursorMoves
  <2>6. Characters!After(Characters!Cursor(d), q, "SP") = <<q[1], q[2] + 1>>
    <3>1. q \in Nat \X Nat /\ "SP" \in Characters!Chars \ {"\n", "\t"}
      BY <1>0, <2>1, CursorType
    <3> HIDE DEF q
    <3> QED
      BY <3>1, CursorSteps
  <2>7. q[1] = CursorAfter(s, d)[1] /\ q[2] + 1 = CursorAfter(s, d)[2] + (k + 1)
    BY <1>1, <2>1
  <2> HIDE DEF q
  <2> QED
    BY <2>1, <2>3, <2>4, <2>5, <2>6, <2>7
<1>4. \A k \in Nat : k \in Good
  <2> HIDE DEF Good
  <2> QED
    BY <1>2, <1>3, AllNumbers
<1> QED
  BY <1>4

LEMMA NextTabStop ==
  ASSUME NEW col \in Nat, NEW d \in Nat \ {0}
  PROVE  /\ d - (col % d) \in Nat \ {0}
         /\ (col \div d + 1) * d = col + (d - (col % d))
<1> DEFINE v == col \div d
           r == col % d
<1>1. v \in Nat /\ r \in Nat /\ r < d /\ col = d * v + r
  BY Divided
<1> HIDE DEF v, r
<1>2. (v + 1) * d = d * v + d /\ d * v \in Nat
  BY <1>1
<1> QED
  BY <1>1, <1>2 DEF v, r

LEMMA ExpandGetc ==
  ASSUME Characters!Typed, Characters!ExpandKeepsColumns, Characters!SameCursor, text \in Seq(Characters!Chars),
         NEW c \in Characters!Chars, text' = Append(text, c), expand' = Characters!Expand(expand, c)
  PROVE  /\ expand' \in [out : Seq(Characters!Chars), col : Nat]
         /\ Characters!ExpandKeepsColumns' /\ Characters!SameCursor'
<1> DEFINE o == expand.out
           col == expand.col
           m == TABSTOP - (col % TABSTOP)
           q == CursorAfter(text, TABSTOP)
<1>1. /\ TABSTOP \in Nat \ {0} /\ o \in Seq(Characters!Chars) /\ col \in Nat /\ q \in Nat \X Nat
      /\ "SP" \in Characters!Chars
  <2>1. TABSTOP \in Nat \ {0} /\ "SP" \in Characters!Chars
    BY CharSizes
  <2>2. o \in Seq(Characters!Chars) /\ col \in Nat
    BY DEF Characters!Typed
  <2>3. q \in Nat \X Nat
    BY <2>1, CursorType
  <2> QED
    BY <2>1, <2>2, <2>3
<1>2. m \in Nat \ {0} /\ (col \div TABSTOP + 1) * TABSTOP = col + m
  BY <1>1, NextTabStop
<1>3. /\ c = "\t" => expand'.out = o \o Characters!Times("SP", m) /\ expand'.col = col + m
      /\ c # "\t" => expand'.out = Append(o, c) /\ expand'.col = IF c = "\n" THEN 0 ELSE col + 1
      /\ expand' = [out |-> expand'.out, col |-> expand'.col]
  BY DEF Characters!Expand
<1>4. expand' \in [out : Seq(Characters!Chars), col : Nat]
  <2>1. Characters!Times("SP", m) \in Seq(Characters!Chars)
    BY <1>1, <1>2, Repeated
  <2> DEFINE sp == Characters!Times("SP", m)
  <2> HIDE DEF m, sp, o, col
  <2>2. expand'.out \in Seq(Characters!Chars)
    <3>1. Append(o, c) \in Seq(Characters!Chars) /\ o \o sp \in Seq(Characters!Chars)
      BY <1>1, <2>1 DEF sp
    <3> QED
      BY <1>3, <3>1 DEF sp
  <2>3. expand'.col \in Nat
    BY <1>1, <1>2, <1>3
  <2> QED
    BY <1>3, <2>2, <2>3
<1> HIDE DEF m
<1>5. Characters!Plain' => Characters!Plain
  BY OneMore DEF Characters!Plain
<1> SUFFICES ASSUME Characters!Plain' PROVE Characters!ExpandKeepsColumns' /\ Characters!SameCursor'
  BY <1>4 DEF Characters!ExpandKeepsColumns, Characters!SameCursor
<1>6. /\ "\t" \notin Characters!ToSet(o) /\ Characters!Screen(o, TABSTOP) = Characters!Screen(text, TABSTOP)
      /\ CursorAfter(o, TABSTOP) = q /\ col = q[2]
  <2>1. Characters!Plain
    BY <1>5
  <2>2. "\t" \notin Characters!ToSet(o) /\ Characters!Screen(o, TABSTOP) = Characters!Screen(text, TABSTOP)
    BY <2>1 DEF Characters!ExpandKeepsColumns
  <2>3. CursorAfter(o, TABSTOP) = q /\ col = q[2]
    BY <2>1 DEF Characters!SameCursor, CursorAfter
  <2> QED
    BY <2>2, <2>3
<1>7. /\ CursorAfter(text', TABSTOP) = Characters!After(Characters!Cursor(TABSTOP), q, c)
      /\ Characters!Screen(text', TABSTOP) = Characters!Screen(text, TABSTOP) \cup IF c \in Invisible THEN {} ELSE {<<q, c>>}
  BY <1>1, CursorMoves, ScreenGrows
<1>8. CASE c = "\t"
  <2>1. /\ "\t" \notin Characters!ToSet(expand'.out) /\ Characters!Screen(expand'.out, TABSTOP) = Characters!Screen(o, TABSTOP)
        /\ CursorAfter(expand'.out, TABSTOP) = <<q[1], q[2] + m>>
    <3> HIDE DEF q, col
    <3>1. expand'.out = o \o Characters!Times("SP", m) /\ m \in Nat
      BY <1>2, <1>3, <1>8
    <3> HIDE DEF o
    <3>2. /\ "\t" \notin Characters!ToSet(o \o Characters!Times("SP", m))
          /\ Characters!Screen(o \o Characters!Times("SP", m), TABSTOP) = Characters!Screen(o, TABSTOP)
          /\ CursorAfter(o \o Characters!Times("SP", m), TABSTOP) =
               <<CursorAfter(o, TABSTOP)[1], CursorAfter(o, TABSTOP)[2] + m>>
      BY <1>1, <1>6, <3>1, SpacesShowNothing
    <3> QED
      BY <1>6, <3>1, <3>2
  <2>2. Characters!After(Characters!Cursor(TABSTOP), q, c) = <<q[1], (q[2] \div TABSTOP + 1) * TABSTOP>>
    BY <1>1, <1>8, CursorSteps
  <2>3. Characters!Screen(text', TABSTOP) = Characters!Screen(text, TABSTOP)
    BY <1>7, <1>8 DEF Invisible
  <2>4. CursorAfter(text', TABSTOP) = <<q[1], q[2] + m>> /\ expand'.col = q[2] + m
    BY <1>2, <1>3, <1>6, <1>7, <1>8, <2>2
  <2> HIDE DEF q, o, col
  <2>5. Characters!ExpandKeepsColumns'
    <3>1. Characters!Screen(expand'.out, TABSTOP) = Characters!Screen(text', TABSTOP)
      BY <1>6, <2>1, <2>3
    <3> QED
      BY <2>1, <3>1 DEF Characters!ExpandKeepsColumns
  <2>6. <<q[1], q[2] + m>>[2] = q[2] + m
    OBVIOUS
  <2>7. Characters!SameCursor'
    BY <2>1, <2>4, <2>6 DEF Characters!SameCursor, CursorAfter
  <2> QED
    BY <2>5, <2>7
<1>9. CASE c # "\t"
  <2>1. expand'.out = Append(o, c)
    BY <1>3, <1>9
  <2>2. Characters!ToSet(expand'.out) = Characters!ToSet(o) \cup {c}
    BY <1>1, <2>1, OneMoreIn
  <2>3. Characters!Screen(expand'.out, TABSTOP) = Characters!Screen(o, TABSTOP) \cup IF c \in Invisible THEN {} ELSE {<<q, c>>}
    BY <1>1, <1>6, <2>1, ScreenGrows
  <2>4. CursorAfter(expand'.out, TABSTOP) = Characters!After(Characters!Cursor(TABSTOP), q, c)
    BY <1>1, <1>6, <2>1, CursorMoves
  <2>5. Characters!After(Characters!Cursor(TABSTOP), q, c) = IF c = "\n" THEN <<q[1] + 1, 0>> ELSE <<q[1], q[2] + 1>>
    BY <1>1, <1>9, CursorSteps
  <2>6. expand'.col = Characters!After(Characters!Cursor(TABSTOP), q, c)[2]
    BY <1>3, <1>6, <1>9, <2>5
  <2> HIDE DEF q, o, col
  <2>7. Characters!ExpandKeepsColumns'
    <3>1. Characters!Screen(expand'.out, TABSTOP) = Characters!Screen(text', TABSTOP)
      BY <1>6, <1>7, <2>3
    <3>2. "\t" \notin Characters!ToSet(expand'.out)
      BY <1>6, <1>9, <2>2
    <3> QED
      BY <3>1, <3>2 DEF Characters!ExpandKeepsColumns
  <2>8. Characters!SameCursor'
    BY <1>7, <2>4, <2>6 DEF Characters!SameCursor, CursorAfter
  <2> QED
    BY <2>7, <2>8
<1> QED
  BY <1>8, <1>9

\* fold.c: the column behind a character is a number, and where it is.
LEMMA ColumnSteps ==
  /\ Characters!Steps(Characters!Columns, Nat, Characters!Chars)
  /\ \A col \in Nat, c \in Characters!Chars :
       Characters!After(Characters!Columns, col, c) = Characters!Column(col, c) /\ Characters!Column(col, c) \in Nat
<1>1. ASSUME NEW col \in Nat, NEW c \in Characters!Chars PROVE Characters!Column(col, c) \in Nat
  <2> DEFINE m == TAB_WIDTH - (col % TAB_WIDTH)
  <2>1. TAB_WIDTH \in Nat \ {0}
    BY CharSizes
  <2>2. m \in Nat \ {0}
    BY <2>1, NextTabStop
  <2>3. Characters!Column(col, c) = CASE c = "\t" -> col + m
                             [] c = "BS" -> IF col = 0 THEN 0 ELSE col - 1
                             [] c \in {"\n", "\r"} -> 0
                             [] OTHER -> col + 1
    BY DEF Characters!Column
  <2> HIDE DEF m
  <2>4. col + m \in Nat /\ col + 1 \in Nat /\ (col # 0 => col - 1 \in Nat)
    BY <2>2
  <2> QED
    BY <2>3, <2>4
<1>2. ASSUME NEW col \in Nat, NEW c \in Characters!Chars PROVE Characters!After(Characters!Columns, col, c) = Characters!Column(col, c)
  BY DEF Characters!After, Characters!Columns
<1>3. Characters!Steps(Characters!Columns, Nat, Characters!Chars)
  BY <1>1, <1>2 DEF Characters!Steps
<1> QED
  BY <1>1, <1>2, <1>3

\* The column behind the text, and whether it stays within the width.
ColumnAfter(s) == Characters!Folded(Characters!Columns, 0, s)
Within(s) == \A k \in DOMAIN s : Characters!Running(Characters!Columns, 0, s)[k] <= Width

LEMMA ColumnMoves ==
  ASSUME NEW s, NEW c, s \in Seq(Characters!Chars), c \in Characters!Chars
  PROVE  /\ ColumnAfter(s) \in Nat
         /\ ColumnAfter(Append(s, c)) = Characters!Column(ColumnAfter(s), c)
         /\ Within(s) /\ ColumnAfter(Append(s, c)) <= Width => Within(Append(s, c))
<1> DEFINE F == Characters!Columns
           S == Nat
           base == 0
           u == Append(s, c)
           m == Len(s)
           f == Characters!Running(F, base, s)
           g == Characters!Running(F, base, u)
<1>1. Characters!Steps(F, S, Characters!Chars) /\ base \in S
  BY ColumnSteps
<1>2. /\ m \in Nat /\ u[m + 1] = c /\ \A k \in 1..m : u[k] = s[k]
      /\ DOMAIN s = 1..m /\ DOMAIN u = 1..(m + 1) /\ Len(u) = m + 1
  BY OneMore
<1>3. ColumnAfter(s) = f[m] /\ ColumnAfter(u) = g[m + 1]
  BY <1>2 DEF ColumnAfter, Characters!Folded
<1>4. (\A k \in 0..m : g[k] = f[k]) /\ g[m + 1] = Characters!After(F, f[m], c)
  <2> HIDE DEF F, S, base
  <2> QED
    BY <1>1, Characters!RunningAppend
<1>5. f[m] \in Nat
  <2> HIDE DEF F, base
  <2>1. Characters!Folded(F, base, s) \in S
    BY <1>1, Characters!FoldedType
  <2> QED
    BY <2>1 DEF Characters!Folded
<1>6. Within(s) <=> \A k \in 1..m : f[k] <= Width
  BY <1>2 DEF Within
<1>7. Within(u) <=> \A k \in 1..(m + 1) : g[k] <= Width
  BY <1>2 DEF Within
<1>8. g[m + 1] = Characters!Column(f[m], c)
  BY <1>4, <1>5, ColumnSteps
<1> HIDE DEF F, base, u, m, f, g
<1>9. ASSUME Within(s), g[m + 1] <= Width PROVE Within(u)
  <2>1. ASSUME NEW k \in 1..(m + 1) PROVE g[k] <= Width
    <3>1. CASE k = m + 1
      BY <1>9, <3>1
    <3>2. CASE k # m + 1
      <4>1. k \in 1..m /\ k \in 0..m
        BY <1>2, <3>2
      <4> QED
        BY <1>4, <1>6, <1>9, <4>1
    <3> QED
      BY <3>1, <3>2
  <2> QED
    BY <1>7, <2>1
<1> QED
  BY <1>3, <1>5, <1>8, <1>9 DEF u

\* How many lines end in the text.
Breaks(s) == Len(Characters!Only(s, {"\n"}))

LEMMA BreaksMove ==
  ASSUME NEW s, NEW c, s \in Seq(Characters!Chars), c \in Characters!Chars
  PROVE  /\ Breaks(s) \in Nat
         /\ Breaks(Append(s, c)) = Breaks(s) + IF c = "\n" THEN 1 ELSE 0
<1> DEFINE V == {"\n"}
           X == Characters!Chars
<1>1. (c \in V <=> c = "\n") /\ c \in X /\ s \in Seq(X)
  OBVIOUS
<1> HIDE DEF V, X
<1>2. Characters!Only(s, V) \in Seq(X)
  BY <1>1, Characters!OnlyType
<1>3. Characters!Only(Append(s, c), V) = IF c \in V THEN Append(Characters!Only(s, V), c) ELSE Characters!Only(s, V)
  BY <1>1, Characters!OnlyAppend
<1> DEFINE w == Characters!Only(s, V)
<1> HIDE DEF w
<1>4. Len(w) \in Nat /\ Len(Append(w, c)) = Len(w) + 1 /\ Len(w) + 0 = Len(w)
  BY <1>1, <1>2 DEF w
<1> QED
  BY <1>1, <1>3, <1>4 DEF Breaks, V, w

\* fold.c: the text broken before the characters at b, and whether these are
\* those that would pass the width.
BrokenAt(s, b, k) == IF k \in b THEN <<"\n", s[k]>> ELSE <<s[k]>>
Pieces(s, b) == [k \in DOMAIN s |-> BrokenAt(s, b, k)]
Wide(s, b, k) == Characters!Column(ColumnAfter(Characters!Broken(SubSeq(s, 1, k - 1), b)), s[k]) > Width
RightPlaces(s, b) == Width >= TAB_WIDTH => \A k \in DOMAIN s : k \in b <=> Wide(s, b, k)
FoldBroke(s, o_) == \E b \in SUBSET DOMAIN s : o_ = Characters!Broken(s, b) /\ RightPlaces(s, b)

LEMMA PiecesAre ==
  ASSUME NEW s, s \in Seq(Characters!Chars), NEW b
  PROVE  /\ Pieces(s, b) \in Seq(Seq(Characters!Chars)) /\ Len(Pieces(s, b)) = Len(s)
         /\ \A k \in 1..Len(s) : Pieces(s, b)[k] = BrokenAt(s, b, k) /\ BrokenAt(s, b, k) \in Seq(Characters!Chars)
         /\ Characters!Broken(s, b) = Characters!FlattenSeq(Pieces(s, b))
<1> DEFINE X == Characters!Chars
           S == Seq(X)
           n == Len(s)
           p == Pieces(s, b)
<1>1. n \in Nat /\ DOMAIN s = 1..n /\ "\n" \in X /\ \A k \in 1..n : s[k] \in X
  BY DEF Characters!Chars
<1> HIDE DEF X
<1>2. \A k \in 1..n : BrokenAt(s, b, k) \in S
  BY <1>1 DEF BrokenAt
<1>3. p = [k \in 1..n |-> BrokenAt(s, b, k)]
  BY <1>1 DEF Pieces
<1> HIDE DEF S, p, n
<1>4. \A k \in 1..n : p[k] = BrokenAt(s, b, k)
  BY <1>3
<1>5. p = [k \in 1..n |-> p[k]] /\ \A k \in 1..n : p[k] \in S
  BY <1>2, <1>3, <1>4
<1>6. p \in Seq(S) /\ Len(p) = n
  BY ONLY <1>1, <1>5, Tabulated
<1>7. Characters!Broken(s, b) = Characters!FlattenSeq(p)
  BY DEF Characters!Broken, p, Pieces, BrokenAt
<1> QED
  BY <1>2, <1>4, <1>6, <1>7 DEF S, X, p, n

\* A place behind the text breaks nothing in it.
LEMMA BrokenSame ==
  ASSUME NEW s, s \in Seq(Characters!Chars), NEW b, NEW d, \A k \in 1..Len(s) : k \in b <=> k \in d
  PROVE  Characters!Broken(s, b) = Characters!Broken(s, d)
<1>1. DOMAIN s = 1..Len(s)
  OBVIOUS
<1>2. \A k \in 1..Len(s) : BrokenAt(s, b, k) = BrokenAt(s, d, k)
  BY DEF BrokenAt
<1>3. Pieces(s, b) = Pieces(s, d)
  BY <1>1, <1>2 DEF Pieces
<1> QED
  BY <1>3, PiecesAre

LEMMA BrokenMore ==
  ASSUME NEW s, NEW c, s \in Seq(Characters!Chars), c \in Characters!Chars, NEW b
  PROVE  Characters!Broken(Append(s, c), b) =
           Characters!Broken(s, b) \o IF Len(s) + 1 \in b THEN <<"\n", c>> ELSE <<c>>
<1> DEFINE X == Characters!Chars
           S == Seq(X)
           n == Len(s)
           u == Append(s, c)
           p == Pieces(s, b)
           e == BrokenAt(u, b, n + 1)
           q == Pieces(u, b)
           r == Append(p, e)
<1>1. u \in S /\ Len(u) = n + 1 /\ n \in Nat /\ u[n + 1] = c /\ \A k \in 1..n : u[k] = s[k]
  BY OneMore
<1>2. /\ p \in Seq(S) /\ Len(p) = n /\ (\A k \in 1..n : p[k] = BrokenAt(s, b, k))
      /\ Characters!Broken(s, b) = Characters!FlattenSeq(p)
  BY PiecesAre
<1>3. /\ q \in Seq(S) /\ Len(q) = n + 1 /\ (\A k \in 1..(n + 1) : q[k] = BrokenAt(u, b, k) /\ BrokenAt(u, b, k) \in S)
      /\ Characters!Broken(u, b) = Characters!FlattenSeq(q)
  BY <1>1, PiecesAre
<1>4. e = IF n + 1 \in b THEN <<"\n", c>> ELSE <<c>>
  BY <1>1 DEF BrokenAt
<1>5. \A k \in 1..n : BrokenAt(u, b, k) = BrokenAt(s, b, k)
  BY <1>1 DEF BrokenAt
<1>6. n + 1 \in 1..(n + 1)
  BY <1>1
<1> HIDE DEF X, S, n, u, p, q, e, r
<1>7. e \in S
  BY <1>3, <1>6 DEF e
<1>8. r \in Seq(S) /\ Len(r) = n + 1 /\ r[n + 1] = e /\ \A k \in 1..n : r[k] = p[k]
  BY <1>2, <1>7, OneMore DEF r
<1>9. \A k \in 1..(n + 1) : k \in 1..n \/ k = n + 1
  BY <1>1
<1>10. \A k \in 1..(n + 1) : r[k] = q[k]
  <2> TAKE k \in 1..(n + 1)
  <2>1. CASE k \in 1..n
    <3>1. k \in 1..(n + 1)
      BY <1>1, <2>1
    <3> QED
      BY <1>2, <1>3, <1>5, <1>8, <2>1, <3>1
  <2>2. CASE k = n + 1
    BY <1>3, <1>6, <1>8, <2>2 DEF e
  <2> QED
    BY <1>9, <2>1, <2>2
<1>11. r = q
  BY <1>3, <1>8, <1>10, SeqEqual
<1>12. Characters!FlattenSeq(Append(p, e)) = Characters!FlattenSeq(p) \o e
  <2>1. p \in Seq(Seq(X)) /\ e \in Seq(X)
    BY <1>2, <1>7 DEF S
  <2> QED
    BY ONLY <2>1, Characters!FlattenAppend
<1> QED
  BY <1>2, <1>3, <1>4, <1>11, <1>12 DEF r, n, u

LEMMA FoldBrokeMore ==
  ASSUME NEW s, NEW c, s \in Seq(Characters!Chars), c \in Characters!Chars, NEW o_, FoldBroke(s, o_),
         NEW wide \in BOOLEAN, Width >= TAB_WIDTH => (wide <=> Characters!Column(ColumnAfter(o_), c) > Width)
  PROVE  FoldBroke(Append(s, c), o_ \o IF wide THEN <<"\n", c>> ELSE <<c>>)
<1> DEFINE X == Characters!Chars
           n == Len(s)
           u == Append(s, c)
           add == IF wide THEN <<"\n", c>> ELSE <<c>>
<1>1. PICK b \in SUBSET DOMAIN s : o_ = Characters!Broken(s, b) /\ RightPlaces(s, b)
  BY DEF FoldBroke
<1> DEFINE d == IF wide THEN b \cup {n + 1} ELSE b
<1>2. /\ u \in Seq(X) /\ Len(u) = n + 1 /\ n \in Nat /\ u[n + 1] = c /\ (\A k \in 1..n : u[k] = s[k])
      /\ DOMAIN s = 1..n /\ DOMAIN u = 1..(n + 1)
  BY OneMore
<1>3. d \in SUBSET DOMAIN u /\ (n + 1 \in d <=> wide) /\ \A k \in 1..n : k \in d <=> k \in b
  BY <1>1, <1>2
<1> HIDE DEF X, u, d
<1>4. Characters!Broken(s, d) = o_
  BY <1>1, <1>3, BrokenSame
<1>5. Characters!Broken(u, d) = o_ \o add
  <2>1. Characters!Broken(u, d) = Characters!Broken(s, d) \o IF n + 1 \in d THEN <<"\n", c>> ELSE <<c>>
    BY BrokenMore DEF u
  <2> QED
    BY <1>3, <1>4, <2>1
<1>6. ASSUME Width >= TAB_WIDTH, NEW k \in 1..(n + 1) PROVE k \in d <=> Wide(u, d, k)
  <2> DEFINE t == SubSeq(u, 1, k - 1)
  <2>1. CASE k = n + 1
    <3>1. SubSeq(u, 1, n) = s
      <4> DEFINE w == SubSeq(u, 1, n)
      <4>1. w \in Seq(X) /\ Len(w) = n /\ \A m \in 1..n : w[m] = s[m]
        BY <1>2
      <4>2. s \in Seq(X) /\ Len(s) = n
        BY DEF X
      <4> HIDE DEF w
      <4>3. w = s
        BY ONLY <1>2, <4>1, <4>2, SeqEqual
      <4> QED
        BY <4>3 DEF w
    <3>2. (n + 1) - 1 = n
      BY <1>2
    <3>3. Wide(u, d, n + 1) <=> Characters!Column(ColumnAfter(o_), c) > Width
      BY <1>2, <1>4, <3>1, <3>2 DEF Wide
    <3> QED
      BY <1>3, <1>6, <2>1, <3>3
  <2>2. CASE k \in 1..n
    <3>1. t = SubSeq(s, 1, k - 1) /\ t \in Seq(X) /\ Len(t) = k - 1
      <4> DEFINE v == SubSeq(s, 1, k - 1)
      <4>0. s \in Seq(X) /\ Len(s) = n /\ k - 1 \in Nat /\ k - 1 <= n
        BY <1>2, <2>2 DEF X
      <4>1. /\ t \in Seq(X) /\ Len(t) = k - 1 /\ \A m \in 1..(k - 1) : t[m] = u[m]
        BY <1>2, <4>0
      <4>2. /\ v \in Seq(X) /\ Len(v) = k - 1 /\ \A m \in 1..(k - 1) : v[m] = s[m]
        BY <4>0
      <4>3. \A m \in 1..(k - 1) : m \in 1..n
        BY <2>2, <4>0
      <4> HIDE DEF t, v
      <4>4. t = v
        BY <1>2, <4>0, <4>1, <4>2, <4>3, SeqEqual
      <4> QED
        BY <4>1, <4>4 DEF v
    <3>2. \A m \in 1..Len(t) : m \in 1..n
      BY <2>2, <3>1, <1>2
    <3> HIDE DEF t
    <3>3. Characters!Broken(t, d) = Characters!Broken(t, b)
      <4>1. t \in Seq(Characters!Chars) /\ \A m \in 1..Len(t) : m \in d <=> m \in b
        BY <1>3, <3>1, <3>2 DEF X
      <4> QED
        BY ONLY <4>1, BrokenSame
    <3>4. Wide(u, d, k) <=> Wide(s, b, k)
      BY <1>2, <2>2, <3>1, <3>3 DEF Wide, t
    <3>5. k \in b <=> Wide(s, b, k)
      BY <1>1, <1>2, <1>6, <2>2 DEF RightPlaces
    <3> QED
      BY <1>3, <2>2, <3>4, <3>5
  <2>3. k \in 1..n \/ k = n + 1
    BY <1>2
  <2> QED
    BY <2>1, <2>2, <2>3
<1>7. RightPlaces(u, d)
  BY <1>2, <1>6 DEF RightPlaces
<1> QED
  BY <1>3, <1>5, <1>7 DEF FoldBroke, u

LEMMA FoldGetc ==
  ASSUME Characters!Typed, Characters!ColumnKnown, Characters!FoldFits, Characters!FoldOnlyBreaks, text \in Seq(Characters!Chars),
         NEW c \in Characters!Chars, text' = Append(text, c), fold' = Characters!Fold(fold, c), wc' = Characters!Count(wc, c)
  PROVE  /\ fold' \in [out : Seq(Characters!Chars), col : Nat]
         /\ Characters!ColumnKnown' /\ Characters!FoldFits' /\ Characters!FoldOnlyBreaks'
<1> DEFINE o == fold.out
           was == fold.col
           col == Characters!Column(was, c)
           nline == "\n"
           v == Append(o, nline)
<1>1. /\ o \in Seq(Characters!Chars) /\ was \in Nat /\ wc.lines \in Nat /\ nline \in Characters!Chars
      /\ Width \in Nat \ {0} /\ TAB_WIDTH \in Nat \ {0}
  <2>1. o \in Seq(Characters!Chars) /\ was \in Nat /\ wc.lines \in Nat
    BY DEF Characters!Typed
  <2> QED
    BY <2>1, CharSizes
<1>2. col \in Nat
  BY <1>1, ColumnSteps
<1>0. ASSUME NEW wide \in BOOLEAN, wide <=> col > Width,
             fold' = [out |-> fold'.out, col |-> fold'.col],
             fold'.out \in Seq(Characters!Chars), fold'.col \in Nat,
             Width >= TAB_WIDTH => Within(fold'.out) /\ fold'.col = ColumnAfter(fold'.out) /\ fold'.col <= Width,
             fold'.out = o \o IF wide THEN <<"\n", c>> ELSE <<c>>
      PROVE  /\ fold' \in [out : Seq(Characters!Chars), col : Nat]
             /\ Characters!ColumnKnown' /\ Characters!FoldFits' /\ Characters!FoldOnlyBreaks'
  <2>1. fold' \in [out : Seq(Characters!Chars), col : Nat]
    BY <1>0
  <2>2. Characters!ColumnKnown' /\ Characters!FoldFits'
    BY <1>0 DEF Characters!ColumnKnown, Characters!FoldFits, ColumnAfter, Within
  <2>3. FoldBroke(text, o)
    BY DEF Characters!FoldOnlyBreaks, Characters!TooWide, FoldBroke, RightPlaces, Wide, ColumnAfter
  <2>4. Width >= TAB_WIDTH => (wide <=> Characters!Column(ColumnAfter(o), c) > Width)
    BY <1>0 DEF Characters!ColumnKnown, ColumnAfter
  <2> HIDE DEF o, col
  <2>5. FoldBroke(text', fold'.out)
    BY <1>0, <2>3, <2>4, FoldBrokeMore
  <2>6. Characters!FoldOnlyBreaks'
    BY <2>5 DEF Characters!FoldOnlyBreaks, Characters!TooWide, FoldBroke, RightPlaces, Wide, ColumnAfter
  <2> QED
    BY <2>1, <2>2, <2>6
<1>3. CASE col > Width
  <2>1. /\ fold'.out = o \o <<"\n", c>> /\ fold'.col = (IF c = "\t" THEN TAB_WIDTH ELSE 1)
        /\ fold' = [out |-> fold'.out, col |-> fold'.col]
    BY <1>3 DEF Characters!Fold
  <2>2. v \in Seq(Characters!Chars)
    BY <1>1
  <2>3. fold'.out = Append(v, c)
    BY <1>1, <2>1, SMTT(30)
  <2>4. fold'.out \in Seq(Characters!Chars) /\ fold'.col \in Nat
    <3>1. fold'.col \in Nat
      BY <1>1, <2>1
    <3> HIDE DEF v
    <3> QED
      BY <2>2, <2>3, <3>1
  <2> HIDE DEF v, o, was
  <2>5. ASSUME Width >= TAB_WIDTH
        PROVE  Within(fold'.out) /\ fold'.col = ColumnAfter(fold'.out) /\ fold'.col <= Width
    <3>1. was = ColumnAfter(o) /\ was <= Width /\ Within(o)
      BY <2>5 DEF Characters!ColumnKnown, Characters!FoldFits, ColumnAfter, Within, o, was
    <3>2. ColumnAfter(v) = 0
      <4>1. ColumnAfter(v) = Characters!Column(ColumnAfter(o), nline)
        BY <1>1, ColumnMoves DEF v
      <4> QED
        BY <4>1 DEF Characters!Column
    <3>3. Within(v)
      BY <1>1, <3>1, <3>2, ColumnMoves DEF v
    <3>4. ColumnAfter(fold'.out) = Characters!Column(0, c)
      BY <2>2, <2>3, <3>2, ColumnMoves
    <3>5. c \notin {"BS", "\n", "\r"}
      BY <1>1, <1>3, <3>1 DEF Characters!Column
    <3>6. Characters!Column(0, c) = IF c = "\t" THEN TAB_WIDTH ELSE 1
      <4>1. TAB_WIDTH - (0 % TAB_WIDTH) = TAB_WIDTH
        <5>1. 0 = TAB_WIDTH * 0 + 0
          BY <1>1
        <5>2. 0 % TAB_WIDTH = 0
          BY <1>1, <5>1, DividedUniquely
        <5> QED
          BY <1>1, <5>2
      <4> QED
        BY <1>1, <3>5, <4>1 DEF Characters!Column
    <3>7. fold'.col = ColumnAfter(fold'.out) /\ fold'.col <= Width
      <4> DEFINE e == IF c = "\t" THEN TAB_WIDTH ELSE 1
      <4>1. e <= Width
        BY <1>1, <2>5
      <4> HIDE DEF e
      <4>2. fold'.col = e /\ ColumnAfter(fold'.out) = e
        BY <2>1, <3>4, <3>6 DEF e
      <4> QED
        BY <4>1, <4>2
    <3> QED
      BY <2>2, <2>3, <3>3, <3>7, ColumnMoves
  <2> QED
    BY <1>0, <1>3, <2>1, <2>4, <2>5 DEF o
<1>4. CASE ~(col > Width)
  <2>1. fold' = [out |-> Append(o, c), col |-> col]
    BY <1>4 DEF Characters!Fold
  <2>2. fold'.out = Append(o, c) /\ fold'.col = col /\ fold' = [out |-> fold'.out, col |-> fold'.col]
    BY <2>1
  <2>3. fold'.out \in Seq(Characters!Chars) /\ fold'.col \in Nat
    BY <1>1, <1>2, <2>2
  <2>4. ASSUME Width >= TAB_WIDTH
        PROVE  Within(fold'.out) /\ fold'.col = ColumnAfter(fold'.out) /\ fold'.col <= Width
    <3> HIDE DEF o, was
    <3>1. was = ColumnAfter(o) /\ was <= Width /\ Within(o)
      BY <2>4 DEF Characters!ColumnKnown, Characters!FoldFits, ColumnAfter, Within, o, was
    <3>2. col <= Width
      BY <1>1, <1>2, <1>4
    <3> QED
      BY <1>1, <2>2, <3>1, <3>2, ColumnMoves
  <2>5. fold'.out = o \o <<c>>
    <3>1. o \in Seq(Characters!Chars) /\ c \in Characters!Chars
      BY <1>1
    <3> HIDE DEF o
    <3>2. Append(o, c) = o \o <<c>>
      BY <3>1
    <3> QED
      BY <2>2, <3>2
  <2> QED
    BY <1>0, <1>4, <2>2, <2>3, <2>4, <2>5 DEF o
<1> QED
  BY <1>3, <1>4

LEMMA LatestNow ==
  ASSUME text \in Seq(Characters!Chars), NEW c \in Characters!Chars, text' = Append(text, c)
  PROVE  Characters!Latest' = c /\ text' # <<>>
<1> DEFINE v == Append(text, c)
           n == Len(text)
<1>1. Len(v) = n + 1 /\ v[n + 1] = c /\ n \in Nat /\ v # <<>>
  BY OneMore
<1> HIDE DEF v, n
<1>2. text' = v
  BY DEF v
<1> QED
  BY <1>1, <1>2 DEF Characters!Latest

\* wc.c: the characters at which a word begins.
WordsBegin(s) == {k \in DOMAIN s : ~Characters!Blank(s[k]) /\ (k = 1 \/ Characters!Blank(s[k - 1]))}

LEMMA WordsBeginMore ==
  ASSUME NEW X, NEW s, NEW c, s \in Seq(X), c \in X
  PROVE  /\ Characters!IsFiniteSet(WordsBegin(s)) /\ Len(s) + 1 \notin WordsBegin(s)
         /\ WordsBegin(Append(s, c)) =
              WordsBegin(s) \cup IF ~Characters!Blank(c) /\ (s = <<>> \/ Characters!Blank(s[Len(s)])) THEN {Len(s) + 1} ELSE {}
<1> DEFINE u == Append(s, c)
           m == Len(s)
<1>1. /\ m \in Nat /\ u[m + 1] = c /\ \A k \in 1..m : u[k] = s[k]
      /\ DOMAIN s = 1..m /\ DOMAIN u = 1..(m + 1) /\ (s = <<>> <=> m = 0)
  BY OneMore
<1> HIDE DEF u, m
<1>2. Characters!IsFiniteSet(WordsBegin(s))
  <2>1. Characters!IsFiniteSet(1..m)
    BY <1>1, Characters!FS_Interval
  <2>2. WordsBegin(s) \subseteq 1..m
    BY <1>1 DEF WordsBegin
  <2> QED
    BY <2>1, <2>2, Characters!FS_Subset
<1>3. m + 1 \notin WordsBegin(s)
  BY <1>1 DEF WordsBegin
<1>4. ASSUME NEW k \in 1..m PROVE k \in WordsBegin(u) <=> k \in WordsBegin(s)
  <2>1. u[k] = s[k] /\ (k # 1 => k - 1 \in 1..m /\ u[k - 1] = s[k - 1]) /\ k \in 1..(m + 1)
    BY <1>1
  <2> QED
    BY <1>1, <2>1 DEF WordsBegin
<1>5. m + 1 \in WordsBegin(u) <=> ~Characters!Blank(c) /\ (m = 0 \/ Characters!Blank(s[m]))
  <2>1. m + 1 \in 1..(m + 1) /\ (m + 1) - 1 = m /\ (m + 1 = 1 <=> m = 0) /\ (m # 0 => u[m] = s[m])
    BY <1>1
  <2> QED
    BY <1>1, <2>1 DEF WordsBegin
<1>6. WordsBegin(u) \subseteq 1..(m + 1) /\ WordsBegin(s) \subseteq 1..m
  BY <1>1 DEF WordsBegin
<1>7. \A k \in 1..(m + 1) : k \in 1..m \/ k = m + 1
  BY <1>1
<1>8. WordsBegin(u) = WordsBegin(s) \cup IF ~Characters!Blank(c) /\ (m = 0 \/ Characters!Blank(s[m])) THEN {m + 1} ELSE {}
  <2>1. m + 1 \in 1..(m + 1) /\ \A k \in 1..m : k \in 1..(m + 1)
    BY <1>1
  <2> QED
    BY <1>4, <1>5, <1>6, <1>7, <2>1
<1> QED
  BY <1>1, <1>2, <1>3, <1>8 DEF u, m

LEMMA WcGetc ==
  ASSUME Characters!Typed, Characters!WcCounts, Characters!BlankKnown, text \in Seq(Characters!Chars),
         NEW c \in Characters!Chars, text' = Append(text, c), wc' = Characters!Count(wc, c)
  PROVE  /\ wc' \in [lines : Nat, words : Nat, bytes : Nat, inword : BOOLEAN]
         /\ Characters!WcCounts' /\ Characters!BlankKnown'
<1>1. wc.lines \in Nat /\ wc.words \in Nat /\ wc.bytes \in Nat /\ wc.inword \in BOOLEAN
  BY DEF Characters!Typed
<1>2. /\ wc'.lines = wc.lines + IF c = "\n" THEN 1 ELSE 0
      /\ wc'.words = wc.words + IF ~Characters!Blank(c) /\ ~wc.inword THEN 1 ELSE 0
      /\ wc'.bytes = wc.bytes + 1 /\ wc'.inword = ~Characters!Blank(c)
      /\ wc' = [lines |-> wc'.lines, words |-> wc'.words, bytes |-> wc'.bytes, inword |-> wc'.inword]
  BY DEF Characters!Count
<1>3. wc' \in [lines : Nat, words : Nat, bytes : Nat, inword : BOOLEAN]
  <2>1. wc'.lines \in Nat /\ wc'.words \in Nat /\ wc'.bytes \in Nat
    BY <1>1, <1>2
  <2>2. wc'.inword \in BOOLEAN
    BY <1>2, Zenon DEF Characters!Blank
  <2> QED
    BY <1>2, <2>1, <2>2
<1>4. wc.words = Characters!Cardinality(WordsBegin(text)) /\ wc.lines = Breaks(text) /\ wc.bytes = Len(text)
  BY DEF Characters!WcCounts, WordsBegin, Breaks
<1>5. wc.inword <=> text # <<>> /\ ~Characters!Blank(text[Len(text)])
  BY DEF Characters!BlankKnown, Characters!Latest
<1> DEFINE v == Append(text, c)
           n == Len(text)
<1>6. Characters!Cardinality(WordsBegin(v)) = wc'.words
  <2>1. /\ Characters!IsFiniteSet(WordsBegin(text)) /\ n + 1 \notin WordsBegin(text)
        /\ WordsBegin(v) =
             WordsBegin(text) \cup IF ~Characters!Blank(c) /\ (text = <<>> \/ Characters!Blank(text[n])) THEN {n + 1} ELSE {}
    BY WordsBeginMore
  <2> HIDE DEF v, n
  <2>2. CASE ~Characters!Blank(c) /\ ~wc.inword
    <3>1. WordsBegin(v) = WordsBegin(text) \cup {n + 1}
      BY <1>5, <2>1, <2>2 DEF n
    <3>2. Characters!Cardinality(WordsBegin(text) \cup {n + 1}) = Characters!Cardinality(WordsBegin(text)) + 1
      BY <2>1, Characters!FS_AddElement
    <3> QED
      BY <1>2, <1>4, <2>2, <3>1, <3>2
  <2>3. CASE ~(~Characters!Blank(c) /\ ~wc.inword)
    <3>1. WordsBegin(v) = WordsBegin(text)
      BY <1>5, <2>1, <2>3 DEF n
    <3> QED
      BY <1>1, <1>2, <1>4, <2>3, <3>1
  <2> QED
    BY <2>2, <2>3
<1>7. Breaks(v) = wc'.lines
  BY <1>2, <1>4, BreaksMove
<1>8. Len(v) = wc'.bytes
  BY <1>2, <1>4, OneMore
<1>9. Characters!WcCounts'
  <2> HIDE DEF v
  <2>1. text' = v
    BY DEF v
  <2> QED
    BY <1>6, <1>7, <1>8, <2>1 DEF Characters!WcCounts, WordsBegin, Breaks
<1>10. Characters!BlankKnown'
  BY <1>2, LatestNow DEF Characters!BlankKnown
<1> QED
  BY <1>3, <1>9, <1>10

\* ts.c: stamps are where they should be.
Stamped(s) == \A k \in DOMAIN s : s[k] = Characters!STAMP <=> k = 1 \/ s[k - 1] = "\n"

LEMMA StampedMore ==
  ASSUME NEW X, NEW s, NEW c, s \in Seq(X), c \in X, s # <<>>, Stamped(s),
         c = Characters!STAMP <=> s[Len(s)] = "\n"
  PROVE  Stamped(Append(s, c))
<1> DEFINE u == Append(s, c)
           m == Len(s)
<1>1. /\ m \in Nat \ {0} /\ u[m + 1] = c /\ \A k \in 1..m : u[k] = s[k]
      /\ DOMAIN s = 1..m /\ DOMAIN u = 1..(m + 1)
  BY OneMore
<1>2. c = Characters!STAMP <=> s[m] = "\n"
  OBVIOUS
<1> HIDE DEF u, m
<1>3. ASSUME NEW k \in 1..(m + 1) PROVE u[k] = Characters!STAMP <=> k = 1 \/ u[k - 1] = "\n"
  <2>1. CASE k = m + 1
    BY <1>1, <1>2, <2>1
  <2>2. CASE k # m + 1
    <3>1. k \in 1..m /\ (k # 1 => k - 1 \in 1..m)
      BY <1>1, <2>2
    <3>2. u[k] = s[k] /\ (k # 1 => u[k - 1] = s[k - 1])
      BY <1>1, <3>1
    <3>3. s[k] = Characters!STAMP <=> k = 1 \/ s[k - 1] = "\n"
      BY <1>1, <3>1 DEF Stamped
    <3> QED
      BY <3>2, <3>3
  <2> QED
    BY <2>1, <2>2
<1> QED
  BY <1>1, <1>3 DEF Stamped, u

LEMMA TsGetc ==
  ASSUME Characters!Typed, Characters!TsStampsLines, Characters!StampDue, text \in Seq(Characters!Chars),
         NEW c \in Characters!Chars, c # Characters!STAMP, text' = Append(text, c), ts' = Characters!Stamp(ts, c)
  PROVE  ts' \in [out : Seq(Characters!Chars), pch : Characters!Chars] /\ Characters!TsStampsLines' /\ Characters!StampDue'
<1> DEFINE o == ts.out
           T == Characters!Chars \ {Characters!STAMP}
           st == Characters!STAMP
           v == Append(o, st)
           w == IF ts.pch = "\n" THEN v ELSE o
<1>1. o \in Seq(Characters!Chars) /\ ts.pch \in Characters!Chars /\ st \in Characters!Chars /\ v \in Seq(Characters!Chars)
  <2>1. o \in Seq(Characters!Chars) /\ ts.pch \in Characters!Chars
    BY DEF Characters!Typed
  <2>2. st \in Characters!Chars
    BY CharSizes
  <2> HIDE DEF st, o
  <2> QED
    BY <2>1, <2>2
<1>2. /\ ts.pch = Characters!Latest /\ o # <<>> /\ o[Len(o)] = IF text = <<>> THEN st ELSE Characters!Latest
      /\ Characters!Only(o, T) = text /\ Stamped(o)
  BY DEF Characters!StampDue, Characters!TsStampsLines, Stamped
<1>3. o[Len(o)] = "\n" <=> ts.pch = "\n"
  BY <1>2 DEF Characters!Latest, Characters!STAMP
<1>4. ts'.out = Append(w, c) /\ ts'.pch = c /\ ts' = [out |-> ts'.out, pch |-> ts'.pch]
  <2>1. ts' = [out |-> o \o IF ts.pch = "\n" THEN <<st, c>> ELSE <<c>>, pch |-> c]
    BY DEF Characters!Stamp
  <2>2. o \o <<st, c>> = Append(v, c) /\ o \o <<c>> = Append(o, c)
    BY <1>1
  <2> HIDE DEF v, st, o
  <2> QED
    BY <2>1, <2>2 DEF v
<1>5. w \in Seq(Characters!Chars) /\ w # <<>> /\ Stamped(w) /\ w[Len(w)] # "\n" /\ Characters!Only(w, T) = text
  <2>1. CASE ts.pch = "\n"
    <3>1. w = v
      BY <2>1
    <3> HIDE DEF o, T, w
    <3>2. Stamped(v)
      BY <1>1, <1>2, <1>3, <2>1, StampedMore DEF st
    <3>3. v # <<>> /\ v[Len(v)] = st
      BY <1>1
    <3>4. st # "\n" /\ st \notin T
      BY DEF Characters!STAMP, T
    <3>5. Characters!Only(v, T) = Characters!Only(o, T)
      <4> HIDE DEF st
      <4> QED
        BY <1>1, <3>4, Characters!OnlyAppend
    <3> QED
      BY <1>1, <1>2, <3>1, <3>2, <3>3, <3>4, <3>5
  <2>2. CASE ts.pch # "\n"
    BY <1>1, <1>2, <1>3, <2>2
  <2> QED
    BY <2>1, <2>2
<1> HIDE DEF w, o, T, v
<1>6. Stamped(ts'.out)
  BY <1>4, <1>5, StampedMore
<1>7. Characters!Only(ts'.out, T) = text'
  <2>1. Characters!Only(Append(w, c), T) = Append(Characters!Only(w, T), c)
    <3>1. c \in T
      BY DEF T
    <3> QED
      BY <1>5, <3>1, Characters!OnlyAppend
  <2> QED
    BY <1>4, <1>5, <2>1
<1>8. ts'.out \in Seq(Characters!Chars) /\ ts'.out # <<>> /\ ts'.out[Len(ts'.out)] = c
  <2>1. Append(w, c) \in Seq(Characters!Chars) /\ Append(w, c) # <<>> /\ Append(w, c)[Len(Append(w, c))] = c
    BY <1>5, OneMore
  <2> QED
    BY <1>4, <2>1
<1>9. Characters!TsStampsLines'
  BY <1>6, <1>7 DEF Characters!TsStampsLines, Stamped, T
<1>10. Characters!StampDue'
  BY <1>4, <1>8, LatestNow DEF Characters!StampDue
<1> QED
  BY <1>4, <1>8, <1>9, <1>10

\* unix2dos.c: every newline has a carriage return in front of it.
Returned(s) == \A k \in DOMAIN s : s[k] = "\n" => k > 1 /\ s[k - 1] = "\r"

LEMMA ReturnedMore ==
  ASSUME NEW X, NEW s, NEW c, s \in Seq(X), c \in X, Returned(s),
         c = "\n" => s # <<>> /\ s[Len(s)] = "\r"
  PROVE  Returned(Append(s, c))
<1> DEFINE u == Append(s, c)
           m == Len(s)
<1>1. /\ m \in Nat /\ u[m + 1] = c /\ \A k \in 1..m : u[k] = s[k]
      /\ DOMAIN s = 1..m /\ DOMAIN u = 1..(m + 1) /\ (s # <<>> => m # 0)
  BY OneMore
<1>2. c = "\n" => m # 0 /\ s[m] = "\r"
  BY <1>1
<1> HIDE DEF u, m
<1>3. ASSUME NEW k \in 1..(m + 1), u[k] = "\n" PROVE k > 1 /\ u[k - 1] = "\r"
  <2>1. CASE k = m + 1
    <3>1. c = "\n" /\ m \in 1..m /\ k - 1 = m /\ k > 1
      BY <1>1, <1>2, <1>3, <2>1
    <3> QED
      BY <1>1, <1>2, <3>1
  <2>2. CASE k # m + 1
    <3>1. k \in 1..m /\ s[k] = "\n"
      BY <1>1, <1>3, <2>2
    <3>2. k > 1 /\ s[k - 1] = "\r"
      BY <1>1, <3>1 DEF Returned
    <3>3. k - 1 \in 1..m
      BY <1>1, <3>1, <3>2
    <3> QED
      BY <1>1, <3>2, <3>3
  <2> QED
    BY <2>1, <2>2
<1> QED
  BY <1>1, <1>3 DEF Returned, u

LEMMA DosGetc ==
  ASSUME Characters!Typed, Characters!DosRoundTrip, text \in Seq(Characters!Chars),
         NEW c \in Characters!Chars, text' = Append(text, c), unix2dos' = Characters!Unix2dos(unix2dos, c)
  PROVE  unix2dos' \in Seq(Characters!Chars) /\ Characters!DosRoundTrip'
<1> DEFINE o == unix2dos
           T == Characters!Chars \ {"\r"}
           cr == "\r"
           v == Append(o, cr)
           w == IF c = "\n" THEN v ELSE o
<1>1. o \in Seq(Characters!Chars) /\ cr \in Characters!Chars
  BY CharSizes DEF Characters!Typed
<1>2. Characters!Only(o, T) = Characters!Only(text, T) /\ Returned(o)
  BY DEF Characters!DosRoundTrip, Characters!Dos2unix, Returned
<1> HIDE DEF o, T
<1>3. v \in Seq(Characters!Chars) /\ v # <<>> /\ v[Len(v)] = cr
  BY <1>1, OneMore
<1>4. unix2dos' = Append(w, c)
  <2>1. unix2dos' = o \o IF c = "\n" THEN <<cr, c>> ELSE <<c>>
    BY DEF Characters!Unix2dos, o
  <2>2. o \o <<cr, c>> = Append(v, c) /\ o \o <<c>> = Append(o, c)
    BY <1>1
  <2> HIDE DEF v, cr
  <2> QED
    BY <2>1, <2>2
<1>5. Returned(v) /\ Characters!Only(v, T) = Characters!Only(o, T)
  <2>1. Returned(v)
    BY <1>1, <1>2, ReturnedMore
  <2>2. cr \notin T
    BY DEF T
  <2> HIDE DEF cr
  <2>3. Characters!Only(v, T) = Characters!Only(o, T)
    BY <1>1, <2>2, Characters!OnlyAppend
  <2> QED
    BY <2>1, <2>3
<1> HIDE DEF v
<1>6. w \in Seq(Characters!Chars) /\ Returned(w) /\ Characters!Only(w, T) = Characters!Only(text, T)
      /\ (c = "\n" => w # <<>> /\ w[Len(w)] = "\r")
  BY <1>1, <1>2, <1>3, <1>5
<1> HIDE DEF w, cr
<1>7. unix2dos' \in Seq(Characters!Chars) /\ Returned(unix2dos')
  BY <1>4, <1>6, OneMore, ReturnedMore
<1>8. Characters!Only(unix2dos', T) = Characters!Only(text', T)
  <2>1. Characters!Only(Append(w, c), T) = IF c \in T THEN Append(Characters!Only(w, T), c) ELSE Characters!Only(w, T)
    BY <1>6, Characters!OnlyAppend
  <2>2. Characters!Only(Append(text, c), T) = IF c \in T THEN Append(Characters!Only(text, T), c) ELSE Characters!Only(text, T)
    BY Characters!OnlyAppend
  <2> QED
    BY <1>4, <1>6, <2>1, <2>2
<1> QED
  BY <1>7, <1>8 DEF Characters!DosRoundTrip, Characters!Dos2unix, Returned, T

\* rev.c: where the lines end.
NewlineAt(s) == {j_ \in DOMAIN s : s[j_] = "\n"}

LEMMA EndsMore ==
  ASSUME NEW X, NEW s, NEW c, s \in Seq(X), c \in X
  PROVE  Characters!Ends(Append(s, c)) = IF c = "\n" THEN Append(Characters!Ends(s), Len(s) + 1) ELSE Characters!Ends(s)
<1> DEFINE u == Append(s, c)
           m == Len(s)
           K == NewlineAt(s)
           L == NewlineAt(u)
<1>1. /\ m \in Nat /\ u[m + 1] = c /\ \A k \in 1..m : u[k] = s[k]
      /\ DOMAIN s = 1..m /\ DOMAIN u = 1..(m + 1) /\ Len(u) = m + 1
  BY OneMore
<1>2. Characters!Ends(s) = Characters!Ascending(m, K) /\ Characters!Ends(u) = Characters!Ascending(m + 1, L)
  BY <1>1 DEF Characters!Ends, NewlineAt
<1> HIDE DEF u, m
<1>3. \A k \in 1..m : k \in K <=> k \in L
  <2>1. \A k \in 1..m : k \in 1..(m + 1)
    BY <1>1
  <2> QED
    BY <1>1, <2>1 DEF NewlineAt
<1>4. m + 1 \in L <=> c = "\n"
  <2>1. m + 1 \in 1..(m + 1)
    BY <1>1
  <2> QED
    BY <1>1, <2>1 DEF NewlineAt
<1> HIDE DEF K, L
<1>5. Characters!Ascending(m, K) = Characters!Ascending(m, L)
  BY <1>1, <1>3, Characters!AscendingAgree
<1>6. Characters!Ascending(m + 1, L) = IF m + 1 \in L THEN Append(Characters!Ascending(m, L), m + 1) ELSE Characters!Ascending(m, L)
  BY <1>1, Characters!AscendingStep
<1> QED
  BY <1>2, <1>4, <1>5, <1>6 DEF u, m

\* What is known of them.
LEMMA EndsKnown ==
  ASSUME NEW X, NEW s, s \in Seq(X)
  PROVE  /\ Characters!Ends(s) \in Seq(Nat) /\ Len(Characters!Ends(s)) \in Nat
         /\ \A k \in 1..Len(Characters!Ends(s)) : Characters!Ends(s)[k] \in 1..Len(s) /\ s[Characters!Ends(s)[k]] = "\n"
         /\ Characters!LastEnd(s) \in 0..Len(s)
         /\ \A k \in (Characters!LastEnd(s) + 1)..Len(s) : s[k] # "\n"
<1> DEFINE e == Characters!Ends(s)
           m == Len(s)
           K == NewlineAt(s)
           z == Len(e)
           last == Characters!LastEnd(s)
<1>1. m \in Nat /\ DOMAIN s = 1..m
  BY OneMore
<1>2. e = Characters!Ascending(m, K)
  BY DEF Characters!Ends, NewlineAt
<1>3. Characters!Ascends(Characters!Ascending(m, K), m, K)
  BY <1>1, Characters!AscendingAscends
<1>4. last = IF e = <<>> THEN 0 ELSE e[z]
  BY DEF Characters!LastEnd
<1>5. \A k \in 1..m : k \in K <=> s[k] = "\n"
  BY <1>1 DEF NewlineAt
<1> HIDE DEF e, m, K
<1>6. /\ e \in Seq(Nat)
      /\ \A x_ \in 1..z : e[x_] \in K /\ e[x_] \in 1..m
      /\ \A x_, y_ \in 1..z : x_ < y_ => e[x_] < e[y_]
      /\ \A k \in 1..m : k \in K => \E x_ \in 1..z : e[x_] = k
  BY <1>2, <1>3 DEF Characters!Ascends
<1>7. z \in Nat /\ (e = <<>> <=> z = 0)
  BY <1>6
<1> HIDE DEF z, last
<1>8. last \in 0..m
  BY <1>1, <1>4, <1>6, <1>7
<1>9. ASSUME NEW k \in (last + 1)..m PROVE s[k] # "\n"
  <2> SUFFICES ASSUME s[k] = "\n" PROVE FALSE
    OBVIOUS
  <2>1. k \in 1..m /\ k > last
    BY <1>1, <1>8
  <2>2. PICK x_ \in 1..z : e[x_] = k
    BY <1>5, <1>6, <2>1
  <2>3. z # 0 /\ last = e[z] /\ z \in 1..z /\ last \in Nat
    BY <1>4, <1>7, <1>8, <2>2
  <2>4. x_ < z
    <3>1. x_ # z
      BY <2>1, <2>2, <2>3
    <3> QED
      BY <1>7, <3>1
  <2>5. e[x_] < e[z]
    BY <1>6, <2>3, <2>4
  <2> QED
    BY <2>1, <2>2, <2>3, <2>5
<1>10. \A k \in 1..z : e[k] \in 1..m /\ s[e[k]] = "\n"
  BY <1>5, <1>6
<1> QED
  BY <1>6, <1>7, <1>8, <1>9, <1>10 DEF e, m, z, last

\* A text that goes on; the same ends of the first n lines; no newline.
GoesOn(s, t) == Len(s) <= Len(t) /\ \A k \in 1..Len(s) : t[k] = s[k]
SameEnds(s, t, n) == /\ n <= Len(Characters!Ends(s)) /\ n <= Len(Characters!Ends(t))
                     /\ \A k \in 1..n : Characters!Ends(t)[k] = Characters!Ends(s)[k]
Unended(s) == \A k \in 1..Len(s) : s[k] # "\n"

\* Lines that have ended stay what they are, whatever comes behind them.
LEMMA LinesStay ==
  ASSUME NEW X, NEW s, NEW t, NEW n \in Nat, s \in Seq(X), t \in Seq(X), SameEnds(s, t, n), GoesOn(s, t)
  PROVE  \A k \in 1..n : Characters!LineOf(t, k) = Characters!LineOf(s, k)
<1> DEFINE e == Characters!Ends(s)
           m == Len(s)
<1>1. m \in Nat /\ Len(t) \in Nat /\ Len(e) \in Nat /\ \A k \in 1..Len(e) : e[k] \in 1..m
  <2>1. m \in Nat /\ Len(t) \in Nat
    OBVIOUS
  <2>2. Len(e) \in Nat /\ \A k \in 1..Len(e) : e[k] \in 1..m
    BY EndsKnown
  <2> QED
    BY <2>1, <2>2
<1>2. TAKE k \in 1..n
<1> DEFINE from == IF k = 1 THEN 1 ELSE e[k - 1] + 1
           to == e[k] - 1
<1>3. Characters!LineOf(s, k) = SubSeq(s, from, to)
  BY DEF Characters!LineOf
<1>4. Characters!LineOf(t, k) = SubSeq(t, from, to)
  <2>1. Characters!Ends(t)[k] = e[k] /\ (k # 1 => Characters!Ends(t)[k - 1] = e[k - 1])
    BY DEF SameEnds
  <2> QED
    BY <2>1 DEF Characters!LineOf
<1> HIDE DEF e, m
<1>5. from \in Nat \ {0} /\ to \in Int /\ to <= m
  <2>1. e[k] \in 1..m
    BY <1>1 DEF e, SameEnds
  <2>2. k # 1 => e[k - 1] \in 1..m
    BY <1>1 DEF e, SameEnds
  <2> QED
    BY <1>1, <2>1, <2>2, SMTT(30)
<1> HIDE DEF from, to
<1>6. SubSeq(t, from, to) = SubSeq(s, from, to)
  BY <1>1, <1>5 DEF m, GoesOn
<1> QED
  BY <1>3, <1>4, <1>6

LEMMA EndsOver ==
  ASSUME NEW X, NEW s, NEW t, s \in Seq(X), t \in Seq(X), Unended(t)
  PROVE  Characters!Ends(s \o t) = Characters!Ends(s)
<1> DEFINE u == s \o t
           m == Len(s)
           n == Len(u)
           K == NewlineAt(s)
           L == NewlineAt(u)
<1>1. /\ m \in Nat /\ n \in Nat /\ m <= n /\ DOMAIN s = 1..m /\ DOMAIN u = 1..n
      /\ \A k \in 1..m : u[k] = s[k]
  OBVIOUS
<1>2. \A k \in (m + 1)..n : u[k] # "\n"
  <2>1. n = m + Len(t) /\ Len(t) \in Nat
    OBVIOUS
  <2>2. ASSUME NEW k \in (m + 1)..n PROVE u[k] # "\n"
    <3>1. k - m \in 1..Len(t)
      BY <1>1, <2>1
    <3>2. u[k] = t[k - m]
      BY <1>1, <2>1
    <3> QED
      BY <3>1, <3>2 DEF Unended
  <2> QED
    BY <2>2
<1>3. Characters!Ends(s) = Characters!Ascending(m, K) /\ Characters!Ends(u) = Characters!Ascending(n, L)
  BY DEF Characters!Ends, NewlineAt
<1> HIDE DEF u, m, n
<1>4. \A k \in 1..m : k \in K <=> k \in L
  <2>1. \A k \in 1..m : k \in 1..n
    BY <1>1
  <2> QED
    BY <1>1, <2>1 DEF NewlineAt
<1>5. \A k \in (m + 1)..n : k \notin L
  BY <1>2 DEF NewlineAt
<1> HIDE DEF K, L
<1>6. Characters!Ascending(m, K) = Characters!Ascending(m, L)
  BY <1>1, <1>4, Characters!AscendingAgree
<1>7. Characters!Ascending(n, L) = Characters!Ascending(m, L)
  BY <1>1, <1>5, Characters!AscendingMore
<1> QED
  BY <1>3, <1>6, <1>7 DEF u

\* The line that a newline ends.
LEMMA LineEnded ==
  ASSUME NEW X, NEW s, NEW c, s \in Seq(X), c \in X, c = "\n"
  PROVE  /\ Len(Characters!Ends(Append(s, c))) = Len(Characters!Ends(s)) + 1
         /\ \A k \in 1..Len(Characters!Ends(s)) : Characters!Ends(Append(s, c))[k] = Characters!Ends(s)[k]
         /\ Characters!LastEnd(Append(s, c)) = Len(Append(s, c))
         /\ Characters!LineOf(Append(s, c), Len(Characters!Ends(s)) + 1) = SubSeq(s, Characters!LastEnd(s) + 1, Len(s))
<1> DEFINE u == Append(s, c)
           e == Characters!Ends(s)
           f == Characters!Ends(u)
           m == Len(s)
           z == Len(e)
<1>1. f = Append(e, m + 1)
  BY EndsMore
<1>2. /\ e \in Seq(Nat) /\ z \in Nat /\ m \in Nat /\ (\A k \in 1..z : e[k] \in 1..m)
      /\ Characters!LastEnd(s) \in 0..m
  BY EndsKnown, SMTT(30)
<1>3. Len(u) = m + 1 /\ \A k \in 1..m : u[k] = s[k]
  BY OneMore
<1>4. Characters!LastEnd(s) = IF e = <<>> THEN 0 ELSE e[z]
  BY DEF Characters!LastEnd
<1>5. Characters!LastEnd(u) = IF f = <<>> THEN 0 ELSE f[Len(f)]
  BY DEF Characters!LastEnd
<1>6. Characters!LineOf(u, z + 1) = SubSeq(u, IF z + 1 = 1 THEN 1 ELSE f[(z + 1) - 1] + 1, f[z + 1] - 1)
  BY DEF Characters!LineOf
<1> HIDE DEF e, f
<1>7. Len(f) = z + 1 /\ f[z + 1] = m + 1 /\ f # <<>> /\ \A k \in 1..z : f[k] = e[k]
  BY <1>1, <1>2
<1>8. Characters!LastEnd(u) = Len(u)
  BY <1>3, <1>5, <1>7
<1>9. (z + 1) - 1 = z /\ (z + 1 = 1 <=> z = 0) /\ (z # 0 => f[z] = e[z]) /\ (z = 0 <=> e = <<>>) /\ f[z + 1] - 1 = m
  BY <1>2, <1>7
<1>10. Characters!LineOf(u, z + 1) = SubSeq(u, Characters!LastEnd(s) + 1, m)
  BY <1>4, <1>6, <1>9
<1> DEFINE from == Characters!LastEnd(s) + 1
<1>11. from \in 1..(m + 1)
  BY <1>2
<1> HIDE DEF u, from, z, m
<1>12. SubSeq(u, from, m) = SubSeq(s, from, m)
  <2>1. Len(s) = m /\ Len(u) = m + 1 /\ m \in Nat /\ u \in Seq(X)
    BY <1>2, <1>3 DEF m, u
  <2> QED
    BY <1>3, <1>11, <2>1
<1> QED
  BY <1>7, <1>8, <1>10, <1>12 DEF u, e, f, m, z, from

\* What rev prints of a line.
LEMMA ReversedOf ==
  ASSUME NEW X, NEW s, NEW c, s \in Seq(X), c \in X
  PROVE  /\ Characters!Reverse(s) \in Seq(X) /\ Len(Characters!Reverse(s)) = Len(s)
         /\ \A k \in 1..Len(s) : Characters!Reverse(s)[k] = s[(Len(s) - k) + 1]
         /\ Characters!Reversed(Append(s, c)) = Append(Characters!Reverse(s), "\n")
<1>1. /\ Characters!Reverse(s) \in Seq(X) /\ Len(Characters!Reverse(s)) = Len(s)
      /\ \A k \in 1..Len(s) : Characters!Reverse(s)[k] = s[(Len(s) - k) + 1]
  <2>1. \A k \in 1..Len(s) : s[(Len(s) - k) + 1] \in X
    OBVIOUS
  <2> QED
    BY <2>1 DEF Characters!Reverse
<1>2. SubSeq(Append(s, c), 1, Len(Append(s, c)) - 1) = s
  OBVIOUS
<1>3. Characters!Reversed(Append(s, c)) = Append(Characters!Reverse(s), "\n")
  BY <1>2 DEF Characters!Reversed
<1> QED
  BY <1>1, <1>3

\* It behind what has been printed, and the end of its line.
Printed(o, s, c, all) == all = o \o Append(Characters!Reverse(s), c)

LEMMA ReversedBehind ==
  ASSUME NEW X, NEW o, NEW s, NEW c, NEW all, o \in Seq(X), s \in Seq(X), c \in X, c = "\n",
         Unended(s), Printed(o, s, c, all)
  PROVE  /\ all \in Seq(X) /\ Len(Characters!Ends(all)) = Len(Characters!Ends(o)) + 1 /\ Characters!LastEnd(all) = Len(all)
         /\ \A k \in 1..Len(Characters!Ends(o)) : Characters!LineOf(all, k) = Characters!LineOf(o, k)
         /\ Characters!LastEnd(o) = Len(o) => Characters!LineOf(all, Len(Characters!Ends(o)) + 1) = Characters!Reverse(s)
<1> DEFINE r == Characters!Reverse(s)
           mid == o \o r
           z == Len(Characters!Ends(o))
<1>1. r \in Seq(X) /\ Len(r) = Len(s) /\ \A k \in 1..Len(s) : r[k] = s[(Len(s) - k) + 1]
  BY ReversedOf
<1>0. o \in Seq(X) /\ s \in Seq(X) /\ c \in X /\ c = "\n"
  OBVIOUS
<1>2. Unended(r)
  <2>1. \A k \in 1..Len(s) : (Len(s) - k) + 1 \in 1..Len(s)
    OBVIOUS
  <2> QED
    BY <1>1, <2>1 DEF Unended
<1> HIDE DEF r
<1>3. mid \in Seq(X) /\ all = Append(mid, c) /\ all \in Seq(X)
  <2>1. all = o \o Append(r, c)
    BY DEF r, Printed
  <2>2. all = Append(mid, c) /\ mid \in Seq(X)
    BY ONLY <1>0, <1>1, <2>1, OneMoreBehind
  <2> HIDE DEF mid
  <2>3. Append(mid, c) \in Seq(X)
    BY ONLY <1>0, <2>2
  <2> QED
    BY ONLY <2>2, <2>3
<1>4. Characters!Ends(mid) = Characters!Ends(o)
  BY <1>1, <1>2, EndsOver
<1>5. /\ Len(Characters!Ends(all)) = z + 1 /\ (\A k \in 1..z : Characters!Ends(all)[k] = Characters!Ends(o)[k])
      /\ Characters!LastEnd(all) = Len(all)
      /\ Characters!LineOf(all, z + 1) = SubSeq(mid, Characters!LastEnd(mid) + 1, Len(mid))
  <2> HIDE DEF mid
  <2>1. /\ Len(Characters!Ends(Append(mid, c))) = Len(Characters!Ends(mid)) + 1
        /\ (\A k \in 1..Len(Characters!Ends(mid)) : Characters!Ends(Append(mid, c))[k] = Characters!Ends(mid)[k])
        /\ Characters!LastEnd(Append(mid, c)) = Len(Append(mid, c))
        /\ Characters!LineOf(Append(mid, c), Len(Characters!Ends(mid)) + 1) = SubSeq(mid, Characters!LastEnd(mid) + 1, Len(mid))
    BY <1>3, LineEnded
  <2> QED
    BY <1>3, <1>4, <2>1
<1>6. z \in Nat
  BY EndsKnown
<1>7. GoesOn(o, all)
  BY <1>1, <1>3 DEF GoesOn
<1>8. \A k \in 1..z : Characters!LineOf(all, k) = Characters!LineOf(o, k)
  <2>1. SameEnds(o, all, z)
    BY <1>5, <1>6 DEF SameEnds
  <2> HIDE DEF z
  <2> QED
    <3>1. /\ o \in Seq(X) /\ all \in Seq(X) /\ z \in Nat
          /\ SameEnds(o, all, z) /\ GoesOn(o, all)
      BY ONLY <1>0, <1>3, <1>6, <1>7, <2>1
    <3> QED
      BY ONLY <3>1, LinesStay
<1>9. ASSUME Characters!LastEnd(o) = Len(o) PROVE Characters!LineOf(all, z + 1) = r
  <2>1. Characters!LastEnd(mid) = Len(o)
    <3>1. Characters!LastEnd(mid) = Characters!LastEnd(o)
      BY <1>4 DEF Characters!LastEnd
    <3> QED
      BY <1>9, <3>1
  <2>2. SubSeq(mid, Len(o) + 1, Len(mid)) = r
    BY <1>1
  <2> QED
    BY <1>5, <2>1, <2>2
<1> QED
  BY <1>3, <1>5, <1>8, <1>9 DEF r

LEMMA SubSeqMore ==
  ASSUME NEW X, NEW s, NEW c, s \in Seq(X), c \in X, NEW l \in 0..Len(s)
  PROVE  SubSeq(Append(s, c), l + 1, Len(Append(s, c))) = Append(SubSeq(s, l + 1, Len(s)), c)
<1> DEFINE u == Append(s, c)
           m == Len(s)
           a == SubSeq(u, l + 1, m + 1)
           b == SubSeq(s, l + 1, m)
<1>1. /\ m \in Nat /\ l \in 0..m /\ u \in Seq(X) /\ Len(u) = m + 1 /\ u[m + 1] = c
      /\ \A k \in 1..m : u[k] = s[k]
  BY OneMore
<1>2. b \in Seq(X) /\ Len(b) = m - l /\ \A k \in 1..(m - l) : b[k] = s[l + k]
  BY <1>1
<1> HIDE DEF u
<1>3. a \in Seq(X) /\ Len(a) = (m - l) + 1 /\ \A k \in 1..((m - l) + 1) : a[k] = u[l + k]
  BY <1>1
<1> HIDE DEF a, b, m
<1>4. ASSUME NEW k \in 1..((m - l) + 1) PROVE a[k] = Append(b, c)[k]
  <2>1. CASE k = (m - l) + 1
    <3>1. l + k = m + 1
      BY <1>1, <2>1
    <3>2. Append(b, c)[k] = c
      BY <1>2, <2>1
    <3> QED
      BY <1>1, <1>3, <3>1, <3>2
  <2>2. CASE k # (m - l) + 1
    <3>1. k \in 1..(m - l) /\ l + k \in 1..m
      BY <1>1, <2>2
    <3>2. Append(b, c)[k] = b[k]
      BY <1>1, <1>2, <3>1
    <3> QED
      BY <1>1, <1>2, <1>3, <3>1, <3>2
  <2> QED
    BY <2>1, <2>2
<1>5. a = Append(b, c)
  <2>1. Append(b, c) \in Seq(X) /\ Len(Append(b, c)) = (m - l) + 1
    BY <1>1, <1>2
  <2> DEFINE d == Append(b, c)
  <2> HIDE DEF d
  <2>2. \A k \in 1..((m - l) + 1) : a[k] = d[k]
    BY <1>4 DEF d
  <2>3. d \in Seq(X) /\ Len(d) = (m - l) + 1
    BY <2>1 DEF d
  <2>4. a = d
    BY <1>3, <2>2, <2>3
  <2> QED
    BY <2>4 DEF d
<1> QED
  BY <1>1, <1>5 DEF a, b, u, m

LEMMA RevGetc ==
  ASSUME Characters!Typed, Characters!RevReverses, Characters!LineInHand, ~eof, eof' = eof, text \in Seq(Characters!Chars),
         NEW c \in Characters!Chars, text' = Append(text, c), rev' = Characters!Rev(rev, c), wc' = Characters!Count(wc, c)
  PROVE  rev' \in [out : Seq(Characters!Chars), line : Seq(Characters!Chars)] /\ Characters!RevReverses' /\ Characters!LineInHand'
<1> DEFINE o == rev.out
           line == rev.line
           n == wc.lines
           v == Append(text, c)
<1>1. o \in Seq(Characters!Chars) /\ line \in Seq(Characters!Chars) /\ n \in Nat /\ v \in Seq(Characters!Chars)
  <2>1. o \in Seq(Characters!Chars) /\ line \in Seq(Characters!Chars) /\ n \in Nat
    BY DEF Characters!Typed
  <2> QED
    BY <2>1
<1>2. /\ line = SubSeq(text, Characters!LastEnd(text) + 1, Len(text))
      /\ Len(Characters!Ends(text)) = n /\ Len(Characters!Ends(o)) = n /\ Characters!LastEnd(o) = Len(o)
      /\ \A k \in 1..n : Characters!LineOf(o, k) = Characters!Reverse(Characters!LineOf(text, k))
  BY DEF Characters!LineInHand, Characters!RevReverses
<1>3. /\ wc'.lines = n + IF c = "\n" THEN 1 ELSE 0
      /\ c = "\n" => rev'.out = o \o Characters!Reversed(Append(line, c)) /\ rev'.line = <<>>
      /\ c # "\n" => rev'.out = o /\ rev'.line = Append(line, c)
      /\ rev' = [out |-> rev'.out, line |-> rev'.line]
  BY DEF Characters!Count, Characters!Rev, Characters!Typed
<1>4. GoesOn(text, v)
  BY OneMore DEF GoesOn
<1>5. Characters!LastEnd(text) \in 0..Len(text) /\ \A k \in (Characters!LastEnd(text) + 1)..Len(text) : text[k] # "\n"
  BY EndsKnown
<1> HIDE DEF o, line, n, v
<1>6. CASE c = "\n"
  <2>1. Unended(line)
    <3> DEFINE l == Characters!LastEnd(text)
               m == Len(text)
    <3>1. l \in 0..m /\ m \in Nat
      BY <1>5
    <3> HIDE DEF l
    <3>2. line = SubSeq(text, l + 1, m) /\ (\A k \in (l + 1)..m : text[k] # "\n")
      BY <1>2, <1>5 DEF l
    <3>3. Len(line) = m - l /\ \A k \in 1..Len(line) : line[k] = text[l + k]
      BY <3>1, <3>2
    <3>4. \A k \in 1..Len(line) : l + k \in (l + 1)..m
      BY <3>1, <3>3
    <3> QED
      BY <3>2, <3>3, <3>4 DEF Unended
  <2>2. rev'.out = o \o Append(Characters!Reverse(line), c)
    BY <1>1, <1>3, <1>6, ReversedOf
  <2>3. /\ rev'.out \in Seq(Characters!Chars) /\ Len(Characters!Ends(rev'.out)) = n + 1 /\ Characters!LastEnd(rev'.out) = Len(rev'.out)
        /\ \A k \in 1..n : Characters!LineOf(rev'.out, k) = Characters!LineOf(o, k)
        /\ Characters!LineOf(rev'.out, n + 1) = Characters!Reverse(line)
    <3> DEFINE all == rev'.out
               cs == Characters!Chars
    <3>1. /\ o \in Seq(cs) /\ line \in Seq(cs) /\ c \in cs /\ c = "\n"
          /\ Printed(o, line, c, all)
      BY <1>1, <1>6, <2>2 DEF Printed
    <3> HIDE DEF all, cs
    <3>2. /\ all \in Seq(cs) /\ Len(Characters!Ends(all)) = Len(Characters!Ends(o)) + 1 /\ Characters!LastEnd(all) = Len(all)
          /\ \A k \in 1..Len(Characters!Ends(o)) : Characters!LineOf(all, k) = Characters!LineOf(o, k)
          /\ Characters!LastEnd(o) = Len(o) => Characters!LineOf(all, Len(Characters!Ends(o)) + 1) = Characters!Reverse(line)
      BY ONLY <2>1, <3>1, ReversedBehind
    <3> QED
      BY <1>2, <3>2 DEF all, cs
  <2>4. /\ Len(Characters!Ends(v)) = n + 1 /\ Characters!LastEnd(v) = Len(v)
        /\ (\A k \in 1..n : Characters!Ends(v)[k] = Characters!Ends(text)[k]) /\ Characters!LineOf(v, n + 1) = line
    BY <1>2, <1>6, LineEnded DEF v
  <2>5. \A k \in 1..n : Characters!LineOf(v, k) = Characters!LineOf(text, k)
    <3>1. SameEnds(text, v, n)
      BY <1>1, <1>2, <2>4 DEF SameEnds
    <3> QED
      BY <1>1, <1>4, <3>1, LinesStay
  <2>6. wc'.lines = n + 1 /\ rev'.line = <<>>
    BY <1>3, <1>6
  <2>7. rev'.line = SubSeq(v, Characters!LastEnd(v) + 1, Len(v))
    <3>1. Len(v) \in Nat
      BY <1>1
    <3>2. SubSeq(v, Len(v) + 1, Len(v)) = <<>>
      BY <1>1, <3>1
    <3> QED
      BY <2>4, <2>6, <3>2
  <2>8. \A k \in 1..(n + 1) : Characters!LineOf(rev'.out, k) = Characters!Reverse(Characters!LineOf(v, k))
    <3>1. \A k \in 1..(n + 1) : k \in 1..n \/ k = n + 1
      BY <1>1
    <3> QED
      BY <1>2, <2>3, <2>4, <2>5, <3>1
  <2>9. Characters!RevReverses' /\ Characters!LineInHand'
    <3>1. text' = v
      BY DEF v
    <3>2. Characters!RevReverses'
      BY <2>6, <2>8, <3>1 DEF Characters!RevReverses
    <3>3. Characters!LineInHand'
      BY <2>3, <2>4, <2>6, <2>7, <3>1 DEF Characters!LineInHand
    <3> QED
      BY <3>2, <3>3
  <2>10. rev'.line \in Seq(Characters!Chars)
    BY <2>6
  <2> QED
    BY <1>3, <2>3, <2>9, <2>10
<1>7. CASE c # "\n"
  <2>1. wc'.lines = n /\ rev'.out = o /\ rev'.line = Append(line, c)
    BY <1>1, <1>3, <1>7
  <2>2. Characters!Ends(v) = Characters!Ends(text) /\ Characters!LastEnd(v) = Characters!LastEnd(text)
    <3>1. Characters!Ends(v) = Characters!Ends(text)
      BY <1>7, EndsMore DEF v
    <3> QED
      BY <3>1 DEF Characters!LastEnd
  <2>3. rev'.line = SubSeq(v, Characters!LastEnd(v) + 1, Len(v))
    <3>1. SubSeq(v, Characters!LastEnd(text) + 1, Len(v)) = Append(SubSeq(text, Characters!LastEnd(text) + 1, Len(text)), c)
      BY <1>5, SubSeqMore DEF v
    <3> QED
      BY <1>2, <2>1, <2>2, <3>1
  <2>4. \A k \in 1..n : Characters!LineOf(v, k) = Characters!LineOf(text, k)
    <3>1. SameEnds(text, v, n)
      BY <1>1, <1>2, <2>2 DEF SameEnds
    <3> QED
      BY <1>1, <1>4, <3>1, LinesStay
  <2>5. Characters!RevReverses' /\ Characters!LineInHand'
    <3>1. text' = v
      BY DEF v
    <3>2. Characters!RevReverses'
      BY <1>2, <2>1, <2>4, <3>1 DEF Characters!RevReverses
    <3>3. Characters!LineInHand'
      BY <1>2, <2>1, <2>2, <2>3, <3>1 DEF Characters!LineInHand
    <3> QED
      BY <3>2, <3>3
  <2>6. rev'.line \in Seq(Characters!Chars)
    BY <1>1, <2>1
  <2> QED
    BY <1>1, <1>3, <2>1, <2>5, <2>6
<1> QED
  BY <1>6, <1>7

\* The end of the input.
LEMMA RevEnd ==
  ASSUME Characters!Typed, Characters!RevReverses, Characters!LineInHand, ~eof, eof' = TRUE, text \in Seq(Characters!Chars),
         UNCHANGED <<text, wc>>,
         rev' = IF rev.line = <<>> THEN rev ELSE [out |-> rev.out \o Characters!Reversed(rev.line), line |-> <<>>]
  PROVE  rev' \in [out : Seq(Characters!Chars), line : Seq(Characters!Chars)] /\ Characters!RevReverses' /\ Characters!LineInHand'
<1> DEFINE o == rev.out
           line == rev.line
           n == wc.lines
           f == SubSeq(line, 1, Len(line) - 1)
           nline == "\n"
<1>1. o \in Seq(Characters!Chars) /\ line \in Seq(Characters!Chars) /\ rev = [out |-> o, line |-> line] /\ nline \in Characters!Chars
  BY CharSizes DEF Characters!Typed
<1>2. /\ line = SubSeq(text, Characters!LastEnd(text) + 1, Len(text)) /\ Len(Characters!Ends(o)) = n
      /\ \A k \in 1..n : Characters!LineOf(o, k) = Characters!Reverse(Characters!LineOf(text, k))
  BY DEF Characters!LineInHand, Characters!RevReverses
<1>3. Characters!LineInHand'
  BY DEF Characters!LineInHand
<1>4. CASE line = <<>>
  <2>1. rev' = rev
    BY <1>4
  <2> QED
    BY <1>1, <1>3, <2>1 DEF Characters!RevReverses
<1>5. CASE line # <<>>
  <2>1. Characters!LastEnd(text) \in 0..Len(text) /\ \A k \in (Characters!LastEnd(text) + 1)..Len(text) : text[k] # "\n"
    BY EndsKnown
  <2>2. Unended(line)
    <3> DEFINE l == Characters!LastEnd(text)
               m == Len(text)
    <3>1. l \in 0..m /\ m \in Nat
      BY <2>1
    <3> HIDE DEF l, line
    <3>2. line = SubSeq(text, l + 1, m) /\ (\A k \in (l + 1)..m : text[k] # "\n")
      BY <1>2, <2>1 DEF l
    <3>3. Len(line) = m - l /\ \A k \in 1..Len(line) : line[k] = text[l + k]
      BY <3>1, <3>2
    <3>4. \A k \in 1..Len(line) : l + k \in (l + 1)..m
      BY <3>1, <3>3
    <3> QED
      BY <3>2, <3>3, <3>4 DEF Unended
  <2>3. rev'.out = o \o Characters!Reversed(line) /\ rev'.line = <<>> /\ rev' = [out |-> rev'.out, line |-> rev'.line]
    BY <1>5
  <2> HIDE DEF line, o
  <2>4. f \in Seq(Characters!Chars) /\ Unended(f)
    <3>0. line # <<>>
      BY <1>5
    <3>1. Len(line) \in Nat \ {0} /\ Len(f) = Len(line) - 1 /\ f \in Seq(Characters!Chars)
      <4> DEFINE cs == Characters!Chars
      <4>1. line \in Seq(cs)
        BY <1>1
      <4> HIDE DEF cs
      <4>2. Len(line) \in Nat \ {0} /\ Len(f) = Len(line) - 1 /\ f \in Seq(cs)
        BY ONLY <3>0, <4>1 DEF f
      <4> QED
        BY <4>2 DEF cs
    <3>2. \A k \in 1..Len(f) : k \in 1..Len(line) /\ f[k] = line[k]
      BY <1>1, <3>1
    <3> QED
      BY <2>2, <3>1, <3>2 DEF Unended
  <2>5. Characters!Reversed(line) = Append(Characters!Reverse(f), nline)
    BY DEF Characters!Reversed
  <2> HIDE DEF f, nline
  <2>6. rev'.out \in Seq(Characters!Chars) /\ \A k \in 1..n : Characters!LineOf(rev'.out, k) = Characters!LineOf(o, k)
    <3>1. rev'.out = o \o Append(Characters!Reverse(f), nline) /\ nline = "\n"
      BY <2>3, <2>5 DEF nline
    <3> QED
      <4> DEFINE all == rev'.out
                 cs == Characters!Chars
      <4>1. Printed(o, f, nline, all)
        BY <3>1 DEF Printed
      <4>2. o \in Seq(cs) /\ f \in Seq(cs) /\ nline \in cs
        BY <1>1, <2>4
      <4> HIDE DEF all, cs
      <4>3. all \in Seq(cs) /\ \A k \in 1..Len(Characters!Ends(o)) : Characters!LineOf(all, k) = Characters!LineOf(o, k)
        BY ONLY <2>4, <3>1, <4>1, <4>2, ReversedBehind
      <4> QED
        BY <1>2, <4>3 DEF all, cs
  <2>7. Characters!RevReverses'
    BY <1>2, <2>6 DEF Characters!RevReverses, n
  <2>8. rev'.line \in Seq(Characters!Chars)
    <3>1. <<>> \in Seq(Characters!Chars)
      OBVIOUS
    <3> QED
      BY <2>3, <3>1
  <2> QED
    BY <1>3, <2>3, <2>6, <2>7, <2>8
<1> QED
  BY <1>4, <1>5

\* makewords.c: e is where the run of letters that begins at k ends.
EndIs(s, k, e) == /\ e \in k..(Len(s) + 1) /\ (e = Len(s) + 1 \/ ~Characters!Letter(s[e]))
                  /\ \A j_ \in k..(e - 1) : Characters!Letter(s[j_])

LEMMA EndOfIs ==
  ASSUME NEW s, Len(s) \in Nat, NEW k \in 1..(Len(s) + 1)
  PROVE  EndIs(s, k, Characters!EndOf(s, k))
<1> DEFINE T == {j_ \in k..(Len(s) + 1) : j_ = Len(s) + 1 \/ ~Characters!Letter(s[j_])}
           e == Characters!EndOf(s, k)
<1>1. Len(s) + 1 \in T
  OBVIOUS
<1>2. T \in SUBSET Nat /\ T # {}
  BY <1>1
<1>3. \E x_ \in T : \A y_ \in T : x_ <= y_
  BY <1>2, Smallest
<1>4. e = CHOOSE x_ \in T : \A y_ \in T : x_ <= y_
  BY DEF Characters!EndOf, Characters!Min
<1> HIDE DEF e
<1>5. e \in T /\ \A y_ \in T : e <= y_
  BY <1>3, <1>4
<1>6. ASSUME NEW j_ \in k..(e - 1) PROVE Characters!Letter(s[j_])
  <2>1. j_ \in k..(Len(s) + 1) /\ j_ < e /\ j_ # Len(s) + 1
    BY <1>5
  <2>2. j_ \notin T
    BY <1>2, <1>5, <2>1
  <2> QED
    BY <2>1, <2>2
<1>7. EndIs(s, k, e)
  BY <1>5, <1>6 DEF EndIs
<1> QED
  BY <1>7 DEF e

LEMMA EndUnique ==
  ASSUME NEW s, Len(s) \in Nat, NEW k \in 1..(Len(s) + 1), NEW d, NEW e, EndIs(s, k, d), EndIs(s, k, e)
  PROVE  d = e
<1>1. /\ d \in k..(Len(s) + 1) /\ e \in k..(Len(s) + 1)
      /\ (d = Len(s) + 1 \/ ~Characters!Letter(s[d])) /\ (e = Len(s) + 1 \/ ~Characters!Letter(s[e]))
      /\ (\A j_ \in k..(e - 1) : Characters!Letter(s[j_])) /\ (\A j_ \in k..(d - 1) : Characters!Letter(s[j_]))
  BY DEF EndIs
<1>2. ~(d < e)
  <2> SUFFICES ASSUME d < e PROVE FALSE
    OBVIOUS
  <2>1. d \in k..(e - 1) /\ d # Len(s) + 1
    BY <1>1
  <2> QED
    BY <1>1, <2>1
<1>3. ~(e < d)
  <2> SUFFICES ASSUME e < d PROVE FALSE
    OBVIOUS
  <2>1. e \in k..(d - 1) /\ e # Len(s) + 1
    BY <1>1
  <2> QED
    BY <1>1, <2>1
<1> QED
  BY <1>1, <1>2, <1>3

\* The end of a run moves only if it was the end of the text.
LEMMA EndMoves ==
  ASSUME NEW X, NEW s, NEW c, s \in Seq(X), c \in X, NEW k \in 1..Len(s)
  PROVE  /\ Characters!EndOf(s, k) \in k..(Len(s) + 1)
         /\ Characters!EndOf(Append(s, c), k) =
              IF Characters!EndOf(s, k) = Len(s) + 1 /\ Characters!Letter(c) THEN Len(s) + 2 ELSE Characters!EndOf(s, k)
<1> DEFINE u == Append(s, c)
           n == Len(s)
           e == Characters!EndOf(s, k)
           f == IF e = n + 1 /\ Characters!Letter(c) THEN n + 2 ELSE e
<1>1. /\ n \in Nat /\ Len(u) = n + 1 /\ u[n + 1] = c /\ (\A j_ \in 1..n : u[j_] = s[j_]) /\ k \in 1..n
  BY OneMore
<1>2. EndIs(s, k, e)
  BY <1>1, EndOfIs
<1>3. /\ e \in k..(n + 1) /\ (e = n + 1 \/ ~Characters!Letter(s[e]))
      /\ (\A j_ \in k..(e - 1) : Characters!Letter(s[j_]))
  BY <1>2 DEF EndIs
<1> HIDE DEF u, n, e
<1>4. f \in k..(n + 2)
  BY <1>1, <1>3
<1>5. f = n + 2 \/ ~Characters!Letter(u[f])
  <2>1. CASE e = n + 1
    BY <1>1, <2>1
  <2>2. CASE e # n + 1
    <3>1. e \in 1..n /\ f = e
      BY <1>1, <1>3, <2>2
    <3> QED
      BY <1>1, <1>3, <2>2, <3>1
  <2> QED
    BY <2>1, <2>2
<1>6. ASSUME NEW j_ \in k..(f - 1) PROVE Characters!Letter(u[j_])
  <2>1. CASE j_ = n + 1
    <3>1. f # e
      BY <1>1, <1>3, <1>6, <2>1
    <3> QED
      BY <1>1, <2>1, <3>1
  <2>2. CASE j_ # n + 1
    <3>1. j_ \in k..(e - 1) /\ j_ \in 1..n
      BY <1>1, <1>3, <1>6, <2>2
    <3> QED
      BY <1>1, <1>3, <3>1
  <2> QED
    BY <2>1, <2>2
<1> HIDE DEF f
<1>7. EndIs(u, k, f)
  <2>1. (n + 1) + 1 = n + 2
    BY <1>1
  <2> QED
    BY <1>1, <1>4, <1>5, <1>6, <2>1 DEF EndIs
<1>8. EndIs(u, k, Characters!EndOf(u, k)) /\ Len(u) \in Nat /\ k \in 1..(Len(u) + 1)
  <2>1. Len(u) \in Nat /\ k \in 1..(Len(u) + 1)
    BY <1>1
  <2> QED
    BY <2>1, EndOfIs
<1>9. Characters!EndOf(u, k) = f
  BY <1>7, <1>8, EndUnique
<1> QED
  BY <1>3, <1>9 DEF u, n, e, f

\* Where runs begin.
RunAt(s) == {j_ \in DOMAIN s : Characters!Letter(s[j_]) /\ (j_ = 1 \/ ~Characters!Letter(s[j_ - 1]))}

LEMMA StartsMore ==
  ASSUME NEW X, NEW s, NEW c, s \in Seq(X), c \in X
  PROVE  Characters!Starts(Append(s, c)) =
           IF Characters!Letter(c) /\ (s = <<>> \/ ~Characters!Letter(s[Len(s)]))
           THEN Append(Characters!Starts(s), Len(s) + 1) ELSE Characters!Starts(s)
<1> DEFINE u == Append(s, c)
           m == Len(s)
           K == RunAt(s)
           L == RunAt(u)
<1>1. /\ m \in Nat /\ u[m + 1] = c /\ \A j_ \in 1..m : u[j_] = s[j_]
      /\ DOMAIN s = 1..m /\ DOMAIN u = 1..(m + 1) /\ Len(u) = m + 1 /\ (s = <<>> <=> m = 0)
  BY OneMore
<1>2. Characters!Starts(s) = Characters!Ascending(m, K) /\ Characters!Starts(u) = Characters!Ascending(m + 1, L)
  BY <1>1 DEF Characters!Starts, RunAt
<1> HIDE DEF u, m
<1>3. \A j_ \in 1..m : j_ \in K <=> j_ \in L
  <2>1. \A j_ \in 1..m : j_ \in 1..(m + 1) /\ u[j_] = s[j_] /\ (j_ # 1 => u[j_ - 1] = s[j_ - 1])
    <3>1. \A j_ \in 1..m : j_ \in 1..(m + 1) /\ (j_ # 1 => j_ - 1 \in 1..m)
      BY <1>1
    <3> QED
      BY <1>1, <3>1
  <2> QED
    BY <1>1, <2>1 DEF RunAt
<1>4. m + 1 \in L <=> Characters!Letter(c) /\ (m = 0 \/ ~Characters!Letter(s[m]))
  <2>1. m + 1 \in 1..(m + 1) /\ (m + 1) - 1 = m /\ (m + 1 = 1 <=> m = 0) /\ (m # 0 => u[m] = s[m])
    BY <1>1
  <2> QED
    BY <1>1, <2>1 DEF RunAt
<1> HIDE DEF K, L
<1>5. Characters!Ascending(m, K) = Characters!Ascending(m, L)
  BY <1>1, <1>3, Characters!AscendingAgree
<1>6. Characters!Ascending(m + 1, L) = IF m + 1 \in L THEN Append(Characters!Ascending(m, L), m + 1) ELSE Characters!Ascending(m, L)
  BY <1>1, Characters!AscendingStep
<1> QED
  BY <1>1, <1>2, <1>4, <1>5, <1>6 DEF u, m

\* Runs begin in order, each ends before the next, and only the last one can
\* reach the end of the text.
LEMMA StartsKnown ==
  ASSUME NEW X, NEW s, s \in Seq(X)
  PROVE  /\ Characters!Starts(s) \in Seq(Nat) /\ Len(Characters!Starts(s)) \in Nat
         /\ \A k \in 1..Len(Characters!Starts(s)) : Characters!Starts(s)[k] \in 1..Len(s)
         /\ \A k \in 1..(Len(Characters!Starts(s)) - 1) : Characters!EndOf(s, Characters!Starts(s)[k]) # Len(s) + 1
         /\ s # <<>> /\ Characters!Letter(s[Len(s)]) =>
              /\ Len(Characters!Starts(s)) > 0
              /\ Characters!EndOf(s, Characters!Starts(s)[Len(Characters!Starts(s))]) = Len(s) + 1
         /\ s = <<>> \/ ~Characters!Letter(s[Len(s)]) =>
              \A k \in 1..Len(Characters!Starts(s)) : Characters!EndOf(s, Characters!Starts(s)[k]) # Len(s) + 1
<1> DEFINE a == Characters!Starts(s)
           m == Len(s)
           K == RunAt(s)
           z == Len(a)
<1>1. m \in Nat /\ DOMAIN s = 1..m /\ (s = <<>> <=> m = 0)
  BY OneMore
<1>2. a = Characters!Ascending(m, K)
  BY DEF Characters!Starts, RunAt
<1>3. Characters!Ascends(Characters!Ascending(m, K), m, K)
  BY <1>1, Characters!AscendingAscends
<1>4. \A k \in 1..m : k \in K <=> Characters!Letter(s[k]) /\ (k = 1 \/ ~Characters!Letter(s[k - 1]))
  BY <1>1 DEF RunAt
<1> HIDE DEF a, K
<1>5. /\ a \in Seq(Nat)
      /\ \A x_ \in 1..z : a[x_] \in K /\ a[x_] \in 1..m
      /\ \A x_, y_ \in 1..z : x_ < y_ => a[x_] < a[y_]
      /\ \A k \in 1..m : k \in K => \E x_ \in 1..z : a[x_] = k
  BY <1>2, <1>3 DEF Characters!Ascends
<1>6. z \in Nat
  BY <1>5
<1>7. \A k \in 1..m : EndIs(s, k, Characters!EndOf(s, k))
  BY <1>1, EndOfIs
<1> HIDE DEF m, z
<1>8. ASSUME NEW k \in 1..m, Characters!EndOf(s, k) = m + 1 PROVE \A j_ \in k..m : Characters!Letter(s[j_])
  <2>1. EndIs(s, k, m + 1) /\ (m + 1) - 1 = m
    BY <1>1, <1>7, <1>8
  <2> QED
    BY <2>1 DEF EndIs, m
<1>9. ASSUME NEW x_ \in 1..z, NEW y_ \in 1..z, x_ < y_ PROVE Characters!EndOf(s, a[x_]) # m + 1
  <2> SUFFICES ASSUME Characters!EndOf(s, a[x_]) = m + 1 PROVE FALSE
    OBVIOUS
  <2>1. a[x_] \in 1..m /\ a[y_] \in 1..m /\ a[x_] < a[y_] /\ a[y_] \in K
    BY <1>5, <1>9
  <2>2. \A j_ \in a[x_]..m : Characters!Letter(s[j_])
    BY <1>8, <2>1
  <2>3. a[y_] - 1 \in a[x_]..m /\ a[y_] # 1
    BY <1>1, <2>1
  <2> QED
    BY <1>4, <2>1, <2>2, <2>3
<1>10. ASSUME NEW k \in 1..(z - 1) PROVE Characters!EndOf(s, a[k]) # m + 1
  <2>1. k \in 1..z /\ z \in 1..z /\ k < z
    BY <1>6
  <2> QED
    BY <1>9, <2>1
<1>11. ASSUME m # 0, Characters!Letter(s[m]) PROVE z > 0 /\ Characters!EndOf(s, a[z]) = m + 1
  <2> DEFINE B == {b \in 1..m : \A j_ \in b..m : Characters!Letter(s[j_])}
  <2>1. m \in B
    BY <1>1, <1>11
  <2>2. B \in SUBSET Nat /\ B # {}
    BY <2>1
  <2>3. PICK b \in B : \A d \in B : b <= d
    BY <2>2, Smallest
  <2>4. b \in 1..m /\ \A j_ \in b..m : Characters!Letter(s[j_])
    BY <2>3
  <2>5. b = 1 \/ ~Characters!Letter(s[b - 1])
    <3> SUFFICES ASSUME b # 1, Characters!Letter(s[b - 1]) PROVE FALSE
      OBVIOUS
    <3>1. b - 1 \in 1..m /\ \A j_ \in (b - 1)..m : j_ = b - 1 \/ j_ \in b..m
      BY <1>1, <2>4
    <3>2. b - 1 \in B
      BY <2>4, <3>1
    <3> QED
      BY <2>3, <2>4, <3>2
  <2>6. b \in b..m
    BY <1>1, <2>4
  <2>7. PICK x_ \in 1..z : a[x_] = b
    BY <1>4, <1>5, <2>4, <2>5, <2>6
  <2>8. Characters!EndOf(s, b) = m + 1
    <3>1. EndIs(s, b, Characters!EndOf(s, b))
      BY <1>7, <2>4
    <3>2. EndIs(s, b, m + 1)
      <4>1. m + 1 \in b..(m + 1) /\ (m + 1) - 1 = m
        BY <1>1, <2>4
      <4> QED
        BY <2>4, <4>1 DEF EndIs, m
    <3>3. Len(s) \in Nat /\ b \in 1..(Len(s) + 1)
      BY <1>1, <2>4 DEF m
    <3> QED
      BY <3>1, <3>2, <3>3, EndUnique
  <2>9. x_ = z
    <3> SUFFICES ASSUME x_ # z PROVE FALSE
      OBVIOUS
    <3>1. z \in 1..z /\ x_ < z
      BY <1>6, <2>7
    <3> QED
      BY <1>9, <2>7, <2>8, <3>1
  <2> QED
    BY <1>6, <2>7, <2>8, <2>9
<1>12. ASSUME m = 0 \/ ~Characters!Letter(s[m]), NEW k \in 1..z PROVE Characters!EndOf(s, a[k]) # m + 1
  <2> SUFFICES ASSUME Characters!EndOf(s, a[k]) = m + 1 PROVE FALSE
    OBVIOUS
  <2>1. a[k] \in 1..m
    BY <1>5
  <2>2. m \in a[k]..m
    BY <1>1, <2>1
  <2> QED
    BY <1>1, <1>8, <1>12, <2>1, <2>2
<1> QED
  BY <1>1, <1>5, <1>6, <1>10, <1>11, <1>12 DEF a, m, z

LEMMA SubSeqStays ==
  ASSUME NEW X, NEW s, NEW c, s \in Seq(X), c \in X, NEW i_ \in Nat \ {0}, NEW j_ \in Nat, j_ <= Len(s)
  PROVE  SubSeq(Append(s, c), i_, j_) = SubSeq(s, i_, j_)
OBVIOUS

LEMMA OnePiece ==
  ASSUME NEW X, NEW s, s \in Seq(X), NEW i_ \in 1..Len(s)
  PROVE  SubSeq(s, i_, i_) = <<s[i_]>>
<1> DEFINE a == SubSeq(s, i_, i_)
           b == <<s[i_]>>
<1>1. a \in Seq(X) /\ Len(a) = 1 /\ a[1] = s[i_]
  OBVIOUS
<1>2. b \in Seq(X) /\ Len(b) = 1 /\ b[1] = s[i_]
  OBVIOUS
<1> HIDE DEF a, b
<1>3. a = b
  <2>1. \A k \in 1..1 : a[k] = b[k]
    BY <1>1, <1>2
  <2> QED
    BY <1>1, <1>2, <2>1
<1> QED
  BY <1>3 DEF a, b

\* The runs of a text, and what they become with one character more.
LEMMA RunsMore ==
  ASSUME NEW X, NEW s, NEW c, s \in Seq(X), c \in X
  PROVE  /\ Characters!Runs(s) \in Seq(Seq(X))
         /\ ~Characters!Letter(c) => Characters!Runs(Append(s, c)) = Characters!Runs(s)
         /\ Characters!Letter(c) /\ (s = <<>> \/ ~Characters!Letter(s[Len(s)])) =>
              Characters!Runs(Append(s, c)) = Append(Characters!Runs(s), <<c>>)
         /\ Characters!Letter(c) /\ s # <<>> /\ Characters!Letter(s[Len(s)]) =>
              /\ Len(Characters!Runs(s)) > 0 /\ Len(Characters!Runs(Append(s, c))) = Len(Characters!Runs(s))
              /\ \A k \in 1..(Len(Characters!Runs(s)) - 1) : Characters!Runs(Append(s, c))[k] = Characters!Runs(s)[k]
              /\ Characters!Runs(Append(s, c))[Len(Characters!Runs(s))] = Append(Characters!Runs(s)[Len(Characters!Runs(s))], c)
<1> DEFINE u == Append(s, c)
           n == Len(s)
           a == Characters!Starts(s)
           b == Characters!Starts(u)
           z == Len(a)
           r == Characters!Runs(s)
           q == Characters!Runs(u)
<1>1. /\ n \in Nat /\ Len(u) = n + 1 /\ u[n + 1] = c /\ u \in Seq(X) /\ (s = <<>> <=> n = 0)
  BY OneMore
<1>2. b = IF Characters!Letter(c) /\ (s = <<>> \/ ~Characters!Letter(s[n])) THEN Append(a, n + 1) ELSE a
  BY StartsMore
<1>3. /\ a \in Seq(Nat) /\ z \in Nat /\ (\A k \in 1..z : a[k] \in 1..n)
      /\ (\A k \in 1..(z - 1) : Characters!EndOf(s, a[k]) # n + 1)
      /\ (s # <<>> /\ Characters!Letter(s[n]) => z > 0 /\ Characters!EndOf(s, a[z]) = n + 1)
      /\ (s = <<>> \/ ~Characters!Letter(s[n]) => \A k \in 1..z : Characters!EndOf(s, a[k]) # n + 1)
  BY StartsKnown
<1>4. r = [k \in 1..z |-> SubSeq(s, a[k], Characters!EndOf(s, a[k]) - 1)]
  BY DEF Characters!Runs
<1>5. q = [k \in 1..Len(b) |-> SubSeq(u, b[k], Characters!EndOf(u, b[k]) - 1)]
  BY DEF Characters!Runs
<1>6. ASSUME NEW k \in 1..z
      PROVE  /\ Characters!EndOf(s, a[k]) \in a[k]..(n + 1)
             /\ Characters!EndOf(u, a[k]) = IF Characters!EndOf(s, a[k]) = n + 1 /\ Characters!Letter(c) THEN n + 2 ELSE Characters!EndOf(s, a[k])
  BY <1>3, EndMoves
<1>7. ASSUME NEW k \in 1..z PROVE SubSeq(s, a[k], Characters!EndOf(s, a[k]) - 1) \in Seq(X)
  <2> DEFINE i_ == a[k]
             j_ == Characters!EndOf(s, a[k]) - 1
  <2>1. i_ \in 1..n /\ j_ \in Int /\ j_ <= n
    BY <1>1, <1>3, <1>6
  <2> HIDE DEF i_, j_
  <2>2. SubSeq(s, i_, j_) \in Seq(X)
    BY <1>1, <2>1
  <2> QED
    BY <2>2 DEF i_, j_
<1>8. r \in Seq(Seq(X)) /\ Len(r) = z
  BY <1>3, <1>4, <1>7
<1>9. ASSUME NEW k \in 1..z, ~(Characters!EndOf(s, a[k]) = n + 1 /\ Characters!Letter(c))
      PROVE  SubSeq(u, a[k], Characters!EndOf(u, a[k]) - 1) = r[k]
  <2> DEFINE i_ == a[k]
             j_ == Characters!EndOf(s, a[k]) - 1
  <2>1. i_ \in Nat \ {0} /\ j_ \in Nat /\ j_ <= n /\ Characters!EndOf(u, a[k]) - 1 = j_
    BY <1>1, <1>3, <1>6, <1>9
  <2>2. r[k] = SubSeq(s, i_, j_)
    BY <1>4
  <2> HIDE DEF i_, j_, u
  <2>3. SubSeq(u, i_, j_) = SubSeq(s, i_, j_)
    BY <2>1, SubSeqStays DEF u
  <2> QED
    BY <2>1, <2>2, <2>3 DEF i_
<1>10. ASSUME NEW k \in 1..z, Characters!EndOf(s, a[k]) = n + 1, Characters!Letter(c)
       PROVE  SubSeq(u, a[k], Characters!EndOf(u, a[k]) - 1) = Append(r[k], c)
  <2> DEFINE l == a[k] - 1
  <2>1. l \in 0..n /\ a[k] = l + 1 /\ Characters!EndOf(u, a[k]) - 1 = n + 1 /\ Characters!EndOf(s, a[k]) - 1 = n
    BY <1>1, <1>3, <1>6, <1>10
  <2>2. r[k] = SubSeq(s, l + 1, n)
    BY <1>4, <2>1
  <2> HIDE DEF l
  <2>3. SubSeq(u, l + 1, n + 1) = Append(SubSeq(s, l + 1, n), c)
    <3>1. s \in Seq(X) /\ c \in X /\ l \in 0..Len(s)
      BY <2>1
    <3>2. SubSeq(Append(s, c), l + 1, Len(Append(s, c))) = Append(SubSeq(s, l + 1, Len(s)), c)
      BY ONLY <3>1, SubSeqMore, ZenonT(60)
    <3> QED
      BY <1>1, <3>2
  <2> QED
    BY <2>1, <2>2, <2>3
<1> HIDE DEF a, b, r, q
<1>11. CASE ~Characters!Letter(c)
  <2>1. b = a
    BY <1>2, <1>11
  <2>2. q = [k \in 1..z |-> SubSeq(u, a[k], Characters!EndOf(u, a[k]) - 1)]
    BY <1>5, <2>1
  <2>3. \A k \in 1..z : q[k] = r[k]
    BY <1>9, <1>11, <2>2
  <2> HIDE DEF u, z
  <2>4. q = r
    BY <1>4, <2>2, <2>3
  <2> QED
    BY <1>8, <1>11, <2>4 DEF q, r, u
<1>12. CASE Characters!Letter(c) /\ (s = <<>> \/ ~Characters!Letter(s[n]))
  <2>1. b = Append(a, n + 1)
    BY <1>2, <1>12
  <2>2. Len(b) = z + 1 /\ b[z + 1] = n + 1 /\ \A k \in 1..z : b[k] = a[k]
    BY <1>3, <2>1
  <2>3. q[z + 1] = <<c>>
    <3>1. EndIs(u, n + 1, n + 2)
      <4>1. /\ n + 2 \in (n + 1)..((n + 1) + 1) /\ n + 2 = (n + 1) + 1
            /\ \A j_ \in (n + 1)..((n + 2) - 1) : j_ = n + 1
        BY <1>1
      <4> QED
        BY <1>1, <1>12, <4>1 DEF EndIs
    <3>2. Len(u) \in Nat /\ n + 1 \in 1..(Len(u) + 1)
      BY <1>1
    <3>3. EndIs(u, n + 1, Characters!EndOf(u, n + 1))
      BY <3>2, EndOfIs
    <3>4. Characters!EndOf(u, n + 1) = n + 2
      BY <3>1, <3>2, <3>3, EndUnique
    <3>5. z + 1 \in 1..(z + 1) /\ (n + 2) - 1 = n + 1
      BY <1>1, <1>3
    <3>6. q[z + 1] = SubSeq(u, n + 1, n + 1)
      BY <1>5, <2>2, <3>4, <3>5
    <3> HIDE DEF u, n
    <3>7. SubSeq(u, n + 1, n + 1) = <<u[n + 1]>>
      BY <1>1, <3>2, OnePiece
    <3> QED
      BY <1>1, <3>6, <3>7
  <2>4. \A k \in 1..z : q[k] = r[k]
    <3>1. ASSUME NEW k \in 1..z PROVE q[k] = r[k]
      <4>1. k \in 1..(z + 1)
        BY <1>3
      <4>2. q[k] = SubSeq(u, a[k], Characters!EndOf(u, a[k]) - 1)
        BY <1>5, <2>2, <4>1
      <4> QED
        BY <1>3, <1>9, <1>12, <4>2
    <3> QED
      BY <3>1
  <2> DEFINE d == <<c>>
             w == Append(r, d)
  <2>5. d \in Seq(X)
    BY <1>1
  <2> HIDE DEF d
  <2>6. Len(w) = z + 1 /\ w[z + 1] = d /\ (\A k \in 1..z : w[k] = r[k]) /\ w \in Seq(Seq(X))
    BY <1>8, <2>5, OneMore
  <2>7. DOMAIN q = 1..(z + 1) /\ q = [k \in 1..(z + 1) |-> q[k]]
    <3> HIDE DEF u
    <3> QED
      BY <1>5, <2>2
  <2> HIDE DEF w, u, z, n
  <2>8. \A k \in 1..(z + 1) : q[k] = w[k]
    <3>1. \A k \in 1..(z + 1) : k \in 1..z \/ k = z + 1
      BY <1>3
    <3> QED
      BY <2>3, <2>4, <2>6, <3>1 DEF d
  <2>9. w = [k \in 1..(z + 1) |-> w[k]]
    BY <2>6
  <2>10. q = w
    BY <2>7, <2>8, <2>9
  <2> QED
    BY <1>8, <1>12, <2>10 DEF q, r, u, w, d, n
<1>13. CASE Characters!Letter(c) /\ s # <<>> /\ Characters!Letter(s[n])
  <2>1. b = a
    BY <1>2, <1>13
  <2>2. q = [k \in 1..z |-> SubSeq(u, a[k], Characters!EndOf(u, a[k]) - 1)]
    BY <1>5, <2>1
  <2>3. \A k \in 1..(z - 1) : q[k] = r[k]
    <3>1. ASSUME NEW k \in 1..(z - 1) PROVE q[k] = r[k]
      <4>1. k \in 1..z /\ Characters!EndOf(s, a[k]) # n + 1
        BY <1>3
      <4> QED
        BY <1>9, <2>2, <4>1
    <3> QED
      BY <3>1
  <2>4. z > 0 /\ q[z] = Append(r[z], c)
    <3>1. z \in 1..z /\ Characters!EndOf(s, a[z]) = n + 1 /\ z > 0
      BY <1>3, <1>13
    <3> QED
      BY <1>10, <1>13, <2>2, <3>1
  <2>5. Len(q) = z
    <3> HIDE DEF z, u
    <3> QED
      BY <1>3, <2>2
  <2> HIDE DEF z
  <2> QED
    BY <1>8, <1>13, <2>3, <2>4, <2>5 DEF q, r, u, n
<1> QED
  BY <1>11, <1>12, <1>13

LEMMA RunsType == ASSUME NEW X, NEW s, s \in Seq(X) PROVE Characters!Runs(s) \in Seq(Seq(X))
<1> DEFINE a == Characters!Starts(s)
           n == Len(s)
           z == Len(a)
           r == Characters!Runs(s)
<1>1. r = [k \in 1..z |-> SubSeq(s, a[k], Characters!EndOf(s, a[k]) - 1)]
  BY DEF Characters!Runs
<1>2. z \in Nat /\ n \in Nat /\ \A k \in 1..z : a[k] \in 1..n
  BY StartsKnown
<1>3. ASSUME NEW k \in 1..z PROVE SubSeq(s, a[k], Characters!EndOf(s, a[k]) - 1) \in Seq(X)
  <2> DEFINE i_ == a[k]
             j_ == Characters!EndOf(s, a[k]) - 1
  <2>1. EndIs(s, i_, Characters!EndOf(s, i_))
    BY <1>2, EndOfIs
  <2>2. i_ \in 1..n /\ j_ \in Int /\ j_ <= n
    BY <1>2, <2>1 DEF EndIs
  <2> HIDE DEF i_, j_
  <2>3. SubSeq(s, i_, j_) \in Seq(X)
    BY <2>2
  <2> QED
    BY <2>3 DEF i_, j_
<1> HIDE DEF r, z
<1>4. r \in Seq(Seq(X))
  BY <1>1, <1>2, <1>3
<1> QED
  BY <1>4 DEF r

\* One field or another of a record is replaced.
LEMMA WordsExcept ==
  ASSUME NEW A, NEW B, NEW G, NEW s \in [out : A, b : B, full : G], NEW x_
  PROVE  /\ [s EXCEPT !.full = x_] = [out |-> s.out, b |-> s.b, full |-> x_]
         /\ [s EXCEPT !.b = x_] = [out |-> s.out, b |-> x_, full |-> s.full]
<1>1. [s EXCEPT !.full = x_] = [out |-> s.out, b |-> s.b, full |-> x_]
  OBVIOUS
<1>2. [s EXCEPT !.b = x_] = [out |-> s.out, b |-> x_, full |-> s.full]
  OBVIOUS
<1> QED
  BY <1>1, <1>2

LEMMA MakewordsGetc ==
  ASSUME Characters!Typed, Characters!MakewordsSplits, Characters!WordInHand, Len(words.b) < WordSize, text \in Seq(Characters!Chars),
         NEW c \in Characters!Chars, text' = Append(text, c), words' = Characters!Makewords(words, c)
  PROVE  /\ words' \in [out : Seq(Seq(Characters!Chars)), b : Seq(Characters!Chars), full : BOOLEAN]
         /\ Len(words'.b) < WordSize /\ Characters!MakewordsSplits' /\ Characters!WordInHand'
<1> DEFINE o == words.out
           w == words.b
           r == Characters!Runs(text)
           q == Characters!Runs(Append(text, c))
           held == IF w = <<>> THEN o ELSE Append(o, w)
<1>1. /\ o \in Seq(Seq(Characters!Chars)) /\ w \in Seq(Characters!Chars) /\ words.full \in BOOLEAN
      /\ words = [out |-> o, b |-> w, full |-> words.full]
  BY DEF Characters!Typed
<1>2. WordSize \in Nat \ {0, 1}
  BY CharSizes
<1>3. ~words.full => r = held /\ (w = <<>> <=> ~Characters!Letter(Characters!Latest))
  <2>1. ~words.full => r = o \o IF w = <<>> THEN <<>> ELSE <<w>>
    BY DEF Characters!MakewordsSplits
  <2>2. o \o <<>> = o /\ o \o <<w>> = Append(o, w)
    BY <1>1
  <2> HIDE DEF o, w, r
  <2> QED
    BY <2>1, <2>2 DEF Characters!WordInHand, o, w
<1>4. Len(o) <= Len(r) /\ SubSeq(o, 1, Len(o)) = SubSeq(r, 1, Len(o))
  BY DEF Characters!MakewordsSplits, Characters!IsPrefix
<1>5. words.full => Len(o) < Len(r)
  BY DEF Characters!WordInHand
<1>6. Characters!Letter(Characters!Latest) <=> text # <<>> /\ Characters!Letter(text[Len(text)])
  BY DEF Characters!Latest, Characters!Letter
<1>7. /\ r \in Seq(Seq(Characters!Chars))
      /\ ~Characters!Letter(c) => q = r
      /\ Characters!Letter(c) /\ ~Characters!Letter(Characters!Latest) => q = Append(r, <<c>>)
      /\ Characters!Letter(c) /\ Characters!Letter(Characters!Latest) =>
           /\ Len(r) > 0 /\ Len(q) = Len(r) /\ (\A k \in 1..(Len(r) - 1) : q[k] = r[k])
           /\ q[Len(r)] = Append(r[Len(r)], c)
  BY <1>6, RunsMore
<1>8. q \in Seq(Seq(Characters!Chars))
  <2>1. Append(text, c) \in Seq(Characters!Chars)
    BY OneMore
  <2> QED
    BY <2>1, RunsType
<1>9. text' = Append(text, c) /\ Characters!Latest' = c
  BY LatestNow
<1> HIDE DEF o, w, r, q
<1>10. CASE words.full \/ ~Characters!Room(w)
  <2>1. words' = [words EXCEPT !.full = TRUE]
    BY <1>10 DEF Characters!Makewords, w
  <2>2. words'.out = o /\ words'.b = w /\ words'.full /\ words' = [out |-> o, b |-> w, full |-> TRUE]
    <3>1. words' = [out |-> words.out, b |-> words.b, full |-> TRUE]
      BY <2>1, WordsExcept DEF Characters!Typed
    <3> QED
      BY <3>1 DEF o, w
  <2>3. Len(o) < Len(r)
    <3>1. ASSUME ~words.full PROVE Len(o) < Len(r)
      <4>1. w # <<>>
        <5>1. ~Characters!Room(w)
          BY <1>10, <3>1
        <5>2. Len(w) >= WordSize - 1 /\ Len(w) \in Nat
          BY <1>1, <1>2, <5>1 DEF Characters!Room
        <5> QED
          BY <1>1, <1>2, <5>2
      <4>2. r = Append(o, w)
        BY <1>3, <3>1, <4>1
      <4> QED
        BY <1>1, <4>2
    <3> QED
      BY <1>5, <3>1
  <2>4. Len(q) >= Len(r) /\ \A k \in 1..(Len(r) - 1) : q[k] = r[k]
    <3>1. <<c>> \in Seq(Characters!Chars)
      OBVIOUS
    <3> DEFINE d == <<c>>
    <3> HIDE DEF d
    <3>2. Len(Append(r, d)) = Len(r) + 1 /\ Len(r) \in Nat /\ \A k \in 1..Len(r) : Append(r, d)[k] = r[k]
      BY <1>7, <3>1 DEF d
    <3>3. \A k \in 1..(Len(r) - 1) : k \in 1..Len(r)
      BY <3>2
    <3>4. CASE ~Characters!Letter(c)
      <4>1. q = r
        BY <1>7, <3>4
      <4> QED
        BY <3>2, <4>1
    <3>5. CASE Characters!Letter(c) /\ ~Characters!Letter(Characters!Latest)
      <4>1. q = Append(r, d)
        BY <1>7, <3>5 DEF d
      <4> QED
        BY <3>2, <3>3, <4>1
    <3>6. CASE Characters!Letter(c) /\ Characters!Letter(Characters!Latest)
      BY <1>7, <3>2, <3>6
    <3> QED
      BY <3>4, <3>5, <3>6
  <2>5. Len(o) < Len(q) /\ SubSeq(o, 1, Len(o)) = SubSeq(q, 1, Len(o))
    <3>1. Len(o) \in Nat /\ Len(r) \in Nat /\ Len(q) \in Nat
      BY <1>1, <1>7, <1>8
    <3>2. \A k \in 1..Len(o) : k \in 1..(Len(r) - 1)
      BY <2>3, <3>1
    <3>3. SubSeq(q, 1, Len(o)) = SubSeq(r, 1, Len(o))
      BY <1>7, <1>8, <2>3, <2>4, <3>1, <3>2
    <3> QED
      BY <1>4, <2>3, <2>4, <3>1, <3>3
  <2>6. Characters!MakewordsSplits'
    <3>1. Len(o) <= Len(q)
      BY <1>1, <1>8, <2>5
    <3> QED
      BY <1>9, <2>2, <2>5, <3>1 DEF Characters!MakewordsSplits, Characters!IsPrefix, q
  <2>7. Characters!WordInHand'
    BY <1>9, <2>2, <2>5 DEF Characters!WordInHand, q
  <2> QED
    BY <1>1, <2>2, <2>6, <2>7 DEF w
<1>11. ASSUME ~words.full, Characters!Room(w), words'.full = FALSE,
              words' = [out |-> words'.out, b |-> words'.b, full |-> words'.full],
              words'.out \in Seq(Seq(Characters!Chars)), words'.b \in Seq(Characters!Chars), Len(words'.b) < WordSize,
              q = IF words'.b = <<>> THEN words'.out ELSE Append(words'.out, words'.b),
              words'.b = <<>> <=> ~Characters!Letter(c)
       PROVE  /\ words' \in [out : Seq(Seq(Characters!Chars)), b : Seq(Characters!Chars), full : BOOLEAN]
              /\ Len(words'.b) < WordSize /\ Characters!MakewordsSplits' /\ Characters!WordInHand'
  <2> DEFINE o1 == words'.out
             w1 == words'.b
  <2>1. q = o1 \o IF w1 = <<>> THEN <<>> ELSE <<w1>>
    <3> HIDE DEF o1, w1
    <3>1. o1 \o <<>> = o1 /\ o1 \o <<w1>> = Append(o1, w1)
      BY <1>11 DEF o1, w1
    <3> QED
      BY <1>11, <3>1 DEF o1, w1
  <2>2. Len(o1) <= Len(q) /\ SubSeq(o1, 1, Len(o1)) = SubSeq(q, 1, Len(o1))
    <3> DEFINE cs == Characters!Chars
    <3>1. o1 \in Seq(Seq(cs)) /\ w1 \in Seq(cs) /\ q = IF w1 = <<>> THEN o1 ELSE Append(o1, w1)
      BY <1>11
    <3> HIDE DEF o1, w1, cs
    <3>2. CASE w1 = <<>>
      BY ONLY <3>1, <3>2
    <3>3. CASE w1 # <<>>
      <4>1. q = Append(o1, w1) /\ Len(q) = Len(o1) + 1 /\ Len(o1) \in Nat /\ \A k \in 1..Len(o1) : q[k] = o1[k]
        BY ONLY <3>1, <3>3
      <4>2. q \in Seq(Seq(cs))
        BY ONLY <3>1, <4>1
      <4> QED
        BY ONLY <3>1, <4>1, <4>2
    <3> QED
      BY <3>2, <3>3
  <2>3. Characters!MakewordsSplits'
    BY <1>9, <2>1, <2>2 DEF Characters!MakewordsSplits, Characters!IsPrefix, q
  <2>4. Characters!WordInHand'
    BY <1>9, <1>11 DEF Characters!WordInHand
  <2> QED
    BY <1>11, <2>3, <2>4
<1>12. CASE ~words.full /\ Characters!Room(w) /\ Characters!Letter(c)
  <2>1. words' = [words EXCEPT !.b = Append(@, c)]
    BY <1>12 DEF Characters!Makewords, w
  <2>2. /\ words'.out = o /\ words'.b = Append(w, c) /\ words'.full = FALSE
        /\ words' = [out |-> words'.out, b |-> words'.b, full |-> words'.full]
    <3>1. words' = [words EXCEPT !.b = Append(words.b, c)]
      BY <2>1
    <3>2. words' = [out |-> words.out, b |-> Append(words.b, c), full |-> words.full]
      BY <3>1, WordsExcept DEF Characters!Typed
    <3>3. words.full = FALSE
      BY <1>1, <1>12
    <3> QED
      BY <3>2, <3>3 DEF o, w
  <2>3. Append(w, c) \in Seq(Characters!Chars) /\ Len(Append(w, c)) = Len(w) + 1 /\ Len(w) \in Nat /\ Append(w, c) # <<>>
    <3> DEFINE v == Append(w, c)
    <3>1. v \in Seq(Characters!Chars) /\ Len(v) = Len(w) + 1 /\ Len(w) \in Nat
      BY <1>1, OneMore
    <3> HIDE DEF v
    <3>2. v # <<>>
      BY <3>1
    <3> QED
      BY <3>1, <3>2 DEF v
  <2>4. Len(words'.b) < WordSize
    BY <1>2, <1>12, <2>2, <2>3 DEF Characters!Room
  <2>5. q = Append(o, Append(w, c))
    <3>1. CASE w = <<>>
      <4>1. q = Append(r, <<c>>) /\ r = o
        BY <1>3, <1>7, <1>12, <3>1
      <4>2. Append(w, c) = <<c>>
        BY <3>1
      <4> QED
        BY <4>1, <4>2
    <3>2. CASE w # <<>>
      <4>1. r = Append(o, w) /\ Characters!Letter(Characters!Latest)
        BY <1>3, <1>12, <3>2
      <4>2. Len(o) \in Nat /\ Len(r) = Len(o) + 1 /\ r[Len(o) + 1] = w /\ \A k \in 1..Len(o) : r[k] = o[k]
        BY <1>1, <4>1, OneMore
      <4>3. Len(q) = Len(o) + 1 /\ q[Len(o) + 1] = Append(w, c) /\ \A k \in 1..Len(o) : q[k] = o[k]
        <5>1. Len(r) - 1 = Len(o)
          BY <4>2
        <5> QED
          BY <1>7, <1>12, <4>1, <4>2, <5>1
      <4> DEFINE d == Append(w, c)
                 v == Append(o, d)
      <4>4. d \in Seq(Characters!Chars)
        BY <2>3
      <4> HIDE DEF d
      <4>5. v \in Seq(Seq(Characters!Chars)) /\ Len(v) = Len(o) + 1 /\ v[Len(o) + 1] = d /\ \A k \in 1..Len(o) : v[k] = o[k]
        BY <1>1, <4>4, OneMore
      <4> HIDE DEF v
      <4>6. \A k \in 1..(Len(o) + 1) : q[k] = v[k]
        <5>1. \A k \in 1..(Len(o) + 1) : k \in 1..Len(o) \/ k = Len(o) + 1
          BY <4>2
        <5> QED
          BY <4>3, <4>5, <5>1 DEF d
      <4>7. q = v
        BY <1>8, <4>2, <4>3, <4>5, <4>6
      <4> QED
        BY <4>7 DEF v, d
    <3> QED
      BY <3>1, <3>2
  <2> QED
    BY <1>1, <1>11, <1>12, <2>2, <2>3, <2>4, <2>5
<1>13. CASE ~words.full /\ Characters!Room(w) /\ ~Characters!Letter(c)
  <2>1. words' = IF w = <<>> THEN words ELSE Characters!EndWord(words, c)
    BY <1>13 DEF Characters!Makewords, w
  <2>2. q = r /\ r = held
    BY <1>3, <1>7, <1>13
  <2>3. CASE w = <<>>
    <3>1. words'.out = o /\ words'.b = w /\ words'.full = FALSE /\ words' = [out |-> o, b |-> w, full |-> FALSE]
      BY <1>1, <1>13, <2>1, <2>3
    <3>2. Len(words'.b) < WordSize
      BY <3>1 DEF w
    <3>3. q = o
      BY <2>2, <2>3
    <3> QED
      BY <1>1, <1>11, <1>13, <2>3, <3>1, <3>2, <3>3
  <2>4. CASE w # <<>>
    <3>1. words' = [out |-> Append(words.out, words.b), b |-> <<>>, full |-> words.full]
      BY <2>1, <2>4 DEF Characters!EndWord
    <3>2. words'.out = Append(o, w) /\ words'.b = <<>> /\ words'.full = FALSE
          /\ words' = [out |-> words'.out, b |-> words'.b, full |-> words'.full]
      <4>3. words.full = FALSE
        BY <1>1, <1>13
      <4> QED
        BY <3>1, <4>3 DEF o, w
    <3>3. Append(o, w) \in Seq(Seq(Characters!Chars)) /\ <<>> \in Seq(Characters!Chars)
      BY <1>1
    <3>4. Len(words'.b) < WordSize
      BY <1>2, <3>2
    <3>5. q = Append(o, w)
      BY <2>2, <2>4
    <3> QED
      BY <1>11, <1>13, <3>2, <3>3, <3>4, <3>5
  <2> QED
    BY <2>3, <2>4
<1> QED
  BY <1>10, <1>12, <1>13

\* unexpand.c: what it remembers is what it should be.
LEMMA UnexpandType ==
  ASSUME NEW s \in [out : Seq(Characters!Chars), col : Nat, collect : BOOLEAN], NEW c \in Characters!Chars
  PROVE  Characters!Unexpand(s, c) \in [out : Seq(Characters!Chars), col : Nat, collect : BOOLEAN]
<1> DEFINE o == s.out
           col == s.col
           tabs == Characters!Times("\t", (col + 1) \div TABSTOP)
           cs == Characters!Chars
           r == Characters!Unexpand(s, c)
           T == [out : Seq(cs), col : Nat, collect : BOOLEAN]
<1>1. o \in Seq(cs) /\ col \in Nat /\ s.collect \in BOOLEAN /\ c \in cs /\ s \in T
  OBVIOUS
<1>2. tabs \in Seq(cs)
  <2>1. "\t" \in Characters!Chars /\ TABSTOP \in Nat \ {0}
    BY CharSizes
  <2>2. (col + 1) \div TABSTOP \in Nat
    BY <1>1, <2>1, Divided
  <2> QED
    BY <2>1, <2>2, Repeated
<1>3. CASE s.collect /\ c = "SP"
  <2>1. r = [s EXCEPT !.col = col + 1]
    BY <1>3 DEF Characters!Unexpand
  <2> HIDE DEF o, col, cs, r
  <2>2. col + 1 \in Nat
    BY <1>1
  <2>3. [s EXCEPT !.col = col + 1] \in T
    BY <1>1, <2>2
  <2> QED
    BY <2>1, <2>3 DEF cs, r
<1>4. CASE s.collect /\ c # "SP"
  <2>1. r = [out |-> o \o tabs \o <<c>>, col |-> col, collect |-> FALSE]
    BY <1>4 DEF Characters!Unexpand
  <2> HIDE DEF o, col, cs, r, tabs
  <2>2. o \o tabs \o <<c>> \in Seq(cs)
    BY <1>1, <1>2
  <2> QED
    BY <1>1, <2>1, <2>2 DEF cs, r
<1>5. CASE ~s.collect /\ c = "SP" /\ col = 0
  <2>1. r = [s EXCEPT !.collect = TRUE]
    BY <1>5 DEF Characters!Unexpand
  <2> HIDE DEF o, col, cs, r
  <2>2. [s EXCEPT !.collect = TRUE] \in T
    BY <1>1
  <2> QED
    BY <2>1, <2>2 DEF cs, r
<1>6. CASE ~s.collect /\ ~(c = "SP" /\ col = 0)
  <2>1. r = [out |-> Append(o, c), col |-> IF c = "\n" THEN 0 ELSE col + 1, collect |-> s.collect]
    BY <1>6 DEF Characters!Unexpand
  <2> HIDE DEF o, col, cs, r
  <2>2. Append(o, c) \in Seq(cs) /\ (IF c = "\n" THEN 0 ELSE col + 1) \in Nat
    BY <1>1
  <2> QED
    BY <1>1, <2>1, <2>2 DEF cs, r
<1> QED
  BY <1>3, <1>4, <1>5, <1>6

LEMMA CharInit == ASSUME Characters!Init PROVE Characters!IInv
<1>1. /\ text = <<>> /\ eof = FALSE
      /\ expand = [out |-> <<>>, col |-> 0]
      /\ unexpand = [out |-> <<>>, col |-> 0, collect |-> FALSE]
      /\ fold = [out |-> <<>>, col |-> 0]
      /\ words = [out |-> <<>>, b |-> <<>>, full |-> FALSE]
      /\ wc = [lines |-> 0, words |-> 0, bytes |-> 0, inword |-> FALSE]
      /\ ts = [out |-> <<Characters!STAMP>>, pch |-> "NUL"]
      /\ unix2dos = <<>>
      /\ rev = [out |-> <<>>, line |-> <<>>]
  BY DEF Characters!Init
<1>2. WordSize \in Nat \ {0, 1} /\ {"NUL", Characters!STAMP} \subseteq Characters!Chars /\ TABSTOP \in Nat \ {0} /\ Width \in Nat \ {0}
  BY CharSizes
<1>3. Characters!TypeOK
  <2>1. <<>> \in Seq(Alphabet) /\ FALSE \in BOOLEAN /\ 0 \in Nat
    OBVIOUS
  <2>2. /\ text \in Seq(Alphabet) /\ eof \in BOOLEAN
        /\ expand.col \in Nat /\ unexpand.col \in Nat /\ fold.col \in Nat
    BY <1>1, <2>1
  <2>3. words.b = <<>>
    BY <1>1
  <2>4. Len(words.b) < WordSize
    BY <1>2, <2>3
  <2> QED
    BY <2>2, <2>4 DEF Characters!TypeOK
<1>4. Characters!Typed
  <2> DEFINE cs == Characters!Chars
  <2>1. "NUL" \in cs /\ Characters!STAMP \in cs
    BY <1>2
  <2> HIDE DEF cs
  <2>2. <<>> \in Seq(cs) /\ <<Characters!STAMP>> \in Seq(cs) /\ <<>> \in Seq(Seq(cs))
    BY <2>1
  <2> QED
    BY <1>1, <2>1, <2>2 DEF Characters!Typed, cs
<1>5. Characters!ExpandKeepsColumns
  BY <1>1 DEF Characters!ExpandKeepsColumns, Characters!ToSet
<1>6. Characters!FoldFits
  BY <1>1 DEF Characters!FoldFits
<1>7. \A T : Characters!Only(<<>>, T) = <<>>
  BY Characters!OnlyEmpty
<1>8. Characters!FoldOnlyBreaks
  <2>1. DOMAIN text = {} /\ {} \in SUBSET DOMAIN text
    BY <1>1
  <2>2. [k \in DOMAIN text |-> IF k \in {} THEN <<"\n", text[k]>> ELSE <<text[k]>>] = <<>>
    BY <1>1
  <2>3. fold.out = Characters!Broken(text, {})
    BY <1>1, <2>2, Characters!FlattenEmpty DEF Characters!Broken
  <2> QED
    BY <2>1, <2>3 DEF Characters!FoldOnlyBreaks
<1>9. Characters!MakewordsSplits /\ Characters!WordInHand
  <2>1. Characters!Starts(<<>>) = <<>>
    BY Characters!AscendingZero DEF Characters!Starts
  <2>2. Characters!Runs(<<>>) = <<>>
    BY <2>1 DEF Characters!Runs
  <2>3. Characters!MakewordsSplits
    <3>1. words.out = <<>> /\ words.b = <<>> /\ Characters!Runs(text) = <<>>
      BY <1>1, <2>2
    <3>2. <<>> \o <<>> = <<>>
      OBVIOUS
    <3>3. Characters!IsPrefix(<<>>, <<>>)
      BY <3>2 DEF Characters!IsPrefix
    <3> QED
      BY <3>1, <3>2, <3>3 DEF Characters!MakewordsSplits
  <2> QED
    BY <1>1, <2>3 DEF Characters!WordInHand, Characters!Latest, Characters!Letter
<1>10. Characters!WcCounts /\ Characters!BlankKnown
  <2>1. {k \in DOMAIN text : ~Characters!Blank(text[k]) /\ (k = 1 \/ Characters!Blank(text[k - 1]))} = {}
    BY <1>1
  <2>2. Characters!Cardinality({}) = 0
    BY Characters!FS_EmptySet
  <2> QED
    BY <1>1, <1>7, <2>1, <2>2 DEF Characters!WcCounts, Characters!BlankKnown
<1>11. Characters!TsStampsLines /\ Characters!StampDue
  <2> DEFINE st == Characters!STAMP
             T == Characters!Chars \ {Characters!STAMP}
             cs == Characters!Chars
             base == <<>>
  <2>1. st \in cs /\ st \notin T /\ base \in Seq(cs)
    BY <1>2
  <2>2. ts.out = <<st>> /\ ts.pch = "NUL"
    BY <1>1
  <2>3. <<st>> = Append(base, st)
    OBVIOUS
  <2> HIDE DEF st, T, cs, base
  <2>4. Characters!Only(<<st>>, T) = <<>>
    <3>1. Characters!Only(Append(base, st), T) = Characters!Only(base, T)
      BY ONLY <2>1, Characters!OnlyAppend
    <3>2. Characters!Only(Append(base, st), T) = <<>>
      BY ONLY <3>1, <1>7 DEF base
    <3> QED
      BY ONLY <2>3, <3>2
  <2>5. \A k \in DOMAIN <<st>> : k = 1
    OBVIOUS
  <2>6. Characters!TsStampsLines
    <3>1. \A k \in DOMAIN ts.out : ts.out[k] = Characters!STAMP <=> k = 1 \/ ts.out[k - 1] = "\n"
      BY <2>2, <2>5 DEF st
    <3> QED
      BY <1>1, <2>2, <2>4, <3>1 DEF Characters!TsStampsLines, T
  <2> QED
    BY <1>1, <2>2, <2>6 DEF Characters!StampDue, Characters!Latest, st
<1>12. Characters!DosRoundTrip
  BY <1>1 DEF Characters!DosRoundTrip, Characters!Dos2unix
<1>13. Characters!RevReverses /\ Characters!LineInHand
  <2>1. Characters!Ends(<<>>) = <<>>
    BY Characters!AscendingZero DEF Characters!Ends
  <2>2. Characters!LastEnd(<<>>) = 0
    BY <2>1 DEF Characters!LastEnd
  <2>3. SubSeq(<<>>, 0 + 1, 0) = <<>>
    OBVIOUS
  <2>4. Characters!LineInHand
    BY <1>1, <2>1, <2>2, <2>3 DEF Characters!LineInHand
  <2> QED
    BY <1>1, <2>4 DEF Characters!RevReverses
<1>14. Characters!SameCursor
  <2> DEFINE F == Characters!Cursor(TABSTOP)
             S == Nat \X Nat
             base == <<0, 0>>
  <2>1. Characters!Steps(F, S, Characters!Chars) /\ base \in S
    BY <1>2, CursorSteps
  <2>2. base[2] = 0
    OBVIOUS
  <2> HIDE DEF F, S, base
  <2>3. Characters!Folded(F, base, <<>>) = base
    BY <2>1, Characters!FoldedEmpty
  <2>4. Characters!Folded(F, base, expand.out) = Characters!Folded(F, base, text) /\ expand.col = Characters!Folded(F, base, text)[2]
    BY <1>1, <2>2, <2>3
  <2> QED
    BY <2>4 DEF Characters!SameCursor, F, base
<1>15. Characters!ColumnKnown
  <2> DEFINE F == Characters!Columns
             S == Nat
             base == 0
  <2>1. Characters!Steps(F, S, Characters!Chars) /\ base \in S
    BY ColumnSteps
  <2> HIDE DEF F, S, base
  <2>2. Characters!Folded(F, base, <<>>) = base
    BY <2>1, Characters!FoldedEmpty
  <2> QED
    BY <1>1, <1>2, <2>2 DEF Characters!ColumnKnown, F, base
<1> QED
  BY <1>3, <1>4, <1>5, <1>6, <1>8, <1>9, <1>10, <1>11, <1>12, <1>13, <1>14, <1>15 DEF Characters!IInv, Characters!Kept

LEMMA CharText == ASSUME Characters!TypeOK PROVE text \in Seq(Characters!Chars)
<1>1. text \in Seq(Alphabet) /\ Alphabet \subseteq Characters!Chars
  BY CharSizes DEF Characters!TypeOK
<1> DEFINE cs == Characters!Chars
<1> HIDE DEF cs
<1>2. text \in Seq(cs)
  BY <1>1 DEF cs
<1> QED
  BY <1>2 DEF cs

LEMMA CharGetc == ASSUME Characters!IInv, Characters!Getc PROVE Characters!IInv'
<1>1. PICK c \in Alphabet :
        /\ ~eof /\ text' = Append(text, c) /\ eof' = eof
        /\ expand' = Characters!Expand(expand, c) /\ unexpand' = Characters!Unexpand(unexpand, c)
        /\ fold' = Characters!Fold(fold, c) /\ words' = Characters!Makewords(words, c)
        /\ wc' = Characters!Count(wc, c) /\ ts' = Characters!Stamp(ts, c)
        /\ unix2dos' = Characters!Unix2dos(unix2dos, c) /\ rev' = Characters!Rev(rev, c)
  BY DEF Characters!Getc
<1>2. /\ Characters!TypeOK /\ Characters!Typed /\ Characters!ExpandKeepsColumns /\ Characters!FoldFits /\ Characters!FoldOnlyBreaks
      /\ Characters!MakewordsSplits /\ Characters!WcCounts /\ Characters!TsStampsLines /\ Characters!DosRoundTrip /\ Characters!RevReverses
      /\ Characters!SameCursor /\ Characters!ColumnKnown /\ Characters!WordInHand /\ Characters!BlankKnown /\ Characters!StampDue /\ Characters!LineInHand
  BY DEF Characters!IInv, Characters!Kept
<1>3. text \in Seq(Characters!Chars)
  BY <1>2, CharText
<1>4. c \in Characters!Chars /\ c # Characters!STAMP
  BY CharSizes
<1>5. Len(words.b) < WordSize
  BY <1>2 DEF Characters!TypeOK
<1>6. expand' \in [out : Seq(Characters!Chars), col : Nat] /\ Characters!ExpandKeepsColumns' /\ Characters!SameCursor'
  BY <1>1, <1>2, <1>3, <1>4, ExpandGetc
<1>7. fold' \in [out : Seq(Characters!Chars), col : Nat] /\ Characters!ColumnKnown' /\ Characters!FoldFits' /\ Characters!FoldOnlyBreaks'
  BY <1>1, <1>2, <1>3, <1>4, FoldGetc
<1>8. /\ words' \in [out : Seq(Seq(Characters!Chars)), b : Seq(Characters!Chars), full : BOOLEAN]
      /\ Len(words'.b) < WordSize /\ Characters!MakewordsSplits' /\ Characters!WordInHand'
  BY <1>1, <1>2, <1>3, <1>4, <1>5, MakewordsGetc
<1>9. /\ wc' \in [lines : Nat, words : Nat, bytes : Nat, inword : BOOLEAN]
      /\ Characters!WcCounts' /\ Characters!BlankKnown'
  BY <1>1, <1>2, <1>3, <1>4, WcGetc
<1>10. ts' \in [out : Seq(Characters!Chars), pch : Characters!Chars] /\ Characters!TsStampsLines' /\ Characters!StampDue'
  BY <1>1, <1>2, <1>3, <1>4, TsGetc
<1>11. unix2dos' \in Seq(Characters!Chars) /\ Characters!DosRoundTrip'
  BY <1>1, <1>2, <1>3, <1>4, DosGetc
<1>12. rev' \in [out : Seq(Characters!Chars), line : Seq(Characters!Chars)] /\ Characters!RevReverses' /\ Characters!LineInHand'
  BY <1>1, <1>2, <1>3, <1>4, RevGetc
<1>13. unexpand' \in [out : Seq(Characters!Chars), col : Nat, collect : BOOLEAN]
  <2>1. unexpand \in [out : Seq(Characters!Chars), col : Nat, collect : BOOLEAN]
    BY <1>2 DEF Characters!Typed
  <2> QED
    BY <1>1, <1>4, <2>1, UnexpandType
<1>14. Characters!Typed'
  BY <1>6, <1>7, <1>8, <1>9, <1>10, <1>11, <1>12, <1>13 DEF Characters!Typed
<1>15. Characters!TypeOK'
  <2>1. text \in Seq(Alphabet) /\ eof \in BOOLEAN
    BY <1>2 DEF Characters!TypeOK
  <2>2. text' \in Seq(Alphabet)
    BY <1>1, <2>1
  <2>3. expand'.col \in Nat /\ unexpand'.col \in Nat /\ fold'.col \in Nat
    BY <1>14 DEF Characters!Typed
  <2> QED
    BY <1>1, <1>8, <2>1, <2>2, <2>3 DEF Characters!TypeOK
<1> QED
  BY <1>6, <1>7, <1>8, <1>9, <1>10, <1>11, <1>12, <1>14, <1>15 DEF Characters!IInv, Characters!Kept

LEMMA CharEnd == ASSUME Characters!IInv, Characters!EndOfInput PROVE Characters!IInv'
<1>1. /\ ~eof /\ eof' = TRUE
      /\ unexpand' = IF unexpand.collect THEN Characters!Unexpand(unexpand, "EOF") ELSE unexpand
      /\ rev' = IF rev.line = <<>> THEN rev ELSE [out |-> rev.out \o Characters!Reversed(rev.line), line |-> <<>>]
      /\ UNCHANGED <<text, expand, fold, words, wc, ts, unix2dos>>
  BY DEF Characters!EndOfInput
<1>2. /\ Characters!TypeOK /\ Characters!Typed /\ Characters!ExpandKeepsColumns /\ Characters!FoldFits /\ Characters!FoldOnlyBreaks
      /\ Characters!MakewordsSplits /\ Characters!WcCounts /\ Characters!TsStampsLines /\ Characters!DosRoundTrip /\ Characters!RevReverses
      /\ Characters!SameCursor /\ Characters!ColumnKnown /\ Characters!WordInHand /\ Characters!BlankKnown /\ Characters!StampDue /\ Characters!LineInHand
  BY DEF Characters!IInv, Characters!Kept
<1>3. text \in Seq(Characters!Chars)
  BY <1>2, CharText
<1>4. rev' \in [out : Seq(Characters!Chars), line : Seq(Characters!Chars)] /\ Characters!RevReverses' /\ Characters!LineInHand'
  BY <1>1, <1>2, <1>3, RevEnd
<1>5. unexpand' \in [out : Seq(Characters!Chars), col : Nat, collect : BOOLEAN]
  <2>1. unexpand \in [out : Seq(Characters!Chars), col : Nat, collect : BOOLEAN] /\ "EOF" \in Characters!Chars
    BY <1>2, CharSizes DEF Characters!Typed
  <2>2. Characters!Unexpand(unexpand, "EOF") \in [out : Seq(Characters!Chars), col : Nat, collect : BOOLEAN]
    BY <2>1, UnexpandType
  <2> QED
    BY <1>1, <2>1, <2>2
<1>6. Characters!Typed'
  BY <1>1, <1>2, <1>4, <1>5 DEF Characters!Typed
<1>7. Characters!TypeOK'
  <2>1. unexpand'.col \in Nat
    BY <1>5
  <2> QED
    BY <1>1, <1>2, <2>1 DEF Characters!TypeOK
<1>8. Characters!ExpandKeepsColumns' /\ Characters!SameCursor'
  BY <1>1, <1>2 DEF Characters!ExpandKeepsColumns, Characters!SameCursor, Characters!Plain
<1>9. Characters!ColumnKnown' /\ Characters!FoldFits' /\ Characters!FoldOnlyBreaks'
  BY <1>1, <1>2 DEF Characters!ColumnKnown, Characters!FoldFits, Characters!FoldOnlyBreaks, Characters!TooWide
<1>10. Characters!MakewordsSplits' /\ Characters!WordInHand'
  BY <1>1, <1>2 DEF Characters!MakewordsSplits, Characters!WordInHand, Characters!Latest
<1>11. Characters!WcCounts' /\ Characters!BlankKnown'
  BY <1>1, <1>2 DEF Characters!WcCounts, Characters!BlankKnown, Characters!Latest
<1>12. Characters!TsStampsLines' /\ Characters!StampDue' /\ Characters!DosRoundTrip'
  BY <1>1, <1>2 DEF Characters!TsStampsLines, Characters!StampDue, Characters!Latest, Characters!DosRoundTrip
<1> QED
  BY <1>4, <1>6, <1>7, <1>8, <1>9, <1>10, <1>11, <1>12 DEF Characters!IInv, Characters!Kept

LEMMA CharStays == ASSUME Characters!IInv, UNCHANGED <<text, eof, charVars>> PROVE Characters!IInv'
<1>1. UNCHANGED <<text, eof, expand, unexpand, fold, words, wc, ts, unix2dos, rev>>
  BY DEF charVars
<1>2. /\ Characters!TypeOK /\ Characters!Typed /\ Characters!ExpandKeepsColumns /\ Characters!FoldFits /\ Characters!FoldOnlyBreaks
      /\ Characters!MakewordsSplits /\ Characters!WcCounts /\ Characters!TsStampsLines /\ Characters!DosRoundTrip /\ Characters!RevReverses
      /\ Characters!SameCursor /\ Characters!ColumnKnown /\ Characters!WordInHand /\ Characters!BlankKnown /\ Characters!StampDue /\ Characters!LineInHand
  BY DEF Characters!IInv, Characters!Kept
<1>3. Characters!TypeOK' /\ Characters!Typed'
  BY <1>1, <1>2 DEF Characters!TypeOK, Characters!Typed
<1>4. Characters!ExpandKeepsColumns' /\ Characters!SameCursor'
  BY <1>1, <1>2 DEF Characters!ExpandKeepsColumns, Characters!SameCursor, Characters!Plain
<1>5. Characters!ColumnKnown' /\ Characters!FoldFits' /\ Characters!FoldOnlyBreaks'
  BY <1>1, <1>2 DEF Characters!ColumnKnown, Characters!FoldFits, Characters!FoldOnlyBreaks, Characters!TooWide
<1>6. Characters!MakewordsSplits' /\ Characters!WordInHand'
  BY <1>1, <1>2 DEF Characters!MakewordsSplits, Characters!WordInHand, Characters!Latest
<1>7. Characters!WcCounts' /\ Characters!BlankKnown'
  BY <1>1, <1>2 DEF Characters!WcCounts, Characters!BlankKnown, Characters!Latest
<1>8. Characters!TsStampsLines' /\ Characters!StampDue' /\ Characters!DosRoundTrip'
  BY <1>1, <1>2 DEF Characters!TsStampsLines, Characters!StampDue, Characters!Latest, Characters!DosRoundTrip
<1>9. Characters!RevReverses' /\ Characters!LineInHand'
  BY <1>1, <1>2 DEF Characters!RevReverses, Characters!LineInHand
<1> QED
  BY <1>3, <1>4, <1>5, <1>6, <1>7, <1>8, <1>9 DEF Characters!IInv, Characters!Kept

LEMMA CharNext == ASSUME Characters!IInv, Characters!Next PROVE Characters!IInv'
<1>1. CASE Characters!Done
  BY <1>1, CharStays DEF Characters!Done, Characters!vars, charVars
<1> QED
  BY <1>1, CharGetc, CharEnd DEF Characters!Next

-----------------------------------------------------------------------------
\* All filters together: those that are not run keep still.
CharactersInv == reads = "characters" => Characters!IInv

LEMMA CharactersInit == ASSUME Init PROVE CharactersInv
<1>1. reads = "characters" => Characters!Init
  BY DEF Init
<1> QED
  BY <1>1, CharInit DEF CharactersInv

LEMMA CharactersNext == ASSUME CharactersInv, [Next]_vars PROVE CharactersInv'
<1>1. CASE CharacterStep
  <2>1. reads = "characters" /\ Characters!Next /\ reads' = reads
    BY <1>1 DEF CharacterStep
  <2>2. Characters!IInv
    BY <2>1 DEF CharactersInv
  <2> QED
    BY <2>1, <2>2, CharNext DEF CharactersInv
<1>2. CASE LineStep \/ WordStep \/ CodeStep \/ ByteStep
  <2>1. reads # "characters" /\ reads' = reads
    BY <1>2 DEF LineStep, WordStep, CodeStep, ByteStep
  <2> QED
    BY <2>1 DEF CharactersInv
<1>3. CASE UNCHANGED vars
  <2>1. reads' = reads /\ UNCHANGED <<text, eof, charVars>>
    BY <1>3 DEF vars
  <2>2. reads = "characters" => Characters!IInv'
    BY <2>1, CharStays DEF CharactersInv
  <2> QED
    BY <2>1, <2>2 DEF CharactersInv
<1> QED
  BY <1>1, <1>2, <1>3 DEF Next

LEMMA CharactersAlways == Spec => []CharactersInv
<1>1. Init => CharactersInv
  BY CharactersInit
<1>2. CharactersInv /\ [Next]_vars => CharactersInv'
  BY CharactersNext
<1> QED
  BY <1>1, <1>2, PTL DEF Spec

\* expand, fold: whatever the text, and whatever the tab stops and the width
\* are, each character stays in the row and column where the tabs had put it,
\* no line is wider than it may be, and fold adds nothing but newlines, each
\* just where the next character would not fit.
THEOREM FiltersColumnsKept == Spec => []ColumnsKept
<1>1. CharactersInv => ColumnsKept
  BY DEF CharactersInv, ColumnsKept, Characters!IInv, Characters!Kept
<1> QED
  BY <1>1, CharactersAlways, PTL

\* makewords, wc, ts, unix2dos, dos2unix, rev: for every text, the words,
\* counts, stamps and lines are those of the text.
CharacterTextKept ==
  reads = "characters" =>
    /\ Characters!MakewordsSplits /\ Characters!WcCounts /\ Characters!TsStampsLines
    /\ Characters!DosRoundTrip /\ Characters!RevReverses

THEOREM FiltersCharactersKept == Spec => []CharacterTextKept
<1>1. CharactersInv => CharacterTextKept
  BY DEF CharactersInv, CharacterTextKept, Characters!IInv, Characters!Kept
<1> QED
  BY <1>1, CharactersAlways, PTL
LinesInv == reads = "lines" => LinesOf!IInv

LEMMA LinesInit == ASSUME Init PROVE LinesInv
<1>1. reads = "lines" => LinesOf!Init
  BY DEF Init
<1> QED
  BY <1>1, LinesAssumed, LineInit DEF LinesInv

LEMMA LinesNext == ASSUME LinesInv, [Next]_vars PROVE LinesInv'
<1>1. CASE LineStep
  <2>1. reads = "lines" /\ LinesOf!Next /\ reads' = reads
    BY <1>1 DEF LineStep
  <2>2. LinesOf!IInv
    BY <2>1 DEF LinesInv
  <2> QED
    BY <2>1, <2>2, LinesAssumed, LineNext DEF LinesInv
<1>2. CASE CharacterStep \/ WordStep \/ CodeStep \/ ByteStep
  <2>1. reads # "lines" /\ reads' = reads
    BY <1>2 DEF CharacterStep, WordStep, CodeStep, ByteStep
  <2> QED
    BY <2>1 DEF LinesInv
<1>3. CASE UNCHANGED vars
  <2>1. reads' = reads /\ UNCHANGED LinesOf!vars
    BY <1>3 DEF vars, lineVars, LinesOf!vars
  <2>2. reads = "lines" => LinesOf!IInv'
    BY <2>1, LineStays DEF LinesInv
  <2> QED
    BY <2>1, <2>2 DEF LinesInv
<1> QED
  BY <1>1, <1>2, <1>3 DEF Next

-----------------------------------------------------------------------------
(* Lines and words, together. *)

WordsInv == reads = "words" => WordsOf!IInv

LEMMA WordsInit == ASSUME Init PROVE WordsInv
<1>1. reads = "words" => WordsOf!Init
  BY DEF Init
<1> QED
  BY <1>1, WordInit DEF WordsInv

LEMMA WordsNext == ASSUME WordsInv, [Next]_vars PROVE WordsInv'
<1>1. CASE WordStep
  <2>1. reads = "words" /\ WordsOf!Next /\ reads' = reads
    BY <1>1 DEF WordStep
  <2>2. WordsOf!IInv
    BY <2>1 DEF WordsInv
  <2> QED
    BY <2>1, <2>2, WordNext DEF WordsInv
<1>2. CASE CharacterStep \/ LineStep \/ CodeStep \/ ByteStep
  <2>1. reads # "words" /\ reads' = reads
    BY <1>2 DEF CharacterStep, LineStep, CodeStep, ByteStep
  <2> QED
    BY <2>1 DEF WordsInv
<1>3. CASE UNCHANGED vars
  <2>1. reads' = reads /\ UNCHANGED WordsOf!vars
    BY <1>3 DEF vars, wordVars, WordsOf!vars
  <2>2. reads = "words" => WordsOf!IInv'
    BY <2>1, WordNext DEF WordsInv
  <2> QED
    BY <2>1, <2>2 DEF WordsInv
<1> QED
  BY <1>1, <1>2, <1>3 DEF Next

-----------------------------------------------------------------------------
\* uniq, tail, nl, more, mismatch, extract, litc: for every text and all
\* options, the lines that are printed, counted or paged are those that each
\* program chooses, and what is extracted of them is what the format says.
THEOREM FiltersLinesChosen == Spec => []LinesChosen
<1>1. Init => LinesInv /\ WordsInv
  BY LinesInit, WordsInit
<1>2. LinesInv /\ WordsInv /\ [Next]_vars => LinesInv' /\ WordsInv'
  BY LinesNext, WordsNext
<1>3. LinesInv /\ WordsInv => LinesChosen
  <2>1. LinesInv => (reads = "lines" => /\ LinesOf!UniqGroups /\ LinesOf!TailLines /\ LinesOf!NlConsecutive
                                        /\ LinesOf!MorePages /\ LinesOf!MismatchFinds)
    BY DEF LinesInv, LinesOf!IInv
  <2>2. WordsInv => (reads = "words" => WordsOf!ExtractFills /\ WordsOf!LitcExtracts)
    BY WordsPrinted DEF WordsInv
  <2> QED
    BY <2>1, <2>2 DEF LinesChosen
<1> QED
  BY <1>1, <1>2, <1>3, PTL DEF Spec

\* chef, hexdump: of every text whose words fit its buffer, chef has translated
\* each word with something behind it; hexdump shows each byte in its place.
WordTextKept == reads = "words" => WordsOf!ChefTranslates /\ WordsOf!HexdumpShows

THEOREM FiltersWordsKept == Spec => []WordTextKept
<1>1. Init => LinesInv /\ WordsInv
  BY LinesInit, WordsInit
<1>2. LinesInv /\ WordsInv /\ [Next]_vars => LinesInv' /\ WordsInv'
  BY LinesNext, WordsNext
<1>3. WordsInv => WordTextKept
  BY WordsPrinted DEF WordsInv, WordTextKept
<1> QED
  BY <1>1, <1>2, <1>3, PTL DEF Spec
=============================================================================
