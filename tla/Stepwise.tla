------------------------------ MODULE Stepwise ------------------------------
(***************************************************************************)
(* What is made of a sequence element by element, for definitions that are *)
(* proved about: the values that a step takes on, the elements that are in *)
(* a set, the numbers that are in a set in ascending order; and what the   *)
(* proofs need to know of them.                                            *)
(***************************************************************************)
EXTENDS Integers, SequencesExt, SequenceTheorems, FiniteSetTheorems, TLAPS

\* What the step F makes of x when e comes.
After(F, x, e) == F[x][e]

\* What the step F makes of base after k elements of s, for every k.
Running(F, base, s) ==
  LET f[k \in 0..Len(s)] == IF k = 0 THEN base ELSE After(F, f[k - 1], s[k]) IN f
Folded(F, base, s) == Running(F, base, s)[Len(s)]

\* b to the power n, and the number that s stands for with digits below b.
Power(b, n) == Folded([x \in Nat |-> [e \in Nat |-> x * e]], 1, [k \in 1..n |-> b])
Value(b, s) == Folded([x \in Nat |-> [d \in Nat |-> x * b + d]], 0, s)

\* The elements of s that are in T.
Only(s, T) ==
  LET f[k \in 0..Len(s)] ==
        IF k = 0 THEN <<>> ELSE IF s[k] \in T THEN Append(f[k - 1], s[k]) ELSE f[k - 1]
  IN  f[Len(s)]

\* The numbers from 1 to n that are in K, the least first.
Ascending(n, K) == Only([k \in 1..n |-> k], K)

\* What is put from place k on, when place k puts put[k] and goes on at next[k].
Chained(put, next) ==
  LET from[k \in 1..(Len(put) + 1)] == IF k > Len(put) THEN <<>> ELSE put[k] \o from[next[k]] IN from

-----------------------------------------------------------------------------
\* A set of natural numbers has a least element.
LEMMA Smallest == ASSUME NEW T \in SUBSET Nat, T # {} PROVE \E a \in T : \A b \in T : a <= b
<1> DEFINE R == {q \in Nat \X Nat : q[1] < q[2]}
<1>1. IsWellFoundedOn(R, Nat)
  BY NatLessThanWellFounded DEF OpToRel
<1>2. PICK a \in T : \A b \in T : <<b, a>> \notin R
  <2> HIDE DEF R
  <2> QED
    BY <1>1, WFMin
<1>3. ASSUME NEW b \in T PROVE ~(b < a)
  <2>1. <<b, a>> \in Nat \X Nat /\ <<b, a>>[1] = b /\ <<b, a>>[2] = a
    OBVIOUS
  <2>2. <<b, a>> \notin R
    BY <1>2
  <2> QED
    BY <2>1, <2>2
<1>4. \A b \in T : b \in Nat /\ a \in Nat
  OBVIOUS
<1> HIDE DEF R
<1>5. \A b \in T : a <= b
  BY <1>3, <1>4
<1> QED
  BY <1>5

\* Induction, for a set of numbers in place of a predicate.
LEMMA AllNumbers ==
  ASSUME NEW T, 0 \in T, \A n \in Nat : n \in T => n + 1 \in T
  PROVE  \A n \in Nat : n \in T
<1> SUFFICES ASSUME NEW m \in Nat, m \notin T PROVE FALSE
  OBVIOUS
<1> DEFINE R == {n \in Nat : n \notin T}
<1>1. R \in SUBSET Nat /\ m \in R
  OBVIOUS
<1>2. PICK a \in R : \A b \in R : a <= b
  <2> HIDE DEF R
  <2> QED
    BY <1>1, Smallest
<1>3. a \in Nat /\ a \notin T /\ a # 0
  BY <1>2
<1>4. a - 1 \in Nat /\ a - 1 + 1 = a /\ ~(a <= a - 1)
  BY <1>3
<1>5. a - 1 \notin R
  BY <1>2, <1>4
<1>6. a - 1 \in T
  BY <1>4, <1>5
<1> QED
  BY <1>3, <1>4, <1>6

\* The same up to a bound.
LEMMA NumbersUpTo ==
  ASSUME NEW m \in Nat, NEW T, 0 \in T, \A n \in 0..m : n \in T /\ n < m => n + 1 \in T
  PROVE  \A n \in 0..m : n \in T
<1> DEFINE U == T \cup {n \in Nat : n > m}
<1>1. 0 \in U
  OBVIOUS
<1>2. ASSUME NEW n \in Nat, n \in U PROVE n + 1 \in U
  <2>1. CASE n >= m
    BY <2>1
  <2>2. CASE n < m
    <3>1. n \in T /\ n \in 0..m
      BY <1>2, <2>2
    <3> QED
      BY <3>1, <2>2
  <2> QED
    BY <2>1, <2>2
<1>3. \A n \in Nat : n \in U
  <2> HIDE DEF U
  <2> QED
    BY <1>1, <1>2, AllNumbers
<1> QED
  BY <1>3

-----------------------------------------------------------------------------
\* F makes something in S of what is in S when something in T comes.
Steps(F, S, T) == \A x \in S, e \in T : After(F, x, e) \in S

LEMMA StepsType ==
  ASSUME NEW S, NEW T, NEW F, NEW x, NEW e, Steps(F, S, T), x \in S, e \in T
  PROVE  After(F, x, e) \in S
BY DEF Steps

\* Running is what it says, and of the type that the step has.
LEMMA RunningFunction ==
  ASSUME NEW S, NEW T, NEW F, NEW base, NEW s, Steps(F, S, T), base \in S, s \in Seq(T)
  PROVE  /\ Running(F, base, s) \in [0..Len(s) -> S]
         /\ Running(F, base, s)[0] = base
         /\ \A k \in 1..Len(s) : Running(F, base, s)[k] = After(F, Running(F, base, s)[k - 1], s[k])
<1> DEFINE n == Len(s)
           Good(m, g) == g[0] = base /\ \A k \in 1..m : g[k] = After(F, g[k - 1], s[k])
           All == {m \in Nat : m <= n => \E g \in [0..m -> S] : Good(m, g)}
<1>1. n \in Nat /\ \A k \in 1..n : s[k] \in T
  OBVIOUS
<1>2. 0 \in All
  <2> DEFINE g == [k \in 0..0 |-> base]
  <2>1. g \in [0..0 -> S] /\ Good(0, g)
    OBVIOUS
  <2> QED
    BY <2>1
<1>3. ASSUME NEW m \in Nat, m \in All PROVE m + 1 \in All
  <2> SUFFICES ASSUME m + 1 <= n PROVE \E h \in [0..(m + 1) -> S] : Good(m + 1, h)
    OBVIOUS
  <2>1. PICK g \in [0..m -> S] : Good(m, g)
    BY <1>1, <1>3
  <2> DEFINE h == [k \in 0..(m + 1) |-> IF k <= m THEN g[k] ELSE After(F, g[m], s[m + 1])]
  <2>2. s[m + 1] \in T /\ g[m] \in S
    BY <1>1
  <2>3. After(F, g[m], s[m + 1]) \in S
    BY <2>2
  <2>4. h \in [0..(m + 1) -> S]
    BY <2>3
  <2>5. h[0] = base
    BY <2>1
  <2>6. ASSUME NEW k \in 1..(m + 1) PROVE h[k] = After(F, h[k - 1], s[k])
    <3>1. CASE k <= m
      <4>1. k \in 1..m /\ k - 1 \in 0..m /\ k \in 0..(m + 1) /\ k - 1 \in 0..(m + 1)
        BY <3>1
      <4>2. g[k] = After(F, g[k - 1], s[k])
        BY <2>1, <4>1
      <4> QED
        BY <4>1, <4>2
    <3>2. CASE k = m + 1
      <4>1. k - 1 = m /\ m \in 0..(m + 1) /\ k \in 0..(m + 1) /\ ~(k <= m)
        BY <3>2
      <4>2. h[k - 1] = g[m] /\ h[k] = After(F, g[m], s[m + 1])
        BY <4>1, <3>2
      <4> QED
        BY <4>2, <3>2
    <3> QED
      BY <3>1, <3>2
  <2> QED
    BY <2>4, <2>5, <2>6
<1>4. \A m \in Nat : m \in All
  <2> HIDE DEF All
  <2> QED
    BY <1>2, <1>3, AllNumbers
<1>5. PICK g \in [0..n -> S] : Good(n, g)
  <2>1. n \in All /\ n <= n
    BY <1>1, <1>4
  <2> QED
    BY <2>1
<1>6. g = [k \in 0..n |-> IF k = 0 THEN base ELSE After(F, g[k - 1], s[k])]
  BY <1>1, <1>5
<1> DEFINE f == CHOOSE f : f = [k \in 0..n |-> IF k = 0 THEN base ELSE After(F, f[k - 1], s[k])]
<1>7. f = [k \in 0..n |-> IF k = 0 THEN base ELSE After(F, f[k - 1], s[k])]
  BY <1>6
<1>8. Running(F, base, s) = f
  BY DEF Running
<1> HIDE DEF f
<1>9. f[0] = base /\ \A k \in 1..n : f[k] = After(F, f[k - 1], s[k])
  BY <1>1, <1>7
<1>10. \A k \in 0..n : f[k] \in S
  <2> DEFINE Typed == {k \in Nat : f[k] \in S}
  <2>1. 0 \in Typed
    BY <1>9
  <2>2. ASSUME NEW k \in 0..n, k \in Typed, k < n PROVE k + 1 \in Typed
    <3>1. k + 1 \in 1..n /\ k + 1 - 1 = k
      BY <1>1, <2>2
    <3>2. f[k + 1] = After(F, f[k], s[k + 1]) /\ s[k + 1] \in T /\ f[k] \in S
      BY <1>1, <1>9, <3>1, <2>2
    <3>3. f[k + 1] \in S
      BY <3>2, StepsType
    <3> QED
      BY <3>1, <3>3
  <2>3. \A k \in 0..n : k \in Typed
    <3> HIDE DEF Typed
    <3> QED
      BY <1>1, <2>1, <2>2, NumbersUpTo
  <2> QED
    BY <2>3
<1>11. f \in [0..n -> S]
  <2>1. DOMAIN f = 0..n
    BY <1>7
  <2>2. f = [k \in 0..n |-> f[k]]
    BY <1>7
  <2> QED
    BY <1>10, <2>2
<1> QED
  BY <1>8, <1>9, <1>11

\* It is the only function that begins like that and goes on like that.
LEMMA RunningUnique ==
  ASSUME NEW S, NEW T, NEW F, NEW base, NEW s, NEW m, NEW g,
         Steps(F, S, T), base \in S, s \in Seq(T), m \in 0..Len(s), g[0] = base,
         \A k \in 1..m : g[k] = After(F, g[k - 1], s[k])
  PROVE  \A k \in 0..m : Running(F, base, s)[k] = g[k]
<1> DEFINE f == Running(F, base, s)
           Same == {k \in Nat : f[k] = g[k]}
<1> HIDE DEF f
<1>1. /\ f[0] = base /\ m \in Nat /\ m <= Len(s) /\ Len(s) \in Nat
      /\ \A k \in 1..Len(s) : f[k] = After(F, f[k - 1], s[k])
  <2>1. f[0] = base /\ \A k \in 1..Len(s) : f[k] = After(F, f[k - 1], s[k])
    BY RunningFunction DEF f
  <2> QED
    BY <2>1
<1>2. 0 \in Same
  BY <1>1
<1>3. ASSUME NEW k \in 0..m, k \in Same, k < m PROVE k + 1 \in Same
  <2>1. k + 1 \in 1..m /\ k + 1 \in 1..Len(s) /\ k + 1 - 1 = k /\ k + 1 \in Nat
    BY <1>1, <1>3
  <2> QED
    BY <1>1, <1>3, <2>1
<1>4. \A k \in 0..m : k \in Same
  <2> HIDE DEF Same
  <2> QED
    BY <1>1, <1>2, <1>3, NumbersUpTo
<1> QED
  BY <1>4 DEF f

\* With one element more: the values before it stay, one is added.
LEMMA RunningAppend ==
  ASSUME NEW S, NEW T, NEW F, NEW base, NEW s, NEW e,
         Steps(F, S, T), base \in S, s \in Seq(T), e \in T
  PROVE  /\ \A k \in 0..Len(s) : Running(F, base, Append(s, e))[k] = Running(F, base, s)[k]
         /\ Running(F, base, Append(s, e))[Len(s) + 1] = After(F, Running(F, base, s)[Len(s)], e)
<1> DEFINE t == Append(s, e)
           f == Running(F, base, s)
           g == Running(F, base, t)
<1>1. t \in Seq(T) /\ Len(t) = Len(s) + 1 /\ t[Len(s) + 1] = e /\ Len(s) \in Nat
      /\ \A k \in 1..Len(s) : t[k] = s[k]
  OBVIOUS
<1>2. g[0] = base /\ \A k \in 1..Len(t) : g[k] = After(F, g[k - 1], t[k])
  <2> HIDE DEF t
  <2> QED
    BY <1>1, RunningFunction
<1> HIDE DEF t
<1>3. \A k \in 1..Len(s) : g[k] = After(F, g[k - 1], s[k])
  BY <1>1, <1>2
<1>4. Len(s) \in 0..Len(s)
  BY <1>1
<1>5. \A k \in 0..Len(s) : f[k] = g[k]
  <2> HIDE DEF g
  <2> QED
    BY <1>2, <1>3, <1>4, RunningUnique
<1>6. g[Len(s) + 1] = After(F, g[Len(s)], e)
  BY <1>1, <1>2
<1> QED
  BY <1>4, <1>5, <1>6 DEF t

LEMMA FoldedType ==
  ASSUME NEW S, NEW T, NEW F, NEW base, NEW s, Steps(F, S, T), base \in S, s \in Seq(T)
  PROVE  Folded(F, base, s) \in S
<1>1. Len(s) \in 0..Len(s)
  OBVIOUS
<1> QED
  BY <1>1, RunningFunction DEF Folded

LEMMA FoldedEmpty ==
  ASSUME NEW S, NEW T, NEW F, NEW base, Steps(F, S, T), base \in S
  PROVE  Folded(F, base, <<>>) = base
<1> DEFINE t == <<>>
<1>1. t \in Seq(T)
  OBVIOUS
<1>2. Len(t) = 0
  OBVIOUS
<1> HIDE DEF t
<1>3. Running(F, base, t)[0] = base
  BY <1>1, RunningFunction
<1> QED
  BY <1>2, <1>3 DEF Folded, t

LEMMA FoldedAppend ==
  ASSUME NEW S, NEW T, NEW F, NEW base, NEW s, NEW e,
         Steps(F, S, T), base \in S, s \in Seq(T), e \in T
  PROVE  Folded(F, base, Append(s, e)) = After(F, Folded(F, base, s), e)
<1>1. Len(Append(s, e)) = Len(s) + 1
  OBVIOUS
<1> QED
  BY <1>1, RunningAppend DEF Folded

-----------------------------------------------------------------------------
LEMMA TimesNat == ASSUME NEW x \in Nat, NEW y \in Nat PROVE x * y \in Nat
OBVIOUS

LEMMA PowerType == ASSUME NEW b \in Nat, NEW n \in Nat PROVE Power(b, n) \in Nat
<1> DEFINE F == [x \in Nat |-> [e \in Nat |-> x * e]]
           s == [k \in 1..n |-> b]
<1>1. Steps(F, Nat, Nat) /\ s \in Seq(Nat)
  BY TimesNat DEF Steps, After
<1>2. Power(b, n) = Folded(F, 1, s)
  BY DEF Power
<1> HIDE DEF F, s
<1>3. Folded(F, 1, s) \in Nat
  BY <1>1, FoldedType
<1> QED
  BY <1>2, <1>3

LEMMA PowerZero == ASSUME NEW b \in Nat PROVE Power(b, 0) = 1
<1> DEFINE F == [x \in Nat |-> [e \in Nat |-> x * e]]
<1>1. Steps(F, Nat, Nat)
  BY TimesNat DEF Steps, After
<1>2. Power(b, 0) = Folded(F, 1, <<>>)
  <2>1. [k \in 1..0 |-> b] = <<>>
    OBVIOUS
  <2> QED
    BY <2>1 DEF Power
<1> HIDE DEF F
<1> QED
  BY <1>1, <1>2, FoldedEmpty

LEMMA PowerStep == ASSUME NEW b \in Nat, NEW n \in Nat PROVE Power(b, n + 1) = Power(b, n) * b
<1> DEFINE F == [x \in Nat |-> [e \in Nat |-> x * e]]
           s == [k \in 1..n |-> b]
           t == [k \in 1..(n + 1) |-> b]
<1>1. Steps(F, Nat, Nat) /\ s \in Seq(Nat)
  BY TimesNat DEF Steps, After
<1>2. t = Append(s, b)
  <2>1. t \in Seq(Nat) /\ Len(t) = n + 1 /\ Append(s, b) \in Seq(Nat) /\ Len(Append(s, b)) = n + 1
    OBVIOUS
  <2>2. \A k \in 1..(n + 1) : t[k] = Append(s, b)[k]
    OBVIOUS
  <2> HIDE DEF s, t
  <2> QED
    BY <2>1, <2>2, SeqEqual
<1>3. Power(b, n) = Folded(F, 1, s) /\ Power(b, n + 1) = Folded(F, 1, t)
  BY DEF Power
<1>4. \A x \in Nat : After(F, x, b) = x * b
  BY DEF After
<1>5. Power(b, n) \in Nat
  BY PowerType
<1> HIDE DEF F, s, t
<1>6. Folded(F, 1, Append(s, b)) = After(F, Folded(F, 1, s), b)
  BY <1>1, FoldedAppend
<1> QED
  BY <1>2, <1>3, <1>4, <1>5, <1>6

LEMMA PowerPositive == ASSUME NEW b \in Nat \ {0} PROVE \A n \in Nat : Power(b, n) \in Nat \ {0}
<1> DEFINE Good == {n \in Nat : Power(b, n) \in Nat \ {0}}
<1>1. 0 \in Good
  BY PowerZero
<1>2. ASSUME NEW n \in Nat, n \in Good PROVE n + 1 \in Good
  <2> DEFINE x == Power(b, n)
  <2>1. x \in Nat \ {0} /\ Power(b, n + 1) = x * b
    BY <1>2, PowerStep
  <2>2. x * b \in Nat \ {0}
    <3> HIDE DEF x
    <3> QED
      BY <2>1
  <2> QED
    BY <2>1, <2>2
<1>3. \A n \in Nat : n \in Good
  <2> HIDE DEF Good
  <2> QED
    BY <1>1, <1>2, AllNumbers
<1> QED
  BY <1>3

LEMMA ValueEmpty == ASSUME NEW b \in Nat PROVE Value(b, <<>>) = 0
<1> DEFINE F == [x \in Nat |-> [d \in Nat |-> x * b + d]]
<1>1. Steps(F, Nat, Nat)
  BY TimesNat DEF Steps, After
<1>2. Value(b, <<>>) = Folded(F, 0, <<>>)
  BY DEF Value
<1> HIDE DEF F
<1> QED
  BY <1>1, <1>2, FoldedEmpty

LEMMA ValueAppend ==
  ASSUME NEW b \in Nat, NEW s, NEW d, s \in Seq(Nat), d \in Nat
  PROVE  Value(b, s) \in Nat /\ Value(b, Append(s, d)) = Value(b, s) * b + d
<1> DEFINE F == [x \in Nat |-> [e \in Nat |-> x * b + e]]
<1>1. Steps(F, Nat, Nat)
  BY TimesNat DEF Steps, After
<1>2. Value(b, s) = Folded(F, 0, s) /\ Value(b, Append(s, d)) = Folded(F, 0, Append(s, d))
  BY DEF Value
<1>3. \A x \in Nat : After(F, x, d) = x * b + d
  BY DEF After
<1> HIDE DEF F
<1>4. Folded(F, 0, s) \in Nat
  BY <1>1, FoldedType
<1>5. Folded(F, 0, Append(s, d)) = After(F, Folded(F, 0, s), d)
  BY <1>1, FoldedAppend
<1> QED
  BY <1>2, <1>3, <1>4, <1>5

\* Quotient and remainder are what they are for.
LEMMA Divided ==
  ASSUME NEW x \in Nat, NEW d \in Nat \ {0}
  PROVE  /\ x \div d \in Nat /\ x % d \in Nat /\ x % d < d
         /\ x = d * (x \div d) + (x % d)
OBVIOUS

LEMMA DividedUniquely ==
  ASSUME NEW x \in Nat, NEW d \in Nat \ {0}, NEW q \in Nat, NEW r \in Nat, r < d, x = d * q + r
  PROVE  x \div d = q /\ x % d = r
<1> DEFINE u == x \div d
           v == x % d
<1>1. u \in Nat /\ v \in Nat /\ v < d /\ x = d * u + v
  BY Divided
<1> HIDE DEF u, v
<1>2. ~(u < q)
  <2> SUFFICES ASSUME u < q PROVE FALSE
    OBVIOUS
  <2>1. PICK z \in Nat : q = u + 1 + z
    <3>1. q - u - 1 \in Nat /\ q = u + 1 + (q - u - 1)
      BY <1>1
    <3> QED
      BY <3>1
  <2>2. d * q = d * u + d + d * z /\ d * z \in Nat /\ d * u \in Nat
    BY <1>1, <2>1
  <2> QED
    BY <1>1, <2>2
<1>3. ~(q < u)
  <2> SUFFICES ASSUME q < u PROVE FALSE
    OBVIOUS
  <2>1. PICK z \in Nat : u = q + 1 + z
    <3>1. u - q - 1 \in Nat /\ u = q + 1 + (u - q - 1)
      BY <1>1
    <3> QED
      BY <3>1
  <2>2. d * u = d * q + d + d * z /\ d * z \in Nat /\ d * q \in Nat
    BY <1>1, <2>1
  <2> QED
    BY <1>1, <2>2
<1>4. u = q
  BY <1>1, <1>2, <1>3
<1>5. v = r
  BY <1>1, <1>4
<1> QED
  BY <1>4, <1>5 DEF u, v

\* To divide by a product is to divide twice.
LEMMA DividedTwice ==
  ASSUME NEW x \in Nat, NEW p \in Nat \ {0}, NEW q \in Nat \ {0}
  PROVE  /\ p * q \in Nat \ {0}
         /\ (x \div p) \div q = x \div (p * q)
         /\ x % (p * q) = p * ((x \div p) % q) + (x % p)
<1> DEFINE u == x \div p
           r == x % p
           v == u \div q
           s == u % q
<1>1. u \in Nat /\ r \in Nat /\ r < p /\ x = p * u + r
  BY Divided
<1>2. v \in Nat /\ s \in Nat /\ s < q /\ u = q * v + s
  <2> HIDE DEF u
  <2> QED
    BY <1>1, Divided
<1> HIDE DEF u, r, v, s
<1>3. p * q \in Nat \ {0}
  OBVIOUS
<1>4. p * s + r \in Nat /\ p * s + r < p * q
  <2>1. PICK z \in Nat : q = s + 1 + z
    <3>1. q - s - 1 \in Nat /\ q = s + 1 + (q - s - 1)
      BY <1>2
    <3> QED
      BY <3>1
  <2>2. p * q = p * s + p + p * z /\ p * z \in Nat /\ p * s \in Nat
    BY <1>2, <2>1
  <2> QED
    BY <1>1, <2>2
<1>5. x = (p * q) * v + (p * s + r)
  <2>1. p * (q * v + s) = (p * q) * v + p * s
    BY <1>2
  <2>2. p * s \in Nat /\ (p * q) * v \in Nat
    BY <1>2
  <2> QED
    BY <1>1, <1>2, <2>1, <2>2
<1> DEFINE m == p * q
           w == p * s + r
<1>6. m \in Nat \ {0} /\ w \in Nat /\ w < m /\ x = m * v + w
  BY <1>3, <1>4, <1>5
<1>7. x \div m = v /\ x % m = w
  <2> HIDE DEF m, w
  <2> QED
    BY <1>2, <1>6, DividedUniquely
<1> QED
  BY <1>3, <1>7 DEF u, r, v, s

-----------------------------------------------------------------------------
\* Only goes through the sequence once, keeping what is in T.
KeepIn(X, T) == [x \in Seq(X) |-> [e \in X |-> IF e \in T THEN Append(x, e) ELSE x]]

LEMMA KeepInSteps ==
  ASSUME NEW X, NEW T
  PROVE  /\ Steps(KeepIn(X, T), Seq(X), X)
         /\ \A x \in Seq(X), e \in X :
              After(KeepIn(X, T), x, e) = IF e \in T THEN Append(x, e) ELSE x
<1>1. ASSUME NEW x \in Seq(X), NEW e \in X
      PROVE  /\ After(KeepIn(X, T), x, e) = IF e \in T THEN Append(x, e) ELSE x
             /\ After(KeepIn(X, T), x, e) \in Seq(X)
  <2>1. After(KeepIn(X, T), x, e) = IF e \in T THEN Append(x, e) ELSE x
    BY DEF After, KeepIn
  <2>2. Append(x, e) \in Seq(X)
    OBVIOUS
  <2> QED
    BY <2>1, <2>2
<1> QED
  BY <1>1 DEF Steps

LEMMA OnlyIsFolded ==
  ASSUME NEW X, NEW T, NEW s, s \in Seq(X)
  PROVE  Only(s, T) = Folded(KeepIn(X, T), <<>>, s)
<1> DEFINE F == KeepIn(X, T)
           n == Len(s)
           f == Running(F, <<>>, s)
           Kept(h, k) == IF s[k] \in T THEN Append(h[k - 1], s[k]) ELSE h[k - 1]
           Next == [k \in 0..n |-> IF k = 0 THEN <<>> ELSE Kept(f, k)]
           h == CHOOSE h : h = [k \in 0..n |-> IF k = 0 THEN <<>> ELSE Kept(h, k)]
<1>1. n \in Nat /\ <<>> \in Seq(X) /\ \A k \in 1..n : s[k] \in X
  OBVIOUS
<1>2. Steps(F, Seq(X), X) /\ \A x \in Seq(X), e \in X : After(F, x, e) = IF e \in T THEN Append(x, e) ELSE x
  BY KeepInSteps
<1>3. Only(s, T) = h[n]
  BY DEF Only
<1>4. Folded(F, <<>>, s) = f[n]
  BY DEF Folded
<1>5. f \in [0..n -> Seq(X)] /\ f[0] = <<>> /\ \A k \in 1..n : f[k] = After(F, f[k - 1], s[k])
  <2> DEFINE S == Seq(X)
             base == <<>>
             r == Running(F, base, s)
  <2>1. Steps(F, S, X) /\ base \in S
    BY <1>1, <1>2
  <2> HIDE DEF F, S, base
  <2>2. r \in [0..n -> S] /\ r[0] = base /\ \A k \in 1..n : r[k] = After(F, r[k - 1], s[k])
    BY <2>1, RunningFunction
  <2> QED
    BY <2>2 DEF S, base
<1> HIDE DEF F, f
<1>6. \A k \in 1..n : f[k] = Kept(f, k)
  <2> TAKE k \in 1..n
  <2>1. k - 1 \in 0..n
    BY <1>1
  <2>2. f[k - 1] \in Seq(X) /\ s[k] \in X
    BY <1>1, <1>5, <2>1
  <2> QED
    BY <1>2, <1>5, <2>2
<1>7. f = [k \in 0..n |-> IF k = 0 THEN <<>> ELSE Kept(f, k)]
  <2> HIDE DEF Kept
  <2> QED
    BY <1>1, <1>5, <1>6
<1>8. h = [k \in 0..n |-> IF k = 0 THEN <<>> ELSE Kept(h, k)]
  BY <1>7
<1> HIDE DEF h
<1>9. h[0] = <<>> /\ \A k \in 1..n : h[k] = Kept(h, k)
  <2> HIDE DEF Kept
  <2> QED
    BY <1>1, <1>8
<1> DEFINE Same == {k \in Nat : h[k] = f[k]}
<1>10. 0 \in Same
  BY <1>5, <1>9
<1>11. ASSUME NEW k \in 0..n, k \in Same, k < n PROVE k + 1 \in Same
  <2>1. k + 1 \in 1..n /\ k + 1 - 1 = k /\ k + 1 \in Nat
    BY <1>1, <1>11
  <2>2. h[k + 1] = Kept(h, k + 1) /\ f[k + 1] = Kept(f, k + 1) /\ h[k] = f[k]
    <3> HIDE DEF Kept
    <3> QED
      BY <1>6, <1>9, <1>11, <2>1
  <2>3. Kept(h, k + 1) = Kept(f, k + 1)
    BY <2>1, <2>2
  <2> QED
    BY <2>1, <2>2, <2>3
<1>12. \A k \in 0..n : k \in Same
  <2> HIDE DEF Same
  <2> QED
    BY <1>1, <1>10, <1>11, NumbersUpTo
<1>13. n \in 0..n
  BY <1>1
<1> QED
  BY <1>3, <1>4, <1>12, <1>13 DEF F

LEMMA OnlyType == ASSUME NEW X, NEW T, NEW s, s \in Seq(X) PROVE Only(s, T) \in Seq(X)
<1> DEFINE S == Seq(X)
           F == KeepIn(X, T)
           base == <<>>
<1>1. Steps(F, S, X) /\ base \in S
  BY KeepInSteps
<1>2. Only(s, T) = Folded(F, base, s)
  BY OnlyIsFolded
<1> HIDE DEF S, F, base
<1>3. Folded(F, base, s) \in S
  BY <1>1, FoldedType
<1> QED
  BY <1>2, <1>3 DEF S

\* Of one element more it keeps one more, or nothing.
LEMMA OnlyAppend ==
  ASSUME NEW X, NEW T, NEW s, NEW e, s \in Seq(X), e \in X
  PROVE  Only(Append(s, e), T) = IF e \in T THEN Append(Only(s, T), e) ELSE Only(s, T)
<1> DEFINE S == Seq(X)
           F == KeepIn(X, T)
           base == <<>>
           t == Append(s, e)
<1>1. /\ Steps(F, S, X) /\ base \in S /\ t \in S
      /\ \A x \in S, d \in X : After(F, x, d) = IF d \in T THEN Append(x, d) ELSE x
  BY KeepInSteps
<1>2. Only(s, T) = Folded(F, base, s)
  BY OnlyIsFolded
<1>3. Only(t, T) = Folded(F, base, t)
  BY <1>1, OnlyIsFolded
<1>4. s \in S
  OBVIOUS
<1> HIDE DEF F, base
<1>5. Folded(F, base, t) = After(F, Folded(F, base, s), e)
  <2> HIDE DEF S
  <2> QED
    BY <1>1, FoldedAppend
<1>6. Folded(F, base, s) \in S
  <2> HIDE DEF S
  <2> QED
    BY <1>1, FoldedType
<1> HIDE DEF S, t
<1> QED
  BY <1>1, <1>2, <1>3, <1>5, <1>6 DEF t

LEMMA OnlyEmpty == ASSUME NEW T PROVE Only(<<>>, T) = <<>>
<1> DEFINE F == KeepIn({}, T)
           S == Seq({})
           base == <<>>
<1>1. Steps(F, S, {}) /\ base \in S
  BY KeepInSteps
<1>2. Only(base, T) = Folded(F, base, base)
  BY <1>1, OnlyIsFolded
<1> HIDE DEF F, S
<1>3. Folded(F, base, <<>>) = base
  BY <1>1, FoldedEmpty
<1> QED
  BY <1>2, <1>3

-----------------------------------------------------------------------------
LEMMA AscendingZero == ASSUME NEW K PROVE Ascending(0, K) = <<>>
<1>1. [k \in 1..0 |-> k] = <<>>
  OBVIOUS
<1> QED
  BY <1>1, OnlyEmpty DEF Ascending

LEMMA AscendingStep ==
  ASSUME NEW K, NEW n \in Nat
  PROVE  Ascending(n + 1, K) = IF n + 1 \in K THEN Append(Ascending(n, K), n + 1) ELSE Ascending(n, K)
<1> DEFINE s == [k \in 1..n |-> k]
           t == [k \in 1..(n + 1) |-> k]
<1>1. s \in Seq(Nat) /\ n + 1 \in Nat
  OBVIOUS
<1>2. t = Append(s, n + 1)
  <2>1. t \in Seq(Nat) /\ Len(t) = n + 1 /\ Len(s) = n
    OBVIOUS
  <2>2. Append(s, n + 1) \in Seq(Nat) /\ Len(Append(s, n + 1)) = n + 1
    BY <2>1
  <2>3. \A k \in 1..(n + 1) : t[k] = Append(s, n + 1)[k]
    OBVIOUS
  <2> HIDE DEF s, t
  <2> QED
    BY <2>1, <2>2, <2>3, SeqEqual
<1> HIDE DEF s, t
<1>3. Only(Append(s, n + 1), K) = IF n + 1 \in K THEN Append(Only(s, K), n + 1) ELSE Only(s, K)
  <2> DEFINE e == n + 1
             X == Nat
  <2>1. s \in Seq(X) /\ e \in X
    BY <1>1
  <2> HIDE DEF e, X
  <2>2. Only(Append(s, e), K) = IF e \in K THEN Append(Only(s, K), e) ELSE Only(s, K)
    BY <2>1, OnlyAppend
  <2> QED
    BY <2>2 DEF e
<1> QED
  BY <1>2, <1>3 DEF Ascending, s, t

\* a holds the numbers from 1 to n that are in K, each once, the least first.
Ascends(a, n, K) ==
  /\ a \in Seq(Nat)
  /\ \A x \in 1..Len(a) : a[x] \in K /\ a[x] \in 1..n
  /\ \A x, y \in 1..Len(a) : x < y => a[x] < a[y]
  /\ \A k \in 1..n : k \in K => \E x \in 1..Len(a) : a[x] = k

LEMMA AscendsStep ==
  ASSUME NEW K, NEW n \in Nat, NEW a, Ascends(a, n, K)
  PROVE  Ascends(IF n + 1 \in K THEN Append(a, n + 1) ELSE a, n + 1, K)
<1>1. a \in Seq(Nat) /\ Len(a) \in Nat
  BY DEF Ascends
<1>2. CASE n + 1 \notin K
  <2>1. \A k \in 1..(n + 1) : k \in K => k \in 1..n
    BY <1>2
  <2>2. \A x \in 1..Len(a) : a[x] \in K /\ a[x] \in 1..(n + 1)
    BY DEF Ascends
  <2> QED
    BY <1>2, <2>1, <2>2 DEF Ascends
<1>3. CASE n + 1 \in K
  <2> DEFINE b == Append(a, n + 1)
  <2>1. b \in Seq(Nat) /\ Len(b) = Len(a) + 1 /\ b[Len(a) + 1] = n + 1
        /\ \A x \in 1..Len(a) : b[x] = a[x]
    BY <1>1
  <2> HIDE DEF b
  <2>2. ASSUME NEW x \in 1..Len(b) PROVE b[x] \in K /\ b[x] \in 1..(n + 1)
    <3>1. CASE x = Len(a) + 1
      BY <1>3, <2>1, <3>1
    <3>2. CASE x \in 1..Len(a)
      <4>1. a[x] \in K /\ a[x] \in 1..n
        BY <3>2 DEF Ascends
      <4> QED
        BY <2>1, <3>2, <4>1
    <3> QED
      BY <1>1, <2>1, <3>1, <3>2
  <2>3. ASSUME NEW x \in 1..Len(b), NEW y \in 1..Len(b), x < y PROVE b[x] < b[y]
    <3>1. x \in 1..Len(a) /\ a[x] \in 1..n /\ b[x] = a[x]
      BY <1>1, <2>1, <2>3 DEF Ascends
    <3>2. CASE y = Len(a) + 1
      BY <2>1, <3>1, <3>2
    <3>3. CASE y \in 1..Len(a)
      BY <2>1, <2>3, <3>1, <3>3 DEF Ascends
    <3> QED
      BY <1>1, <2>1, <3>2, <3>3
  <2>4. ASSUME NEW k \in 1..(n + 1), k \in K PROVE \E x \in 1..Len(b) : b[x] = k
    <3>1. CASE k = n + 1
      BY <1>1, <2>1, <3>1
    <3>2. CASE k \in 1..n
      <4>1. PICK x \in 1..Len(a) : a[x] = k
        BY <2>4, <3>2 DEF Ascends
      <4> QED
        BY <1>1, <2>1, <4>1
    <3> QED
      BY <3>1, <3>2
  <2>5. Ascends(b, n + 1, K)
    BY <2>1, <2>2, <2>3, <2>4 DEF Ascends
  <2> QED
    BY <1>3, <2>5 DEF b
<1> QED
  BY <1>2, <1>3

\* Ascending is what it says.
LEMMA AscendingAscends == ASSUME NEW K, NEW m \in Nat PROVE Ascends(Ascending(m, K), m, K)
<1> DEFINE Good == {n \in Nat : Ascends(Ascending(n, K), n, K)}
<1>1. 0 \in Good
  <2> DEFINE a == <<>>
  <2>1. a \in Seq(Nat) /\ Len(a) = 0
    OBVIOUS
  <2> HIDE DEF a
  <2>2. Ascends(a, 0, K)
    BY <2>1 DEF Ascends
  <2> QED
    BY <2>2, AscendingZero DEF a
<1>2. \A n \in Nat : n \in Good => n + 1 \in Good
  BY AscendsStep, AscendingStep
<1>3. \A n \in Nat : n \in Good
  <2> HIDE DEF Good
  <2> QED
    BY <1>1, <1>2, AllNumbers
<1> QED
  BY <1>3

\* It does not depend on what is not among the numbers.
LEMMA AscendingAgree ==
  ASSUME NEW K, NEW L, NEW m \in Nat, \A k \in 1..m : k \in K <=> k \in L
  PROVE  Ascending(m, K) = Ascending(m, L)
<1> DEFINE Good == {n \in Nat : Ascending(n, K) = Ascending(n, L)}
<1>1. 0 \in Good
  BY AscendingZero
<1>2. ASSUME NEW n \in 0..m, n \in Good, n < m PROVE n + 1 \in Good
  <2>1. n \in Nat /\ n + 1 \in 1..m /\ n + 1 \in Nat
    BY <1>2
  <2>2. n + 1 \in K <=> n + 1 \in L
    BY <2>1
  <2> QED
    BY <1>2, <2>1, <2>2, AscendingStep
<1>3. \A n \in 0..m : n \in Good
  <2> HIDE DEF Good
  <2> QED
    BY <1>1, <1>2, NumbersUpTo
<1> QED
  BY <1>3

\* Numbers that are not in K add nothing.
LEMMA AscendingMore ==
  ASSUME NEW K, NEW n \in Nat, NEW m \in Nat, n <= m, \A k \in (n + 1)..m : k \notin K
  PROVE  Ascending(m, K) = Ascending(n, K)
<1> DEFINE Good == {d \in Nat : n + d <= m => Ascending(n + d, K) = Ascending(n, K)}
<1>1. 0 \in Good
  OBVIOUS
<1>2. ASSUME NEW d \in Nat, d \in Good PROVE d + 1 \in Good
  <2> SUFFICES ASSUME n + (d + 1) <= m PROVE Ascending(n + (d + 1), K) = Ascending(n, K)
    OBVIOUS
  <2>1. n + d \in Nat /\ n + (d + 1) = (n + d) + 1 /\ n + d <= m /\ (n + d) + 1 \in (n + 1)..m
    OBVIOUS
  <2>2. (n + d) + 1 \notin K
    BY <2>1
  <2> HIDE DEF Good
  <2>3. Ascending((n + d) + 1, K) = Ascending(n + d, K)
    BY <2>1, <2>2, AscendingStep
  <2>4. Ascending(n + d, K) = Ascending(n, K)
    BY <1>2, <2>1 DEF Good
  <2> QED
    BY <2>1, <2>3, <2>4
<1>3. \A d \in Nat : d \in Good
  <2> HIDE DEF Good
  <2> QED
    BY <1>1, <1>2, AllNumbers
<1>4. m - n \in Nat /\ n + (m - n) = m
  OBVIOUS
<1>5. m - n \in Good
  <2> HIDE DEF Good
  <2> QED
    BY <1>3, <1>4
<1> QED
  BY <1>4, <1>5

-----------------------------------------------------------------------------
\* What one more element does to a sequence.
LEMMA OneMore ==
  ASSUME NEW X, NEW s, NEW c, s \in Seq(X), c \in X
  PROVE  /\ Append(s, c) \in Seq(X) /\ Len(Append(s, c)) = Len(s) + 1 /\ Len(s) \in Nat
         /\ Append(s, c)[Len(s) + 1] = c /\ \A k \in 1..Len(s) : Append(s, c)[k] = s[k]
         /\ DOMAIN s = 1..Len(s) /\ DOMAIN Append(s, c) = 1..(Len(s) + 1)
OBVIOUS

\* A function on 1..n is a sequence, and a piece of a sequence what it is.
LEMMA Tabulated ==
  ASSUME NEW X, NEW n_ \in Nat, NEW f, f = [k \in 1..n_ |-> f[k]], \A k \in 1..n_ : f[k] \in X
  PROVE  f \in Seq(X) /\ Len(f) = n_
<1>1. f \in [1..n_ -> X]
  OBVIOUS
<1> QED
  BY <1>1

LEMMA Excerpt ==
  ASSUME NEW X, NEW s, s \in Seq(X), NEW a \in Nat, NEW g_ \in Nat, a + g_ <= Len(s)
  PROVE  /\ SubSeq(s, a + 1, a + g_) \in Seq(X) /\ Len(SubSeq(s, a + 1, a + g_)) = g_
         /\ \A k \in 1..g_ : SubSeq(s, a + 1, a + g_)[k] = s[a + k]
OBVIOUS

-----------------------------------------------------------------------------
\* Each of n places goes on further on.
Ahead(next, n) == \A k \in 1..n : next[k] \in (k + 1)..(n + 1)

\* Chained is what it says, when each place goes on further on.
LEMMA ChainedIs ==
  ASSUME NEW put, NEW next, NEW n \in Nat, Len(put) = n, Ahead(next, n)
  PROVE  /\ Chained(put, next)[n + 1] = <<>>
         /\ \A k \in 1..n : Chained(put, next)[k] = put[k] \o Chained(put, next)[next[k]]
<1> DEFINE Good(m, g) == g[n + 1] = <<>> /\ \A k \in (n + 1 - m)..n : g[k] = put[k] \o g[next[k]]
           All == {m \in Nat : m <= n => \E g : Good(m, g)}
<1> HIDE DEF Good
<1>1. 0 \in All
  <2> DEFINE g == [k \in {n + 1} |-> <<>>]
  <2>1. g[n + 1] = <<>> /\ ~\E k \in (n + 1 - 0)..n : TRUE
    OBVIOUS
  <2>2. Good(0, g)
    BY <2>1 DEF Good
  <2> HIDE DEF g
  <2> QED
    BY <2>2
<1>2. ASSUME NEW m \in Nat, m \in All PROVE m + 1 \in All
  <2> SUFFICES ASSUME m + 1 <= n PROVE \E h : Good(m + 1, h)
    OBVIOUS
  <2>1. PICK g : Good(m, g)
    BY <1>2
  <2> DEFINE a == n - m
             h == [k \in a..(n + 1) |-> IF k = a THEN put[k] \o g[next[k]] ELSE g[k]]
  <2>2. a \in 1..n /\ a + 1 = n + 1 - m /\ n + 1 - (m + 1) = a
    OBVIOUS
  <2> HIDE DEF a
  <2>3. ASSUME NEW k \in a..n PROVE h[k] = put[k] \o h[next[k]]
    <3>1. k \in 1..n /\ k \in a..(n + 1)
      BY <2>2
    <3>2. next[k] \in (a + 1)..(n + 1)
      <4>1. next[k] \in (k + 1)..(n + 1)
        BY <3>1 DEF Ahead
      <4> QED
        BY <2>2, <4>1
    <3>3. h[next[k]] = g[next[k]]
      BY <2>2, <3>2
    <3>4. CASE k = a
      BY <3>1, <3>3, <3>4
    <3>5. CASE k # a
      <4>1. k \in (n + 1 - m)..n /\ h[k] = g[k]
        BY <2>2, <3>1, <3>5
      <4>2. g[k] = put[k] \o g[next[k]]
        BY <2>1, <4>1 DEF Good
      <4> QED
        BY <3>3, <4>1, <4>2
    <3> QED
      BY <3>4, <3>5
  <2>4. h[n + 1] = <<>>
    BY <2>1, <2>2 DEF Good
  <2>5. Good(m + 1, h)
    <3> HIDE DEF h
    <3> QED
      BY <2>2, <2>3, <2>4 DEF Good
  <2> HIDE DEF h
  <2> QED
    BY <2>5
<1>3. \A m \in Nat : m \in All
  <2> HIDE DEF All
  <2> QED
    BY <1>1, <1>2, AllNumbers
<1>4. PICK g : Good(n, g)
  <2>1. n \in All
    <3> HIDE DEF All
    <3> QED
      BY <1>3
  <2> QED
    BY <2>1
<1> DEFINE G == [k \in 1..(n + 1) |-> g[k]]
           f == CHOOSE f : f = [k \in 1..(n + 1) |-> IF k > n THEN <<>> ELSE put[k] \o f[next[k]]]
<1>5. G = [k \in 1..(n + 1) |-> IF k > n THEN <<>> ELSE put[k] \o G[next[k]]]
  <2>1. ASSUME NEW k \in 1..(n + 1) PROVE G[k] = IF k > n THEN <<>> ELSE put[k] \o G[next[k]]
    <3>1. CASE k > n
      <4>1. k = n + 1
        BY <3>1
      <4> QED
        BY <1>4, <3>1, <4>1 DEF Good
    <3>2. CASE ~(k > n)
      <4>1. k \in 1..n /\ k \in (n + 1 - n)..n
        BY <3>2
      <4>2. next[k] \in 1..(n + 1)
        <5>1. next[k] \in (k + 1)..(n + 1)
          BY <4>1 DEF Ahead
        <5> QED
          BY <4>1, <5>1
      <4>3. g[k] = put[k] \o g[next[k]]
        BY <1>4, <4>1 DEF Good
      <4> QED
        BY <3>2, <4>2, <4>3
    <3> QED
      BY <3>1, <3>2
  <2> DEFINE R == [k \in 1..(n + 1) |-> IF k > n THEN <<>> ELSE put[k] \o G[next[k]]]
  <2>2. \A k \in 1..(n + 1) : G[k] = R[k]
    <3> HIDE DEF G
    <3> QED
      BY <2>1
  <2>3. G = [k \in 1..(n + 1) |-> G[k]] /\ R = [k \in 1..(n + 1) |-> R[k]]
    OBVIOUS
  <2> HIDE DEF G, R
  <2>4. G = R
    BY <2>2, <2>3
  <2> QED
    BY <2>4 DEF R
<1>6. f = [k \in 1..(n + 1) |-> IF k > n THEN <<>> ELSE put[k] \o f[next[k]]]
  <2> HIDE DEF G
  <2> QED
    BY <1>5
<1>7. Chained(put, next) = f
  BY DEF Chained
<1> HIDE DEF f
<1>8. n + 1 \in 1..(n + 1) /\ n + 1 > n /\ \A k \in 1..n : k \in 1..(n + 1) /\ ~(k > n)
  OBVIOUS
<1>9. f[n + 1] = <<>>
  BY <1>6, <1>8
<1>10. \A k \in 1..n : f[k] = put[k] \o f[next[k]]
  BY <1>6, <1>8
<1> QED
  BY <1>7, <1>9, <1>10

LEMMA ChainedType ==
  ASSUME NEW X, NEW put, NEW next, NEW n \in Nat, Len(put) = n, Ahead(next, n),
         \A k \in 1..n : put[k] \in Seq(X)
  PROVE  \A k \in 1..(n + 1) : Chained(put, next)[k] \in Seq(X)
<1> DEFINE f == Chained(put, next)
           Typed == {m \in Nat : \A k \in (n + 1 - m)..(n + 1) : k >= 1 => f[k] \in Seq(X)}
<1> HIDE DEF f
<1>1. f[n + 1] = <<>> /\ \A k \in 1..n : f[k] = put[k] \o f[next[k]]
  <2>1. Len(put) = n /\ Ahead(next, n)
    OBVIOUS
  <2>2. Chained(put, next)[n + 1] = <<>>
    BY ONLY <2>1, ChainedIs
  <2>3. \A k \in 1..n : Chained(put, next)[k] = put[k] \o Chained(put, next)[next[k]]
    BY ONLY <2>1, ChainedIs
  <2> QED
    BY <2>2, <2>3 DEF f
<1>2. 0 \in Typed
  <2>1. \A k \in (n + 1 - 0)..(n + 1) : k = n + 1
    OBVIOUS
  <2>2. <<>> \in Seq(X)
    OBVIOUS
  <2> QED
    BY <1>1, <2>1, <2>2
<1>3. ASSUME NEW m \in Nat, m \in Typed PROVE m + 1 \in Typed
  <2>1. ASSUME NEW k \in (n + 1 - (m + 1))..(n + 1), k >= 1 PROVE f[k] \in Seq(X)
    <3>1. CASE k \in (n + 1 - m)..(n + 1)
      BY <1>3, <2>1, <3>1
    <3>2. CASE k \notin (n + 1 - m)..(n + 1)
      <4>1. k = n - m /\ k \in 1..n
        BY <2>1, <3>2
      <4>2. next[k] \in (k + 1)..(n + 1)
        BY <4>1 DEF Ahead
      <4>3. next[k] \in (n + 1 - m)..(n + 1) /\ next[k] >= 1
        BY <4>1, <4>2
      <4>4. f[next[k]] \in Seq(X)
        BY <1>3, <4>3
      <4>5. put[k] \in Seq(X) /\ f[k] = put[k] \o f[next[k]]
        BY <1>1, <4>1
      <4> QED
        BY <4>4, <4>5
    <3> QED
      BY <3>1, <3>2
  <2> QED
    BY <2>1
<1>4. \A m \in Nat : m \in Typed
  <2> HIDE DEF Typed
  <2> QED
    BY <1>2, <1>3, AllNumbers
<1>5. n \in Typed
  <2> HIDE DEF Typed
  <2> QED
    BY <1>4
<1>6. n + 1 - n = 1
  OBVIOUS
<1> QED
  BY <1>5, <1>6 DEF f

-----------------------------------------------------------------------------
\* FlattenSeq goes through the sequence once, joining what there is.
Join(X) == [x \in Seq(X) |-> [e \in Seq(X) |-> x \o e]]

LEMMA JoinSteps ==
  ASSUME NEW X
  PROVE  /\ Steps(Join(X), Seq(X), Seq(X)) /\ <<>> \in Seq(X)
         /\ \A x \in Seq(X), e \in Seq(X) : After(Join(X), x, e) = x \o e
<1>1. ASSUME NEW x \in Seq(X), NEW e \in Seq(X)
      PROVE  After(Join(X), x, e) = x \o e /\ After(Join(X), x, e) \in Seq(X)
  <2>1. After(Join(X), x, e) = x \o e
    BY DEF After, Join
  <2>2. x \o e \in Seq(X)
    OBVIOUS
  <2> QED
    BY <2>1, <2>2
<1>2. <<>> \in Seq(X)
  OBVIOUS
<1>3. Steps(Join(X), Seq(X), Seq(X))
  BY <1>1 DEF Steps
<1> QED
  BY <1>1, <1>2, <1>3

LEMMA FlattenIsFolded ==
  ASSUME NEW X, NEW s, s \in Seq(Seq(X))
  PROVE  FlattenSeq(s) = Folded(Join(X), <<>>, s)
<1> DEFINE S == Seq(X)
           F == Join(X)
           base == <<>>
           n == Len(s)
           f == Running(F, base, s)
           g == [k \in 1..n |-> f[k]]
           h == CHOOSE h : h = [k \in 1..n |-> IF k = 1 THEN s[k] ELSE h[k - 1] \o s[k]]
<1>1. n \in Nat /\ base \in S /\ s \in Seq(S) /\ Steps(F, S, S) /\ \A x \in S, e \in S : After(F, x, e) = x \o e
  BY JoinSteps
<1>2. \A k \in 1..n : s[k] \in S
  BY <1>1
<1>3. Folded(F, base, s) = f[n]
  BY DEF Folded
<1>4. f \in [0..n -> S] /\ f[0] = base /\ \A k \in 1..n : f[k] = After(F, f[k - 1], s[k])
  <2> HIDE DEF F, S, base
  <2> QED
    BY <1>1, RunningFunction
<1> HIDE DEF F, f
<1>5. ASSUME NEW k \in 1..n PROVE f[k] = f[k - 1] \o s[k]
  <2>1. k - 1 \in 0..n
    BY <1>1
  <2>2. f[k - 1] \in S /\ s[k] \in S
    BY <1>2, <1>4, <2>1
  <2> HIDE DEF S
  <2> QED
    BY <1>1, <1>4, <2>2
<1>6. CASE n = 0
  <2>1. s = <<>>
    BY <1>6
  <2>2. FlattenSeq(s) = s
    BY <1>6 DEF FlattenSeq
  <2> QED
    BY <1>3, <1>4, <1>6, <2>1, <2>2 DEF F
<1>7. CASE n # 0
  <2>1. FlattenSeq(s) = h[n]
    BY <1>7 DEF FlattenSeq
  <2>2. n \in 1..n /\ 1 \in 1..n /\ 1 - 1 = 0
    BY <1>1, <1>7
  <2>3. f[1] = s[1]
    <3>1. f[1] = <<>> \o s[1] /\ s[1] \in Seq(X)
      BY <1>2, <1>4, <1>5, <2>2
    <3> QED
      BY <3>1
  <2>4. g = [k \in 1..n |-> IF k = 1 THEN s[k] ELSE g[k - 1] \o s[k]]
    <3>1. ASSUME NEW k \in 1..n PROVE f[k] = IF k = 1 THEN s[k] ELSE g[k - 1] \o s[k]
      <4>1. CASE k = 1
        BY <2>3, <4>1
      <4>2. CASE k # 1
        <5>1. k - 1 \in 1..n
          BY <1>1, <4>2
        <5> QED
          BY <1>5, <4>2, <5>1
      <4> QED
        BY <4>1, <4>2
    <3> QED
      BY <3>1
  <2>5. h = [k \in 1..n |-> IF k = 1 THEN s[k] ELSE h[k - 1] \o s[k]]
    <3> HIDE DEF g
    <3> QED
      BY <2>4
  <2> HIDE DEF h
  <2> DEFINE Same == {k \in Nat : k = 0 \/ h[k] = f[k]}
  <2>6. 0 \in Same
    OBVIOUS
  <2>7. ASSUME NEW k \in 0..n, k \in Same, k < n PROVE k + 1 \in Same
    <3>1. k + 1 \in 1..n /\ k + 1 - 1 = k /\ k + 1 \in Nat
      BY <1>1, <2>7
    <3>2. h[k + 1] = IF k + 1 = 1 THEN s[k + 1] ELSE h[k] \o s[k + 1]
      <4>1. \A m \in 1..n : h[m] = IF m = 1 THEN s[m] ELSE h[m - 1] \o s[m]
        BY <2>5
      <4> QED
        BY <3>1, <4>1
    <3>3. f[k + 1] = f[k] \o s[k + 1]
      <4>1. \A m \in 1..n : f[m] = f[m - 1] \o s[m]
        BY <1>5
      <4> DEFINE m == k + 1
      <4>2. m \in 1..n /\ m - 1 = k
        BY <3>1
      <4> HIDE DEF m
      <4>3. f[m] = f[m - 1] \o s[m]
        BY ONLY <4>1, <4>2
      <4>4. f[m] = f[k] \o s[m]
        BY ONLY <4>2, <4>3
      <4> QED
        BY <4>4 DEF m
    <3>4. CASE k = 0
      BY <2>3, <3>1, <3>2, <3>4
    <3>5. CASE k # 0
      <4>1. h[k] = f[k] /\ k + 1 # 1
        BY <2>7, <3>1, <3>5
      <4>2. h[k + 1] = f[k + 1]
        BY <3>2, <3>3, <4>1
      <4> QED
        BY <3>1, <4>2
    <3> QED
      BY <3>4, <3>5
  <2>8. \A k \in 0..n : k \in Same
    <3> HIDE DEF Same
    <3> QED
      BY <1>1, <2>6, <2>7, NumbersUpTo
  <2>9. h[n] = f[n]
    BY <1>7, <2>2, <2>8
  <2> QED
    BY <1>3, <2>1, <2>9 DEF F
<1> QED
  BY <1>6, <1>7

LEMMA FlattenEmpty == FlattenSeq(<<>>) = <<>>
BY DEF FlattenSeq

LEMMA FlattenType == ASSUME NEW X, NEW s, s \in Seq(Seq(X)) PROVE FlattenSeq(s) \in Seq(X)
<1> DEFINE S == Seq(X)
           F == Join(X)
           base == <<>>
<1>1. Steps(F, S, S) /\ base \in S /\ s \in Seq(S)
  BY JoinSteps
<1>2. FlattenSeq(s) = Folded(F, base, s)
  BY FlattenIsFolded
<1> HIDE DEF S, F, base
<1>3. Folded(F, base, s) \in S
  BY <1>1, FoldedType
<1> QED
  BY <1>2, <1>3 DEF S

LEMMA FlattenAppend ==
  ASSUME NEW X, NEW s, NEW e, s \in Seq(Seq(X)), e \in Seq(X)
  PROVE  FlattenSeq(Append(s, e)) = FlattenSeq(s) \o e
<1> DEFINE S == Seq(X)
           F == Join(X)
           base == <<>>
           t == Append(s, e)
<1>1. Steps(F, S, S) /\ base \in S /\ s \in Seq(S) /\ \A x \in S, y \in S : After(F, x, y) = x \o y
  BY JoinSteps
<1>2. FlattenSeq(s) = Folded(F, base, s)
  BY FlattenIsFolded
<1>3. t \in Seq(Seq(X))
  OBVIOUS
<1>4. FlattenSeq(t) = Folded(F, base, t)
  <2> HIDE DEF t
  <2> QED
    BY <1>3, FlattenIsFolded
<1>5. e \in S
  OBVIOUS
<1> HIDE DEF S, F, base
<1>6. Folded(F, base, t) = After(F, Folded(F, base, s), e)
  BY <1>1, <1>5, FoldedAppend
<1>7. Folded(F, base, s) \in S
  BY <1>1, FoldedType
<1> QED
  BY <1>1, <1>2, <1>4, <1>5, <1>6, <1>7

\* What is made of the first k elements: of one more, of elements that add
\* nothing, and of all of them.
FlattenedTo(s, k) == FlattenSeq(SubSeq(s, 1, k))

LEMMA FlattenFirst ==
  ASSUME NEW X, NEW s, s \in Seq(Seq(X))
  PROVE  FlattenedTo(s, 0) = <<>> /\ FlattenedTo(s, Len(s)) = FlattenSeq(s)
<1>1. SubSeq(s, 1, 0) = <<>>
  OBVIOUS
<1>2. SubSeq(s, 1, Len(s)) = s
  <2> DEFINE u == SubSeq(s, 1, Len(s))
             S == Seq(X)
  <2>1. u \in Seq(S) /\ Len(u) = Len(s) /\ s \in Seq(S) /\ \A k \in 1..Len(s) : u[k] = s[k]
    OBVIOUS
  <2> HIDE DEF u, S
  <2>2. u = s
    BY <2>1, SeqEqual
  <2> QED
    BY <2>2 DEF u
<1> QED
  BY <1>1, <1>2, FlattenEmpty DEF FlattenedTo

LEMMA FlattenNext ==
  ASSUME NEW X, NEW s, NEW k, s \in Seq(Seq(X)), k \in 0..(Len(s) - 1)
  PROVE  /\ FlattenedTo(s, k) \in Seq(X) /\ FlattenedTo(s, k + 1) \in Seq(X)
         /\ s[k + 1] \in Seq(X) /\ FlattenedTo(s, k + 1) = FlattenedTo(s, k) \o s[k + 1]
<1> DEFINE S == Seq(X)
           u == SubSeq(s, 1, k)
           v == SubSeq(s, 1, k + 1)
<1>1. /\ u \in Seq(S) /\ Len(u) = k /\ k \in Nat /\ \A m \in 1..k : u[m] = s[m]
      /\ v \in Seq(S) /\ Len(v) = k + 1 /\ \A m \in 1..(k + 1) : v[m] = s[m]
      /\ s[k + 1] \in S
  OBVIOUS
<1> HIDE DEF u, v, S
<1>2. v = Append(u, s[k + 1])
  <2> DEFINE w == Append(u, s[k + 1])
  <2>1. w \in Seq(S) /\ Len(w) = k + 1 /\ \A m \in 1..(k + 1) : w[m] = s[m]
    BY <1>1
  <2> HIDE DEF w
  <2>2. v = w
    BY <1>1, <2>1, SeqEqual
  <2> QED
    BY <2>2 DEF w
<1>3. u \in Seq(Seq(X)) /\ v \in Seq(Seq(X)) /\ s[k + 1] \in Seq(X)
  BY <1>1 DEF S
<1>4. FlattenSeq(Append(u, s[k + 1])) = FlattenSeq(u) \o s[k + 1]
  BY ONLY <1>3, FlattenAppend
<1>5. FlattenSeq(u) \in Seq(X) /\ FlattenSeq(v) \in Seq(X)
  BY ONLY <1>3, FlattenType
<1> QED
  BY <1>2, <1>3, <1>4, <1>5 DEF FlattenedTo, u, v

LEMMA FlattenNone ==
  ASSUME NEW X, NEW s, NEW a \in Nat, NEW b \in Nat, s \in Seq(Seq(X)), a <= b, b <= Len(s),
         \A k \in (a + 1)..b : s[k] = <<>>
  PROVE  FlattenedTo(s, b) = FlattenedTo(s, a)
<1> DEFINE Same == {d \in Nat : a + d <= b => FlattenedTo(s, a + d) = FlattenedTo(s, a)}
<1>1. 0 \in Same
  OBVIOUS
<1>2. ASSUME NEW d \in Nat, d \in Same PROVE d + 1 \in Same
  <2>1. ASSUME a + (d + 1) <= b PROVE FlattenedTo(s, a + (d + 1)) = FlattenedTo(s, a)
    <3> DEFINE k == a + d
    <3>1. k \in 0..(Len(s) - 1) /\ k + 1 \in (a + 1)..b /\ a + (d + 1) = k + 1 /\ a + d <= b
      BY <2>1
    <3>2. FlattenedTo(s, k) = FlattenedTo(s, a) /\ s[k + 1] = <<>>
      BY <1>2, <3>1
    <3> HIDE DEF k, Same
    <3>3. FlattenedTo(s, k) \in Seq(X) /\ FlattenedTo(s, k + 1) = FlattenedTo(s, k) \o s[k + 1]
      BY <3>1, FlattenNext
    <3>4. FlattenedTo(s, k) \o <<>> = FlattenedTo(s, k)
      BY <3>3
    <3> QED
      BY <3>1, <3>2, <3>3, <3>4
  <2> QED
    BY <2>1
<1>3. \A d \in Nat : d \in Same
  <2> HIDE DEF Same
  <2> QED
    BY <1>1, <1>2, AllNumbers
<1>4. b - a \in Nat /\ a + (b - a) = b /\ a + (b - a) <= b
  OBVIOUS
<1>5. b - a \in Same
  <2> HIDE DEF Same
  <2> QED
    BY <1>3, <1>4
<1> QED
  BY <1>4, <1>5

LEMMA FlattenPrefix ==
  ASSUME NEW X, NEW s, s \in Seq(Seq(X))
  PROVE  \A k \in 0..Len(s) : \E r \in Seq(X) :
            FlattenedTo(s, k) \in Seq(X) /\ FlattenSeq(s) = FlattenedTo(s, k) \o r
<1> DEFINE n == Len(s)
           Good(k) == \E r \in Seq(X) : FlattenedTo(s, k) \in Seq(X) /\ FlattenSeq(s) = FlattenedTo(s, k) \o r
           T == {d \in Nat : d <= n => Good(n - d)}
<1>1. n \in Nat
  OBVIOUS
<1>2. 0 \in T
  <2> DEFINE r == <<>>
             u == FlattenSeq(s)
  <2>1. r \in Seq(X) /\ u \in Seq(X)
    <3>1. FlattenSeq(s) \in Seq(X)
      BY FlattenType
    <3> QED
      BY <3>1
  <2>2. u \o r = u
    BY <2>1
  <2>3. FlattenedTo(s, n) = u
    BY FlattenFirst
  <2> HIDE DEF u, r
  <2>4. Good(n)
    BY <2>1, <2>2, <2>3 DEF u
  <2>5. n - 0 = n
    BY <1>1
  <2> HIDE DEF n, Good
  <2> QED
    BY <2>4, <2>5
<1>3. ASSUME NEW d \in Nat, d \in T PROVE d + 1 \in T
  <2>1. ASSUME d + 1 <= n PROVE Good(n - (d + 1))
    <3> DEFINE k == n - (d + 1)
    <3>1. k \in 0..(n - 1) /\ n - d = k + 1 /\ d <= n
      BY <1>1, <2>1
    <3>2. Good(k + 1)
      <4> HIDE DEF Good, n, k
      <4> QED
        BY <1>3, <3>1
    <3> HIDE DEF k
    <3>3. PICK r \in Seq(X) : FlattenSeq(s) = FlattenedTo(s, k + 1) \o r
      BY <3>2
    <3>4. k \in 0..(Len(s) - 1)
      BY <3>1
    <3>5. /\ FlattenedTo(s, k) \in Seq(X) /\ s[k + 1] \in Seq(X)
          /\ FlattenedTo(s, k + 1) = FlattenedTo(s, k) \o s[k + 1]
      <4>1. s \in Seq(Seq(X))
        OBVIOUS
      <4> QED
        BY ONLY <3>4, <4>1, FlattenNext
    <3> DEFINE a_ == FlattenedTo(s, k)
               b_ == s[k + 1]
    <3>6. a_ \in Seq(X) /\ b_ \in Seq(X) /\ FlattenSeq(s) = (a_ \o b_) \o r
      BY <3>3, <3>5
    <3> HIDE DEF a_, b_
    <3>7. b_ \o r \in Seq(X) /\ (a_ \o b_) \o r = a_ \o (b_ \o r)
      BY <3>6
    <3>8. Good(k)
      BY <3>6, <3>7 DEF a_
    <3> QED
      BY <3>8 DEF k
  <2> HIDE DEF Good, n
  <2> QED
    BY <2>1
<1>4. \A d \in Nat : d \in T
  <2> HIDE DEF T
  <2> QED
    BY <1>2, <1>3, AllNumbers
<1>5. ASSUME NEW k \in 0..n PROVE Good(k)
  <2>1. n - k \in Nat /\ n - k <= n /\ n - (n - k) = k
    BY <1>1
  <2>2. n - k \in T
    <3> HIDE DEF T, n
    <3> QED
      BY <1>4, <2>1
  <2> HIDE DEF Good, n
  <2> QED
    BY <2>1, <2>2
<1> QED
  BY <1>5
=============================================================================
