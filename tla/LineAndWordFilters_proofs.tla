---------------------- MODULE LineAndWordFilters_proofs ----------------------
(***************************************************************************)
(* The filters that read lines (uniq, tail, tac, nl, more, mismatch) and   *)
(* those that look for words or pieces (chef, extract, litc, hexdump),     *)
(* side by side as MC_Filters runs them: they share the text and nothing   *)
(* else. Proofs about them: for any lines, formats and bytes, any options  *)
(* and texts of any length each program keeps its invariant, at the        *)
(* beginning, with every turn of its loop and at the end.                  *)
(***************************************************************************)
EXTENDS Integers, Sequences, SequencesExt, Stepwise

CONSTANTS Lines, MaxLines, Options,                               \* of those of lines
          ChefTexts, ChefSize, Formats, MatchLines, Match, NMatch, LitLines, Dumps, Piece

VARIABLES text,
          eof, opt, uniq, tail, tac, nl, more, mismatch,          \* of lines
          prog, format, at, buf, out, pc                          \* of words

lineVars == <<opt, uniq, tail, tac, nl, more, mismatch>>
wordVars == <<prog, format, buf, out>>

LinesOf == INSTANCE LineFilters
WordsOf == INSTANCE WordFilters WITH TC_LINEMAX <- ChefSize

ASSUME LinesAssumed == LinesOf!OptionsAssumption
ASSUME WordsAssumed == WordsOf!WordAssumption

-----------------------------------------------------------------------------
(* uniq, tail, tac, nl, more, mismatch *)

LEMMA OptionKinds ==
  ASSUME LinesOf!OptionsAssumption, opt \in Options
  PROVE  /\ opt.tail_n \in Nat /\ opt.rows \in Nat
         /\ LinesOf!Held \in Seq(Seq(Nat)) /\ LinesOf!Held # <<>>
         /\ opt.unique_only \in BOOLEAN /\ opt.duplicate \in BOOLEAN /\ opt.to_file \in BOOLEAN
         /\ opt.nskip_fields \in Nat /\ opt.bflag \in {"a", "t", "n"}
<1>1. /\ opt.tail_n \in Nat /\ opt.rows \in Nat /\ opt.file \in Seq(Seq(Nat)) /\ opt.junk \in Seq(Nat)
      /\ opt.unique_only \in BOOLEAN /\ opt.duplicate \in BOOLEAN /\ opt.to_file \in BOOLEAN
      /\ opt.nskip_fields \in Nat /\ opt.bflag \in {"a", "t", "n"}
  BY DEF LinesOf!OptionsAssumption
<1>2. LinesOf!Held \in Seq(Seq(Nat)) /\ LinesOf!Held # <<>>
  <2>1. CASE opt.file = <<>>
    <3>1. LinesOf!Held = <<opt.junk>>
      BY <2>1 DEF LinesOf!Held
    <3> QED
      BY <1>1, <3>1
  <2>2. CASE opt.file # <<>>
    BY <1>1, <2>2 DEF LinesOf!Held
  <2> QED
    BY <2>1, <2>2
<1> QED
  BY <1>1, <1>2

LEMMA LineKinds ==
  ASSUME LinesOf!OptionsAssumption
  PROVE  /\ Lines \subseteq Seq(Nat) /\ LinesOf!NULL \notin Lines /\ LinesOf!JUNK \notin Lines /\ LinesOf!PAUSE \notin Lines
<1>1. Lines \subseteq Seq(Nat)
  BY DEF LinesOf!OptionsAssumption
<1>2. ASSUME NEW d \in Int, d < 0 PROVE <<d>> \notin Lines
  <2> SUFFICES ASSUME <<d>> \in Seq(Nat) PROVE FALSE
    BY <1>1
  <2>1. <<d>>[1] \in Nat
    <3>1. Len(<<d>>) = 1
      OBVIOUS
    <3> QED
      BY <3>1
  <2> QED
    BY <1>2, <2>1
<1>3. -1 < 0 /\ -2 < 0 /\ -3 < 0 /\ {-1, -2, -3} \subseteq Int
  OBVIOUS
<1> QED
  BY <1>1, <1>2, <1>3 DEF LinesOf!NULL, LinesOf!JUNK, LinesOf!PAUSE

\* The order of lines, character by character: y goes on where x ends, or they
\* differ.
Goes(x, y) == Len(x) <= Len(y) /\ \A j_ \in 1..Len(x) : x[j_] = y[j_]
Differs(x, y, k) ==
  k \in 1..Len(x) /\ k <= Len(y) /\ (\A j_ \in 1..(k - 1) : x[j_] = y[j_]) /\ x[k] < y[k]

LEMMA SameStart ==
  ASSUME NEW X, NEW x, NEW y, x \in Seq(X), y \in Seq(X), NEW m \in Nat, m <= Len(x), m <= Len(y)
  PROVE  SubSeq(x, 1, m) = SubSeq(y, 1, m) <=> \A j_ \in 1..m : x[j_] = y[j_]
<1> DEFINE a == SubSeq(x, 1, m)
           b == SubSeq(y, 1, m)
<1>1. /\ a \in Seq(X) /\ Len(a) = m /\ (\A j_ \in 1..m : a[j_] = x[j_])
      /\ b \in Seq(X) /\ Len(b) = m /\ (\A j_ \in 1..m : b[j_] = y[j_])
  OBVIOUS
<1> HIDE DEF a, b
<1>2. ASSUME \A j_ \in 1..m : a[j_] = b[j_] PROVE a = b
  BY <1>1, <1>2, LinesOf!SeqEqual
<1>3. a = b <=> \A j_ \in 1..m : x[j_] = y[j_]
  BY <1>1, <1>2
<1> QED
  BY <1>3 DEF a, b

LEMMA LeqIs ==
  ASSUME NEW x, NEW y, x \in Seq(Nat), y \in Seq(Nat)
  PROVE  LinesOf!Leq(x, y) <=> Goes(x, y) \/ \E k \in Nat : Differs(x, y, k)
<1> DEFINE N == Nat
<1>1. x \in Seq(N) /\ y \in Seq(N) /\ Len(x) \in Nat /\ Len(y) \in Nat
      /\ DOMAIN x = 1..Len(x) /\ DOMAIN y = 1..Len(y)
  OBVIOUS
<1> HIDE DEF N
<1>2. LinesOf!IsPrefix(x, y) <=> Goes(x, y)
  <2>1. Len(x) <= Len(y) =>
          (SubSeq(x, 1, Len(x)) = SubSeq(y, 1, Len(x)) <=> \A j_ \in 1..Len(x) : x[j_] = y[j_])
    BY <1>1, SameStart
  <2> QED
    BY <2>1 DEF LinesOf!IsPrefix, Goes
<1>3. ASSUME NEW k \in DOMAIN x \cap DOMAIN y
      PROVE  SubSeq(x, 1, k - 1) = SubSeq(y, 1, k - 1) /\ x[k] < y[k] <=> Differs(x, y, k)
  <2>1. k \in 1..Len(x) /\ k <= Len(y) /\ k - 1 \in Nat /\ k - 1 <= Len(x) /\ k - 1 <= Len(y)
    BY <1>1
  <2>2. SubSeq(x, 1, k - 1) = SubSeq(y, 1, k - 1) <=> \A j_ \in 1..(k - 1) : x[j_] = y[j_]
    BY ONLY <1>1, <2>1, SameStart
  <2> QED
    BY <2>1, <2>2 DEF Differs
<1>4. \A k \in Nat : Differs(x, y, k) => k \in DOMAIN x \cap DOMAIN y
  BY <1>1 DEF Differs
<1>5. \A k \in DOMAIN x \cap DOMAIN y : k \in Nat
  BY <1>1
<1> QED
  BY <1>2, <1>3, <1>4, <1>5 DEF LinesOf!Leq

LEMMA LeqReflexive == ASSUME NEW x, x \in Seq(Nat) PROVE LinesOf!Leq(x, x)
<1>1. Goes(x, x)
  BY DEF Goes
<1> QED
  BY <1>1, LeqIs

LEMMA LeqAntisymmetric ==
  ASSUME NEW x, NEW y, x \in Seq(Nat), y \in Seq(Nat), LinesOf!Leq(x, y), LinesOf!Leq(y, x)
  PROVE  x = y
<1>1. Goes(x, y) \/ \E k \in Nat : Differs(x, y, k)
  BY LeqIs
<1>2. Goes(y, x) \/ \E k \in Nat : Differs(y, x, k)
  BY LeqIs
<1>3. \A k \in Nat : (k \in 1..Len(x) => x[k] \in Nat) /\ (k \in 1..Len(y) => y[k] \in Nat)
  OBVIOUS
<1>4. CASE Goes(x, y) /\ Goes(y, x)
  <2> DEFINE X == Nat
  <2>1. x \in Seq(X) /\ y \in Seq(X) /\ Len(x) = Len(y) /\ \A j_ \in 1..Len(x) : x[j_] = y[j_]
    BY <1>4 DEF Goes
  <2> HIDE DEF X
  <2> QED
    BY <2>1, LinesOf!SeqEqual
<1>5. ASSUME NEW k \in Nat, Differs(x, y, k) PROVE FALSE
  <2>1. CASE Goes(y, x)
    <3>1. k \in 1..Len(y) /\ y[k] = x[k] /\ x[k] < y[k] /\ x[k] \in Nat
      BY <1>3, <1>5, <2>1 DEF Goes, Differs
    <3> QED
      BY <3>1
  <2>2. ASSUME NEW m \in Nat, Differs(y, x, m) PROVE FALSE
    <3>1. /\ x[k] < y[k] /\ y[m] < x[m] /\ x[k] \in Nat /\ y[k] \in Nat /\ x[m] \in Nat /\ y[m] \in Nat
          /\ k \in Nat \ {0} /\ m \in Nat \ {0}
      BY <1>3, <1>5, <2>2 DEF Differs
    <3>2. CASE k < m
      <4>1. y[k] = x[k]
        BY <2>2, <3>1, <3>2 DEF Differs
      <4> QED
        BY <3>1, <4>1
    <3>3. CASE m < k
      <4>1. x[m] = y[m]
        BY <1>5, <3>1, <3>3 DEF Differs
      <4> QED
        BY <3>1, <4>1
    <3>4. CASE k = m
      BY <3>1, <3>4
    <3> QED
      BY <3>1, <3>2, <3>3, <3>4
  <2> QED
    BY <1>2, <2>1, <2>2
<1>6. ASSUME NEW k \in Nat, Differs(y, x, k), Goes(x, y) PROVE FALSE
  <2>1. k \in 1..Len(x) /\ x[k] = y[k] /\ y[k] < x[k] /\ x[k] \in Nat
    BY <1>3, <1>6 DEF Goes, Differs
  <2> QED
    BY <2>1
<1> QED
  BY <1>1, <1>2, <1>4, <1>5, <1>6

LEMMA LeqTransitive ==
  ASSUME NEW x, NEW y, NEW z, x \in Seq(Nat), y \in Seq(Nat), z \in Seq(Nat), LinesOf!Leq(x, y), LinesOf!Leq(y, z)
  PROVE  LinesOf!Leq(x, z)
<1>1. Goes(x, y) \/ \E k \in Nat : Differs(x, y, k)
  BY LeqIs
<1>2. Goes(y, z) \/ \E k \in Nat : Differs(y, z, k)
  BY LeqIs
<1>3. /\ Len(x) \in Nat /\ Len(y) \in Nat /\ Len(z) \in Nat
      /\ \A k \in Nat : /\ k \in 1..Len(x) => x[k] \in Nat
                        /\ k \in 1..Len(y) => y[k] \in Nat
                        /\ k \in 1..Len(z) => z[k] \in Nat
  OBVIOUS
<1>4. ASSUME Goes(x, y), Goes(y, z) PROVE Goes(x, z)
  BY <1>3, <1>4 DEF Goes
<1>5. ASSUME Goes(x, y), NEW k \in Nat, Differs(y, z, k) PROVE Goes(x, z) \/ Differs(x, z, k)
  <2>1. CASE k <= Len(x)
    <3>1. k \in 1..Len(x) /\ x[k] = y[k] /\ k <= Len(z) /\ x[k] < z[k]
      BY <1>3, <1>5, <2>1 DEF Goes, Differs
    <3>2. \A j_ \in 1..(k - 1) : x[j_] = z[j_]
      BY <1>3, <1>5, <2>1 DEF Goes, Differs
    <3> QED
      BY <3>1, <3>2 DEF Differs
  <2>2. CASE ~(k <= Len(x))
    <3>1. \A j_ \in 1..Len(x) : j_ \in 1..(k - 1) /\ x[j_] = y[j_]
      BY <1>3, <1>5, <2>2 DEF Goes
    <3>2. \A j_ \in 1..Len(x) : x[j_] = z[j_]
      BY <1>5, <3>1 DEF Differs
    <3>3. Len(x) <= Len(z)
      BY <1>3, <1>5, <2>2 DEF Differs
    <3> QED
      BY <3>2, <3>3 DEF Goes
  <2> QED
    BY <2>1, <2>2
<1>6. ASSUME NEW k \in Nat, Differs(x, y, k), Goes(y, z) PROVE Differs(x, z, k)
  <2>1. k \in 1..Len(y) /\ y[k] = z[k] /\ k \in 1..Len(x) /\ k <= Len(z) /\ x[k] < y[k]
    BY <1>3, <1>6 DEF Goes, Differs
  <2>2. \A j_ \in 1..(k - 1) : x[j_] = y[j_] /\ j_ \in 1..Len(y)
    <3>1. \A j_ \in 1..(k - 1) : x[j_] = y[j_]
      BY <1>6 DEF Differs
    <3>2. \A j_ \in 1..(k - 1) : j_ \in 1..Len(y)
      BY <1>3, <2>1
    <3> QED
      BY <3>1, <3>2
  <2>3. \A j_ \in 1..(k - 1) : x[j_] = z[j_]
    BY <1>6, <2>2 DEF Goes
  <2> QED
    BY <2>1, <2>3 DEF Differs
<1>7. ASSUME NEW k \in Nat, Differs(x, y, k), NEW m \in Nat, Differs(y, z, m)
      PROVE  \E n_ \in Nat : Differs(x, z, n_)
  <2>1. /\ k \in 1..Len(x) /\ k <= Len(y) /\ x[k] < y[k] /\ (\A j_ \in 1..(k - 1) : x[j_] = y[j_])
        /\ m \in 1..Len(y) /\ m <= Len(z) /\ y[m] < z[m] /\ (\A j_ \in 1..(m - 1) : y[j_] = z[j_])
    BY <1>7 DEF Differs
  <2>2. x[k] \in Nat /\ y[k] \in Nat /\ y[m] \in Nat /\ z[m] \in Nat
    BY <1>3, <2>1
  <2>3. CASE k < m
    <3>1. y[k] = z[k] /\ k <= Len(z)
      BY <1>3, <2>1, <2>3
    <3>2. \A j_ \in 1..(k - 1) : x[j_] = z[j_]
      BY <2>1, <2>3
    <3>3. Differs(x, z, k)
      BY <2>1, <3>1, <3>2 DEF Differs
    <3> QED
      BY <3>3
  <2>4. CASE m < k
    <3>1. x[m] = y[m] /\ m \in 1..Len(x)
      BY <1>3, <2>1, <2>4
    <3>2. \A j_ \in 1..(m - 1) : x[j_] = z[j_]
      <4>1. \A j_ \in 1..(m - 1) : j_ \in 1..(k - 1)
        BY <1>3, <2>1, <2>4
      <4> QED
        BY <2>1, <4>1
    <3>3. Differs(x, z, m)
      BY <2>1, <3>1, <3>2 DEF Differs
    <3> QED
      BY <3>3
  <2>5. CASE k = m
    <3>1. x[k] < z[k]
      BY <2>1, <2>2, <2>5, SMTT(20)
    <3>2. \A j_ \in 1..(k - 1) : x[j_] = z[j_]
      <4>1. /\ \A j_ \in 1..(k - 1) : x[j_] = y[j_]
            /\ \A j_ \in 1..(k - 1) : y[j_] = z[j_]
        BY <2>1, <2>5
      <4> QED
        BY ONLY <4>1
    <3>3. Differs(x, z, k)
      BY <2>1, <2>5, <3>1, <3>2 DEF Differs
    <3> QED
      BY <3>3
  <2> QED
    BY <2>1, <2>3, <2>4, <2>5
<1>8. Goes(x, z) \/ \E k \in Nat : Differs(x, z, k)
  BY <1>1, <1>2, <1>4, <1>5, <1>6, <1>7
<1> QED
  BY <1>8, LeqIs

\* In a sorted file every line is before all that follow it.
LEMMA SortedAll ==
  ASSUME NEW F, F \in Seq(Seq(Nat)), LinesOf!Sorted(F), NEW a \in 1..Len(F), NEW b \in 1..Len(F), a <= b
  PROVE  LinesOf!Leq(F[a], F[b])
<1> DEFINE Good == {d \in Nat : a + d <= Len(F) => LinesOf!Leq(F[a], F[a + d])}
<1>1. Len(F) \in Nat /\ \A k \in 1..Len(F) : F[k] \in Seq(Nat)
  OBVIOUS
<1>2. 0 \in Good
  <2>1. a + 0 = a /\ LinesOf!Leq(F[a], F[a])
    BY <1>1, LeqReflexive
  <2> QED
    BY <2>1
<1>3. ASSUME NEW d \in Nat, d \in Good PROVE d + 1 \in Good
  <2> SUFFICES ASSUME a + (d + 1) <= Len(F) PROVE LinesOf!Leq(F[a], F[a + (d + 1)])
    OBVIOUS
  <2> DEFINE k == a + d
  <2>1. k \in 1..(Len(F) - 1) /\ a + (d + 1) = k + 1 /\ k \in 1..Len(F) /\ k + 1 \in 1..Len(F) /\ k <= Len(F)
    BY <1>1
  <2>2. LinesOf!Leq(F[a], F[k])
    BY <1>3, <2>1
  <2> HIDE DEF k, Good
  <2>3. LinesOf!Leq(F[k], F[k + 1])
    BY <2>1 DEF LinesOf!Sorted
  <2>4. LinesOf!Leq(F[a], F[k + 1])
    BY <1>1, <2>1, <2>2, <2>3, LeqTransitive
  <2> QED
    BY <2>1, <2>4
<1>4. \A d \in Nat : d \in Good
  <2> HIDE DEF Good
  <2> QED
    BY <1>2, <1>3, LinesOf!AllNumbers
<1>5. b - a \in Nat /\ a + (b - a) = b
  OBVIOUS
<1>6. b - a \in Good
  <2> HIDE DEF Good
  <2> QED
    BY <1>4, <1>5
<1> QED
  BY <1>5, <1>6


LEMMA SortedFirst ==
  ASSUME NEW s, NEW y, s \in Seq(Lines), y \in Lines, LinesOf!Sorted(Append(s, y)), LinesOf!IsInjective(Append(s, y))
  PROVE  /\ LinesOf!Sorted(s) /\ LinesOf!IsInjective(s)
         /\ s # <<>> => LinesOf!Leq(s[Len(s)], y) /\ s[Len(s)] # y
<1> DEFINE u == Append(s, y)
           m == Len(s)
<1>1. /\ m \in Nat /\ Len(u) = m + 1 /\ u[m + 1] = y /\ (\A k \in 1..m : u[k] = s[k])
      /\ DOMAIN s = 1..m /\ DOMAIN u = 1..(m + 1) /\ (s # <<>> => m \in 1..m)
  BY LinesOf!OneMore
<1>2. LinesOf!Sorted(u) /\ LinesOf!IsInjective(u)
  OBVIOUS
<1> HIDE DEF u, m
<1>3. \A k \in 1..m : LinesOf!Leq(u[k], u[k + 1])
  BY <1>1, <1>2 DEF LinesOf!Sorted
<1>4. LinesOf!Sorted(s)
  <2>1. \A k \in 1..(m - 1) : k \in 1..m /\ k + 1 \in 1..m
    BY <1>1
  <2>2. \A k \in 1..(m - 1) : LinesOf!Leq(s[k], s[k + 1])
    BY <1>1, <1>3, <2>1
  <2> QED
    BY <2>2 DEF LinesOf!Sorted, m
<1>5. \A a, b \in 1..(m + 1) : u[a] = u[b] => a = b
  BY <1>1, <1>2 DEF LinesOf!IsInjective
<1>6. LinesOf!IsInjective(s)
  <2>1. \A a \in 1..m : a \in 1..(m + 1)
    BY <1>1
  <2> QED
    BY <1>1, <1>5, <2>1 DEF LinesOf!IsInjective
<1>7. ASSUME s # <<>> PROVE LinesOf!Leq(s[m], y) /\ s[m] # y
  <2>1. m \in 1..m /\ m \in 1..(m + 1) /\ m + 1 \in 1..(m + 1) /\ m # m + 1
    BY <1>1, <1>7
  <2> QED
    BY <1>1, <1>3, <1>5, <2>1
<1> QED
  BY <1>4, <1>6, <1>7 DEF m

\* mismatch.c: from where FILE is read on, and to where.
From(m) == IF m.g THEN m.x ELSE m.x + 1

LEMMA ReachIs ==
  ASSUME NEW y, NEW F, F = LinesOf!Held, F \in Seq(Seq(Nat)), F # <<>>,
         mismatch.x \in 0..Len(F), mismatch.g => mismatch.x # 0
  PROVE  /\ LinesOf!Reach(mismatch, y) \in 1..Len(F)
         /\ \A k \in From(mismatch)..(LinesOf!Reach(mismatch, y) - 1) : ~LinesOf!Leq(y, F[k])
         /\ LinesOf!Leq(y, F[LinesOf!Reach(mismatch, y)]) \/ LinesOf!Reach(mismatch, y) = Len(F)
<1> DEFINE n_ == Len(F)
           from == From(mismatch)
           T == {k \in from..n_ : LinesOf!Leq(y, F[k])} \cup {n_}
           r == LinesOf!Reach(mismatch, y)
<1>1. n_ \in Nat \ {0}
  OBVIOUS
<1>2. from \in Nat \ {0}
  BY <1>1 DEF From
<1>3. r = CHOOSE a \in T : \A b \in T : a <= b
  BY DEF LinesOf!Reach, LinesOf!Min, From
<1> HIDE DEF n_, from, r
<1>4. T \in SUBSET Nat /\ T # {}
  BY <1>1, <1>2
<1>5. r \in T /\ \A b \in T : r <= b
  <2> HIDE DEF T
  <2>1. \E a \in T : \A b \in T : a <= b
    BY <1>4, LinesOf!Smallest
  <2> QED
    BY <1>3, <2>1
<1>6. r \in 1..n_ /\ (LinesOf!Leq(y, F[r]) \/ r = n_)
  BY <1>1, <1>2, <1>5
<1>7. ASSUME NEW k \in from..(r - 1) PROVE ~LinesOf!Leq(y, F[k])
  <2>1. k \in from..n_ /\ ~(r <= k)
    BY <1>1, <1>2, <1>6
  <2> QED
    BY <1>5, <2>1
<1> QED
  BY <1>6, <1>7 DEF n_, from, r

LEMMA MismatchGetline ==
  ASSUME LinesOf!OptionsAssumption, opt \in Options, text \in Seq(Lines), NEW y \in Lines,
         mismatch \in [x : Nat, g : BOOLEAN, out : Seq(Lines)], LinesOf!Passed, LinesOf!MismatchFinds,
         text' = Append(text, y), opt' = opt, mismatch' = LinesOf!Mismatch(mismatch, y)
  PROVE  /\ mismatch' \in [x : Nat, g : BOOLEAN, out : Seq(Lines)]
         /\ mismatch'.x \in 0..Len(LinesOf!Held) /\ LinesOf!Passed' /\ LinesOf!MismatchFinds'
<1> DEFINE F == LinesOf!Held
           x_ == mismatch.x
           g_ == mismatch.g
           o_ == mismatch.out
           r == LinesOf!Reach(mismatch, y)
           from == From(mismatch)
           found == y = F[r]
           stays == g_ /\ r = x_ /\ LinesOf!Leq(y, F[r])
           n_ == Len(text)
           last == text[n_]
           u == Append(text, y)
           OK == LinesOf!Sorted(u) /\ LinesOf!Sorted(F) /\ LinesOf!IsInjective(u)
<1>1. F \in Seq(Seq(Nat)) /\ F # <<>> /\ Len(F) \in Nat \ {0}
  BY OptionKinds
<1>2. x_ \in 0..Len(F) /\ (x_ = 0 <=> text = <<>>) /\ (x_ = 0 => ~g_) /\ x_ \in Nat
  BY DEF LinesOf!Passed
<1>3. /\ r \in 1..Len(F) /\ (\A k \in from..(r - 1) : ~LinesOf!Leq(y, F[k]))
      /\ (LinesOf!Leq(y, F[r]) \/ r = Len(F))
  BY <1>1, <1>2, ReachIs
<1>4. mismatch' = [x |-> r, g |-> ~found \/ stays, out |-> IF found THEN o_ ELSE Append(o_, y)]
  BY DEF LinesOf!Mismatch
<1>5. mismatch'.x = r /\ (mismatch'.g <=> ~found \/ stays) /\ mismatch'.out = IF found THEN o_ ELSE Append(o_, y)
  <2> DEFINE v == ~found \/ stays
             w == IF found THEN o_ ELSE Append(o_, y)
  <2>1. mismatch' = [x |-> r, g |-> v, out |-> w]
    BY <1>4
  <2> HIDE DEF v, w, r
  <2>2. mismatch'.x = r /\ mismatch'.g = v /\ mismatch'.out = w
    BY <2>1
  <2> HIDE DEF found, stays
  <2> QED
    BY <2>2 DEF v, w
<1>6. o_ \in Seq(Lines) /\ g_ \in BOOLEAN
  OBVIOUS
<1>7. from = IF g_ THEN x_ ELSE x_ + 1
  BY DEF From
<1>8. text' = u /\ LinesOf!Held' = F /\ Len(u) = n_ + 1 /\ u[n_ + 1] = y /\ u # <<>> /\ n_ \in Nat
      /\ (text # <<>> => last \in Lines)
  BY DEF LinesOf!Held
<1>9. LinesOf!Passed <=>
      /\ x_ \in 0..Len(F) /\ (x_ = 0 <=> text = <<>>)
      /\ x_ = 0 => ~g_
      /\ LinesOf!Sorted(text) /\ LinesOf!Sorted(F) /\ LinesOf!IsInjective(text) /\ text # <<>> =>
           /\ \A k \in 1..x_ - 1 : ~LinesOf!Leq(last, F[k])
           /\ ~g_ => F[x_] = last
  BY DEF LinesOf!Passed
<1>10. LinesOf!Passed' <=>
      /\ mismatch'.x \in 0..Len(F) /\ (mismatch'.x = 0 <=> u = <<>>)
      /\ mismatch'.x = 0 => ~mismatch'.g
      /\ LinesOf!Sorted(u) /\ LinesOf!Sorted(F) /\ LinesOf!IsInjective(u) /\ u # <<>> =>
           /\ \A k \in 1..mismatch'.x - 1 : ~LinesOf!Leq(u[Len(u)], F[k])
           /\ ~mismatch'.g => F[mismatch'.x] = u[Len(u)]
  BY <1>8 DEF LinesOf!Passed
<1>11. mismatch' \in [x : Nat, g : BOOLEAN, out : Seq(Lines)]
  <2> HIDE DEF found, stays, o_, r
  <2>1. (~found \/ stays) \in BOOLEAN
    BY Zenon
  <2>2. (IF found THEN o_ ELSE Append(o_, y)) \in Seq(Lines) /\ r \in Nat
    BY <1>1, <1>3, <1>6
  <2> QED
    BY <1>4, <2>1, <2>2
<1>12. ASSUME OK
       PROVE  /\ LinesOf!Sorted(text) /\ LinesOf!IsInjective(text)
              /\ text # <<>> => LinesOf!Leq(last, y) /\ last # y
  BY <1>12, SortedFirst
<1>13. OK <=> LinesOf!Sorted(u) /\ LinesOf!Sorted(F) /\ LinesOf!IsInjective(u)
  OBVIOUS
<1>14. ASSUME NEW k \in 1..Len(F) PROVE F[k] \in Seq(Nat)
  BY <1>1
<1>15. y \in Seq(Nat) /\ (text # <<>> => last \in Seq(Nat))
  BY <1>8, LineKinds
<1> HIDE DEF F, x_, g_, o_, r, from, found, stays, last, u, OK, n_
<1>16. ASSUME OK, NEW k \in 1..(r - 1) PROVE ~LinesOf!Leq(y, F[k])
  <2> SUFFICES ASSUME LinesOf!Leq(y, F[k]) PROVE FALSE
    OBVIOUS
  <2>1. k \in Nat /\ k \in 1..Len(F) /\ k <= r - 1 /\ from \in Nat /\ r \in Nat
    BY <1>1, <1>2, <1>3, <1>7
  <2>2. ~(from <= k)
    BY <1>3, <2>1
  <2>3. text # <<>>
    BY <1>2, <1>7, <2>1, <2>2
  <2>4. /\ LinesOf!Leq(last, y) /\ last # y
        /\ (\A j_ \in 1..x_ - 1 : ~LinesOf!Leq(last, F[j_]))
        /\ (~g_ => F[x_] = last)
    BY <1>9, <1>12, <1>13, <1>16, <2>3
  <2>5. CASE k = x_ /\ ~g_
    <3>1. LinesOf!Leq(y, last)
      BY <2>4, <2>5
    <3> QED
      BY <1>15, <2>3, <2>4, <3>1, LeqAntisymmetric
  <2>6. CASE k <= x_ - 1
    <3>1. LinesOf!Leq(last, F[k])
      BY <1>14, <1>15, <2>1, <2>3, <2>4, LeqTransitive
    <3>2. k \in 1..x_ - 1
      BY <1>2, <2>1, <2>6
    <3> QED
      BY <2>4, <3>1, <3>2
  <2> QED
    BY <1>2, <1>7, <2>1, <2>2, <2>5, <2>6
<1>17. LinesOf!Passed'
  <2>1. r \in 0..Len(F) /\ r # 0
    BY <1>1, <1>3
  <2>2. ~(~found \/ stays) => F[r] = y
    BY DEF found
  <2>3. u[Len(u)] = y
    BY <1>8
  <2> QED
    BY <1>5, <1>8, <1>10, <1>13, <1>16, <2>1, <2>2, <2>3
<1>18. ASSUME OK PROVE y \in LinesOf!ToSet(F) <=> found
  <2>1. found => y \in LinesOf!ToSet(F)
    BY <1>1, <1>3 DEF found, LinesOf!ToSet
  <2>2. ASSUME NEW k \in 1..Len(F), y = F[k] PROVE found
    <3>1. k \in Nat /\ r \in Nat
      BY <1>1, <1>3
    <3>2. ~(k < r)
      <4>1. LinesOf!Leq(y, F[k])
        BY <1>15, <2>2, LeqReflexive
      <4>2. k < r => k \in 1..(r - 1)
        BY <3>1
      <4> QED
        BY <1>16, <1>18, <4>1, <4>2
    <3>3. CASE r < k
      <4>1. LinesOf!Leq(y, F[r])
        BY <1>1, <1>3, <3>1, <3>3
      <4>2. LinesOf!Leq(F[r], F[k])
        BY <1>1, <1>3, <1>13, <1>18, <3>1, <3>3, SortedAll
      <4>3. y = F[r]
        BY <1>3, <1>14, <1>15, <2>2, <4>1, <4>2, LeqAntisymmetric
      <4> QED
        BY <4>3 DEF found
    <3>4. CASE k = r
      BY <2>2, <3>4 DEF found
    <3> QED
      BY <3>1, <3>2, <3>3, <3>4
  <2>3. y \in LinesOf!ToSet(F) => \E k \in 1..Len(F) : y = F[k]
    BY <1>1 DEF LinesOf!ToSet
  <2> QED
    BY <2>1, <2>2, <2>3
<1>19. LinesOf!MismatchFinds'
  <2> DEFINE T == Lines \ LinesOf!ToSet(F)
  <2>1. LinesOf!Unmatched = LinesOf!Only(text, T)
    BY DEF LinesOf!Unmatched, F
  <2>2. LinesOf!Unmatched' = LinesOf!Only(u, T)
    BY <1>8 DEF LinesOf!Unmatched
  <2>3. LinesOf!Only(u, T) = IF y \in T THEN Append(LinesOf!Only(text, T), y) ELSE LinesOf!Only(text, T)
    <3> HIDE DEF T
    <3>1. LinesOf!Only(Append(text, y), T) = IF y \in T THEN Append(LinesOf!Only(text, T), y) ELSE LinesOf!Only(text, T)
      BY LinesOf!OnlyAppend
    <3> QED
      BY <3>1 DEF u
  <2>4. ASSUME OK PROVE mismatch'.out = LinesOf!Only(u, T)
    <3>1. y \in T <=> ~found
      BY <1>18, <2>4
    <3>2. LinesOf!Sorted(text) /\ LinesOf!IsInjective(text) /\ LinesOf!Sorted(F)
      BY <1>12, <1>13, <2>4
    <3>3. o_ = LinesOf!Only(text, T)
      BY <2>1, <3>2 DEF LinesOf!MismatchFinds, o_, F
    <3> HIDE DEF T
    <3> QED
      BY <1>5, <2>3, <3>1, <3>3
  <2> HIDE DEF T
  <2>5. OK => mismatch'.out = LinesOf!Unmatched'
    BY <2>2, <2>4
  <2> QED
    BY <1>8, <1>13, <2>5 DEF LinesOf!MismatchFinds
<1>20. mismatch'.x \in 0..Len(F)
  BY <1>1, <1>3, <1>5
<1> QED
  BY <1>11, <1>17, <1>19, <1>20 DEF F

\* nl.c: the numbers that have been given.
Firsts(o) == [k \in DOMAIN o |-> o[k][1]]

LEMMA FirstsMore ==
  ASSUME NEW o, o \in Seq(Nat \X Lines), NEW a \in Nat, NEW y \in Lines
  PROVE  Firsts(o) \in Seq(Nat) /\ Firsts(Append(o, <<a, y>>)) = Append(Firsts(o), a)
<1> DEFINE e == <<a, y>>
           X == Nat \X Lines
           u == Append(o, e)
           m == Len(o)
           f == Firsts(o)
           h == Firsts(u)
<1>1. e \in X /\ e[1] = a
  OBVIOUS
<1>2. \A k \in 1..m : o[k] \in X /\ o[k][1] \in Nat
  OBVIOUS
<1> HIDE DEF e, X
<1>3. /\ m \in Nat /\ u[m + 1] = e /\ (\A k \in 1..m : u[k] = o[k])
      /\ DOMAIN o = 1..m /\ DOMAIN u = 1..(m + 1)
  BY <1>1, LinesOf!OneMore DEF X
<1>4. f = [k \in 1..m |-> o[k][1]] /\ h = [k \in 1..(m + 1) |-> u[k][1]]
  BY <1>3 DEF Firsts
<1> HIDE DEF u, f, h
<1>5. f \in Seq(Nat) /\ Len(f) = m
  BY <1>2, <1>3, <1>4
<1>6. h[m + 1] = a /\ \A k \in 1..m : h[k] = f[k]
  BY <1>1, <1>3, <1>4
<1> HIDE DEF m
<1>7. /\ Append(f, a) \in Seq(Nat) /\ Len(Append(f, a)) = m + 1 /\ Append(f, a)[m + 1] = a
      /\ \A k \in 1..m : Append(f, a)[k] = f[k]
  BY <1>3, <1>5
<1>8. h \in Seq(Nat) /\ Len(h) = m + 1
  <2>1. \A k \in 1..(m + 1) : h[k] \in Nat
    <3>1. \A k \in 1..(m + 1) : k = m + 1 \/ k \in 1..m
      BY <1>3
    <3>2. \A k \in 1..m : f[k] \in Nat
      BY <1>5
    <3> QED
      BY <1>6, <3>1, <3>2
  <2>2. h = [k \in 1..(m + 1) |-> h[k]]
    BY <1>4
  <2>3. m + 1 \in Nat
    BY <1>3
  <2> QED
    BY ONLY <2>1, <2>2, <2>3, LinesOf!Tabulated
<1>9. \A k \in 1..(m + 1) : h[k] = Append(f, a)[k]
  <2>1. \A k \in 1..(m + 1) : k = m + 1 \/ k \in 1..m
    BY <1>3
  <2> QED
    BY <1>6, <1>7, <2>1
<1>10. h = Append(f, a)
  BY <1>3, <1>7, <1>8, <1>9, LinesOf!SeqEqual
<1> QED
  BY <1>5, <1>10 DEF h, u, f, e

LEMMA NlGetline ==
  ASSUME LinesOf!OptionsAssumption, opt \in Options, NEW y \in Lines, nl \in [lineno : Nat, out : Seq(Nat \X Lines)],
         LinesOf!NlCounts, LinesOf!NlConsecutive, opt' = opt, nl' = LinesOf!Nl(nl, y)
  PROVE  nl' \in [lineno : Nat, out : Seq(Nat \X Lines)] /\ LinesOf!NlCounts' /\ LinesOf!NlConsecutive'
<1> DEFINE T == Nat \ {0}
           o_ == nl.out
           l_ == nl.lineno
           numbered == opt.bflag = "a" \/ (opt.bflag = "t" /\ y # <<>>)
           a == IF numbered THEN l_ ELSE 0
           numbers == LinesOf!Only(Firsts(o_), T)
           more_ == LinesOf!Only(Firsts(nl'.out), T)
<1>1. o_ \in Seq(Nat \X Lines) /\ l_ \in Nat /\ a \in Nat
  OBVIOUS
<1>2. nl' = [lineno |-> l_ + (IF opt.bflag = "t" /\ ~numbered THEN 0 ELSE 1), out |-> Append(o_, <<a, y>>)]
  BY DEF LinesOf!Nl
<1>3. nl'.out = Append(o_, <<a, y>>) /\ nl'.lineno = l_ + (IF opt.bflag = "t" /\ ~numbered THEN 0 ELSE 1)
  BY <1>2
<1>4. nl' \in [lineno : Nat, out : Seq(Nat \X Lines)]
  <2>1. Append(o_, <<a, y>>) \in Seq(Nat \X Lines)
    BY <1>1
  <2>2. l_ + (IF opt.bflag = "t" /\ ~numbered THEN 0 ELSE 1) \in Nat
    BY <1>1
  <2> HIDE DEF o_, l_, a, numbered
  <2> QED
    BY <1>2, <2>1, <2>2
<1>5. opt.bflag \in {"a", "t", "n"} /\ opt'.bflag = opt.bflag
  BY OptionKinds
<1>6. /\ LinesOf!NlCounts <=> IF opt.bflag = "n" THEN numbers = <<>> ELSE l_ = Len(numbers) + 1
      /\ LinesOf!NlConsecutive <=> numbers = [k \in DOMAIN numbers |-> k]
  BY DEF LinesOf!NlCounts, LinesOf!NlConsecutive, Firsts
<1>7. /\ LinesOf!NlCounts' <=> IF opt.bflag = "n" THEN more_ = <<>> ELSE nl'.lineno = Len(more_) + 1
      /\ LinesOf!NlConsecutive' <=> more_ = [k \in DOMAIN more_ |-> k]
  BY <1>5 DEF LinesOf!NlCounts, LinesOf!NlConsecutive, Firsts
<1>8. Firsts(o_) \in Seq(Nat) /\ Firsts(nl'.out) = Append(Firsts(o_), a)
  <2> HIDE DEF o_, a
  <2> QED
    BY <1>1, <1>3, FirstsMore
<1>9. numbers \in Seq(Nat) /\ more_ = IF a \in T THEN Append(numbers, a) ELSE numbers
  <2> DEFINE f == Firsts(o_)
             X == Nat
  <2> HIDE DEF T, o_, a, f, X
  <2>1. f \in Seq(X) /\ a \in X
    BY <1>1, <1>8 DEF f, X
  <2>2. LinesOf!Only(f, T) \in Seq(X)
    BY <2>1, LinesOf!OnlyType
  <2>3. LinesOf!Only(Append(f, a), T) = IF a \in T THEN Append(LinesOf!Only(f, T), a) ELSE LinesOf!Only(f, T)
    BY <2>1, LinesOf!OnlyAppend
  <2> QED
    BY <1>8, <2>2, <2>3 DEF f, X
<1> HIDE DEF numbers, more_, o_
<1>10. CASE opt.bflag # "n" /\ numbered
  <2>1. l_ = Len(numbers) + 1
    BY <1>6, <1>10
  <2>2. a \in T /\ a = Len(numbers) + 1
    BY <1>9, <1>10, <2>1
  <2>3. more_ = Append(numbers, Len(numbers) + 1)
    BY <1>9, <2>2
  <2>4. nl'.lineno = l_ + 1
    BY <1>3, <1>10
  <2>5. Len(more_) = Len(numbers) + 1
    BY <1>9, <2>3
  <2>6. more_ = [k \in DOMAIN more_ |-> k]
    <3>1. /\ more_ \in Seq(Nat) /\ DOMAIN more_ = 1..(Len(numbers) + 1) /\ DOMAIN numbers = 1..Len(numbers)
          /\ more_[Len(numbers) + 1] = Len(numbers) + 1 /\ \A k \in 1..Len(numbers) : more_[k] = numbers[k]
      BY <1>9, <2>3
    <3>2. \A k \in DOMAIN numbers : numbers[k] = k
      BY <1>6
    <3>3. \A k \in DOMAIN more_ : more_[k] = k
      <4>1. \A k \in DOMAIN more_ : k = Len(numbers) + 1 \/ k \in 1..Len(numbers)
        BY <1>9, <3>1
      <4> QED
        BY <3>1, <3>2, <4>1
    <3>4. more_ = [k \in DOMAIN more_ |-> more_[k]]
      BY <3>1
    <3> QED
      BY <3>3, <3>4
  <2> QED
    BY <1>4, <1>7, <1>9, <1>10, <2>1, <2>4, <2>5, <2>6
<1>11. CASE opt.bflag # "n" /\ ~numbered
  <2>1. l_ = Len(numbers) + 1 /\ opt.bflag = "t"
    BY <1>5, <1>6, <1>11
  <2>2. a \notin T
    BY <1>11
  <2>3. more_ = numbers
    BY <1>9, <2>2
  <2>4. nl'.lineno = l_
    BY <1>1, <1>3, <1>11, <2>1
  <2>5. more_ = [k \in DOMAIN more_ |-> k]
    BY <1>6, <2>3
  <2> QED
    BY <1>4, <1>7, <1>11, <2>1, <2>3, <2>4, <2>5
<1>12. CASE opt.bflag = "n"
  <2>1. numbers = <<>> /\ a \notin T
    BY <1>6, <1>12
  <2>2. more_ = <<>>
    BY <1>9, <2>1
  <2>3. more_ = [k \in DOMAIN more_ |-> k]
    BY <1>6, <2>1, <2>2
  <2> QED
    BY <1>4, <1>7, <1>12, <2>2, <2>3
<1> QED
  BY <1>10, <1>11, <1>12

\* more.c: rows lines in a row without a pause among them.
Unread(o, rows) == \E k \in rows..Len(o) : \A j_ \in (k - rows + 1)..k : o[j_] # LinesOf!PAUSE
Paused(o, d) == \E p \in 0..Len(o) : Len(o) - p <= d /\ (p > 0 => o[p] = LinesOf!PAUSE)

LEMMA ScreenfulIs ==
  ASSUME NEW X, NEW o, o \in Seq(X), NEW rows \in Nat \ {0}
  PROVE  Unread(o, rows) <=> \E k \in rows..Len(o) : LinesOf!PAUSE \notin LinesOf!ToSet(SubSeq(o, k - rows + 1, k))
<1>1. ASSUME NEW k \in rows..Len(o)
      PROVE  LinesOf!PAUSE \notin LinesOf!ToSet(SubSeq(o, k - rows + 1, k)) <=>
               \A j_ \in (k - rows + 1)..k : o[j_] # LinesOf!PAUSE
  <2> DEFINE l == k - rows
             w == SubSeq(o, l + 1, k)
  <2>1. l \in Nat /\ k \in Nat /\ k <= Len(o) /\ l + 1 <= k /\ k - l = rows
    OBVIOUS
  <2>2. DOMAIN w = 1..rows /\ \A d \in 1..rows : w[d] = o[l + d]
    <3> HIDE DEF l
    <3> QED
      BY <2>1
  <2> HIDE DEF l, w
  <2>3. LinesOf!PAUSE \notin LinesOf!ToSet(w) <=> \A d \in 1..rows : o[l + d] # LinesOf!PAUSE
    BY <2>2 DEF LinesOf!ToSet
  <2>4. (\A d \in 1..rows : o[l + d] # LinesOf!PAUSE) <=> \A j_ \in (l + 1)..k : o[j_] # LinesOf!PAUSE
    <3>1. \A j_ \in (l + 1)..k : j_ - l \in 1..rows /\ l + (j_ - l) = j_
      BY <2>1
    <3>2. \A d \in 1..rows : l + d \in (l + 1)..k
      BY <2>1
    <3> QED
      BY <3>1, <3>2
  <2> QED
    BY <2>3, <2>4 DEF l, w
<1> QED
  BY <1>1 DEF Unread

LEMMA NotUnread ==
  ASSUME NEW X, NEW o, NEW e, o \in Seq(X), e \in X, NEW rows \in Nat \ {0}, NEW d \in Nat,
         ~Unread(o, rows), e = LinesOf!PAUSE \/ (Paused(o, d) /\ d + 1 < rows)
  PROVE  ~Unread(Append(o, e), rows)
<1> DEFINE u == Append(o, e)
           m == Len(o)
<1>1. m \in Nat /\ Len(u) = m + 1 /\ u[m + 1] = e /\ \A k \in 1..m : u[k] = o[k]
  BY LinesOf!OneMore
<1>2. ~Unread(o, rows)
  OBVIOUS
<1>3. Unread(o, rows) <=> \E k \in rows..m : \A j_ \in (k - rows + 1)..k : o[j_] # LinesOf!PAUSE
  BY DEF Unread
<1>4. Paused(o, d) <=> \E p \in 0..m : m - p <= d /\ (p > 0 => o[p] = LinesOf!PAUSE)
  BY DEF Paused
<1> HIDE DEF u, m
<1> SUFFICES ASSUME NEW k \in rows..(m + 1), \A j_ \in (k - rows + 1)..k : u[j_] # LinesOf!PAUSE PROVE FALSE
  BY <1>1 DEF Unread, u
<1>5. k \in Nat /\ rows \in Nat \ {0}
  BY <1>1
<1>6. CASE k = m + 1
  <2>1. k \in (k - rows + 1)..k
    BY <1>5
  <2>2. u[k] # LinesOf!PAUSE
    BY <2>1
  <2>3. e # LinesOf!PAUSE
    BY <1>1, <1>6, <2>2
  <2>4. PICK p \in 0..m : m - p <= d /\ (p > 0 => o[p] = LinesOf!PAUSE)
    BY <1>4, <2>3
  <2>5. p > 0 /\ p \in 1..m /\ p \in (k - rows + 1)..k
    BY <1>1, <1>5, <1>6, <2>3, <2>4
  <2> QED
    BY <1>1, <2>4, <2>5
<1>7. CASE k \in rows..m
  <2>1. \A j_ \in (k - rows + 1)..k : j_ \in 1..m
    BY <1>1, <1>5, <1>7
  <2>2. \A j_ \in (k - rows + 1)..k : o[j_] # LinesOf!PAUSE
    BY <1>1, <2>1
  <2> QED
    BY <1>2, <1>3, <1>7, <2>2
<1> QED
  BY <1>1, <1>5, <1>6, <1>7

LEMMA PausedMore ==
  ASSUME NEW X, NEW o, NEW e, o \in Seq(X), e \in X, NEW d \in Nat
  PROVE  /\ Paused(o, d) => Paused(Append(o, e), d + 1)
         /\ e = LinesOf!PAUSE => Paused(Append(o, e), d)
<1> DEFINE u == Append(o, e)
           m == Len(o)
<1>1. m \in Nat /\ Len(u) = m + 1 /\ u[m + 1] = e /\ \A k \in 1..m : u[k] = o[k]
  BY LinesOf!OneMore
<1>2. Paused(o, d) <=> \E p \in 0..m : m - p <= d /\ (p > 0 => o[p] = LinesOf!PAUSE)
  BY DEF Paused
<1> HIDE DEF u, m
<1>3. ASSUME Paused(o, d) PROVE Paused(u, d + 1)
  <2>1. PICK p \in 0..m : m - p <= d /\ (p > 0 => o[p] = LinesOf!PAUSE)
    BY <1>2, <1>3
  <2>2. p \in 0..(m + 1) /\ (m + 1) - p <= d + 1 /\ (p > 0 => p \in 1..m)
    BY <1>1, <2>1
  <2>3. p > 0 => u[p] = LinesOf!PAUSE
    BY <1>1, <2>1, <2>2
  <2> QED
    BY <1>1, <2>2, <2>3 DEF Paused
<1>4. ASSUME e = LinesOf!PAUSE PROVE Paused(u, d)
  <2>1. m + 1 \in 0..(m + 1) /\ (m + 1) - (m + 1) <= d
    BY <1>1
  <2>2. u[m + 1] = LinesOf!PAUSE
    BY <1>1, <1>4
  <2> QED
    BY <1>1, <2>1, <2>2 DEF Paused
<1> QED
  BY <1>3, <1>4 DEF u

LEMMA MoreGetline ==
  ASSUME LinesOf!OptionsAssumption, opt \in Options, NEW y \in Lines, NEW key \in {"q", "other"},
         more \in [lineno : Nat, out : Seq(Lines \cup {LinesOf!PAUSE}), quit : BOOLEAN],
         LinesOf!SincePause, LinesOf!MorePages, opt' = opt, more' = LinesOf!More(more, y, key)
  PROVE  /\ more' \in [lineno : Nat, out : Seq(Lines \cup {LinesOf!PAUSE}), quit : BOOLEAN]
         /\ LinesOf!SincePause' /\ LinesOf!MorePages'
<1> DEFINE X == Lines \cup {LinesOf!PAUSE}
           o_ == more.out
           l_ == more.lineno
           rows == opt.rows
           T == [lineno : Nat, out : Seq(X), quit : BOOLEAN]
           a == Append(o_, y)
           b == Append(a, LinesOf!PAUSE)
<1>1. o_ \in Seq(X) /\ l_ \in Nat /\ y \in X /\ LinesOf!PAUSE \in X /\ a \in Seq(X) /\ b \in Seq(X)
      /\ (key = "q") \in BOOLEAN /\ more \in T /\ more.quit \in BOOLEAN
  OBVIOUS
<1>2. rows \in Nat /\ opt'.rows = rows
  BY OptionKinds
<1>3. o_ \o <<y, LinesOf!PAUSE>> = b
  OBVIOUS
<1>4. LinesOf!SincePause <=> (rows >= 3 => l_ <= rows - 2 /\ Paused(o_, l_))
  BY DEF LinesOf!SincePause, Paused
<1>5. LinesOf!SincePause' <=> (rows >= 3 => more'.lineno <= rows - 2 /\ Paused(more'.out, more'.lineno))
  BY <1>2 DEF LinesOf!SincePause, Paused
<1>6. LinesOf!MorePages <=> (rows >= 3 => ~Unread(o_, rows))
  <2> HIDE DEF X, rows
  <2>1. ASSUME rows >= 3
        PROVE  Unread(o_, rows) <=> \E k \in rows..Len(o_) : LinesOf!PAUSE \notin LinesOf!ToSet(SubSeq(o_, k - rows + 1, k))
    <3>1. rows \in Nat \ {0}
      BY <1>2, <2>1
    <3> QED
      BY <1>1, <3>1, ScreenfulIs
  <2> QED
    BY <2>1 DEF LinesOf!MorePages, LinesOf!Screenful, rows
<1>7. CASE more.quit
  <2>1. more' = more
    BY <1>7 DEF LinesOf!More
  <2>2. LinesOf!SincePause' /\ LinesOf!MorePages'
    BY <1>2, <2>1 DEF LinesOf!SincePause, LinesOf!MorePages, LinesOf!Screenful
  <2> QED
    BY <2>1, <2>2
<1>8. ASSUME more'.out \in Seq(X), rows >= 3 => ~Unread(more'.out, rows) PROVE LinesOf!MorePages'
  <2> DEFINE q == more'.out
  <2> HIDE DEF X, rows, q
  <2>1. ASSUME rows >= 3
        PROVE  Unread(q, rows) <=> \E k \in rows..Len(q) : LinesOf!PAUSE \notin LinesOf!ToSet(SubSeq(q, k - rows + 1, k))
    <3>1. rows \in Nat \ {0}
      BY <1>2, <2>1
    <3> QED
      BY <1>8, <3>1, ScreenfulIs DEF q
  <2> QED
    BY <1>2, <1>8, <2>1 DEF LinesOf!MorePages, LinesOf!Screenful, q
<1>9. LinesOf!SincePause /\ LinesOf!MorePages
  OBVIOUS
<1>12. CASE ~more.quit /\ rows = 0
  <2>1. more' = [lineno |-> l_, out |-> a, quit |-> TRUE]
    <3>1. ~more.quit /\ opt.rows = 0 /\ more' = LinesOf!More(more, y, key)
      BY <1>12
    <3> HIDE DEF X
    <3> QED
      BY ONLY <3>1 DEF LinesOf!More, LinesOf!PageFull
  <2>2. more' \in T
    <3> HIDE DEF a, X, l_
    <3> QED
      BY <1>1, <2>1
  <2>3. LinesOf!SincePause' /\ LinesOf!MorePages'
    BY <1>2, <1>12 DEF LinesOf!SincePause, LinesOf!MorePages
  <2> QED
    BY <2>2, <2>3
<1>10. CASE ~more.quit /\ LinesOf!PageFull(l_)
  <2>0. rows # 0
    BY <1>10 DEF LinesOf!PageFull
  <2>1. more' = [lineno |-> 1, out |-> b, quit |-> key = "q"]
    BY <1>3, <1>10, <2>0 DEF LinesOf!More
  <2>2. more' \in T
    <3> HIDE DEF b, X
    <3> QED
      BY <1>1, <2>1
  <2>3. more'.lineno = 1 /\ more'.out = b
    BY <2>1
  <2> HIDE DEF b, rows, o_, l_, X, a
  <2>4. ASSUME rows >= 3 PROVE 1 <= rows - 2 /\ Paused(b, 1) /\ ~Unread(b, rows)
    <3>1. l_ <= rows - 2 /\ Paused(o_, l_) /\ ~Unread(o_, rows) /\ l_ + 1 < rows
      BY <1>1, <1>2, <1>4, <1>6, <1>9, <2>4
    <3>0. rows \in Nat \ {0}
      BY <1>2, <2>4
    <3>2. ~Unread(a, rows)
      BY <1>1, <3>0, <3>1, NotUnread DEF a
    <3>3. ~Unread(b, rows)
      BY <1>1, <3>0, <3>2, NotUnread DEF b
    <3>4. Paused(b, 1)
      BY <1>1, PausedMore DEF b
    <3> QED
      BY <1>2, <2>4, <3>3, <3>4
  <2>5. LinesOf!SincePause'
    BY <1>5, <2>3, <2>4
  <2>6. LinesOf!MorePages'
    BY <1>1, <1>8, <2>3, <2>4
  <2> QED
    BY <2>2, <2>5, <2>6 DEF X
<1>11. CASE ~more.quit /\ rows # 0 /\ ~LinesOf!PageFull(l_)
  <2>1. more' = [lineno |-> l_ + 1, out |-> a, quit |-> more.quit]
    BY <1>11 DEF LinesOf!More
  <2>3. more' \in T
    <3>1. l_ + 1 \in Nat
      BY <1>1
    <3> HIDE DEF a, X, l_
    <3> QED
      BY <1>1, <2>1, <3>1
  <2>4. more'.lineno = l_ + 1 /\ more'.out = a
    BY <2>1
  <2>5. rows >= 3 => l_ % rows # rows - 2
    BY <1>2, <1>11 DEF LinesOf!PageFull
  <2> HIDE DEF rows, o_, l_, X, a
  <2>6. ASSUME rows >= 3 PROVE l_ + 1 <= rows - 2 /\ Paused(a, l_ + 1) /\ ~Unread(a, rows)
    <3>1. l_ <= rows - 2 /\ Paused(o_, l_) /\ ~Unread(o_, rows) /\ l_ + 1 < rows /\ l_ < rows
      BY <1>1, <1>2, <1>4, <1>6, <1>9, <2>6
    <3>2. ~Unread(a, rows)
      BY <1>1, <1>2, <3>1, NotUnread DEF a
    <3>3. Paused(a, l_ + 1)
      BY <1>1, <3>1, PausedMore DEF a
    <3>4. l_ % rows = l_
      <4>1. l_ = rows * 0 + l_ /\ 0 \in Nat
        BY <1>1, <1>2
      <4> QED
        BY <1>1, <1>2, <3>1, <4>1, LinesOf!DividedUniquely
    <3>5. l_ # rows - 2
      BY <2>5, <2>6, <3>4
    <3> QED
      BY <1>1, <1>2, <3>1, <3>2, <3>3, <3>5
  <2>7. LinesOf!SincePause'
    BY <1>5, <2>4, <2>6
  <2>8. LinesOf!MorePages'
    BY <1>1, <1>8, <2>4, <2>6
  <2> QED
    BY <2>3, <2>7, <2>8 DEF X
<1> QED
  BY <1>7, <1>10, <1>11, <1>12


\* tail.c: the ring.
TailType == [buf : [0..opt.tail_n - 1 -> Lines \cup {LinesOf!NULL}], i : Nat]
SlotKnown == opt.tail_n > 0 => tail.i \in 0..opt.tail_n - 1
AgeIn(i_, n_, x_) == IF x_ < i_ THEN i_ - x_ ELSE i_ - x_ + n_

LEMMA Wrapped ==
  ASSUME NEW n_ \in Nat \ {0}, NEW x_ \in 0..(2 * n_ - 1)
  PROVE  x_ % n_ = IF x_ < n_ THEN x_ ELSE x_ - n_
<1>1. CASE x_ < n_
  <2>1. x_ \in Nat /\ 0 \in Nat /\ x_ = n_ * 0 + x_
    OBVIOUS
  <2> QED
    BY <1>1, <2>1, LinesOf!DividedUniquely
<1>2. CASE ~(x_ < n_)
  <2> DEFINE r == x_ - n_
  <2>1. x_ \in Nat /\ 1 \in Nat /\ r \in Nat /\ r < n_ /\ x_ = n_ * 1 + r
    BY <1>2
  <2> HIDE DEF r
  <2>2. x_ % n_ = r
    BY <2>1, LinesOf!DividedUniquely
  <2> QED
    BY <1>2, <2>2 DEF r
<1> QED
  BY <1>1, <1>2

LEMMA TailTurn ==
  ASSUME LinesOf!OptionsAssumption, opt \in Options, text \in Seq(Lines), NEW y \in Lines, ~eof, eof' = eof,
         opt.tail_n # 0, tail \in [buf : [0..opt.tail_n - 1 -> Lines \cup {LinesOf!NULL}], i : 0..opt.tail_n - 1],
         LinesOf!Ring, text' = Append(text, y), opt' = opt, tail' = LinesOf!TailLine(tail, y)
  PROVE  /\ tail' \in [buf : [0..opt.tail_n - 1 -> Lines \cup {LinesOf!NULL}], i : 0..opt.tail_n - 1]
         /\ LinesOf!Ring'
<1> DEFINE n_ == opt.tail_n
           i_ == tail.i
           b == tail.buf
           q == [b EXCEPT ![i_] = y]
           z == i_ + 1
           l_ == z % n_
           m == Len(text)
           X == Lines \cup {LinesOf!NULL}
           u == Append(text, y)
<1>1. n_ \in Nat \ {0} /\ opt'.tail_n = n_
  BY OptionKinds
<1>2. i_ \in 0..n_ - 1 /\ b \in [0..n_ - 1 -> X] /\ y \in X
  OBVIOUS
<1>3. l_ = IF i_ + 1 < n_ THEN i_ + 1 ELSE 0
  <2> HIDE DEF n_, i_
  <2>1. z = i_ + 1 /\ z \in 0..(2 * n_ - 1) /\ (z < n_ \/ z = n_)
    BY <1>1, <1>2
  <2> HIDE DEF z
  <2>2. z % n_ = IF z < n_ THEN z ELSE z - n_
    BY ONLY <1>1, <2>1, Wrapped
  <2> QED
    BY <1>1, <1>2, <2>1, <2>2
<1>4. tail' = [buf |-> q, i |-> l_]
  BY DEF LinesOf!TailLine
<1>5. tail'.buf = q /\ tail'.i = l_
  BY <1>4
<1>6. /\ i_ <= m
      /\ \A x_ \in 0..n_ - 1 : b[x_] = IF AgeIn(i_, n_, x_) <= m THEN text[m + 1 - AgeIn(i_, n_, x_)] ELSE LinesOf!NULL
  <2>1. /\ tail.i <= Len(text)
        /\ \A x_ \in 0..opt.tail_n - 1 : tail.buf[x_] = IF LinesOf!Age(x_) <= Len(text) THEN text[Len(text) + 1 - LinesOf!Age(x_)] ELSE LinesOf!NULL
    BY DEF LinesOf!Ring
  <2>2. \A x_ : LinesOf!Age(x_) = AgeIn(tail.i, opt.tail_n, x_)
    BY DEF LinesOf!Age, AgeIn
  <2> QED
    BY ONLY <2>1, <2>2
<1>7. ASSUME l_ <= Len(u),
             \A x_ \in 0..n_ - 1 : q[x_] = IF AgeIn(l_, n_, x_) <= Len(u) THEN u[Len(u) + 1 - AgeIn(l_, n_, x_)] ELSE LinesOf!NULL
      PROVE  LinesOf!Ring'
  <2>1. ~eof' /\ opt'.tail_n = n_ /\ tail'.buf = q /\ tail'.i = l_ /\ text' = u
    BY <1>1, <1>5
  <2>2. \A x_ : LinesOf!Age(x_)' = AgeIn(tail'.i, opt'.tail_n, x_)
    BY DEF LinesOf!Age, AgeIn
  <2> HIDE DEF q, l_, u, n_
  <2>3. ASSUME NEW x_ \in 0..n_ - 1
        PROVE  tail'.buf[x_] = IF LinesOf!Age(x_)' <= Len(text') THEN text'[Len(text') + 1 - LinesOf!Age(x_)'] ELSE LinesOf!NULL
    BY <1>7, <2>1, <2>2
  <2> QED
    BY <1>7, <2>1, <2>3 DEF LinesOf!Ring
<1>8. m \in Nat /\ Len(u) = m + 1 /\ u[m + 1] = y /\ \A k \in 1..m : u[k] = text[k]
  BY LinesOf!OneMore
<1> HIDE DEF n_, i_, b, l_, m, X, u
<1>9. l_ \in 0..n_ - 1 /\ l_ <= i_ + 1
  BY <1>1, <1>2, <1>3
<1>10. q \in [0..n_ - 1 -> X]
  BY <1>2
<1>11. tail' \in [buf : [0..n_ - 1 -> X], i : 0..n_ - 1]
  <2> HIDE DEF q
  <2> QED
    BY <1>4, <1>9, <1>10
<1>12. q[i_] = y /\ \A x_ \in 0..n_ - 1 : x_ # i_ => q[x_] = b[x_]
  BY <1>2
<1> HIDE DEF q
<1>13. ASSUME NEW x_ \in 0..n_ - 1
       PROVE  q[x_] = IF AgeIn(l_, n_, x_) <= m + 1 THEN u[(m + 1) + 1 - AgeIn(l_, n_, x_)] ELSE LinesOf!NULL
  <2> DEFINE a == AgeIn(i_, n_, x_)
             c == AgeIn(l_, n_, x_)
  <2>1. a \in Nat \ {0}
    BY <1>1, <1>2 DEF AgeIn
  <2>2. c = IF x_ = i_ THEN 1 ELSE a + 1
    BY <1>1, <1>2, <1>3 DEF AgeIn
  <2>3. b[x_] = IF a <= m THEN text[m + 1 - a] ELSE LinesOf!NULL
    BY <1>6
  <2> HIDE DEF a, c
  <2>4. CASE x_ = i_
    <3>1. c <= m + 1 /\ (m + 1) + 1 - c = m + 1
      BY <1>8, <2>2, <2>4
    <3>2. q[x_] = u[(m + 1) + 1 - c]
      BY <1>8, <1>12, <2>4, <3>1
    <3> QED
      BY <3>1, <3>2 DEF c
  <2>5. CASE x_ # i_ /\ a <= m
    <3>1. c = a + 1 /\ c <= m + 1 /\ (m + 1) + 1 - c = m + 1 - a /\ m + 1 - a \in 1..m
      BY <1>8, <2>1, <2>2, <2>5
    <3>2. q[x_] = u[m + 1 - a]
      BY <1>8, <1>12, <2>3, <2>5, <3>1
    <3> QED
      BY <3>1, <3>2 DEF c
  <2>6. CASE x_ # i_ /\ ~(a <= m)
    <3>1. ~(c <= m + 1)
      BY <1>8, <2>1, <2>2, <2>6
    <3>2. q[x_] = LinesOf!NULL
      BY <1>12, <2>3, <2>6
    <3> QED
      BY <3>1, <3>2 DEF c
  <2> QED
    BY <2>4, <2>5, <2>6
<1>14. l_ <= m + 1
  BY <1>2, <1>6, <1>8, <1>9
<1>15. LinesOf!Ring'
  BY <1>7, <1>8, <1>13, <1>14
<1> QED
  BY <1>11, <1>15 DEF n_, X

LEMMA SubSeqGrows ==
  ASSUME NEW X, NEW s, s \in Seq(X), NEW a \in Nat, NEW b \in Nat, a <= b, b + 1 <= Len(s)
  PROVE  SubSeq(s, a + 1, b + 1) = Append(SubSeq(s, a + 1, b), s[b + 1])
<1> DEFINE l == SubSeq(s, a + 1, b)
           t == SubSeq(s, a + 1, b + 1)
           v == Append(l, s[b + 1])
           d == b - a
<1>1. l \in Seq(X) /\ Len(l) = d /\ d \in Nat /\ (\A k \in 1..d : l[k] = s[a + k])
  OBVIOUS
<1>2. t \in Seq(X) /\ Len(t) = d + 1 /\ (\A k \in 1..(d + 1) : t[k] = s[a + k])
  OBVIOUS
<1>3. s[b + 1] \in X /\ a + (d + 1) = b + 1
  OBVIOUS
<1> HIDE DEF l, d
<1>4. v \in Seq(X) /\ Len(v) = d + 1 /\ v[d + 1] = s[b + 1] /\ \A k \in 1..d : v[k] = l[k]
  BY <1>1, <1>3
<1> HIDE DEF t, v
<1>5. \A k \in 1..(d + 1) : t[k] = v[k]
  <2>1. ASSUME NEW k \in 1..d PROVE t[k] = v[k]
    <3>1. k \in 1..(d + 1)
      BY <1>1
    <3> QED
      BY <1>1, <1>2, <1>4, <3>1
  <2>2. t[d + 1] = v[d + 1]
    <3>1. d + 1 \in 1..(d + 1)
      BY <1>1
    <3> QED
      BY <1>2, <1>3, <1>4, <3>1
  <2>3. \A k \in 1..(d + 1) : k = d + 1 \/ k \in 1..d
    BY <1>1
  <2> QED
    BY <2>1, <2>2, <2>3
<1>6. t = v
  BY <1>2, <1>4, <1>5, LinesOf!SeqEqual
<1> QED
  BY <1>6 DEF t, v, l

\* What is kept of a sequence that starts with what is not.
LEMMA KeptEnd ==
  ASSUME NEW X, NEW T, NEW s, s \in Seq(X), NEW m \in Nat, m <= Len(s),
         \A k \in 1..m : s[k] \notin T, \A k \in (m + 1)..Len(s) : s[k] \in T
  PROVE  LinesOf!Only(s, T) = SubSeq(s, m + 1, Len(s))
<1> DEFINE First(q) == SubSeq(s, 1, q)
           Rest(q) == IF q <= m THEN <<>> ELSE SubSeq(s, m + 1, q)
           Good == {q \in Nat : q <= Len(s) => LinesOf!Only(First(q), T) = Rest(q)}
<1>1. 0 \in Good
  <2>1. First(0) = <<>>
    OBVIOUS
  <2>2. LinesOf!Only(<<>>, T) = <<>>
    BY LinesOf!OnlyEmpty
  <2>3. Rest(0) = <<>>
    OBVIOUS
  <2>4. LinesOf!Only(First(0), T) = Rest(0)
    BY ONLY <2>1, <2>2, <2>3
  <2> HIDE DEF First, Rest
  <2> QED
    BY <2>4
<1>2. ASSUME NEW q \in Nat, q \in Good PROVE q + 1 \in Good
  <2> SUFFICES ASSUME q + 1 <= Len(s) PROVE LinesOf!Only(First(q + 1), T) = Rest(q + 1)
    OBVIOUS
  <2> DEFINE c == s[q + 1]
             f == First(q)
  <2>1. /\ Len(s) \in Nat /\ q <= Len(s) /\ c \in X /\ f \in Seq(X) /\ q + 1 \in 1..Len(s) /\ 0 \in Nat
        /\ 0 <= q /\ 0 + 1 = 1
    OBVIOUS
  <2>2. LinesOf!Only(f, T) = Rest(q)
    BY <1>2, <2>1
  <2>3. First(q + 1) = Append(f, c)
    <3>1. SubSeq(s, 0 + 1, q + 1) = Append(SubSeq(s, 0 + 1, q), s[q + 1])
      BY <2>1, SubSeqGrows
    <3> QED
      BY <2>1, <3>1
  <2> HIDE DEF f, c, First, Good
  <2>4. LinesOf!Only(Append(f, c), T) = IF c \in T THEN Append(LinesOf!Only(f, T), c) ELSE LinesOf!Only(f, T)
    BY ONLY <2>1, LinesOf!OnlyAppend
  <2>5. CASE q + 1 <= m
    <3>1. c \notin T
      <4>1. q + 1 \in 1..m
        BY <2>5
      <4> QED
        BY <4>1 DEF c
    <3>2. q <= m
      BY <2>5
    <3>3. Rest(q + 1) = <<>> /\ Rest(q) = <<>>
      BY <2>5, <3>2
    <3> QED
      BY <2>2, <2>3, <2>4, <3>1, <3>3
  <2>6. CASE ~(q + 1 <= m)
    <3>1. c \in T
      <4>1. q + 1 \in (m + 1)..Len(s)
        BY <2>1, <2>6
      <4> QED
        BY <4>1 DEF c
    <3>2. m <= q
      BY <2>6
    <3>3. SubSeq(s, m + 1, q + 1) = Append(SubSeq(s, m + 1, q), c)
      BY <2>1, <3>2, SubSeqGrows DEF c
    <3>4. Rest(q) = SubSeq(s, m + 1, q)
      <4>1. CASE q <= m
        <5>1. q = m
          BY <3>2, <4>1
        <5>2. SubSeq(s, m + 1, m) = <<>>
          OBVIOUS
        <5> QED
          BY <4>1, <5>1, <5>2
      <4>2. CASE ~(q <= m)
        BY <4>2
      <4> QED
        BY <4>1, <4>2
    <3>5. Rest(q + 1) = SubSeq(s, m + 1, q + 1)
      BY <2>6
    <3> HIDE DEF Rest
    <3> QED
      BY <2>2, <2>3, <2>4, <3>1, <3>3, <3>4, <3>5
  <2> QED
    BY <2>5, <2>6
<1>3. \A q \in Nat : q \in Good
  <2> HIDE DEF Good
  <2> QED
    BY <1>1, <1>2, LinesOf!AllNumbers
<1>4. Len(s) \in Nat /\ First(Len(s)) = s
  OBVIOUS
<1>5. Len(s) \in Good
  BY <1>3, <1>4
<1>6. LinesOf!Only(s, T) = Rest(Len(s))
  <2> HIDE DEF First, Rest
  <2> QED
    BY <1>4, <1>5
<1>7. Rest(Len(s)) = SubSeq(s, m + 1, Len(s))
  <2>1. CASE Len(s) <= m
    <3>1. Len(s) = m /\ SubSeq(s, m + 1, m) = <<>>
      BY <2>1
    <3> QED
      BY <2>1, <3>1
  <2> QED
    BY <2>1
<1> QED
  BY <1>6, <1>7

LEMMA LesserIs ==
  ASSUME NEW a \in Nat, NEW b \in Nat
  PROVE  LinesOf!Min({a, b}) = IF a <= b THEN a ELSE b
<1> DEFINE r == LinesOf!Min({a, b})
<1>1. r = CHOOSE x \in {a, b} : \A y \in {a, b} : x <= y
  BY DEF LinesOf!Min
<1>2. \E x \in {a, b} : \A y \in {a, b} : x <= y
  <2>1. a <= b \/ b <= a
    OBVIOUS
  <2> QED
    BY <2>1
<1>3. r \in {a, b} /\ \A y \in {a, b} : r <= y
  <2> HIDE DEF r
  <2> QED
    BY <1>1, <1>2
<1> HIDE DEF r
<1>4. r = IF a <= b THEN a ELSE b
  BY <1>3
<1> QED
  BY <1>4 DEF r

LEMMA TailGetline ==
  ASSUME LinesOf!OptionsAssumption, opt \in Options, text \in Seq(Lines), NEW y \in Lines, ~eof, eof' = eof,
         tail \in TailType, SlotKnown, LinesOf!Ring,
         text' = Append(text, y), opt' = opt, tail' = LinesOf!TailLine(tail, y)
  PROVE  tail' \in TailType /\ SlotKnown' /\ LinesOf!Ring'
<1>0. /\ LinesOf!OptionsAssumption /\ opt \in Options /\ text \in Seq(Lines) /\ ~eof /\ eof' = eof /\ LinesOf!Ring
      /\ text' = Append(text, y) /\ opt' = opt /\ tail' = LinesOf!TailLine(tail, y)
  OBVIOUS
<1>1. opt.tail_n \in Nat /\ tail.i \in Nat
  BY OptionKinds DEF TailType
<1>2. CASE opt.tail_n = 0
  <2>1. tail' = tail
    BY <1>2 DEF LinesOf!TailLine
  <2>2. tail.i <= Len(text) /\ Len(text) \in Nat /\ Len(text') = Len(text) + 1
    BY DEF LinesOf!Ring
  <2>3. tail'.i <= Len(text') /\ 0..opt'.tail_n - 1 = {}
    BY <1>1, <1>2, <2>1, <2>2
  <2>4. LinesOf!Ring'
    BY ONLY <2>3 DEF LinesOf!Ring
  <2>5. tail' \in TailType
    BY ONLY <2>1, tail \in TailType
  <2>6. SlotKnown'
    BY <1>0, <1>2 DEF SlotKnown
  <2> QED
    BY <2>4, <2>5, <2>6
<1>3. CASE opt.tail_n # 0
  <2>1. tail \in [buf : [0..opt.tail_n - 1 -> Lines \cup {LinesOf!NULL}], i : 0..opt.tail_n - 1]
    BY <1>1, <1>3 DEF TailType, SlotKnown
  <2>2. /\ tail' \in [buf : [0..opt.tail_n - 1 -> Lines \cup {LinesOf!NULL}], i : 0..opt.tail_n - 1]
        /\ LinesOf!Ring'
    BY ONLY <1>0, <1>3, <2>1, TailTurn
  <2>3. tail' \in TailType /\ tail'.i \in 0..opt.tail_n - 1
    BY <1>1, <2>2 DEF TailType
  <2>4. SlotKnown'
    BY <1>0, <2>3 DEF SlotKnown
  <2> QED
    BY <2>2, <2>3, <2>4
<1> QED
  BY <1>2, <1>3

LEMMA TailEnd ==
  ASSUME LinesOf!OptionsAssumption, opt \in Options, text \in Seq(Lines), ~eof, eof' = TRUE,
         tail \in TailType, SlotKnown,
         LinesOf!Ring, text' = text, opt' = opt, tail' = [out |-> LinesOf!TailShow(tail)]
  PROVE  tail' \in [out : Seq(Lines \cup {LinesOf!NULL, LinesOf!JUNK})] /\ LinesOf!Ring' /\ LinesOf!TailLines'
<1> DEFINE n_ == opt.tail_n
           i_ == tail.i
           b == tail.buf
           m == Len(text)
           X == Lines \cup {LinesOf!NULL, LinesOf!JUNK}
           o_ == LinesOf!TailShow(tail)
           g_ == IF n_ <= m THEN n_ ELSE m
           At(j_) == (i_ + j_ - 1) % n_
<1>1. n_ \in Nat /\ opt'.tail_n = n_ /\ m \in Nat
  BY OptionKinds
<1>2. (n_ > 0 => i_ \in 0..n_ - 1) /\ b \in [0..n_ - 1 -> Lines \cup {LinesOf!NULL}]
  BY DEF TailType, SlotKnown
<1>3. /\ i_ <= m
      /\ \A x_ \in 0..n_ - 1 : b[x_] = IF AgeIn(i_, n_, x_) <= m THEN text[m + 1 - AgeIn(i_, n_, x_)] ELSE LinesOf!NULL
  BY DEF LinesOf!Ring, LinesOf!Age, AgeIn
<1>4. o_ = [j_ \in 1..n_ |-> IF At(j_) = i_ /\ b[At(j_)] = LinesOf!NULL THEN LinesOf!JUNK ELSE b[At(j_)]]
  BY DEF LinesOf!TailShow
<1>5. tail'.out = o_
  OBVIOUS
<1>6. \A k \in 1..m : text[k] \in Lines
  OBVIOUS
<1> HIDE DEF i_, b, m, o_
<1>7. ASSUME NEW j_ \in 1..n_
      PROVE  /\ m - n_ + j_ >= 1 => m - n_ + j_ \in 1..m /\ o_[j_] = text[m - n_ + j_]
             /\ ~(m - n_ + j_ >= 1) => o_[j_] \in {LinesOf!NULL, LinesOf!JUNK}
  <2> DEFINE z == i_ + j_ - 1
             k == z % n_
             a == AgeIn(i_, n_, k)
  <2>0. n_ \in Nat \ {0} /\ i_ \in 0..n_ - 1
    BY <1>1, <1>2
  <2>1. z = i_ + j_ - 1 /\ z \in 0..(2 * n_ - 1)
    BY <2>0
  <2>2. k = IF z < n_ THEN z ELSE z - n_
    <3> HIDE DEF n_, z
    <3> QED
      BY ONLY <2>0, <2>1, Wrapped
  <2>3. k \in 0..n_ - 1
    <3> HIDE DEF n_, k, z
    <3> QED
      BY <1>1, <2>0, <2>1, <2>2
  <2>4. a = n_ - j_ + 1
    <3> HIDE DEF n_, k, z
    <3> QED
      BY <1>1, <2>0, <2>1, <2>2 DEF AgeIn
  <2>5. b[k] = IF a <= m THEN text[m + 1 - a] ELSE LinesOf!NULL
    <3> HIDE DEF k, n_
    <3> QED
      BY <1>3, <2>3
  <2>6. o_[j_] = IF k = i_ /\ b[k] = LinesOf!NULL THEN LinesOf!JUNK ELSE b[k]
    BY <1>4
  <2> HIDE DEF k, a, n_, z
  <2>7. ASSUME m - n_ + j_ >= 1 PROVE m - n_ + j_ \in 1..m /\ o_[j_] = text[m - n_ + j_]
    <3>1. a <= m /\ m + 1 - a = m - n_ + j_ /\ m - n_ + j_ \in 1..m
      BY <1>1, <2>4, <2>7
    <3>2. b[k] = text[m - n_ + j_] /\ b[k] \in Lines
      BY <1>6, <2>5, <3>1
    <3>3. b[k] # LinesOf!NULL
      BY <3>2, LineKinds
    <3> QED
      BY <2>6, <3>1, <3>2, <3>3
  <2>8. ASSUME ~(m - n_ + j_ >= 1) PROVE o_[j_] \in {LinesOf!NULL, LinesOf!JUNK}
    <3>1. ~(a <= m)
      BY <1>1, <2>4, <2>8
    <3> QED
      BY <2>5, <2>6, <3>1
  <2> QED
    BY <2>7, <2>8
<1> HIDE DEF n_
<1>8. o_ \in Seq(X) /\ Len(o_) = n_
  <2>1. \A j_ \in 1..n_ : o_[j_] \in X
    BY <1>6, <1>7
  <2>2. o_ = [j_ \in 1..n_ |-> o_[j_]]
    BY <1>4
  <2>3. n_ \in Nat
    BY <1>1
  <2> HIDE DEF X
  <2> QED
    BY ONLY <2>1, <2>2, <2>3, LinesOf!Tabulated
<1>9. g_ \in Nat /\ g_ <= n_ /\ g_ <= m /\ n_ - g_ \in Nat
  BY <1>1
<1>10. LinesOf!Only(o_, Lines) = SubSeq(o_, (n_ - g_) + 1, n_)
  <2> DEFINE d == n_ - g_
  <2>1. \A j_ \in 1..d : j_ \in 1..n_ /\ ~(m - n_ + j_ >= 1)
    BY <1>1, <1>9
  <2>2. \A j_ \in 1..d : o_[j_] \notin Lines
    BY <1>7, <2>1, LineKinds
  <2>3. \A j_ \in (d + 1)..n_ : j_ \in 1..n_ /\ m - n_ + j_ >= 1
    BY <1>1, <1>9
  <2>4. \A j_ \in (d + 1)..n_ : o_[j_] \in Lines
    BY <1>6, <1>7, <2>3
  <2>5. d \in Nat /\ d <= n_
    BY <1>1, <1>9
  <2> HIDE DEF d, X
  <2>6. LinesOf!Only(o_, Lines) = SubSeq(o_, d + 1, Len(o_))
    BY <1>8, <2>2, <2>4, <2>5, KeptEnd
  <2> QED
    BY <1>8, <2>6 DEF d
<1>11. SubSeq(o_, (n_ - g_) + 1, n_) = SubSeq(text, m - g_ + 1, m)
  <2> DEFINE p == SubSeq(o_, (n_ - g_) + 1, n_)
             q == SubSeq(text, m - g_ + 1, m)
             A == n_ - g_
             B == m - g_
  <2>1. /\ A \in Nat /\ B \in Nat /\ A + g_ = n_ /\ B + g_ = m
        /\ \A k \in 1..g_ : A + k \in 1..n_ /\ m - n_ + (A + k) = B + k /\ B + k >= 1
    BY <1>1, <1>9
  <2>2. text \in Seq(X) /\ m = Len(text)
    <3>1. text \in Seq(Lines) /\ Lines \subseteq X /\ m = Len(text)
      BY DEF m
    <3> HIDE DEF X
    <3> QED
      BY <3>1
  <2> HIDE DEF A, B, g_, X
  <2>3. p \in Seq(X) /\ Len(p) = g_ /\ \A k \in 1..g_ : p[k] = o_[A + k]
    <3>1. p = SubSeq(o_, A + 1, A + g_)
      BY <2>1 DEF A
    <3>2. o_ \in Seq(X) /\ A \in Nat /\ g_ \in Nat /\ A + g_ <= Len(o_)
      BY <1>1, <1>8, <1>9, <2>1
    <3> HIDE DEF p
    <3>3. /\ SubSeq(o_, A + 1, A + g_) \in Seq(X) /\ Len(SubSeq(o_, A + 1, A + g_)) = g_
          /\ \A k \in 1..g_ : SubSeq(o_, A + 1, A + g_)[k] = o_[A + k]
      BY ONLY <3>2, LinesOf!Excerpt
    <3> QED
      BY ONLY <3>1, <3>3
  <2>4. q \in Seq(X) /\ Len(q) = g_ /\ \A k \in 1..g_ : q[k] = text[B + k]
    <3>1. q = SubSeq(text, B + 1, B + g_)
      BY <2>1 DEF B
    <3>2. text \in Seq(X) /\ B \in Nat /\ g_ \in Nat /\ B + g_ <= Len(text)
      BY <1>1, <1>9, <2>1, <2>2
    <3> HIDE DEF q
    <3>3. /\ SubSeq(text, B + 1, B + g_) \in Seq(X) /\ Len(SubSeq(text, B + 1, B + g_)) = g_
          /\ \A k \in 1..g_ : SubSeq(text, B + 1, B + g_)[k] = text[B + k]
      BY ONLY <3>2, LinesOf!Excerpt
    <3> QED
      BY ONLY <3>1, <3>3
  <2> HIDE DEF p, q
  <2>5. ASSUME NEW k \in 1..g_ PROVE p[k] = q[k]
    <3>1. A + k \in 1..n_ /\ m - n_ + (A + k) = B + k /\ m - n_ + (A + k) >= 1
      BY <2>1
    <3>2. o_[A + k] = text[m - n_ + (A + k)]
      BY <1>7, <3>1
    <3> QED
      BY <2>3, <2>4, <3>1, <3>2
  <2>6. p = q
    BY <2>3, <2>4, <2>5, LinesOf!SeqEqual
  <2> QED
    BY <2>6 DEF p, q
<1>12. LinesOf!TailLines'
  <2>1. LinesOf!Min({n_, m}) = g_
    BY <1>1, LesserIs
  <2>2. LinesOf!Only(tail'.out, Lines) = SubSeq(text, m - g_ + 1, m)
    BY <1>5, <1>10, <1>11
  <2>3. text' = text /\ Len(text) = m /\ opt'.tail_n = n_
    BY <1>1 DEF m
  <2> HIDE DEF g_
  <2> QED
    BY <2>1, <2>2, <2>3 DEF LinesOf!TailLines
<1>13. tail' \in [out : Seq(X)]
  <2> HIDE DEF X
  <2>1. tail' = [out |-> o_]
    BY DEF o_
  <2> QED
    BY <1>8, <2>1
<1>14. LinesOf!Ring'
  BY DEF LinesOf!Ring
<1> QED
  BY <1>12, <1>13, <1>14


\* uniq.c: what is compared of a line, and the groups.
KeyOf(l, n_) == SubSeq(l, n_ + 1, Len(l))
GroupAt(s, n_) == {k \in DOMAIN s : k = 1 \/ KeyOf(s[k], n_) # KeyOf(s[k - 1], n_)}
GroupStarts(s, n_) == LinesOf!Ascending(Len(s), GroupAt(s, n_))
Same(s, n_, k) == {j_ \in k..Len(s) : \A m_ \in k..j_ : KeyOf(s[m_], n_) = KeyOf(s[k], n_)}
SizeAt(s, n_, k) == LinesOf!Cardinality(Same(s, n_, k))

LEMMA GroupsAre ==
  ASSUME NEW s, NEW n_
  PROVE  LinesOf!Groups(s, n_) = [k \in 1..Len(GroupStarts(s, n_)) |->
                              [line |-> s[GroupStarts(s, n_)[k]], c |-> SizeAt(s, n_, GroupStarts(s, n_)[k])]]
BY DEF LinesOf!Groups, GroupStarts, GroupAt, SizeAt, Same, KeyOf

LEMMA GroupStartsMore ==
  ASSUME NEW X, NEW s, NEW y, s \in Seq(X), y \in X, NEW n_
  PROVE  GroupStarts(Append(s, y), n_) =
           IF s = <<>> \/ KeyOf(y, n_) # KeyOf(s[Len(s)], n_)
           THEN Append(GroupStarts(s, n_), Len(s) + 1) ELSE GroupStarts(s, n_)
<1> DEFINE u == Append(s, y)
           m == Len(s)
           K == GroupAt(s, n_)
           M == GroupAt(u, n_)
<1>1. /\ m \in Nat /\ u[m + 1] = y /\ \A j_ \in 1..m : u[j_] = s[j_]
      /\ DOMAIN s = 1..m /\ DOMAIN u = 1..(m + 1) /\ Len(u) = m + 1 /\ (s = <<>> <=> m = 0)
  BY LinesOf!OneMore
<1>2. GroupStarts(s, n_) = LinesOf!Ascending(m, K) /\ GroupStarts(u, n_) = LinesOf!Ascending(m + 1, M)
  BY <1>1 DEF GroupStarts
<1> HIDE DEF u, m
<1>3. \A j_ \in 1..m : j_ \in K <=> j_ \in M
  <2>1. \A j_ \in 1..m : j_ \in 1..(m + 1) /\ u[j_] = s[j_] /\ (j_ # 1 => u[j_ - 1] = s[j_ - 1])
    <3>1. \A j_ \in 1..m : j_ \in 1..(m + 1) /\ (j_ # 1 => j_ - 1 \in 1..m)
      BY <1>1
    <3> QED
      BY <1>1, <3>1
  <2> QED
    BY <1>1, <2>1 DEF GroupAt
<1>4. m + 1 \in M <=> m = 0 \/ KeyOf(y, n_) # KeyOf(s[m], n_)
  <2>1. m + 1 \in 1..(m + 1) /\ (m + 1) - 1 = m /\ (m + 1 = 1 <=> m = 0) /\ (m # 0 => u[m] = s[m])
    BY <1>1
  <2> QED
    BY <1>1, <2>1 DEF GroupAt
<1> HIDE DEF K, M
<1>5. LinesOf!Ascending(m, K) = LinesOf!Ascending(m, M)
  BY <1>1, <1>3, LinesOf!AscendingAgree
<1>6. LinesOf!Ascending(m + 1, M) = IF m + 1 \in M THEN Append(LinesOf!Ascending(m, M), m + 1) ELSE LinesOf!Ascending(m, M)
  BY <1>1, LinesOf!AscendingStep
<1> QED
  BY <1>1, <1>2, <1>4, <1>5, <1>6 DEF u, m

LEMMA SizeOpen ==
  ASSUME NEW s, NEW n_, Len(s) \in Nat, NEW k \in 1..Len(s),
         \A m_ \in k..Len(s) : KeyOf(s[m_], n_) = KeyOf(s[k], n_)
  PROVE  SizeAt(s, n_, k) = Len(s) - k + 1
<1> DEFINE z == Len(s)
<1>1. Same(s, n_, k) = k..z
  <2>1. \A j_ \in k..z : \A m_ \in k..j_ : m_ \in k..z
    OBVIOUS
  <2> QED
    BY <2>1 DEF Same
<1>2. k \in Int /\ z \in Int /\ ~(k > z)
  OBVIOUS
<1> HIDE DEF z
<1>3. LinesOf!Cardinality(k..z) = z - k + 1
  BY <1>2, LinesOf!FS_Interval
<1> QED
  BY <1>1, <1>3 DEF SizeAt, z

LEMMA SizeClosed ==
  ASSUME NEW X, NEW s, NEW y, s \in Seq(X), y \in X, NEW n_, NEW k \in 1..Len(s),
         NEW e \in k..(Len(s) + 1), KeyOf(Append(s, y)[e], n_) # KeyOf(s[k], n_)
  PROVE  SizeAt(Append(s, y), n_, k) = SizeAt(s, n_, k)
<1> DEFINE u == Append(s, y)
           m == Len(s)
<1>1. m \in Nat /\ Len(u) = m + 1 /\ \A j_ \in 1..m : u[j_] = s[j_]
  BY LinesOf!OneMore
<1>2. KeyOf(u[e], n_) # KeyOf(u[k], n_) /\ k \in 1..m /\ e \in k..(m + 1)
  BY <1>1
<1> HIDE DEF u, m
<1>3. ASSUME NEW j_ \in k..(m + 1), \A m_ \in k..j_ : KeyOf(u[m_], n_) = KeyOf(u[k], n_)
      PROVE  j_ \in k..m
  <2>1. ~(e <= j_)
    <3>1. e <= j_ => e \in k..j_
      BY <1>1, <1>2
    <3> QED
      BY <1>2, <1>3, <3>1
  <2> QED
    BY <1>1, <1>2, <2>1
<1>4. \A j_ \in k..m : (j_ \in k..(m + 1)) /\ \A m_ \in k..j_ : m_ \in 1..m
  BY <1>1, <1>2
<1>5. \A j_ \in k..m : \A m_ \in k..j_ : u[m_] = s[m_]
  BY <1>1, <1>4
<1>6. u[k] = s[k]
  BY <1>1, <1>2
<1>7. Same(u, n_, k) = {j_ \in k..(m + 1) : \A m_ \in k..j_ : KeyOf(u[m_], n_) = KeyOf(u[k], n_)}
  BY <1>1 DEF Same
<1>8. Same(s, n_, k) = {j_ \in k..m : \A m_ \in k..j_ : KeyOf(s[m_], n_) = KeyOf(s[k], n_)}
  BY DEF Same, m
<1>9. Same(u, n_, k) = Same(s, n_, k)
  <2>1. ASSUME NEW j_, j_ \in Same(u, n_, k) PROVE j_ \in Same(s, n_, k)
    <3>1. j_ \in k..(m + 1) /\ \A m_ \in k..j_ : KeyOf(u[m_], n_) = KeyOf(u[k], n_)
      BY <1>7, <2>1
    <3>2. j_ \in k..m
      BY <1>3, <3>1
    <3>3. \A m_ \in k..j_ : KeyOf(s[m_], n_) = KeyOf(s[k], n_)
      BY <1>5, <1>6, <3>1, <3>2
    <3> QED
      BY <1>8, <3>2, <3>3
  <2>2. ASSUME NEW j_, j_ \in Same(s, n_, k) PROVE j_ \in Same(u, n_, k)
    <3>1. j_ \in k..m /\ \A m_ \in k..j_ : KeyOf(s[m_], n_) = KeyOf(s[k], n_)
      BY <1>8, <2>2
    <3>2. j_ \in k..(m + 1) /\ \A m_ \in k..j_ : KeyOf(u[m_], n_) = KeyOf(u[k], n_)
      BY <1>4, <1>5, <1>6, <3>1
    <3> QED
      BY <1>7, <3>2
  <2> QED
    BY <2>1, <2>2
<1> QED
  BY <1>9 DEF SizeAt, u

\* Every group but the last is over, and the last reaches the end.
LEMMA GroupStartsKnown ==
  ASSUME NEW X, NEW s, s \in Seq(X), NEW n_
  PROVE  /\ GroupStarts(s, n_) \in Seq(Nat) /\ Len(GroupStarts(s, n_)) \in Nat
         /\ \A k \in 1..Len(GroupStarts(s, n_)) : GroupStarts(s, n_)[k] \in 1..Len(s)
         /\ \A k \in 1..(Len(GroupStarts(s, n_)) - 1) :
              \E e \in GroupStarts(s, n_)[k]..Len(s) : KeyOf(s[e], n_) # KeyOf(s[GroupStarts(s, n_)[k]], n_)
         /\ s # <<>> =>
              /\ Len(GroupStarts(s, n_)) > 0
              /\ \A e \in GroupStarts(s, n_)[Len(GroupStarts(s, n_))]..Len(s) :
                   KeyOf(s[e], n_) = KeyOf(s[GroupStarts(s, n_)[Len(GroupStarts(s, n_))]], n_)
<1> DEFINE a == GroupStarts(s, n_)
           m == Len(s)
           K == GroupAt(s, n_)
           z == Len(a)
           Key(k) == KeyOf(s[k], n_)
<1>1. m \in Nat /\ DOMAIN s = 1..m /\ (s = <<>> <=> m = 0)
  BY LinesOf!OneMore
<1>2. a = LinesOf!Ascending(m, K)
  BY DEF GroupStarts
<1>3. LinesOf!Ascends(LinesOf!Ascending(m, K), m, K)
  BY <1>1, LinesOf!AscendingAscends
<1>4. \A k \in 1..m : k \in K <=> k = 1 \/ Key(k) # Key(k - 1)
  BY <1>1 DEF GroupAt
<1> HIDE DEF a, K, Key
<1>5. /\ a \in Seq(Nat)
      /\ \A x_ \in 1..z : a[x_] \in K /\ a[x_] \in 1..m
      /\ \A x_, y_ \in 1..z : x_ < y_ => a[x_] < a[y_]
      /\ \A k \in 1..m : k \in K => \E x_ \in 1..z : a[x_] = k
  BY <1>2, <1>3 DEF LinesOf!Ascends
<1>6. z \in Nat
  BY <1>5
<1> HIDE DEF m, z
<1>7. ASSUME NEW k \in 1..(z - 1) PROVE \E e \in a[k]..m : Key(e) # Key(a[k])
  <2> DEFINE b == a[k + 1]
  <2>1. k \in 1..z /\ k + 1 \in 1..z /\ k < k + 1
    BY <1>6
  <2>2. b \in K /\ b \in 1..m /\ a[k] \in 1..m /\ a[k] < b
    BY <1>5, <2>1
  <2> HIDE DEF b
  <2>3. b \in a[k]..m /\ b - 1 \in a[k]..m /\ b # 1
    BY <1>1, <2>2
  <2>4. Key(b) # Key(b - 1)
    BY <1>4, <2>2, <2>3
  <2>5. Key(b) # Key(a[k]) \/ Key(b - 1) # Key(a[k])
    BY <2>4
  <2> QED
    BY <2>3, <2>5
<1>8. ASSUME m # 0 PROVE z > 0 /\ \A e \in a[z]..m : Key(e) = Key(a[z])
  <2>1. 1 \in 1..m /\ 1 \in K
    BY <1>1, <1>4, <1>8
  <2>2. z > 0 /\ z \in 1..z
    BY <1>5, <1>6, <2>1
  <2>3. a[z] \in 1..m
    BY <1>5, <2>2
  <2> SUFFICES ASSUME NEW e_ \in a[z]..m, Key(e_) # Key(a[z]) PROVE FALSE
    BY <2>2
  <2> DEFINE T == {e \in a[z]..m : Key(e) # Key(a[z])}
  <2>4. T \in SUBSET Nat /\ T # {}
    BY <2>3
  <2>5. PICK e \in T : \A d \in T : e <= d
    BY <2>4, LinesOf!Smallest
  <2>6. e \in a[z]..m /\ Key(e) # Key(a[z]) /\ e # a[z]
    BY <2>5
  <2>7. e - 1 \in a[z]..m /\ e \in 1..m /\ e \in Nat /\ a[z] < e
    BY <1>1, <2>3, <2>6
  <2>8. Key(e - 1) = Key(a[z])
    <3>1. e - 1 \notin T
      BY <2>5, <2>7
    <3> QED
      BY <2>7, <3>1
  <2>9. e \in K
    BY <1>4, <2>6, <2>7, <2>8
  <2>10. PICK x_ \in 1..z : a[x_] = e
    BY <1>5, <2>7, <2>9
  <2>11. x_ < z \/ x_ = z
    BY <1>6
  <2>12. x_ < z => a[x_] < a[z]
    BY <1>5, <2>2
  <2> QED
    BY <2>3, <2>7, <2>10, <2>11, <2>12
<1> QED
  BY <1>1, <1>5, <1>6, <1>7, <1>8 DEF a, m, z, Key

LEMMA NoGroups == ASSUME NEW n_ PROVE LinesOf!Groups(<<>>, n_) = <<>>
<1> DEFINE a == GroupStarts(<<>>, n_)
           s == <<>>
<1>1. s \in Seq(Lines) /\ Len(s) = 0
  OBVIOUS
<1> HIDE DEF s
<1>2. /\ GroupStarts(s, n_) \in Seq(Nat) /\ Len(GroupStarts(s, n_)) \in Nat
      /\ \A k \in 1..Len(GroupStarts(s, n_)) : GroupStarts(s, n_)[k] \in 1..Len(s)
  BY <1>1, GroupStartsKnown
<1>3. Len(GroupStarts(s, n_)) = 0
  <2> SUFFICES ASSUME Len(GroupStarts(s, n_)) # 0 PROVE FALSE
    OBVIOUS
  <2>1. 1 \in 1..Len(GroupStarts(s, n_))
    BY <1>2
  <2> QED
    BY <1>1, <1>2, <2>1
<1>4. LinesOf!Groups(s, n_) = [k \in 1..0 |-> [line |-> s[GroupStarts(s, n_)[k]], c |-> SizeAt(s, n_, GroupStarts(s, n_)[k])]]
  BY <1>3, GroupsAre
<1> QED
  BY <1>4 DEF s

LEMMA GroupsAreTyped == ASSUME NEW s, s \in Seq(Lines), NEW n_ PROVE LinesOf!Groups(s, n_) \in Seq([line : Lines, c : Nat])
<1> DEFINE a == GroupStarts(s, n_)
           m == Len(s)
           z == Len(a)
           G == LinesOf!Groups(s, n_)
           R == [line : Lines, c : Nat]
<1>1. m \in Nat /\ \A k \in 1..m : s[k] \in Lines
  OBVIOUS
<1>2. a \in Seq(Nat) /\ z \in Nat /\ \A k \in 1..z : a[k] \in 1..m
  BY GroupStartsKnown
<1>3. G = [k \in 1..z |-> [line |-> s[a[k]], c |-> SizeAt(s, n_, a[k])]]
  BY GroupsAre
<1>4. ASSUME NEW k \in 1..m PROVE SizeAt(s, n_, k) \in Nat
  <2> DEFINE I == k..m
  <2>1. k \in Int /\ m \in Int
    BY <1>1
  <2>2. LinesOf!IsFiniteSet(I)
    BY <2>1, LinesOf!FS_Interval
  <2>3. Same(s, n_, k) \in SUBSET I
    BY DEF Same
  <2> HIDE DEF I
  <2>4. LinesOf!IsFiniteSet(Same(s, n_, k))
    BY <2>2, <2>3, LinesOf!FS_Subset
  <2> QED
    BY <2>4, LinesOf!FS_CardinalityType DEF SizeAt
<1> HIDE DEF a, m, G, z
<1>5. \A k \in 1..z : [line |-> s[a[k]], c |-> SizeAt(s, n_, a[k])] \in R
  BY <1>1, <1>2, <1>4
<1>6. G \in Seq(R)
  <2> HIDE DEF R
  <2> QED
    BY <1>2, <1>3, <1>5
<1> QED
  BY <1>6 DEF G

GroupOf(line, c) == [line |-> line, c |-> c]

\* What one line y more does to the groups of s.
Grown(s, y, n_) ==
  LET G == LinesOf!Groups(s, n_)
      H == LinesOf!Groups(Append(s, y), n_)
      z == Len(G)
  IN  /\ G \in Seq([line : Lines, c : Nat])
      /\ (s = <<>> => G = <<>>) /\ (s # <<>> => G # <<>>)
      /\ (s = <<>> \/ KeyOf(y, n_) # KeyOf(s[Len(s)], n_) => H = Append(G, GroupOf(y, 1)))
      /\ (s # <<>> /\ KeyOf(y, n_) = KeyOf(s[Len(s)], n_) =>
            /\ Len(H) = z /\ (\A k \in 1..(z - 1) : H[k] = G[k])
            /\ H[z] = GroupOf(G[z].line, G[z].c + 1))

LEMMA GroupsMore == ASSUME NEW s, NEW y, s \in Seq(Lines), y \in Lines, NEW n_ PROVE Grown(s, y, n_)
<1> DEFINE u == Append(s, y)
           m == Len(s)
           a == GroupStarts(s, n_)
           b == GroupStarts(u, n_)
           z == Len(a)
           G == LinesOf!Groups(s, n_)
           H == LinesOf!Groups(u, n_)
           R == [line : Lines, c : Nat]
           new == s = <<>> \/ KeyOf(y, n_) # KeyOf(s[m], n_)
<1>1. /\ m \in Nat /\ Len(u) = m + 1 /\ u[m + 1] = y /\ u \in Seq(Lines) /\ (s = <<>> <=> m = 0)
      /\ \A k \in 1..m : u[k] = s[k] /\ s[k] \in Lines
  BY LinesOf!OneMore
<1>2. b = IF new THEN Append(a, m + 1) ELSE a
  BY GroupStartsMore
<1>3. /\ a \in Seq(Nat) /\ z \in Nat /\ (\A k \in 1..z : a[k] \in 1..m)
      /\ (\A k \in 1..(z - 1) : \E e \in a[k]..m : KeyOf(s[e], n_) # KeyOf(s[a[k]], n_))
      /\ (s # <<>> => z > 0 /\ \A e \in a[z]..m : KeyOf(s[e], n_) = KeyOf(s[a[z]], n_))
  BY GroupStartsKnown
<1>4. /\ G = [k \in 1..z |-> [line |-> s[a[k]], c |-> SizeAt(s, n_, a[k])]]
      /\ H = [k \in 1..Len(b) |-> [line |-> u[b[k]], c |-> SizeAt(u, n_, b[k])]]
  BY GroupsAre
<1>5. G \in Seq(R)
  BY GroupsAreTyped
<1> HIDE DEF u, m, a, b, z, G, H
<1>6. G \in Seq(R) /\ Len(G) = z
  <2> HIDE DEF R
  <2> QED
    BY <1>3, <1>4, <1>5
<1>7. (s = <<>> => G = <<>>) /\ (s # <<>> => G # <<>>)
  <2>1. s = <<>> => z = 0
    <3> SUFFICES ASSUME s = <<>>, z # 0 PROVE FALSE
      OBVIOUS
    <3>1. 1 \in 1..z /\ m = 0
      BY <1>1, <1>3
    <3> QED
      BY <1>3, <3>1
  <2>2. z = 0 => G = <<>>
    BY <1>6
  <2> QED
    BY <1>3, <1>6, <2>1, <2>2
<1>8. ASSUME NEW k \in 1..z, k # z \/ new
      PROVE  SizeAt(u, n_, a[k]) = SizeAt(s, n_, a[k])
  <2> DEFINE A == a[k]
  <2>1. A \in 1..m
    BY <1>3
  <2>2. \E e \in A..(m + 1) : KeyOf(u[e], n_) # KeyOf(s[A], n_)
    <3>1. CASE k # z
      <4>1. k \in 1..(z - 1)
        BY <1>3, <3>1
      <4>2. PICK e \in A..m : KeyOf(s[e], n_) # KeyOf(s[A], n_)
        BY <1>3, <4>1
      <4>3. e \in A..(m + 1) /\ e \in 1..m
        BY <1>1, <2>1
      <4> QED
        BY <1>1, <4>2, <4>3
    <3>2. CASE k = z
      <4>1. s # <<>> /\ m \in A..m /\ m + 1 \in A..(m + 1)
        BY <1>1, <2>1
      <4>2. KeyOf(s[m], n_) = KeyOf(s[A], n_)
        BY <1>3, <3>2, <4>1
      <4>3. KeyOf(y, n_) # KeyOf(s[m], n_)
        BY <1>8, <3>2, <4>1
      <4> QED
        BY <1>1, <4>1, <4>2, <4>3
    <3> QED
      BY <3>1, <3>2
  <2> HIDE DEF A
  <2>3. PICK e \in A..(m + 1) : KeyOf(u[e], n_) # KeyOf(s[A], n_)
    BY <2>2
  <2>4. SizeAt(Append(s, y), n_, A) = SizeAt(s, n_, A)
    <3>1. /\ A \in 1..Len(s) /\ e \in A..(Len(s) + 1) /\ KeyOf(Append(s, y)[e], n_) # KeyOf(s[A], n_)
          /\ s \in Seq(Lines) /\ y \in Lines
      BY <2>1, <2>3 DEF m, u
    <3> QED
      BY ONLY <3>1, SizeClosed
  <2> QED
    BY <2>4 DEF A, u
<1>9. ASSUME new PROVE H = Append(G, GroupOf(y, 1))
  <2>1. b = Append(a, m + 1)
    BY <1>2, <1>9
  <2>2. Len(b) = z + 1 /\ b[z + 1] = m + 1 /\ \A k \in 1..z : b[k] = a[k]
    BY <1>3, <2>1 DEF z
  <2>3. SizeAt(u, n_, m + 1) = 1
    <3>1. /\ Len(u) \in Nat /\ m + 1 \in 1..Len(u)
          /\ \A m_ \in (m + 1)..Len(u) : KeyOf(u[m_], n_) = KeyOf(u[m + 1], n_)
      <4>1. \A m_ \in (m + 1)..Len(u) : m_ = m + 1
        BY <1>1
      <4> QED
        BY <1>1, <4>1
    <3>2. SizeAt(u, n_, m + 1) = Len(u) - (m + 1) + 1
      BY <3>1, SizeOpen
    <3> QED
      BY <1>1, <3>2
  <2>4. ASSUME NEW k \in 1..z PROVE H[k] = G[k]
    <3>1. k \in 1..(z + 1) /\ a[k] \in 1..m
      BY <1>3
    <3>2. SizeAt(u, n_, a[k]) = SizeAt(s, n_, a[k]) /\ u[a[k]] = s[a[k]]
      BY <1>1, <1>8, <1>9, <3>1
    <3>3. H[k] = [line |-> u[a[k]], c |-> SizeAt(u, n_, a[k])]
      BY <1>4, <2>2, <3>1
    <3> QED
      BY <1>4, <3>2, <3>3
  <2>5. H[z + 1] = GroupOf(y, 1)
    <3>1. z + 1 \in 1..(z + 1)
      BY <1>3
    <3> QED
      BY <1>1, <1>4, <2>2, <2>3, <3>1 DEF GroupOf
  <2> DEFINE V == Append(G, GroupOf(y, 1))
             g1 == GroupOf(y, 1)
  <2>6. g1 \in R
    BY DEF GroupOf
  <2> HIDE DEF g1, R
  <2>7. V \in Seq(R) /\ Len(V) = z + 1 /\ V[z + 1] = g1 /\ \A k \in 1..z : V[k] = G[k]
    BY <1>3, <1>6, <2>6 DEF g1
  <2> HIDE DEF V
  <2>8. \A k \in 1..(z + 1) : k = z + 1 \/ k \in 1..z
    BY <1>3
  <2>9. \A k \in 1..(z + 1) : H[k] = V[k]
    BY <2>4, <2>5, <2>7, <2>8 DEF g1
  <2>10. H \in Seq(R) /\ Len(H) = z + 1
    <3> DEFINE r_ == z + 1
    <3>1. \A k \in 1..r_ : V[k] \in R
      BY <2>7
    <3>2. H = [k \in 1..r_ |-> H[k]]
      BY <1>4, <2>2
    <3>3. r_ \in Nat /\ \A k \in 1..r_ : H[k] \in R
      <4>1. r_ \in Nat
        BY <1>3
      <4>2. \A k \in 1..r_ : H[k] = V[k]
        BY <2>9
      <4> HIDE DEF r_
      <4> QED
        BY ONLY <4>1, <4>2, <3>1
    <3> HIDE DEF r_
    <3>4. H \in Seq(R) /\ Len(H) = r_
      BY ONLY <3>2, <3>3, LinesOf!Tabulated
    <3> QED
      BY ONLY <3>4 DEF r_
  <2>11. H = V
    BY <2>7, <2>9, <2>10, LinesOf!SeqEqual
  <2> QED
    BY <2>11 DEF V
<1>10. ASSUME ~new
       PROVE  /\ Len(H) = z /\ (\A k \in 1..(z - 1) : H[k] = G[k])
              /\ H[z] = GroupOf(G[z].line, G[z].c + 1)
  <2>1. b = a
    BY <1>2, <1>10
  <2>2. H = [k \in 1..z |-> [line |-> u[a[k]], c |-> SizeAt(u, n_, a[k])]]
    BY <1>4, <2>1 DEF z
  <2>3. ASSUME NEW k \in 1..(z - 1) PROVE H[k] = G[k]
    <3>1. k \in 1..z /\ k # z
      BY <1>3
    <3>2. a[k] \in 1..m
      BY <1>3, <3>1
    <3>3. SizeAt(u, n_, a[k]) = SizeAt(s, n_, a[k]) /\ u[a[k]] = s[a[k]]
      BY <1>1, <1>8, <3>1, <3>2
    <3> QED
      BY <1>4, <2>2, <3>1, <3>3
  <2>4. Len(H) = z
    BY <1>3, <2>2
  <2>5. H[z] = GroupOf(G[z].line, G[z].c + 1)
    <3> DEFINE A == a[z]
    <3>1. s # <<>> /\ z \in 1..z /\ m # 0
      BY <1>1, <1>3, <1>10
    <3>2. A \in 1..m /\ \A e \in A..m : KeyOf(s[e], n_) = KeyOf(s[A], n_)
      BY <1>3, <3>1
    <3> HIDE DEF A
    <3>3. SizeAt(s, n_, A) = m - A + 1
      BY <1>1, <3>2, SizeOpen DEF m
    <3>4. SizeAt(u, n_, A) = m + 1 - A + 1
      <4>1. /\ Len(u) = m + 1 /\ Len(u) \in Nat /\ A \in 1..Len(u) /\ m \in A..m /\ u[A] = s[A]
            /\ \A e \in A..(m + 1) : e = m + 1 \/ (e \in A..m /\ e \in 1..m)
        BY <1>1, <3>2
      <4>2. KeyOf(y, n_) = KeyOf(s[A], n_)
        BY <1>10, <3>2, <4>1
      <4>3. \A e \in A..Len(u) : KeyOf(u[e], n_) = KeyOf(u[A], n_)
        BY <1>1, <3>2, <4>1, <4>2
      <4>4. SizeAt(u, n_, A) = Len(u) - A + 1
        BY <4>1, <4>3, SizeOpen
      <4> QED
        BY <4>1, <4>4
    <3>5. SizeAt(u, n_, A) = SizeAt(s, n_, A) + 1 /\ u[A] = s[A]
      BY <1>1, <3>2, <3>3, <3>4
    <3>6. H[z] = [line |-> u[A], c |-> SizeAt(u, n_, A)] /\ G[z] = [line |-> s[A], c |-> SizeAt(s, n_, A)]
      BY <1>4, <2>2, <3>1 DEF A
    <3>7. G[z].line = s[A] /\ G[z].c = SizeAt(s, n_, A)
      BY <3>6
    <3> QED
      BY <3>5, <3>6, <3>7 DEF GroupOf
  <2> QED
    BY <2>3, <2>4, <2>5
<1>11. /\ (new => H = Append(G, GroupOf(y, 1)))
       /\ (~new => /\ Len(H) = Len(G) /\ (\A k \in 1..(Len(G) - 1) : H[k] = G[k])
                    /\ H[Len(G)] = GroupOf(G[Len(G)].line, G[Len(G)].c + 1))
  BY <1>6, <1>9, <1>10
<1> QED
  BY <1>5, <1>7, <1>11 DEF u, m, G, H, Grown


GroupLine(v) == IF v.first = LinesOf!NULL THEN v.last ELSE v.first

LEMMA ShowIs ==
  ASSUME LinesOf!OptionsAssumption, opt \in Options, NEW v, v.last \in Lines, v.first \in Lines \cup {LinesOf!NULL}, v.c \in Nat \ {0}
  PROVE  /\ LinesOf!Show(v) \in Seq([line : Lines, c : Nat])
         /\ ~opt.to_file /\ (v.first = LinesOf!NULL <=> v.c = 1) =>
              LinesOf!Show(v) = IF GroupOf(GroupLine(v), v.c) \in LinesOf!Chosen
                          THEN <<GroupOf(GroupLine(v), v.c)>> ELSE <<>>
<1> DEFINE g == GroupOf(GroupLine(v), v.c)
           wanted == \/ opt.unique_only /\ v.first = LinesOf!NULL
                     \/ opt.duplicate /\ v.first # LinesOf!NULL
                     \/ ~opt.duplicate /\ ~opt.unique_only
           R == [line : Lines, c : Nat]
<1>1. LinesOf!Show(v) = IF wanted /\ ~opt.to_file THEN <<g>> ELSE <<>>
  BY DEF LinesOf!Show, GroupOf, GroupLine
<1>2. GroupLine(v) \in Lines
  BY DEF GroupLine
<1>3. g \in R /\ g.c = v.c
  BY <1>2 DEF GroupOf
<1>4. opt.unique_only \in BOOLEAN /\ opt.duplicate \in BOOLEAN
  BY OptionKinds
<1>5. g \in LinesOf!Chosen <=>
       \/ opt.unique_only = opt.duplicate
       \/ opt.unique_only /\ v.c = 1
       \/ opt.duplicate /\ v.c > 1
  <2> HIDE DEF g, R
  <2>1. g \in [line : Lines, c : Nat]
    BY <1>3 DEF R
  <2> QED
    BY <1>3, <2>1 DEF LinesOf!Chosen
<1>6. v.c > 1 <=> ~(v.c = 1)
  OBVIOUS
<1> HIDE DEF g
<1>7. (v.first = LinesOf!NULL <=> v.c = 1) => (wanted <=> g \in LinesOf!Chosen)
  BY <1>4, <1>5, <1>6
<1> HIDE DEF wanted, R
<1>8. LinesOf!Show(v) \in Seq(R)
  <2>1. <<g>> \in Seq(R) /\ <<>> \in Seq(R)
    BY <1>3
  <2> QED
    BY <1>1, <2>1
<1> QED
  BY <1>1, <1>7, <1>8 DEF g, R

LEMMA DuplicateIs ==
  ASSUME NEW y, NEW l, opt.nskip_fields \in {0, 1}
  PROVE  LinesOf!Duplicate(y, l) <=> KeyOf(y, opt.nskip_fields) = KeyOf(l, opt.nskip_fields)
<1>1. (opt.nskip_fields + 1) \div 2 + 1 = opt.nskip_fields + 1
  OBVIOUS
<1> QED
  BY <1>1 DEF LinesOf!Duplicate, LinesOf!SkipFields, KeyOf

UniqType == [first : Lines \cup {LinesOf!NULL}, last : Lines \cup {LinesOf!NULL}, c : Nat \ {0},
             out : Seq([line : Lines, c : Nat])]
Watched == ~opt.to_file /\ opt.nskip_fields <= 1

LEMMA GroupInHandIs ==
  ~eof => (LinesOf!GroupInHand <=>
    (Watched =>
       LET G == LinesOf!Groups(text, opt.nskip_fields)
       IN  IF text = <<>> THEN uniq.last = LinesOf!NULL /\ uniq.first = LinesOf!NULL /\ uniq.c = 1 /\ uniq.out = <<>>
           ELSE /\ uniq.last = text[Len(text)] /\ (uniq.first = LinesOf!NULL <=> uniq.c = 1)
                /\ G # <<>>
                /\ G[Len(G)] = GroupOf(GroupLine(uniq), uniq.c)
                /\ uniq.out = LinesOf!Only(SubSeq(G, 1, Len(G) - 1), LinesOf!Chosen)))
BY DEF LinesOf!GroupInHand, Watched, GroupOf, GroupLine

LEMMA GroupInHandNext ==
  ASSUME ~eof', opt' = opt, NEW u, text' = u, u # <<>>
  PROVE  LinesOf!GroupInHand' <=>
    (Watched =>
       LET G == LinesOf!Groups(u, opt.nskip_fields)
       IN  /\ uniq'.last = u[Len(u)] /\ (uniq'.first = LinesOf!NULL <=> uniq'.c = 1)
           /\ G # <<>>
           /\ G[Len(G)] = GroupOf(GroupLine(uniq'), uniq'.c)
           /\ uniq'.out = LinesOf!Only(SubSeq(G, 1, Len(G) - 1), LinesOf!Chosen))
<1>1. LinesOf!Groups(text, opt.nskip_fields)' = LinesOf!Groups(u, opt.nskip_fields)
  BY DEF LinesOf!Groups
<1>2. LinesOf!Chosen' = LinesOf!Chosen
  BY DEF LinesOf!Chosen
<1> QED
  BY <1>1, <1>2 DEF LinesOf!GroupInHand, Watched, GroupOf, GroupLine

\* All groups but the last, and the last.
LEMMA AllButLast ==
  ASSUME NEW X, NEW T, NEW G, G \in Seq(X), G # <<>>
  PROVE  LinesOf!Only(G, T) = IF G[Len(G)] \in T THEN Append(LinesOf!Only(SubSeq(G, 1, Len(G) - 1), T), G[Len(G)])
                        ELSE LinesOf!Only(SubSeq(G, 1, Len(G) - 1), T)
<1> DEFINE z == Len(G)
           F == SubSeq(G, 1, z - 1)
           g == G[z]
<1>1. F \in Seq(X) /\ g \in X /\ z \in Nat /\ z # 0
  OBVIOUS
<1>2. G = Append(F, g)
  <2>1. /\ 0 \in Nat /\ z - 1 \in Nat /\ 0 <= z - 1 /\ (z - 1) + 1 <= Len(G) /\ (z - 1) + 1 = z /\ 0 + 1 = 1
    BY <1>1
  <2>2. SubSeq(G, 0 + 1, (z - 1) + 1) = Append(SubSeq(G, 0 + 1, z - 1), G[(z - 1) + 1])
    BY <2>1, SubSeqGrows
  <2>3. SubSeq(G, 1, z) = G
    OBVIOUS
  <2> QED
    BY <2>1, <2>2, <2>3
<1> HIDE DEF F, g
<1>3. LinesOf!Only(Append(F, g), T) = IF g \in T THEN Append(LinesOf!Only(F, T), g) ELSE LinesOf!Only(F, T)
  BY ONLY <1>1, LinesOf!OnlyAppend
<1> QED
  BY <1>2, <1>3 DEF F, g

LEMMA UniqGetline ==
  ASSUME LinesOf!OptionsAssumption, opt \in Options, text \in Seq(Lines), NEW y \in Lines, ~eof, eof' = eof,
         uniq \in UniqType, LinesOf!GroupInHand,
         text' = Append(text, y), opt' = opt, uniq' = LinesOf!Unique(uniq, y)
  PROVE  uniq' \in UniqType /\ LinesOf!GroupInHand'
<1> DEFINE u == Append(text, y)
           m == Len(text)
           n_ == opt.nskip_fields
           R == [line : Lines, c : Nat]
           G == LinesOf!Groups(text, n_)
           H == LinesOf!Groups(u, n_)
           z == Len(G)
           T == LinesOf!Chosen
<1>1. /\ uniq.first \in Lines \cup {LinesOf!NULL} /\ uniq.last \in Lines \cup {LinesOf!NULL}
      /\ uniq.c \in Nat \ {0} /\ uniq.out \in Seq(R)
  BY DEF UniqType
<1>2. u # <<>> /\ Len(u) = m + 1 /\ u[m + 1] = y /\ m \in Nat /\ (text = <<>> <=> m = 0)
      /\ (text # <<>> => text[m] \in Lines)
  OBVIOUS
<1>3. LinesOf!NULL \notin Lines
  BY LineKinds
<1>4. n_ \in Nat /\ (Watched => n_ \in {0, 1} /\ ~opt.to_file)
  <2>1. n_ \in Nat
    BY OptionKinds
  <2> HIDE DEF n_
  <2>2. n_ <= 1 => n_ \in {0, 1}
    BY ONLY <2>1
  <2> QED
    BY <2>1, <2>2, Zenon DEF Watched, n_
<1>5. Watched => IF text = <<>> THEN uniq.last = LinesOf!NULL /\ uniq.first = LinesOf!NULL /\ uniq.c = 1 /\ uniq.out = <<>>
                 ELSE /\ uniq.last = text[m] /\ (uniq.first = LinesOf!NULL <=> uniq.c = 1)
                      /\ G # <<>>
                      /\ G[z] = GroupOf(GroupLine(uniq), uniq.c)
                      /\ uniq.out = LinesOf!Only(SubSeq(G, 1, z - 1), T)
  BY GroupInHandIs
<1>6. LinesOf!GroupInHand' <=>
        (Watched => /\ uniq'.last = y /\ (uniq'.first = LinesOf!NULL <=> uniq'.c = 1)
                    /\ H # <<>>
                    /\ H[Len(H)] = GroupOf(GroupLine(uniq'), uniq'.c)
                    /\ uniq'.out = LinesOf!Only(SubSeq(H, 1, Len(H) - 1), T))
  <2>1. ~eof' /\ opt' = opt /\ text' = u /\ u # <<>> /\ u[Len(u)] = y
    BY <1>2
  <2> HIDE DEF u
  <2> QED
    BY <2>1, GroupInHandNext
<1>7. /\ G \in Seq(R)
      /\ (text = <<>> => G = <<>>)
      /\ (text # <<>> => G # <<>>)
      /\ (text = <<>> \/ KeyOf(y, n_) # KeyOf(text[m], n_) => H = Append(G, GroupOf(y, 1)))
      /\ (text # <<>> /\ KeyOf(y, n_) = KeyOf(text[m], n_) =>
            /\ Len(H) = z /\ (\A k \in 1..(z - 1) : H[k] = G[k])
            /\ H[z] = GroupOf(G[z].line, G[z].c + 1))
  <2>1. text \in Seq(Lines) /\ y \in Lines
    OBVIOUS
  <2>2. Grown(text, y, n_)
    BY ONLY <2>1, GroupsMore
  <2> QED
    BY ONLY <2>2 DEF Grown
<1>8. H \in Seq(R)
  <2>1. u \in Seq(Lines)
    OBVIOUS
  <2> HIDE DEF u
  <2> QED
    BY ONLY <2>1, GroupsAreTyped
<1> HIDE DEF u, m, n_, G, H, z, T
<1>9. CASE uniq.last = LinesOf!NULL
  <2>1. uniq' = [uniq EXCEPT !.last = y]
    BY <1>9 DEF LinesOf!Unique
  <2>2. /\ uniq' \in UniqType /\ uniq'.last = y /\ uniq'.first = uniq.first
        /\ uniq'.c = uniq.c /\ uniq'.out = uniq.out
    BY <2>1 DEF UniqType
  <2>3. ASSUME Watched
        PROVE  /\ (uniq'.first = LinesOf!NULL <=> uniq'.c = 1) /\ H # <<>>
               /\ H[Len(H)] = GroupOf(GroupLine(uniq'), uniq'.c)
               /\ uniq'.out = LinesOf!Only(SubSeq(H, 1, Len(H) - 1), T)
    <3>1. text = <<>>
      BY <1>2, <1>3, <1>5, <1>9, <2>3
    <3>2. uniq.first = LinesOf!NULL /\ uniq.c = 1 /\ uniq.out = <<>>
      BY <1>5, <2>3, <3>1
    <3>3. H = <<GroupOf(y, 1)>>
      BY <1>7, <3>1
    <3>4. Len(H) = 1 /\ H[1] = GroupOf(y, 1) /\ SubSeq(H, 1, 1 - 1) = <<>> /\ H # <<>>
      BY <3>3
    <3>5. GroupLine(uniq') = y
      BY <2>2, <3>2 DEF GroupLine
    <3>6. LinesOf!Only(<<>>, T) = <<>>
      BY LinesOf!OnlyEmpty
    <3> QED
      BY <2>2, <3>2, <3>4, <3>5, <3>6
  <2> QED
    BY <1>6, <2>2, <2>3
<1>10. CASE uniq.last # LinesOf!NULL /\ LinesOf!Duplicate(y, uniq.last)
  <2>1. uniq' = [out |-> uniq.out, first |-> GroupLine(uniq), c |-> uniq.c + 1, last |-> y]
    BY <1>10 DEF LinesOf!Unique, GroupLine
  <2>2. GroupLine(uniq) \in Lines
    BY <1>1, <1>10 DEF GroupLine
  <2>3. uniq' \in UniqType
    <3>1. uniq.c + 1 \in Nat \ {0}
      BY <1>1
    <3> HIDE DEF R
    <3> QED
      BY <1>1, <2>1, <2>2, <3>1 DEF UniqType, R
  <2>4. /\ uniq'.out = uniq.out /\ uniq'.first = GroupLine(uniq) /\ uniq'.c = uniq.c + 1
        /\ uniq'.last = y
    BY <2>1
  <2>5. ASSUME Watched
        PROVE  /\ (uniq'.first = LinesOf!NULL <=> uniq'.c = 1) /\ H # <<>>
               /\ H[Len(H)] = GroupOf(GroupLine(uniq'), uniq'.c)
               /\ uniq'.out = LinesOf!Only(SubSeq(H, 1, Len(H) - 1), T)
    <3>1. text # <<>> /\ uniq.last = text[m]
      BY <1>5, <1>10, <2>5
    <3>2. KeyOf(y, n_) = KeyOf(text[m], n_)
      BY <1>4, <1>10, <2>5, <3>1, DuplicateIs DEF n_
    <3>3. /\ Len(H) = z /\ (\A k \in 1..(z - 1) : H[k] = G[k])
          /\ H[z] = GroupOf(G[z].line, G[z].c + 1)
      BY <1>7, <3>1, <3>2
    <3>4. z \in Nat /\ z # 0 /\ z = Len(G)
      BY <1>7, <3>1 DEF z
    <3>5. H # <<>>
      BY <3>3, <3>4
    <3>6. G[z].line = GroupLine(uniq) /\ G[z].c = uniq.c
      BY <1>5, <2>5, <3>1 DEF GroupOf
    <3>7. GroupLine(uniq') = GroupLine(uniq)
      BY <1>3, <2>2, <2>4 DEF GroupLine
    <3>8. SubSeq(H, 1, z - 1) = SubSeq(G, 1, z - 1)
      <4> DEFINE p == SubSeq(H, 1, z - 1)
                 q == SubSeq(G, 1, z - 1)
                 d == z - 1
      <4>1. d \in Nat /\ d <= Len(G) /\ d <= Len(H)
        BY <3>3, <3>4
      <4> HIDE DEF d, R
      <4>2. SubSeq(H, 1, d) = SubSeq(G, 1, d)
        <5>1. \A k \in 1..d : H[k] = G[k]
          BY <3>3 DEF d
        <5> QED
          <6>1. G \in Seq(R) /\ H \in Seq(R)
              BY <1>7, <1>8
          <6> QED
            BY ONLY <4>1, <5>1, <6>1, SameStart
      <4> QED
        BY <4>2 DEF d
    <3>9. uniq'.first # LinesOf!NULL /\ uniq'.c # 1
      BY <1>1, <1>3, <2>2, <2>4
    <3> QED
      BY <1>5, <2>4, <2>5, <3>1, <3>3, <3>5, <3>6, <3>7, <3>8, <3>9
  <2> QED
    BY <1>6, <2>3, <2>4, <2>5
<1>11. CASE uniq.last # LinesOf!NULL /\ ~LinesOf!Duplicate(y, uniq.last)
  <2>1. uniq' = [out |-> uniq.out \o LinesOf!Show(uniq), first |-> LinesOf!NULL, c |-> 1, last |-> y]
    BY <1>11 DEF LinesOf!Unique, LinesOf!NextGroup
  <2>2. uniq.last \in Lines
    BY <1>1, <1>11
  <2>3. LinesOf!Show(uniq) \in Seq(R)
    BY <1>1, <2>2, ShowIs
  <2>4. uniq' \in UniqType
    <3>1. uniq.out \o LinesOf!Show(uniq) \in Seq(R) /\ 1 \in Nat \ {0}
      BY <1>1, <2>3
    <3> HIDE DEF R
    <3> QED
      BY <2>1, <3>1 DEF UniqType, R
  <2>5. /\ uniq'.out = uniq.out \o LinesOf!Show(uniq) /\ uniq'.first = LinesOf!NULL /\ uniq'.c = 1
        /\ uniq'.last = y
    BY <2>1
  <2>6. ASSUME Watched
        PROVE  /\ H # <<>>
               /\ H[Len(H)] = GroupOf(GroupLine(uniq'), uniq'.c)
               /\ uniq'.out = LinesOf!Only(SubSeq(H, 1, Len(H) - 1), T)
    <3> DEFINE g == GroupOf(GroupLine(uniq), uniq.c)
    <3>1. text # <<>> /\ uniq.last = text[m]
      BY <1>5, <1>11, <2>6
    <3>2. KeyOf(y, n_) # KeyOf(text[m], n_)
      BY <1>4, <1>11, <2>6, <3>1, DuplicateIs DEF n_
    <3>3. H = Append(G, GroupOf(y, 1))
      BY <1>7, <3>1, <3>2
    <3>4. z \in Nat /\ z # 0 /\ z = Len(G) /\ G # <<>>
      BY <1>7, <3>1 DEF z
    <3>5. Len(H) = z + 1 /\ H[z + 1] = GroupOf(y, 1) /\ SubSeq(H, 1, (z + 1) - 1) = G /\ H # <<>>
      BY <1>7, <3>3, <3>4
    <3>6. GroupLine(uniq') = y
      BY <2>5 DEF GroupLine
    <3>7. /\ G[z] = g /\ uniq.out = LinesOf!Only(SubSeq(G, 1, z - 1), T)
          /\ (uniq.first = LinesOf!NULL <=> uniq.c = 1)
      BY <1>5, <2>6, <3>1
    <3>8. LinesOf!Show(uniq) = IF g \in T THEN <<g>> ELSE <<>>
      BY <1>1, <1>4, <2>2, <2>6, <3>7, ShowIs DEF T
    <3> HIDE DEF g, R
    <3>9. LinesOf!Only(G, T) = IF g \in T THEN Append(LinesOf!Only(SubSeq(G, 1, z - 1), T), g)
                         ELSE LinesOf!Only(SubSeq(G, 1, z - 1), T)
      BY <1>7, <3>4, <3>7, AllButLast
    <3>10. uniq.out \o <<g>> = Append(uniq.out, g) /\ uniq.out \o <<>> = uniq.out
      BY <1>1
    <3>11. uniq'.out = LinesOf!Only(G, T)
      BY <2>5, <3>7, <3>8, <3>9, <3>10
    <3> QED
      BY <2>5, <3>5, <3>6, <3>11
  <2> QED
    BY <1>6, <2>4, <2>5, <2>6
<1> QED
  BY <1>9, <1>10, <1>11

LEMMA UniqEnd ==
  ASSUME LinesOf!OptionsAssumption, opt \in Options, text \in Seq(Lines), ~eof, eof' = TRUE,
         uniq \in UniqType, LinesOf!GroupInHand, text' = text, opt' = opt,
         uniq' = IF uniq.last = LinesOf!NULL THEN uniq ELSE [uniq EXCEPT !.out = @ \o LinesOf!Show(uniq)]
  PROVE  uniq' \in UniqType /\ LinesOf!GroupInHand' /\ LinesOf!UniqGroups'
<1> DEFINE m == Len(text)
           n_ == opt.nskip_fields
           R == [line : Lines, c : Nat]
           G == LinesOf!Groups(text, n_)
           z == Len(G)
           T == LinesOf!Chosen
<1>1. /\ uniq.first \in Lines \cup {LinesOf!NULL} /\ uniq.last \in Lines \cup {LinesOf!NULL}
      /\ uniq.c \in Nat \ {0} /\ uniq.out \in Seq(R)
  BY DEF UniqType
<1>2. Watched => IF text = <<>> THEN uniq.last = LinesOf!NULL /\ uniq.first = LinesOf!NULL /\ uniq.c = 1 /\ uniq.out = <<>>
                 ELSE /\ uniq.last = text[m] /\ (uniq.first = LinesOf!NULL <=> uniq.c = 1)
                      /\ G # <<>>
                      /\ G[z] = GroupOf(GroupLine(uniq), uniq.c)
                      /\ uniq.out = LinesOf!Only(SubSeq(G, 1, z - 1), T)
  BY GroupInHandIs
<1>3. LinesOf!GroupInHand'
  BY DEF LinesOf!GroupInHand
<1>4. G \in Seq(R)
  BY GroupsAreTyped
<1>5. LinesOf!UniqGroups' <=> (Watched => uniq'.out = LinesOf!Only(G, T))
  <2>1. LinesOf!Groups(text, opt.nskip_fields)' = G
    BY DEF LinesOf!Groups
  <2>2. LinesOf!Chosen' = T
    BY DEF LinesOf!Chosen
  <2> HIDE DEF G, T
  <2> QED
    BY <2>1, <2>2 DEF LinesOf!UniqGroups, Watched
<1>6. text # <<>> => text[m] \in Lines /\ text[m] # LinesOf!NULL
  BY LineKinds
<1> HIDE DEF m, G, z, T
<1>7. CASE uniq.last = LinesOf!NULL
  <2>1. uniq' = uniq
    BY <1>7
  <2>2. ASSUME Watched PROVE uniq'.out = LinesOf!Only(G, T)
    <3>1. text = <<>>
      BY <1>2, <1>6, <1>7, <2>2
    <3>2. G = <<>>
      BY <3>1, NoGroups DEF G
    <3>3. LinesOf!Only(<<>>, T) = <<>>
      BY LinesOf!OnlyEmpty
    <3> QED
      BY <1>2, <2>1, <2>2, <3>1, <3>2, <3>3
  <2> QED
    BY <1>3, <1>5, <2>1, <2>2
<1>8. CASE uniq.last # LinesOf!NULL
  <2>1. uniq' = [uniq EXCEPT !.out = @ \o LinesOf!Show(uniq)]
    BY <1>8
  <2>2. uniq.last \in Lines
    BY <1>1, <1>8
  <2>3. LinesOf!Show(uniq) \in Seq(R)
    BY <1>1, <2>2, ShowIs
  <2>4. uniq.out \o LinesOf!Show(uniq) \in Seq(R)
    BY <1>1, <2>3
  <2>5. uniq' \in UniqType /\ uniq'.out = uniq.out \o LinesOf!Show(uniq)
    <3> HIDE DEF R
    <3> QED
      BY <2>1, <2>4 DEF UniqType, R
  <2>6. ASSUME Watched PROVE uniq'.out = LinesOf!Only(G, T)
    <3> DEFINE g == GroupOf(GroupLine(uniq), uniq.c)
    <3>1. text # <<>>
      BY <1>2, <1>8, <2>6
    <3>2. /\ G[z] = g /\ uniq.out = LinesOf!Only(SubSeq(G, 1, z - 1), T) /\ G # <<>>
          /\ (uniq.first = LinesOf!NULL <=> uniq.c = 1)
      BY <1>2, <2>6, <3>1
    <3>3. LinesOf!Show(uniq) = IF g \in T THEN <<g>> ELSE <<>>
      BY <1>1, <2>2, <2>6, <3>2, ShowIs DEF T, Watched
    <3> HIDE DEF g, R
    <3>4. LinesOf!Only(G, T) = IF g \in T THEN Append(LinesOf!Only(SubSeq(G, 1, z - 1), T), g)
                         ELSE LinesOf!Only(SubSeq(G, 1, z - 1), T)
      BY <1>4, <3>2, AllButLast DEF z
    <3>5. uniq.out \o <<g>> = Append(uniq.out, g) /\ uniq.out \o <<>> = uniq.out
      BY <1>1
    <3> QED
      BY <2>5, <3>2, <3>3, <3>4, <3>5
  <2> QED
    BY <1>3, <1>5, <2>5, <2>6
<1> QED
  BY <1>7, <1>8

-----------------------------------------------------------------------------
\* The six together.
LEMMA LineInit == ASSUME LinesOf!OptionsAssumption, LinesOf!Init PROVE LinesOf!IInv
<1>1. /\ text = <<>> /\ eof = FALSE /\ opt \in Options
      /\ uniq = [first |-> LinesOf!NULL, last |-> LinesOf!NULL, c |-> 1, out |-> <<>>]
      /\ tail = [buf |-> [k \in 0..opt.tail_n - 1 |-> LinesOf!NULL], i |-> 0]
      /\ nl = [lineno |-> 1, out |-> <<>>]
      /\ more = [lineno |-> 0, out |-> <<>>, quit |-> FALSE]
      /\ mismatch = [x |-> 0, g |-> FALSE, out |-> <<>>]
  BY DEF LinesOf!Init
<1>2. /\ opt.tail_n \in Nat /\ opt.rows \in Nat
      /\ LinesOf!Held \in Seq(Seq(Nat)) /\ Len(LinesOf!Held) \in Nat
  BY <1>1, OptionKinds
<1>3. /\ tail.i = 0 /\ tail.buf = [k \in 0..opt.tail_n - 1 |-> LinesOf!NULL]
      /\ mismatch.x = 0 /\ mismatch.g = FALSE /\ mismatch.out = <<>>
      /\ nl.lineno = 1 /\ nl.out = <<>> /\ more.lineno = 0 /\ more.out = <<>>
      /\ uniq.first = LinesOf!NULL /\ uniq.last = LinesOf!NULL /\ uniq.c = 1 /\ uniq.out = <<>>
  BY <1>1
<1>4. \A T : LinesOf!Only(<<>>, T) = <<>>
  BY LinesOf!OnlyEmpty
<1>5. LinesOf!TypeOK
  <2>1. <<>> \in Seq(Lines) /\ FALSE \in BOOLEAN
    OBVIOUS
  <2>2. opt.tail_n > 0 => tail.i \in DOMAIN tail.buf
    BY <1>2, <1>3
  <2>3. mismatch.x \in 0..Len(LinesOf!Held)
    BY <1>2, <1>3
  <2> QED
    BY <1>1, <2>1, <2>2, <2>3 DEF LinesOf!TypeOK
<1>6. LinesOf!Typed
  <2>1. uniq \in UniqType
    <3> DEFINE null == LinesOf!NULL
    <3>1. uniq = [first |-> null, last |-> null, c |-> 1, out |-> <<>>]
      BY <1>1
    <3> HIDE DEF null
    <3> QED
      BY <3>1 DEF UniqType, null
  <2>2. tail \in TailType
    <3> DEFINE null == LinesOf!NULL
               b == [k \in 0..opt.tail_n - 1 |-> null]
    <3>1. tail = [buf |-> b, i |-> 0]
      BY <1>1, <1>2
    <3>2. b \in [0..opt.tail_n - 1 -> Lines \cup {null}]
      OBVIOUS
    <3> HIDE DEF b, null
    <3>3. tail \in [buf : [0..opt.tail_n - 1 -> Lines \cup {null}], i : Nat]
      BY <3>1, <3>2
    <3> QED
      BY <3>3 DEF null, TailType
  <2>3. nl \in [lineno : Nat, out : Seq(Nat \X Lines)]
    BY <1>1
  <2>4. more \in [lineno : Nat, out : Seq(Lines \cup {LinesOf!PAUSE}), quit : BOOLEAN]
    BY <1>1
  <2>5. mismatch \in [x : Nat, g : BOOLEAN, out : Seq(Lines)]
    BY <1>1
  <2>6. ~eof
    BY <1>1
  <2> QED
    BY <2>1, <2>2, <2>3, <2>4, <2>5, <2>6 DEF LinesOf!Typed, UniqType, TailType
<1>7. LinesOf!UniqGroups /\ LinesOf!TailLines
  BY <1>1 DEF LinesOf!UniqGroups, LinesOf!TailLines
<1>8. [k \in DOMAIN nl.out |-> nl.out[k][1]] = <<>>
  BY <1>3
<1>9. LinesOf!NlConsecutive
  <2>1. LinesOf!Only([k \in DOMAIN nl.out |-> nl.out[k][1]], Nat \ {0}) = <<>>
    BY <1>4, <1>8
  <2>2. <<>> = [k \in DOMAIN <<>> |-> k]
    OBVIOUS
  <2> QED
    BY ONLY <2>1, <2>2, Zenon DEF LinesOf!NlConsecutive
<1>10. LinesOf!NlCounts
  BY <1>3, <1>4, <1>8 DEF LinesOf!NlCounts
<1>11. LinesOf!MorePages
  <2>1. Len(more.out) = 0 /\ (opt.rows >= 3 => opt.rows..0 = {})
    BY <1>2, <1>3
  <2> QED
    BY <2>1 DEF LinesOf!MorePages, LinesOf!Screenful
<1>12. LinesOf!SincePause
  <2>1. Len(more.out) = 0 /\ 0 \in 0..0
    BY <1>3
  <2> QED
    BY <1>2, <1>3, <2>1 DEF LinesOf!SincePause
<1>13. LinesOf!MismatchFinds
  BY <1>1, <1>3, <1>4 DEF LinesOf!MismatchFinds, LinesOf!Unmatched
<1>14. LinesOf!Passed
  <2>1. text = <<>> /\ 0 \in 0..Len(LinesOf!Held)
    BY <1>1, <1>2
  <2> QED
    BY <1>3, <2>1 DEF LinesOf!Passed
<1>15. LinesOf!GroupInHand
  BY <1>1, <1>3 DEF LinesOf!GroupInHand
<1>16. LinesOf!Ring
  <2>1. Len(text) = 0 /\ tail.i = 0
    BY <1>1, <1>3
  <2>2. ASSUME NEW x_ \in 0..opt.tail_n - 1 PROVE tail.buf[x_] = LinesOf!NULL /\ ~(LinesOf!Age(x_) <= Len(text))
    <3>1. LinesOf!Age(x_) = 0 - x_ + opt.tail_n
      BY <1>2, <2>1 DEF LinesOf!Age
    <3> QED
      BY <1>2, <1>3, <2>1, <3>1
  <2> QED
    BY <2>1, <2>2 DEF LinesOf!Ring
<1> QED
  BY <1>5, <1>6, <1>7, <1>9, <1>10, <1>11, <1>12, <1>13, <1>14, <1>15, <1>16 DEF LinesOf!IInv

LEMMA LineKnown ==
  ASSUME LinesOf!IInv
  PROVE  /\ text \in Seq(Lines) /\ eof \in BOOLEAN /\ opt \in Options /\ mismatch.x \in 0..Len(LinesOf!Held)
         /\ uniq \in UniqType
         /\ (~eof => tail \in TailType /\ SlotKnown)
         /\ nl \in [lineno : Nat, out : Seq(Nat \X Lines)]
         /\ more \in [lineno : Nat, out : Seq(Lines \cup {LinesOf!PAUSE}), quit : BOOLEAN]
         /\ mismatch \in [x : Nat, g : BOOLEAN, out : Seq(Lines)]
         /\ LinesOf!UniqGroups /\ LinesOf!TailLines /\ LinesOf!NlConsecutive /\ LinesOf!MorePages /\ LinesOf!MismatchFinds
         /\ LinesOf!GroupInHand /\ LinesOf!Ring /\ LinesOf!NlCounts /\ LinesOf!SincePause /\ LinesOf!Passed
<1>1. LinesOf!TypeOK /\ LinesOf!Typed
  BY DEF LinesOf!IInv
<1>2. /\ LinesOf!UniqGroups /\ LinesOf!TailLines /\ LinesOf!NlConsecutive /\ LinesOf!MorePages /\ LinesOf!MismatchFinds
      /\ LinesOf!GroupInHand /\ LinesOf!Ring /\ LinesOf!NlCounts /\ LinesOf!SincePause /\ LinesOf!Passed
  BY DEF LinesOf!IInv
<1>3. text \in Seq(Lines) /\ eof \in BOOLEAN /\ opt \in Options /\ mismatch.x \in 0..Len(LinesOf!Held)
  BY <1>1 DEF LinesOf!TypeOK
<1>4. /\ uniq \in UniqType
      /\ (~eof => tail \in TailType)
      /\ nl \in [lineno : Nat, out : Seq(Nat \X Lines)]
      /\ more \in [lineno : Nat, out : Seq(Lines \cup {LinesOf!PAUSE}), quit : BOOLEAN]
      /\ mismatch \in [x : Nat, g : BOOLEAN, out : Seq(Lines)]
  BY <1>1 DEF LinesOf!Typed, UniqType, TailType
<1>5. ~eof => SlotKnown
  <2> SUFFICES ASSUME ~eof, opt.tail_n > 0 PROVE tail.i \in 0..opt.tail_n - 1
    BY DEF SlotKnown
  <2>1. tail.i \in DOMAIN tail.buf /\ tail.buf \in [0..opt.tail_n - 1 -> Lines \cup {LinesOf!NULL}]
    BY <1>1, <1>4 DEF LinesOf!TypeOK, TailType
  <2> QED
    BY <2>1
<1> QED
  BY <1>2, <1>3, <1>4, <1>5

LEMMA LineGetline == ASSUME LinesOf!OptionsAssumption, LinesOf!IInv, LinesOf!Getline PROVE LinesOf!IInv'
<1>0. LinesOf!OptionsAssumption
  OBVIOUS
<1>1. PICK y \in Lines, key \in {"q", "other"} :
        /\ ~eof /\ text' = Append(text, y) /\ eof' = eof /\ opt' = opt
        /\ uniq' = LinesOf!Unique(uniq, y) /\ tail' = LinesOf!TailLine(tail, y) /\ nl' = LinesOf!Nl(nl, y)
        /\ more' = LinesOf!More(more, y, key) /\ mismatch' = LinesOf!Mismatch(mismatch, y)
  BY DEF LinesOf!Getline
<1>2. /\ text \in Seq(Lines) /\ eof \in BOOLEAN /\ opt \in Options
      /\ uniq \in UniqType
      /\ tail \in TailType /\ SlotKnown
      /\ nl \in [lineno : Nat, out : Seq(Nat \X Lines)]
      /\ more \in [lineno : Nat, out : Seq(Lines \cup {LinesOf!PAUSE}), quit : BOOLEAN]
      /\ mismatch \in [x : Nat, g : BOOLEAN, out : Seq(Lines)]
      /\ LinesOf!NlConsecutive /\ LinesOf!MorePages /\ LinesOf!MismatchFinds
      /\ LinesOf!GroupInHand /\ LinesOf!Ring /\ LinesOf!NlCounts /\ LinesOf!SincePause /\ LinesOf!Passed
  BY <1>1, LineKnown
<1>3. uniq' \in UniqType /\ LinesOf!GroupInHand'
  BY ONLY <1>0, <1>1, <1>2, UniqGetline
<1>4. tail' \in TailType /\ SlotKnown' /\ LinesOf!Ring'
  BY ONLY <1>0, <1>1, <1>2, TailGetline
<1>5. nl' \in [lineno : Nat, out : Seq(Nat \X Lines)] /\ LinesOf!NlCounts' /\ LinesOf!NlConsecutive'
  BY ONLY <1>0, <1>1, <1>2, NlGetline
<1>6. /\ more' \in [lineno : Nat, out : Seq(Lines \cup {LinesOf!PAUSE}), quit : BOOLEAN]
      /\ LinesOf!SincePause' /\ LinesOf!MorePages'
  BY ONLY <1>0, <1>1, <1>2, MoreGetline
<1>7. /\ mismatch' \in [x : Nat, g : BOOLEAN, out : Seq(Lines)]
      /\ mismatch'.x \in 0..Len(LinesOf!Held) /\ LinesOf!Passed' /\ LinesOf!MismatchFinds'
  BY ONLY <1>0, <1>1, <1>2, MismatchGetline
<1>8. LinesOf!Typed'
  <2>1. ~eof' /\ opt' = opt
    BY <1>1
  <2> QED
    BY ONLY <1>3, <1>4, <1>5, <1>6, <1>7, <2>1 DEF LinesOf!Typed, UniqType, TailType
<1>9. LinesOf!TypeOK'
  <2>1. text' \in Seq(Lines) /\ eof' \in BOOLEAN /\ opt' \in Options
    BY <1>1, <1>2
  <2>2. opt'.tail_n > 0 => tail'.i \in DOMAIN tail'.buf
    BY <1>1, <1>4 DEF TailType, SlotKnown
  <2>3. LinesOf!Held' = LinesOf!Held
    BY <1>1 DEF LinesOf!Held
  <2>4. mismatch'.x \in 0..Len(LinesOf!Held')
    BY <1>7, <2>3
  <2> QED
    BY <2>1, <2>2, <2>4 DEF LinesOf!TypeOK
<1>10. LinesOf!UniqGroups' /\ LinesOf!TailLines'
  BY <1>1 DEF LinesOf!UniqGroups, LinesOf!TailLines
<1> QED
  BY <1>3, <1>4, <1>5, <1>6, <1>7, <1>8, <1>9, <1>10 DEF LinesOf!IInv

\* What does not change is as it was.
LEMMA LineKept ==
  ASSUME LinesOf!IInv, opt' = opt, text' = text
  PROVE  /\ nl' = nl => LinesOf!NlConsecutive' /\ LinesOf!NlCounts'
         /\ more' = more => LinesOf!MorePages' /\ LinesOf!SincePause'
         /\ mismatch' = mismatch => LinesOf!MismatchFinds' /\ LinesOf!Passed'
<1>1. /\ LinesOf!NlConsecutive /\ LinesOf!MorePages /\ LinesOf!MismatchFinds
      /\ LinesOf!NlCounts /\ LinesOf!SincePause /\ LinesOf!Passed
  BY LineKnown
<1>2. ASSUME nl' = nl PROVE LinesOf!NlConsecutive' /\ LinesOf!NlCounts'
  BY <1>1, <1>2 DEF LinesOf!NlConsecutive, LinesOf!NlCounts
<1>3. ASSUME more' = more PROVE LinesOf!MorePages' /\ LinesOf!SincePause'
  BY <1>1, <1>3 DEF LinesOf!MorePages, LinesOf!Screenful, LinesOf!SincePause
<1>4. ASSUME mismatch' = mismatch PROVE LinesOf!MismatchFinds' /\ LinesOf!Passed'
  <2>1. LinesOf!MismatchFinds'
    BY <1>1, <1>4 DEF LinesOf!MismatchFinds, LinesOf!Unmatched, LinesOf!Held
  <2>2. LinesOf!Passed'
    BY <1>1, <1>4 DEF LinesOf!Passed, LinesOf!Held
  <2> QED
    BY <2>1, <2>2
<1> QED
  BY <1>2, <1>3, <1>4

LEMMA LineEnd == ASSUME LinesOf!OptionsAssumption, LinesOf!IInv, LinesOf!EndOfInput PROVE LinesOf!IInv'
<1>0. LinesOf!OptionsAssumption
  OBVIOUS
<1>1. /\ ~eof /\ eof' = TRUE
      /\ uniq' = IF uniq.last = LinesOf!NULL THEN uniq ELSE [uniq EXCEPT !.out = @ \o LinesOf!Show(uniq)]
      /\ tail' = [out |-> LinesOf!TailShow(tail)]
      /\ text' = text /\ opt' = opt /\ nl' = nl /\ more' = more /\ mismatch' = mismatch
  BY DEF LinesOf!EndOfInput
<1>2. /\ text \in Seq(Lines) /\ opt \in Options /\ mismatch.x \in 0..Len(LinesOf!Held)
      /\ uniq \in UniqType
      /\ tail \in TailType /\ SlotKnown
      /\ nl \in [lineno : Nat, out : Seq(Nat \X Lines)]
      /\ more \in [lineno : Nat, out : Seq(Lines \cup {LinesOf!PAUSE}), quit : BOOLEAN]
      /\ mismatch \in [x : Nat, g : BOOLEAN, out : Seq(Lines)]
      /\ LinesOf!GroupInHand /\ LinesOf!Ring
  BY <1>1, LineKnown
<1>3. uniq' \in UniqType /\ LinesOf!GroupInHand' /\ LinesOf!UniqGroups'
  BY ONLY <1>0, <1>1, <1>2, UniqEnd
<1>4. tail' \in [out : Seq(Lines \cup {LinesOf!NULL, LinesOf!JUNK})] /\ LinesOf!Ring' /\ LinesOf!TailLines'
  BY ONLY <1>0, <1>1, <1>2, TailEnd
<1>5. /\ LinesOf!NlConsecutive' /\ LinesOf!NlCounts' /\ LinesOf!MorePages' /\ LinesOf!SincePause'
      /\ LinesOf!MismatchFinds' /\ LinesOf!Passed'
  BY <1>1, LineKept
<1>6. LinesOf!Typed'
  BY ONLY <1>1, <1>2, <1>3, <1>4 DEF LinesOf!Typed, UniqType
<1>7. LinesOf!TypeOK'
  <2>0. LinesOf!Held' = LinesOf!Held
    BY <1>1 DEF LinesOf!Held
  <2>1. text' \in Seq(Lines) /\ eof' \in BOOLEAN /\ opt' \in Options /\ mismatch'.x \in 0..Len(LinesOf!Held')
    BY <1>1, <1>2, <2>0
  <2> QED
    BY <1>1, <2>1 DEF LinesOf!TypeOK
<1> QED
  BY <1>3, <1>4, <1>5, <1>6, <1>7 DEF LinesOf!IInv

LEMMA LineStays == ASSUME LinesOf!IInv, UNCHANGED LinesOf!vars PROVE LinesOf!IInv'
<1>1. UNCHANGED <<text, eof, opt, uniq, tail, tac, nl, more, mismatch>>
  BY DEF LinesOf!vars
<1>2. LinesOf!TypeOK /\ LinesOf!Typed /\ LinesOf!UniqGroups /\ LinesOf!TailLines /\ LinesOf!GroupInHand /\ LinesOf!Ring
  BY DEF LinesOf!IInv
<1>3. LinesOf!TypeOK' /\ LinesOf!Typed'
  BY <1>1, <1>2 DEF LinesOf!TypeOK, LinesOf!Typed, LinesOf!Held
<1>4. /\ LinesOf!NlConsecutive' /\ LinesOf!NlCounts' /\ LinesOf!MorePages' /\ LinesOf!SincePause'
      /\ LinesOf!MismatchFinds' /\ LinesOf!Passed'
  BY <1>1, LineKept
<1>5. LinesOf!Groups(text, opt.nskip_fields)' = LinesOf!Groups(text, opt.nskip_fields) /\ LinesOf!Chosen' = LinesOf!Chosen
  <2>1. LinesOf!Groups(text, opt.nskip_fields)' = LinesOf!Groups(text, opt.nskip_fields)
    BY <1>1 DEF LinesOf!Groups
  <2>2. LinesOf!Chosen' = LinesOf!Chosen
    BY <1>1 DEF LinesOf!Chosen
  <2> QED
    BY <2>1, <2>2
<1>6. LinesOf!UniqGroups' /\ LinesOf!TailLines'
  <2>1. LinesOf!UniqGroups'
    BY <1>1, <1>2, <1>5 DEF LinesOf!UniqGroups
  <2>2. LinesOf!TailLines'
    BY ONLY <1>1, <1>2, Zenon DEF LinesOf!TailLines
  <2> QED
    BY <2>1, <2>2
<1>7. LinesOf!GroupInHand'
  BY <1>1, <1>2, <1>5 DEF LinesOf!GroupInHand
<1>8. LinesOf!Ring'
  BY <1>1, <1>2 DEF LinesOf!Ring, LinesOf!Age
<1> QED
  BY <1>3, <1>4, <1>6, <1>7, <1>8 DEF LinesOf!IInv

LEMMA LineNext == ASSUME LinesOf!OptionsAssumption, LinesOf!IInv, LinesOf!Next PROVE LinesOf!IInv'
<1>1. CASE LinesOf!Done
  BY <1>1, LineStays DEF LinesOf!Done
<1> QED
  BY <1>1, LineGetline, LineEnd DEF LinesOf!Next

-----------------------------------------------------------------------------
(* hexdump *)

LEMMA LeastOfTwo == ASSUME NEW a \in Nat, NEW b \in Nat PROVE WordsOf!Min({a, b}) = IF a <= b THEN a ELSE b
BY DEF WordsOf!Min

LEMMA DumpKinds ==
  ASSUME WordsOf!Begun, prog = "hexdump"
  PROVE  text \in Seq(Nat) /\ Len(text) \in Nat /\ Piece \in Nat \ {0}
<1>1. text \in Seq(Nat) /\ Piece \in Nat \ {0}
  BY WordsAssumed DEF WordsOf!WordAssumption, WordsOf!Begun
<1> QED
  BY <1>1

DumpInv == at \in 0..Len(text) /\ buf = at /\ WordsOf!HexdumpShows /\ WordsOf!PiecesShown

LEMMA DumpInit == ASSUME WordsOf!Init, WordsOf!Begun, prog = "hexdump" PROVE DumpInv
<1>1. text \in Dumps /\ at = 0 /\ out = <<>> /\ buf = 0 /\ pc = "main"
  BY DEF WordsOf!Init
<1>2. Len(text) \in Nat /\ Piece \in Nat /\ Len(out) = 0 /\ Piece * 0 = 0
  BY <1>1, DumpKinds
<1>3. out \in Seq([addr : Nat, bytes : [1..Piece -> Nat]])
  BY <1>1
<1>4. WordsOf!HexdumpShows
  BY <1>1, <1>2 DEF WordsOf!HexdumpShows
<1>5. WordsOf!PiecesShown
  BY <1>1, <1>2, <1>3 DEF WordsOf!PiecesShown
<1> QED
  BY <1>1, <1>2, <1>4, <1>5 DEF DumpInv

\* The byte of a piece that stands at place k, and a piece more.
LEMMA PlaceInPiece ==
  ASSUME NEW d \in Nat \ {0}, NEW m \in Nat, NEW k \in Nat \ {0}, k <= d * m
  PROVE  (k - 1) \div d \in Nat /\ (k - 1) % d \in Nat /\ (k - 1) % d < d /\ (k - 1) \div d < m
<1> DEFINE x == k - 1
           q == x \div d
           r == x % d
<1>1. x \in Nat /\ x < d * m
  <2>1. d * m \in Nat
    OBVIOUS
  <2> QED
    BY <2>1
<1> HIDE DEF x
<1>2. q \in Nat /\ r \in Nat /\ r < d /\ x = d * q + r
  BY <1>1, Divided
<1> HIDE DEF q, r
<1>3. ASSUME q >= m PROVE FALSE
  <2>1. q - m \in Nat /\ q = m + (q - m)
    BY <1>2, <1>3
  <2>2. PICK z \in Nat : q = m + z
    BY <2>1
  <2>3. d * q = d * m + d * z /\ d * z \in Nat /\ d * m \in Nat
    BY <2>2
  <2> QED
    BY <1>1, <1>2, <2>3
<1> QED
  BY <1>2, <1>3 DEF q, r, x

LEMMA PieceMore ==
  ASSUME NEW d \in Nat \ {0}, NEW m \in Nat, NEW j \in 1..d
  PROVE  ((d * m + j) - 1) \div d = m /\ ((d * m + j) - 1) % d = j - 1
<1> DEFINE x == (d * m + j) - 1
           r == j - 1
<1>1. d * m \in Nat /\ r \in Nat /\ r < d
  OBVIOUS
<1>2. x \in Nat /\ x = d * m + r
  BY <1>1
<1> HIDE DEF x, r
<1>3. x \div d = m /\ x % d = r
  BY <1>1, <1>2, DividedUniquely
<1> QED
  BY <1>3 DEF x, r

LEMMA DumpStep == ASSUME WordsOf!Begun, DumpInv, prog = "hexdump", WordsOf!Hexdump PROVE DumpInv'
<1> DEFINE m == Len(out)
           n == Len(text)
           e == WordsOf!Min({at + Piece, Len(text)})
           bytes == SubSeq(text, at + 1, WordsOf!Min({at + Piece, Len(text)}))
           shown == [addr |-> buf, bytes |-> [k \in 1..Piece |-> IF k <= Len(bytes) THEN bytes[k] ELSE 0]]
           Rec == [addr : Nat, bytes : [1..Piece -> Nat]]
<1>1. text \in Seq(Nat) /\ n \in Nat /\ Piece \in Nat \ {0} /\ at \in 0..n /\ buf = at /\ out \in Seq(Rec) /\ m \in Nat
      /\ Piece * m \in Nat
  <2>1. text \in Seq(Nat) /\ n \in Nat /\ Piece \in Nat \ {0} /\ at \in 0..n /\ buf = at
    BY DumpKinds DEF DumpInv
  <2>2. out \in Seq(Rec)
    BY DEF DumpInv, WordsOf!PiecesShown
  <2>3. m \in Nat
    BY <2>2
  <2> QED
    BY <2>1, <2>2, <2>3, TimesNat
<1>2. at <= Piece * m /\ (at = Piece * m \/ at = n)
  BY DEF DumpInv, WordsOf!PiecesShown
<1>3. /\ \A k \in 1..m : out[k].addr = (k - 1) * Piece
      /\ \A k \in 1..(Piece * m) :
           out[((k - 1) \div Piece) + 1].bytes[((k - 1) % Piece) + 1] = IF k <= at THEN text[k] ELSE 0
  BY DEF DumpInv, WordsOf!HexdumpShows
<1>4. prog' = "hexdump" /\ text' = text
  BY DEF WordsOf!Hexdump
<1>5. IF bytes = <<>> THEN pc' = "done" /\ UNCHANGED <<at, buf, out>>
      ELSE at' = at + Len(bytes) /\ buf' = buf + Len(bytes) /\ out' = Append(out, shown)
  BY DEF WordsOf!Hexdump
<1>6. e \in Nat /\ e = IF at + Piece <= n THEN at + Piece ELSE n
  <2> DEFINE a_ == at + Piece
  <2>1. a_ \in Nat
    BY <1>1
  <2> HIDE DEF a_
  <2>2. WordsOf!Min({a_, n}) = IF a_ <= n THEN a_ ELSE n
    BY <1>1, <2>1, LeastOfTwo
  <2>3. e = WordsOf!Min({a_, n})
    BY DEF a_
  <2> HIDE DEF e, n
  <2>4. e = IF a_ <= n THEN a_ ELSE n
    BY <2>2, <2>3
  <2> QED
    BY <1>1, <2>1, <2>4 DEF a_
<1>7. Len(bytes) = e - at /\ bytes \in Seq(Nat) /\ \A k \in 1..(e - at) : bytes[k] = text[at + k]
  <2>1. e - at \in Nat /\ at + (e - at) = e /\ at + (e - at) <= n
    BY <1>1, <1>6
  <2> DEFINE g_ == e - at
             s_ == SubSeq(text, at + 1, e)
  <2>2. s_ \in Seq(Nat) /\ Len(s_) = g_ /\ \A k \in 1..g_ : s_[k] = text[at + k]
    <3> HIDE DEF e, g_
    <3>1. at \in Nat /\ g_ \in Nat /\ at + g_ = e /\ at + g_ <= Len(text)
      BY <1>1, <2>1 DEF g_
    <3>2. SubSeq(text, at + 1, at + g_) \in Seq(Nat) /\ Len(SubSeq(text, at + 1, at + g_)) = g_
          /\ \A k \in 1..g_ : SubSeq(text, at + 1, at + g_)[k] = text[at + k]
      BY <1>1, <3>1, Excerpt
    <3> QED
      BY <3>1, <3>2
  <2> QED
    BY <2>2
<1> HIDE DEF bytes
<1>8. CASE bytes = <<>>
  <2>1. UNCHANGED <<at, buf, out>>
    BY <1>5, <1>8
  <2>2. WordsOf!HexdumpShows' /\ WordsOf!PiecesShown'
    BY <1>1, <1>2, <1>3, <1>4, <2>1 DEF WordsOf!HexdumpShows, WordsOf!PiecesShown
  <2> QED
    BY <1>1, <1>4, <2>1, <2>2 DEF DumpInv
<1>9. CASE bytes # <<>>
  <2> DEFINE b_ == Len(bytes)
  <2>1. at < n /\ at = Piece * m /\ b_ \in 1..Piece /\ at' = at + b_ /\ buf' = at' /\ e = at' /\ at' <= n
    <3>1. b_ # 0
      BY <1>7, <1>9
    <3> DEFINE c_ == Piece * m
    <3>2. at = c_ \/ at = n
      BY <1>2
    <3> HIDE DEF e, c_
    <3>3. at < n /\ at < e /\ b_ = e - at /\ b_ <= Piece
      BY <1>1, <1>6, <1>7, <3>1
    <3>4. at' = at + b_ /\ buf' = buf + b_
      BY <1>5, <1>9
    <3>5. at = c_
      BY <1>1, <3>2, <3>3
    <3>6. b_ \in 1..Piece /\ at' = e /\ buf' = at' /\ at' <= n
      BY <1>1, <1>6, <3>3, <3>4
    <3> QED
      BY <3>3, <3>4, <3>5, <3>6 DEF c_
  <2>2. (at' = at + Piece \/ at' = n) /\ at' <= at + Piece
    BY <1>1, <1>6, <2>1
  <2>3. shown \in Rec /\ shown.addr = at /\ \A j \in 1..Piece : shown.bytes[j] = IF at + j <= at' THEN text[at + j] ELSE 0
    <3>1. ASSUME NEW j \in 1..Piece
          PROVE  /\ (IF j <= Len(bytes) THEN bytes[j] ELSE 0) = IF at + j <= at' THEN text[at + j] ELSE 0
                 /\ (IF j <= Len(bytes) THEN bytes[j] ELSE 0) \in Nat
      <4>1. j <= Len(bytes) <=> at + j <= at'
        <5> HIDE DEF e
        <5> QED
          BY <1>1, <1>7, <2>1
      <4>2. CASE j <= Len(bytes)
        <5>1. j \in 1..(e - at) /\ j \in 1..Len(bytes)
          BY <1>1, <1>7, <4>2
        <5>2. bytes[j] = text[at + j] /\ bytes[j] \in Nat
          <6> HIDE DEF e
          <6> QED
            BY <1>7, <5>1
        <5> QED
          BY <4>1, <4>2, <5>2
      <4>3. CASE ~(j <= Len(bytes))
        BY <4>1, <4>3
      <4> QED
        BY <4>2, <4>3
    <3> DEFINE g_ == [k \in 1..Piece |-> IF k <= Len(bytes) THEN bytes[k] ELSE 0]
    <3>2. g_ \in [1..Piece -> Nat] /\ \A j \in 1..Piece : g_[j] = IF at + j <= at' THEN text[at + j] ELSE 0
      BY <3>1
    <3> HIDE DEF g_
    <3>3. shown = [addr |-> buf, bytes |-> g_]
      BY DEF g_
    <3>4. buf \in Nat /\ buf = at
      BY <1>1
    <3> DEFINE r_ == [addr |-> buf, bytes |-> g_]
    <3>5. r_ \in Rec /\ r_.addr = at /\ r_.bytes = g_
      BY ONLY <3>2, <3>4 DEF Rec
    <3> HIDE DEF r_, shown
    <3>6. shown = r_
      BY <3>3 DEF r_
    <3> QED
      BY <3>2, <3>5, <3>6
  <2>4. out' = Append(out, shown)
    BY <1>5, <1>9
  <2> HIDE DEF shown, e, Rec, b_
  <2>5. out' \in Seq(Rec) /\ Len(out') = m + 1 /\ out'[m + 1] = shown /\ \A k \in 1..m : out'[k] = out[k]
    BY <1>1, <2>3, <2>4, OneMore
  <2>6. Piece * (m + 1) = Piece * m + Piece /\ Piece * Len(out') = at + Piece
    <3>1. Piece * (m + 1) = Piece * m + Piece
      BY <1>1
    <3> QED
      BY <2>1, <2>5, <3>1
  <2>7. WordsOf!PiecesShown'
    BY <1>4, <2>1, <2>2, <2>5, <2>6 DEF WordsOf!PiecesShown, Rec
  <2>8. ASSUME NEW k \in 1..Len(out') PROVE out'[k].addr = (k - 1) * Piece
    <3>1. CASE k = m + 1
      <4>1. (k - 1) * Piece = Piece * m
        BY <1>1, <3>1
      <4> QED
        BY <2>1, <2>3, <2>5, <3>1, <4>1
    <3>2. CASE k \in 1..m
      BY <1>3, <2>5, <3>2
    <3> QED
      BY <1>1, <2>5, <3>1, <3>2
  <2>9. ASSUME NEW k \in 1..(Piece * Len(out'))
        PROVE  out'[((k - 1) \div Piece) + 1].bytes[((k - 1) % Piece) + 1] = IF k <= at' THEN text[k] ELSE 0
    <3>0. k \in Nat \ {0} /\ k <= at + Piece
      BY <1>1, <2>6
    <3>1. CASE k <= Piece * m
      <4>1. (k - 1) \div Piece \in Nat /\ (k - 1) \div Piece < m
        BY <1>1, <3>0, <3>1, PlaceInPiece
      <4>2. (k - 1) \div Piece + 1 \in 1..m
        BY <1>1, <4>1
      <4>3. out'[((k - 1) \div Piece) + 1] = out[((k - 1) \div Piece) + 1]
        BY <2>5, <4>2
      <4>4. k \in 1..(Piece * m) /\ k <= at /\ k <= at'
        BY <1>1, <2>1, <3>0, <3>1
      <4>5. out[((k - 1) \div Piece) + 1].bytes[((k - 1) % Piece) + 1] = IF k <= at THEN text[k] ELSE 0
        BY <1>3, <4>4
      <4> QED
        BY <4>3, <4>4, <4>5
    <3>2. CASE ~(k <= Piece * m)
      <4> DEFINE j == k - at
      <4>1. j \in 1..Piece /\ k = at + j /\ k = Piece * m + j
        BY <1>1, <2>1, <3>0, <3>2
      <4> HIDE DEF j
      <4>2. ((Piece * m + j) - 1) \div Piece = m /\ ((Piece * m + j) - 1) % Piece = j - 1
        BY <1>1, <4>1, PieceMore
      <4>3. j - 1 + 1 = j /\ (k - 1) \div Piece = m /\ (k - 1) % Piece = j - 1
        BY <4>1, <4>2
      <4>4. out'[((k - 1) \div Piece) + 1].bytes[((k - 1) % Piece) + 1] = shown.bytes[j]
        BY <2>5, <4>3
      <4>5. shown.bytes[j] = IF at + j <= at' THEN text[at + j] ELSE 0
        BY <2>3, <4>1
      <4> QED
        BY <4>1, <4>4, <4>5
    <3> QED
      BY <3>1, <3>2
  <2>10. WordsOf!HexdumpShows'
    BY <1>4, <2>8, <2>9 DEF WordsOf!HexdumpShows
  <2> QED
    BY <1>1, <1>4, <2>1, <2>7, <2>10 DEF DumpInv
<1> QED
  BY <1>8, <1>9

-----------------------------------------------------------------------------
(* litc *)

LitLine == [lead : {"none", "spaces", "tab", "fence"}, rest : STRING]

LEMMA LitKinds == ASSUME WordsOf!Begun, prog = "litc" PROVE text \in Seq(LitLine) /\ Len(text) \in Nat
<1>1. text \in Seq(LitLine)
  BY WordsAssumed DEF WordsOf!WordAssumption, WordsOf!Begun, LitLine
<1> QED
  BY <1>1

\* How many of the first n lines are fences.
FencesTo(s, n) == WordsOf!Cardinality({x \in 1..n : WordsOf!Fence(s[x])})

LEMMA FencesNone == ASSUME NEW s PROVE FencesTo(s, 0) = 0
<1>1. {x \in 1..0 : WordsOf!Fence(s[x])} = {}
  OBVIOUS
<1> QED
  BY <1>1, WordsOf!FS_EmptySet DEF FencesTo

LEMMA FencesMore ==
  ASSUME NEW s, NEW n \in Nat
  PROVE  /\ FencesTo(s, n) \in Nat
         /\ FencesTo(s, n + 1) = IF WordsOf!Fence(s[n + 1]) THEN FencesTo(s, n) + 1 ELSE FencesTo(s, n)
<1> DEFINE S == {x \in 1..n : WordsOf!Fence(s[x])}
           R == {x \in 1..(n + 1) : WordsOf!Fence(s[x])}
<1>1. WordsOf!IsFiniteSet(1..n)
  BY WordsOf!FS_Interval
<1>2. WordsOf!IsFiniteSet(S)
  <2>1. S \subseteq 1..n
    OBVIOUS
  <2> HIDE DEF S
  <2> QED
    BY <1>1, <2>1, WordsOf!FS_Subset
<1>3. WordsOf!Cardinality(S) \in Nat
  BY <1>2, WordsOf!FS_CardinalityType
<1>4. CASE WordsOf!Fence(s[n + 1])
  <2>1. R = S \cup {n + 1} /\ n + 1 \notin S
    BY <1>4
  <2> HIDE DEF R, S
  <2>2. WordsOf!Cardinality(R) = WordsOf!Cardinality(S) + 1
    BY <1>2, <2>1, WordsOf!FS_AddElement
  <2> QED
    BY <1>3, <1>4, <2>2 DEF FencesTo, R, S
<1>5. CASE ~WordsOf!Fence(s[n + 1])
  <2>1. R = S
    BY <1>5
  <2> HIDE DEF R, S
  <2> QED
    BY <1>3, <1>5, <2>1 DEF FencesTo, R, S
<1> QED
  BY <1>4, <1>5

LEMMA Parity == ASSUME NEW n \in Nat PROVE (n + 1) % 2 = 1 - (n % 2) /\ n % 2 \in {0, 1}
OBVIOUS

LitInv == at \in 0..Len(text) /\ buf \in {0, 1} /\ WordsOf!FencesCounted /\ WordsOf!LitcExtracts

LEMMA LitInit == ASSUME WordsOf!Init, WordsOf!Begun, prog = "litc" PROVE LitInv
<1>1. at = 0 /\ out = <<>> /\ buf = 0
  BY DEF WordsOf!Init
<1>2. Len(text) \in Nat
  BY LitKinds
<1>3. WordsOf!FencesCounted
  <2>1. WordsOf!Cardinality({x \in 1..0 : WordsOf!Fence(text[x])}) = 0
    BY FencesNone DEF FencesTo
  <2> QED
    BY <1>1, <2>1 DEF WordsOf!FencesCounted
<1>4. WordsOf!LitcExtracts
  <2> DEFINE shown == WordsOf!Ascending(at, WordsOf!Shown(text))
  <2>1. shown = <<>>
    BY <1>1, WordsOf!AscendingZero
  <2>2. out = [n \in 1..Len(shown) |-> WordsOf!AsShown(text, shown[n])]
    BY <1>1, <2>1
  <2> QED
    BY <2>2 DEF WordsOf!LitcExtracts
<1> QED
  BY <1>1, <1>2, <1>3, <1>4 DEF LitInv

\* What is printed of the lines that are shown, with one more.
ShownAs(s, a) == [n \in 1..Len(a) |-> WordsOf!AsShown(s, a[n])]

LEMMA ShownMore ==
  ASSUME NEW s, s \in Seq(LitLine), NEW a, a \in Seq(Nat), NEW k \in Nat,
         \A x \in 1..Len(a) : a[x] \in 1..Len(s), k \in 1..Len(s)
  PROVE  ShownAs(s, Append(a, k)) = Append(ShownAs(s, a), WordsOf!AsShown(s, k))
<1>1. ASSUME NEW x \in 1..Len(s) PROVE WordsOf!AsShown(s, x) \in LitLine
  <2>1. s[x] \in LitLine
    OBVIOUS
  <2> QED
    BY <2>1 DEF WordsOf!AsShown, LitLine
<1> DEFINE b == Append(a, k)
           u == ShownAs(s, b)
           v == ShownAs(s, a)
           w == Append(v, WordsOf!AsShown(s, k))
<1>2. /\ b \in Seq(Nat) /\ Len(b) = Len(a) + 1 /\ b[Len(a) + 1] = k /\ Len(a) \in Nat
      /\ \A x \in 1..Len(a) : b[x] = a[x]
  BY OneMore
<1> HIDE DEF b
<1>3. v \in Seq(LitLine) /\ Len(v) = Len(a) /\ \A x \in 1..Len(a) : v[x] = WordsOf!AsShown(s, a[x])
  <2>1. v = [x \in 1..Len(a) |-> v[x]] /\ \A x \in 1..Len(a) : v[x] = WordsOf!AsShown(s, a[x])
    BY DEF ShownAs
  <2>2. \A x \in 1..Len(a) : v[x] \in LitLine
    BY <1>1, <2>1
  <2> HIDE DEF v
  <2> DEFINE n_ == Len(a)
  <2>3. n_ \in Nat
    BY <1>2
  <2> HIDE DEF n_
  <2>4. v = [x \in 1..n_ |-> v[x]] /\ \A x \in 1..n_ : v[x] \in LitLine
    BY <2>1, <2>2 DEF n_
  <2>5. v \in Seq(LitLine) /\ Len(v) = n_
    BY ONLY <2>3, <2>4, Tabulated
  <2> QED
    BY <2>1, <2>5 DEF n_
<1>4. u \in Seq(LitLine) /\ Len(u) = Len(b) /\ \A x \in 1..Len(b) : u[x] = WordsOf!AsShown(s, b[x])
  <2>1. u = [x \in 1..Len(b) |-> u[x]] /\ \A x \in 1..Len(b) : u[x] = WordsOf!AsShown(s, b[x])
    BY DEF ShownAs
  <2>2. ASSUME NEW x \in 1..Len(b) PROVE u[x] \in LitLine
    <3>1. b[x] \in 1..Len(s)
      <4>1. CASE x \in 1..Len(a)
        BY <1>2, <4>1
      <4>2. CASE x = Len(a) + 1
        BY <1>2, <4>2
      <4> QED
        BY <1>2, <4>1, <4>2
    <3> QED
      BY <1>1, <2>1, <3>1
  <2> HIDE DEF u
  <2> DEFINE n_ == Len(b)
  <2>3. n_ \in Nat
    BY <1>2
  <2> HIDE DEF n_
  <2>4. u = [x \in 1..n_ |-> u[x]] /\ \A x \in 1..n_ : u[x] \in LitLine
    BY <2>1, <2>2 DEF n_
  <2>5. u \in Seq(LitLine) /\ Len(u) = n_
    BY ONLY <2>3, <2>4, Tabulated
  <2> QED
    BY <2>1, <2>5 DEF n_
<1>5. WordsOf!AsShown(s, k) \in LitLine
  BY <1>1
<1> DEFINE e == WordsOf!AsShown(s, k)
<1> HIDE DEF u, v, e
<1>6. /\ w \in Seq(LitLine) /\ Len(w) = Len(v) + 1 /\ w[Len(v) + 1] = e
      /\ \A x \in 1..Len(v) : w[x] = v[x]
  <2>1. Append(v, e) \in Seq(LitLine) /\ Len(Append(v, e)) = Len(v) + 1 /\ Append(v, e)[Len(v) + 1] = e
        /\ \A x \in 1..Len(v) : Append(v, e)[x] = v[x]
    BY <1>3, <1>5, OneMore DEF e
  <2> QED
    BY <2>1 DEF e
<1> HIDE DEF w
<1>7. Len(u) = Len(w) /\ \A x \in 1..Len(u) : u[x] = w[x]
  <2>1. Len(u) = Len(w)
    BY <1>2, <1>3, <1>4, <1>6
  <2>2. ASSUME NEW x \in 1..Len(u) PROVE u[x] = w[x]
    <3>1. CASE x \in 1..Len(a)
      <4>1. u[x] = WordsOf!AsShown(s, b[x]) /\ b[x] = a[x] /\ w[x] = v[x] /\ v[x] = WordsOf!AsShown(s, a[x])
        BY <1>2, <1>3, <1>4, <1>6, <3>1
      <4> QED
        BY <4>1
    <3>2. CASE x = Len(a) + 1
      <4>1. u[x] = WordsOf!AsShown(s, b[x]) /\ b[x] = k /\ w[x] = e
        BY <1>2, <1>3, <1>4, <1>6, <3>2
      <4> QED
        BY <4>1 DEF e
    <3> QED
      BY <1>2, <1>4, <3>1, <3>2
  <2> QED
    BY <2>1, <2>2
<1>8. u = w
  BY <1>4, <1>6, <1>7, SeqEqual
<1> QED
  BY <1>8 DEF u, v, w, b, e

LEMMA LitStep == ASSUME WordsOf!Begun, LitInv, prog = "litc", WordsOf!Litc PROVE LitInv'
<1> DEFINE n == Len(text)
           l == text[at + 1]
           K == WordsOf!Shown(text)
           a == WordsOf!Ascending(at, K)
<1>1. text \in Seq(LitLine) /\ n \in Nat /\ at \in 0..n /\ buf \in {0, 1}
  BY LitKinds DEF LitInv
<1>2. buf = FencesTo(text, at) % 2 /\ out = ShownAs(text, a)
  BY DEF LitInv, WordsOf!FencesCounted, WordsOf!LitcExtracts, FencesTo, ShownAs
<1>3. prog' = "litc" /\ text' = text
  BY DEF WordsOf!Litc
<1>4. CASE at = n
  <2>1. UNCHANGED <<at, buf, out>>
    BY <1>4 DEF WordsOf!Litc
  <2>2. WordsOf!FencesCounted' /\ WordsOf!LitcExtracts'
    BY <1>2, <1>3, <2>1 DEF WordsOf!FencesCounted, WordsOf!LitcExtracts, FencesTo, ShownAs
  <2> QED
    BY <1>1, <1>3, <2>1, <2>2 DEF LitInv
<1>5. CASE at # n
  <2>1. /\ at' = at + 1 /\ buf' = IF WordsOf!Fence(l) THEN 1 - buf ELSE buf
        /\ out' = IF WordsOf!Fence(l) THEN out ELSE out \o WordsOf!LitcLine(l)
    BY <1>5 DEF WordsOf!Litc
  <2>2. at \in Nat /\ at + 1 \in 1..n /\ at + 1 - 1 = at /\ DOMAIN text = 1..n /\ l \in LitLine
    BY <1>1, <1>5
  <2> DEFINE c == FencesTo(text, at)
  <2>3. c \in Nat /\ FencesTo(text, at + 1) = IF WordsOf!Fence(l) THEN c + 1 ELSE c
    BY <2>2, FencesMore
  <2>4. buf' = FencesTo(text, at + 1) % 2
    <3> HIDE DEF c
    <3>1. (c + 1) % 2 = 1 - (c % 2)
      BY <2>3, Parity
    <3>2. buf = c % 2
      BY <1>2 DEF c
    <3> QED
      BY <2>1, <2>3, <3>1, <3>2
  <2>5. WordsOf!FencesCounted'
    BY <1>3, <2>1, <2>4 DEF WordsOf!FencesCounted, FencesTo
  <2>6. WordsOf!InBlock(text, at + 1) <=> buf = 1
    BY <1>2, <2>2 DEF WordsOf!InBlock, FencesTo
  <2>7. at + 1 \in K <=> ~WordsOf!Fence(l) /\ (buf = 1 \/ l.lead # "none")
    BY <2>2, <2>6 DEF WordsOf!Shown
  <2>8. WordsOf!Ascending(at + 1, K) = IF at + 1 \in K THEN Append(a, at + 1) ELSE a
    <3> HIDE DEF K
    <3> QED
      BY <2>2, WordsOf!AscendingStep
  <2>9. a \in Seq(Nat) /\ \A x \in 1..Len(a) : a[x] \in 1..Len(text)
    <3> HIDE DEF K
    <3>1. WordsOf!Ascends(a, at, K)
      BY <2>2, WordsOf!AscendingAscends
    <3> HIDE DEF a
    <3>2. a \in Seq(Nat) /\ \A x \in 1..Len(a) : a[x] \in 1..at
      BY <3>1 DEF WordsOf!Ascends
    <3> QED
      BY <1>1, <2>2, <3>2
  <2>10. out' = ShownAs(text, WordsOf!Ascending(at + 1, K))
    <3>1. CASE at + 1 \notin K
      <4>1. WordsOf!Fence(l) \/ (buf = 0 /\ l.lead = "none")
        BY <1>1, <2>7, <3>1
      <4>2. out' = out
        <5>1. CASE WordsOf!Fence(l)
          BY <2>1, <5>1
        <5>2. CASE ~WordsOf!Fence(l)
          <6>1. WordsOf!LitcLine(l) = <<>>
            BY <4>1, <5>2 DEF WordsOf!LitcLine
          <6>2. out \o <<>> = out
            <7>1. out = [x \in 1..Len(a) |-> out[x]]
              BY <1>2 DEF ShownAs
            <7> DEFINE n_ == Len(a)
            <7>2. n_ \in Nat
              BY <2>9
            <7>3. out \in Seq({out[x] : x \in 1..n_})
              BY <7>1, <7>2
            <7> QED
              BY <7>3
          <6> QED
            BY <2>1, <5>2, <6>1, <6>2
        <5> QED
          BY <5>1, <5>2
      <4> QED
        BY <1>2, <2>8, <3>1, <4>2
    <3>2. CASE at + 1 \in K
      <4>1. ~WordsOf!Fence(l) /\ (buf = 1 \/ l.lead # "none")
        BY <2>7, <3>2
      <4>2. WordsOf!LitcLine(l) = <<WordsOf!AsShown(text, at + 1)>>
        <5>1. CASE buf = 1
          BY <2>6, <5>1 DEF WordsOf!LitcLine, WordsOf!AsShown
        <5>2. CASE buf # 1
          <6>1. buf = 0 /\ l.lead \in {"spaces", "tab"}
            BY <1>1, <2>2, <4>1, <5>2 DEF LitLine, WordsOf!Fence
          <6> QED
            BY <2>6, <5>2, <6>1 DEF WordsOf!LitcLine, WordsOf!AsShown
        <5> QED
          BY <5>1, <5>2
      <4>3. out' = ShownAs(text, a) \o <<WordsOf!AsShown(text, at + 1)>>
        BY <1>2, <2>1, <4>1, <4>2
      <4>4. ShownAs(text, Append(a, at + 1)) = Append(ShownAs(text, a), WordsOf!AsShown(text, at + 1))
        <5> DEFINE k == at + 1
        <5>1. k \in Nat /\ k \in 1..Len(text)
          BY <2>2
        <5> HIDE DEF k, a
        <5>2. ShownAs(text, Append(a, k)) = Append(ShownAs(text, a), WordsOf!AsShown(text, k))
          BY <1>1, <2>9, <5>1, ShownMore
        <5> QED
          BY <5>2 DEF k
      <4>5. ShownAs(text, a) \o <<WordsOf!AsShown(text, at + 1)>> = Append(ShownAs(text, a), WordsOf!AsShown(text, at + 1))
        <5> DEFINE u == ShownAs(text, a)
                   e == WordsOf!AsShown(text, at + 1)
                   n_ == Len(a)
        <5>1. u = [x \in 1..n_ |-> u[x]] /\ n_ \in Nat
          BY <2>9 DEF ShownAs
        <5>2. u \in Seq({u[x] : x \in 1..n_} \cup {e})
          <6> HIDE DEF u, e, n_
          <6> QED
            BY <5>1
        <5> HIDE DEF u, e, n_
        <5>3. u \o <<e>> = Append(u, e)
          BY <5>2
        <5> QED
          BY <5>3 DEF u, e
      <4> QED
        BY <2>8, <3>2, <4>3, <4>4, <4>5
    <3> QED
      BY <3>1, <3>2
  <2>11. WordsOf!LitcExtracts'
    BY <1>3, <2>1, <2>10 DEF WordsOf!LitcExtracts, ShownAs
  <2>12. buf' \in {0, 1} /\ at' \in 0..Len(text')
    BY <1>1, <1>3, <2>1, <2>2
  <2> QED
    BY <2>5, <2>11, <2>12 DEF LitInv
<1> QED
  BY <1>4, <1>5

-----------------------------------------------------------------------------
(* extract *)

Shows == STRING \cup {"$", "\n"}

\* The digits from a place on are those up to the first that is none.
IsDigitsEnd(s, k, e) == (e = Len(s) + 1 \/ ~WordsOf!IsDigit(s[e])) /\ \A x \in k..(e - 1) : WordsOf!IsDigit(s[x])

LEMMA DigitsEnd ==
  ASSUME NEW s, s \in Seq(STRING), NEW k \in 1..(Len(s) + 1)
  PROVE  \E e \in k..(Len(s) + 1) : IsDigitsEnd(s, k, e) /\ WordsOf!DigitsFrom(s, k) = SubSeq(s, k, e - 1)
<1> DEFINE T == {e \in k..(Len(s) + 1) : e = Len(s) + 1 \/ ~WordsOf!IsDigit(s[e])}
           n == Len(s)
<1>1. n \in Nat
  OBVIOUS
<1>2. T \in SUBSET Nat /\ T # {}
  <2>1. n + 1 \in T
    BY <1>1
  <2> QED
    BY <1>1, <2>1
<1>3. PICK e \in T : \A x \in T : e <= x
  <2> HIDE DEF T
  <2> QED
    BY <1>2, Smallest
<1>4. ASSUME NEW x \in k..(e - 1) PROVE WordsOf!IsDigit(s[x])
  <2>1. x \in k..(Len(s) + 1) /\ ~(e <= x) /\ x # Len(s) + 1
    BY <1>1, <1>3
  <2>2. x \notin T
    BY <1>3, <2>1
  <2> QED
    BY <2>1, <2>2
<1>5. e \in k..(Len(s) + 1) /\ IsDigitsEnd(s, k, e)
  BY <1>3, <1>4 DEF IsDigitsEnd
<1> DEFINE z == CHOOSE z \in k..(Len(s) + 1) : IsDigitsEnd(s, k, z)
<1>6. z \in k..(Len(s) + 1) /\ IsDigitsEnd(s, k, z)
  <2> HIDE DEF n, T
  <2> QED
    BY <1>5
<1>7. WordsOf!DigitsFrom(s, k) = SubSeq(s, k, z - 1)
  BY DEF WordsOf!DigitsFrom, IsDigitsEnd
<1> HIDE DEF z
<1> QED
  BY <1>6, <1>7

LEMMA DigitsEndOnly ==
  ASSUME NEW s, NEW n \in Nat, Len(s) = n, NEW k \in 1..(n + 1), NEW e \in k..(n + 1), NEW z \in k..(n + 1),
         IsDigitsEnd(s, k, e), IsDigitsEnd(s, k, z)
  PROVE  e = z
<1>1. ASSUME e < z PROVE FALSE
  <2>1. e \in k..(z - 1) /\ e # n + 1
    BY <1>1
  <2> QED
    BY <2>1 DEF IsDigitsEnd
<1>2. ASSUME z < e PROVE FALSE
  <2>1. z \in k..(e - 1) /\ z # n + 1
    BY <1>2
  <2> QED
    BY <2>1 DEF IsDigitsEnd
<1> QED
  BY <1>1, <1>2

\* A number is read from digits.
LEMMA StrtolType ==
  ASSUME NEW s, s \in Seq(STRING), \A k \in 1..Len(s) : WordsOf!IsDigit(s[k])
  PROVE  WordsOf!Strtol(s) \in Nat
<1> DEFINE d == [k \in 1..Len(s) |-> WordsOf!Decimal[s[k]]]
<1>1. \A x \in WordsOf!Digit : WordsOf!Decimal[x] \in Nat
  BY DEF WordsOf!Decimal, WordsOf!Digit
<1>2. d = [k \in 1..Len(s) |-> d[k]] /\ \A k \in 1..Len(s) : d[k] \in Nat
  BY <1>1 DEF WordsOf!IsDigit
<1>3. Len(s) \in Nat
  OBVIOUS
<1>4. d \in Seq(Nat)
  <2> HIDE DEF d
  <2> DEFINE n_ == Len(s)
  <2>1. n_ \in Nat /\ d = [k \in 1..n_ |-> d[k]] /\ \A k \in 1..n_ : d[k] \in Nat
    BY <1>2, <1>3
  <2> HIDE DEF n_
  <2> QED
    BY <2>1, Tabulated
<1> HIDE DEF d
<1>5. WordsOf!Value(10, d) \in Nat
  BY <1>4, WordsOf!ValueAppend
<1> QED
  BY <1>5 DEF WordsOf!Strtol, d

LEMMA GroupType ==
  ASSUME NEW groups, groups \in Seq(Seq(STRING)), NEW n \in Nat
  PROVE  WordsOf!Group(groups, n) \in Seq(Shows)
<1>1. CASE n < NMatch /\ n < Len(groups) /\ groups[n + 1] # <<"unset">>
  <2>1. n + 1 \in 1..Len(groups)
    BY <1>1
  <2>2. groups[n + 1] \in Seq(STRING)
    BY <2>1
  <2>3. groups[n + 1] \in Seq(Shows)
    BY <2>2 DEF Shows
  <2> QED
    BY <1>1, <2>3 DEF WordsOf!Group
<1>2. CASE ~(n < NMatch /\ n < Len(groups) /\ groups[n + 1] # <<"unset">>)
  <2>1. <<>> \in Seq(Shows)
    OBVIOUS
  <2> QED
    BY <1>2, <2>1 DEF WordsOf!Group
<1> QED
  BY <1>1, <1>2

\* What each place of a format puts, and where it goes on.
LEMMA PutKinds ==
  ASSUME NEW s, s \in Seq(STRING), NEW groups, groups \in Seq(Seq(STRING)), NEW k \in 1..Len(s)
  PROVE  WordsOf!Put(s, groups, k) \in Seq(Shows) /\ WordsOf!GoOn(s, k) \in (k + 1)..(Len(s) + 1)
<1> DEFINE n == Len(s)
<1>1. n \in Nat /\ s[k] \in STRING
  OBVIOUS
<1>2. <<s[k]>> \in Seq(Shows) /\ <<"$">> \in Seq(Shows)
  BY <1>1 DEF Shows
<1>3. CASE WordsOf!Dollar(s, k) /\ s[k + 1] = "$"
  <2>1. k < n
    BY <1>3 DEF WordsOf!Dollar
  <2>2. WordsOf!Put(s, groups, k) = <<"$">> /\ WordsOf!GoOn(s, k) = k + 2
    <3>1. ~WordsOf!IsDigit(s[k + 1])
      BY <1>3 DEF WordsOf!IsDigit, WordsOf!Digit
    <3>2. WordsOf!Dollar(s, k) /\ s[k + 1] = "$"
      BY <1>3
    <3> QED
      BY ONLY <3>1, <3>2 DEF WordsOf!Put, WordsOf!GoOn
  <2> QED
    BY <1>1, <1>2, <2>1, <2>2
<1>4. CASE ~(WordsOf!Dollar(s, k) /\ s[k + 1] = "$") /\ WordsOf!Dollar(s, k) /\ WordsOf!IsDigit(s[k + 1])
  <2> DEFINE d == WordsOf!DigitsFrom(s, k + 1)
  <2>1. k < n /\ k + 1 \in 1..(n + 1)
    BY <1>1, <1>4 DEF WordsOf!Dollar
  <2>2. WordsOf!Put(s, groups, k) = WordsOf!Group(groups, WordsOf!Strtol(d)) /\ WordsOf!GoOn(s, k) = k + 1 + Len(d)
    BY <1>4 DEF WordsOf!Put, WordsOf!GoOn
  <2>3. PICK e \in (k + 1)..(n + 1) : IsDigitsEnd(s, k + 1, e) /\ d = SubSeq(s, k + 1, e - 1)
    BY <2>1, DigitsEnd
  <2> HIDE DEF d
  <2>4. d \in Seq(STRING) /\ Len(d) = e - (k + 1) /\ \A x \in 1..Len(d) : d[x] = s[k + x]
    <3> DEFINE g_ == e - (k + 1)
    <3>1. g_ \in Nat /\ k \in Nat /\ k + g_ = e - 1 /\ k + g_ <= Len(s)
      BY <1>1, <2>1
    <3> HIDE DEF g_
    <3>2. /\ SubSeq(s, k + 1, k + g_) \in Seq(STRING) /\ Len(SubSeq(s, k + 1, k + g_)) = g_
          /\ \A x \in 1..g_ : SubSeq(s, k + 1, k + g_)[x] = s[k + x]
      BY ONLY s \in Seq(STRING), <3>1, Excerpt
    <3> QED
      BY <2>3, <3>1, <3>2 DEF g_
  <2>5. \A x \in 1..Len(d) : WordsOf!IsDigit(d[x])
    <3> TAKE x \in 1..Len(d)
    <3>1. k + x \in (k + 1)..(e - 1)
      BY <1>1, <2>1, <2>4
    <3> QED
      BY <2>3, <2>4, <3>1 DEF IsDigitsEnd
  <2>6. WordsOf!Strtol(d) \in Nat
    BY <2>4, <2>5, StrtolType
  <2>7. WordsOf!Group(groups, WordsOf!Strtol(d)) \in Seq(Shows)
    <3> DEFINE x == WordsOf!Strtol(d)
    <3>1. x \in Nat
      BY <2>6
    <3> HIDE DEF x
    <3>2. WordsOf!Group(groups, x) \in Seq(Shows)
      BY <3>1, GroupType
    <3> QED
      BY <3>2 DEF x
  <2> QED
    BY <1>1, <2>1, <2>2, <2>4, <2>7
<1>5. CASE ~(WordsOf!Dollar(s, k) /\ s[k + 1] = "$") /\ ~(WordsOf!Dollar(s, k) /\ WordsOf!IsDigit(s[k + 1]))
  <2>1. WordsOf!Put(s, groups, k) = <<s[k]>> /\ WordsOf!GoOn(s, k) = k + 1
    BY <1>5 DEF WordsOf!Put, WordsOf!GoOn
  <2> QED
    BY <1>1, <1>2, <2>1
<1> QED
  BY <1>3, <1>4, <1>5

Puts(s, groups) == [k \in 1..Len(s) |-> WordsOf!Put(s, groups, k)]
OnFrom(s) == [k \in 1..Len(s) |-> WordsOf!GoOn(s, k)]

\* What a format puts from each place on.
FillFrom(s, groups, k) == WordsOf!Chained(Puts(s, groups), OnFrom(s))[k]

LEMMA FillSteps ==
  ASSUME NEW s, s \in Seq(STRING), NEW groups, groups \in Seq(Seq(STRING))
  PROVE  /\ WordsOf!Fill(s, groups) = FillFrom(s, groups, 1) /\ FillFrom(s, groups, Len(s) + 1) = <<>>
         /\ \A k \in 1..(Len(s) + 1) : FillFrom(s, groups, k) \in Seq(Shows)
         /\ \A k \in 1..Len(s) :
              /\ WordsOf!Put(s, groups, k) \in Seq(Shows)
              /\ FillFrom(s, groups, k) = WordsOf!Put(s, groups, k) \o FillFrom(s, groups, WordsOf!GoOn(s, k))
<1> DEFINE n == Len(s)
           put == Puts(s, groups)
           next == OnFrom(s)
<1>1. n \in Nat
  OBVIOUS
<1>2. \A k \in 1..n : WordsOf!Put(s, groups, k) \in Seq(Shows) /\ WordsOf!GoOn(s, k) \in (k + 1)..(n + 1)
  BY PutKinds
<1>3. /\ put = [k \in 1..n |-> put[k]] /\ \A k \in 1..n : put[k] = WordsOf!Put(s, groups, k)
      /\ \A k \in 1..n : next[k] = WordsOf!GoOn(s, k)
  BY DEF Puts, OnFrom
<1>4. WordsOf!Fill(s, groups) = WordsOf!Chained(put, next)[1]
  BY DEF WordsOf!Fill, Puts, OnFrom
<1> HIDE DEF n, put, next
<1>5. (\A k \in 1..n : put[k] \in Seq(Shows)) /\ \A k \in 1..n : next[k] \in (k + 1)..(n + 1)
  <2>1. ASSUME NEW k \in 1..n PROVE put[k] \in Seq(Shows) /\ next[k] \in (k + 1)..(n + 1)
    BY ONLY <1>2, <1>3, k \in 1..n
  <2> QED
    BY ONLY <2>1
<1>6. Len(put) = n
  <2> DEFINE X == Seq(Shows)
  <2>1. \A k \in 1..n : put[k] \in X
    BY <1>5
  <2> HIDE DEF X
  <2>2. put = [k \in 1..n |-> put[k]]
    BY <1>3
  <2> QED
    BY ONLY <1>1, <2>1, <2>2, Tabulated
<1>7. WordsOf!Ahead(next, n)
  BY <1>5 DEF WordsOf!Ahead
<1>8. /\ WordsOf!Chained(put, next)[n + 1] = <<>>
      /\ \A k \in 1..n : WordsOf!Chained(put, next)[k] = put[k] \o WordsOf!Chained(put, next)[next[k]]
  BY ONLY <1>1, <1>6, <1>7, WordsOf!ChainedIs, ZenonT(60)
<1>10. \A k \in 1..n : put[k] \in Seq(Shows)
  BY <1>5
<1>11. \A k \in 1..(n + 1) : WordsOf!Chained(put, next)[k] \in Seq(Shows)
  BY ONLY <1>1, <1>6, <1>7, <1>10, WordsOf!ChainedType
<1>12. \A k : FillFrom(s, groups, k) = WordsOf!Chained(put, next)[k]
  BY DEF FillFrom, put, next
<1>13. ASSUME NEW k \in 1..n
       PROVE  /\ WordsOf!Put(s, groups, k) \in Seq(Shows)
              /\ FillFrom(s, groups, k) = WordsOf!Put(s, groups, k) \o FillFrom(s, groups, WordsOf!GoOn(s, k))
  <2>1. FillFrom(s, groups, k) = WordsOf!Chained(put, next)[k] /\ FillFrom(s, groups, WordsOf!GoOn(s, k)) = WordsOf!Chained(put, next)[WordsOf!GoOn(s, k)]
    BY <1>12
  <2>2. WordsOf!Chained(put, next)[k] = put[k] \o WordsOf!Chained(put, next)[next[k]]
    BY <1>8
  <2>3. put[k] = WordsOf!Put(s, groups, k) /\ next[k] = WordsOf!GoOn(s, k)
    BY <1>3
  <2> QED
    BY <1>2, <2>1, <2>2, <2>3
<1>14. WordsOf!Fill(s, groups) = FillFrom(s, groups, 1) /\ FillFrom(s, groups, n + 1) = <<>>
       /\ \A k \in 1..(n + 1) : FillFrom(s, groups, k) \in Seq(Shows)
  BY <1>4, <1>8, <1>11, <1>12
<1> QED
  BY <1>13, <1>14 DEF n

\* A piece of a format that stands at place a puts what it means.
LEMMA PieceRead ==
  ASSUME NEW s, s \in Seq(STRING), NEW groups, NEW p, p \in Seq(STRING), WordsOf!IsPiece(p),
         NEW a \in Nat \ {0}, a - 1 + Len(p) <= Len(s), \A j \in 1..Len(p) : s[a - 1 + j] = p[j],
         p = <<"$">> => a = Len(s),
         Len(p) > 1 /\ p[2] # "$" => a + Len(p) = Len(s) + 1 \/ ~WordsOf!IsDigit(s[a + Len(p)])
  PROVE  WordsOf!Put(s, groups, a) = WordsOf!Meaning(p, groups) /\ WordsOf!GoOn(s, a) = a + Len(p)
<1> DEFINE n == Len(s)
           m == Len(p)
<1>1. n \in Nat /\ m \in Nat
  OBVIOUS
<1>2. CASE m = 1
  <2>1. s[a] = p[1] /\ p = <<p[1]>>
    BY <1>2
  <2>2. ~WordsOf!Dollar(s, a)
    <3> SUFFICES ASSUME WordsOf!Dollar(s, a) PROVE FALSE
      OBVIOUS
    <3>1. s[a] = "$" /\ a < n
      BY DEF WordsOf!Dollar
    <3>2. p = <<"$">>
      BY <2>1, <3>1
    <3> QED
      BY <1>1, <3>1, <3>2
  <2>3. WordsOf!Put(s, groups, a) = <<s[a]>> /\ WordsOf!GoOn(s, a) = a + 1
    BY <2>2 DEF WordsOf!Put, WordsOf!GoOn
  <2>4. p # <<"$", "$">> /\ ~(Len(p) > 1)
    BY <1>2
  <2>5. WordsOf!Meaning(p, groups) = p
    BY ONLY <2>4 DEF WordsOf!Meaning
  <2> QED
    BY <1>2, <2>1, <2>3, <2>5
<1>3. CASE p = <<"$", "$">>
  <2>1. m = 2 /\ p[1] = "$" /\ p[2] = "$"
    BY <1>3
  <2>2. s[a] = "$" /\ s[a + 1] = "$" /\ a < n
    <3>1. s[a - 1 + 1] = p[1] /\ s[a - 1 + 2] = p[2]
      BY <2>1
    <3>2. a - 1 + 1 = a /\ a - 1 + 2 = a + 1 /\ a < n
      BY <1>1, <2>1
    <3> QED
      BY <2>1, <3>1, <3>2
  <2>3. WordsOf!Dollar(s, a) /\ s[a + 1] = "$" /\ ~WordsOf!IsDigit(s[a + 1])
    BY <2>2 DEF WordsOf!Dollar, WordsOf!IsDigit, WordsOf!Digit
  <2>4. WordsOf!Put(s, groups, a) = <<"$">> /\ WordsOf!GoOn(s, a) = a + 2
    BY ONLY <2>3 DEF WordsOf!Put, WordsOf!GoOn
  <2>5. WordsOf!Meaning(p, groups) = <<"$">>
    BY ONLY <1>3 DEF WordsOf!Meaning
  <2> QED
    BY <2>1, <2>4, <2>5
<1>4. CASE m # 1 /\ p # <<"$", "$">>
  <2>1. m > 1 /\ p[1] = "$" /\ \A k \in 2..m : WordsOf!IsDigit(p[k])
    BY <1>4 DEF WordsOf!IsPiece
  <2>2. s[a] = "$" /\ s[a + 1] = p[2] /\ a < n
    <3>1. s[a - 1 + 1] = p[1] /\ s[a - 1 + 2] = p[2]
      BY <1>1, <2>1
    <3>2. a - 1 + 1 = a /\ a - 1 + 2 = a + 1 /\ a < n
      BY <1>1, <2>1
    <3> QED
      BY <2>1, <3>1, <3>2
  <2>3. WordsOf!IsDigit(p[2]) /\ p[2] # "$"
    <3>1. WordsOf!IsDigit(p[2])
      BY <1>1, <2>1
    <3> QED
      BY <3>1 DEF WordsOf!IsDigit, WordsOf!Digit
  <2>4. WordsOf!Dollar(s, a) /\ s[a + 1] # "$" /\ WordsOf!IsDigit(s[a + 1])
    BY <2>2, <2>3 DEF WordsOf!Dollar
  <2> DEFINE d == WordsOf!DigitsFrom(s, a + 1)
  <2>5. WordsOf!Put(s, groups, a) = WordsOf!Group(groups, WordsOf!Strtol(d)) /\ WordsOf!GoOn(s, a) = a + 1 + Len(d)
    BY ONLY <2>4 DEF WordsOf!Put, WordsOf!GoOn
  <2>6. PICK e \in (a + 1)..(n + 1) : IsDigitsEnd(s, a + 1, e) /\ d = SubSeq(s, a + 1, e - 1)
    <3>1. a + 1 \in 1..(n + 1)
      BY <1>1, <2>2
    <3> QED
      BY <3>1, DigitsEnd
  <2>7. e = a + m
    <3> DEFINE z == a + m
               k == a + 1
    <3>1. z \in k..(n + 1) /\ k \in 1..(n + 1) /\ e \in k..(n + 1)
      BY <1>1, <2>1, <2>2
    <3>2. ASSUME NEW x \in k..(z - 1) PROVE WordsOf!IsDigit(s[x])
      <4>1. x - a + 1 \in 2..m /\ x - a + 1 \in 1..m /\ a - 1 + (x - a + 1) = x
        BY <1>1
      <4>2. s[x] = p[x - a + 1]
        BY <4>1
      <4> QED
        BY <2>1, <4>1, <4>2
    <3>3. z = n + 1 \/ ~WordsOf!IsDigit(s[z])
      BY <2>1, <2>3
    <3>4. IsDigitsEnd(s, k, z) /\ IsDigitsEnd(s, k, e)
      BY <2>6, <3>2, <3>3 DEF IsDigitsEnd
    <3> HIDE DEF z, k
    <3>5. n \in Nat /\ Len(s) = n
      BY <1>1
    <3> HIDE DEF n
    <3> QED
      BY ONLY <3>1, <3>4, <3>5, DigitsEndOnly DEF z
  <2>8. d = Tail(p)
    <3> DEFINE g_ == m - 1
               u == SubSeq(s, a + 1, a + g_)
    <3>1. g_ \in Nat /\ a \in Nat /\ a + g_ <= Len(s) /\ a + g_ = e - 1
      BY <1>1, <2>1, <2>7
    <3>2. d = u
      BY <2>6, <3>1
    <3>3. u \in Seq(STRING) /\ Len(u) = g_ /\ \A x \in 1..g_ : u[x] = s[a + x]
      <4> HIDE DEF g_
      <4> QED
        BY <3>1, Excerpt
    <3>4. Tail(p) \in Seq(STRING) /\ Len(Tail(p)) = g_ /\ \A x \in 1..g_ : Tail(p)[x] = p[x + 1]
      BY <1>1, <2>1
    <3>5. ASSUME NEW x \in 1..g_ PROVE u[x] = Tail(p)[x]
      <4>1. x + 1 \in 1..m /\ a - 1 + (x + 1) = a + x
        BY <1>1, <2>1
      <4>2. s[a + x] = p[x + 1]
        BY <4>1
      <4> QED
        BY <3>3, <3>4, <4>2
    <3> HIDE DEF u, g_, d
    <3> DEFINE t == Tail(p)
    <3>6. t \in Seq(STRING) /\ Len(t) = g_
      BY <3>4
    <3>7. \A x \in 1..g_ : u[x] = t[x]
      BY <3>5
    <3> HIDE DEF t
    <3>8. u = t
      BY <3>3, <3>6, <3>7, SeqEqual
    <3> QED
      BY <3>2, <3>8 DEF t
  <2>9. Len(Tail(p)) = m - 1
    BY <1>1, <2>1
  <2>10. WordsOf!Meaning(p, groups) = WordsOf!Group(groups, WordsOf!Strtol(Tail(p)))
    <3>1. Len(p) > 1 /\ p # <<"$", "$">>
      BY <1>4, <2>1
    <3> QED
      BY ONLY <3>1 DEF WordsOf!Meaning
  <2> QED
    <3> HIDE DEF d
    <3>1. WordsOf!Put(s, groups, a) = WordsOf!Meaning(p, groups)
      BY ONLY <2>5, <2>8, <2>10
    <3>2. Len(d) = m - 1
      BY ONLY <2>8, <2>9
    <3>3. WordsOf!GoOn(s, a) = a + m
      BY <1>1, <2>5, <3>2
    <3> QED
      BY <3>1, <3>3
<1> QED
  BY <1>2, <1>3, <1>4

\* Up to its last piece, a format that is read piece by piece.
LEMMA FillMeans ==
  ASSUME NEW f, f \in Seq(Seq(STRING)), \A k \in 1..Len(f) : WordsOf!IsPiece(f[k]), WordsOf!Piecewise(f),
         NEW groups, groups \in Seq(Seq(STRING))
  PROVE  /\ WordsOf!Fill(WordsOf!FlattenSeq(f), groups) = WordsOf!FlattenSeq(WordsOf!Meanings(f, groups))
         /\ WordsOf!FlattenSeq(f) \in Seq(STRING)
<1> DEFINE s == WordsOf!FlattenSeq(f)
           n == Len(f)
           M == WordsOf!Meanings(f, groups)
           Start(k) == Len(WordsOf!FlattenedTo(f, k)) + 1
           Good(k) == /\ Start(k) \in 1..(Len(s) + 1)
                      /\ WordsOf!FlattenedTo(M, k) \in Seq(Shows)
                      /\ WordsOf!Fill(s, groups) = WordsOf!FlattenedTo(M, k) \o FillFrom(s, groups, Start(k))
           T == {k \in Nat : Good(k)}
<1>1. n \in Nat
  OBVIOUS
<1>2. s \in Seq(STRING)
  BY WordsOf!FlattenType
<1>3. \A k \in 0..n : WordsOf!FlattenedTo(f, k) \in Seq(STRING) /\ \E r \in Seq(STRING) : s = WordsOf!FlattenedTo(f, k) \o r
  BY WordsOf!FlattenPrefix
<1>4. WordsOf!FlattenedTo(f, 0) = <<>> /\ WordsOf!FlattenedTo(f, n) = s
  BY WordsOf!FlattenFirst
<1>5. \A k \in 0..(n - 1) : f[k + 1] \in Seq(STRING) /\ WordsOf!FlattenedTo(f, k + 1) = WordsOf!FlattenedTo(f, k) \o f[k + 1]
  <2> TAKE k \in 0..(n - 1)
  <2>1. f \in Seq(Seq(STRING)) /\ k \in 0..(Len(f) - 1)
    OBVIOUS
  <2> QED
    BY ONLY <2>1, WordsOf!FlattenNext
<1>6. /\ WordsOf!Fill(s, groups) = FillFrom(s, groups, 1) /\ FillFrom(s, groups, Len(s) + 1) = <<>>
      /\ \A k \in 1..(Len(s) + 1) : FillFrom(s, groups, k) \in Seq(Shows)
      /\ \A k \in 1..Len(s) :
           /\ WordsOf!Put(s, groups, k) \in Seq(Shows)
           /\ FillFrom(s, groups, k) = WordsOf!Put(s, groups, k) \o FillFrom(s, groups, WordsOf!GoOn(s, k))
  <2> HIDE DEF s
  <2> QED
    BY ONLY <1>2, groups \in Seq(Seq(STRING)), FillSteps
<1>7. \A k \in 1..n : f[k] \in Seq(STRING) /\ WordsOf!IsPiece(f[k]) /\ Len(f[k]) \in Nat \ {0}
  <2> TAKE k \in 1..n
  <2>1. f[k] \in Seq(STRING) /\ WordsOf!IsPiece(f[k])
    OBVIOUS
  <2>2. Len(f[k]) \in Nat
    BY <2>1
  <2>3. Len(f[k]) # 0
    <3> DEFINE p == f[k]
               x == Len(p)
    <3>1. WordsOf!IsPiece(p) /\ x \in Nat
      BY <2>1, <2>2
    <3> HIDE DEF p
    <3>2. x = 1 \/ p = <<"$", "$">> \/ x > 1
      BY <3>1 DEF WordsOf!IsPiece
    <3>3. ASSUME p = <<"$", "$">> PROVE x = 2
      BY <3>3
    <3> HIDE DEF x
    <3>4. x # 0
      BY <3>1, <3>2, <3>3
    <3> QED
      BY <3>4 DEF x, p
  <2> QED
    BY <2>1, <2>2, <2>3
<1> HIDE DEF s
\* Where a piece stands.
<1>8. ASSUME NEW k \in 0..(n - 1)
      PROVE  /\ Start(k) \in Nat \ {0} /\ Start(k + 1) = Start(k) + Len(f[k + 1])
             /\ Start(k + 1) \in Nat \ {0} /\ Start(k + 1) <= Len(s) + 1
             /\ \A j \in 1..Len(f[k + 1]) : s[Start(k) - 1 + j] = f[k + 1][j]
  <2> DEFINE u == WordsOf!FlattenedTo(f, k)
             p == f[k + 1]
  <2>1. k \in 0..n /\ k + 1 \in 0..n
    BY <1>1
  <2>2. PICK r \in Seq(STRING) : s = WordsOf!FlattenedTo(f, k + 1) \o r
    BY <1>3, <2>1
  <2>3. u \in Seq(STRING) /\ p \in Seq(STRING) /\ WordsOf!FlattenedTo(f, k + 1) = u \o p
    BY <1>3, <1>5, <2>1
  <2>4. s = (u \o p) \o r
    BY <2>2, <2>3
  <2> HIDE DEF u, p
  <2>5. /\ Len(u \o p) = Len(u) + Len(p) /\ Len(u) \in Nat /\ Len(p) \in Nat
        /\ Len(s) = Len(u) + Len(p) + Len(r) /\ Len(r) \in Nat
        /\ \A j \in 1..Len(p) : s[Len(u) + j] = p[j]
    <3>1. /\ Len(u \o p) = Len(u) + Len(p) /\ Len(u) \in Nat /\ Len(p) \in Nat /\ Len(r) \in Nat
          /\ u \o p \in Seq(STRING)
      BY <2>3
    <3>2. \A j \in 1..Len(p) : (u \o p)[Len(u) + j] = p[j]
      BY <2>3
    <3> DEFINE v == u \o p
    <3>3. v \in Seq(STRING) /\ Len(v) = Len(u) + Len(p) /\ s = v \o r
      BY <2>4, <3>1
    <3> HIDE DEF v
    <3>4. Len(s) = Len(v) + Len(r) /\ \A x \in 1..Len(v) : s[x] = v[x]
      BY <3>3
    <3>5. ASSUME NEW j \in 1..Len(p) PROVE s[Len(u) + j] = p[j]
      <4>1. Len(u) + j \in 1..Len(v)
        BY <3>1, <3>3
      <4>2. v[Len(u) + j] = p[j]
        BY <3>2 DEF v
      <4> QED
        BY <3>4, <4>1, <4>2
    <3> QED
      BY <3>1, <3>3, <3>4, <3>5
  <2>6. Start(k) = Len(u) + 1 /\ Start(k + 1) = Len(u) + Len(p) + 1 /\ Start(k) - 1 = Len(u)
    <3>1. Start(k) = Len(u) + 1
      BY DEF u
    <3>2. Start(k + 1) = Len(u \o p) + 1
      BY <2>3 DEF u
    <3> HIDE DEF Start
    <3> QED
      BY <2>5, <3>1, <3>2
  <2> HIDE DEF Start
  <2>7. \A j \in 1..Len(p) : s[Start(k) - 1 + j] = p[j]
    BY <2>5, <2>6
  <2>8. /\ Start(k) \in Nat \ {0} /\ Start(k + 1) = Start(k) + Len(p)
        /\ Start(k + 1) \in Nat \ {0} /\ Start(k + 1) <= Len(s) + 1
    BY <2>5, <2>6
  <2> QED
    BY <2>7, <2>8 DEF p
<1>9. Start(0) = 1 /\ Start(n) = Len(s) + 1
  <2>1. Len(WordsOf!FlattenedTo(f, 0)) = 0
    BY <1>4
  <2> QED
    BY <1>4, <2>1
<1> HIDE DEF Start
<1>10. ASSUME NEW k \in 0..(n - 1)
       PROVE  /\ WordsOf!Put(s, groups, Start(k)) = WordsOf!Meaning(f[k + 1], groups) /\ WordsOf!GoOn(s, Start(k)) = Start(k + 1)
              /\ Start(k) \in 1..Len(s)
  <2> DEFINE a == Start(k)
             p == f[k + 1]
             m == Len(s)
  <2>1. /\ a \in Nat \ {0} /\ Start(k + 1) = a + Len(p) /\ Start(k + 1) <= m + 1
        /\ \A j \in 1..Len(p) : s[a - 1 + j] = p[j]
    BY <1>8
  <2>2. k + 1 \in 1..n
    BY <1>1
  <2>3. p \in Seq(STRING) /\ WordsOf!IsPiece(p) /\ Len(p) \in Nat \ {0}
    BY <1>7, <2>2
  <2>4. m \in Nat
    BY <1>2
  <2>5. a - 1 + Len(p) <= m
    BY <2>1, <2>3, <2>4
  <2>6. p = <<"$">> => a = m
    <3> SUFFICES ASSUME p = <<"$">> PROVE a = m
      OBVIOUS
    <3>1. ~(k + 1 \in 1..(n - 1))
      BY DEF WordsOf!Piecewise
    <3>2. k + 1 = n
      BY <1>1, <2>2, <3>1
    <3>3. Len(p) = 1
      OBVIOUS
    <3> HIDE DEF p, a, m
    <3>4. Start(k + 1) = m + 1
      BY <1>9, <3>2 DEF m
    <3> QED
      BY <2>1, <2>4, <3>3, <3>4
  <2>7. Len(p) > 1 /\ p[2] # "$" => a + Len(p) = m + 1 \/ ~WordsOf!IsDigit(s[a + Len(p)])
    <3> SUFFICES ASSUME Len(p) > 1, p[2] # "$" PROVE a + Len(p) = m + 1 \/ ~WordsOf!IsDigit(s[a + Len(p)])
      OBVIOUS
    <3>1. CASE k + 1 = n
      BY <1>9, <2>1, <3>1
    <3>2. CASE k + 1 # n
      <4>1. k + 1 \in 1..(n - 1) /\ k + 1 \in 0..(n - 1) /\ k + 1 + 1 \in 1..n
        BY <1>1, <3>2
      <4> DEFINE q == f[k + 1 + 1]
      <4>2. ~WordsOf!IsDigit(q[1])
        BY <4>1 DEF WordsOf!Piecewise
      <4>3. Len(q) \in Nat \ {0}
        BY <1>7, <4>1
      <4>4. /\ Start(k + 1) \in Nat \ {0}
            /\ \A j \in 1..Len(q) : s[Start(k + 1) - 1 + j] = q[j]
        <5> DEFINE x == k + 1
        <5>1. x \in 0..(n - 1)
          BY <4>1
        <5> HIDE DEF x, n
        <5>2. Start(x) \in Nat \ {0} /\ \A j \in 1..Len(f[x + 1]) : s[Start(x) - 1 + j] = f[x + 1][j]
          BY ONLY <1>8, <5>1
        <5> QED
          BY <5>2 DEF x
      <4> HIDE DEF q
      <4>5. s[Start(k + 1) - 1 + 1] = q[1] /\ Start(k + 1) - 1 + 1 = Start(k + 1)
        BY <4>3, <4>4
      <4>6. s[a + Len(p)] = q[1]
        BY <2>1, <4>5
      <4> QED
        BY <4>2, <4>6
    <3> QED
      BY <3>1, <3>2
  <2>8. a \in 1..m
    BY <2>1, <2>3, <2>4, <2>5, SMTT(20)
  <2>9. a - 1 + Len(p) <= Len(s) /\ (p = <<"$">> => a = Len(s))
        /\ (Len(p) > 1 /\ p[2] # "$" => a + Len(p) = Len(s) + 1 \/ ~WordsOf!IsDigit(s[a + Len(p)]))
    BY <2>5, <2>6, <2>7
  <2> HIDE DEF a, p, m
  <2>10. WordsOf!Put(s, groups, a) = WordsOf!Meaning(p, groups) /\ WordsOf!GoOn(s, a) = a + Len(p)
    BY ONLY <1>2, <2>1, <2>3, <2>9, PieceRead
  <2> QED
    BY <2>1, <2>8, <2>10 DEF a, p, m
<1>11. M \in Seq(Seq(Shows)) /\ Len(M) = n /\ \A k \in 1..n : M[k] = WordsOf!Meaning(f[k], groups)
  <2>1. M = [k \in 1..n |-> M[k]] /\ \A k \in 1..n : M[k] = WordsOf!Meaning(f[k], groups)
    BY DEF WordsOf!Meanings
  <2>2. ASSUME NEW k \in 1..n PROVE M[k] \in Seq(Shows)
    <3> DEFINE x == k - 1
    <3>1. x \in 0..(n - 1) /\ x + 1 = k
      BY <1>1
    <3> HIDE DEF x, M, n
    <3>2. WordsOf!Put(s, groups, Start(x)) = WordsOf!Meaning(f[x + 1], groups) /\ Start(x) \in 1..Len(s)
      BY <1>10, <3>1
    <3>3. WordsOf!Put(s, groups, Start(x)) \in Seq(Shows)
      BY <1>6, <3>2
    <3> QED
      BY <2>1, <3>1, <3>2, <3>3
  <2> DEFINE X == Seq(Shows)
  <2>3. M = [k \in 1..n |-> M[k]] /\ \A k \in 1..n : M[k] \in X
    BY <2>1, <2>2
  <2> HIDE DEF X, M, n
  <2>4. M \in Seq(X) /\ Len(M) = n
    BY ONLY <1>1, <2>3, Tabulated
  <2> QED
    BY <2>1, <2>4 DEF X
<1> HIDE DEF M
<1>12. WordsOf!FlattenedTo(M, 0) = <<>> /\ WordsOf!FlattenedTo(M, n) = WordsOf!FlattenSeq(M)
  BY <1>11, WordsOf!FlattenFirst
<1> HIDE DEF n
<1>13. 0 \in T
  <2>1. Len(s) + 1 \in Nat \ {0}
    BY <1>2
  <2>2. FillFrom(s, groups, 1) \in Seq(Shows) /\ <<>> \in Seq(Shows)
    BY <1>6, <2>1
  <2>3. <<>> \o FillFrom(s, groups, 1) = FillFrom(s, groups, 1)
    BY <2>2
  <2>4. Good(0)
    BY <1>6, <1>9, <1>12, <2>1, <2>2, <2>3
  <2> HIDE DEF Good
  <2> QED
    BY <2>4
<1>14. ASSUME NEW k \in 0..n, k \in T, k < n PROVE k + 1 \in T
  <2> DEFINE a == Start(k)
             u == WordsOf!FlattenedTo(M, k)
             e == M[k + 1]
             c == FillFrom(s, groups, Start(k + 1))
  <2>1. k \in 0..(n - 1) /\ k + 1 \in 1..n /\ k + 1 \in Nat
    BY <1>1, <1>14
  <2>2. u \in Seq(Shows) /\ WordsOf!Fill(s, groups) = u \o FillFrom(s, groups, a)
    BY <1>14
  <2>3. WordsOf!Put(s, groups, a) = e /\ WordsOf!GoOn(s, a) = Start(k + 1) /\ a \in 1..Len(s)
    BY <1>10, <1>11, <2>1
  <2>4. FillFrom(s, groups, a) = e \o c /\ e \in Seq(Shows)
    BY <1>6, <2>3
  <2>5. Start(k + 1) \in 1..(Len(s) + 1)
    <3>1. Start(k + 1) \in Nat \ {0} /\ Start(k + 1) <= Len(s) + 1
      BY <1>8, <2>1
    <3>2. Len(s) \in Nat
      BY <1>2
    <3> QED
      BY <3>1, <3>2
  <2>6. c \in Seq(Shows)
    BY <1>6, <2>5
  <2>7. WordsOf!FlattenedTo(M, k + 1) \in Seq(Shows) /\ WordsOf!FlattenedTo(M, k + 1) = u \o e
    <3>1. k \in 0..(Len(M) - 1) /\ M \in Seq(Seq(Shows))
      BY <1>11, <2>1
    <3> QED
      BY ONLY <3>1, WordsOf!FlattenNext
  <2> HIDE DEF u, e, c
  <2>8. u \o (e \o c) = (u \o e) \o c
    BY ONLY <2>2, <2>4, <2>6, ConcatAssociative, SMTT(20)
  <2>9. Good(k + 1)
    BY <2>2, <2>4, <2>5, <2>7, <2>8 DEF c
  <2> HIDE DEF Good
  <2> QED
    BY <2>1, <2>9
<1>15. \A k \in 0..n : k \in T
  <2> HIDE DEF T
  <2> QED
    BY <1>1, <1>13, <1>14, NumbersUpTo
<1>16. WordsOf!Fill(s, groups) = WordsOf!FlattenSeq(M)
  <2>1. n \in 0..n
    BY <1>1
  <2>2. Good(n)
    <3> HIDE DEF Good
    <3> QED
      BY <1>15, <2>1
  <2> DEFINE u == WordsOf!FlattenSeq(M)
  <2>3. u \in Seq(Shows) /\ WordsOf!Fill(s, groups) = u \o <<>>
    BY <1>6, <1>9, <1>12, <2>2
  <2> HIDE DEF u
  <2>4. WordsOf!Fill(s, groups) = u
    BY <2>3
  <2> QED
    BY <2>4 DEF u
<1> QED
  BY <1>2, <1>16 DEF s, M

LEMMA ExtractKinds ==
  ASSUME WordsOf!Begun, prog = "extract"
  PROVE  /\ format \in Seq(Seq(STRING)) /\ \A k \in 1..Len(format) : WordsOf!IsPiece(format[k])
         /\ Len(text) \in Nat /\ \A k \in 1..Len(text) : Match[WordsOf!Front(text[k])] \in Seq(Seq(STRING))
<1>1. text \in MatchLines /\ format \in Formats
  BY DEF WordsOf!Begun
<1>2. text \in Seq(Seq(STRING)) /\ \A k \in 1..Len(text) : Match[WordsOf!Front(text[k])] \in Seq(Seq(STRING))
  BY <1>1, WordsAssumed DEF WordsOf!WordAssumption
<1>3. Len(text) \in Nat
  BY <1>2
<1>4. format \in Seq(Seq(STRING)) /\ \A k \in 1..Len(format) : WordsOf!IsPiece(format[k])
  BY <1>1, WordsAssumed DEF WordsOf!WordAssumption
<1> QED
  BY <1>2, <1>3, <1>4

LEMMA ExtractedType ==
  ASSUME WordsOf!Begun, prog = "extract", NEW k \in 1..Len(text)
  PROVE  WordsOf!Extracted(WordsOf!Front(text[k])) \in Seq(Shows)
<1> DEFINE s == WordsOf!FlattenSeq(format)
           g == Match[WordsOf!Front(text[k])]
<1>1. format \in Seq(Seq(STRING)) /\ g \in Seq(Seq(STRING))
  BY ExtractKinds
<1>2. s \in Seq(STRING)
  BY <1>1, WordsOf!FlattenType
<1>3. WordsOf!Extracted(WordsOf!Front(text[k])) = IF g = <<>> THEN <<>> ELSE Append(WordsOf!Fill(s, g), "\n")
  BY DEF WordsOf!Extracted
<1> HIDE DEF s, g
<1>4. WordsOf!Fill(s, g) \in Seq(Shows)
  <2>1. WordsOf!Fill(s, g) = FillFrom(s, g, 1) /\ \A x \in 1..(Len(s) + 1) : FillFrom(s, g, x) \in Seq(Shows)
    BY ONLY <1>1, <1>2, FillSteps
  <2>2. 1 \in 1..(Len(s) + 1)
    BY <1>2
  <2> QED
    BY <2>1, <2>2
<1>5. "\n" \in Shows /\ <<>> \in Seq(Shows)
  BY DEF Shows
<1> DEFINE u == WordsOf!Fill(s, g)
<1> HIDE DEF u
<1>6. Append(u, "\n") \in Seq(Shows)
  BY <1>4, <1>5 DEF u
<1> QED
  BY <1>3, <1>5, <1>6 DEF u

\* What is extracted from the first n lines.
ExtractedTo(n) == [k \in 1..n |-> WordsOf!Extracted(WordsOf!Front(text[k]))]

LEMMA ExtractedNext ==
  ASSUME WordsOf!Begun, prog = "extract", NEW n \in 0..(Len(text) - 1)
  PROVE  WordsOf!FlattenSeq(ExtractedTo(n + 1)) = WordsOf!FlattenSeq(ExtractedTo(n)) \o WordsOf!Extracted(WordsOf!Front(text[n + 1]))
<1> DEFINE X == Seq(Shows)
           u == ExtractedTo(n)
           v == ExtractedTo(n + 1)
           e == WordsOf!Extracted(WordsOf!Front(text[n + 1]))
           m == n + 1
<1>1. n \in Nat /\ m \in Nat /\ Len(text) \in Nat /\ m \in 1..Len(text)
  BY ExtractKinds
<1>2. \A k \in 1..Len(text) : WordsOf!Extracted(WordsOf!Front(text[k])) \in X
  BY ExtractedType
<1>3. /\ u = [k \in 1..n |-> u[k]] /\ \A k \in 1..n : u[k] \in X
      /\ \A k \in 1..n : u[k] = WordsOf!Extracted(WordsOf!Front(text[k]))
  BY <1>1, <1>2 DEF ExtractedTo
<1>4. /\ v = [k \in 1..m |-> v[k]] /\ \A k \in 1..m : v[k] \in X
      /\ \A k \in 1..m : v[k] = WordsOf!Extracted(WordsOf!Front(text[k]))
  BY <1>1, <1>2 DEF ExtractedTo
<1>5. e \in X
  BY <1>1, <1>2
<1> HIDE DEF X, u, v
<1>6. u \in Seq(X) /\ Len(u) = n
  BY ONLY <1>1, <1>3, Tabulated
<1>7. v \in Seq(X) /\ Len(v) = m
  <2> HIDE DEF m
  <2> QED
    BY ONLY <1>1, <1>4, Tabulated
<1>8. v[m] = e /\ \A k \in 1..n : v[k] = u[k]
  <2>1. m \in 1..m /\ \A k \in 1..n : k \in 1..m
    BY <1>1
  <2> QED
    BY <1>3, <1>4, <2>1
<1> HIDE DEF e
<1>9. v = Append(u, e)
  <2> DEFINE w == Append(u, e)
  <2>1. w \in Seq(X) /\ Len(w) = Len(u) + 1 /\ w[Len(u) + 1] = e /\ \A k \in 1..Len(u) : w[k] = u[k]
    BY <1>5, <1>6, OneMore
  <2> HIDE DEF w
  <2>2. \A k \in 1..Len(v) : v[k] = w[k]
    BY <1>6, <1>7, <1>8, <2>1
  <2>3. v = w
    BY <1>6, <1>7, <2>1, <2>2, SeqEqual
  <2> QED
    BY <2>3 DEF w
<1>10. WordsOf!FlattenSeq(Append(u, e)) = WordsOf!FlattenSeq(u) \o e
  <2>1. u \in Seq(Seq(Shows)) /\ e \in Seq(Shows)
    BY <1>5, <1>6 DEF X
  <2> QED
    BY ONLY <2>1, WordsOf!FlattenAppend
<1> QED
  BY <1>9, <1>10 DEF u, v, e

ExtractInv == at \in 0..Len(text) /\ WordsOf!FilledSoFar

LEMMA ExtractInit == ASSUME WordsOf!Init, WordsOf!Begun, prog = "extract" PROVE ExtractInv
<1>1. at = 0 /\ out = <<>> /\ pc = "main" /\ Len(text) \in Nat
  BY ExtractKinds DEF WordsOf!Init
<1>2. ExtractedTo(0) = <<>>
  BY DEF ExtractedTo
<1>3. WordsOf!FilledSoFar
  BY <1>1, <1>2, WordsOf!FlattenEmpty DEF WordsOf!FilledSoFar, ExtractedTo
<1> QED
  BY <1>1, <1>3 DEF ExtractInv

LEMMA ExtractStep == ASSUME WordsOf!Begun, ExtractInv, prog = "extract", WordsOf!Extract PROVE ExtractInv'
<1>1. at \in 0..Len(text) /\ Len(text) \in Nat /\ out = WordsOf!FlattenSeq(ExtractedTo(at))
  BY ExtractKinds DEF ExtractInv, WordsOf!FilledSoFar, ExtractedTo
<1>2. prog' = "extract" /\ text' = text /\ format' = format /\ pc = "main"
  BY DEF WordsOf!Extract
<1>4. CASE at = Len(text)
  <2>1. at' = at /\ out' = out /\ pc' = "done"
    BY <1>4 DEF WordsOf!Extract
  <2>2. WordsOf!FilledSoFar'
    BY <1>1, <1>2, <1>4, <2>1 DEF WordsOf!FilledSoFar, ExtractedTo, WordsOf!Extracted
  <2> QED
    BY <1>1, <1>2, <2>1, <2>2 DEF ExtractInv
<1>5. CASE at # Len(text)
  <2>1. at' = at + 1 /\ out' = out \o WordsOf!Extracted(WordsOf!Front(text[at + 1])) /\ pc' = pc
    BY <1>5 DEF WordsOf!Extract
  <2>2. at \in 0..(Len(text) - 1)
    BY <1>1, <1>5
  <2>3. out' = WordsOf!FlattenSeq(ExtractedTo(at + 1))
    <3> DEFINE n == at
    <3>1. n \in 0..(Len(text) - 1)
      BY <2>2
    <3> HIDE DEF n
    <3>2. WordsOf!FlattenSeq(ExtractedTo(n + 1)) = WordsOf!FlattenSeq(ExtractedTo(n)) \o WordsOf!Extracted(WordsOf!Front(text[n + 1]))
      BY <3>1, ExtractedNext
    <3> QED
      BY <1>1, <2>1, <3>2 DEF n
  <2>4. WordsOf!FilledSoFar'
    BY <1>2, <2>1, <2>3 DEF WordsOf!FilledSoFar, ExtractedTo, WordsOf!Extracted
  <2> QED
    BY <1>1, <1>2, <2>1, <2>2, <2>4 DEF ExtractInv
<1> QED
  BY <1>4, <1>5

LEMMA ExtractEnd == ASSUME WordsOf!Begun, ExtractInv PROVE WordsOf!ExtractFills
<1> SUFFICES ASSUME prog = "extract", pc = "done", WordsOf!Piecewise(format)
             PROVE  out = WordsOf!FlattenSeq([k \in 1..Len(text) |->
                            IF Match[WordsOf!Front(text[k])] = <<>> THEN <<>>
                            ELSE WordsOf!FlattenSeq(WordsOf!Meanings(format, Match[WordsOf!Front(text[k])])) \o <<"\n">>])
  BY DEF WordsOf!ExtractFills
<1>1. out = WordsOf!FlattenSeq(ExtractedTo(Len(text))) /\ Len(text) \in Nat
  BY ExtractKinds DEF ExtractInv, WordsOf!FilledSoFar, ExtractedTo
<1> DEFINE Means(k) == IF Match[WordsOf!Front(text[k])] = <<>> THEN <<>>
                       ELSE WordsOf!FlattenSeq(WordsOf!Meanings(format, Match[WordsOf!Front(text[k])])) \o <<"\n">>
<1>2. ASSUME NEW k \in 1..Len(text) PROVE WordsOf!Extracted(WordsOf!Front(text[k])) = Means(k)
  <2> DEFINE s == WordsOf!FlattenSeq(format)
             g == Match[WordsOf!Front(text[k])]
             u == WordsOf!Fill(s, g)
  <2>1. format \in Seq(Seq(STRING)) /\ (\A x \in 1..Len(format) : WordsOf!IsPiece(format[x])) /\ g \in Seq(Seq(STRING))
    BY ExtractKinds
  <2>2. u = WordsOf!FlattenSeq(WordsOf!Meanings(format, g)) /\ s \in Seq(STRING)
    <3> HIDE DEF g
    <3> QED
      BY <2>1, FillMeans
  <2>3. WordsOf!Extracted(WordsOf!Front(text[k])) = IF g = <<>> THEN <<>> ELSE Append(u, "\n")
    BY DEF WordsOf!Extracted
  <2> HIDE DEF s, g
  <2>4. u \in Seq(Shows)
    <3>1. WordsOf!Fill(s, g) = FillFrom(s, g, 1) /\ \A x \in 1..(Len(s) + 1) : FillFrom(s, g, x) \in Seq(Shows)
      BY ONLY <2>1, <2>2, FillSteps
    <3>2. 1 \in 1..(Len(s) + 1)
      BY <2>2
    <3> QED
      BY <3>1, <3>2
  <2>5. Means(k) = IF g = <<>> THEN <<>> ELSE u \o <<"\n">>
    BY <2>2 DEF g
  <2> HIDE DEF u
  <2>6. u \o <<"\n">> = Append(u, "\n")
    <3>1. "\n" \in Shows
      BY DEF Shows
    <3> QED
      BY <2>4, <3>1
  <2> HIDE DEF Means
  <2> QED
    BY <2>3, <2>5, <2>6
<1>3. ExtractedTo(Len(text)) = [k \in 1..Len(text) |-> Means(k)]
  <2> HIDE DEF Means
  <2> QED
    BY <1>2 DEF ExtractedTo
<1> QED
  BY <1>1, <1>3

-----------------------------------------------------------------------------
(* chef *)

\* The letters of the rules, and what texts are made of.
ChefLetter == STRING \cup {"u", "n", "U", "o", "O", "e", "E", "-", "a", "i", "I", "f", "r", "z", "Z", "t", "s", "h", "v", "F", "V",
                       "A", "w", "W", "T"}

LEMMA RulesRead ==
  /\ DOMAIN WordsOf!Rules \in SUBSET Nat
  /\ \A r \in DOMAIN WordsOf!Rules : WordsOf!Rules[r].put \in Seq(ChefLetter) /\ Len(WordsOf!Rules[r].find) \in Nat \ {0}
<1> DEFINE X == [find : Seq(ChefLetter) \ {<<>>}, places : SUBSET WordsOf!Places, put : Seq(ChefLetter)]
<1>1. WordsOf!Rules \in Seq(X)
  BY DEF WordsOf!Rules, WordsOf!Rule, WordsOf!Places, ChefLetter
<1> HIDE DEF X
<1>2. DOMAIN WordsOf!Rules \in SUBSET Nat /\ \A r \in DOMAIN WordsOf!Rules : WordsOf!Rules[r] \in X
  BY <1>1
<1>3. ASSUME NEW x \in X PROVE x.put \in Seq(ChefLetter) /\ Len(x.find) \in Nat \ {0}
  <2>1. x.put \in Seq(ChefLetter) /\ x.find \in Seq(ChefLetter) /\ x.find # <<>>
    BY DEF X
  <2> DEFINE u == x.find
  <2>2. u \in Seq(ChefLetter) /\ u # <<>>
    BY <2>1
  <2> HIDE DEF u
  <2>3. Len(u) \in Nat \ {0}
    BY <2>2
  <2> QED
    BY <2>1, <2>3 DEF u
<1> QED
  BY <1>2, <1>3

LEMMA RuleAtRead ==
  ASSUME NEW w, w \in Seq(ChefLetter), NEW k \in 1..Len(w)
  PROVE  WordsOf!RuleAt(w, k).put \in Seq(ChefLetter) /\ WordsOf!Behind(w, k) \in (k + 1)..(Len(w) + 1)
<1> DEFINE fit == {r \in DOMAIN WordsOf!Rules : WordsOf!Fits(r, w, k)}
           n == Len(w)
<1>1. n \in Nat /\ w[k] \in ChefLetter
  OBVIOUS
<1>2. WordsOf!RuleAt(w, k) = IF fit = {} THEN WordsOf!Rule(<<w[k]>>, WordsOf!Places, <<w[k]>>) ELSE WordsOf!Rules[WordsOf!Min(fit)]
  BY DEF WordsOf!RuleAt
<1>3. WordsOf!RuleAt(w, k).put \in Seq(ChefLetter) /\ Len(WordsOf!RuleAt(w, k).find) \in Nat \ {0}
  <2>1. CASE fit = {}
    <3>1. WordsOf!RuleAt(w, k).put = <<w[k]>> /\ WordsOf!RuleAt(w, k).find = <<w[k]>>
      BY <1>2, <2>1 DEF WordsOf!Rule
    <3> QED
      BY <1>1, <3>1
  <2>2. CASE fit # {}
    <3>1. fit \in SUBSET Nat /\ fit \subseteq DOMAIN WordsOf!Rules
      BY RulesRead
    <3> HIDE DEF fit
    <3>2. \E a \in fit : \A b \in fit : a <= b
      BY <2>2, <3>1, Smallest
    <3>3. WordsOf!Min(fit) \in fit
      BY <3>2 DEF WordsOf!Min
    <3> DEFINE r == WordsOf!Min(fit)
    <3>4. r \in DOMAIN WordsOf!Rules /\ WordsOf!RuleAt(w, k) = WordsOf!Rules[r]
      BY <1>2, <2>2, <3>1, <3>3
    <3> HIDE DEF r
    <3> QED
      BY <3>4, RulesRead
  <2> QED
    BY <2>1, <2>2
<1> DEFINE m == Len(WordsOf!RuleAt(w, k).find)
<1>4. WordsOf!Behind(w, k) = IF k + m <= n THEN k + m ELSE n + 1
  BY DEF WordsOf!Behind
<1>5. m \in Nat \ {0}
  BY <1>3
<1> HIDE DEF m, n
<1>6. k \in 1..n
  BY DEF n
<1>7. WordsOf!Behind(w, k) \in (k + 1)..(n + 1)
  BY <1>1, <1>4, <1>5, <1>6
<1> QED
  BY <1>3, <1>7 DEF n

LEMMA TrType == ASSUME NEW w, w \in Seq(ChefLetter) PROVE WordsOf!Tr(w) \in Seq(ChefLetter)
<1> DEFINE n == Len(w)
           put == [k \in 1..n |-> WordsOf!RuleAt(w, k).put]
           next == [k \in 1..n |-> WordsOf!Behind(w, k)]
<1>1. n \in Nat /\ WordsOf!Tr(w) = WordsOf!Chained(put, next)[1]
  BY DEF WordsOf!Tr
<1>2. (\A k \in 1..n : put[k] \in Seq(ChefLetter)) /\ put = [k \in 1..n |-> put[k]]
  BY RuleAtRead
<1>3. \A k \in 1..n : next[k] \in (k + 1)..(n + 1)
  BY RuleAtRead
<1> HIDE DEF n, put, next
<1>4. Len(put) = n
  <2> DEFINE X == Seq(ChefLetter)
  <2>1. \A k \in 1..n : put[k] \in X
    BY <1>2
  <2> HIDE DEF X
  <2>2. n \in Nat /\ put = [k \in 1..n |-> put[k]]
    BY <1>1, <1>2
  <2> QED
    BY ONLY <2>1, <2>2, Tabulated
<1>5. n \in Nat /\ WordsOf!Ahead(next, n) /\ \A k \in 1..n : put[k] \in Seq(ChefLetter)
  BY <1>1, <1>2, <1>3 DEF WordsOf!Ahead
<1>6. \A k \in 1..(n + 1) : WordsOf!Chained(put, next)[k] \in Seq(ChefLetter)
  BY ONLY <1>4, <1>5, WordsOf!ChainedType
<1> QED
  BY <1>1, <1>6

-----------------------------------------------------------------------------
\* A word ends where it does.
IsWordEnd(s, k, e) == (\A x \in k..e : s[x] \notin WordsOf!NotInWord) /\ (e = Len(s) \/ s[e + 1] \in WordsOf!NotInWord)

LEMMA WordEnds ==
  ASSUME NEW s, s \in Seq(ChefLetter), NEW k \in 1..Len(s), s[k] \notin WordsOf!NotInWord
  PROVE  WordsOf!WordEnd(s, k) \in k..Len(s) /\ IsWordEnd(s, k, WordsOf!WordEnd(s, k))
<1> DEFINE n == Len(s)
           T == {e \in k..n : e = n \/ s[e + 1] \in WordsOf!NotInWord}
<1>1. n \in Nat
  OBVIOUS
<1>2. T \in SUBSET Nat /\ n \in T
  BY <1>1
<1>3. PICK e \in T : \A x \in T : e <= x
  <2> HIDE DEF T
  <2> QED
    BY <1>2, Smallest
<1>4. ASSUME NEW x \in k..e PROVE s[x] \notin WordsOf!NotInWord
  <2>1. CASE x = k
    BY <2>1
  <2>2. CASE x # k
    <3>1. x - 1 \in k..n /\ x - 1 + 1 = x /\ ~(e <= x - 1)
      BY <1>1, <1>3, <2>2
    <3>2. x - 1 \notin T
      <4> HIDE DEF T
      <4> QED
        BY <1>3, <3>1
    <3> QED
      BY <3>1, <3>2
  <2> QED
    BY <2>1, <2>2
<1>5. e \in k..n /\ IsWordEnd(s, k, e)
  BY <1>3, <1>4 DEF IsWordEnd
<1> DEFINE z == CHOOSE z \in k..n : IsWordEnd(s, k, z)
<1>6. z \in k..n /\ IsWordEnd(s, k, z)
  <2> HIDE DEF n, T
  <2> QED
    BY <1>5
<1>7. WordsOf!WordEnd(s, k) = z
  BY DEF WordsOf!WordEnd, IsWordEnd
<1> QED
  BY <1>6, <1>7

LEMMA WordEndOnly ==
  ASSUME NEW s, s \in Seq(ChefLetter), NEW k \in 1..Len(s), s[k] \notin WordsOf!NotInWord,
         NEW e \in k..Len(s), IsWordEnd(s, k, e)
  PROVE  WordsOf!WordEnd(s, k) = e
<1> DEFINE z == WordsOf!WordEnd(s, k)
           n == Len(s)
<1>1. n \in Nat
  OBVIOUS
<1>2. z \in k..n /\ IsWordEnd(s, k, z)
  BY WordEnds
<1> HIDE DEF z
<1>3. ASSUME e < z PROVE FALSE
  <2>1. e + 1 \in k..z /\ e # n
    BY <1>1, <1>2, <1>3
  <2> QED
    BY <1>2, <2>1 DEF IsWordEnd
<1>4. ASSUME z < e PROVE FALSE
  <2>1. z + 1 \in k..e /\ z # n
    BY <1>1, <1>2, <1>4
  <2> QED
    BY <1>2, <2>1 DEF IsWordEnd
<1> QED
  BY <1>1, <1>2, <1>3, <1>4 DEF z

LEMMA TranslatedType ==
  ASSUME NEW s, s \in Seq(ChefLetter)
  PROVE  WordsOf!Translated(s) \in Seq(Seq(ChefLetter)) /\ Len(WordsOf!Translated(s)) = Len(s)
<1> DEFINE n_ == Len(s)
           T == WordsOf!Translated(s)
           X == Seq(ChefLetter)
<1>1. n_ \in Nat
  OBVIOUS
<1>2. T = [k \in 1..n_ |-> T[k]]
  BY DEF WordsOf!Translated
<1>3. ASSUME NEW k \in 1..n_ PROVE T[k] \in X
  <2>1. T[k] = IF s[k] \in WordsOf!NotInWord THEN <<s[k]>>
               ELSE IF WordsOf!WordStart(s, k) /\ WordsOf!WordEnd(s, k) < Len(s) THEN WordsOf!Tr(SubSeq(s, k, WordsOf!WordEnd(s, k))) ELSE <<>>
    BY DEF WordsOf!Translated
  <2>2. <<s[k]>> \in X /\ <<>> \in X
    OBVIOUS
  <2>3. ASSUME s[k] \notin WordsOf!NotInWord PROVE WordsOf!Tr(SubSeq(s, k, WordsOf!WordEnd(s, k))) \in X
    <3>1. WordsOf!WordEnd(s, k) \in k..Len(s)
      BY <2>3, WordEnds
    <3> DEFINE u == SubSeq(s, k, WordsOf!WordEnd(s, k))
    <3>2. u \in Seq(ChefLetter)
      BY <1>1, <3>1
    <3> HIDE DEF u
    <3> QED
      BY <3>2, TrType DEF u
  <2> HIDE DEF X, T
  <2> QED
    BY <2>1, <2>2, <2>3
<1> HIDE DEF X, T, n_
<1>4. T \in Seq(X) /\ Len(T) = n_
  <2>1. \A k \in 1..n_ : T[k] \in X
    BY <1>3
  <2> QED
    BY ONLY <1>1, <1>2, <2>1, Tabulated
<1> QED
  BY <1>4 DEF X, T, n_

LEMMA ChefKinds == ASSUME WordsOf!Begun, prog = "chef" PROVE text \in Seq(ChefLetter) /\ Len(text) \in Nat /\ ChefSize \in Nat \ {0, 1}
<1>1. text \in Seq(STRING) /\ ChefSize \in Nat \ {0, 1}
  BY WordsAssumed DEF WordsOf!WordAssumption, WordsOf!Begun
<1>2. text \in Seq(ChefLetter)
  BY <1>1 DEF ChefLetter
<1> QED
  BY <1>1, <1>2

\* What is translated of the first n characters.
TranslatedTo(s, n) == WordsOf!FlattenedTo(WordsOf!Translated(s), n)

ChefInv == at \in 0..Len(text) /\ Len(buf) < ChefSize /\ WordsOf!LettersInHand

\* The parts of the invariant, for the word that begins behind before.
InHand(s, n, b, before) ==
  /\ before \in 0..n /\ n \in 0..Len(s) /\ b = SubSeq(s, before + 1, n) /\ Len(b) = n - before
  /\ \A k \in (before + 1)..n : s[k] \notin WordsOf!NotInWord
  /\ before < Len(s) /\ s[before + 1] \notin WordsOf!NotInWord => WordsOf!WordStart(s, before + 1)

\* Within a word nothing is translated but at its beginning.
LEMMA InsideNothing ==
  ASSUME NEW s, s \in Seq(ChefLetter), NEW n, NEW b, NEW before, InHand(s, n, b, before), NEW k \in (before + 2)..n
  PROVE  WordsOf!Translated(s)[k] = <<>>
<1>1. /\ before \in 0..n /\ n \in 0..Len(s) /\ Len(s) \in Nat
      /\ \A x \in (before + 1)..n : s[x] \notin WordsOf!NotInWord
  BY DEF InHand
<1>2. k \in 1..Len(s) /\ k \in (before + 1)..n /\ k - 1 \in (before + 1)..n /\ k # 1
  BY <1>1
<1>3. s[k] \notin WordsOf!NotInWord /\ s[k - 1] \notin WordsOf!NotInWord
  BY <1>1, <1>2
<1>4. ~WordsOf!WordStart(s, k)
  BY <1>2, <1>3 DEF WordsOf!WordStart
<1> QED
  BY <1>2, <1>3, <1>4 DEF WordsOf!Translated

\* A word with something behind it is translated.
LEMMA WordDone ==
  ASSUME NEW s, s \in Seq(ChefLetter), NEW n, NEW b, NEW before, InHand(s, n, b, before),
         before < n, n < Len(s), s[n + 1] \in WordsOf!NotInWord
  PROVE  WordsOf!Tr(b) \in Seq(ChefLetter) /\ TranslatedTo(s, before) \in Seq(ChefLetter)
         /\ TranslatedTo(s, n) = TranslatedTo(s, before) \o WordsOf!Tr(b)
<1> DEFINE T == WordsOf!Translated(s)
           k == before + 1
<1>1. /\ before \in 0..n /\ n \in 0..Len(s) /\ Len(s) \in Nat /\ b = SubSeq(s, before + 1, n)
      /\ \A x \in (before + 1)..n : s[x] \notin WordsOf!NotInWord
      /\ before < Len(s) /\ s[before + 1] \notin WordsOf!NotInWord => WordsOf!WordStart(s, before + 1)
  BY DEF InHand
<1>2. k \in 1..Len(s) /\ k \in (before + 1)..n /\ n \in k..Len(s) /\ before \in Nat /\ n \in Nat
  BY <1>1
<1>3. s[k] \notin WordsOf!NotInWord /\ WordsOf!WordStart(s, k)
  BY <1>1, <1>2
<1>4. WordsOf!WordEnd(s, k) = n
  <2>1. IsWordEnd(s, k, n)
    BY <1>1, <1>2 DEF IsWordEnd
  <2> HIDE DEF k
  <2> QED
    BY <1>2, <1>3, <2>1, WordEndOnly
<1>5. T[k] = WordsOf!Tr(b)
  BY <1>1, <1>2, <1>3, <1>4 DEF WordsOf!Translated
<1>6. T \in Seq(Seq(ChefLetter)) /\ Len(T) = Len(s)
  BY TranslatedType
<1>7. \A x \in (before + 2)..n : T[x] = <<>>
  BY InsideNothing
<1> HIDE DEF T
<1>8. WordsOf!FlattenedTo(T, n) = WordsOf!FlattenedTo(T, k)
  <2>1. k \in Nat /\ n \in Nat /\ k <= n /\ n <= Len(T) /\ \A x \in (k + 1)..n : T[x] = <<>>
    <3>1. k + 1 = before + 2 /\ k <= n /\ n <= Len(T)
      BY <1>1, <1>2, <1>6
    <3> QED
      BY <1>2, <1>7, <3>1
  <2> HIDE DEF k
  <2> QED
    BY ONLY <1>6, <2>1, WordsOf!FlattenNone
<1>9. before \in 0..(Len(T) - 1)
  BY <1>1, <1>2, <1>6
<1>10. /\ WordsOf!FlattenedTo(T, before) \in Seq(ChefLetter) /\ T[before + 1] \in Seq(ChefLetter)
       /\ WordsOf!FlattenedTo(T, before + 1) = WordsOf!FlattenedTo(T, before) \o T[before + 1]
  BY ONLY <1>6, <1>9, WordsOf!FlattenNext
<1> QED
  BY <1>5, <1>8, <1>10 DEF TranslatedTo, T

\* A word that reaches the end of the text is not.
LEMMA LastLeft ==
  ASSUME NEW s, s \in Seq(ChefLetter), NEW n, NEW b, NEW before, InHand(s, n, b, before), n = Len(s)
  PROVE  TranslatedTo(s, before) = WordsOf!FlattenSeq(WordsOf!Translated(s))
<1> DEFINE T == WordsOf!Translated(s)
           k == before + 1
<1>1. /\ before \in 0..n /\ Len(s) \in Nat /\ n \in Nat /\ before \in Nat
      /\ \A x \in (before + 1)..n : s[x] \notin WordsOf!NotInWord
  BY DEF InHand
<1>2. T \in Seq(Seq(ChefLetter)) /\ Len(T) = n
  BY TranslatedType
<1>3. ASSUME NEW x \in (before + 1)..n PROVE T[x] = <<>>
  <2>1. CASE x = k
    <3>1. k \in 1..Len(s) /\ s[k] \notin WordsOf!NotInWord /\ n \in k..Len(s)
      BY <1>1, <2>1
    <3>2. WordsOf!WordEnd(s, k) = n
      <4>1. IsWordEnd(s, k, n)
        BY <1>1 DEF IsWordEnd
      <4> HIDE DEF k
      <4> QED
        BY <3>1, <4>1, WordEndOnly
    <3> QED
      BY <2>1, <3>1, <3>2 DEF WordsOf!Translated
  <2>2. CASE x # k
    <3>1. x \in (before + 2)..n
      BY <1>1, <2>2
    <3> QED
      BY <3>1, InsideNothing
  <2> QED
    BY <2>1, <2>2
<1> HIDE DEF T
<1>4. before <= n /\ n <= Len(T) /\ \A x \in (before + 1)..n : T[x] = <<>>
  BY <1>1, <1>2, <1>3
<1>5. WordsOf!FlattenedTo(T, n) = WordsOf!FlattenedTo(T, before)
  BY ONLY <1>1, <1>2, <1>4, WordsOf!FlattenNone
<1>6. WordsOf!FlattenedTo(T, Len(T)) = WordsOf!FlattenSeq(T)
  BY ONLY <1>2, WordsOf!FlattenFirst
<1> QED
  BY <1>2, <1>5, <1>6 DEF TranslatedTo, T

\* What is between the words is kept.
LEMMA BetweenKept ==
  ASSUME NEW s, s \in Seq(ChefLetter), NEW n \in 0..(Len(s) - 1), s[n + 1] \in WordsOf!NotInWord
  PROVE  TranslatedTo(s, n + 1) = Append(TranslatedTo(s, n), s[n + 1])
<1> DEFINE T == WordsOf!Translated(s)
           e == s[n + 1]
<1>1. T \in Seq(Seq(ChefLetter)) /\ Len(T) = Len(s)
  BY TranslatedType
<1>2. n + 1 \in 1..Len(s)
  OBVIOUS
<1>3. e \in ChefLetter
  OBVIOUS
<1>4. T[n + 1] = <<e>>
  BY <1>2 DEF WordsOf!Translated
<1> HIDE DEF T
<1>5. n \in 0..(Len(T) - 1)
  BY <1>1
<1>6. WordsOf!FlattenedTo(T, n) \in Seq(ChefLetter) /\ WordsOf!FlattenedTo(T, n + 1) = WordsOf!FlattenedTo(T, n) \o T[n + 1]
  BY ONLY <1>1, <1>5, WordsOf!FlattenNext
<1> DEFINE u == WordsOf!FlattenedTo(T, n)
<1> HIDE DEF u, e
<1>7. u \o <<e>> = Append(u, e)
  BY <1>3, <1>6 DEF u
<1> QED
  BY <1>4, <1>6, <1>7 DEF TranslatedTo, T, u, e

LEMMA ChefParts ==
  ASSUME WordsOf!Begun, prog = "chef", ChefInv
  PROVE  /\ InHand(text, at, buf, at - Len(buf)) /\ out = TranslatedTo(text, at - Len(buf))
         /\ buf \in Seq(ChefLetter) /\ Len(buf) \in Nat
         /\ pc = "done" => at = Len(text) \/ Len(buf) >= ChefSize - 1
<1> DEFINE before == at - Len(buf)
<1>1. /\ before \in 0..at /\ buf = SubSeq(text, before + 1, at)
      /\ \A k \in (before + 1)..at : text[k] \notin WordsOf!NotInWord
      /\ before < Len(text) /\ text[before + 1] \notin WordsOf!NotInWord => WordsOf!WordStart(text, before + 1)
      /\ out = WordsOf!FlattenSeq(SubSeq(WordsOf!Translated(text), 1, before))
      /\ pc = "done" => at = Len(text) \/ Len(buf) >= ChefSize - 1
  BY DEF ChefInv, WordsOf!LettersInHand
<1>2. text \in Seq(ChefLetter) /\ Len(text) \in Nat /\ at \in 0..Len(text)
  BY ChefKinds DEF ChefInv
<1> DEFINE b_ == before
<1>3. b_ \in 0..at /\ buf = SubSeq(text, b_ + 1, at)
  BY <1>1
<1> HIDE DEF b_
<1>4. buf \in Seq(ChefLetter) /\ Len(buf) = at - b_
  BY <1>2, <1>3
<1>5. Len(buf) \in Nat /\ Len(buf) = at - before
  BY <1>2, <1>3, <1>4 DEF b_
<1> HIDE DEF before
<1>6. InHand(text, at, buf, before)
  BY <1>1, <1>2, <1>5 DEF InHand
<1> QED
  BY <1>1, <1>4, <1>5, <1>6 DEF TranslatedTo, WordsOf!FlattenedTo, before

\* And back: what has to be shown of a step.
LEMMA ChefShown ==
  ASSUME NEW before, InHand(text, at, buf, before), Len(text) \in Nat, out = TranslatedTo(text, before),
         Len(buf) < ChefSize, pc = "done" => at = Len(text) \/ Len(buf) >= ChefSize - 1
  PROVE  ChefInv
<1>1. before \in 0..at /\ at \in 0..Len(text) /\ Len(buf) = at - before
  BY DEF InHand
<1>2. before = at - Len(buf)
  BY <1>1
<1>3. /\ before \in 0..at /\ buf = SubSeq(text, before + 1, at)
      /\ \A k \in (before + 1)..at : text[k] \notin WordsOf!NotInWord
      /\ before < Len(text) /\ text[before + 1] \notin WordsOf!NotInWord => WordsOf!WordStart(text, before + 1)
      /\ out = WordsOf!FlattenSeq(SubSeq(WordsOf!Translated(text), 1, before))
  BY DEF InHand, TranslatedTo, WordsOf!FlattenedTo
<1> DEFINE b_ == at - Len(buf)
<1>4. b_ = before
  BY <1>2
<1> HIDE DEF b_
<1>5. /\ b_ \in 0..at /\ buf = SubSeq(text, b_ + 1, at)
      /\ \A k \in (b_ + 1)..at : text[k] \notin WordsOf!NotInWord
      /\ b_ < Len(text) /\ text[b_ + 1] \notin WordsOf!NotInWord => WordsOf!WordStart(text, b_ + 1)
      /\ out = WordsOf!FlattenSeq(SubSeq(WordsOf!Translated(text), 1, b_))
  BY <1>3, <1>4
<1>6. WordsOf!LettersInHand
  BY <1>5 DEF WordsOf!LettersInHand, b_
<1> QED
  BY <1>1, <1>6 DEF ChefInv

LEMMA ChefInit == ASSUME WordsOf!Init, WordsOf!Begun, prog = "chef" PROVE ChefInv
<1>1. at = 0 /\ out = <<>> /\ buf = <<>> /\ pc = "main"
  BY DEF WordsOf!Init
<1>2. text \in Seq(ChefLetter) /\ Len(text) \in Nat /\ ChefSize \in Nat \ {0, 1}
  BY ChefKinds
<1>3. InHand(text, at, buf, 0)
  <2>1. SubSeq(text, 0 + 1, 0) = <<>> /\ Len(<<>>) = 0
    BY <1>2
  <2>2. 0 < Len(text) /\ text[0 + 1] \notin WordsOf!NotInWord => WordsOf!WordStart(text, 0 + 1)
    BY DEF WordsOf!WordStart
  <2> QED
    BY <1>1, <1>2, <2>1, <2>2 DEF InHand
<1>4. out = TranslatedTo(text, 0)
  <2>1. WordsOf!Translated(text) \in Seq(Seq(ChefLetter))
    BY <1>2, TranslatedType
  <2> QED
    BY <1>1, <2>1, WordsOf!FlattenFirst DEF TranslatedTo
<1>5. Len(buf) < ChefSize
  BY <1>1, <1>2
<1> QED
  BY <1>1, <1>2, <1>3, <1>4, <1>5, ChefShown

LEMMA ChefStep == ASSUME WordsOf!Begun, ChefInv, prog = "chef", WordsOf!Chef PROVE ChefInv'
<1> DEFINE before == at - Len(buf)
           ch == text[at + 1]
           n == Len(text)
<1>1. text \in Seq(ChefLetter) /\ n \in Nat /\ ChefSize \in Nat \ {0, 1}
  BY ChefKinds
<1>2. /\ InHand(text, at, buf, before) /\ out = TranslatedTo(text, before)
      /\ buf \in Seq(ChefLetter) /\ Len(buf) \in Nat /\ at \in 0..n /\ Len(buf) < ChefSize
  BY ChefParts DEF ChefInv
<1>3. prog' = "chef" /\ text' = text /\ pc = "main"
  BY DEF WordsOf!Chef
<1>4. /\ before \in 0..at /\ before \in Nat /\ Len(buf) = at - before /\ buf = SubSeq(text, before + 1, at)
      /\ \A k \in (before + 1)..at : text[k] \notin WordsOf!NotInWord
      /\ before < n /\ text[before + 1] \notin WordsOf!NotInWord => WordsOf!WordStart(text, before + 1)
  BY <1>2 DEF InHand
<1> DEFINE b_ == before
<1>5. b_ = before
  OBVIOUS
<1> HIDE DEF before, n
\* What has to be shown, for the word that begins behind w.
<1>6. ASSUME NEW w, InHand(text, at', buf', w), out' = TranslatedTo(text, w), Len(buf') < ChefSize,
             pc' = "done" => at' = Len(text) \/ Len(buf') >= ChefSize - 1
      PROVE  ChefInv'
  <2>1. w \in 0..at' /\ at' \in 0..Len(text) /\ Len(buf') = at' - w
    BY <1>6 DEF InHand
  <2>2. w = at' - Len(buf')
    <3> DEFINE x == at'
               y == Len(buf')
               m == Len(text)
    <3>1. w \in 0..x /\ x \in 0..m /\ m \in Nat /\ y = x - w
      BY <1>1, <2>1 DEF n
    <3> HIDE DEF x, y, m
    <3>2. w = x - y
      BY ONLY <3>1
    <3> QED
      BY <3>2 DEF x, y
  <2>3. /\ w \in 0..at' /\ buf' = SubSeq(text, w + 1, at')
        /\ \A k \in (w + 1)..at' : text[k] \notin WordsOf!NotInWord
        /\ w < Len(text) /\ text[w + 1] \notin WordsOf!NotInWord => WordsOf!WordStart(text, w + 1)
        /\ out' = WordsOf!FlattenSeq(SubSeq(WordsOf!Translated(text), 1, w))
    BY <1>6 DEF InHand, TranslatedTo, WordsOf!FlattenedTo
  <2> DEFINE v == at' - Len(buf')
  <2>4. v = w
    BY <2>2
  <2> HIDE DEF v
  <2>5. /\ v \in 0..at' /\ buf' = SubSeq(text, v + 1, at')
        /\ \A k \in (v + 1)..at' : text[k] \notin WordsOf!NotInWord
        /\ v < Len(text) /\ text[v + 1] \notin WordsOf!NotInWord => WordsOf!WordStart(text, v + 1)
        /\ out' = WordsOf!FlattenSeq(SubSeq(WordsOf!Translated(text), 1, v))
    BY <2>3, <2>4
  <2>6. WordsOf!LettersInHand'
    BY <1>3, <1>6, <2>5 DEF WordsOf!LettersInHand, v
  <2> QED
    BY <1>3, <1>6, <2>1, <2>6 DEF ChefInv
<1>7. CASE at = n \/ Len(buf) >= ChefSize - 1
  <2>1. pc' = "done" /\ UNCHANGED <<at, buf, out>>
    BY <1>7 DEF WordsOf!Chef, n
  <2> QED
    BY <1>2, <1>6, <1>7, <2>1 DEF n
<1>8. CASE ~(at = n \/ Len(buf) >= ChefSize - 1)
  <2>1. at + 1 \in 1..n /\ at < n /\ at \in Nat /\ at + 1 \in 0..n /\ at \in 0..(n - 1)
    BY <1>1, <1>2, <1>8
  <2>2. ch \in ChefLetter
    BY <1>1, <2>1 DEF n
  <2>3. IF ch \notin WordsOf!NotInWord
        THEN buf' = Append(buf, ch) /\ at' = at + 1 /\ UNCHANGED <<out, pc>>
        ELSE IF buf = <<>>
        THEN out' = Append(out, ch) /\ at' = at + 1 /\ UNCHANGED <<buf, pc>>
        ELSE WordsOf!EndWord
    BY <1>8 DEF WordsOf!Chef, n
  <2>4. CASE ch \notin WordsOf!NotInWord
    <3>1. buf' = Append(buf, ch) /\ at' = at + 1 /\ out' = out /\ pc' = pc
      BY <2>3, <2>4
    <3>2. Len(buf') = Len(buf) + 1
      BY <1>2, <2>2, <3>1
    <3>3. SubSeq(text, before + 1, at + 1) = Append(buf, ch)
      <4> DEFINE g_ == at - before
                 h_ == g_ + 1
                 u == SubSeq(text, before + 1, before + h_)
                 w == Append(buf, ch)
      <4>1. g_ \in Nat /\ h_ \in Nat /\ before + h_ = at + 1 /\ before + h_ <= Len(text) /\ Len(buf) = g_
            /\ before + g_ = at /\ before + g_ <= Len(text)
        BY <1>1, <1>4, <2>1 DEF n
      <4>2. u \in Seq(ChefLetter) /\ Len(u) = h_ /\ \A k \in 1..h_ : u[k] = text[before + k]
        <5> HIDE DEF h_
        <5>1. before \in Nat /\ h_ \in Nat /\ before + h_ <= Len(text)
          BY <1>4, <4>1
        <5> QED
          BY ONLY <1>1, <5>1, Excerpt
      <4>3. buf \in Seq(ChefLetter) /\ \A k \in 1..g_ : buf[k] = text[before + k]
        <5> HIDE DEF g_
        <5>1. before \in Nat /\ g_ \in Nat /\ before + g_ <= Len(text)
          BY <1>4, <4>1
        <5>2. \A k \in 1..g_ : SubSeq(text, before + 1, before + g_)[k] = text[before + k]
          BY ONLY <1>1, <5>1, Excerpt
        <5> QED
          BY <1>2, <1>4, <4>1, <5>2
      <4>4. w \in Seq(ChefLetter) /\ Len(w) = Len(buf) + 1 /\ w[Len(buf) + 1] = ch /\ \A k \in 1..Len(buf) : w[k] = buf[k]
        BY <1>2, <2>2, OneMore
      <4> HIDE DEF u, w
      <4>5. ASSUME NEW k \in 1..Len(u) PROVE u[k] = w[k]
        <5>1. CASE k \in 1..g_
          BY <4>1, <4>2, <4>3, <4>4, <5>1
        <5>2. CASE k = h_
          <6>1. u[k] = text[before + h_] /\ k = Len(buf) + 1
            BY <4>1, <4>2, <5>2
          <6> QED
            BY <4>1, <4>4, <6>1
        <5> QED
          BY <4>1, <4>2, <5>1, <5>2
      <4>6. Len(u) = Len(w)
        BY <4>1, <4>2, <4>4
      <4>7. u = w
        BY <4>2, <4>4, <4>5, <4>6, SeqEqual
      <4> QED
        BY <4>1, <4>7 DEF u, w
    <3>4. InHand(text, at', buf', before)
      <4>1. before \in 0..(at + 1) /\ Len(buf') = (at + 1) - before
        BY <1>1, <1>4, <2>1, <3>2
      <4>2. ASSUME NEW k \in (before + 1)..(at + 1) PROVE text[k] \notin WordsOf!NotInWord
        <5>1. CASE k = at + 1
          BY <2>4, <5>1
        <5>2. CASE k # at + 1
          <6>1. k \in (before + 1)..at
            BY <1>4, <2>1, <5>2
          <6> QED
            BY <1>4, <6>1
        <5> QED
          BY <5>1, <5>2
      <4> QED
        BY <1>4, <2>1, <3>1, <3>3, <4>1, <4>2 DEF InHand, n
    <3>5. Len(buf') < ChefSize
      BY <1>1, <1>2, <1>8, <3>2
    <3> QED
      BY <1>2, <1>3, <1>6, <3>1, <3>4, <3>5
  <2>5. CASE ch \in WordsOf!NotInWord /\ buf = <<>>
    <3>1. out' = Append(out, ch) /\ at' = at + 1 /\ buf' = buf /\ pc' = pc
      BY <2>3, <2>5
    <3>2. before = at
      BY <1>2, <1>4, <2>1, <2>5
    <3>3. out' = TranslatedTo(text, at + 1)
      <4> DEFINE k == at
      <4>1. k \in 0..(Len(text) - 1) /\ text[k + 1] \in WordsOf!NotInWord
        BY <2>1, <2>5 DEF n
      <4> HIDE DEF k
      <4>2. TranslatedTo(text, k + 1) = Append(TranslatedTo(text, k), text[k + 1])
        BY <1>1, <4>1, BetweenKept
      <4> QED
        BY <1>2, <3>1, <3>2, <4>2 DEF k
    <3>4. InHand(text, at', buf', at')
      <4> DEFINE m == at + 1
      <4>1. m \in 0..m /\ m \in 0..n /\ m \in Nat /\ m - 1 = at /\ m + 1 - 1 = m
        BY <2>1
      <4>2. SubSeq(text, m + 1, m) = <<>> /\ Len(<<>>) = m - m
        BY <1>1, <4>1
      <4>3. WordsOf!WordStart(text, m + 1) \/ text[m + 1] \in WordsOf!NotInWord
        BY <2>5, <4>1 DEF WordsOf!WordStart
      <4>4. at' = m /\ buf' = <<>>
        BY <2>5, <3>1
      <4>5. \A k \in (m + 1)..m : FALSE
        BY <4>1
      <4> HIDE DEF m
      <4> QED
        BY <4>1, <4>2, <4>3, <4>4, <4>5 DEF InHand, n
    <3> QED
      BY <1>2, <1>3, <1>6, <3>1, <3>3, <3>4
  <2>6. CASE ch \in WordsOf!NotInWord /\ buf # <<>>
    <3>1. out' = out \o WordsOf!Tr(buf) /\ buf' = <<>> /\ at' = at /\ pc' = pc
      BY <2>3, <2>6 DEF WordsOf!EndWord
    <3>2. before < at
      <4>1. Len(buf) # 0
        BY <1>2, <2>6
      <4> QED
        BY <1>2, <1>4, <4>1
    <3>3. out' = TranslatedTo(text, at)
      <4>1. at < Len(text) /\ text[at + 1] \in WordsOf!NotInWord
        BY <2>1, <2>6 DEF n
      <4>2. TranslatedTo(text, at) = TranslatedTo(text, before) \o WordsOf!Tr(buf)
        BY ONLY <1>1, <1>2, <3>2, <4>1, WordDone
      <4> QED
        BY <1>2, <3>1, <4>2
    <3>4. InHand(text, at', buf', at')
      <4>1. SubSeq(text, at + 1, at) = <<>> /\ Len(<<>>) = at - at
        BY <1>1, <2>1
      <4>2. \A k \in (at + 1)..at : FALSE
        BY <2>1
      <4> QED
        BY <2>1, <2>6, <3>1, <4>1, <4>2, <1>2 DEF InHand, n
    <3>5. Len(buf') < ChefSize
      <4>1. Len(<<>>) = 0
        OBVIOUS
      <4> QED
        BY <1>1, <3>1, <4>1
    <3> QED
      BY <1>3, <1>6, <3>1, <3>3, <3>4, <3>5
  <2> QED
    BY <2>4, <2>5, <2>6
<1> QED
  BY <1>7, <1>8

LEMMA ChefEnd == ASSUME WordsOf!Begun, ChefInv, prog = "chef" PROVE WordsOf!ChefTranslates
<1> SUFFICES ASSUME pc = "done", WordsOf!WordsFit(text) PROVE out = WordsOf!FlattenSeq(WordsOf!Translated(text))
  BY DEF WordsOf!ChefTranslates
<1> DEFINE before == at - Len(buf)
           k == before + 1
           z == WordsOf!WordEnd(text, k)
<1>1. text \in Seq(ChefLetter) /\ Len(text) \in Nat /\ ChefSize \in Nat \ {0, 1}
  BY ChefKinds
<1>2. /\ InHand(text, at, buf, before) /\ out = TranslatedTo(text, before)
      /\ at = Len(text) \/ Len(buf) >= ChefSize - 1
  BY ChefParts
<1>3. /\ before \in 0..at /\ at \in 0..Len(text) /\ Len(buf) = at - before
      /\ \A x \in (before + 1)..at : text[x] \notin WordsOf!NotInWord
      /\ before < Len(text) /\ text[before + 1] \notin WordsOf!NotInWord => WordsOf!WordStart(text, before + 1)
  BY <1>2 DEF InHand
<1> HIDE DEF before
<1>4. CASE at = Len(text)
  <2>1. TranslatedTo(text, before) = WordsOf!FlattenSeq(WordsOf!Translated(text))
    BY ONLY <1>1, <1>2, <1>4, LastLeft
  <2> QED
    BY <1>2, <2>1
<1>5. CASE Len(buf) >= ChefSize - 1
  <2>1. before < at /\ k \in 1..Len(text) /\ k \in (before + 1)..at /\ at - before >= ChefSize - 1
    BY <1>1, <1>3, <1>5
  <2>2. text[k] \notin WordsOf!NotInWord /\ WordsOf!WordStart(text, k)
    BY <1>1, <1>3, <2>1
  <2>3. z \in k..Len(text) /\ IsWordEnd(text, k, z)
    <3> HIDE DEF k
    <3> QED
      BY <1>1, <2>1, <2>2, WordEnds
  <2>4. z - k + 1 < ChefSize - 1
    <3> HIDE DEF k, z
    <3> QED
      BY <2>1, <2>2 DEF WordsOf!WordsFit, z
  <2> HIDE DEF z
  <2>5. z < at /\ z + 1 \in (before + 1)..at /\ z # Len(text)
    BY <1>1, <1>3, <2>1, <2>3, <2>4
  <2>6. text[z + 1] \notin WordsOf!NotInWord
    BY <1>3, <2>5
  <2> QED
    BY <2>3, <2>5, <2>6 DEF IsWordEnd
<1> QED
  BY <1>2, <1>4, <1>5

-----------------------------------------------------------------------------
(* chef, extract, litc and hexdump together *)

WordKind == prog \in {"chef", "extract", "litc", "hexdump"} /\ pc \in {"main", "done"}

LEMMA WordParts ==
  WordsOf!IInv <=>
    /\ WordKind /\ WordsOf!Begun
    /\ prog = "chef" => ChefInv
    /\ prog = "extract" => ExtractInv
    /\ prog = "litc" => LitInv
    /\ prog = "hexdump" => DumpInv
BY DEF WordsOf!IInv, WordKind, WordsOf!TypeOK, ChefInv, ExtractInv, LitInv, DumpInv, WordsOf!LettersInHand, WordsOf!FilledSoFar, WordsOf!FencesCounted, WordsOf!PiecesShown,
       WordsOf!LitcExtracts, WordsOf!HexdumpShows

LEMMA WordInit == ASSUME WordsOf!Init PROVE WordsOf!IInv
<1>1. WordKind /\ WordsOf!Begun
  BY DEF WordsOf!Init, WordKind, WordsOf!Begun
<1> QED
  BY <1>1, ChefInit, ExtractInit, LitInit, DumpInit, WordParts

LEMMA WordNext == ASSUME WordsOf!IInv, WordsOf!Next \/ UNCHANGED WordsOf!vars PROVE WordsOf!IInv'
<1>1. /\ WordKind /\ WordsOf!Begun
      /\ prog = "chef" => ChefInv
      /\ prog = "extract" => ExtractInv
      /\ prog = "litc" => LitInv
      /\ prog = "hexdump" => DumpInv
  BY WordParts
<1>2. ASSUME prog' = prog, text' = text, format' = format PROVE WordsOf!Begun'
  BY <1>1, <1>2 DEF WordsOf!Begun
<1>3. CASE WordsOf!Chef
  <2>1. prog = "chef" /\ prog' = "chef" /\ prog' = prog /\ text' = text /\ format' = format /\ pc' \in {"main", "done"}
    BY <1>3 DEF WordsOf!Chef, WordsOf!EndWord
  <2>2. WordKind' /\ WordsOf!Begun' /\ ChefInv'
    BY <1>1, <1>2, <1>3, <2>1, ChefStep DEF WordKind
  <2> QED
    BY <2>1, <2>2 DEF WordsOf!IInv, WordKind, WordsOf!TypeOK, ChefInv, ExtractInv, LitInv, DumpInv, WordsOf!LettersInHand, WordsOf!FilledSoFar, WordsOf!FencesCounted,
                      WordsOf!PiecesShown, WordsOf!LitcExtracts, WordsOf!HexdumpShows
<1>4. CASE WordsOf!Extract
  <2>1. prog = "extract" /\ prog' = "extract" /\ prog' = prog /\ text' = text /\ format' = format /\ pc' \in {"main", "done"}
    BY <1>4 DEF WordsOf!Extract
  <2>2. WordKind' /\ WordsOf!Begun' /\ ExtractInv'
    BY <1>1, <1>2, <1>4, <2>1, ExtractStep DEF WordKind
  <2> QED
    BY <2>1, <2>2 DEF WordsOf!IInv, WordKind, WordsOf!TypeOK, ChefInv, ExtractInv, LitInv, DumpInv, WordsOf!LettersInHand, WordsOf!FilledSoFar, WordsOf!FencesCounted,
                      WordsOf!PiecesShown, WordsOf!LitcExtracts, WordsOf!HexdumpShows
<1>5. CASE WordsOf!Litc
  <2>1. prog = "litc" /\ prog' = "litc" /\ prog' = prog /\ text' = text /\ format' = format /\ pc' \in {"main", "done"}
    BY <1>5 DEF WordsOf!Litc
  <2>2. WordKind' /\ WordsOf!Begun' /\ LitInv'
    BY <1>1, <1>2, <1>5, <2>1, LitStep DEF WordKind
  <2> QED
    BY <2>1, <2>2 DEF WordsOf!IInv, WordKind, WordsOf!TypeOK, ChefInv, ExtractInv, LitInv, DumpInv, WordsOf!LettersInHand, WordsOf!FilledSoFar, WordsOf!FencesCounted,
                      WordsOf!PiecesShown, WordsOf!LitcExtracts, WordsOf!HexdumpShows
<1>6. CASE WordsOf!Hexdump
  <2>1. prog = "hexdump" /\ prog' = "hexdump" /\ prog' = prog /\ text' = text /\ format' = format /\ pc' \in {"main", "done"}
    BY <1>6 DEF WordsOf!Hexdump
  <2>2. WordKind' /\ WordsOf!Begun' /\ DumpInv'
    BY <1>1, <1>2, <1>6, <2>1, DumpStep DEF WordKind
  <2> QED
    BY <2>1, <2>2 DEF WordsOf!IInv, WordKind, WordsOf!TypeOK, ChefInv, ExtractInv, LitInv, DumpInv, WordsOf!LettersInHand, WordsOf!FilledSoFar, WordsOf!FencesCounted,
                      WordsOf!PiecesShown, WordsOf!LitcExtracts, WordsOf!HexdumpShows
<1>7. CASE UNCHANGED WordsOf!vars
  BY <1>7 DEF WordsOf!vars, WordsOf!IInv, WordsOf!TypeOK, WordsOf!Begun, WordsOf!LettersInHand, WordsOf!FilledSoFar, WordsOf!FencesCounted, WordsOf!PiecesShown, WordsOf!LitcExtracts, WordsOf!HexdumpShows,
              WordsOf!Extracted
<1> QED
  BY <1>3, <1>4, <1>5, <1>6, <1>7 DEF WordsOf!Next, WordsOf!Done

LEMMA WordsPrinted == ASSUME WordsOf!IInv PROVE WordsOf!TypeOK /\ WordsOf!ChefTranslates /\ WordsOf!ExtractFills /\ WordsOf!LitcExtracts /\ WordsOf!HexdumpShows
<1>1. WordsOf!TypeOK /\ WordsOf!Begun /\ WordsOf!LitcExtracts /\ WordsOf!HexdumpShows
  BY DEF WordsOf!IInv
<1>2. WordsOf!ChefTranslates
  <2>1. CASE prog = "chef"
    BY <1>1, <2>1, WordParts, ChefEnd
  <2>2. CASE prog # "chef"
    BY <2>2 DEF WordsOf!ChefTranslates
  <2> QED
    BY <2>1, <2>2
<1>3. WordsOf!ExtractFills
  <2>1. CASE prog = "extract"
    BY <1>1, <2>1, WordParts, ExtractEnd
  <2>2. CASE prog # "extract"
    BY <2>2 DEF WordsOf!ExtractFills
  <2> QED
    BY <2>1, <2>2
<1> QED
  BY <1>1, <1>2, <1>3
=============================================================================
