---------------------------- MODULE LineFilters ----------------------------
(***************************************************************************)
(* The programs that read text line by line: uniq, tail, tac, nl, more and *)
(* mismatch. All of them are fed the same text under one choice of their   *)
(* options; a step is one turn of their getline loop. A line is the        *)
(* sequence of its fields, ordered as strcmp orders them, <<>> the empty   *)
(* line.                                                                   *)
(***************************************************************************)
EXTENDS Integers, Sequences, SequencesExt, FiniteSetsExt, Stepwise

CONSTANTS Lines,       \* lines that may be read
          MaxLines,    \* lines of a text
          Options      \* command lines and surroundings, see opt

\* Characters are not negative; what is no line is, see below.
OptionsAssumption ==
  /\ Lines \subseteq Seq(Nat)
  /\ \A o \in Options : /\ o.tail_n \in Nat /\ o.rows \in Nat
                         /\ o.file \in Seq(Seq(Nat)) /\ o.junk \in Seq(Nat)
                         /\ {o.unique_only, o.duplicate, o.to_file} \subseteq BOOLEAN
                         /\ o.nskip_fields \in Nat /\ o.bflag \in {"a", "t", "n"}

VARIABLES text,    \* lines read so far
          eof,
          opt,     \* [unique_only, duplicate, to_file: uniq -u, -d and OUTPUT,
                   \*  nskip_fields: uniq -f, tail_n, bflag: nl -b,
                   \*  rows: ws.ws_row of more, file: the FILE of mismatch,
                   \*  junk: what a buffer holds that getline allocates at its end]
          uniq, tail, tac, nl, more, mismatch

vars == <<text, eof, opt, uniq, tail, tac, nl, more, mismatch>>

NULL == <<-1>>       \* a null pointer; printf shows it as "(null)"
JUNK == <<-2>>      \* a buffer that getline allocated and did not fill
PAUSE == <<-3>>     \* more waits for a key

-----------------------------------------------------------------------------
\* uniq.c. skip_fields counts n twice for each field it skips.
SkipFields(x, n) == SubSeq(x, (n + 1) \div 2 + 1, Len(x))
Duplicate(x, y) == SkipFields(x, opt.nskip_fields) = SkipFields(y, opt.nskip_fields)

\* What is printed for a group: its first line and its size. A stream opened
\* for reading takes nothing.
Show(u) ==
  LET wanted == \/ opt.unique_only /\ u.first = NULL
                \/ opt.duplicate /\ u.first # NULL
                \/ ~opt.duplicate /\ ~opt.unique_only
  IN  IF wanted /\ ~opt.to_file THEN <<[line |-> IF u.first = NULL THEN u.last ELSE u.first, c |-> u.c]>>
      ELSE <<>>

\* Mutant: the memory of the first line outlives its group.
NextGroupStale(u, line) == [u EXCEPT !.out = @ \o Show(u), !.c = 1, !.last = line]

NextGroup(u, line) == [out |-> u.out \o Show(u), first |-> NULL, c |-> 1, last |-> line]

Unique(u, line) ==
  CASE u.last = NULL -> [u EXCEPT !.last = line]
    [] u.last # NULL /\ Duplicate(line, u.last) ->
         [out |-> u.out, first |-> IF u.first = NULL THEN u.last ELSE u.first,
          c |-> u.c + 1, last |-> line]
    [] OTHER -> NextGroup(u, line)

\* tail.c: a ring of n buffers. At the end getline leaves a buffer that it
\* has filled before as it is, and allocates one that it has not. With -n 0
\* there is no buffer to read into (tail.c:63): the build is killed there, or at
\* i % 0, and in any case before it prints.
TailLine(t, line) ==
  IF opt.tail_n = 0 THEN t
  ELSE [buf |-> [t.buf EXCEPT ![t.i] = line], i |-> (t.i + 1) % opt.tail_n]
TailShow(t) ==
  [j \in 1..opt.tail_n |->
     LET k == (t.i + j - 1) % opt.tail_n
     IN  IF k = t.i /\ t.buf[k] = NULL THEN JUNK ELSE t.buf[k]]

\* nl.c.
Nl(s, line) ==
  LET numbered == opt.bflag = "a" \/ (opt.bflag = "t" /\ line # <<>>)
  IN  [lineno |-> s.lineno + IF opt.bflag = "t" /\ ~numbered THEN 0 ELSE 1,
       out |-> Append(s.out, <<IF numbered THEN s.lineno ELSE 0, line>>)]

\* more.c. lineno is a size_t: ws_row - 2 is never equal to it when ws_row is 1.
\* On a terminal that says it has no rows more is killed by lineno % 0 after the
\* first line.
PageFull(lineno) == opt.rows >= 2 /\ lineno % opt.rows = opt.rows - 2
More(m, line, key) ==
  CASE m.quit -> m
    [] ~m.quit /\ opt.rows = 0 -> [lineno |-> m.lineno, out |-> Append(m.out, line), quit |-> TRUE]
    [] ~m.quit /\ PageFull(m.lineno) ->
         [lineno |-> 1, out |-> m.out \o <<line, PAUSE>>, quit |-> key = "q"]
    [] OTHER -> [lineno |-> m.lineno + 1, out |-> Append(m.out, line), quit |-> m.quit]

\* strcmp(x, y) <= 0
Leq(x, y) == IsPrefix(x, y) \/ \E k \in DOMAIN x \cap DOMAIN y :
               SubSeq(x, 1, k - 1) = SubSeq(y, 1, k - 1) /\ x[k] < y[k]

\* mismatch.c: what x points to, one after the other: the lines of FILE, and if
\* it has none, the buffer that getline allocated for the first.
Held == IF opt.file = <<>> THEN <<opt.junk>> ELSE opt.file

\* FILE is read on while its line x is before y, unless g tells
\* that x is still to be compared. At its end x stays the last line.
Reach(s, y) ==
  LET from == IF s.g THEN s.x ELSE s.x + 1
  IN  Min({k \in from..Len(Held) : Leq(y, Held[k])} \cup {Len(Held)})

Mismatch(s, y) ==
  LET x == Reach(s, y)
      found == y = Held[x]
      stays == s.g /\ x = s.x /\ Leq(y, Held[x])
  IN  [x |-> x, g |-> ~found \/ stays,
       out |-> IF found THEN s.out ELSE Append(s.out, y)]

-----------------------------------------------------------------------------
Init ==
  /\ text = <<>> /\ eof = FALSE /\ opt \in Options
  /\ uniq = [first |-> NULL, last |-> NULL, c |-> 1, out |-> <<>>]
  /\ tail = [buf |-> [k \in 0..opt.tail_n - 1 |-> NULL], i |-> 0]
  /\ tac = <<>>
  /\ nl = [lineno |-> 1, out |-> <<>>]
  /\ more = [lineno |-> 0, out |-> <<>>, quit |-> FALSE]
  /\ mismatch = [x |-> 0, g |-> FALSE, out |-> <<>>]

Getline == \E line \in Lines, key \in {"q", "other"} :
  /\ ~eof /\ Len(text) < MaxLines
  /\ text' = Append(text, line)
  /\ uniq' = Unique(uniq, line)
  /\ tail' = TailLine(tail, line)
  /\ tac' = <<line>> \o tac
  /\ nl' = Nl(nl, line)
  /\ more' = More(more, line, key)
  /\ mismatch' = Mismatch(mismatch, line)
  /\ UNCHANGED <<eof, opt>>

\* uniq prints its last group, tail what its ring holds.
EndOfInput ==
  /\ ~eof /\ eof' = TRUE
  /\ uniq' = IF uniq.last = NULL THEN uniq ELSE [uniq EXCEPT !.out = @ \o Show(uniq)]
  /\ tail' = [out |-> TailShow(tail)]
  /\ UNCHANGED <<text, opt, tac, nl, more, mismatch>>

Done == eof /\ UNCHANGED vars

Next == Getline \/ EndOfInput \/ Done
Spec == Init /\ [][Next]_vars

-----------------------------------------------------------------------------
\* tail's ring index is a slot of the ring, if it has any, and mismatch's x a
\* line of FILE.
TypeOK ==
  /\ text \in Seq(Lines) /\ eof \in BOOLEAN /\ opt \in Options
  /\ ~eof /\ opt.tail_n > 0 => tail.i \in DOMAIN tail.buf
  /\ mismatch.x \in 0..Len(Held)

\* The maximal runs of s whose lines are equal from field n + 1 on: for each
\* its first line and its length.
Groups(s, n) ==
  LET key(k) == SubSeq(s[k], n + 1, Len(s[k]))
      size(k) == Cardinality({j \in k..Len(s) : \A m \in k..j : key(m) = key(k)})
      at == Ascending(Len(s), {k \in DOMAIN s : k = 1 \/ key(k) # key(k - 1)})
  IN  [k \in 1..Len(at) |-> [line |-> s[at[k]], c |-> size(at[k])]]
Chosen == {g \in [line : Lines, c : Nat] : \/ opt.unique_only = opt.duplicate
                                           \/ opt.unique_only /\ g.c = 1
                                           \/ opt.duplicate /\ g.c > 1}

\* uniq prints one line for each group of equal neighbours, the first, with
\* the size of the group; -u keeps the groups of one, -d the others.
UniqGroups ==
  eof /\ ~opt.to_file /\ opt.nskip_fields <= 1 =>
    uniq.out = Only(Groups(text, opt.nskip_fields), Chosen)

\* Whatever the ring has overwritten, tail prints the last lines of the text
\* in their order, and nothing else of it; for a text of fewer lines than the
\* ring has slots, "(null)" and one buffer of junk come before them.
TailLines ==
  eof => LET n == Min({opt.tail_n, Len(text)})
         IN  Only(tail.out, Lines) = SubSeq(text, Len(text) - n + 1, Len(text))

\* nl gives the lines it numbers the numbers 1, 2, 3, ...: no number is
\* skipped for a line that gets none.
NlConsecutive ==
  LET numbers == Only([k \in DOMAIN nl.out |-> nl.out[k][1]], Nat \ {0})
  IN  numbers = [k \in DOMAIN numbers |-> k]

\* On a terminal of three rows or more no line scrolls away unread: between
\* two pauses there are fewer lines than rows.
Screenful(rows) == \E k \in rows..Len(more.out) : PAUSE \notin ToSet(SubSeq(more.out, k - rows + 1, k))
MorePages == opt.rows >= 3 => ~Screenful(opt.rows)

\* mismatch prints the lines of the text that are not in FILE, if each file
\* is sorted and no line is repeated; if FILE is empty, all that are not equal
\* to the junk it is compared with.
Sorted(s) == \A k \in 1..Len(s) - 1 : Leq(s[k], s[k + 1])
Unmatched == Only(text, Lines \ ToSet(Held))
MismatchFinds ==
  Sorted(text) /\ Sorted(Held) /\ IsInjective(text) => mismatch.out = Unmatched

-----------------------------------------------------------------------------
\* uniq.c:177 "skip comparison of the first N fields". The code skips half.
UniqSkipsFields ==
  eof /\ ~opt.to_file => uniq.out = Only(Groups(text, opt.nskip_fields), Chosen)

-----------------------------------------------------------------------------
(***************************************************************************)
(* The invariant that the proofs need: what each program remembers between *)
(* two lines is what it should know of those it has read.                  *)
(***************************************************************************)
Typed ==
  /\ uniq \in [first : Lines \cup {NULL}, last : Lines \cup {NULL}, c : Nat \ {0},
               out : Seq([line : Lines, c : Nat])]
  /\ IF eof THEN tail \in [out : Seq(Lines \cup {NULL, JUNK})]
     ELSE tail \in [buf : [0..opt.tail_n - 1 -> Lines \cup {NULL}], i : Nat]
  /\ nl \in [lineno : Nat, out : Seq(Nat \X Lines)]
  /\ more \in [lineno : Nat, out : Seq(Lines \cup {PAUSE}), quit : BOOLEAN]
  /\ mismatch \in [x : Nat, g : BOOLEAN, out : Seq(Lines)]

\* The last group is still in hand, and those before it are printed.
GroupInHand ==
  ~eof /\ ~opt.to_file /\ opt.nskip_fields <= 1 =>
    LET G == Groups(text, opt.nskip_fields)
    IN  IF text = <<>> THEN uniq.last = NULL /\ uniq.first = NULL /\ uniq.c = 1 /\ uniq.out = <<>>
        ELSE /\ uniq.last = text[Len(text)] /\ (uniq.first = NULL <=> uniq.c = 1)
             /\ G # <<>>
             /\ G[Len(G)] = [line |-> IF uniq.first = NULL THEN uniq.last ELSE uniq.first, c |-> uniq.c]
             /\ uniq.out = Only(SubSeq(G, 1, Len(G) - 1), Chosen)

\* Below i are the newest lines, from i on the oldest that are kept.
Age(x) == IF x < tail.i THEN tail.i - x ELSE tail.i - x + opt.tail_n
Ring ==
  ~eof => /\ tail.i <= Len(text)
          /\ \A x \in 0..opt.tail_n - 1 :
               tail.buf[x] = IF Age(x) <= Len(text) THEN text[Len(text) + 1 - Age(x)] ELSE NULL

NlCounts ==
  LET numbers == Only([k \in DOMAIN nl.out |-> nl.out[k][1]], Nat \ {0})
  IN  IF opt.bflag = "n" THEN numbers = <<>> ELSE nl.lineno = Len(numbers) + 1

\* Since the last pause no more lines have been shown than were counted.
SincePause ==
  opt.rows >= 3 => /\ more.lineno <= opt.rows - 2
                   /\ \E p \in 0..Len(more.out) : /\ Len(more.out) - p <= more.lineno
                                                  /\ p > 0 => more.out[p] = PAUSE

\* The lines of FILE before x are all before the last line of the text, and
\* x itself is that line or is still to be compared.
Passed ==
  /\ mismatch.x \in 0..Len(Held) /\ (mismatch.x = 0 <=> text = <<>>)
  /\ mismatch.x = 0 => ~mismatch.g
  /\ Sorted(text) /\ Sorted(Held) /\ IsInjective(text) /\ text # <<>> =>
       /\ \A k \in 1..mismatch.x - 1 : ~Leq(text[Len(text)], Held[k])
       /\ ~mismatch.g => Held[mismatch.x] = text[Len(text)]

IInv == /\ TypeOK /\ Typed
        /\ UniqGroups /\ TailLines /\ NlConsecutive /\ MorePages /\ MismatchFinds
        /\ GroupInHand /\ Ring /\ NlCounts /\ SincePause /\ Passed
=============================================================================
