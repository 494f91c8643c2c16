------------------------------ MODULE TreeWalk ------------------------------
(***************************************************************************)
(* du, forage and loc: each visits a file, or a directory and then, in     *)
(* order, what scandir found in it, while others add and remove entries. A *)
(* path is the sequence of the entries on it. Every opening of a path      *)
(* follows links, up to MAXLINKS of them.                                  *)
(***************************************************************************)
EXTENDS Integers, SequencesExt

CONSTANTS Entries,   \* numbered in the order of their names; 0 is the root
          Kind,      \* "dir", "file" or "link"
          Parent,    \* the directory of an entry
          Target,    \* what a link points to
          Size,      \* bytes or, for loc, lines
          Matching,  \* names that forage looks for, or that loc counts
          Hidden,    \* names that begin with a dot
          MAXLINKS,
          Changes    \* how many entries are added or removed meanwhile

TreeAssumption ==
  /\ Entries \subseteq Nat /\ 0 \in Entries /\ Kind[0] = "dir"
  /\ \A e \in Entries : /\ Size[e] \in Nat /\ Kind[Target[e]] # "link"
                        /\ e # 0 => Kind[Parent[e]] = "dir"
  /\ Matching \cup Hidden \subseteq Entries /\ MAXLINKS \in Nat /\ Changes \in Nat

VARIABLES prog,      \* "du", "forage" or "loc"
          present,   \* entries that exist
          touched,   \* history: entries that were added or removed
          stack,     \* the calls of visit: [path, at, todo, total], innermost first
          out,       \* the lines printed: [path, amount]
          total, files  \* what main has got in the end, or so far

vars == <<prog, present, touched, stack, out, total, files>>

Nowhere == [ok |-> FALSE, e |-> 0, links |-> 0]

\* One component more of a path.
Enter(r, e) ==
  LET links == IF Kind[e] = "link" THEN r.links + 1 ELSE r.links
      goal == IF Kind[e] = "link" THEN Target[e] ELSE e
  IN  IF r.ok /\ Kind[r.e] = "dir" /\ {e, goal} \subseteq present
         /\ Parent[e] = r.e /\ links <= MAXLINKS
      THEN [ok |-> TRUE, e |-> goal, links |-> links] ELSE Nowhere

Resolve(path) == FoldLeft(Enter, [ok |-> 0 \in present, e |-> 0, links |-> 0], path)

\* scandir, with the selector of the program, and alphasort.
Selected(d) == {e \in present \ {0} : Parent[e] = d /\ (prog = "loc" => e \notin Hidden)}

Scandir(d) == SetToSortSeq(Selected(d), <)

Name(path) == IF path = <<>> THEN 0 ELSE Last(path)
Call(path) == [path |-> path, at |-> "open", todo |-> <<>>, total |-> 0]

Init ==
  /\ prog \in {"du", "forage", "loc"}
  /\ present \in {s \in SUBSET Entries : \A e \in s \ {0} : Parent[e] \in s}
  /\ touched = {} /\ stack = <<Call(<<>>)>> /\ out = <<>>
  /\ total = 0 /\ files = 0

Top == Head(stack)
Path == Top.path
At(where) == stack # <<>> /\ Top.at = where
Report(amount) == out' = Append(out, [path |-> Path, amount |-> amount])

Added(amount) == [stack[2] EXCEPT !.total = @ + amount]

\* The call returns: du adds what it returns to the caller's total.
Return(amount) ==
  IF Len(stack) = 1 THEN stack' = <<>> /\ total' = (IF prog = "du" THEN amount ELSE total)
  ELSE stack' = <<Added(amount)>> \o SubSeq(stack, 3, Len(stack)) /\ UNCHANGED total

Goto(where, todo, amount) ==
  stack' = <<[Top EXCEPT !.at = where, !.todo = todo, !.total = amount]>> \o Tail(stack)

Silent == UNCHANGED <<out, files>>

\* Mutant: the call that failed gives the -1 of what it called.
ReturnCode == -1

Failed == 0
\* fopen, fstat and fclose.
Open ==
  LET r == Resolve(Path) IN
  /\ At("open") /\ UNCHANGED <<prog, present, touched>>
  /\ CASE ~r.ok -> Return(Failed) /\ Silent
       [] r.ok /\ Kind[r.e] = "dir" ->
            Goto("scan", <<>>, IF prog = "du" THEN Size[r.e] ELSE 0) /\ Silent /\ UNCHANGED total
       [] OTHER ->
            IF prog = "du" THEN Report(Size[r.e]) /\ Return(Size[r.e]) /\ UNCHANGED files
            ELSE IF prog = "loc" /\ Name(Path) \in Matching
                 THEN Goto("count", <<>>, 0) /\ Silent /\ UNCHANGED total
            ELSE Goto("walk", <<>>, 0) /\ Silent /\ UNCHANGED total

\* The directory is opened again, by its path, and read. One that is gone has
\* no part in anything, whatever fstat said.
Scan ==
  LET r == Resolve(Path) IN
  /\ At("scan") /\ UNCHANGED <<prog, present, touched>> /\ Silent
  /\ IF r.ok /\ Kind[r.e] = "dir" THEN Goto("walk", Scandir(r.e), Top.total) /\ UNCHANGED total
     ELSE Return(Failed)

\* Mutant: the last entry is not visited.
ButLast == Len(Top.todo) > 1

MoreToDo == Top.todo # <<>>

Descend ==
  /\ At("walk") /\ MoreToDo
  /\ stack' = <<Call(Append(Path, Head(Top.todo))), [Top EXCEPT !.todo = Tail(@)]>> \o Tail(stack)
  /\ UNCHANGED <<prog, present, touched, out, total, files>>

\* After the entries: du reports a directory, forage what matches.
Ascend ==
  /\ At("walk") /\ ~MoreToDo /\ UNCHANGED <<prog, present, touched, files>>
  /\ IF prog = "du" \/ (prog = "forage" /\ Name(Path) \in Matching)
     THEN Report(Top.total) ELSE UNCHANGED out
  /\ Return(Top.total)

Counted(lines) == total + lines

\* loc opens the file once more to count its lines; one that is gone counts
\* as a file without lines.
CountLines ==
  LET r == Resolve(Path)
      lines == IF r.ok /\ Kind[r.e] = "file" THEN Size[r.e] ELSE 0
  IN  /\ At("count") /\ Report(lines)
      /\ stack' = Tail(stack)
      /\ total' = Counted(lines) /\ files' = files + 1
      /\ UNCHANGED <<prog, present, touched>>

\* Another process adds an entry to a directory, or removes a file, a link or
\* an empty directory.
Change == \E e \in Entries \ {0} :
  /\ stack # <<>> /\ e \notin touched /\ Cardinality(touched) < Changes
  /\ Parent[e] \in present
  /\ e \in present => \A f \in present \ {0} : Parent[f] # e
  /\ present' = IF e \in present THEN present \ {e} ELSE present \cup {e}
  /\ touched' = touched \cup {e}
  /\ UNCHANGED <<prog, stack, out, total, files>>

Done == stack = <<>> /\ UNCHANGED vars

Walk == Open \/ Scan \/ Descend \/ Ascend \/ CountLines
Next == Walk \/ Change \/ Done
Spec == Init /\ [][Next]_vars /\ WF_vars(Next)

-----------------------------------------------------------------------------
Paths == {out[m].path : m \in DOMAIN out}

TypeOK ==
  /\ present \cup touched \subseteq Entries /\ total \in Nat /\ files \in Nat
  /\ \A k \in DOMAIN stack :
       /\ stack[k].at \in {"open", "scan", "walk", "count"} /\ stack[k].total \in Nat
       /\ Len(stack[k].path) = Len(stack) - k
       /\ k > 1 => stack[k].path = Front(stack[k - 1].path)

SumOf(ms) == FoldSet(LAMBDA m, s : out[m].amount + s, 0, ms)
Own(m) == Size[IF Kind[Name(out[m].path)] = "link" THEN Target[Name(out[m].path)]
               ELSE Name(out[m].path)]

\* The report of du adds up, whatever has changed on the way: an amount is
\* the size of the thing itself and the amounts that were printed for what is
\* in it. That of loc, in the end: the total is that of its lines.
AddsUp ==
  /\ prog = "du" => \A m \in DOMAIN out :
       out[m].amount = Own(m) + SumOf({j \in DOMAIN out : /\ out[j].path # <<>>
                                                          /\ Front(out[j].path) = out[m].path})
  /\ prog = "du" /\ stack = <<>> /\ <<>> \in Paths => total = Last(out).amount
  /\ prog = "loc" => files = Len(out) /\ total = SumOf(DOMAIN out)

\* Nothing is reported twice, nothing after the directory it is in, and
\* entries of one directory come in order.
InOrder ==
  \A m, j \in DOMAIN out : m < j =>
    /\ ~IsPrefix(out[m].path, out[j].path)
    /\ Len(out[m].path) = Len(out[j].path) /\ out[m].path # <<>>
         /\ Front(out[m].path) = Front(out[j].path)
         => Last(out[m].path) < Last(out[j].path)

\* Paths of what can be opened.
Reachable ==
  LET Longer[k \in 0..Cardinality(Entries) * (MAXLINKS + 1)] ==
        IF k = 0 THEN {p \in {<<>>} : Resolve(p).ok}
        ELSE LET ps == Longer[k - 1]
             IN  ps \cup {p \in {Append(q, e) : q \in ps, e \in Entries \ {0}} : Resolve(p).ok}
  IN  Longer[Cardinality(Entries) * (MAXLINKS + 1)]

Untouched(p) == \A k \in DOMAIN p : p[k] \notin touched /\ Target[p[k]] \notin touched

\* What was there from the beginning to the end, and can be opened, has been
\* reported, if it is of the kind that is: a change elsewhere hides nothing.
Complete ==
  stack = <<>> => \A p \in Reachable : Untouched(p) =>
    CASE prog = "du" -> p \in Paths
      [] prog = "forage" -> Name(p) \in Matching => p \in Paths
      [] OTHER -> p # <<>> /\ Kind[Resolve(p).e] = "file" /\ Name(p) \in Matching
                    /\ (\A k \in DOMAIN p : p[k] \notin Hidden) => p \in Paths
=============================================================================
