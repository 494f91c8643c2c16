------------------------------ MODULE Operands ------------------------------
(***************************************************************************)
(* The programs that work through the files on their command line, or      *)
(* standard input without any: cat, head, sum, crc32, wc, fgrep and lolcat *)
(* read each to its end, touch and stat look at its name only. Meanwhile   *)
(* other programs append to the files and remove them, and what cat writes *)
(* may go into a file.                                                     *)
(***************************************************************************)
EXTENDS Integers, Sequences, SequencesExt, FiniteSets, FiniteSetsExt

CONSTANTS Files,      \* Stdin among them
          Dirs,       \* those that are directories
          Stdin,
          Contents,   \* what the files may hold at the start
          Operands,   \* command lines; <<Stdin>> stands for none
          flag_n,     \* head -n
          Pattern,    \* of fgrep, one character
          Code,       \* of the characters, for sum
          BITS,       \* of sum's result, 16
          DISK,       \* characters for which there is room in a file
          MaxChanges  \* what others do

Pipe == "pipe"

\* "pipe" and "total" are names of this model and of no file; at the start
\* there is room for what the files hold.
OperandsAssumption == /\ Stdin \in Files \ Dirs /\ Dirs \subseteq Files /\ {Pipe, "total"} \cap Files = {}
                      /\ Operands \subseteq Seq(Files)
                      /\ \A s \in Contents : s \in Seq(DOMAIN Code) /\ Len(s) <= DISK
                      /\ {flag_n, BITS, DISK, MaxChanges} \subseteq Nat /\ flag_n > 0 /\ BITS > 0
                      /\ \A c \in DOMAIN Code : Code[c] \in 0..(2^BITS - 1)

Copiers == {"cat", "lolcat"}
Readers == Copiers \cup {"head", "sum", "crc32", "wc", "fgrep"}
Tools == Readers \cup {"touch", "stat"}

VARIABLES tool, operands, sink,
          data, linked,  \* the files; a name that is removed may still be open
          i, at,         \* operand, and place in it, -1 when none is open
          acc, out,      \* what is gathered of this file; what is written of all
          total,         \* wc: what was counted in all files
          rows,          \* what was read or reported of each file
          start,         \* the files at the beginning
          changes, status
vars == <<tool, operands, sink, data, linked, i, at, acc, out, total, rows, start, changes, status>>
env == <<tool, operands, sink, start>>

-----------------------------------------------------------------------------
\* sum.c: the result is rotated by a bit before each character is added.
SumTurn(r, c) == ((r \div 2) + (r % 2) * 2^(BITS - 1) + Code[c]) % (2^BITS)

\* wc.c, count.
Blank(c) == c \in {" ", "\n"}
WcTurn(n, c) == [bytes |-> n.bytes + 1,
                 lines |-> IF c = "\n" THEN n.lines + 1 ELSE n.lines,
                 words |-> IF ~Blank(c) /\ ~n.inword THEN n.words + 1 ELSE n.words,
                 inword |-> ~Blank(c)]
Zero == [bytes |-> 0, lines |-> 0, words |-> 0, inword |-> FALSE]
Plus(a, b) == [bytes |-> a.bytes + b.bytes, lines |-> a.lines + b.lines,
               words |-> a.words + b.words, inword |-> FALSE]

\* What is gathered before the first character, and with each.
Begin == CASE tool = "wc" -> Zero [] tool \in {"sum", "crc32", "head"} -> 0 [] OTHER -> <<>>
Turn(c) == CASE tool = "sum" -> SumTurn(acc, c)
             [] tool = "crc32" -> acc + 1
             [] tool = "wc" -> WcTurn(acc, c)
             [] tool = "head" -> IF c = "\n" THEN acc + 1 ELSE acc
             [] tool = "fgrep" -> IF c = "\n" THEN <<>> ELSE Append(acc, c)
             [] OTHER -> acc
Matches(l) == \E k \in DOMAIN l : l[k] = Pattern
Written(c) == CASE tool \in Copiers \cup {"head"} -> <<c>>
                [] tool = "fgrep" /\ c = "\n" /\ Matches(acc) -> Append(acc, c)
                [] OTHER -> <<>>

\* What a write does: beyond the room on the disk nothing, which is not noticed.
Room(s) == SubSeq(s, 1, Min({Len(s), DISK - Len(data[sink])}))
Write(s) == /\ out' = out \o s
            /\ data' = IF sink = Pipe THEN data ELSE [data EXCEPT ![sink] = @ \o Room(s)]

-----------------------------------------------------------------------------
Init == /\ tool \in Tools /\ operands \in Operands
        /\ tool \in {"touch", "stat"} => Stdin \notin ToSet(operands)
        /\ sink \in {Pipe} \cup (IF tool = "cat" THEN Files \ (Dirs \cup {Stdin}) ELSE {})
        /\ data \in [Files -> Contents] /\ linked = Files
        /\ \A f \in Dirs \cup (Files \ ToSet(operands)) : data[f] = <<>>
        /\ start = data /\ i = 0 /\ at = -1 /\ acc = <<>> /\ out = <<>> /\ rows = <<>>
        /\ total = Zero
        /\ changes = 0 /\ status = "run"

This == operands[i + 1]
Working == status = "run" /\ i < Len(operands)

\* Mutant: a file that cannot be opened is passed over.
MissingSkipped == i' = i + 1 /\ UNCHANGED <<at, acc, status>>

Missing == status' = "failure" /\ UNCHANGED <<i, at, acc>>
Open == /\ Working /\ tool \in Readers /\ at = -1
        /\ IF This \in linked THEN at' = 0 /\ acc' = Begin /\ UNCHANGED <<i, status>> ELSE Missing
        /\ UNCHANGED <<data, linked, out, rows, changes, total, env>>

AtEnd == at = Len(data[This]) \/ (tool = "head" /\ acc = flag_n)
Read == /\ Working /\ at >= 0 /\ ~AtEnd
        /\ LET c == data[This][at + 1] IN acc' = Turn(c) /\ Write(Written(c))
        /\ at' = at + 1
        /\ UNCHANGED <<linked, i, rows, changes, status, total, env>>

\* A last line without a newline is a line for fgrep too; wc has no row for a
\* directory, and one for the total of several operands.
Counted == tool # "wc" \/ This \notin Dirs
LastLine == IF tool = "fgrep" /\ Matches(acc) THEN Append(acc, "\n") ELSE <<>>
Row == [name |-> This, read |-> SubSeq(data[This], 1, at), value |-> acc]
\* Mutant: the total is that of the last file.
TotalLast == IF tool = "wc" /\ Counted THEN acc ELSE total

TotalNow == IF tool = "wc" /\ Counted THEN Plus(total, acc) ELSE total
Close == /\ Working /\ at >= 0 /\ AtEnd
         /\ Write(LastLine) /\ total' = TotalNow
         /\ LET now == IF Counted THEN Append(rows, Row) ELSE rows
            IN  rows' = IF tool = "wc" /\ Len(operands) > 1 /\ i + 1 = Len(operands)
                        THEN Append(now, [name |-> "total", read |-> <<>>, value |-> TotalNow]) ELSE now
         /\ i' = i + 1 /\ at' = -1
         /\ UNCHANGED <<linked, acc, changes, status, env>>

\* touch.c: a name that is not there is made, a directory cannot be opened.
Touch == /\ Working /\ tool = "touch"
         /\ IF This \in Dirs /\ This \in linked THEN Missing /\ UNCHANGED <<data, linked, rows>>
            ELSE /\ linked' = linked \cup {This}
                 /\ data' = IF This \in linked THEN data ELSE [data EXCEPT ![This] = <<>>]
                 /\ rows' = Append(rows, [name |-> This, read |-> <<>>, value |-> <<>>])
                 /\ i' = i + 1 /\ UNCHANGED <<at, acc, status>>
         /\ UNCHANGED <<out, changes, total, env>>

\* stat.c: of a name that is not there only the error is shown.
Stat == /\ Working /\ tool = "stat"
        /\ rows' = IF This \in linked
                   THEN Append(rows, [name |-> This, read |-> <<>>, value |-> Len(data[This])]) ELSE rows
        /\ i' = i + 1
        /\ UNCHANGED <<data, linked, at, acc, out, changes, status, total, env>>

Finish == /\ status = "run" /\ i = Len(operands)
          /\ status' = "success"
          /\ UNCHANGED <<data, linked, i, at, acc, out, rows, changes, total, env>>

Others(f) == /\ status = "run" /\ changes < MaxChanges /\ f # sink /\ f \in linked
             /\ changes' = changes + 1
             /\ UNCHANGED <<i, at, acc, out, rows, status, total, env>>
AppendByOthers(f, c) == Others(f) /\ f \notin Dirs /\ data' = [data EXCEPT ![f] = Append(@, c)] /\ UNCHANGED linked
RemoveByOthers(f) == Others(f) /\ f # Stdin /\ linked' = linked \ {f} /\ UNCHANGED data

Program == Open \/ Read \/ Close \/ Touch \/ Stat \/ Finish
Done == status # "run" /\ UNCHANGED vars
Next == \/ Program \/ Done
        \/ \E f \in ToSet(operands) : RemoveByOthers(f) \/ \E c \in DOMAIN Code : AppendByOthers(f, c)

-----------------------------------------------------------------------------
TypeOK == /\ tool \in Tools /\ status \in {"run", "success", "failure"}
          /\ i \in 0..Len(operands) /\ at \in -1..DISK + MaxChanges
          /\ linked \subseteq Files
          /\ at >= 0 => at <= Len(data[This])
          /\ tool = "wc" /\ at >= 0 => /\ acc.bytes = at /\ acc.lines <= at
                                       /\ 2 * acc.words <= at + 1

\* cat.c, lolcat.c, head.c, sum.c, crc32.c, wc.c, fgrep.c: of each file all
\* that was in it from the beginning is read, nothing twice and nothing that
\* never was in it; head stops behind the last of its lines.
FilesRead == SelectSeq(rows, LAMBDA r : r.name # "total")
EachWhole == tool \in Readers =>
  \A k \in 1..Len(FilesRead) :
    LET r == FilesRead[k] IN
    r.name # sink =>
      /\ IsPrefix(r.read, data[r.name])
      /\ tool # "head" => IsPrefix(start[r.name], r.read)
      /\ tool = "head" => \/ IsPrefix(start[r.name], r.read)
                          \/ Last(r.read) = "\n" /\ Cardinality({x \in DOMAIN r.read : r.read[x] = "\n"}) = flag_n

\* What comes out is made of these readings, in the order of the operands.
LinesIn(s) == {l \in (1..Len(s)) \X (1..Len(s)) :
                 /\ l[1] <= l[2]
                 /\ l[1] = 1 \/ s[l[1] - 1] = "\n"
                 /\ l[2] = Len(s) \/ s[l[2]] = "\n"
                 /\ \A x \in l[1]..(l[2] - 1) : s[x] # "\n"}
Selected(s) == LET hit == {l \in LinesIn(s) : \E x \in l[1]..l[2] : s[x] = Pattern}
                   ordered == SetToSortSeq(hit, LAMBDA a, b : a[1] < b[1])
               IN  FlattenSeq([n \in 1..Len(ordered) |->
                     LET t == SubSeq(s, ordered[n][1], ordered[n][2])
                     IN  IF Last(t) = "\n" THEN t ELSE Append(t, "\n")])
OutputOf(r) == IF tool = "fgrep" THEN Selected(r.read)
               ELSE IF tool \in Copiers \cup {"head"} THEN r.read ELSE <<>>
InOrder == at = -1 /\ tool \in Readers =>
  out = FlattenSeq([k \in 1..Len(FilesRead) |-> OutputOf(FilesRead[k])])

\* The first operand that cannot be opened ends the program with a failure,
\* with all before it done; after a success all are, but for names that stat
\* did not find and directories that wc does not count.
Reported == {f \in ToSet(operands) : tool = "wc" => f \notin Dirs}
FailsAtFirst ==
  /\ status = "failure" => /\ IF tool = "touch" THEN This \in Dirs ELSE This \notin linked
                           /\ \A k \in 1..i : operands[k] \in Reported =>
                                \E n \in DOMAIN rows : rows[n].name = operands[k]
  /\ status = "success" /\ tool # "stat" => \A f \in Reported : \E n \in DOMAIN rows : rows[n].name = f
  /\ status = "success" /\ tool = "stat" => \A f \in linked \cap ToSet(operands) :
                                              \E n \in DOMAIN rows : rows[n].name = f
  /\ tool = "touch" /\ changes = 0 => \A n \in DOMAIN rows : rows[n].name \in linked

\* wc.c: the numbers are those of the text, and the total adds them up.
Starts(s) == {x \in DOMAIN s : ~Blank(s[x]) /\ (x = 1 \/ Blank(s[x - 1]))}
WcAddsUp == tool = "wc" =>
  /\ \A k \in 1..Len(FilesRead) :
       LET r == FilesRead[k]
       IN  /\ r.value.bytes = Len(r.read) /\ r.value.words = Cardinality(Starts(r.read))
           /\ r.value.lines = Cardinality({x \in DOMAIN r.read : r.read[x] = "\n"})
  /\ \A n \in DOMAIN rows : rows[n].name = "total" =>
       /\ n = Len(rows) /\ Len(operands) > 1
       /\ rows[n].value.bytes = FoldLeft(LAMBDA t, r : t + Len(r.read), 0, rows)
       /\ rows[n].value.words = FoldLeft(LAMBDA t, r : t + Cardinality(Starts(r.read)), 0, rows)

\* sum.c: two files of which one character differs have different sums.
OneDiffers(s, t) == Len(s) = Len(t) /\ Cardinality({x \in DOMAIN s : s[x] # t[x]}) = 1
SumDetects == tool = "sum" =>
  \A m, n \in DOMAIN rows : OneDiffers(rows[m].read, rows[n].read) => rows[m].value # rows[n].value

\* cat.c: a cat whose output is one of its operands, and not empty, ends only
\* when it has filled the disk, and takes that for a success.
FeedsItself ==
  tool = "cat" /\ sink \in ToSet(operands) /\ status = "success" /\ start[sink] # <<>> =>
    Len(data[sink]) = DISK

-----------------------------------------------------------------------------
\* For the proof. The types in full, with what can be said of a count at a
\* place in the text, where a word is followed by a blank or the end.
Counts == [bytes : Nat, lines : Nat, words : Nat, inword : BOOLEAN]
Types == /\ tool \in Tools /\ status \in {"run", "success", "failure"}
         /\ operands \in Seq(Files) /\ i \in 0..Len(operands) /\ changes \in 0..MaxChanges
         /\ sink = Pipe \/ (tool = "cat" /\ sink \in Files)
         /\ data \in [Files -> Seq(DOMAIN Code)] /\ linked \subseteq Files
         /\ rows \in Seq(ToSet(rows))
Lengths == /\ \A f \in Files : Len(data[f]) <= DISK + changes
           /\ sink # Pipe => Len(data[sink]) <= DISK
Reading == /\ at \in Nat \cup {-1}
           /\ at # -1 => /\ status = "run" /\ tool \in Readers /\ i < Len(operands)
                         /\ at <= Len(data[This])
                         /\ tool = "wc" => /\ acc \in Counts /\ acc.bytes = at /\ acc.lines <= at
                                           /\ 2 * acc.words <= at + IF acc.inword THEN 1 ELSE 0

\* What was passed is named; what stat did not find then is not there now.
Named(f) == \E n \in DOMAIN rows : rows[n].name = f
Due == IF tool = "stat" THEN linked ELSE Reported
Through == /\ \A k \in 1..i : operands[k] \in Due => Named(operands[k])
           /\ status = "failure" => /\ tool # "stat" /\ i < Len(operands)
                                    /\ IF tool = "touch" THEN This \in Dirs ELSE This \notin linked
           /\ status = "success" => i = Len(operands)
           /\ tool = "touch" /\ changes = 0 => \A n \in DOMAIN rows : rows[n].name \in linked

\* While there is room, a cat that reads what it writes does not come nearer
\* to its end.
Feeding == sink # Pipe /\ start[sink] # <<>> =>
             /\ Len(data[sink]) > 0
             /\ at # -1 /\ This = sink /\ Len(data[sink]) < DISK => at < Len(data[sink])
             /\ \A k \in 1..i : operands[k] = sink => Len(data[sink]) = DISK
IInv == Types /\ Lengths /\ Reading /\ Through /\ Feeding
=============================================================================
