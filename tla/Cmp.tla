-------------------------------- MODULE Cmp --------------------------------
(***************************************************************************)
(* cmp: two files are read side by side, a character of each at a time,    *)
(* until the characters differ or one file is at its end.  getc tells the  *)
(* end of a file and an error by the same EOF.                             *)
(***************************************************************************)
EXTENDS Integers, Sequences, FiniteSets

CONSTANTS Chars, MaxLen

EOF == "EOF"

CmpAssumption == MaxLen \in Nat /\ "\n" \in Chars /\ EOF \notin Chars

VARIABLES file,    \* the contents of the two files
          bad,     \* where reading them fails: at a position, or nowhere (0)
          flag_s,
          pos,     \* how many characters have been read of each
          byte, line,
          report,  \* what is printed: <<>> or <<byte, line>>
          status   \* "", "success" or "failure"

vars == <<file, bad, flag_s, pos, byte, line, report, status>>

F == {1, 2}

Init ==
  /\ file \in [F -> UNION {[1..k -> Chars] : k \in 0..MaxLen}]
  /\ bad \in [F -> 0..MaxLen] /\ flag_s \in BOOLEAN
  /\ pos = 0 /\ byte = 1 /\ line = 1 /\ report = <<>> /\ status = ""

Fails(f) == bad[f] = pos + 1 /\ pos + 1 <= Len(file[f])

Getc(f) == IF pos < Len(file[f]) /\ ~Fails(f) THEN file[f][pos + 1] ELSE EOF

NextLine == IF Getc(1) = "\n" THEN line + 1 ELSE line

\* Mutant: a file that is the beginning of the other is taken for the same.
DiffersInBoth == Getc(1) # Getc(2) /\ EOF \notin {Getc(1), Getc(2)}

Differs == Getc(1) # Getc(2)

Differ ==
  /\ status = "" /\ Differs
  /\ report' = IF flag_s THEN <<>> ELSE <<byte, line>>
  /\ status' = "failure"
  /\ UNCHANGED <<file, bad, flag_s, pos, byte, line>>

CountByte == byte' = byte + 1

\* The characters are the same, and neither file is at its end: of an error
\* the first file is asked, and the second file's end twice.
Ended == \E f \in F : Getc(f) = EOF

Same ==
  /\ status = "" /\ ~Differs
  /\ line' = NextLine /\ CountByte /\ pos' = pos + 1
  /\ status' = IF Ended THEN "success" ELSE ""
  /\ UNCHANGED <<file, bad, flag_s, report>>

Done == status # "" /\ UNCHANGED vars

Next == Differ \/ Same \/ Done
Spec == Init /\ [][Next]_vars

-----------------------------------------------------------------------------
TypeOK ==
  /\ byte = pos + 1 /\ line \in 1..byte /\ status \in {"", "success", "failure"}
  /\ file \in [F -> Seq(Chars)] /\ bad \in [F -> 0..MaxLen] /\ flag_s \in BOOLEAN
  /\ pos \in 0..Len(file[1]) + 1
  /\ report # <<>> => status = "failure" /\ ~flag_s

\* What can be read of a file: all of it, or what is before the error.
Readable(f) == IF bad[f] \in 1..Len(file[f]) THEN SubSeq(file[f], 1, bad[f] - 1) ELSE file[f]

\* The exit status tells whether the files are the same, as far as they can be
\* read: an error is taken for the end.
TellsSame == status # "" => (status = "success" <=> Readable(1) = Readable(2))

Newlines(k) == {m \in 1..k : file[1][m] = "\n"}

\* The place that is reported is the first one where what can be read of the
\* files differs, or where one of them ends, with the number of its line.
FirstDifference ==
  report # <<>> =>
    LET k == report[1] IN
    /\ SubSeq(Readable(1), 1, k - 1) = SubSeq(Readable(2), 1, k - 1)
    /\ \/ \E f \in F : Len(Readable(f)) = k - 1 /\ Len(Readable(3 - f)) >= k
       \/ k <= Len(Readable(1)) /\ k <= Len(Readable(2)) /\ Readable(1)[k] # Readable(2)[k]
    /\ report[2] = 1 + Cardinality(Newlines(k - 1))

-----------------------------------------------------------------------------
\* For the proof: what has been read is the same in both files, and the
\* counters are at its end.
Agrees ==
  status # "success" =>
    /\ \A f \in F : pos <= Len(Readable(f))
    /\ \A k \in 1..pos : file[1][k] = file[2][k]
    /\ line = 1 + Cardinality(Newlines(pos))
Told == /\ status = "failure" => Differs /\ report = IF flag_s THEN <<>> ELSE <<byte, line>>
        /\ status # "failure" => report = <<>>
        /\ status = "success" => Readable(1) = Readable(2)
IInv == TypeOK /\ Agrees /\ Told
=============================================================================
