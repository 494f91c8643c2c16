------------------------------ MODULE Foreach ------------------------------
(***************************************************************************)
(* foreach.c: run a command with system(3) for every line of standard      *)
(* input, which the command inherits. CommandLine has the substitution     *)
(* that makes the command out of the line.                                 *)
(***************************************************************************)
EXTENDS Integers, Sequences, SequencesExt

CONSTANT MaxLines

VARIABLES nlines,   \* lines that standard input will deliver
          toolong,  \* those for which CommandLine!SubstituteFits does not hold
          reads,    \* the command reads standard input
          off,      \* lines taken from the open file description
          buf,      \* lines in foreach's stdio buffer
          cur,      \* the line in hand
          pc,       \* "getline", "foreach", "system", "exit"
          status,
          ran,      \* history: lines for which the command was started
          eaten     \* history: lines the commands have read

vars == <<nlines, toolong, reads, off, buf, cur, pc, status, ran, eaten>>

Init ==
  /\ nlines \in 0..MaxLines /\ reads \in BOOLEAN
  /\ toolong \in SUBSET (1..nlines)
  /\ off = 0 /\ buf = <<>> /\ cur = 0
  /\ pc = "getline" /\ status = "running"
  /\ ran = <<>> /\ eaten = {}

Refill ==
  /\ pc = "getline" /\ buf = <<>> /\ off < nlines
  /\ off' \in (off + 1)..nlines
  /\ buf' = [k \in 1..(off' - off) |-> off + k]
  /\ UNCHANGED <<nlines, toolong, reads, cur, pc, status, ran, eaten>>

Getline ==
  /\ pc = "getline" /\ buf # <<>>
  /\ cur' = Head(buf) /\ buf' = Tail(buf) /\ pc' = "foreach"
  /\ UNCHANGED <<nlines, toolong, reads, off, status, ran, eaten>>

\* The command is put together (or there is no memory for it) and started. For
\* a line that is too long it is written beyond the end of its memory; what
\* that does is undefined, and the build may go on, or abort from then on.
Start ==
  /\ pc = "foreach"
  /\ \/ pc' = "system" /\ ran' = Append(ran, cur) /\ status' = status
     \/ pc' = "exit" /\ ran' = ran /\ status' = "FAILURE"
  /\ UNCHANGED <<nlines, toolong, reads, off, buf, cur, eaten>>

Overrun == (pc = "foreach" /\ cur \in toolong) \/ ToSet(ran) \cap toolong # {}
Aborted ==
  /\ pc # "exit" /\ Overrun
  /\ pc' = "exit" /\ status' = "KILLED"
  /\ UNCHANGED <<nlines, toolong, reads, off, buf, cur, ran, eaten>>

Consume ==
  /\ pc = "system" /\ reads /\ off < nlines
  /\ off' = off + 1 /\ eaten' = eaten \cup {off + 1}
  /\ UNCHANGED <<nlines, toolong, reads, buf, cur, pc, status, ran>>

\* What system returns is not looked at.
SystemReturns ==
  /\ pc = "system"
  /\ pc' = "getline"
  /\ UNCHANGED <<nlines, toolong, reads, off, buf, cur, status, ran, eaten>>

EndOfInput ==
  /\ pc = "getline" /\ buf = <<>> /\ off = nlines
  /\ pc' = "exit" /\ status' = "SUCCESS"
  /\ UNCHANGED <<nlines, toolong, reads, off, buf, cur, ran, eaten>>

Done == pc = "exit" /\ UNCHANGED vars

Next == Refill \/ Getline \/ Start \/ Aborted \/ Consume \/ SystemReturns \/ EndOfInput \/ Done
Spec == Init /\ [][Next]_vars /\ WF_vars(Next)

-----------------------------------------------------------------------------
TypeOK ==
  /\ nlines \in 0..MaxLines /\ toolong \subseteq 1..nlines
  /\ off \in 0..nlines /\ cur \in 0..nlines /\ buf \in Seq(1..nlines)
  /\ pc \in {"getline", "foreach", "system", "exit"}
  /\ ran \in Seq(1..nlines) /\ eaten \subseteq 1..nlines

\* The command runs once for a line, in the order of the input, and never for
\* a line that another command has read.
InOrderOnce ==
  /\ \A j, k \in DOMAIN ran : j < k => ran[j] < ran[k]
  /\ ToSet(ran) \cap eaten = {}

\* On success no line is missing, but for those that the commands have read.
AllOrEaten == status = "SUCCESS" => 1..nlines \subseteq ToSet(ran) \cup eaten

\* foreach aborts only after it has put together a command for a line that is
\* too long; every line before has run, or has been read by a command.
KilledByLine ==
  status = "KILLED" =>
    \E k \in toolong : /\ k \in ToSet(ran) \cup {cur}
                       /\ 1..k - 1 \subseteq ToSet(ran) \cup eaten

Ended == pc = "exit"

-----------------------------------------------------------------------------
\* The inductive invariant. Lines that have run come before the one in hand,
\* that before those in the buffer; all of them have been read, by foreach.
InHand == pc = "foreach"
Ascending ==
  /\ \A j, k \in DOMAIN buf : j < k => buf[j] < buf[k]
  /\ \A j \in DOMAIN ran : ran[j] <= off /\ ran[j] \notin eaten /\ (InHand => ran[j] < cur)
  /\ \A k \in DOMAIN buf : buf[k] <= off /\ buf[k] \notin eaten /\ (InHand => cur < buf[k])
  /\ \A j \in DOMAIN ran, k \in DOMAIN buf : ran[j] < buf[k]
  /\ InHand => 1 <= cur /\ cur <= off /\ cur \notin eaten
  /\ \A k \in eaten : k <= off

\* Every line that has been read is accounted for.
NoGaps == status \notin {"FAILURE", "KILLED"} =>
  \A k \in 1..off : k \in ToSet(ran) \cup eaten \cup ToSet(buf) \/ (InHand /\ k = cur)
Outcome == /\ status \in {"running", "SUCCESS", "FAILURE", "KILLED"}
           /\ status # "running" => pc = "exit"

IInv == /\ TypeOK /\ Ascending /\ NoGaps /\ Outcome
        /\ InOrderOnce /\ AllOrEaten /\ KilledByLine
=============================================================================
