------------------------------- MODULE Shell -------------------------------
(***************************************************************************)
(* shell.c: read a line, run it, wait, until exit or the end of standard   *)
(* input. What makes it hard is the standard input that the shell and its  *)
(* children share: the shell reads it through a stdio buffer that fork     *)
(* copies, a command reads on where the shell's last read(2) stopped, and  *)
(* a child whose execvp fails leaves through tc_exit, whose exit handlers  *)
(* give back what the copied buffer still holds when the input can be      *)
(* rewound (more.c:43 and mugwump.c:78 rely on those handlers).            *)
(* A line is its number; script[k] says what kind of command it holds.     *)
(* Lines are equally long, so that what is given back is whole lines.      *)
(***************************************************************************)
EXTENDS Integers, Sequences, SequencesExt

CONSTANTS MaxLines,   \* lines of standard input
          MaxRuns     \* commands after which a run is no longer followed

Kinds == {"command", "reader", "missing", "cd", "exit"}

VARIABLES script,     \* kinds of the lines of standard input
          seekable,   \* standard input is a file, not a pipe or a terminal
          off,        \* lines taken from the open file description so far
          buf,        \* the lines in the shell's stdio buffer
          cbuf,       \* the same of the child, copied by fork
          cur,        \* the line being executed
          done,       \* the global of that name
          pc,         \* the shell: "prompt", "try", "wait", "dead"
          cpc,        \* its child: "none", "exec", "command", "dead"
          ran,        \* history: lines executed, in order
          excused     \* history: lines eaten by a command, or lost to fork

vars == <<script, seekable, off, buf, cbuf, cur, done, pc, cpc, ran, excused>>
unchangedChild == UNCHANGED <<cbuf, cpc>>

Init ==
  /\ script \in BoundedSeq(Kinds, MaxLines)
  /\ seekable \in BOOLEAN
  /\ off = 0 /\ buf = <<>> /\ cbuf = <<>> /\ cur = 0
  /\ done = FALSE
  /\ pc = "prompt" /\ cpc = "none"
  /\ ran = <<>> /\ excused = {}

Lines(from, to) == [k \in 1..(to - from) |-> from + k]

\* getline finds its buffer empty and reads: a pipe or terminal may deliver
\* one line or several, a file all that is left.
Refill ==
  /\ pc = "prompt" /\ buf = <<>> /\ off < Len(script)
  /\ \E to \in (off + 1)..Len(script) :
       /\ seekable => to = Len(script)
       /\ buf' = Lines(off, to) /\ off' = to
  /\ UNCHANGED <<script, seekable, cur, done, pc, ran, excused>> /\ unchangedChild

Getline ==
  /\ pc = "prompt" /\ buf # <<>>
  /\ cur' = Head(buf) /\ buf' = Tail(buf)
  /\ pc' = "try"
  /\ UNCHANGED <<script, seekable, off, done, ran, excused>> /\ unchangedChild

\* End of standard input, or no memory for argvify's array.
Leave ==
  /\ \/ pc = "prompt" /\ buf = <<>> /\ off = Len(script) /\ excused' = excused
     \/ pc = "try" /\ excused' = excused \cup cur..Len(script)
  /\ pc' = "dead"
  /\ UNCHANGED <<script, seekable, off, buf, cur, done, ran>> /\ unchangedChild

\* exit sets done, cd changes the shell's own directory; neither forks.
TryInternal ==
  /\ pc = "try" /\ script[cur] \in {"cd", "exit"}
  /\ ran' = Append(ran, cur)
  /\ done' = (script[cur] = "exit")
  /\ pc' = IF done' THEN "dead" ELSE "prompt"
  /\ UNCHANGED <<script, seekable, off, buf, cur, excused>> /\ unchangedChild

Fork ==
  /\ pc = "try" /\ script[cur] \notin {"cd", "exit"}
  /\ Len(ran) < MaxRuns
  /\ pc' = "wait" /\ cpc' = "exec" /\ cbuf' = buf
  /\ UNCHANGED <<script, seekable, off, buf, cur, done, ran, excused>>

\* The -1 that tryexternal returns is not looked at.
ForkFails ==
  /\ pc = "try" /\ script[cur] \notin {"cd", "exit"}
  /\ pc' = "prompt" /\ excused' = excused \cup {cur}
  /\ UNCHANGED <<script, seekable, off, buf, cur, done, ran>> /\ unchangedChild

Exec ==
  /\ cpc = "exec" /\ script[cur] # "missing"
  /\ cpc' = "command" /\ cbuf' = <<>>
  /\ ran' = Append(ran, cur)
  /\ UNCHANGED <<script, seekable, off, buf, cur, done, pc, excused>>

\* Mutant: the child returns into the loop and takes a line of its copy.
ExecReturns ==
  /\ cpc = "exec" /\ script[cur] = "missing"
  /\ ran' = ran \o <<cur>> \o cbuf
  /\ cpc' = "dead" /\ cbuf' = <<>>
  /\ UNCHANGED <<script, seekable, off, buf, cur, done, pc, excused>>

\* tc_exit in the child: the lines its buffer holds go back to a file, unless
\* an earlier child has given back so many that the seek would end before the
\* beginning, and fails.
ExecFails ==
  /\ cpc = "exec" /\ script[cur] = "missing"
  /\ ran' = Append(ran, cur)
  /\ off' = IF seekable /\ Len(cbuf) <= off THEN off - Len(cbuf) ELSE off
  /\ cpc' = "dead" /\ cbuf' = <<>>
  /\ UNCHANGED <<script, seekable, buf, cur, done, pc, excused>>

\* A command that reads standard input takes lines the shell has not read.
Consume ==
  /\ cpc = "command" /\ script[cur] = "reader" /\ off < Len(script)
  /\ off' = off + 1 /\ excused' = excused \cup {off + 1}
  /\ UNCHANGED <<script, seekable, buf, cur, done, pc, ran>> /\ unchangedChild

\* Mutant: the command is not the child that the shell waits for.
CommandNeverReaped == cpc = "command" /\ UNCHANGED vars

CommandEnds ==
  /\ cpc = "command"
  /\ cpc' = "dead"
  /\ UNCHANGED <<script, seekable, off, buf, cbuf, cur, done, pc, ran, excused>>

Wait ==
  /\ pc = "wait" /\ cpc = "dead"
  /\ pc' = "prompt" /\ cpc' = "none"
  /\ UNCHANGED <<script, seekable, off, buf, cbuf, cur, done, ran, excused>>

Done == pc = "dead" \/ (pc = "try" /\ Len(ran) = MaxRuns)
Stop == Done /\ UNCHANGED vars

Next == \/ Refill \/ Getline \/ Leave \/ TryInternal \/ Fork \/ ForkFails
        \/ Exec \/ ExecFails \/ Consume \/ CommandEnds \/ Wait \/ Stop

\* The shell and its child run on, and a command that reads ends with its input.
Spec == Init /\ [][Next]_vars /\ WF_vars(Next)

-----------------------------------------------------------------------------
TypeOK ==
  /\ script \in Seq(Kinds) /\ seekable \in BOOLEAN /\ done \in BOOLEAN
  /\ off \in 0..Len(script) /\ cur \in 0..Len(script)
  /\ buf \in Seq(1..Len(script)) /\ cbuf \in Seq(1..Len(script))
  /\ pc \in {"prompt", "try", "wait", "dead"}
  /\ cpc \in {"none", "exec", "command", "dead"}
  /\ ran \in Seq(1..Len(script)) /\ excused \subseteq 1..Len(script)

\* Lines that have run before run again from the k-th command on.
GoesBack(k) == k > 1 /\ ran[k] <= ran[k - 1]

\* One of the first n commands could not be executed, and no line has run again
\* since then.
GivenBack(n) ==
  \E k \in 1..n : script[ran[k]] = "missing" /\ \A j \in k + 1..n : ~GoesBack(j)

\* Lines run in the order of the script and each once; a command that cannot be
\* executed may make them run again, once, and on a file only.
InOrderOnce == \A k \in DOMAIN ran : GoesBack(k) => seekable /\ GivenBack(k - 1)

\* No line is passed over: whatever comes before a line that ran has run too,
\* unless a command ate it or fork failed for it. This holds on a file as well.
NothingSkipped ==
  \A j \in DOMAIN ran : \A k \in 1..ran[j] - 1 :
    k \in ToSet(ran) \cup excused

\* When the shell leaves, it has run every line, or the one that said exit.
EndsForAReason ==
  pc = "dead" => \/ \E k \in DOMAIN ran : script[ran[k]] = "exit"
                 \/ 1..Len(script) \subseteq ToSet(ran) \cup excused

\* Nothing runs after exit.
ExitIsLast == \A k \in DOMAIN ran : script[ran[k]] = "exit" => k = Len(ran)

\* The shell comes to the end of a script that no child gives back.
MustEnd == ~seekable \/ "missing" \notin ToSet(script)
Ended == pc = "dead"

-----------------------------------------------------------------------------
\* The inductive invariant. The line in hand has been taken from the buffer
\* and not been run.
InHand == pc = "try" \/ cpc = "exec"
Waiting == /\ pc = "wait" <=> cpc # "none"
           /\ pc \in {"try", "wait"} => cur >= 1
           /\ pc = "wait" => script[cur] \notin {"cd", "exit"}

\* Every line before the end of what has been read, before one in the buffer,
\* or before the one in hand is dealt with, or is still to come.
DealtWith(k) == k \in ToSet(ran) \cup excused
Pending(k) == (InHand /\ k = cur) \/ k \in ToSet(buf)
NoGaps ==
  /\ \A k \in 1..off : DealtWith(k) \/ Pending(k)
  /\ InHand => \A k \in 1..cur - 1 : DealtWith(k)
  /\ \A m \in DOMAIN buf : \A k \in 1..buf[m] - 1 :
       DealtWith(k) \/ (InHand /\ k = cur) \/ \E n \in 1..m - 1 : buf[n] = k

\* The line in hand comes before those in the buffer. If nothing has been given
\* back, all of them have been read, and the last that ran comes before them;
\* otherwise the offset is behind them, or, after a rewind, the last that ran.
Reached == /\ InHand => cur <= off
           /\ \A k \in DOMAIN buf : buf[k] <= off
Follows == ran # <<>> => /\ InHand => Last(ran) < cur
                         /\ \A k \in DOMAIN buf : Last(ran) < buf[k]
Calm == ~seekable \/ ~GivenBack(Len(ran))
Ascending ==
  /\ \A j, k \in DOMAIN buf : j < k => buf[j] < buf[k]
  /\ \A k \in DOMAIN buf : InHand => cur < buf[k]
  /\ Calm => Reached /\ Follows /\ (ran # <<>> => Last(ran) <= off)
  /\ Reached \/ Follows

GoesOnUntilExit == pc # "dead" => \A k \in DOMAIN ran : script[ran[k]] # "exit"

IInv == /\ TypeOK /\ Waiting /\ NoGaps /\ Ascending /\ GoesOnUntilExit
        /\ InOrderOnce /\ NothingSkipped /\ EndsForAReason /\ ExitIsLast
=============================================================================
