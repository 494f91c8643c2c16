------------------------------- MODULE Repeat -------------------------------
(***************************************************************************)
(* repeat.c: run a command again and again with fork, execvp and waitpid.  *)
(* A child is a copy of the program until execvp replaces it, so every     *)
(* process has the program's own state. Process 0 is the one the user      *)
(* started. An int has the values -IntMax - 1 .. IntMax.                   *)
(***************************************************************************)
EXTENDS Integers

CONSTANTS Pid,      \* process numbers, a set of naturals that contains 0
          IntMax,   \* INT_MAX
          Codes     \* exit codes a command may have (8 bits)

RepeatAssumption == /\ Pid \subseteq Nat /\ 0 \in Pid
                           /\ IntMax \in Nat \ {0}
                           /\ Codes \subseteq 0..255

TC_EXIT_SUCCESS == 0
TC_EXIT_FAILURE == 1
Signalled == -1         \* a wait status that is not an exit

VARIABLES flag_n,   \* how often, 0 for ever
          pc,       \* per process: "none", "loop", "exec", "wait", "command", "dead"
          i,        \* per process: the loop counter
          pid,      \* per process: the child it waits for
          status,   \* per process: its wait status once dead
          ended,    \* history: commands that ended well, at most IntMax + 1
          bad       \* history: the first wait status that was not success

vars == <<flag_n, pc, i, pid, status, ended, bad>>

\* -n goes through tc_atoi; a negative number counts as 0.
Init ==
  /\ \E arg \in -1..IntMax : flag_n = IF arg < 0 THEN 0 ELSE arg
  /\ pc = [p \in Pid |-> IF p = 0 THEN "loop" ELSE "none"]
  /\ i = [p \in Pid |-> 0]
  /\ pid = [p \in Pid |-> 0]
  /\ status = [p \in Pid |-> TC_EXIT_SUCCESS]
  /\ ended = 0
  /\ bad = TC_EXIT_SUCCESS

Exit(p, st) == /\ pc' = [pc EXCEPT ![p] = "dead"]
               /\ status' = [status EXCEPT ![p] = st]

\* Mutant: one time too many.
AgainInclusive(p) == pc[p] = "loop" /\ (i[p] <= flag_n \/ flag_n = 0)

Again(p) == pc[p] = "loop" /\ (i[p] < flag_n \/ flag_n = 0)

\* The child starts as a copy of its parent.
Fork(p) ==
  /\ Again(p)
  /\ \E q \in Pid :
       /\ pc[q] = "none"
       /\ pc' = [pc EXCEPT ![p] = "wait", ![q] = "exec"]
       /\ pid' = [pid EXCEPT ![p] = q, ![q] = 0]
       /\ i' = [i EXCEPT ![q] = i[p]]
  /\ UNCHANGED <<flag_n, status, ended, bad>>

\* do_cmd returns -1, which main passes to tc_exit.
ForkFails(p) ==
  /\ Again(p)
  /\ Exit(p, (-1) % 256)
  /\ UNCHANGED <<flag_n, i, pid, ended, bad>>

Exec(p) ==
  /\ pc[p] = "exec"
  /\ pc' = [pc EXCEPT ![p] = "command"]
  /\ UNCHANGED <<flag_n, i, pid, status, ended, bad>>

\* What is known of a command (or of a child that never became one) when it
\* is over.
Record(st) == IF st = TC_EXIT_SUCCESS \/ st = Signalled
              THEN ended' = (IF ended > IntMax THEN ended ELSE ended + 1) /\ bad' = bad
              ELSE bad' = (IF bad = TC_EXIT_SUCCESS THEN st ELSE bad) /\ ended' = ended

ExecFails(p) ==
  /\ pc[p] = "exec"
  /\ Exit(p, TC_EXIT_FAILURE)
  /\ Record(TC_EXIT_FAILURE)
  /\ UNCHANGED <<flag_n, i, pid>>

\* The command exits, or a signal kills it.
CommandEnds(p) ==
  /\ pc[p] = "command"
  /\ \E st \in Codes \cup {Signalled} : Exit(p, st) /\ Record(st)
  /\ UNCHANGED <<flag_n, i, pid>>

\* Mutant: the wait status is passed on as it is.
WaitStatus(st) == st

\* WEXITSTATUS of a status that is not an exit is 0 on this encoding.
WEXITSTATUS(st) == IF st = Signalled THEN 0 ELSE st

\* Mutant: waitpid with WNOHANG.
WaitNot(p) ==
  /\ pc[p] = "wait"
  /\ pc' = [pc EXCEPT ![p] = "loop"]
  /\ i' = [i EXCEPT ![p] = IF @ = IntMax THEN -IntMax - 1 ELSE @ + 1]
  /\ UNCHANGED <<flag_n, pid, status, ended, bad>>

\* waitpid returns when the child is dead; then either the next round, or the
\* program ends with the command's exit code. The counter wraps after INT_MAX
\* rounds, which is possible only when it is not looked at.
Wait(p) ==
  LET q == pid[p]
      rc == WEXITSTATUS(status[q])
  IN  /\ pc[p] = "wait" /\ pc[q] = "dead"
      /\ IF rc # TC_EXIT_SUCCESS
         THEN /\ pc' = [pc EXCEPT ![p] = "dead", ![q] = "none"]
              /\ status' = [status EXCEPT ![p] = rc]
              /\ i' = i
         ELSE /\ pc' = [pc EXCEPT ![p] = "loop", ![q] = "none"]
              /\ i' = [i EXCEPT ![p] = IF @ = IntMax THEN -IntMax - 1 ELSE @ + 1]
              /\ status' = status
      /\ UNCHANGED <<flag_n, pid, ended, bad>>

Finish(p) ==
  /\ pc[p] = "loop" /\ ~Again(p)
  /\ Exit(p, TC_EXIT_SUCCESS)
  /\ UNCHANGED <<flag_n, i, pid, ended, bad>>

Done == pc[0] = "dead" /\ UNCHANGED vars

Next == \/ \E p \in Pid : \/ Fork(p) \/ ForkFails(p) \/ Exec(p) \/ ExecFails(p)
                          \/ CommandEnds(p) \/ Wait(p) \/ Finish(p)
        \/ Done

\* Of the processes only one can go on at any time, and commands end.
Spec == Init /\ [][Next]_vars /\ WF_vars(Next)

-----------------------------------------------------------------------------
TypeOK ==
  /\ flag_n \in 0..IntMax
  /\ pc \in [Pid -> {"none", "loop", "exec", "wait", "command", "dead"}]
  /\ i \in [Pid -> (-IntMax - 1)..IntMax]
  /\ pid \in [Pid -> Pid]
  /\ status \in [Pid -> 0..255 \cup {Signalled}] /\ status[0] \in 0..255
  /\ ended \in 0..IntMax + 1
  /\ bad \in 0..255

\* Only the process the user started runs the loop: a copy made by fork turns
\* into the command or dies, it never forks and waits for commands itself.
OnlyParentLoops == \A p \in Pid \ {0} : pc[p] \notin {"loop", "wait"}

\* Commands run one at a time, and none is left behind, running or as a
\* zombie, when the next one is about to start or the program has ended.
OneAtATime ==
  /\ \A p, q \in Pid \ {0} : pc[p] # "none" /\ pc[q] # "none" => p = q
  /\ pc[0] \in {"loop", "dead"} => \A p \in Pid \ {0} : pc[p] = "none"

\* Exit status 0 means: for -n N with N > 0, exactly N commands were run and
\* none of them exited with another status; for ever, never. Another status
\* is that of the command that failed, or 255 when fork failed.
ExitStatus ==
  pc[0] = "dead" =>
    \/ status[0] = 0 /\ bad = 0 /\ flag_n > 0 /\ ended = flag_n
    \/ status[0] = bad /\ bad # 0
    \/ status[0] = 255 /\ bad = 0

\* With -n the program ends; without it, it ends once a command fails.
MustEnd == flag_n > 0 \/ bad # TC_EXIT_SUCCESS
Ended == pc[0] = "dead"

-----------------------------------------------------------------------------
\* The inductive invariant behind the three. At most one other process than
\* the first is there, the one that the first waits for.
OneChild ==
  /\ pc[0] \in {"loop", "wait", "dead"}
  /\ \A p \in Pid \ {0} : /\ pc[p] \in {"none", "exec", "command", "dead"}
                          /\ pc[p] # "none" => pc[0] = "wait" /\ pid[0] = p
  /\ pc[0] = "wait" => pid[0] # 0 /\ pc[pid[0]] # "none"

\* Where the counter is looked at, it is the number of commands that the loop
\* has seen end well; a command that has failed is the one being waited for.
Counts(k) == bad = TC_EXIT_SUCCESS /\ (flag_n > 0 => ended = k /\ k <= flag_n)
ChildEnded == pc[pid[0]] = "dead"
ChildStatus == status[pid[0]]

Counted ==
  /\ pc[0] = "loop" => Counts(i[0])
  /\ pc[0] = "wait" =>
       /\ ~ChildEnded => Counts(i[0]) /\ (flag_n > 0 => i[0] < flag_n)
       /\ ChildEnded => IF ChildStatus \in {TC_EXIT_SUCCESS, Signalled}
                        THEN Counts(i[0] + 1) ELSE bad = ChildStatus

IInv == TypeOK /\ OneChild /\ Counted /\ ExitStatus
=============================================================================
