-------------------------------- MODULE Mkdir --------------------------------
(***************************************************************************)
(* mkdir, mkdir -p and rmdir, run by several processes at once on the      *)
(* prefixes of one path /1/2/.../MaxDepth, named by their length. A step   *)
(* is one system call, which fails for what the tree holds (EEXIST,        *)
(* ENOENT, ENOTDIR, ENOTEMPTY) and for nothing else.                       *)
(***************************************************************************)
EXTENDS Integers, Sequences

CONSTANTS Procs,
          MaxDepth,
          Commands     \* [cmd: "mkdir", "mkdir -p" or "rmdir", args: lengths]

CommandsAssumption ==
  /\ MaxDepth \in Nat \ {0}
  /\ \A c \in Commands : /\ c.args \in Seq(1..MaxDepth) /\ c.args # <<>>
                         /\ c.cmd = "rmdir" => Len(c.args) = 1

VARIABLES fs,        \* what each prefix is: "none", "dir" or "file"
          run,       \* the command of each process
          i, at,     \* its argument, and the prefix it creates next
          status,    \* "run", "success" or "failure"
          removed,   \* history: prefixes that some rmdir has removed
          met        \* history: what a process that failed had found there

vars == <<fs, run, i, at, status, removed, met>>
Depths == 1..MaxDepth

First(c, t) == IF c.cmd = "mkdir -p" THEN 1 ELSE t

Init ==
  /\ fs \in {f \in [Depths -> {"none", "dir", "file"}] :
               \A k \in Depths \ {1} : f[k] # "none" => f[k - 1] = "dir"}
  /\ run \in [Procs -> Commands]
  /\ i = [q \in Procs |-> 1]
  /\ at = [q \in Procs |-> First(run[q], run[q].args[1])]
  /\ status = [q \in Procs |-> "run"]
  /\ removed = {} /\ met = [q \in Procs |-> "none"]

\* Mutant: an error is tried again.
ExitUnlessError(q, s) == status' = [status EXCEPT ![q] = IF s = "failure" THEN @ ELSE s]

Exit(q, s) == status' = [status EXCEPT ![q] = s]
Target(q) == run[q].args[i[q]]

\* After a directory the next one of the path, after the last one of the
\* path the next argument.
Advance(q) ==
  CASE at[q] < Target(q) -> at' = [at EXCEPT ![q] = @ + 1] /\ UNCHANGED <<i, status>>
    [] at[q] = Target(q) /\ i[q] < Len(run[q].args) ->
         /\ i' = [i EXCEPT ![q] = @ + 1]
         /\ at' = [at EXCEPT ![q] = First(run[q], run[q].args[i[q] + 1])]
         /\ UNCHANGED status
    [] OTHER -> Exit(q, "success") /\ UNCHANGED <<i, at>>

Forgives(q) == fs[at[q]] # "none" /\ at[q] < Target(q)

MakeDirectory(q) ==
  LET k == at[q]
      made == fs[k] = "none" /\ (k = 1 \/ fs[k - 1] = "dir")
  IN  /\ run[q].cmd # "rmdir" /\ status[q] = "run"
      /\ fs' = IF made THEN [fs EXCEPT ![k] = "dir"] ELSE fs
      /\ IF made \/ Forgives(q) THEN Advance(q) /\ UNCHANGED met
         ELSE Exit(q, "failure") /\ met' = [met EXCEPT ![q] = fs[k]] /\ UNCHANGED <<i, at>>
      /\ UNCHANGED <<run, removed>>

Rmdir(q) ==
  LET k == Target(q)
      empty == fs[k] = "dir" /\ (k = MaxDepth \/ fs[k + 1] = "none")
  IN  /\ run[q].cmd = "rmdir" /\ status[q] = "run"
      /\ IF empty
         THEN fs' = [fs EXCEPT ![k] = "none"] /\ removed' = removed \cup {k} /\ Exit(q, "success")
         ELSE Exit(q, "failure") /\ UNCHANGED <<fs, removed>>
      /\ UNCHANGED <<run, i, at, met>>

Done == (\A q \in Procs : status[q] # "run") /\ UNCHANGED vars

Next == (\E q \in Procs : MakeDirectory(q) \/ Rmdir(q)) \/ Done
Spec == Init /\ [][Next]_vars /\ WF_vars(Next)

-----------------------------------------------------------------------------
\* Among the types: whatever the order of the calls, what exists is below
\* directories.
TypeOK ==
  /\ fs \in [Depths -> {"none", "dir", "file"}]
  /\ \A k \in Depths \ {1} : fs[k] # "none" => fs[k - 1] = "dir"
  /\ run \in [Procs -> Commands] /\ i \in [Procs -> Nat] /\ at \in [Procs -> Depths]
  /\ \A q \in Procs : i[q] \in DOMAIN run[q].args /\ at[q] \in 1..Target(q)
  /\ removed \subseteq Depths /\ met \in [Procs -> {"none", "dir", "file"}]
  /\ status \in [Procs -> {"run", "success", "failure"}]

\* A mkdir that succeeds has left its directories there, with all their
\* parents: only an rmdir can have taken them away since.
SuccessMeansThere ==
  \A q \in Procs : status[q] = "success" /\ run[q].cmd # "rmdir" =>
    \A j \in DOMAIN run[q].args : \A k \in 1..run[q].args[j] : fs[k] = "dir" \/ k \in removed

\* A mkdir -p fails only for a reason: something was at its path already, or
\* a file stands where it needs a directory, or one of its parents has been
\* removed under its hands.
FailsForAReason ==
  \A q \in Procs : status[q] = "failure" /\ run[q].cmd = "mkdir -p" =>
    \/ met[q] # "none"
    \/ \E k \in 1..Target(q) : fs[k] = "file"
    \/ \E k \in 1..Target(q) - 1 : k \in removed

-----------------------------------------------------------------------------
\* For the proof: all above what exists are directories, and so is all that a
\* mkdir has passed, but for what was removed, and for a file just before it.
There(k) == fs[k] = "dir" \/ k \in removed
Tree == \A k \in Depths : \A j \in 1..k - 1 : fs[k] # "none" => fs[j] = "dir"
Passed(q) ==
  /\ \A j \in 1..i[q] - 1 : \A k \in 1..run[q].args[j] : There(k)
  /\ run[q].cmd # "mkdir -p" => at[q] = Target(q)
  /\ run[q].cmd = "mkdir -p" =>
       \A k \in 1..at[q] - 1 : There(k) \/ (k = at[q] - 1 /\ fs[k] = "file")
Walked == \A q \in Procs : status[q] = "run" => Passed(q)
IInv == TypeOK /\ Tree /\ Walked /\ SuccessMeansThere /\ FailsForAReason
=============================================================================
