-------------------------- MODULE MC_Children_proofs --------------------------
(***************************************************************************)
(* Proofs about repeat, shell and foreach, for any number of processes,    *)
(* lines and commands.                                                     *)
(***************************************************************************)
EXTENDS MC_Children, SequenceTheorems, TLAPS

-----------------------------------------------------------------------------
(* repeat *)

LEMMA RepeatInit == Repeat!Init => Repeat!IInv
<1> SUFFICES ASSUME Repeat!Init PROVE Repeat!IInv
  OBVIOUS
<1> USE RepeatAssumed DEF Repeat!RepeatAssumption
<1>1. flag_n \in 0..IntMax
  BY DEF Repeat!Init
<1>2. Repeat!TypeOK
  BY <1>1 DEF Repeat!Init, Repeat!TypeOK, Repeat!TC_EXIT_SUCCESS, Repeat!Signalled
<1>3. Repeat!OneChild
  BY DEF Repeat!Init, Repeat!OneChild
<1>4. Repeat!Counted /\ Repeat!ExitStatus
  BY <1>1 DEF Repeat!Init, Repeat!Counted, Repeat!Counts, Repeat!ExitStatus, Repeat!TC_EXIT_SUCCESS
<1> QED
  BY <1>2, <1>3, <1>4 DEF Repeat!IInv

\* Only the first process forks, and the child is the only one it has.
LEMMA RepeatFork ==
  ASSUME Repeat!IInv, NEW p \in Pid, Repeat!Fork(p)
  PROVE  Repeat!IInv'
<1> USE RepeatAssumed DEF Repeat!RepeatAssumption
<1>1. p = 0
  BY DEF Repeat!IInv, Repeat!OneChild, Repeat!Fork, Repeat!Again
<1>2. PICK q \in Pid :
        /\ pc[q] = "none"
        /\ pc' = [pc EXCEPT ![0] = "wait", ![q] = "exec"]
        /\ pid' = [pid EXCEPT ![0] = q, ![q] = 0]
        /\ i' = [i EXCEPT ![q] = i[0]]
  BY <1>1 DEF Repeat!Fork
<1>3. pc[0] = "loop" /\ (i[0] < flag_n \/ flag_n = 0) /\ UNCHANGED <<flag_n, status, ended, bad>>
  BY <1>1 DEF Repeat!Fork, Repeat!Again
<1>4. q # 0
  BY <1>2, <1>3
<1>5. Repeat!TypeOK'
  BY <1>2, <1>3 DEF Repeat!IInv, Repeat!TypeOK
<1>6. Repeat!OneChild'
  BY <1>2, <1>3, <1>4 DEF Repeat!IInv, Repeat!TypeOK, Repeat!OneChild
<1>7. Repeat!Counted' /\ Repeat!ExitStatus'
  BY <1>2, <1>3, <1>4 DEF Repeat!IInv, Repeat!TypeOK, Repeat!Counted, Repeat!Counts,
     Repeat!ChildEnded, Repeat!ChildStatus, Repeat!ExitStatus
<1> QED
  BY <1>5, <1>6, <1>7 DEF Repeat!IInv

\* A child ends, as a command or because execvp has failed.
LEMMA RepeatChildEnds ==
  ASSUME Repeat!IInv, NEW p \in Pid, pc[p] \in {"exec", "command"},
         NEW st \in Codes \cup {Repeat!Signalled, Repeat!TC_EXIT_FAILURE},
         Repeat!Exit(p, st), Repeat!Record(st), UNCHANGED <<flag_n, i, pid>>
  PROVE  Repeat!IInv'
<1> USE RepeatAssumed DEF Repeat!RepeatAssumption
<1>1. p # 0 /\ pc[0] = "wait" /\ pid[0] = p
  BY DEF Repeat!IInv, Repeat!OneChild
<1>2. st \in 0..255 \cup {Repeat!Signalled}
  BY DEF Repeat!TC_EXIT_FAILURE
<1>3. pc' = [pc EXCEPT ![p] = "dead"] /\ status' = [status EXCEPT ![p] = st]
  BY DEF Repeat!Exit
<1>4. bad = 0 /\ (flag_n > 0 => ended = i[0] /\ i[0] < flag_n)
  BY <1>1 DEF Repeat!IInv, Repeat!Counted, Repeat!Counts, Repeat!ChildEnded, Repeat!TC_EXIT_SUCCESS
<1>5. CASE st \in {0, Repeat!Signalled}
  <2>1. bad' = 0 /\ ended' = IF ended > IntMax THEN ended ELSE ended + 1
    BY <1>4, <1>5 DEF Repeat!Record, Repeat!TC_EXIT_SUCCESS, Repeat!Signalled
  <2>2. Repeat!TypeOK'
    BY <1>1, <1>2, <1>3, <2>1 DEF Repeat!IInv, Repeat!TypeOK
  <2>3. Repeat!OneChild'
    BY <1>1, <1>3 DEF Repeat!IInv, Repeat!TypeOK, Repeat!OneChild
  <2>4. flag_n > 0 => ended' = i[0] + 1 /\ i[0] + 1 <= flag_n
    BY <1>4, <2>1 DEF Repeat!IInv, Repeat!TypeOK
  <2>5. Repeat!Counted' /\ Repeat!ExitStatus'
    BY <1>1, <1>3, <1>5, <2>1, <2>4 DEF Repeat!IInv, Repeat!TypeOK, Repeat!Counted, Repeat!Counts,
       Repeat!ChildEnded, Repeat!ChildStatus, Repeat!ExitStatus, Repeat!TC_EXIT_SUCCESS
  <2> QED
    BY <2>2, <2>3, <2>5 DEF Repeat!IInv
<1>6. CASE st \notin {0, Repeat!Signalled}
  <2>1. bad' = st /\ ended' = ended
    BY <1>4, <1>6 DEF Repeat!Record, Repeat!TC_EXIT_SUCCESS, Repeat!Signalled
  <2>2. Repeat!TypeOK'
    BY <1>1, <1>2, <1>3, <1>6, <2>1 DEF Repeat!IInv, Repeat!TypeOK
  <2>3. Repeat!OneChild'
    BY <1>1, <1>3 DEF Repeat!IInv, Repeat!TypeOK, Repeat!OneChild
  <2>4. Repeat!Counted' /\ Repeat!ExitStatus'
    BY <1>1, <1>3, <1>6, <2>1 DEF Repeat!IInv, Repeat!TypeOK, Repeat!Counted, Repeat!Counts,
       Repeat!ChildEnded, Repeat!ChildStatus, Repeat!ExitStatus, Repeat!TC_EXIT_SUCCESS
  <2> QED
    BY <2>2, <2>3, <2>4 DEF Repeat!IInv
<1> QED
  BY <1>5, <1>6

\* waitpid returns: the status is passed on, or the next round begins.
LEMMA RepeatWait ==
  ASSUME Repeat!IInv, NEW p \in Pid, Repeat!Wait(p)
  PROVE  Repeat!IInv'
<1> USE RepeatAssumed DEF Repeat!RepeatAssumption
<1> DEFINE q == pid[0]
           rc == Repeat!WEXITSTATUS(status[q])
<1>1. p = 0
  BY DEF Repeat!IInv, Repeat!OneChild, Repeat!Wait
<1>2. /\ pc[0] = "wait" /\ pc[q] = "dead" /\ UNCHANGED <<flag_n, pid, ended, bad>>
      /\ IF rc # 0 THEN /\ pc' = [pc EXCEPT ![0] = "dead", ![q] = "none"]
                        /\ status' = [status EXCEPT ![0] = rc] /\ i' = i
                   ELSE /\ pc' = [pc EXCEPT ![0] = "loop", ![q] = "none"]
                        /\ i' = [i EXCEPT ![0] = IF @ = IntMax THEN -IntMax - 1 ELSE @ + 1]
                        /\ status' = status
  BY <1>1 DEF Repeat!Wait, Repeat!TC_EXIT_SUCCESS
<1>3. q \in Pid \ {0} /\ status[q] \in 0..255 \cup {Repeat!Signalled} /\ i[0] \in (-IntMax - 1)..IntMax
  BY <1>2 DEF Repeat!IInv, Repeat!TypeOK, Repeat!OneChild
<1>4. IF status[q] \in {0, Repeat!Signalled}
      THEN bad = 0 /\ (flag_n > 0 => ended = i[0] + 1 /\ i[0] + 1 <= flag_n)
      ELSE bad = status[q]
  BY <1>2 DEF Repeat!IInv, Repeat!Counted, Repeat!Counts, Repeat!ChildEnded, Repeat!ChildStatus,
     Repeat!TC_EXIT_SUCCESS
<1> HIDE DEF q
<1>5. Repeat!OneChild'
  BY <1>2, <1>3 DEF Repeat!IInv, Repeat!TypeOK, Repeat!OneChild, q
<1>6. CASE rc # 0
  <2>1. rc = status[q] /\ rc \in 1..255 /\ bad = rc
    BY <1>3, <1>4, <1>6 DEF Repeat!WEXITSTATUS, Repeat!Signalled
  <2>2. Repeat!TypeOK'
    BY <1>2, <1>3, <1>6, <2>1 DEF Repeat!IInv, Repeat!TypeOK
  <2>3. pc'[0] = "dead" /\ status'[0] = rc
    BY <1>2, <1>3, <1>6 DEF Repeat!IInv, Repeat!TypeOK
  <2>4. Repeat!Counted' /\ Repeat!ExitStatus'
    BY <1>2, <2>1, <2>3 DEF Repeat!Counted, Repeat!ExitStatus
  <2> QED
    BY <1>5, <2>2, <2>4 DEF Repeat!IInv
<1>7. CASE rc = 0
  <2>1. bad = 0 /\ (flag_n > 0 => ended = i[0] + 1 /\ i[0] + 1 <= flag_n)
    BY <1>3, <1>4, <1>7 DEF Repeat!WEXITSTATUS, Repeat!Signalled
  <2>2. Repeat!TypeOK'
    BY <1>2, <1>3, <1>7 DEF Repeat!IInv, Repeat!TypeOK
  <2>3. pc'[0] = "loop" /\ (flag_n > 0 => i'[0] = i[0] + 1)
    BY <1>2, <1>3, <1>7, <2>1 DEF Repeat!IInv, Repeat!TypeOK
  <2>4. Repeat!Counted' /\ Repeat!ExitStatus'
    BY <1>2, <2>1, <2>3 DEF Repeat!Counted, Repeat!Counts, Repeat!ExitStatus, Repeat!TC_EXIT_SUCCESS
  <2> QED
    BY <1>5, <2>2, <2>4 DEF Repeat!IInv
<1> QED
  BY <1>6, <1>7

LEMMA RepeatStepInv == Repeat!IInv /\ [Repeat!Next]_(Repeat!vars) => Repeat!IInv'
<1> SUFFICES ASSUME Repeat!IInv, [Repeat!Next]_(Repeat!vars) PROVE Repeat!IInv'
  OBVIOUS
<1> USE RepeatAssumed DEF Repeat!RepeatAssumption
<1>1. ASSUME NEW p \in Pid, Repeat!Fork(p) PROVE Repeat!IInv'
  BY <1>1, RepeatFork
<1>2. ASSUME NEW p \in Pid, Repeat!ForkFails(p) \/ Repeat!Finish(p) PROVE Repeat!IInv'
  <2>1. p = 0 /\ pc[0] = "loop" /\ UNCHANGED <<flag_n, i, pid, ended, bad>>
    BY <1>2 DEF Repeat!IInv, Repeat!OneChild, Repeat!ForkFails, Repeat!Finish, Repeat!Again
  <2>2. Repeat!Counts(i[0])
    BY <2>1 DEF Repeat!IInv, Repeat!Counted
  <2>3. /\ pc' = [pc EXCEPT ![0] = "dead"]
        /\ \/ status' = [status EXCEPT ![0] = 255]
           \/ status' = [status EXCEPT ![0] = 0] /\ flag_n # 0 /\ ~(i[0] < flag_n)
    <3>1. (-1) % 256 = 255
      <4>1. \A x \in Int : x < 0 /\ x >= -256 => x % 256 = x + 256
        OBVIOUS
      <4>2. -1 \in Int /\ -1 < 0 /\ -1 >= -256 /\ (-1) + 256 = 255
        OBVIOUS
      <4> QED
        BY <4>1, <4>2
    <3>2. CASE Repeat!ForkFails(p)
      BY <2>1, <3>1, <3>2 DEF Repeat!ForkFails, Repeat!Exit
    <3>3. CASE Repeat!Finish(p)
      BY <2>1, <3>3 DEF Repeat!Finish, Repeat!Again, Repeat!Exit, Repeat!TC_EXIT_SUCCESS
    <3> QED
      BY <1>2, <3>2, <3>3
  <2>4. Repeat!TypeOK'
    BY <2>1, <2>3 DEF Repeat!IInv, Repeat!TypeOK
  <2>5. Repeat!OneChild'
    BY <2>1, <2>3 DEF Repeat!IInv, Repeat!TypeOK, Repeat!OneChild
  <2>6. Repeat!Counted' /\ Repeat!ExitStatus'
    BY <2>1, <2>2, <2>3 DEF Repeat!IInv, Repeat!TypeOK, Repeat!Counted, Repeat!Counts,
       Repeat!ExitStatus, Repeat!TC_EXIT_SUCCESS
  <2> QED
    BY <2>4, <2>5, <2>6 DEF Repeat!IInv
<1>3. ASSUME NEW p \in Pid, Repeat!Exec(p) PROVE Repeat!IInv'
  <2>1. p # 0 /\ pc' = [pc EXCEPT ![p] = "command"] /\ pc[p] = "exec"
    BY <1>3 DEF Repeat!IInv, Repeat!OneChild, Repeat!Exec
  <2>2. Repeat!TypeOK' /\ Repeat!OneChild'
    BY <1>3, <2>1 DEF Repeat!IInv, Repeat!TypeOK, Repeat!OneChild, Repeat!Exec
  <2>3. Repeat!Counted' /\ Repeat!ExitStatus'
    BY <1>3, <2>1 DEF Repeat!IInv, Repeat!TypeOK, Repeat!OneChild, Repeat!Exec, Repeat!Counted,
       Repeat!Counts, Repeat!ChildEnded, Repeat!ExitStatus
  <2> QED
    BY <2>2, <2>3 DEF Repeat!IInv
<1>4. ASSUME NEW p \in Pid, Repeat!ExecFails(p) PROVE Repeat!IInv'
  BY <1>4, RepeatChildEnds DEF Repeat!ExecFails
<1>5. ASSUME NEW p \in Pid, Repeat!CommandEnds(p) PROVE Repeat!IInv'
  BY <1>5, RepeatChildEnds DEF Repeat!CommandEnds
<1>6. ASSUME NEW p \in Pid, Repeat!Wait(p) PROVE Repeat!IInv'
  BY <1>6, RepeatWait
<1>7. CASE UNCHANGED Repeat!vars
  BY <1>7 DEF Repeat!vars, Repeat!IInv, Repeat!TypeOK, Repeat!OneChild, Repeat!Counted, Repeat!Counts,
     Repeat!ChildEnded, Repeat!ChildStatus, Repeat!ExitStatus
<1> QED
  BY <1>1, <1>2, <1>3, <1>4, <1>5, <1>6, <1>7 DEF Repeat!Next, Repeat!Done

-----------------------------------------------------------------------------
(* What shell and foreach do to their sequences *)

Elements(s) == {s[k] : k \in DOMAIN s}


\* One more line at the end of a list of lines.
LEMMA Appended ==
  ASSUME NEW S, NEW s \in Seq(S), NEW e \in S, NEW t, t = Append(s, e)
  PROVE  /\ t \in Seq(S) /\ DOMAIN t = 1..Len(s) + 1 /\ DOMAIN s = 1..Len(s)
         /\ Len(s) \in Nat /\ Len(t) = Len(s) + 1
         /\ \A k \in 1..Len(s) : t[k] = s[k]
         /\ t[Len(s) + 1] = e
         /\ Elements(t) = Elements(s) \cup {e}
<1>1. /\ t \in Seq(S) /\ Len(t) = Len(s) + 1 /\ Len(s) \in Nat
      /\ \A k \in 1..Len(s) : t[k] = s[k]
      /\ t[Len(s) + 1] = e
  BY AppendProperties, LenProperties
<1>2. DOMAIN t = 1..Len(s) + 1 /\ DOMAIN s = 1..Len(s)
  BY <1>1, LenProperties
<1>3. Elements(t) = Elements(s) \cup {e}
  BY <1>1, <1>2 DEF Elements
<1> QED
  BY <1>1, <1>2, <1>3

\* The first line of the buffer is taken out of it.
LEMMA Taken ==
  ASSUME NEW S, NEW s \in Seq(S), s # <<>>, NEW t, t = Tail(s)
  PROVE  /\ t \in Seq(S) /\ Head(s) \in S /\ Head(s) = s[1]
         /\ Len(s) \in Nat \ {0} /\ DOMAIN s = 1..Len(s) /\ DOMAIN t = 1..Len(s) - 1
         /\ \A k \in 1..Len(s) - 1 : t[k] = s[k + 1]
         /\ Elements(s) = Elements(t) \cup {s[1]}
<1>1. /\ t \in Seq(S) /\ Len(t) = Len(s) - 1 /\ Len(s) \in Nat \ {0}
      /\ \A k \in 1..Len(s) - 1 : t[k] = s[k + 1]
  BY HeadTailProperties, LenProperties, EmptySeq
<1>2. DOMAIN s = 1..Len(s) /\ DOMAIN t = 1..Len(s) - 1
  BY <1>1, LenProperties
<1>3. Head(s) = s[1] /\ s[1] \in S
  BY <1>1, ElementOfSeq
<1>4. Elements(s) = Elements(t) \cup {s[1]}
  <2>1. ASSUME NEW k \in 1..Len(s) PROVE s[k] \in Elements(t) \cup {s[1]}
    <3>1. CASE k = 1
      BY <3>1
    <3>2. CASE k # 1
      <4>1. k - 1 \in 1..Len(s) - 1 /\ (k - 1) + 1 = k
        BY <3>2, <1>1
      <4>2. t[k - 1] = s[k]
        BY <4>1, <1>1
      <4> QED
        BY <4>1, <4>2, <1>2 DEF Elements
    <3> QED
      BY <3>1, <3>2
  <2>2. ASSUME NEW k \in 1..Len(s) - 1 PROVE t[k] \in Elements(s)
    <3>1. t[k] = s[k + 1] /\ k + 1 \in 1..Len(s)
      BY <1>1
    <3> QED
      BY <3>1, <1>2 DEF Elements
  <2>3. s[1] \in Elements(s)
    BY <1>1, <1>2 DEF Elements
  <2> QED
    BY <1>2, <2>1, <2>2, <2>3 DEF Elements
<1> QED
  BY <1>1, <1>2, <1>3, <1>4

\* What one read delivers.
LEMMA Delivered ==
  ASSUME NEW n \in Nat, NEW from \in 0..n, NEW to \in (from + 1)..n,
         NEW t, t = [k \in 1..(to - from) |-> from + k]
  PROVE  /\ t \in Seq(1..n) /\ DOMAIN t = 1..(to - from)
         /\ \A k \in 1..(to - from) : t[k] = from + k
         /\ Elements(t) = (from + 1)..to
<1>1. DOMAIN t = 1..(to - from) /\ \A k \in 1..(to - from) : t[k] = from + k
  OBVIOUS
<1>2. \A k \in 1..(to - from) : t[k] \in 1..n
  BY <1>1
<1>3. to - from \in Nat
  OBVIOUS
<1>4. t \in Seq(1..n)
  BY <1>1, <1>2, <1>3, IsASeq
<1>5. ASSUME NEW m \in (from + 1)..to PROVE \E k \in 1..(to - from) : t[k] = m
  <2>1. m - from \in 1..(to - from) /\ from + (m - from) = m
    OBVIOUS
  <2> QED
    BY <1>1, <2>1
<1>6. Elements(t) = (from + 1)..to
  BY <1>1, <1>5 DEF Elements
<1> QED
  BY <1>1, <1>4, <1>6

-----------------------------------------------------------------------------
(* shell *)

LEMMA ShellElements == \A s : Shell!ToSet(s) = Elements(s)
BY DEF Shell!ToSet, Elements

LEMMA ShellInit == Shell!Init => Shell!IInv
<1> SUFFICES ASSUME Shell!Init PROVE Shell!IInv
  OBVIOUS
<1>1. PICK m \in 0..ShellLines : script \in [1..m -> Shell!Kinds]
  BY DEF Shell!Init, Shell!BoundedSeq, Shell!SeqOf
<1>2. script \in Seq(Shell!Kinds) /\ Len(script) = m
  BY <1>1
<1>3. off = 0 /\ cur = 0 /\ buf = <<>> /\ cbuf = <<>> /\ ran = <<>> /\ excused = {}
  BY DEF Shell!Init
<1>4. pc = "prompt" /\ cpc = "none" /\ seekable \in BOOLEAN /\ done \in BOOLEAN
  BY Zenon DEF Shell!Init
<1>5. \A S : <<>> \in Seq(S)
  BY EmptySeq
<1>6. Shell!TypeOK
  BY <1>1, <1>2, <1>3, <1>4, <1>5 DEF Shell!TypeOK
<1>7. Shell!Waiting /\ Shell!GoesOnUntilExit /\ Shell!EndsForAReason
  BY <1>3, <1>4 DEF Shell!Waiting, Shell!GoesOnUntilExit, Shell!EndsForAReason
<1>8. Shell!NoGaps /\ Shell!Ascending
  BY <1>3, <1>4 DEF Shell!NoGaps, Shell!Ascending, Shell!Reached, Shell!Follows, Shell!InHand
<1>9. Shell!InOrderOnce /\ Shell!NothingSkipped /\ Shell!ExitIsLast
  BY <1>3 DEF Shell!InOrderOnce, Shell!NothingSkipped, Shell!ExitIsLast
<1> QED
  BY <1>6, <1>7, <1>8, <1>9 DEF Shell!IInv

\* The line in hand runs, in the shell or in its child, which may give lines
\* back to a file: everything before it has been dealt with.
LEMMA ShellLineRuns ==
  ASSUME Shell!IInv, Shell!InHand, ran' = Append(ran, cur), ~Shell!InHand',
         UNCHANGED <<script, seekable, buf, cur, excused>>,
         off' \in 0..off, off' = off \/ (seekable /\ script[cur] = "missing"),
         pc # "dead", pc' = "dead" <=> script[cur] = "exit", pc' \in {"prompt", "wait", "dead"},
         cpc' \in {"none", "command", "dead"}, Shell!Waiting',
         cbuf' \in Seq(1..Len(script)), done' \in BOOLEAN
  PROVE  Shell!IInv'
<1> DEFINE n == Len(script)
<1>0. PICK r \in Nat : r = Len(ran)
  BY LenProperties DEF Shell!IInv, Shell!TypeOK
<1>1. /\ script \in Seq(Shell!Kinds) /\ n \in Nat /\ off \in 0..n /\ cur \in 0..n
      /\ ran \in Seq(1..n) /\ buf \in Seq(1..n) /\ excused \subseteq 1..n
  BY LenProperties DEF Shell!IInv, Shell!TypeOK
<1>2. cur \in 1..n
  BY <1>1 DEF Shell!IInv, Shell!Waiting, Shell!InHand
<1>3. /\ ran' \in Seq(1..n) /\ r \in Nat /\ DOMAIN ran = 1..r /\ DOMAIN ran' = 1..r + 1
      /\ Len(ran') = r + 1 /\ ran'[r + 1] = cur
      /\ \A k \in 1..r : ran'[k] = ran[k]
  BY <1>0, <1>1, <1>2, Appended
<1> HIDE DEF n
<1>4. \A k : Shell!DealtWith(k)' <=> Shell!DealtWith(k) \/ k = cur
  <2>1. Elements(ran') = Elements(ran) \cup {cur}
    BY <1>3 DEF Elements
  <2> QED
    BY <2>1, ShellElements DEF Shell!DealtWith
<1>5. Shell!TypeOK'
  <2>1. off' \in 0..n /\ done' \in BOOLEAN /\ seekable' \in BOOLEAN
    BY <1>1 DEF Shell!IInv, Shell!TypeOK, n
  <2> QED
    BY <1>1, <1>3, <2>1 DEF Shell!TypeOK, n
<1>6. Shell!NoGaps'
  <2>1. ASSUME NEW k \in 1..off' PROVE (Shell!DealtWith(k) \/ Shell!Pending(k))'
    <3>1. Shell!DealtWith(k) \/ Shell!Pending(k)
      BY <1>1 DEF Shell!IInv, Shell!NoGaps
    <3> QED
      BY <1>4, <3>1 DEF Shell!Pending
  <2>2. ASSUME NEW m \in DOMAIN buf, NEW k \in 1..buf[m] - 1
        PROVE  Shell!DealtWith(k)' \/ \E l \in 1..m - 1 : buf[l] = k
    BY <1>4 DEF Shell!IInv, Shell!NoGaps
  <2> QED
    BY <2>1, <2>2 DEF Shell!NoGaps
<1>7. \A q \in 0..r : Shell!GivenBack(q)' <=> Shell!GivenBack(q)
  <2>1. \A k \in 1..r : Shell!GoesBack(k)' <=> Shell!GoesBack(k)
    BY <1>3 DEF Shell!GoesBack
  <2>2. ASSUME NEW q \in 0..r PROVE Shell!GivenBack(q)' <=> Shell!GivenBack(q)
    <3>1. 1..q \subseteq 1..r /\ \A k \in 1..q : k + 1..q \subseteq 1..r
      BY <1>3
    <3> QED
      BY <1>3, <2>1, <3>1 DEF Shell!GivenBack
  <2> QED
    BY <2>2
<1>8. Shell!GoesBack(r + 1)' => Shell!Reached /\ ~Shell!Calm
  <2> SUFFICES ASSUME Shell!GoesBack(r + 1)' PROVE Shell!Reached /\ ~Shell!Calm
    OBVIOUS
  <2>1. r \in 1..r /\ cur <= ran[r] /\ ran[r] \in 1..n
    BY <1>1, <1>3, ElementOfSeq DEF Shell!GoesBack
  <2>2. ran # <<>> /\ Shell!Last(ran) = ran[r]
    BY <1>0, <1>3, <2>1 DEF Shell!Last
  <2>3. ~Shell!Follows
    BY <1>2, <2>1, <2>2 DEF Shell!Follows
  <2> QED
    BY <2>3 DEF Shell!IInv, Shell!Ascending
<1>12. Shell!InOrderOnce'
  <2>1. ASSUME NEW k \in 1..r, Shell!GoesBack(k)' PROVE seekable /\ Shell!GivenBack(k - 1)'
    <3>1. k - 1 \in 0..r /\ k \in DOMAIN ran
      BY <1>3
    <3>2. Shell!GoesBack(k)
      BY <1>3, <2>1, <3>1 DEF Shell!GoesBack
    <3> QED
      BY <1>7, <3>1, <3>2 DEF Shell!IInv, Shell!InOrderOnce
  <2>2. Shell!GoesBack(r + 1)' => seekable /\ Shell!GivenBack(r)'
    BY <1>0, <1>3, <1>7, <1>8 DEF Shell!Calm
  <2>3. ASSUME NEW k \in 1..r + 1, Shell!GoesBack(k)' PROVE seekable /\ Shell!GivenBack(k - 1)'
    <3>1. CASE k \in 1..r
      BY <2>1, <2>3, <3>1
    <3>2. CASE k = r + 1
      <4>1. k - 1 = r
        BY <1>3, <3>2
      <4> QED
        BY ONLY <2>2, <2>3, <3>2, <4>1
    <3> QED
      BY <1>3, <3>1, <3>2
  <2> QED
    BY <1>3, <2>3 DEF Shell!InOrderOnce
<1>13. Shell!Ascending'
  <2>1. \A k \in DOMAIN buf : cur < buf[k]
    BY DEF Shell!IInv, Shell!Ascending
  <2>2. ran' # <<>> /\ Shell!Last(ran)' = cur
    BY <1>3 DEF Shell!Last
  <2>3. Shell!Follows'
    BY <2>1, <2>2 DEF Shell!Follows
  <2>4. Shell!Calm' => off' = off /\ Shell!Reached
    <3> SUFFICES ASSUME Shell!Calm' PROVE off' = off /\ Shell!Reached
      OBVIOUS
    <3>1. CASE ~seekable
      BY <3>1 DEF Shell!IInv, Shell!Ascending, Shell!Calm
    <3>2. CASE seekable /\ ~Shell!GivenBack(r + 1)'
      <4>1. script[cur] # "missing"
        <5>1. r + 1 \in 1..r + 1 /\ (r + 1) + 1..r + 1 = {}
          BY <1>3
        <5> QED
          BY <1>3, <3>2, <5>1 DEF Shell!GivenBack
      <4>2. CASE ~Shell!GivenBack(r)
        BY <1>0, <4>1, <4>2 DEF Shell!IInv, Shell!Ascending, Shell!Calm
      <4>3. CASE Shell!GivenBack(r)
        <5>1. r \in 0..r
          BY <1>3
        <5>2. Shell!GivenBack(r)'
          BY <1>7, <4>3, <5>1
        <5>3. \A k \in 1..r : \A j \in k + 1..r + 1 : j \in k + 1..r \/ j = r + 1
          BY <1>3
        <5>5. 1..r \subseteq 1..r + 1
          BY <1>3
        <5>4. Shell!GoesBack(r + 1)'
          BY <3>2, <5>2, <5>3, <5>5 DEF Shell!GivenBack
        <5> QED
          BY <1>8, <4>1, <5>4
      <4> QED
        BY <4>2, <4>3
    <3> QED
      BY <1>3, <3>1, <3>2 DEF Shell!Calm
  <2>5. Shell!Calm' => Shell!Reached' /\ (ran' # <<>> => Shell!Last(ran)' <= off')
    BY <2>2, <2>4 DEF Shell!Reached
  <2>6. \A j, k \in DOMAIN buf' : j < k => buf'[j] < buf'[k]
    BY DEF Shell!IInv, Shell!Ascending
  <2> QED
    BY <2>3, <2>5, <2>6 DEF Shell!Ascending
<1>9. Shell!NothingSkipped'
  <2>1. \A k \in 1..cur - 1 : Shell!DealtWith(k)
    BY DEF Shell!IInv, Shell!NoGaps
  <2>2. \A j \in 1..r : \A k \in 1..ran[j] - 1 : Shell!DealtWith(k)
    BY <1>3 DEF Shell!IInv, Shell!NothingSkipped, Shell!DealtWith
  <2>3. \A j \in 1..r + 1 : \A k \in 1..ran'[j] - 1 : Shell!DealtWith(k)'
    BY <1>3, <1>4, <2>1, <2>2
  <2> QED
    BY <1>3, <2>3 DEF Shell!NothingSkipped, Shell!DealtWith
<1>10. \A k \in 1..r : script[ran[k]] # "exit"
  BY <1>3 DEF Shell!IInv, Shell!GoesOnUntilExit
<1>11. Shell!GoesOnUntilExit' /\ Shell!ExitIsLast' /\ Shell!EndsForAReason'
  <2>1. \A k \in 1..r + 1 : script[ran'[k]] = "exit" <=> k = r + 1 /\ pc' = "dead"
    BY <1>3, <1>10
  <2>2. Shell!GoesOnUntilExit'
    BY <1>3, <2>1 DEF Shell!GoesOnUntilExit
  <2>3. Shell!ExitIsLast'
    BY <1>3, <2>1 DEF Shell!ExitIsLast
  <2>4. r + 1 \in DOMAIN ran'
    BY <1>3
  <2>5. Shell!EndsForAReason'
    <3>1. pc' = "dead" => script'[ran'[r + 1]] = "exit"
      BY <1>3, <2>1
    <3> QED
      BY <2>4, <3>1, Zenon DEF Shell!EndsForAReason
  <2> QED
    BY <2>2, <2>3, <2>5
<1> QED
  BY <1>5, <1>6, <1>9, <1>11, <1>12, <1>13 DEF Shell!IInv

\* Steps that run no line: what has run stays in order and without gaps.
LEMMA ShellRanUnchanged ==
  ASSUME Shell!IInv, UNCHANGED <<script, seekable, ran>>, pc # "dead", excused \subseteq excused'
  PROVE  /\ Shell!InOrderOnce' /\ Shell!NothingSkipped' /\ Shell!ExitIsLast'
         /\ Shell!GoesOnUntilExit'
         /\ pc' # "dead" => Shell!EndsForAReason'
         /\ \A k : Shell!DealtWith(k) => Shell!DealtWith(k)'
         /\ Shell!Calm' <=> Shell!Calm
<1>1. Shell!InOrderOnce' /\ Shell!ExitIsLast'
  BY DEF Shell!IInv, Shell!InOrderOnce, Shell!ExitIsLast, Shell!GoesBack, Shell!GivenBack
<1>5. Shell!Calm' <=> Shell!Calm
  BY DEF Shell!Calm, Shell!GoesBack, Shell!GivenBack
<1>2. Shell!NothingSkipped'
  BY ShellElements DEF Shell!IInv, Shell!NothingSkipped
<1>3. Shell!GoesOnUntilExit' /\ (pc' # "dead" => Shell!EndsForAReason')
  BY DEF Shell!IInv, Shell!GoesOnUntilExit, Shell!EndsForAReason
<1>4. \A k : Shell!DealtWith(k) => Shell!DealtWith(k)'
  BY ShellElements DEF Shell!DealtWith
<1> QED
  BY <1>1, <1>2, <1>3, <1>4, <1>5

LEMMA ShellRefill ==
  ASSUME Shell!IInv, Shell!Refill PROVE Shell!IInv'
<1> DEFINE n == Len(script)
<1>1. /\ n \in Nat /\ off \in 0..n /\ buf = <<>> /\ pc = "prompt" /\ cpc = "none"
  BY LenProperties DEF Shell!IInv, Shell!TypeOK, Shell!Waiting, Shell!Refill
<1>2. PICK to \in (off + 1)..n : buf' = [k \in 1..(to - off) |-> off + k] /\ off' = to
  BY DEF Shell!Refill, Shell!Lines
<1>3. UNCHANGED <<script, seekable, cur, done, pc, ran, excused, cbuf, cpc>>
  BY DEF Shell!Refill, Shell!unchangedChild
<1> HIDE DEF n
<1>4. /\ buf' \in Seq(1..n) /\ DOMAIN buf' = 1..(to - off)
      /\ \A k \in 1..(to - off) : buf'[k] = off + k
  BY <1>1, <1>2, Delivered
<1>5. ~Shell!InHand /\ ~Shell!InHand'
  BY <1>1, <1>3 DEF Shell!InHand
<1>6. \A k \in 1..off : Shell!DealtWith(k)
  <2>1. \A k : ~Shell!Pending(k)
    BY <1>1, <1>5 DEF Shell!Pending, Shell!ToSet
  <2> QED
    BY <2>1 DEF Shell!IInv, Shell!NoGaps
<1>7. /\ Shell!InOrderOnce' /\ Shell!NothingSkipped' /\ Shell!ExitIsLast'
      /\ Shell!GoesOnUntilExit' /\ Shell!EndsForAReason'
      /\ \A k : Shell!DealtWith(k) => Shell!DealtWith(k)'
  BY <1>1, <1>3, ShellRanUnchanged
<1>8. Shell!TypeOK' /\ Shell!Waiting'
  BY <1>1, <1>2, <1>3, <1>4 DEF Shell!IInv, Shell!TypeOK, Shell!Waiting, n
<1>9. Shell!NoGaps'
  <2>1. ASSUME NEW k \in 1..off' PROVE Shell!DealtWith(k)' \/ Shell!Pending(k)'
    <3>1. CASE k <= off
      BY <1>1, <1>2, <1>6, <1>7, <3>1
    <3>2. CASE ~(k <= off)
      <4>1. k - off \in 1..(to - off) /\ off + (k - off) = k
        BY <1>1, <1>2, <3>2
      <4>2. buf'[k - off] = k /\ k - off \in DOMAIN buf'
        BY <1>4, <4>1
      <4> QED
        BY <4>2 DEF Shell!Pending, Shell!ToSet
    <3> QED
      BY <3>1, <3>2
  <2>2. ASSUME NEW m \in DOMAIN buf', NEW k \in 1..buf'[m] - 1
        PROVE  Shell!DealtWith(k)' \/ \E l \in 1..m - 1 : buf'[l] = k
    <3>1. m \in 1..(to - off) /\ buf'[m] = off + m
      BY <1>4
    <3>2. CASE k <= off
      BY <1>1, <1>6, <1>7, <3>1, <3>2
    <3>3. CASE ~(k <= off)
      <4>1. k - off \in 1..m - 1 /\ k - off \in 1..(to - off) /\ off + (k - off) = k
        BY <1>1, <1>2, <3>1, <3>3
      <4> QED
        BY <1>4, <4>1
    <3> QED
      BY <3>2, <3>3
  <2> QED
    BY <1>5, <2>1, <2>2 DEF Shell!NoGaps
<1>10. Shell!Ascending'
  <2>1. Shell!Calm' <=> Shell!Calm
    BY <1>1, <1>3, ShellRanUnchanged
  <2>2. ran # <<>> => Shell!Last(ran) \in 1..n
    BY ElementOfSeq, LenProperties, EmptySeq DEF Shell!IInv, Shell!TypeOK, Shell!Last, n
  <2>3. \A k \in 1..(to - off) : buf'[k] <= to /\ off < buf'[k]
    BY <1>1, <1>2, <1>4
  <2>4. Shell!Reached'
    BY <1>2, <1>4, <1>5, <2>3 DEF Shell!Reached
  <2>5. Shell!Calm => (ran # <<>> => Shell!Last(ran) <= off)
    BY DEF Shell!IInv, Shell!Ascending
  <2>6. Shell!Calm => Shell!Follows' /\ (ran' # <<>> => Shell!Last(ran)' <= off')
    BY <1>1, <1>2, <1>3, <1>4, <1>5, <2>2, <2>3, <2>5 DEF Shell!Follows
  <2>7. \A j, k \in DOMAIN buf' : j < k => buf'[j] < buf'[k]
    BY <1>1, <1>4
  <2> QED
    BY <1>5, <2>1, <2>4, <2>6, <2>7 DEF Shell!Ascending
<1> QED
  BY <1>7, <1>8, <1>9, <1>10 DEF Shell!IInv

LEMMA ShellGetline ==
  ASSUME Shell!IInv, Shell!Getline PROVE Shell!IInv'
<1> DEFINE n == Len(script)
           b == Len(buf)
<1>1. /\ n \in Nat /\ off \in 0..n /\ buf \in Seq(1..n) /\ ran \in Seq(1..n)
      /\ buf # <<>> /\ pc = "prompt" /\ cpc = "none"
  BY LenProperties DEF Shell!IInv, Shell!TypeOK, Shell!Waiting, Shell!Getline
<1>2. cur' = Head(buf) /\ buf' = Tail(buf) /\ pc' = "try"
  BY DEF Shell!Getline
<1>3. UNCHANGED <<script, seekable, off, done, ran, excused, cbuf, cpc>>
  BY DEF Shell!Getline, Shell!unchangedChild
<1> HIDE DEF n
<1>4. /\ buf' \in Seq(1..n) /\ cur' \in 1..n /\ cur' = buf[1]
      /\ b \in Nat \ {0} /\ DOMAIN buf = 1..b /\ DOMAIN buf' = 1..b - 1
      /\ \A k \in 1..b - 1 : buf'[k] = buf[k + 1]
  BY <1>1, <1>2, Taken
<1> HIDE DEF b
<1>5. ~Shell!InHand /\ Shell!InHand'
  BY <1>1, <1>2 DEF Shell!InHand
<1>6. /\ Shell!InOrderOnce' /\ Shell!NothingSkipped' /\ Shell!ExitIsLast'
      /\ Shell!GoesOnUntilExit' /\ Shell!EndsForAReason'
      /\ \A k : Shell!DealtWith(k) => Shell!DealtWith(k)'
  BY <1>1, <1>2, <1>3, ShellRanUnchanged
<1>7. Shell!TypeOK' /\ Shell!Waiting'
  BY <1>1, <1>2, <1>3, <1>4 DEF Shell!IInv, Shell!TypeOK, Shell!Waiting, n
<1>8. ASSUME NEW m \in 1..b, NEW k \in 1..buf[m] - 1
      PROVE  Shell!DealtWith(k)' \/ \E l \in 1..m - 1 : buf[l] = k
  BY <1>4, <1>5, <1>6 DEF Shell!IInv, Shell!NoGaps
<1>9. Shell!NoGaps'
  <2>1. ASSUME NEW k \in 1..off PROVE Shell!DealtWith(k)' \/ Shell!Pending(k)'
    <3>1. Shell!DealtWith(k) \/ \E m \in 1..b : buf[m] = k
      BY <1>4, <1>5 DEF Shell!IInv, Shell!NoGaps, Shell!Pending, Shell!ToSet
    <3>2. ASSUME NEW m \in 1..b, buf[m] = k PROVE Shell!Pending(k)'
      <4>1. CASE m = 1
        BY <1>4, <1>5, <3>2, <4>1 DEF Shell!Pending
      <4>2. CASE m # 1
        <5>1. m - 1 \in 1..b - 1 /\ (m - 1) + 1 = m
          BY <1>4, <4>2
        <5>2. buf'[m - 1] = k /\ m - 1 \in DOMAIN buf'
          BY <1>4, <3>2, <5>1
        <5> QED
          BY <5>2 DEF Shell!Pending, Shell!ToSet
      <4> QED
        BY <4>1, <4>2
    <3> QED
      BY <1>6, <3>1, <3>2
  <2>2. \A k \in 1..cur' - 1 : Shell!DealtWith(k)'
    BY <1>4, <1>8
  <2>3. ASSUME NEW m \in DOMAIN buf', NEW k \in 1..buf'[m] - 1
        PROVE  Shell!DealtWith(k)' \/ k = cur' \/ \E l \in 1..m - 1 : buf'[l] = k
    <3>1. m \in 1..b - 1 /\ buf'[m] = buf[m + 1] /\ m + 1 \in 1..b /\ (m + 1) - 1 = m
      BY <1>4
    <3>2. Shell!DealtWith(k)' \/ \E l \in 1..m : buf[l] = k
      BY <1>8, <3>1
    <3>3. ASSUME NEW l \in 1..m, buf[l] = k PROVE k = cur' \/ \E j \in 1..m - 1 : buf'[j] = k
      <4>1. CASE l = 1
        BY <1>4, <3>3, <4>1
      <4>2. CASE l # 1
        <5>1. l - 1 \in 1..m - 1 /\ l - 1 \in 1..b - 1 /\ (l - 1) + 1 = l
          BY <1>4, <3>1, <4>2
        <5> QED
          BY <1>4, <3>3, <5>1
      <4> QED
        BY <4>1, <4>2
    <3> QED
      BY <3>2, <3>3
  <2> QED
    BY <1>3, <1>5, <2>1, <2>2, <2>3 DEF Shell!NoGaps
<1>10. Shell!Ascending'
  <2>1. \A j, k \in 1..b : j < k => buf[j] < buf[k]
    BY <1>4 DEF Shell!IInv, Shell!Ascending
  <2>2. \A j, k \in 1..b - 1 : j < k => buf'[j] < buf'[k]
    BY <1>4, <2>1
  <2>3. \A k \in 1..b - 1 : cur' < buf'[k]
    BY <1>4, <2>1
  <2>4. Shell!Reached => Shell!Reached'
    <3> SUFFICES ASSUME Shell!Reached PROVE Shell!Reached'
      OBVIOUS
    <3>1. \A k \in 1..b : buf[k] <= off
      BY <1>4 DEF Shell!Reached
    <3>2. cur' <= off /\ \A k \in 1..b - 1 : buf'[k] <= off
      BY <1>4, <3>1
    <3> QED
      BY <1>3, <1>4, <3>2 DEF Shell!Reached
  <2>5. Shell!Follows => Shell!Follows'
    BY <1>3, <1>4 DEF Shell!Follows
  <2>6. Shell!Calm' <=> Shell!Calm
    BY <1>1, <1>2, <1>3, ShellRanUnchanged
  <2> QED
    BY <1>3, <1>4, <2>2, <2>3, <2>4, <2>5, <2>6 DEF Shell!IInv, Shell!Ascending
<1> QED
  BY <1>6, <1>7, <1>9, <1>10 DEF Shell!IInv

\* The end of the input, or no memory: nothing is left that is not accounted
\* for.
LEMMA ShellLeaves ==
  ASSUME Shell!IInv, Shell!Leave PROVE Shell!IInv'
<1> DEFINE n == Len(script)
<1>1. /\ n \in Nat /\ cur \in 0..n /\ pc # "dead" /\ pc # "wait" /\ cpc = "none"
      /\ pc = "try" => cur >= 1
  BY LenProperties, Zenon DEF Shell!IInv, Shell!TypeOK, Shell!Waiting, Shell!Leave
<1>2. pc' = "dead" /\ UNCHANGED <<script, seekable, off, buf, cur, done, ran, cbuf, cpc>>
  BY DEF Shell!Leave, Shell!unchangedChild
<1>3. excused \subseteq excused'
  BY DEF Shell!Leave
<1>4. /\ Shell!InOrderOnce' /\ Shell!NothingSkipped' /\ Shell!ExitIsLast' /\ Shell!GoesOnUntilExit'
      /\ \A k : Shell!DealtWith(k) => Shell!DealtWith(k)'
  BY <1>1, <1>2, <1>3, ShellRanUnchanged
<1>5. \A k \in 1..n : Shell!DealtWith(k)'
  <2>1. CASE pc = "prompt" /\ buf = <<>> /\ off = n
    <3>1. \A k : ~Shell!Pending(k)
      BY <1>1, <2>1 DEF Shell!Pending, Shell!InHand, Shell!ToSet
    <3> QED
      BY <1>4, <2>1, <3>1 DEF Shell!IInv, Shell!NoGaps
  <2>2. CASE pc = "try" /\ excused' = excused \cup cur..n
    <3>1. \A k \in 1..cur - 1 : Shell!DealtWith(k)
      BY <2>2 DEF Shell!IInv, Shell!NoGaps, Shell!InHand
    <3>2. \A k \in cur..n : Shell!DealtWith(k)'
      BY <2>2 DEF Shell!DealtWith
    <3> QED
      BY <1>1, <1>4, <2>2, <3>1, <3>2
  <2> QED
    BY <2>1, <2>2 DEF Shell!Leave
<1>6. Shell!EndsForAReason'
  BY <1>2, <1>5 DEF Shell!EndsForAReason, Shell!DealtWith
<1>7. Shell!TypeOK'
  <2>1. excused \subseteq 1..n
    BY DEF Shell!IInv, Shell!TypeOK
  <2>2. excused' = excused \/ (excused' = excused \cup cur..n /\ cur >= 1)
    BY <1>1 DEF Shell!Leave
  <2>3. excused' \subseteq 1..n
    <3> HIDE DEF n
    <3>1. n \in Nat /\ cur \in 0..n
      BY <1>1
    <3>2. cur >= 1 => cur..n \subseteq 1..n
      BY <3>1
    <3> QED
      BY <2>1, <2>2, <3>2
  <2> QED
    BY <1>2, <2>3 DEF Shell!IInv, Shell!TypeOK
<1>8. Shell!Waiting'
  BY <1>1, <1>2 DEF Shell!Waiting
<1>9. Shell!NoGaps'
  <2>1. /\ off \in 0..n /\ buf \in Seq(1..n)
    BY DEF Shell!IInv, Shell!TypeOK
  <2>2. \A m \in DOMAIN buf : buf[m] \in 1..n
    BY <2>1, ElementOfSeq, LenProperties
  <2> QED
    BY <1>1, <1>2, <1>5, <2>1, <2>2 DEF Shell!NoGaps
<1>10. Shell!Ascending'
  <2>1. Shell!Calm' <=> Shell!Calm
    BY <1>1, <1>2, <1>3, ShellRanUnchanged
  <2> QED
    BY <1>1, <1>2, <2>1 DEF Shell!IInv, Shell!Ascending, Shell!Reached, Shell!Follows, Shell!InHand
<1> QED
  BY <1>4, <1>6, <1>7, <1>8, <1>9, <1>10 DEF Shell!IInv

\* fork fails, and the line in hand is never looked at again.
LEMMA ShellForkFails ==
  ASSUME Shell!IInv, Shell!ForkFails PROVE Shell!IInv'
<1> DEFINE n == Len(script)
<1>1. /\ pc = "try" /\ pc' = "prompt" /\ excused' = excused \cup {cur}
      /\ UNCHANGED <<script, seekable, off, buf, cur, done, ran, cbuf, cpc>>
  BY DEF Shell!ForkFails, Shell!unchangedChild
<1>2. n \in Nat /\ cur \in 1..n /\ cpc = "none"
  <2>1. n \in Nat /\ cur \in 0..n
    BY LenProperties DEF Shell!IInv, Shell!TypeOK
  <2>2. cur >= 1 /\ cpc = "none"
    BY <1>1 DEF Shell!IInv, Shell!Waiting
  <2> QED
    BY <2>1, <2>2
<1>3. Shell!InHand /\ ~Shell!InHand'
  BY <1>1, <1>2 DEF Shell!InHand
<1>4. /\ Shell!InOrderOnce' /\ Shell!NothingSkipped' /\ Shell!ExitIsLast'
      /\ Shell!GoesOnUntilExit' /\ Shell!EndsForAReason'
      /\ \A k : Shell!DealtWith(k) => Shell!DealtWith(k)'
  BY <1>1, ShellRanUnchanged
<1>5. Shell!TypeOK' /\ Shell!Waiting'
  BY <1>1, <1>2 DEF Shell!IInv, Shell!TypeOK, Shell!Waiting
<1>6. Shell!DealtWith(cur)'
  BY <1>1 DEF Shell!DealtWith
<1>7. Shell!NoGaps'
  BY <1>1, <1>3, <1>4, <1>6 DEF Shell!IInv, Shell!NoGaps, Shell!Pending
<1>8. Shell!Ascending'
  <2>1. Shell!Calm' <=> Shell!Calm
    BY <1>1, ShellRanUnchanged
  <2> QED
    BY <1>1, <1>3, <2>1 DEF Shell!IInv, Shell!Ascending, Shell!Reached, Shell!Follows
<1> QED
  BY <1>4, <1>5, <1>7, <1>8 DEF Shell!IInv

\* The child is born with the line in hand; it ends; the shell has waited for it.
LEMMA ShellChild ==
  ASSUME Shell!IInv, Shell!Fork \/ Shell!CommandEnds \/ Shell!Wait PROVE Shell!IInv'
<1>1. UNCHANGED <<script, seekable, off, buf, cur, done, ran, excused>>
  BY DEF Shell!Fork, Shell!CommandEnds, Shell!Wait
<1>2. /\ pc \in {"try", "wait"} /\ pc' \in {"prompt", "wait"}
      /\ Shell!InHand' = Shell!InHand /\ cbuf' \in {cbuf, buf}
      /\ cpc' \in {"none", "exec", "dead"} /\ Shell!Waiting'
  <2>1. CASE Shell!Fork
    BY <2>1 DEF Shell!Fork, Shell!InHand, Shell!IInv, Shell!Waiting
  <2>2. CASE Shell!CommandEnds
    BY <2>2 DEF Shell!CommandEnds, Shell!InHand, Shell!IInv, Shell!Waiting, Shell!TypeOK
  <2>3. CASE Shell!Wait
    BY <2>3 DEF Shell!Wait, Shell!InHand, Shell!IInv, Shell!Waiting
  <2> QED
    BY <2>1, <2>2, <2>3
<1>3. /\ Shell!InOrderOnce' /\ Shell!NothingSkipped' /\ Shell!ExitIsLast'
      /\ Shell!GoesOnUntilExit' /\ Shell!EndsForAReason'
      /\ \A k : Shell!DealtWith(k) => Shell!DealtWith(k)'
  BY <1>1, <1>2, ShellRanUnchanged
<1>4. Shell!TypeOK'
  BY <1>1, <1>2 DEF Shell!IInv, Shell!TypeOK
<1>5. Shell!NoGaps'
  BY <1>1, <1>2, <1>3 DEF Shell!IInv, Shell!NoGaps, Shell!Pending
<1>6. Shell!Ascending'
  <2>1. Shell!Calm' <=> Shell!Calm
    BY <1>1, <1>2, ShellRanUnchanged
  <2> QED
    BY <1>1, <1>2, <2>1 DEF Shell!IInv, Shell!Ascending, Shell!Reached, Shell!Follows
<1> QED
  BY <1>2, <1>3, <1>4, <1>5, <1>6 DEF Shell!IInv

\* A command reads the next line of what the shell has not read.
LEMMA ShellConsume ==
  ASSUME Shell!IInv, Shell!Consume PROVE Shell!IInv'
<1> DEFINE n == Len(script)
<1>1. /\ cpc = "command" /\ off < n /\ off' = off + 1 /\ excused' = excused \cup {off + 1}
      /\ UNCHANGED <<script, seekable, buf, cur, done, pc, ran, cbuf, cpc>>
  BY DEF Shell!Consume, Shell!unchangedChild
<1>2. n \in Nat /\ off \in 0..n /\ pc = "wait" /\ Shell!Waiting'
  BY <1>1, LenProperties, Zenon DEF Shell!IInv, Shell!TypeOK, Shell!Waiting
<1>3. Shell!InHand' = Shell!InHand
  BY <1>1 DEF Shell!InHand
<1>4. /\ Shell!InOrderOnce' /\ Shell!NothingSkipped' /\ Shell!ExitIsLast'
      /\ Shell!GoesOnUntilExit' /\ Shell!EndsForAReason'
      /\ \A k : Shell!DealtWith(k) => Shell!DealtWith(k)'
  BY <1>1, <1>2, ShellRanUnchanged
<1>5. Shell!TypeOK'
  BY <1>1, <1>2 DEF Shell!IInv, Shell!TypeOK
<1>6. Shell!NoGaps'
  <2>1. \A k : k = off + 1 => Shell!DealtWith(k)'
    BY <1>1 DEF Shell!DealtWith
  <2>2. ASSUME NEW k \in 1..off' PROVE Shell!DealtWith(k)' \/ Shell!Pending(k)'
    <3>1. k = off + 1 \/ k \in 1..off
      BY <1>1, <1>2
    <3> QED
      BY <1>1, <1>3, <1>4, <2>1, <3>1 DEF Shell!IInv, Shell!NoGaps, Shell!Pending
  <2> QED
    BY <1>1, <1>3, <1>4, <2>2 DEF Shell!IInv, Shell!NoGaps
<1>7. Shell!Ascending'
  <2>1. /\ ran # <<>> => Shell!Last(ran) \in 1..n
        /\ \A j \in DOMAIN buf : buf[j] \in 1..n
        /\ cur \in 0..n
    BY ElementOfSeq, LenProperties, EmptySeq DEF Shell!IInv, Shell!TypeOK, Shell!Last
  <2>2. Shell!Calm' <=> Shell!Calm
    BY <1>1, <1>2, ShellRanUnchanged
  <2>3. /\ Shell!Reached => Shell!Reached'
        /\ Shell!Follows => Shell!Follows'
    BY <1>1, <1>2, <1>3, <2>1 DEF Shell!Reached, Shell!Follows
  <2>4. (ran # <<>> => Shell!Last(ran) <= off) => (ran' # <<>> => Shell!Last(ran)' <= off')
    BY <1>1, <1>2, <2>1
  <2> QED
    BY <1>1, <1>3, <2>2, <2>3, <2>4 DEF Shell!IInv, Shell!Ascending
<1> QED
  BY <1>2, <1>4, <1>5, <1>6, <1>7 DEF Shell!IInv

LEMMA ShellStepInv == Shell!IInv /\ [Shell!Next]_(Shell!vars) => Shell!IInv'
<1> SUFFICES ASSUME Shell!IInv, [Shell!Next]_(Shell!vars) PROVE Shell!IInv'
  OBVIOUS
<1>1. /\ Len(script) \in Nat /\ off \in 0..Len(script) /\ buf \in Seq(1..Len(script))
      /\ cbuf \in Seq(1..Len(script)) /\ <<>> \in Seq(1..Len(script)) /\ done \in BOOLEAN
  BY LenProperties, EmptySeq DEF Shell!IInv, Shell!TypeOK
<1>2. CASE Shell!TryInternal
  <2>1. /\ pc = "try" /\ cpc = "none" /\ cur >= 1
    BY <1>2 DEF Shell!IInv, Shell!Waiting, Shell!TryInternal
  <2>2. /\ ran' = Append(ran, cur) /\ done' = (script[cur] = "exit")
        /\ pc' = IF done' THEN "dead" ELSE "prompt"
        /\ UNCHANGED <<script, seekable, off, buf, cur, excused, cbuf, cpc>>
    BY <1>2 DEF Shell!TryInternal, Shell!unchangedChild
  <2>3. /\ done' \in BOOLEAN /\ pc' \in {"prompt", "dead"}
        /\ pc' = "dead" <=> script[cur] = "exit"
    BY <2>2, Zenon
  <2>4. Shell!InHand /\ ~Shell!InHand' /\ Shell!Waiting'
    BY <2>1, <2>2, <2>3 DEF Shell!InHand, Shell!Waiting
  <2>5. off' \in 0..off /\ off' = off
    BY <1>1, <2>2
  <2> QED
    BY <1>1, <2>1, <2>2, <2>3, <2>4, <2>5, ShellLineRuns
<1>3. CASE Shell!Exec \/ Shell!ExecFails
  <2>1. pc = "wait" /\ cpc = "exec" /\ script[cur] \notin {"cd", "exit"} /\ cur >= 1
    BY <1>3 DEF Shell!IInv, Shell!Waiting, Shell!TypeOK, Shell!Exec, Shell!ExecFails
  <2>2. /\ ran' = Append(ran, cur) /\ cbuf' = <<>> /\ cpc' \in {"command", "dead"}
        /\ UNCHANGED <<script, seekable, buf, cur, excused, done, pc>>
    BY <1>3 DEF Shell!Exec, Shell!ExecFails
  <2>3. off' \in 0..off /\ (off' = off \/ (seekable /\ script[cur] = "missing"))
    <3>1. Len(cbuf) \in Nat
      BY <1>1, LenProperties
    <3> QED
      BY <1>1, <1>3, <3>1 DEF Shell!Exec, Shell!ExecFails
  <2>4. Shell!InHand /\ ~Shell!InHand' /\ Shell!Waiting'
    BY <2>1, <2>2 DEF Shell!InHand, Shell!Waiting
  <2> QED
    BY <1>1, <2>1, <2>2, <2>3, <2>4, ShellLineRuns
<1>4. CASE UNCHANGED Shell!vars
  BY <1>4 DEF Shell!vars, Shell!IInv, Shell!TypeOK, Shell!Waiting, Shell!NoGaps, Shell!DealtWith,
     Shell!Pending, Shell!InHand, Shell!Ascending, Shell!Reached, Shell!Follows, Shell!Calm,
     Shell!GoesBack, Shell!GivenBack, Shell!GoesOnUntilExit, Shell!InOrderOnce,
     Shell!NothingSkipped, Shell!EndsForAReason, Shell!ExitIsLast
<1> QED
  BY <1>2, <1>3, <1>4, ShellRefill, ShellGetline, ShellLeaves, ShellForkFails, ShellChild,
     ShellConsume DEF Shell!Next, Shell!Stop

-----------------------------------------------------------------------------
(* foreach *)

LEMMA ForeachElements == \A s : Foreach!ToSet(s) = Elements(s)
BY DEF Foreach!ToSet, Elements

LEMMA ForeachInit == Foreach!Init => Foreach!IInv
<1> SUFFICES ASSUME Foreach!Init PROVE Foreach!IInv
  OBVIOUS
<1>1. /\ nlines \in 0..ForeachLines /\ toolong \subseteq 1..nlines /\ off = 0 /\ cur = 0 /\ buf = <<>> /\ ran = <<>> /\ eaten = {}
  BY DEF Foreach!Init
<1>2. pc = "getline" /\ status = "running"
  BY DEF Foreach!Init
<1>3. \A S : <<>> \in Seq(S)
  BY EmptySeq
<1>4. Foreach!TypeOK
  BY <1>1, <1>2, <1>3 DEF Foreach!TypeOK
<1>5. Foreach!Ascending /\ Foreach!InOrderOnce
  BY <1>1, <1>2 DEF Foreach!Ascending, Foreach!InOrderOnce, Foreach!InHand
<1>6. Foreach!NoGaps /\ Foreach!Outcome /\ Foreach!AllOrEaten /\ Foreach!KilledByLine
  BY <1>1, <1>2 DEF Foreach!NoGaps, Foreach!Outcome, Foreach!AllOrEaten, Foreach!KilledByLine
<1> QED
  BY <1>4, <1>5, <1>6 DEF Foreach!IInv

LEMMA ForeachRefill ==
  ASSUME Foreach!IInv, Foreach!Refill PROVE Foreach!IInv'
<1>1. nlines \in Nat /\ off \in 0..nlines /\ ran \in Seq(1..nlines) /\ eaten \subseteq 1..nlines
  BY DEF Foreach!IInv, Foreach!TypeOK
<1>2. PICK to \in (off + 1)..nlines : off' = to /\ buf' = [k \in 1..(to - off) |-> off + k]
  BY DEF Foreach!Refill
<1>3. /\ pc = "getline" /\ pc' = "getline" /\ buf = <<>>
      /\ UNCHANGED <<nlines, toolong, reads, cur, status, ran, eaten>>
  BY DEF Foreach!Refill
<1>4. /\ buf' \in Seq(1..nlines) /\ DOMAIN buf' = 1..(to - off)
      /\ \A k \in 1..(to - off) : buf'[k] = off + k
  BY <1>1, <1>2, Delivered
<1>5. Foreach!TypeOK' /\ Foreach!Outcome' /\ Foreach!InOrderOnce' /\ Foreach!AllOrEaten'
      /\ Foreach!KilledByLine'
  BY <1>1, <1>2, <1>3, <1>4 DEF Foreach!IInv, Foreach!TypeOK, Foreach!Outcome,
     Foreach!InOrderOnce, Foreach!AllOrEaten, Foreach!KilledByLine
<1>6. Foreach!Ascending'
  <2>1. \A j \in DOMAIN ran : ran[j] \in 1..nlines
    BY <1>1, ElementOfSeq, LenProperties
  <2> QED
    BY <1>1, <1>2, <1>3, <1>4, <2>1 DEF Foreach!IInv, Foreach!Ascending, Foreach!InHand
<1>7. Foreach!NoGaps'
  <2> SUFFICES ASSUME status \notin {"FAILURE", "KILLED"}, NEW k \in 1..off'
               PROVE  k \in Foreach!ToSet(ran) \cup eaten \cup Foreach!ToSet(buf')
    BY <1>3 DEF Foreach!NoGaps
  <2>1. CASE k <= off
    BY <1>1, <1>2, <1>3, <2>1 DEF Foreach!IInv, Foreach!NoGaps, Foreach!InHand, Foreach!ToSet
  <2>2. CASE ~(k <= off)
    <3>1. k - off \in 1..(to - off) /\ off + (k - off) = k
      BY <1>1, <1>2, <2>2
    <3>2. buf'[k - off] = k /\ k - off \in DOMAIN buf'
      BY <1>4, <3>1
    <3> QED
      BY <3>2 DEF Foreach!ToSet
  <2> QED
    BY <2>1, <2>2
<1> QED
  BY <1>5, <1>6, <1>7 DEF Foreach!IInv

LEMMA ForeachGetline ==
  ASSUME Foreach!IInv, Foreach!Getline PROVE Foreach!IInv'
<1> DEFINE b == Len(buf)
<1>1. nlines \in Nat /\ off \in 0..nlines /\ buf \in Seq(1..nlines)
  BY DEF Foreach!IInv, Foreach!TypeOK
<1>2. /\ pc = "getline" /\ pc' = "foreach" /\ buf # <<>> /\ cur' = Head(buf) /\ buf' = Tail(buf)
      /\ UNCHANGED <<nlines, toolong, reads, off, status, ran, eaten>>
  BY DEF Foreach!Getline
<1>3. /\ buf' \in Seq(1..nlines) /\ cur' \in 1..nlines /\ cur' = buf[1]
      /\ b \in Nat \ {0} /\ DOMAIN buf = 1..b /\ DOMAIN buf' = 1..b - 1
      /\ \A k \in 1..b - 1 : buf'[k] = buf[k + 1]
  BY <1>1, <1>2, Taken
<1> HIDE DEF b
<1>4. status \notin {"FAILURE", "KILLED", "SUCCESS"}
  BY <1>2 DEF Foreach!IInv, Foreach!Outcome
<1>5. Foreach!TypeOK' /\ Foreach!Outcome' /\ Foreach!InOrderOnce' /\ Foreach!AllOrEaten'
      /\ Foreach!KilledByLine'
  BY <1>1, <1>2, <1>3, <1>4 DEF Foreach!IInv, Foreach!TypeOK, Foreach!Outcome,
     Foreach!InOrderOnce, Foreach!AllOrEaten, Foreach!KilledByLine
<1>6. Foreach!Ascending'
  <2>1. /\ \A j, k \in 1..b : j < k => buf[j] < buf[k]
        /\ \A j \in DOMAIN ran : ran[j] <= off /\ ran[j] \notin eaten
        /\ \A k \in 1..b : buf[k] <= off /\ buf[k] \notin eaten
        /\ \A j \in DOMAIN ran, k \in 1..b : ran[j] < buf[k]
        /\ \A k \in eaten : k <= off
    BY <1>3 DEF Foreach!IInv, Foreach!Ascending
  <2>2. \A j, k \in 1..b - 1 : j < k => buf'[j] < buf'[k]
    BY <1>3, <2>1
  <2>3. \A k \in 1..b - 1 : buf'[k] <= off /\ buf'[k] \notin eaten /\ cur' < buf'[k]
    BY <1>3, <2>1
  <2>4. \A j \in DOMAIN ran : ran[j] < cur' /\ \A k \in 1..b - 1 : ran[j] < buf'[k]
    BY <1>3, <2>1
  <2>5. 1 <= cur' /\ cur' <= off /\ cur' \notin eaten
    BY <1>1, <1>3, <2>1
  <2> QED
    BY <1>2, <1>3, <2>1, <2>2, <2>3, <2>4, <2>5 DEF Foreach!Ascending
<1>7. Foreach!NoGaps'
  <2> SUFFICES ASSUME NEW k \in 1..off
               PROVE  k \in Foreach!ToSet(ran) \cup eaten \cup Foreach!ToSet(buf') \/ k = cur'
    BY <1>2 DEF Foreach!NoGaps, Foreach!InHand
  <2>1. k \in Foreach!ToSet(ran) \cup eaten \/ \E m \in 1..b : buf[m] = k
    BY <1>2, <1>3, <1>4 DEF Foreach!IInv, Foreach!NoGaps, Foreach!InHand, Foreach!ToSet
  <2>2. ASSUME NEW m \in 1..b, buf[m] = k PROVE k = cur' \/ k \in Foreach!ToSet(buf')
    <3>1. CASE m = 1
      BY <1>3, <2>2, <3>1
    <3>2. CASE m # 1
      <4>1. m - 1 \in 1..b - 1 /\ (m - 1) + 1 = m
        BY <1>3, <3>2
      <4>2. buf'[m - 1] = k /\ m - 1 \in DOMAIN buf'
        BY <1>3, <2>2, <4>1
      <4> QED
        BY <4>2 DEF Foreach!ToSet
    <3> QED
      BY <3>1, <3>2
  <2> QED
    BY <2>1, <2>2
<1> QED
  BY <1>5, <1>6, <1>7 DEF Foreach!IInv

\* The command is started for the line in hand, or there is no memory for it.
LEMMA ForeachStarts ==
  ASSUME Foreach!IInv, Foreach!Start PROVE Foreach!IInv'
<1>1. /\ nlines \in Nat /\ off \in 0..nlines /\ ran \in Seq(1..nlines)
      /\ eaten \subseteq 1..nlines /\ cur \in 0..nlines
  BY DEF Foreach!IInv, Foreach!TypeOK
<1>2. pc = "foreach" /\ UNCHANGED <<nlines, toolong, reads, off, buf, cur, eaten>>
  BY DEF Foreach!Start
<1>3. 1 <= cur /\ cur <= off /\ cur \notin eaten /\ status = "running"
  BY <1>2 DEF Foreach!IInv, Foreach!Ascending, Foreach!InHand, Foreach!Outcome
<1>4. CASE pc' = "exit" /\ ran' = ran /\ status' = "FAILURE"
  BY <1>1, <1>2, <1>4 DEF Foreach!IInv, Foreach!TypeOK, Foreach!Ascending, Foreach!InHand,
     Foreach!NoGaps, Foreach!Outcome, Foreach!InOrderOnce, Foreach!AllOrEaten, Foreach!KilledByLine
<1>5. CASE pc' = "system" /\ ran' = Append(ran, cur) /\ status' = status
  <2> DEFINE r == Len(ran)
  <2>1. /\ ran' \in Seq(1..nlines) /\ r \in Nat /\ DOMAIN ran = 1..r /\ DOMAIN ran' = 1..r + 1
        /\ ran'[r + 1] = cur /\ \A k \in 1..r : ran'[k] = ran[k]
    BY <1>1, <1>3, <1>5, Appended
  <2> HIDE DEF r
  <2>2. Foreach!ToSet(ran') = Foreach!ToSet(ran) \cup {cur}
    <3>1. Elements(ran') = Elements(ran) \cup {cur}
      BY <2>1 DEF Elements
    <3> QED
      BY <3>1, ForeachElements
  <2>3. Foreach!TypeOK' /\ Foreach!Outcome' /\ Foreach!AllOrEaten' /\ Foreach!KilledByLine'
    BY <1>2, <1>3, <1>5, <2>1 DEF Foreach!IInv, Foreach!TypeOK, Foreach!Outcome, Foreach!AllOrEaten,
       Foreach!KilledByLine
  <2>4. Foreach!Ascending'
    BY <1>1, <1>2, <1>3, <1>5, <2>1 DEF Foreach!IInv, Foreach!Ascending, Foreach!InHand
  <2>5. Foreach!NoGaps'
    BY <1>2, <1>3, <1>5, <2>2 DEF Foreach!IInv, Foreach!NoGaps, Foreach!InHand
  <2>6. Foreach!InOrderOnce'
    <3>1. \A j, k \in 1..r + 1 : j < k => ran'[j] < ran'[k]
      BY <1>2, <2>1 DEF Foreach!IInv, Foreach!InOrderOnce, Foreach!Ascending, Foreach!InHand
    <3>2. Foreach!ToSet(ran') \cap eaten = {}
      BY <1>3, <2>2 DEF Foreach!IInv, Foreach!InOrderOnce
    <3> QED
      BY <1>2, <2>1, <3>1, <3>2 DEF Foreach!InOrderOnce
  <2> QED
    BY <2>3, <2>4, <2>5, <2>6 DEF Foreach!IInv
<1> QED
  BY <1>4, <1>5 DEF Foreach!Start

\* foreach aborts after writing beyond the memory of a command: nothing is
\* missing before the line that was too long.
LEMMA ForeachAborted ==
  ASSUME Foreach!IInv, Foreach!Aborted PROVE Foreach!IInv'
<1>1. /\ pc # "exit" /\ Foreach!Overrun /\ pc' = "exit" /\ status' = "KILLED"
      /\ UNCHANGED <<nlines, toolong, reads, off, buf, cur, ran, eaten>>
  BY DEF Foreach!Aborted
<1>2. /\ status = "running" /\ toolong \subseteq 1..nlines /\ nlines \in Nat /\ off \in 0..nlines
      /\ ran \in Seq(1..nlines)
  BY <1>1 DEF Foreach!IInv, Foreach!Outcome, Foreach!TypeOK
<1>3. \A k \in 1..off : \/ k \in Foreach!ToSet(ran) \cup eaten
                        \/ \E m \in DOMAIN buf : buf[m] = k
                        \/ Foreach!InHand /\ k = cur
  BY <1>2 DEF Foreach!IInv, Foreach!NoGaps, Foreach!ToSet
<1>4. ASSUME NEW j \in DOMAIN ran PROVE 1..ran[j] - 1 \subseteq Foreach!ToSet(ran) \cup eaten
  <2>1. ran[j] \in 1..nlines /\ ran[j] <= off /\ (Foreach!InHand => ran[j] < cur)
        /\ \A m \in DOMAIN buf : ran[j] < buf[m]
    BY <1>2, ElementOfSeq, LenProperties DEF Foreach!IInv, Foreach!Ascending
  <2>2. ASSUME NEW k \in 1..ran[j] - 1 PROVE k \in Foreach!ToSet(ran) \cup eaten
    <3>1. k \in 1..off /\ k < ran[j]
      BY <1>2, <2>1
    <3>2. \A m \in DOMAIN buf : buf[m] # k
      BY <2>1, <3>1
    <3>3. ~(Foreach!InHand /\ k = cur)
      BY <2>1, <3>1
    <3> QED
      BY <1>3, <3>1, <3>2, <3>3
  <2> QED
    BY <2>2
<1>5. ASSUME Foreach!InHand PROVE 1..cur - 1 \subseteq Foreach!ToSet(ran) \cup eaten
  <2>1. cur \in Nat /\ cur <= off /\ \A m \in DOMAIN buf : cur < buf[m]
    BY <1>5 DEF Foreach!IInv, Foreach!Ascending, Foreach!TypeOK
  <2>2. ASSUME NEW k \in 1..cur - 1 PROVE k \in Foreach!ToSet(ran) \cup eaten
    <3>1. k \in 1..off /\ k < cur
      BY <1>2, <2>1
    <3>2. \A m \in DOMAIN buf : buf[m] # k
      BY <2>1, <3>1
    <3> QED
      BY <1>3, <3>1, <3>2
  <2> QED
    BY <2>2
<1>6. Foreach!KilledByLine'
  <2>1. CASE pc = "foreach" /\ cur \in toolong
    BY <1>1, <1>5, <2>1 DEF Foreach!KilledByLine, Foreach!InHand
  <2>2. CASE Foreach!ToSet(ran) \cap toolong # {}
    <3>1. PICK j \in DOMAIN ran : ran[j] \in toolong
      BY <2>2 DEF Foreach!ToSet
    <3>2. ran[j] \in Foreach!ToSet(ran) \cup {cur}
      BY DEF Foreach!ToSet
    <3> QED
      BY <1>1, <1>4, <3>1, <3>2 DEF Foreach!KilledByLine
  <2> QED
    BY <1>1, <2>1, <2>2 DEF Foreach!Overrun
<1>7. Foreach!Ascending'
  BY <1>1 DEF Foreach!IInv, Foreach!Ascending, Foreach!InHand
<1>8. Foreach!TypeOK' /\ Foreach!NoGaps' /\ Foreach!Outcome' /\ Foreach!InOrderOnce' /\ Foreach!AllOrEaten'
  BY <1>1 DEF Foreach!IInv, Foreach!TypeOK, Foreach!NoGaps, Foreach!Outcome, Foreach!InOrderOnce,
     Foreach!AllOrEaten
<1> QED
  BY <1>6, <1>7, <1>8 DEF Foreach!IInv

\* A command takes the next line of what foreach has not read.
LEMMA ForeachConsume ==
  ASSUME Foreach!IInv, Foreach!Consume PROVE Foreach!IInv'
<1>1. /\ nlines \in Nat /\ off \in 0..nlines /\ ran \in Seq(1..nlines) /\ buf \in Seq(1..nlines)
      /\ eaten \subseteq 1..nlines
  BY DEF Foreach!IInv, Foreach!TypeOK
<1>2. /\ pc = "system" /\ off < nlines /\ off' = off + 1 /\ eaten' = eaten \cup {off + 1}
      /\ UNCHANGED <<nlines, toolong, reads, buf, cur, pc, status, ran>>
  BY DEF Foreach!Consume
<1>3. /\ \A j \in DOMAIN ran : ran[j] \in 1..nlines /\ ran[j] <= off /\ ran[j] \notin eaten
      /\ \A j \in DOMAIN buf : buf[j] \in 1..nlines /\ buf[j] <= off /\ buf[j] \notin eaten
      /\ \A k \in eaten : k <= off
  BY <1>1, ElementOfSeq, LenProperties DEF Foreach!IInv, Foreach!Ascending
<1>4. \A k : k \in eaten' => k \in eaten \/ k = off + 1
  BY <1>2
<1>5. Foreach!TypeOK' /\ Foreach!Outcome' /\ Foreach!AllOrEaten' /\ Foreach!KilledByLine'
  BY <1>1, <1>2 DEF Foreach!IInv, Foreach!TypeOK, Foreach!Outcome, Foreach!AllOrEaten,
     Foreach!KilledByLine
<1>6. Foreach!Ascending'
  BY <1>1, <1>2, <1>3, <1>4 DEF Foreach!IInv, Foreach!Ascending, Foreach!InHand
<1>7. Foreach!NoGaps'
  <2> SUFFICES ASSUME status \notin {"FAILURE", "KILLED"}, NEW k \in 1..off'
               PROVE  k \in Foreach!ToSet(ran) \cup eaten' \cup Foreach!ToSet(buf)
    BY <1>2 DEF Foreach!NoGaps, Foreach!ToSet
  <2>1. k = off + 1 \/ k \in 1..off
    BY <1>1, <1>2
  <2> QED
    BY <1>2, <2>1 DEF Foreach!IInv, Foreach!NoGaps, Foreach!InHand
<1>8. Foreach!InOrderOnce'
  <2>1. \A j \in DOMAIN ran : ran[j] \notin eaten'
    BY <1>1, <1>3, <1>4
  <2> QED
    BY <1>2, <2>1 DEF Foreach!IInv, Foreach!InOrderOnce, Foreach!ToSet
<1> QED
  BY <1>5, <1>6, <1>7, <1>8 DEF Foreach!IInv

LEMMA ForeachStepInv == Foreach!IInv /\ [Foreach!Next]_(Foreach!vars) => Foreach!IInv'
<1> SUFFICES ASSUME Foreach!IInv, [Foreach!Next]_(Foreach!vars) PROVE Foreach!IInv'
  OBVIOUS
<1>1. CASE Foreach!SystemReturns
  BY <1>1 DEF Foreach!SystemReturns, Foreach!IInv, Foreach!TypeOK, Foreach!Ascending, Foreach!InHand,
     Foreach!NoGaps, Foreach!Outcome, Foreach!InOrderOnce, Foreach!AllOrEaten, Foreach!KilledByLine
<1>2. CASE Foreach!EndOfInput
  <2>1. /\ pc = "getline" /\ pc' = "exit" /\ status' = "SUCCESS" /\ buf = <<>> /\ off = nlines
        /\ UNCHANGED <<nlines, toolong, reads, off, buf, cur, ran, eaten>>
    BY <1>2 DEF Foreach!EndOfInput
  <2>2. status = "running"
    BY <2>1 DEF Foreach!IInv, Foreach!Outcome
  <2>3. 1..nlines \subseteq Foreach!ToSet(ran) \cup eaten
    BY <2>1, <2>2 DEF Foreach!IInv, Foreach!NoGaps, Foreach!InHand, Foreach!ToSet
  <2>4. Foreach!TypeOK' /\ Foreach!Ascending' /\ Foreach!InOrderOnce'
    BY <2>1 DEF Foreach!IInv, Foreach!TypeOK, Foreach!Ascending, Foreach!InHand, Foreach!InOrderOnce
  <2>5. Foreach!NoGaps' /\ Foreach!Outcome' /\ Foreach!AllOrEaten' /\ Foreach!KilledByLine'
    BY <2>1, <2>3 DEF Foreach!NoGaps, Foreach!Outcome, Foreach!AllOrEaten, Foreach!KilledByLine,
       Foreach!ToSet
  <2> QED
    BY <2>4, <2>5 DEF Foreach!IInv
<1>3. CASE UNCHANGED Foreach!vars
  BY <1>3 DEF Foreach!vars, Foreach!IInv, Foreach!TypeOK, Foreach!Ascending, Foreach!InHand,
     Foreach!NoGaps, Foreach!Outcome, Foreach!InOrderOnce, Foreach!AllOrEaten, Foreach!KilledByLine
<1> QED
  BY <1>1, <1>2, <1>3, ForeachRefill, ForeachGetline, ForeachStarts, ForeachAborted, ForeachConsume
     DEF Foreach!Next, Foreach!Done

-----------------------------------------------------------------------------
(* All of them: whichever program was chosen keeps its invariant. *)

IInv ==
  /\ program = "repeat" => Repeat!IInv
  /\ program = "shell" => Shell!IInv
  /\ program = "foreach" => Foreach!IInv

LEMMA InitInv == Init => IInv
BY RepeatInit, ShellInit, ForeachInit DEF Init, IInv

LEMMA StepInv == IInv /\ [Next]_vars => IInv'
<1> SUFFICES ASSUME IInv, [Next]_vars PROVE IInv'
  OBVIOUS
<1>1. program' = program
  BY DEF Next, RepeatStep, ShellStep, ForeachStep, CommandLineStep, TmplStep, vars
<1>2. CASE program = "repeat"
  <2>1. [Repeat!Next]_(Repeat!vars)
    BY <1>2 DEF Next, RepeatStep, ShellStep, ForeachStep, CommandLineStep, TmplStep, vars, Repeat!vars
  <2> QED
    BY <1>1, <1>2, <2>1, RepeatStepInv DEF IInv
<1>3. CASE program = "shell"
  <2>1. [Shell!Next]_(Shell!vars)
    BY <1>3 DEF Next, RepeatStep, ShellStep, ForeachStep, CommandLineStep, TmplStep, vars, Shell!vars
  <2> QED
    BY <1>1, <1>3, <2>1, ShellStepInv DEF IInv
<1>4. CASE program = "foreach"
  <2>1. [Foreach!Next]_(Foreach!vars)
    BY <1>4 DEF Next, RepeatStep, ShellStep, ForeachStep, CommandLineStep, TmplStep, vars, Foreach!vars
  <2> QED
    BY <1>1, <1>4, <2>1, ForeachStepInv DEF IInv
<1> QED
  BY <1>1, <1>2, <1>3, <1>4 DEF IInv

THEOREM ChildrenInvariant == Spec => []IInv
<1> QED
  BY InitInv, StepInv, PTL DEF Spec

\* repeat.c, shell.c, foreach.c: for any number of processes, lines and
\* commands, and any INT_MAX, the exit status of repeat tells how its commands
\* ended, which ran one at a time, and shell and foreach end only with every
\* line accounted for, or because of exit.
THEOREM ChildrenEndForAReason == Spec => []EndsForAReason
<1>1. Repeat!IInv => Repeat!OnlyParentLoops /\ Repeat!OneAtATime /\ Repeat!ExitStatus
  <2>1. Repeat!IInv => Repeat!OnlyParentLoops
    BY DEF Repeat!IInv, Repeat!OneChild, Repeat!OnlyParentLoops
  <2>2. Repeat!IInv => Repeat!OneAtATime
    BY DEF Repeat!IInv, Repeat!OneChild, Repeat!OneAtATime
  <2> QED
    BY <2>1, <2>2 DEF Repeat!IInv
<1>2. IInv => EndsForAReason
  BY <1>1 DEF IInv, EndsForAReason, Shell!IInv, Foreach!IInv
<1> QED
  BY <1>2, ChildrenInvariant, PTL

\* shell.c, foreach.c: for any input, pipe or file, and whatever the commands
\* read of it or give back, its lines run in order and once, but for the once
\* more that a command the shell cannot execute may cause on a file; none is
\* passed over that no command has read and no failing fork or malloc lost, and
\* none runs after exit.
THEOREM ChildrenLinesInOrder == Spec => []LinesInOrder
<1>1. IInv => LinesInOrder
  BY DEF IInv, LinesInOrder, Shell!IInv, Foreach!IInv
<1> QED
  BY <1>1, ChildrenInvariant, PTL

\* shell.c: of the lines that standard input still holds none is forgotten:
\* what has been read and not dealt with is in hand or in the buffer.
THEOREM ShellForgetsNothing == Spec => [](program = "shell" => Shell!NoGaps)
<1>1. IInv => (program = "shell" => Shell!NoGaps)
  BY DEF IInv, Shell!IInv
<1> QED
  BY <1>1, ChildrenInvariant, PTL

=============================================================================
