----------------------------- MODULE Tee_proofs -----------------------------
(* Proofs about Tee, for any number of operands and any input.             *)
EXTENDS Tee, TLAPS

-----------------------------------------------------------------------------
\* Sequences.

LEMMA PrefixIsSeq ==
  ASSUME NEW S, NEW s \in Seq(S), NEW n \in 0..Len(s)
  PROVE  /\ SubSeq(s, 1, n) \in Seq(S)
         /\ Len(SubSeq(s, 1, n)) = n
         /\ \A k \in 1..n : SubSeq(s, 1, n)[k] = s[k]
OBVIOUS

LEMMA PrefixGrows ==
  ASSUME NEW S, NEW s \in Seq(S), NEW n \in 1..Len(s)
  PROVE  Append(SubSeq(s, 1, n - 1), s[n]) = SubSeq(s, 1, n)
<1>1. /\ SubSeq(s, 1, n - 1) \in Seq(S)
      /\ Len(SubSeq(s, 1, n - 1)) = n - 1
      /\ \A k \in 1..(n - 1) : SubSeq(s, 1, n - 1)[k] = s[k]
  BY PrefixIsSeq
<1>2. /\ SubSeq(s, 1, n) \in Seq(S)
      /\ Len(SubSeq(s, 1, n)) = n
      /\ \A k \in 1..n : SubSeq(s, 1, n)[k] = s[k]
  BY PrefixIsSeq
<1>. QED BY <1>1, <1>2

LEMMA SameElement ==
  ASSUME NEW S, NEW s \in Seq(S), NEW k \in 1..Len(s)
  PROVE  [s EXCEPT ![k] = s[k]] = s
<1>1. s = [j \in 1..Len(s) |-> s[j]]
  OBVIOUS
<1>. QED BY <1>1

\* A character written at its own place: over itself, or at the end.
LEMMA WriteInPlace ==
  ASSUME NEW S, NEW s \in Seq(S), NEW n \in 1..Len(s), NEW m \in {n - 1, n}
  PROVE  WriteAt(SubSeq(s, 1, m), n - 1, s[n]) = SubSeq(s, 1, n)
<1>1. CASE m = n - 1
  BY <1>1, PrefixIsSeq, PrefixGrows DEF WriteAt
<1>2. CASE m = n
  <2>. DEFINE t == SubSeq(s, 1, n)
  <2>1. t \in Seq(S) /\ Len(t) = n /\ t[n] = s[n]
    BY PrefixIsSeq
  <2>. HIDE DEF t
  <2>2. [t EXCEPT ![n] = s[n]] = t
    BY <2>1, SameElement
  <2>3. n - 1 + 1 = n /\ n - 1 < n
    OBVIOUS
  <2>4. WriteAt(t, n - 1, s[n]) = [t EXCEPT ![n] = s[n]]
    BY <2>1, <2>3 DEF WriteAt
  <2>. QED BY <1>2, <2>2, <2>4 DEF t
<1>. QED BY <1>1, <1>2

-----------------------------------------------------------------------------
\* The inductive invariant. TypeOK and LockStep need OffsetsAgree (a write
\* goes to an open descriptor, at the place of the character in hand), and
\* the two conclusions at exit need to know what held before it.
ShownIsRead ==
  pc \in {"read", "write"} =>
    Len(stdout) <= IF pc = "write" THEN nread - 1 ELSE nread

IInv == /\ TypeOK
        /\ OffsetsAgree
        /\ LockStep
        /\ ShownIsRead
        /\ SuccessIsComplete
        /\ ShownIsSaved
        /\ NothingLeftOpen
        /\ status # "running" <=> pc = "exit"

LEMMA InitIInv == Init => IInv
BY TeeAssumption
DEF Init, IInv, TypeOK, OffsetsAgree, LockStep, ShownIsRead, SuccessIsComplete,
    ShownIsSaved, NothingLeftOpen, Closed, argc, TC_ERR

\* Leaving the program from any point at which success may be claimed.
LEMMA ExitIInv ==
  ASSUME IInv, NEW code \in {"SUCCESS", "FAILURE"}, Exit(code), file' = file,
         pc # "exit",
         code = "SUCCESS" => pc = "read" /\ nread = Len(input)
  PROVE  IInv'
<1>. USE DEF IInv, TypeOK, argc, Exit
<1>1. TypeOK'
  BY DEF Closed
<1>2. OffsetsAgree' /\ LockStep' /\ ShownIsRead'
  BY DEF OffsetsAgree, LockStep, ShownIsRead
<1>3. SuccessIsComplete'
  BY DEF SuccessIsComplete, LockStep, Copied
<1>4. ShownIsSaved'
  <2>1. CASE pc \in {"start", "open"}
    BY <2>1 DEF OffsetsAgree, ShownIsSaved
  <2>2. CASE pc \in {"read", "write"}
    BY <2>2 DEF ShownIsSaved
  <2>. QED BY <2>1, <2>2
<1>5. NothingLeftOpen' /\ (status # "running" <=> pc = "exit")'
  BY DEF NothingLeftOpen, Closed
<1>. QED BY <1>1, <1>2, <1>3, <1>4, <1>5

LEMMA CopiedRange ==
  ASSUME TypeOK, NEW k \in 1..argc
  PROVE  Copied(k) \in {nread - 1, nread}
BY DEF Copied

LEMMA OpenIInv == ASSUME IInv, Open PROVE IInv'
<1>. USE DEF IInv, TypeOK, argc, Open
<1>1. TypeOK'
  OBVIOUS
<1>2. OffsetsAgree'
  BY DEF OffsetsAgree, TC_ERR
<1>3. LockStep' /\ ShownIsRead' /\ SuccessIsComplete' /\ ShownIsSaved' /\ NothingLeftOpen'
  BY DEF OffsetsAgree, LockStep, ShownIsRead, SuccessIsComplete, ShownIsSaved, NothingLeftOpen
<1>. QED BY <1>1, <1>2, <1>3

LEMMA AllOpenIInv == ASSUME IInv, AllOpen PROVE IInv'
<1>. USE DEF IInv, TypeOK, argc, AllOpen
<1>1. /\ i = argc + 1 /\ nread = 0 /\ stdout = <<>>
      /\ \A k \in 1..argc : fd[k] = 0 /\ file[argv[k]] = <<>>
  BY DEF OffsetsAgree
<1>2. OffsetsAgree' /\ ShownIsRead' /\ ShownIsSaved'
  BY <1>1 DEF OffsetsAgree, ShownIsRead, ShownIsSaved
<1>3. SubSeq(input, 1, 0) = <<>>
  OBVIOUS
<1>4. LockStep'
  BY <1>1, <1>3 DEF LockStep, Copied
<1>. QED BY <1>2, <1>4 DEF SuccessIsComplete, NothingLeftOpen

LEMMA GetcIInv == ASSUME IInv, Getc PROVE IInv'
<1>. USE DEF IInv, TypeOK, argc, Getc
<1>1. OffsetsAgree' /\ ShownIsRead' /\ ShownIsSaved'
  BY DEF OffsetsAgree, ShownIsRead, ShownIsSaved
<1>2. LockStep'
  BY DEF LockStep, Copied
<1>. QED BY <1>1, <1>2 DEF SuccessIsComplete, NothingLeftOpen

LEMMA PutcIInv == ASSUME IInv, Putc PROVE IInv'
<1>. USE DEF IInv, TypeOK, argc, Putc
<1>. DEFINE f == argv[i]
            c == input[nread]
<1>1. /\ nread \in 1..Len(input)
      /\ fd[i] = nread - 1
      /\ f \in File
  BY DEF OffsetsAgree
<1>2. /\ file[f] = SubSeq(input, 1, Copied(i))
      /\ Copied(i) \in {nread - 1, nread}
  BY CopiedRange DEF LockStep
<1>3. WriteAt(file[f], fd[i], c) = SubSeq(input, 1, nread)
  BY <1>1, <1>2, WriteInPlace
<1>4. file' = [file EXCEPT ![f] = SubSeq(input, 1, nread)]
  BY <1>1, <1>3
<1>5. SubSeq(input, 1, nread) \in Seq(Byte) /\ Len(SubSeq(input, 1, nread)) = nread
  BY <1>1, PrefixIsSeq
<1>6. TypeOK'
  <2>1. fd' \in [1..argc -> Nat \cup {TC_ERR}] /\ i' \in 1..argc + 1
    BY <1>1
  <2>2. file' \in [File -> Seq(Byte)]
    BY <1>1, <1>4, <1>5
  <2>. QED BY <2>1, <2>2
<1>7. OffsetsAgree'
  BY <1>1 DEF OffsetsAgree
<1>8. LockStep'
  <2>. SUFFICES ASSUME NEW k \in 1..argc
                PROVE  file'[argv[k]] = SubSeq(input, 1, Copied(k)')
    BY DEF LockStep
  <2>1. CASE argv[k] = f
    <3>1. Copied(k)' = nread
      BY <2>1 DEF Copied
    <3>. QED BY <1>1, <1>4, <2>1, <3>1
  <2>2. CASE argv[k] # f
    <3>1. Copied(k)' = Copied(k)
      BY <2>2 DEF Copied
    <3>2. file'[argv[k]] = file[argv[k]]
      BY <1>1, <1>4, <2>2
    <3>. QED BY <3>1, <3>2 DEF LockStep
  <2>. QED BY <2>1, <2>2
<1>9. ShownIsSaved'
  <2>. SUFFICES ASSUME NEW k \in 1..argc
                PROVE  Len(stdout) <= Len(file'[argv[k]])
    BY DEF ShownIsSaved
  <2>1. /\ Len(stdout) <= nread - 1
        /\ Copied(k)' \in {nread - 1, nread}
        /\ Copied(k)' \in 0..Len(input)
    BY CopiedRange, <1>6 DEF ShownIsRead, Copied
  <2>2. file'[argv[k]] = SubSeq(input, 1, Copied(k)')
    BY <1>8 DEF LockStep
  <2>3. Len(file'[argv[k]]) = Copied(k)'
    BY <2>1, <2>2, PrefixIsSeq
  <2>4. Len(stdout) \in Nat
    OBVIOUS
  <2>. QED BY <1>1, <2>1, <2>3, <2>4
<1>10. ShownIsRead' /\ SuccessIsComplete' /\ NothingLeftOpen'
  BY DEF ShownIsRead, SuccessIsComplete, NothingLeftOpen
<1>. QED BY <1>6, <1>7, <1>8, <1>9, <1>10

LEMMA PutcStdoutIInv == ASSUME IInv, PutcStdout PROVE IInv'
<1>. USE DEF IInv, TypeOK, argc, PutcStdout
<1>1. pc = "write" /\ nread \in 1..Len(input) /\ i = argc + 1
  <2>1. nread > 0
    BY DEF OffsetsAgree
  <2>2. argc \in Nat
    OBVIOUS
  <2>. QED BY <2>1, <2>2
<1>2. stdout' \in Seq(Byte) /\ Len(stdout') <= nread
  <2>1. input[nread] \in Byte
    BY <1>1
  <2>2. Len(stdout) <= nread - 1
    BY <1>1 DEF ShownIsRead
  <2>3. CASE stdout' = stdout
    BY <1>1, <2>2, <2>3
  <2>4. CASE stdout' = Append(stdout, input[nread])
    <3>1. Len(stdout') = Len(stdout) + 1 /\ stdout' \in Seq(Byte)
      BY <2>1, <2>4
    <3>. QED BY <1>1, <2>2, <3>1
  <2>. QED BY <2>3, <2>4
<1>3. \A k \in 1..argc : Copied(k) = nread
  BY <1>1 DEF Copied
<1>4. \A k \in 1..argc : file[argv[k]] = SubSeq(input, 1, nread)
  BY <1>1, <1>3 DEF LockStep
<1>5. LockStep'
  BY <1>4 DEF LockStep, Copied
<1>6. \A k \in 1..argc : Len(file[argv[k]]) = nread
  BY <1>1, <1>4, PrefixIsSeq
<1>7. OffsetsAgree' /\ ShownIsRead' /\ ShownIsSaved'
  BY <1>1, <1>2, <1>6 DEF OffsetsAgree, ShownIsRead, ShownIsSaved
<1>. QED BY <1>2, <1>5, <1>7 DEF SuccessIsComplete, NothingLeftOpen

LEMMA NextIInv == IInv /\ [Next]_vars => IInv'
<1>. SUFFICES ASSUME IInv, [Next]_vars PROVE IInv'
  OBVIOUS
<1>1. CASE Fails
  BY <1>1, ExitIInv DEF Fails
<1>2. CASE Start
  <2>. USE <1>2 DEF Start, IInv, TypeOK, argc
  <2>1. OffsetsAgree'
    BY DEF OffsetsAgree, Closed
  <2>. QED
    BY <2>1 DEF LockStep, ShownIsRead, SuccessIsComplete, ShownIsSaved, NothingLeftOpen
<1>3. CASE EndOfInput
  BY <1>3, ExitIInv DEF EndOfInput
<1>4. CASE UNCHANGED vars
  <2>. USE <1>4 DEF vars, IInv, argc
  <2>1. TypeOK' /\ OffsetsAgree'
    BY DEF TypeOK, OffsetsAgree, Closed
  <2>2. LockStep' /\ ShownIsRead'
    BY DEF LockStep, Copied, ShownIsRead
  <2>. QED BY <2>1, <2>2 DEF SuccessIsComplete, ShownIsSaved, NothingLeftOpen
<1>. QED
  BY <1>1, <1>2, <1>3, <1>4,
     OpenIInv, AllOpenIInv, GetcIInv, PutcIInv, PutcStdoutIInv
  DEF Next, Done

LEMMA TeeInvariant == Spec => []IInv
BY InitIInv, NextIInv, PTL DEF Spec

-----------------------------------------------------------------------------
\* Every variable keeps its type; in particular no descriptor that is closed
\* is written to, and the loop index stays inside the array.
THEOREM TeeTypeCorrect == Spec => []TypeOK
BY TeeInvariant, PTL DEF IInv

\* Between and during the rounds of the copying loop every file holds exactly
\* the characters read so far, whatever the names on the command line.
THEOREM TeeLockStep == Spec => []LockStep
BY TeeInvariant, PTL DEF IInv

\* Exit status 0 means that every file holds the whole input.
THEOREM TeeSuccessIsComplete == Spec => []SuccessIsComplete
BY TeeInvariant, PTL DEF IInv

\* No file is ever behind standard output.
THEOREM TeeShownIsSaved == Spec => []ShownIsSaved
BY TeeInvariant, PTL DEF IInv

\* No way out of the program leaves a descriptor open.
THEOREM TeeNothingLeftOpen == Spec => []NothingLeftOpen
BY TeeInvariant, PTL DEF IInv

-----------------------------------------------------------------------------
\* tee implements Fanout: every step of the program is a step of the abstract
\* copier or leaves what it promises unchanged.
OpenOuts == {argv[k] : k \in {j \in 1..argc : fd[j] # TC_ERR}}

LEMMA AllOpenOuts ==
  ASSUME IInv, pc \in {"read", "write"}
  PROVE  OpenOuts = Outs
<1>1. \A k \in 1..argc : fd[k] # TC_ERR
  BY DEF IInv, TypeOK, OffsetsAgree, argc, TC_ERR
<1>2. {j \in 1..argc : fd[j] # TC_ERR} = 1..argc
  BY <1>1
<1>. QED BY <1>2 DEF OpenOuts, Outs

LEMMA ClosedOuts ==
  ASSUME argc \in Nat, fd = Closed
  PROVE  OpenOuts = {}
BY DEF OpenOuts, Closed

LEMMA ExitRefines ==
  ASSUME IInv, NEW code \in {"SUCCESS", "FAILURE"}, Exit(code), file' = file,
         pc # "exit",
         code = "SUCCESS" => pc = "read" /\ nread = Len(input)
  PROVE  F!Succeed \/ F!Fail
<1>1. argc' = argc /\ Outs' = Outs /\ argc \in Nat
  BY DEF Exit, argc, Outs, IInv, TypeOK
<1>2. OpenOuts' = {}
  BY <1>1 DEF Exit, OpenOuts, Closed
<1>3. status = "running"
  BY DEF IInv
<1>4. CASE code = "FAILURE"
  BY <1>1, <1>2, <1>3, <1>4 DEF F!Fail, Exit, OpenOuts
<1>5. CASE code = "SUCCESS"
  <2>1. OpenOuts = Outs
    BY <1>5, AllOpenOuts
  <2>2. \A f \in Outs : file[f] = input
    BY <1>5 DEF IInv, TypeOK, LockStep, Copied, Outs, argc
  <2>. QED BY <1>1, <1>2, <1>3, <1>5, <2>1, <2>2 DEF F!Succeed, Exit, OpenOuts
<1>. QED BY <1>4, <1>5

LEMMA OpenRefines == ASSUME IInv, Open PROVE \E f \in Outs : F!Truncate(f)
<1>. USE DEF IInv, TypeOK, argc, Open
<1>0. PICK f : f = argv[i]
  OBVIOUS
<1>1. i \in 1..argc /\ f \in Outs /\ status = "running"
  BY <1>0 DEF Outs
<1>2. OpenOuts = {argv[k] : k \in 1..(i - 1)}
  <2>1. {j \in 1..argc : fd[j] # TC_ERR} = 1..(i - 1)
    BY DEF OffsetsAgree, TC_ERR
  <2>. QED BY <2>1 DEF OpenOuts
<1>3. \A g \in OpenOuts : file[g] = <<>>
  BY <1>2 DEF OffsetsAgree
<1>4. OpenOuts' = OpenOuts \cup {f}
  BY <1>0, <1>1 DEF OpenOuts, TC_ERR
<1>5. F!Truncate(f)
  BY <1>0, <1>1, <1>3, <1>4 DEF F!Truncate, OpenOuts, Outs
<1>6. f \in Outs
  BY <1>1
<1>. QED BY <1>5, <1>6

LEMMA PutcRefines ==
  ASSUME IInv, Putc
  PROVE  (\E f \in Outs : F!Extend(f)) \/ UNCHANGED F!avars
<1>. USE DEF IInv, TypeOK, argc, Putc
<1>0. PICK f : f = argv[i]
  OBVIOUS
<1>1. /\ i \in 1..argc /\ f \in Outs /\ f \in File /\ status = "running"
      /\ nread \in 1..Len(input) /\ fd[i] = nread - 1
  BY <1>0 DEF Outs, OffsetsAgree
<1>2. OpenOuts = Outs /\ OpenOuts' = OpenOuts
  <2>1. OpenOuts = Outs
    BY AllOpenOuts
  <2>2. \A k \in 1..argc : fd[k] # TC_ERR /\ fd'[k] # TC_ERR
    BY <1>1 DEF OffsetsAgree, TC_ERR
  <2>. QED BY <2>1, <2>2 DEF OpenOuts
<1>3. file' = [file EXCEPT ![f] = SubSeq(input, 1, nread)]
  <2>1. /\ file[f] = SubSeq(input, 1, Copied(i))
        /\ Copied(i) \in {nread - 1, nread}
    BY <1>0, <1>1, CopiedRange DEF LockStep
  <2>. QED BY <1>0, <1>1, <2>1, WriteInPlace
<1>4. CASE Copied(i) = nread
  <2>1. file[f] = SubSeq(input, 1, nread)
    BY <1>0, <1>1, <1>4 DEF LockStep
  <2>2. file' = file
    BY <1>1, <1>3, <2>1
  <2>3. Outs' = Outs /\ input' = input /\ status' = status
    BY DEF Outs
  <2>. QED BY <1>2, <2>2, <2>3 DEF F!avars, OpenOuts
<1>5. CASE Copied(i) = nread - 1
  <2>1. file[f] = SubSeq(input, 1, nread - 1)
    BY <1>0, <1>1, <1>5 DEF LockStep
  <2>2. Len(file[f]) = nread - 1
    BY <1>1, <2>1, PrefixIsSeq
  <2>3. Len(file[f]) + 1 = nread /\ Len(file[f]) < Len(input)
    BY <1>1, <2>2
  <2>4. file' = [file EXCEPT ![f] = SubSeq(input, 1, Len(file[f]) + 1)]
    BY <1>3, <2>3
  <2>5. Outs' = Outs
    BY DEF Outs
  <2>6. F!Extend(f)
    BY <1>1, <1>2, <2>3, <2>4, <2>5 DEF F!Extend, OpenOuts
  <2>7. f \in Outs
    BY <1>1
  <2>. QED BY <2>6, <2>7
<1>6. Copied(i) \in {nread - 1, nread}
  BY <1>1, CopiedRange
<1>. QED BY <1>4, <1>5, <1>6

THEOREM TeeImplementsFanout == Spec => ImplementsFanout
<1>1. Init => F!AInit
  <2>. SUFFICES ASSUME Init PROVE F!AInit
    OBVIOUS
  <2>1. IInv
    BY InitIInv
  <2>2. OpenOuts = {} /\ Outs \in SUBSET File
    BY <2>1, ClosedOuts DEF Init, IInv, TypeOK, argc, Outs
  <2>. QED BY <2>1, <2>2 DEF F!AInit, Init, IInv, TypeOK, OpenOuts
<1>2. IInv /\ [Next]_vars => [F!ANext]_F!avars
  <2>. SUFFICES ASSUME IInv, [Next]_vars PROVE [F!ANext]_F!avars
    OBVIOUS
  <2>1. CASE Fails \/ EndOfInput
    BY <2>1, ExitRefines DEF Fails, EndOfInput, F!ANext
  <2>2. CASE Open
    BY <2>2, OpenRefines DEF F!ANext
  <2>3. CASE Putc
    BY <2>3, PutcRefines DEF F!ANext
  <2>4. CASE Start \/ AllOpen \/ Getc \/ PutcStdout \/ UNCHANGED vars
    BY <2>4 DEF Start, AllOpen, Getc, PutcStdout, vars, F!avars, Outs, argc
  <2>. QED BY <2>1, <2>2, <2>3, <2>4 DEF Next, Done
<1>. QED BY <1>1, <1>2, TeeInvariant, PTL DEF Spec, ImplementsFanout, F!ASpec
=============================================================================
