--------------------------- MODULE MC_Files_proofs ---------------------------
(***************************************************************************)
(* Proofs about the programs on a file system and those that ask a server, *)
(* for all values of the constants: sponge, mkdir and rmdir, scrub, those  *)
(* that work through operands, look through a table, or ask a server.      *)
(***************************************************************************)
EXTENDS MC_Files, SequenceTheorems, WellFoundedInduction, TLAPS

-----------------------------------------------------------------------------
(* sponge *)

LEMMA SpongeInit == Sponge!Init => Sponge!IInv
<1> SUFFICES ASSUME Sponge!Init PROVE Sponge!IInv
  OBVIOUS
<1>1. /\ argv \in Seq(File) /\ src \in File /\ file \in [File -> Inputs] /\ Inputs \subseteq Seq(Character)
      /\ roff = 0 /\ pipe = <<>> /\ fp = [k \in 1..Sponge!argc |-> Sponge!TC_ERR] /\ i = 1 /\ ch = <<>>
      /\ pc = "start" /\ status = "running" /\ lost = FALSE
  BY SpongeAssumed DEF Sponge!Init, Sponge!SpongeAssumption
<1>2. Sponge!argc \in Nat /\ Len(pipe) = 0 /\ Len(file[src]) \in Nat
  BY <1>1, EmptySeq, LenProperties DEF Sponge!argc
<1>3. Sponge!TypeOK
  <2>1. i \in 1..Sponge!argc + 1
    BY <1>1, <1>2
  <2>2. pipe \in Seq(Character) /\ ch \in Seq(Character) /\ Len(ch) <= 1
    BY <1>1, EmptySeq
  <2>3. roff \in Nat \cup {Sponge!TC_ERR}
    BY <1>1
  <2>4. file \in [File -> Seq(Character)]
    BY <1>1
  <2> QED
    BY <1>1, <2>1, <2>2, <2>3, <2>4 DEF Sponge!TypeOK
<1>4. Sponge!Given = 0 /\ Sponge!Taken = 0
  <2>1. Sponge!Given = 0
    BY <1>1 DEF Sponge!Given, Sponge!TC_ERR
  <2> QED
    BY <1>2, <2>1 DEF Sponge!Taken
<1>5. Sponge!Flow
  BY <1>1, <1>2, <1>4 DEF Sponge!Flow
<1>6. Sponge!Underway /\ Sponge!Complete /\ Sponge!Gaps
  BY <1>1 DEF Sponge!Underway, Sponge!Complete, Sponge!Gaps, Sponge!Copying
<1> QED
  BY <1>3, <1>5, <1>6 DEF Sponge!IInv

\* The types one by one.
LEMMA SpongeTypes ==
  ASSUME Sponge!IInv
  PROVE  /\ argv \in Seq(File) /\ src \in File /\ file \in [File -> Seq(Character)]
         /\ Sponge!argc \in Nat /\ DOMAIN argv = 1..Sponge!argc
         /\ roff \in Nat \cup {Sponge!TC_ERR} /\ pipe \in Seq(Character) /\ Len(pipe) \in Nat /\ Len(file[src]) \in Nat
         /\ fp \in [1..Sponge!argc -> Nat \cup {Sponge!TC_ERR}] /\ i \in 1..Sponge!argc + 1
         /\ Sponge!Given \in Nat /\ Sponge!Taken \in Int
         /\ \A k \in 1..Sponge!argc : argv[k] \in File
<1>1. /\ argv \in Seq(File) /\ src \in File /\ file \in [File -> Seq(Character)]
      /\ roff \in Nat \cup {Sponge!TC_ERR} /\ pipe \in Seq(Character)
      /\ fp \in [1..Sponge!argc -> Nat \cup {Sponge!TC_ERR}] /\ i \in 1..Sponge!argc + 1
  BY DEF Sponge!IInv, Sponge!TypeOK
<1>2. /\ Sponge!argc \in Nat /\ DOMAIN argv = 1..Sponge!argc
      /\ Len(pipe) \in Nat /\ Len(file[src]) \in Nat
  BY <1>1, LenProperties DEF Sponge!argc
<1>3. \A k \in 1..Sponge!argc : argv[k] \in File
  BY <1>1, ElementOfSeq DEF Sponge!argc
<1>4. Sponge!Given \in Nat
  BY <1>1, <1>2 DEF Sponge!Given, Sponge!TC_ERR
<1>5. Sponge!Taken \in Int
  BY <1>2, <1>4 DEF Sponge!Taken
<1> QED
  BY <1>1, <1>2, <1>3, <1>4, <1>5

\* The producer's turn moves a character, or nothing, and takes none away.
LEMMA SpongeProduce == Sponge!IInv /\ Sponge!Produce => Sponge!IInv'
<1> SUFFICES ASSUME Sponge!IInv, Sponge!Produce PROVE Sponge!IInv'
  OBVIOUS
<1>0. Sponge!TypeOK /\ Sponge!Flow /\ Sponge!Underway /\ Sponge!Complete /\ Sponge!Gaps
  BY DEF Sponge!IInv
<1>1. roff # Sponge!TC_ERR /\ UNCHANGED <<argv, src, file, fp, i, ch, pc, status, lost>>
  BY DEF Sponge!Produce
<1>2. roff \in Nat /\ Sponge!Given = roff
  BY <1>1, SpongeTypes DEF Sponge!Given
<1>3. PICK n \in Nat, p \in Nat : n = Len(file[src]) /\ p = Len(pipe)
  BY SpongeTypes
<1>4. Sponge!Taken = roff - p
  BY <1>2, <1>3 DEF Sponge!Taken
<1>5. Sponge!Underway'
  BY <1>0, <1>1 DEF Sponge!Underway, Sponge!argc
<1>6. /\ pipe' \in Seq(Character) /\ roff' \in Nat \cup {Sponge!TC_ERR}
      /\ Sponge!Apart => /\ Sponge!Taken' = Sponge!Taken /\ Sponge!Given' <= n
                         /\ \A k \in 1..Len(pipe') : pipe'[k] = file[src][Sponge!Taken + k]
  <2>1. CASE roff < n
    <3>1. pipe' = Append(pipe, file[src][roff + 1]) /\ roff' = roff + 1
      BY <1>3, <2>1 DEF Sponge!Produce
    <3>2. file[src][roff + 1] \in Character
      <4>1. roff + 1 \in 1..n
        BY <1>2, <2>1
      <4> QED
        BY <1>3, <4>1, SpongeTypes, ElementOfSeq
    <3>3. /\ pipe' \in Seq(Character) /\ Len(pipe') = p + 1 /\ pipe'[p + 1] = file[src][roff + 1]
          /\ \A k \in 1..p : pipe'[k] = pipe[k]
      BY <1>3, <3>1, <3>2, SpongeTypes, AppendProperties
    <3>4. roff' \in Nat /\ roff' # Sponge!TC_ERR
      BY <1>2, <3>1 DEF Sponge!TC_ERR
    <3>5. Sponge!Given' = roff + 1
      BY <3>1, <3>4 DEF Sponge!Given
    <3>6. Sponge!Taken' = roff - p
      <4>1. (roff + 1) - (p + 1) = roff - p
        BY <1>2
      <4> QED
        BY <3>3, <3>5, <4>1 DEF Sponge!Taken
    <3>7. ASSUME Sponge!Apart, NEW k \in 1..p + 1
          PROVE  pipe'[k] = file[src][(roff - p) + k]
      <4>1. CASE k \in 1..p
        BY <1>0, <1>3, <1>4, <3>3, <3>7, <4>1 DEF Sponge!Flow
      <4>2. CASE k = p + 1
        <5>1. (roff - p) + (p + 1) = roff + 1
          BY <1>2
        <5> QED
          BY <3>3, <4>2, <5>1
      <4> QED
        BY <4>1, <4>2
    <3>8. roff + 1 <= n
      BY <1>2, <2>1
    <3> QED
      BY <1>4, <3>3, <3>4, <3>5, <3>6, <3>7, <3>8
  <2>2. CASE ~(roff < n)
    <3>1. roff' = Sponge!TC_ERR /\ pipe' = pipe
      BY <1>3, <2>2 DEF Sponge!Produce
    <3>2. Sponge!Given' = n
      BY <1>1, <1>3, <3>1 DEF Sponge!Given
    <3>3. Sponge!Apart => roff = n
      <4>1. Sponge!Apart => roff <= n
        BY <1>0, <1>2, <1>3 DEF Sponge!Flow
      <4> QED
        BY <1>2, <2>2, <4>1
    <3>4. Sponge!Apart => Sponge!Taken' = Sponge!Taken
      BY <1>3, <1>4, <3>1, <3>2, <3>3 DEF Sponge!Taken
    <3> QED
      BY <1>0, <3>1, <3>2, <3>4, SpongeTypes DEF Sponge!Flow
  <2> QED
    BY <2>1, <2>2
<1>7. Sponge!TypeOK'
  BY <1>0, <1>1, <1>6 DEF Sponge!TypeOK, Sponge!argc
<1>8. Sponge!Apart' = Sponge!Apart
  BY <1>1 DEF Sponge!Apart, Sponge!Outs, Sponge!ToSet
<1>9. Sponge!Flow'
  BY <1>0, <1>1, <1>3, <1>6, <1>8 DEF Sponge!Flow
<1>10. Sponge!Apart => \A k : Sponge!Due(k)' = Sponge!Due(k) /\ Sponge!Copied(k)' = Sponge!Copied(k)
  BY <1>1, <1>6 DEF Sponge!Due, Sponge!Copied
<1>11. Sponge!Complete' /\ Sponge!Gaps'
  BY <1>0, <1>1, <1>8, <1>10 DEF Sponge!Complete, Sponge!Gaps, Sponge!Copying, Sponge!argc, Sponge!IsInjective
<1> QED
  BY <1>5, <1>7, <1>9, <1>11 DEF Sponge!IInv

LEMMA SpongeStart == Sponge!IInv /\ Sponge!Start => Sponge!IInv'
<1> SUFFICES ASSUME Sponge!IInv, Sponge!Start PROVE Sponge!IInv'
  OBVIOUS
<1>0. Sponge!TypeOK /\ Sponge!Flow /\ Sponge!Underway /\ Sponge!Complete /\ Sponge!Gaps
  BY DEF Sponge!IInv
<1>1. /\ pc = "start" /\ Sponge!argc > 0 /\ pc' = "open"
      /\ UNCHANGED <<argv, src, file, roff, pipe, fp, i, ch, status, lost>>
  BY DEF Sponge!Start
<1>2. Sponge!Apart' = Sponge!Apart /\ Sponge!Given' = Sponge!Given /\ Sponge!Taken' = Sponge!Taken
  BY <1>1 DEF Sponge!Apart, Sponge!Outs, Sponge!ToSet, Sponge!Given, Sponge!Taken
<1>3. Sponge!TypeOK' /\ Sponge!Flow'
  BY <1>0, <1>1, <1>2 DEF Sponge!TypeOK, Sponge!Flow, Sponge!argc
<1>4. Sponge!Underway'
  <2>1. i = 1 /\ 1..i - 1 = {}
    BY <1>0, <1>1 DEF Sponge!Underway
  <2>2. i <= Sponge!argc
    BY <1>1, <2>1, SpongeTypes
  <2> QED
    BY <1>0, <1>1, <2>1, <2>2 DEF Sponge!Underway, Sponge!argc
<1>5. status # "SUCCESS"
  BY <1>0, <1>1 DEF Sponge!Underway
<1>6. Sponge!Complete' /\ Sponge!Gaps'
  BY <1>1, <1>5 DEF Sponge!Complete, Sponge!Gaps, Sponge!Copying
<1> QED
  BY <1>3, <1>4, <1>6 DEF Sponge!IInv

LEMMA SpongeExit ==
  ASSUME Sponge!IInv, NEW code \in {"SUCCESS", "FAILURE"}, Sponge!Exit(code),
         code = "SUCCESS" => pc = "read" /\ pipe = <<>> /\ roff = Sponge!TC_ERR
  PROVE  Sponge!IInv'
<1>0. Sponge!TypeOK /\ Sponge!Flow /\ Sponge!Underway /\ Sponge!Complete /\ Sponge!Gaps
  BY DEF Sponge!IInv
<1>1. /\ pc' = "exit" /\ status' = code /\ fp' = [k \in 1..Sponge!argc |-> Sponge!TC_ERR]
      /\ UNCHANGED <<argv, src, file, roff, pipe, i, ch, lost>>
  BY DEF Sponge!Exit
<1>2. Sponge!Apart' = Sponge!Apart /\ Sponge!Given' = Sponge!Given /\ Sponge!Taken' = Sponge!Taken
  BY <1>1 DEF Sponge!Apart, Sponge!Outs, Sponge!ToSet, Sponge!Given, Sponge!Taken
<1>3. Sponge!TypeOK'
  BY <1>0, <1>1 DEF Sponge!TypeOK, Sponge!argc
<1>4. Sponge!Flow' /\ Sponge!Underway'
  BY <1>0, <1>1, <1>2 DEF Sponge!Flow, Sponge!Underway
<1>5. ASSUME code = "SUCCESS"
      PROVE  \A k : /\ Sponge!Due(k)' = Sponge!Due(k) /\ Sponge!Copied(k)' = Sponge!Copied(k)
  BY <1>1, <1>2, <1>5 DEF Sponge!Due, Sponge!Copied
<1>6. Sponge!Complete' /\ Sponge!Gaps'
  <2>1. CASE code = "SUCCESS"
    BY <1>0, <1>1, <1>2, <1>5, <2>1 DEF Sponge!Complete, Sponge!Gaps, Sponge!Copying, Sponge!argc, Sponge!IsInjective
  <2>2. CASE code # "SUCCESS"
    BY <1>1, <2>2 DEF Sponge!Complete, Sponge!Gaps, Sponge!Copying
  <2> QED
    BY <2>1, <2>2
<1> QED
  BY <1>3, <1>4, <1>6 DEF Sponge!IInv

\* The empty file has all of nothing.
LEMMA SpongeEmpty == \A t : Sponge!Holds(<<>>, t, 0) /\ Sponge!Among(<<>>, t, 0) /\ Len(<<>>) = 0
<1>1. Len(<<>>) = 0
  BY EmptySeq
<1>2. 1..0 = {} /\ [k \in {} |-> 0] \in [{} -> {}]
  OBVIOUS
<1> QED
  BY <1>1, <1>2 DEF Sponge!Holds, Sponge!Among

LEMMA SpongeOpen == Sponge!IInv /\ Sponge!Open => Sponge!IInv'
<1> SUFFICES ASSUME Sponge!IInv, Sponge!Open PROVE Sponge!IInv'
  OBVIOUS
<1>0. Sponge!TypeOK /\ Sponge!Flow /\ Sponge!Underway /\ Sponge!Complete /\ Sponge!Gaps
  BY DEF Sponge!IInv
<1>1. /\ pc = "open" /\ fp' = [fp EXCEPT ![i] = 0] /\ file' = [file EXCEPT ![argv[i]] = <<>>]
      /\ IF i = Sponge!argc THEN pc' = "read" /\ i' = 1 ELSE i' = i + 1 /\ pc' = pc
      /\ UNCHANGED <<argv, src, roff, pipe, ch, status, lost>>
  BY DEF Sponge!Open
<1>2. PICK n \in Nat, m \in Nat : n = Sponge!argc /\ m = i /\ m \in 1..n
  <2>1. i \in 1..Sponge!argc
    <3>1. i <= Sponge!argc
      BY <1>0, <1>1 DEF Sponge!Underway
    <3> QED
      BY <3>1, SpongeTypes
  <2> QED
    BY <2>1, SpongeTypes
<1>3. /\ argv[m] \in File /\ src \in File /\ file \in [File -> Seq(Character)]
      /\ fp \in [1..n -> Nat \cup {Sponge!TC_ERR}] /\ Sponge!argc' = n
  BY <1>1, <1>2, SpongeTypes DEF Sponge!argc
<1>4. Sponge!Apart' = Sponge!Apart /\ (Sponge!Apart => file'[src] = file[src])
  <2>1. Sponge!Apart => argv[m] # src
    BY <1>2, SpongeTypes DEF Sponge!Apart, Sponge!Outs, Sponge!ToSet
  <2> QED
    BY <1>1, <1>2, <1>3, <2>1 DEF Sponge!Apart, Sponge!Outs, Sponge!ToSet
<1>5. /\ fp' \in [1..n -> Nat \cup {Sponge!TC_ERR}] /\ fp'[m] = 0 /\ file' \in [File -> Seq(Character)]
      /\ file'[argv[m]] = <<>> /\ \A f \in File : file[f] = <<>> => file'[f] = <<>>
  BY <1>1, <1>2, <1>3, EmptySeq
<1>6. Sponge!Apart => Sponge!Given' = Sponge!Given /\ Sponge!Taken' = Sponge!Taken
  BY <1>1, <1>4 DEF Sponge!Given, Sponge!Taken
<1>7. /\ \A k \in 1..m - 1 : fp[k] = 0 /\ file[argv[k]] = <<>>
      /\ ~lost /\ status = "running"
  <2>1. pc # "exit"
    BY <1>1
  <2> QED
    BY <1>0, <1>1, <1>2, <2>1 DEF Sponge!Underway, Sponge!TypeOK
<1>8. \A k \in 1..m : fp'[k] = 0 /\ file'[argv[k]] = <<>>
  <2>1. \A k \in 1..m : (k = m \/ k \in 1..m - 1) /\ k \in 1..n
    BY <1>2
  <2>2. ASSUME NEW k \in 1..m - 1, k \in 1..n
        PROVE  fp'[k] = 0 /\ file'[argv[k]] = <<>>
    <3>1. argv[k] \in File
      BY <1>2, <2>2, SpongeTypes
    <3>2. fp'[k] = 0
      BY <1>1, <1>3, <1>7, <2>2
    <3> QED
      BY <1>5, <1>7, <3>1, <3>2
  <2> QED
    BY <1>5, <2>1, <2>2
<1>9. Sponge!Flow'
  <2>1. Sponge!Apart => Sponge!Taken = 0
    BY <1>0, <1>1 DEF Sponge!Flow
  <2>2. pc' \in {"read", "open"}
    BY <1>1
  <2> QED
    BY <1>0, <1>1, <1>4, <1>6, <2>1, <2>2 DEF Sponge!Flow
<1>10. CASE m # n
  <2>1. pc' = "open" /\ i' = m + 1
    BY <1>1, <1>2, <1>10
  <2>2. m + 1 \in 1..n + 1 /\ m + 1 <= n /\ (m + 1) - 1 = m
    BY <1>2, <1>10
  <2>3. Sponge!TypeOK'
    BY <1>0, <1>1, <1>3, <1>5, <2>1, <2>2 DEF Sponge!TypeOK
  <2>4. Sponge!Underway'
    BY <1>1, <1>3, <1>7, <1>8, <2>1, <2>2 DEF Sponge!Underway
  <2>5. Sponge!Complete' /\ Sponge!Gaps'
    BY <1>1, <1>7, <2>1 DEF Sponge!Complete, Sponge!Gaps, Sponge!Copying
  <2> QED
    BY <1>9, <2>3, <2>4, <2>5 DEF Sponge!IInv
<1>11. CASE m = n
  <2>1. pc' = "read" /\ i' = 1
    BY <1>1, <1>2, <1>11
  <2>2. 1 \in 1..n + 1
    OBVIOUS
  <2>3. Sponge!TypeOK'
    BY <1>0, <1>1, <1>3, <1>5, <2>1, <2>2 DEF Sponge!TypeOK
  <2>4. Sponge!Underway'
    <3>1. n > 0
      BY <1>2
    <3> QED
      BY <1>1, <1>3, <1>7, <2>1, <3>1 DEF Sponge!Underway
  <2>5. Sponge!Apart => Sponge!Taken' = 0
    BY <1>0, <1>1, <1>6 DEF Sponge!Flow
  <2>6. Sponge!Apart => \A k : Sponge!Due(k)' = 0 /\ Sponge!Copied(k)' = 0
    BY <2>1, <2>5 DEF Sponge!Due, Sponge!Copied
  <2>7. Sponge!Complete' /\ Sponge!Gaps'
    <3>1. \A k \in 1..Sponge!argc' : fp'[k] = 0 /\ file'[argv'[k]] = <<>>
      BY <1>1, <1>3, <1>8, <1>11
    <3>2. Sponge!Complete'
      BY <1>4, <2>6, <3>1, SpongeEmpty DEF Sponge!Complete
    <3> QED
      BY <1>4, <2>6, <3>1, <3>2, SpongeEmpty DEF Sponge!Gaps
  <2> QED
    BY <1>9, <2>3, <2>4, <2>7 DEF Sponge!IInv
<1> QED
  BY <1>10, <1>11

\* One more character is taken, and due to every operand.
LEMMA SpongeGetc == Sponge!IInv /\ Sponge!Getc => Sponge!IInv'
<1> SUFFICES ASSUME Sponge!IInv, Sponge!Getc PROVE Sponge!IInv'
  OBVIOUS
<1>0. Sponge!TypeOK /\ Sponge!Flow /\ Sponge!Underway /\ Sponge!Complete /\ Sponge!Gaps
  BY DEF Sponge!IInv
<1>1. /\ pc = "read" /\ pipe # <<>> /\ ch' = <<Head(pipe)>> /\ pipe' = Tail(pipe) /\ i' = 1 /\ pc' = "write"
      /\ UNCHANGED <<argv, src, file, roff, fp, status, lost>>
  BY DEF Sponge!Getc
<1>2. PICK p \in Nat : p = Len(pipe) /\ p > 0
  <2>1. Len(pipe) # 0
    BY <1>1, SpongeTypes, EmptySeq
  <2> QED
    BY <2>1, SpongeTypes
<1>3. /\ Head(pipe) \in Character /\ Head(pipe) = pipe[1] /\ pipe' \in Seq(Character) /\ Len(pipe') = p - 1
      /\ \A k \in 1..p - 1 : pipe'[k] = pipe[k + 1]
  BY <1>1, <1>2, SpongeTypes, HeadTailProperties
<1>4. Sponge!Apart' = Sponge!Apart /\ Sponge!Given' = Sponge!Given
  BY <1>1 DEF Sponge!Apart, Sponge!Outs, Sponge!ToSet, Sponge!Given
<1>5. PICK g \in Nat, t \in Int : g = Sponge!Given /\ t = Sponge!Taken /\ t = g - p
  BY <1>2, SpongeTypes DEF Sponge!Taken
<1>6. Sponge!Taken' = t + 1
  <2>1. g - (p - 1) = t + 1
    BY <1>5
  <2> QED
    BY <1>3, <1>4, <1>5, <2>1 DEF Sponge!Taken
<1>7. Sponge!TypeOK'
  <2>1. ch' \in Seq(Character) /\ Len(ch') <= 1
    BY <1>1, <1>3
  <2>2. i' \in 1..Sponge!argc' + 1
    BY <1>1, SpongeTypes DEF Sponge!argc
  <2> QED
    BY <1>0, <1>1, <1>3, <2>1, <2>2 DEF Sponge!TypeOK, Sponge!argc
<1>8. Sponge!Flow'
  <2> SUFFICES ASSUME Sponge!Apart
               PROVE  /\ t + 1 >= 0 /\ g <= Len(file[src])
                      /\ \A k \in 1..p - 1 : pipe'[k] = file[src][(t + 1) + k]
                      /\ t + 1 > 0 /\ ch' = <<file[src][t + 1]>>
    BY <1>1, <1>3, <1>4, <1>5, <1>6 DEF Sponge!Flow
  <2>1. t >= 0 /\ g <= Len(file[src]) /\ \A k \in 1..p : pipe[k] = file[src][t + k]
    BY <1>0, <1>2, <1>5 DEF Sponge!Flow
  <2>2. \A k \in 1..p - 1 : k + 1 \in 1..p /\ t + (k + 1) = (t + 1) + k
    BY <1>2
  <2>3. \A k \in 1..p - 1 : pipe'[k] = file[src][(t + 1) + k]
    BY <1>3, <2>1, <2>2
  <2>4. 1 \in 1..p
    BY <1>2
  <2> QED
    BY <1>1, <1>3, <2>1, <2>3, <2>4
<1>9. Sponge!Underway'
  <2>1. 1 <= Sponge!argc
    <3>1. Sponge!argc > 0
      BY <1>0, <1>1 DEF Sponge!Underway
    <3> QED
      BY <3>1, SpongeTypes
  <2>2. Sponge!argc' = Sponge!argc /\ Sponge!argc > 0
    BY <1>0, <1>1 DEF Sponge!Underway, Sponge!argc
  <2>3. \E c \in Character : ch' = <<c>>
    BY <1>1, <1>3
  <2>4. status # "SUCCESS" /\ status = "running"
    BY <1>0, <1>1 DEF Sponge!Underway, Sponge!TypeOK
  <2> QED
    BY <1>1, <2>1, <2>2, <2>3, <2>4 DEF Sponge!Underway
<1>10. \A k \in 1..Sponge!argc : /\ Sponge!Due(k)' = Sponge!Due(k) /\ Sponge!Copied(k)' = Sponge!Copied(k)
  <2> SUFFICES ASSUME NEW k \in 1..Sponge!argc
               PROVE  Sponge!Due(k)' = Sponge!Due(k) /\ Sponge!Copied(k)' = Sponge!Copied(k)
    OBVIOUS
  <2>1. Sponge!Due(k) = t /\ Sponge!Copied(k) = t
    BY <1>1, <1>5 DEF Sponge!Due, Sponge!Copied
  <2>2. k >= 1 /\ 1..1 - 1 = {} /\ (t + 1) - 1 = t
    BY SpongeTypes
  <2> QED
    BY <1>1, <1>6, <2>1, <2>2 DEF Sponge!Due, Sponge!Copied
<1>11. Sponge!Complete' /\ Sponge!Gaps'
  BY <1>0, <1>1, <1>4, <1>10 DEF Sponge!Complete, Sponge!Gaps, Sponge!Copying, Sponge!argc, Sponge!IsInjective
<1> QED
  BY <1>7, <1>8, <1>9, <1>11 DEF Sponge!IInv

\* What a write does to a file that has the characters before it, or also the
\* same one already.
LEMMA SpongeWrite ==
  ASSUME NEW s \in Seq(Character), NEW t, NEW n \in Nat \ {0}, t[n] \in Character,
         Sponge!Holds(s, t, n - 1) \/ Sponge!Holds(s, t, n)
  PROVE  Sponge!Holds(Sponge!WriteAt(s, n - 1, t[n]), t, n)
<1>1. (n - 1) + 1 = n /\ \A x \in 1..n : x = n \/ x \in 1..n - 1
  OBVIOUS
<1>2. CASE Sponge!Holds(s, t, n - 1)
  <2>1. Len(s) = n - 1 /\ \A x \in 1..n - 1 : s[x] = t[x]
    BY <1>2 DEF Sponge!Holds
  <2>2. ~(n - 1 < Len(s))
    BY <2>1
  <2>3. Sponge!WriteAt(s, n - 1, t[n]) = Append(s, t[n])
    BY <2>2 DEF Sponge!WriteAt
  <2>4. /\ Len(Append(s, t[n])) = n /\ Append(s, t[n])[n] = t[n]
        /\ \A x \in 1..n - 1 : Append(s, t[n])[x] = s[x]
    BY <1>1, <2>1, AppendProperties
  <2> QED
    BY <1>1, <2>1, <2>3, <2>4 DEF Sponge!Holds
<1>3. CASE Sponge!Holds(s, t, n)
  <2>1. Len(s) = n /\ \A x \in 1..n : s[x] = t[x]
    BY <1>3 DEF Sponge!Holds
  <2>2. n - 1 < Len(s)
    BY <2>1
  <2>3. Sponge!WriteAt(s, n - 1, t[n]) = [s EXCEPT ![n] = t[n]]
    BY <1>1, <2>2 DEF Sponge!WriteAt
  <2>4. n \in 1..Len(s)
    BY <2>1
  <2>5. /\ Len([s EXCEPT ![n] = t[n]]) = n
        /\ \A x \in 1..n : [s EXCEPT ![n] = t[n]][x] = IF x = n THEN t[n] ELSE s[x]
    BY <2>1, <2>4, ExceptSeq, LenProperties
  <2> QED
    BY <2>1, <2>3, <2>5 DEF Sponge!Holds
<1> QED
  BY <1>2, <1>3

\* A file that has some of the characters before has some of these, and with
\* the next one it has some of one more.
LEMMA SpongeGap ==
  ASSUME NEW s \in Seq(Character), NEW t, NEW n \in Nat \ {0}, t[n] \in Character, Sponge!Among(s, t, n - 1)
  PROVE  Sponge!Among(s, t, n) /\ Sponge!Among(Append(s, t[n]), t, n)
<1>1. PICK e \in [1..Len(s) -> 1..n - 1] :
        /\ \A j, k \in 1..Len(s) : j < k => e[j] < e[k]
        /\ \A k \in 1..Len(s) : s[k] = t[e[k]]
  BY DEF Sponge!Among
<1>2. Len(s) \in Nat /\ 1..n - 1 \subseteq 1..n /\ n \in 1..n
  BY LenProperties
<1>3. Sponge!Among(s, t, n)
  <2>1. e \in [1..Len(s) -> 1..n]
    BY <1>2
  <2> QED
    BY <1>1, <2>1 DEF Sponge!Among
<1>4. Sponge!Among(Append(s, t[n]), t, n)
  <2>1. PICK m \in Nat : m = Len(s)
    BY <1>2
  <2>2. /\ Len(Append(s, t[n])) = m + 1 /\ Append(s, t[n])[m + 1] = t[n]
        /\ \A k \in 1..m : Append(s, t[n])[k] = s[k]
    BY <2>1, AppendProperties
  <2> DEFINE d == [k \in 1..m + 1 |-> IF k = m + 1 THEN n ELSE e[k]]
  <2>3. \A k \in 1..m + 1 : k = m + 1 \/ k \in 1..m
    OBVIOUS
  <2>4. d[m + 1] = n /\ \A k \in 1..m : d[k] = e[k] /\ e[k] \in 1..n - 1
    <3>1. m + 1 \in 1..m + 1 /\ \A k \in 1..m : k \in 1..m + 1 /\ k # m + 1
      OBVIOUS
    <3> QED
      BY <2>1, <3>1
  <2>5. d \in [1..m + 1 -> 1..n]
    BY <1>2, <2>1, <2>3
  <2> HIDE DEF d
  <2>6. \A j, k \in 1..m + 1 : j < k => d[j] < d[k]
    <3> SUFFICES ASSUME NEW j \in 1..m + 1, NEW k \in 1..m + 1, j < k PROVE d[j] < d[k]
      OBVIOUS
    <3>1. j \in 1..m
      OBVIOUS
    <3>2. CASE k = m + 1
      <4>1. \A x \in 1..n - 1 : x < n
        OBVIOUS
      <4> QED
        BY <2>4, <3>1, <3>2, <4>1
    <3>3. CASE k \in 1..m
      BY <1>1, <2>1, <2>4, <3>1, <3>3
    <3> QED
      BY <2>3, <3>2, <3>3
  <2>7. \A k \in 1..m + 1 : Append(s, t[n])[k] = t[d[k]]
    BY <1>1, <2>1, <2>2, <2>3, <2>4
  <2> QED
    BY <2>2, <2>5, <2>6, <2>7 DEF Sponge!Among
<1> QED
  BY <1>3, <1>4


LEMMA SpongeWriteType ==
  ASSUME NEW s \in Seq(Character), NEW off \in Nat \cup {Sponge!TC_ERR}, NEW c \in Character
  PROVE  Sponge!WriteAt(s, off, c) \in Seq(Character)
<1>1. Append(s, c) \in Seq(Character)
  BY AppendProperties
<1>2. CASE off \in Nat /\ off < Len(s)
  <2>1. off + 1 \in 1..Len(s)
    BY <1>2, LenProperties
  <2>2. [s EXCEPT ![off + 1] = c] \in Seq(Character)
    BY <2>1, ExceptSeq
  <2> QED
    BY <1>2, <2>2 DEF Sponge!WriteAt
<1>3. CASE off = Sponge!TC_ERR
  <2>1. off + 1 = 0 /\ off < Len(s)
    BY <1>3, LenProperties DEF Sponge!TC_ERR
  <2>2. s = [k \in 1..Len(s) |-> s[k]] /\ 0 \notin 1..Len(s)
    BY LenProperties
  <2>3. [s EXCEPT ![0] = c] = s
    BY <2>2, LenProperties
  <2> QED
    BY <2>1, <2>3 DEF Sponge!WriteAt
<1>4. CASE off \in Nat /\ ~(off < Len(s))
  BY <1>1, <1>4 DEF Sponge!WriteAt
<1> QED
  BY <1>2, <1>3, <1>4

\* One operand gets the character in hand, or does not.
LEMMA SpongePutc == Sponge!IInv /\ Sponge!Putc => Sponge!IInv'
<1> SUFFICES ASSUME Sponge!IInv, Sponge!Putc PROVE Sponge!IInv'
  OBVIOUS
<1>0. Sponge!TypeOK /\ Sponge!Flow /\ Sponge!Underway /\ Sponge!Complete /\ Sponge!Gaps
  BY DEF Sponge!IInv
<1>1. /\ pc = "write" /\ i' = i + 1 /\ UNCHANGED <<argv, src, roff, pipe, ch, status>>
      /\ IF i = Sponge!argc THEN pc' = "read" ELSE pc' = pc
  BY DEF Sponge!Putc
<1>2. PICK n \in Nat, m \in Nat : n = Sponge!argc /\ m = i /\ m \in 1..n
  <2>1. i \in 1..Sponge!argc
    <3>1. i <= Sponge!argc
      BY <1>0, <1>1 DEF Sponge!Underway
    <3> QED
      BY <3>1, SpongeTypes
  <2> QED
    BY <2>1, SpongeTypes
<1>3. PICK c \in Character : ch = <<c>> /\ ch[1] = c
  BY <1>0, <1>1 DEF Sponge!Underway
<1>4. PICK f \in File : f = argv[m]
  BY <1>2, SpongeTypes
<1>5. PICK t \in Int : t = Sponge!Taken
  BY SpongeTypes
<1>6. /\ src \in File /\ file \in [File -> Seq(Character)] /\ Sponge!argc' = n
      /\ fp \in [1..n -> Nat \cup {Sponge!TC_ERR}] /\ fp[m] \in Nat \cup {Sponge!TC_ERR}
      /\ file[f] \in Seq(Character) /\ \A k \in 1..n : argv[k] \in File
  BY <1>1, <1>2, SpongeTypes DEF Sponge!argc
<1>7. \/ /\ file' = [file EXCEPT ![f] = Sponge!WriteAt(file[f], fp[m], c)]
         /\ fp' = [fp EXCEPT ![m] = fp[m] + 1] /\ lost' = lost
      \/ file' = file /\ fp' = fp /\ lost' = TRUE
  BY <1>2, <1>3, <1>4 DEF Sponge!Putc
<1>8. Sponge!Apart' = Sponge!Apart /\ (Sponge!Apart => f # src /\ file'[src] = file[src])
  <2>1. Sponge!Apart => f # src
    BY <1>2, <1>4, SpongeTypes DEF Sponge!Apart, Sponge!Outs, Sponge!ToSet
  <2>2. f # src => file'[src] = file[src]
    BY <1>6, <1>7
  <2> QED
    BY <1>1, <2>1, <2>2 DEF Sponge!Apart, Sponge!Outs, Sponge!ToSet
<1>9. Sponge!Apart => Sponge!Given' = Sponge!Given /\ Sponge!Taken' = t
  BY <1>1, <1>5, <1>8 DEF Sponge!Given, Sponge!Taken
<1>10. /\ pc' = IF m = n THEN "read" ELSE "write"
       /\ pc' \in {"read", "write"} /\ i' = m + 1 /\ Sponge!Copying /\ Sponge!Copying'
  BY <1>1, <1>2 DEF Sponge!Copying
<1>11. Sponge!Flow'
  BY <1>0, <1>1, <1>5, <1>8, <1>9, <1>10 DEF Sponge!Flow
<1>12. Sponge!TypeOK'
  <2>1. file' \in [File -> Seq(Character)]
    <3>1. Sponge!WriteAt(file[f], fp[m], c) \in Seq(Character)
      BY <1>6, SpongeWriteType
    <3> QED
      BY <1>6, <1>7, <3>1
  <2>2. fp' \in [1..n -> Nat \cup {Sponge!TC_ERR}]
    <3>1. fp[m] + 1 \in Nat
      BY <1>6 DEF Sponge!TC_ERR
    <3> QED
      BY <1>6, <1>7, <3>1
  <2>3. m + 1 \in 1..n + 1
    BY <1>2
  <2>4. lost' \in BOOLEAN
    BY <1>0, <1>7 DEF Sponge!TypeOK
  <2> QED
    BY <1>0, <1>1, <1>6, <1>10, <2>1, <2>2, <2>3, <2>4 DEF Sponge!TypeOK
<1>13. Sponge!Underway'
  <2>1. n > 0 /\ (m # n => m + 1 <= n)
    BY <1>2
  <2>2. status' = status /\ status = "running"
    BY <1>0, <1>1 DEF Sponge!Underway, Sponge!TypeOK
  <2>3. pc' = "write" => i' <= Sponge!argc'
    BY <1>6, <1>10, <2>1
  <2> QED
    BY <1>1, <1>3, <1>6, <1>10, <2>1, <2>2, <2>3 DEF Sponge!Underway
<1>14. \A k \in 1..n : /\ Sponge!Due(k) = IF k >= m THEN t - 1 ELSE t
                       /\ Sponge!Copied(k) = IF \A j \in 1..m - 1 : argv[j] # argv[k] THEN t - 1 ELSE t
  BY <1>1, <1>2, <1>5 DEF Sponge!Due, Sponge!Copied
<1>15. ASSUME Sponge!Apart, NEW k \in 1..n
       PROVE  /\ k = m => Sponge!Due(k)' = t
              /\ k # m => Sponge!Due(k)' = Sponge!Due(k)
              /\ argv[k] = f => Sponge!Copied(k)' = t
              /\ argv[k] # f => Sponge!Copied(k)' = Sponge!Copied(k)
  <2>1. (m + 1) - 1 = m /\ m \in 1..m /\ \A j \in 1..m : j = m \/ j \in 1..m - 1
    BY <1>2
  <2>2. 1..m - 1 \subseteq 1..m
    BY <1>2
  <2>3. CASE m # n
    <3>1. pc' = "write" /\ i' = m + 1
      BY <1>10, <2>3
    <3>2. Sponge!Due(k)' = IF k >= m + 1 THEN t - 1 ELSE t
      BY <1>9, <1>15, <3>1 DEF Sponge!Due
    <3>3. Sponge!Copied(k)' = IF \A j \in 1..m : argv[j] # argv[k] THEN t - 1 ELSE t
      BY <1>1, <1>9, <1>15, <2>1, <3>1 DEF Sponge!Copied
    <3>4. (k = m => ~(k >= m + 1)) /\ (k # m => (k >= m + 1 <=> k >= m))
      BY <1>2
    <3> QED
      BY <1>4, <1>14, <2>1, <2>2, <3>2, <3>3, <3>4
  <2>4. CASE m = n
    <3>1. pc' = "read"
      BY <1>10, <2>4
    <3>2. Sponge!Due(k)' = t /\ Sponge!Copied(k)' = t
      BY <1>9, <1>15, <3>1 DEF Sponge!Due, Sponge!Copied
    <3>3. k # m => ~(k >= m) /\ k \in 1..m - 1
      BY <1>2, <2>4
    <3>4. k # m => Sponge!Due(k) = t /\ Sponge!Copied(k) = t
      BY <1>14, <3>3
    <3> QED
      BY <1>4, <3>2, <3>4
  <2> QED
    BY <2>3, <2>4
<1>16. ASSUME Sponge!Apart
       PROVE  /\ t \in Nat \ {0} /\ c = file[src][t] /\ file[src][t] \in Character
              /\ Sponge!Due(m) = t - 1
  <2>1. t > 0 /\ ch = <<file[src][t]>>
    BY <1>0, <1>1, <1>5, <1>16 DEF Sponge!Flow
  <2>2. ch[1] = file[src][t]
    BY <2>1
  <2>3. t \in Nat \ {0} /\ m >= m
    BY <1>2, <2>1
  <2> QED
    BY <1>2, <1>3, <1>14, <2>2, <2>3
<1>17. Sponge!Complete'
  <2> SUFFICES ASSUME Sponge!Apart, ~lost'
               PROVE  /\ \A k \in 1..n : fp'[k] = Sponge!Due(k)'
                      /\ \A k \in 1..n : Sponge!Holds(file'[argv[k]], file[src], Sponge!Copied(k)')
    BY <1>1, <1>6, <1>8, <1>10 DEF Sponge!Complete
  <2>1. /\ file' = [file EXCEPT ![f] = Sponge!WriteAt(file[f], fp[m], c)]
        /\ fp' = [fp EXCEPT ![m] = fp[m] + 1] /\ ~lost
    BY <1>7
  <2>2. /\ \A k \in 1..n : fp[k] = Sponge!Due(k)
        /\ \A k \in 1..n : Sponge!Holds(file[argv[k]], file[src], Sponge!Copied(k))
    BY <1>0, <1>2, <1>10, <2>1 DEF Sponge!Complete
  <2>3. fp[m] = t - 1 /\ (t - 1) + 1 = t
    BY <1>2, <1>16, <2>2
  <2>4. Sponge!Copied(m) = t - 1 \/ Sponge!Copied(m) = t
    BY <1>2, <1>14
  <2>5. Sponge!Holds(file[f], file[src], t - 1) \/ Sponge!Holds(file[f], file[src], t)
    BY <1>2, <1>4, <2>2, <2>4
  <2>6. Sponge!Holds(file'[f], file[src], t)
    <3>1. file'[f] = Sponge!WriteAt(file[f], t - 1, file[src][t])
      BY <1>6, <1>16, <2>1, <2>3
    <3>2. Sponge!Holds(Sponge!WriteAt(file[f], t - 1, file[src][t]), file[src], t)
      BY <1>6, <1>16, <2>5, SpongeWrite
    <3> QED
      BY <3>1, <3>2
  <2>7. ASSUME NEW k \in 1..n
        PROVE  fp'[k] = Sponge!Due(k)' /\ Sponge!Holds(file'[argv[k]], file[src], Sponge!Copied(k)')
    <3>1. fp'[k] = Sponge!Due(k)'
      <4>1. CASE k = m
        BY <1>6, <1>15, <2>1, <2>3, <4>1
      <4>2. CASE k # m
        BY <1>6, <1>15, <2>1, <2>2, <4>2
      <4> QED
        BY <4>1, <4>2
    <3>2. Sponge!Holds(file'[argv[k]], file[src], Sponge!Copied(k)')
      <4>1. CASE argv[k] = f
        BY <1>15, <2>6, <4>1
      <4>2. CASE argv[k] # f
        <5>1. file'[argv[k]] = file[argv[k]]
          BY <1>6, <2>1, <4>2
        <5> QED
          BY <1>15, <2>2, <4>2, <5>1
      <4> QED
        BY <4>1, <4>2
    <3> QED
      BY <3>1, <3>2
  <2> QED
    BY <2>7
<1>18. Sponge!Gaps'
  <2> SUFFICES ASSUME Sponge!Apart, Sponge!IsInjective(argv)
               PROVE  /\ \A k \in 1..n : fp'[k] = Len(file'[argv[k]])
                      /\ \A k \in 1..n : Sponge!Among(file'[argv[k]], file[src], Sponge!Due(k)')
    BY <1>1, <1>6, <1>8, <1>10 DEF Sponge!Gaps, Sponge!IsInjective
  <2>1. /\ \A k \in 1..n : fp[k] = Len(file[argv[k]])
        /\ \A k \in 1..n : Sponge!Among(file[argv[k]], file[src], Sponge!Due(k))
    BY <1>0, <1>2, <1>10 DEF Sponge!Gaps
  <2>2. \A k \in 1..n : k # m => argv[k] # f
    BY <1>2, <1>4, SpongeTypes DEF Sponge!IsInjective
  <2>3. fp[m] = Len(file[f]) /\ Sponge!Among(file[f], file[src], t - 1)
    BY <1>2, <1>4, <1>16, <2>1
  <2>4. /\ Sponge!Among(file[f], file[src], t)
        /\ Sponge!Among(Append(file[f], c), file[src], t)
    BY <1>6, <1>16, <2>3, SpongeGap
  <2>5. fp'[m] = Len(file'[f]) /\ Sponge!Among(file'[f], file[src], t)
    <3>1. CASE file' = file /\ fp' = fp
      BY <2>3, <2>4, <3>1
    <3>2. CASE /\ file' = [file EXCEPT ![f] = Sponge!WriteAt(file[f], fp[m], c)]
               /\ fp' = [fp EXCEPT ![m] = fp[m] + 1]
      <4>1. ~(fp[m] < Len(file[f]))
        BY <1>6, <2>3, LenProperties
      <4>2. file'[f] = Append(file[f], c)
        BY <1>6, <3>2, <4>1 DEF Sponge!WriteAt
      <4>3. Len(Append(file[f], c)) = Len(file[f]) + 1
        BY <1>6, AppendProperties
      <4>4. fp'[m] = fp[m] + 1
        BY <1>2, <1>6, <3>2
      <4> QED
        BY <2>3, <2>4, <4>2, <4>3, <4>4
    <3> QED
      BY <1>7, <3>1, <3>2
  <2>6. ASSUME NEW k \in 1..n, k # m
        PROVE  fp'[k] = Len(file'[argv[k]]) /\ Sponge!Among(file'[argv[k]], file[src], Sponge!Due(k)')
    <3>1. file'[argv[k]] = file[argv[k]] /\ fp'[k] = fp[k]
      BY <1>6, <1>7, <2>2, <2>6
    <3> QED
      BY <1>15, <2>1, <2>6, <3>1
  <2>7. fp'[m] = Len(file'[argv[m]]) /\ Sponge!Among(file'[argv[m]], file[src], Sponge!Due(m)')
    BY <1>2, <1>4, <1>15, <2>5
  <2> QED
    BY <2>6, <2>7
<1> QED
  BY <1>11, <1>12, <1>13, <1>17, <1>18 DEF Sponge!IInv

LEMMA SpongeUnchanged == Sponge!IInv /\ UNCHANGED Sponge!vars => Sponge!IInv'
<1> SUFFICES ASSUME Sponge!IInv, UNCHANGED Sponge!vars PROVE Sponge!IInv'
  OBVIOUS
<1>1. /\ argv' = argv /\ src' = src /\ file' = file /\ roff' = roff /\ pipe' = pipe /\ fp' = fp
      /\ i' = i /\ ch' = ch /\ pc' = pc /\ status' = status /\ lost' = lost
  BY DEF Sponge!vars
<1>2. Sponge!argc' = Sponge!argc /\ Sponge!Taken' = Sponge!Taken /\ Sponge!Given' = Sponge!Given /\ Sponge!Apart' = Sponge!Apart
  BY <1>1 DEF Sponge!argc, Sponge!Taken, Sponge!Given, Sponge!Apart, Sponge!Outs, Sponge!ToSet
<1>3. \A k : Sponge!Due(k)' = Sponge!Due(k) /\ Sponge!Copied(k)' = Sponge!Copied(k)
  BY <1>1, <1>2 DEF Sponge!Due, Sponge!Copied
<1>4. Sponge!TypeOK' /\ Sponge!Flow' /\ Sponge!Underway'
  BY <1>1, <1>2 DEF Sponge!IInv, Sponge!TypeOK, Sponge!Flow, Sponge!Underway
<1>5. Sponge!Complete' /\ Sponge!Gaps'
  BY <1>1, <1>2, <1>3 DEF Sponge!IInv, Sponge!Complete, Sponge!Gaps, Sponge!Copying, Sponge!IsInjective
<1> QED
  BY <1>4, <1>5 DEF Sponge!IInv

LEMMA SpongeNext == Sponge!IInv /\ Sponge!Next => Sponge!IInv'
<1> SUFFICES ASSUME Sponge!IInv, Sponge!Next PROVE Sponge!IInv'
  OBVIOUS
<1>1. CASE Sponge!GiveUp
  BY <1>1, SpongeExit DEF Sponge!GiveUp
<1>2. CASE Sponge!EndOfInput
  BY <1>2, SpongeExit DEF Sponge!EndOfInput
<1>3. CASE Sponge!Done
  BY <1>3, SpongeUnchanged DEF Sponge!Done
<1> QED
  BY <1>1, <1>2, <1>3, SpongeProduce, SpongeStart, SpongeOpen, SpongeGetc, SpongePutc DEF Sponge!Next

\* sponge's promises follow: what it took is all there was.
LEMMA SpongeDelivers == Sponge!IInv => Sponge!CompleteUnlessLost /\ Sponge!OnlyGaps
<1> SUFFICES ASSUME Sponge!IInv PROVE Sponge!CompleteUnlessLost /\ Sponge!OnlyGaps
  OBVIOUS
<1>0. Sponge!TypeOK /\ Sponge!Flow /\ Sponge!Underway /\ Sponge!Complete /\ Sponge!Gaps
  BY DEF Sponge!IInv
<1>1. PICK n \in Nat, g \in Nat, t \in Int : n = Sponge!argc /\ g = Sponge!Given /\ t = Sponge!Taken
  BY SpongeTypes
<1>2. \A f \in Sponge!Outs : f \in File /\ \E k \in 1..n : argv[k] = f
  BY <1>1, SpongeTypes DEF Sponge!Outs, Sponge!ToSet
<1>3. ASSUME Sponge!Apart PROVE t <= Len(file[src])
  <2>1. g <= Len(file[src]) /\ t = g - Len(pipe)
    BY <1>0, <1>1, <1>3 DEF Sponge!Flow, Sponge!Taken
  <2> QED
    BY <1>1, <2>1, SpongeTypes
<1>4. Sponge!CompleteUnlessLost
  <2> SUFFICES ASSUME status = "SUCCESS", ~lost, Sponge!Apart, NEW f \in Sponge!Outs
               PROVE  file[f] = file[src]
    BY DEF Sponge!CompleteUnlessLost, Sponge!Apart
  <2>1. pc = "exit" /\ pipe = <<>> /\ roff = Sponge!TC_ERR
    <3>1. status # "running"
      OBVIOUS
    <3> QED
      BY <1>0, <3>1 DEF Sponge!Underway
  <2>2. t = Len(file[src])
    <3>1. Len(pipe) = 0 /\ Sponge!Given = Len(file[src])
      BY <2>1, EmptySeq DEF Sponge!Given
    <3> QED
      BY <1>1, <3>1, SpongeTypes DEF Sponge!Taken
  <2>3. PICK k \in 1..n : argv[k] = f
    BY <1>2
  <2>4. Sponge!Holds(file[f], file[src], t)
    BY <1>0, <1>1, <2>1, <2>3 DEF Sponge!Complete, Sponge!Copied
  <2>5. file[f] \in Seq(Character) /\ file[src] \in Seq(Character)
    BY <1>2, SpongeTypes
  <2> QED
    BY <2>2, <2>4, <2>5, SeqEqual DEF Sponge!Holds
<1>5. Sponge!OnlyGaps
  <2> SUFFICES ASSUME pc \in {"read", "write", "exit"}, status # "FAILURE", Sponge!IsInjective(argv), Sponge!Apart,
                      NEW f \in Sponge!Outs
               PROVE  Sponge!IsSubsequence(file[f], file[src])
    BY DEF Sponge!OnlyGaps, Sponge!Apart
  <2>1. Sponge!Copying \/ status = "SUCCESS"
    BY <1>0 DEF Sponge!Copying, Sponge!Underway, Sponge!TypeOK
  <2>2. PICK k \in 1..n : argv[k] = f
    BY <1>2
  <2>3. Sponge!Among(file[f], file[src], Sponge!Due(k))
    BY <1>0, <1>1, <2>1, <2>2 DEF Sponge!Gaps
  <2>4. Sponge!Due(k) \in Int /\ Sponge!Due(k) <= Len(file[src])
    <3>1. Sponge!Due(k) = t - 1 \/ Sponge!Due(k) = t
      BY <1>1 DEF Sponge!Due
    <3> QED
      BY <1>1, <1>3, <3>1, SpongeTypes
  <2>5. /\ DOMAIN file[f] = 1..Len(file[f]) /\ DOMAIN file[src] = 1..Len(file[src])
    <3>1. file[f] \in Seq(Character) /\ file[src] \in Seq(Character)
      BY <1>2, SpongeTypes
    <3> QED
      BY <3>1, LenProperties
  <2>6. 1..Sponge!Due(k) \subseteq 1..Len(file[src])
    BY <2>4, SpongeTypes
  <2>7. PICK e \in [1..Len(file[f]) -> 1..Sponge!Due(k)] :
          /\ \A x, y \in 1..Len(file[f]) : x < y => e[x] < e[y]
          /\ \A x \in 1..Len(file[f]) : file[f][x] = file[src][e[x]]
    BY <2>3 DEF Sponge!Among
  <2>8. e \in [DOMAIN file[f] -> DOMAIN file[src]]
    BY <2>5, <2>6
  <2> QED
    BY <2>5, <2>7, <2>8 DEF Sponge!IsSubsequence
<1> QED
  BY <1>4, <1>5

-----------------------------------------------------------------------------
(* mkdir and rmdir *)

\* A set of naturals has a least member.
LEMMA Smallest == ASSUME NEW T \in SUBSET Nat, T # {} PROVE \E a \in T : \A b \in T : a <= b
<1> DEFINE R == {q \in Nat \X Nat : q[1] < q[2]}
<1>1. IsWellFoundedOn(R, Nat)
  BY NatLessThanWellFounded DEF OpToRel
<1>2. PICK a \in T : \A b \in T : <<b, a>> \notin R
  <2> HIDE DEF R
  <2> QED
    BY <1>1, WFMin
<1>3. ASSUME NEW b \in T PROVE ~(b < a)
  <2>1. <<b, a>> \in Nat \X Nat /\ <<b, a>>[1] = b /\ <<b, a>>[2] = a
    OBVIOUS
  <2>2. <<b, a>> \notin R
    BY <1>2
  <2> QED
    BY <2>1, <2>2
<1>4. \A b \in T : b \in Nat /\ a \in Nat
  OBVIOUS
<1> HIDE DEF R
<1>5. \A b \in T : a <= b
  BY <1>3, <1>4
<1> QED
  BY <1>5

LEMMA MkdirInit == Mkdir!Init => Mkdir!IInv
<1> SUFFICES ASSUME Mkdir!Init PROVE Mkdir!IInv
  OBVIOUS
<1>0. /\ MaxDepth \in Nat \ {0}
      /\ \A c \in Commands : /\ c.args \in Seq(1..MaxDepth) /\ c.args # <<>>
  BY MkdirAssumed DEF Mkdir!CommandsAssumption
<1>1. /\ fs \in [Mkdir!Depths -> {"none", "dir", "file"}]
      /\ \A k \in Mkdir!Depths \ {1} : fs[k] # "none" => fs[k - 1] = "dir"
      /\ run \in [Procs -> Commands] /\ i = [q \in Procs |-> 1]
      /\ at = [q \in Procs |-> Mkdir!First(run[q], run[q].args[1])]
      /\ status = [q \in Procs |-> "run"] /\ removed = {} /\ met = [q \in Procs |-> "none"]
  BY DEF Mkdir!Init
<1>2. ASSUME NEW q \in Procs
      PROVE  /\ i[q] = 1 /\ 1 \in DOMAIN run[q].args /\ run[q].args[1] \in Mkdir!Depths
             /\ Mkdir!Target(q) = run[q].args[1]
             /\ at[q] = IF run[q].cmd = "mkdir -p" THEN 1 ELSE Mkdir!Target(q)
  <2>1. run[q] \in Commands
    BY <1>1
  <2>2. run[q].args \in Seq(1..MaxDepth) /\ run[q].args # <<>>
    BY <1>0, <2>1
  <2>3. 1 \in DOMAIN run[q].args /\ run[q].args[1] \in Mkdir!Depths
    <3> DEFINE s == run[q].args
    <3>1. s \in Seq(1..MaxDepth) /\ s # <<>>
      BY <2>2
    <3> HIDE DEF s
    <3>2. Len(s) \in Nat /\ Len(s) # 0 /\ DOMAIN s = 1..Len(s)
      BY <3>1, EmptySeq, LenProperties
    <3>3. 1 \in 1..Len(s)
      BY <3>2
    <3>4. s[1] \in 1..MaxDepth
      BY <3>1, <3>3, ElementOfSeq
    <3> QED
      BY <3>2, <3>3, <3>4 DEF Mkdir!Depths, s
  <2> QED
    BY <1>1, <2>3 DEF Mkdir!Target, Mkdir!First
<1>3. Mkdir!TypeOK
  <2>1. \A q \in Procs : i[q] \in DOMAIN run[q].args /\ at[q] \in 1..Mkdir!Target(q) /\ at[q] \in Mkdir!Depths
    <3> SUFFICES ASSUME NEW q \in Procs
                 PROVE  i[q] \in DOMAIN run[q].args /\ at[q] \in 1..Mkdir!Target(q) /\ at[q] \in Mkdir!Depths
      OBVIOUS
    <3>1. PICK g \in 1..MaxDepth : g = Mkdir!Target(q)
      BY <1>2 DEF Mkdir!Depths
    <3>2. at[q] = 1 \/ at[q] = g
      BY <1>2, <3>1
    <3>3. at[q] \in 1..g /\ at[q] \in 1..MaxDepth
      BY <1>0, <3>2
    <3> QED
      BY <1>2, <3>1, <3>3 DEF Mkdir!Depths
  <2>2. i \in [Procs -> Nat] /\ at \in [Procs -> Mkdir!Depths]
    BY <1>1, <2>1
  <2> QED
    BY <1>1, <2>1, <2>2 DEF Mkdir!TypeOK
<1>4. Mkdir!Tree
  <2> SUFFICES ASSUME NEW k \in Mkdir!Depths, NEW j \in 1..k - 1, fs[k] # "none", fs[j] # "dir"
               PROVE  FALSE
    BY DEF Mkdir!Tree
  <2> DEFINE S == {n \in Mkdir!Depths : j < n /\ fs[n] # "none"}
  <2>1. PICK n \in S : \A o \in S : n <= o
    <3>1. S \subseteq Nat /\ k \in S
      BY <1>0 DEF Mkdir!Depths
    <3> HIDE DEF S
    <3> QED
      BY <3>1, Smallest
  <2>2. n \in Mkdir!Depths \ {1} /\ j < n /\ fs[n - 1] = "dir"
    <3>1. n \in Mkdir!Depths /\ j < n /\ n # 1 /\ fs[n] # "none"
      BY <1>0 DEF Mkdir!Depths
    <3> QED
      BY <1>1, <3>1
  <2>3. n - 1 \in Mkdir!Depths /\ j < n - 1 /\ ~(n <= n - 1)
    BY <1>0, <2>2 DEF Mkdir!Depths
  <2>4. n - 1 \in S
    BY <2>2, <2>3
  <2> QED
    BY <2>1, <2>3, <2>4
<1>5. Mkdir!Walked
  <2> SUFFICES ASSUME NEW q \in Procs PROVE Mkdir!Passed(q)
    BY DEF Mkdir!Walked
  <2>1. i[q] = 1 /\ (run[q].cmd = "mkdir -p" => at[q] = 1)
    BY <1>2
  <2>2. 1..1 - 1 = {}
    OBVIOUS
  <2> QED
    BY <1>2, <2>1, <2>2 DEF Mkdir!Passed
<1>6. Mkdir!SuccessMeansThere /\ Mkdir!FailsForAReason
  BY <1>1 DEF Mkdir!SuccessMeansThere, Mkdir!FailsForAReason
<1> QED
  BY <1>3, <1>4, <1>5, <1>6 DEF Mkdir!IInv

\* Where a directory can be made, all above it are directories.
LEMMA MkdirParents ==
  ASSUME Mkdir!Tree, NEW k \in Mkdir!Depths, k = 1 \/ fs[k - 1] = "dir"
  PROVE  \A j \in 1..k - 1 : fs[j] = "dir"
<1> SUFFICES ASSUME NEW j \in 1..k - 1 PROVE fs[j] = "dir"
  OBVIOUS
<1>1. MaxDepth \in Nat /\ k \in 1..MaxDepth
  BY MkdirAssumed DEF Mkdir!CommandsAssumption, Mkdir!Depths
<1>2. k - 1 \in Mkdir!Depths /\ fs[k - 1] = "dir" /\ (j = k - 1 \/ j \in 1..(k - 1) - 1)
  BY <1>1 DEF Mkdir!Depths
<1> QED
  BY <1>2 DEF Mkdir!Tree

\* The arguments of a process are prefixes of the path.
LEMMA MkdirArguments ==
  ASSUME Mkdir!TypeOK, NEW q \in Procs
  PROVE  /\ Len(run[q].args) \in Nat /\ DOMAIN run[q].args = 1..Len(run[q].args)
         /\ i[q] \in 1..Len(run[q].args) /\ at[q] \in 1..Mkdir!Target(q)
         /\ \A j \in DOMAIN run[q].args : run[q].args[j] \in 1..MaxDepth /\ 1..run[q].args[j] \subseteq Mkdir!Depths
         /\ Mkdir!Target(q) \in 1..MaxDepth /\ 1..Mkdir!Target(q) \subseteq Mkdir!Depths
<1>0. MaxDepth \in Nat
  BY MkdirAssumed DEF Mkdir!CommandsAssumption
<1>1. run[q] \in Commands /\ i[q] \in DOMAIN run[q].args /\ at[q] \in 1..Mkdir!Target(q)
  BY DEF Mkdir!TypeOK
<1> DEFINE s == run[q].args
<1>2. s \in Seq(1..MaxDepth)
  BY <1>1, MkdirAssumed DEF Mkdir!CommandsAssumption
<1>3. Mkdir!Target(q) = s[i[q]] /\ i[q] \in DOMAIN s
  BY <1>1 DEF Mkdir!Target
<1> HIDE DEF s
<1>4. Len(s) \in Nat /\ DOMAIN s = 1..Len(s)
  BY <1>2, LenProperties
<1>5. \A d \in 1..MaxDepth : 1..d \subseteq Mkdir!Depths
  BY <1>0 DEF Mkdir!Depths
<1>6. \A j \in DOMAIN s : s[j] \in 1..MaxDepth /\ 1..s[j] \subseteq Mkdir!Depths
  BY <1>2, <1>4, <1>5, ElementOfSeq
<1> QED
  BY <1>1, <1>3, <1>4, <1>6 DEF s

\* What is there stays there, and a file a file, when a directory is made.
MkdirGrows == /\ \A j \in Mkdir!Depths : fs[j] # "none" => fs'[j] = fs[j]
              /\ removed' = removed /\ run' = run

\* A process that does not move keeps what it has passed.
LEMMA MkdirOthers ==
  ASSUME Mkdir!IInv, MkdirGrows, NEW q \in Procs, i'[q] = i[q], at'[q] = at[q], Mkdir!Passed(q)
  PROVE  Mkdir!Passed(q)'
<1>1. Mkdir!TypeOK
  BY DEF Mkdir!IInv
<1>2. run'[q] = run[q] /\ Mkdir!Target(q)' = Mkdir!Target(q)
  BY DEF MkdirGrows, Mkdir!Target
<1>3. \A k \in Mkdir!Depths : Mkdir!There(k) => Mkdir!There(k)'
  BY DEF MkdirGrows, Mkdir!There
<1>4. \A k \in Mkdir!Depths : fs[k] = "file" => fs'[k] = "file"
  BY DEF MkdirGrows
<1>5. PICK n \in Nat, a \in Nat, g \in Nat :
        /\ n = i[q] /\ a = at[q] /\ g = Mkdir!Target(q) /\ a <= g /\ 1..g \subseteq Mkdir!Depths
        /\ n <= Len(run[q].args) /\ Len(run[q].args) \in Nat /\ DOMAIN run[q].args = 1..Len(run[q].args)
  BY <1>1, MkdirArguments
<1>6. \A j \in 1..n - 1 : j \in DOMAIN run[q].args
  BY <1>5
<1>7. \A j \in 1..n - 1 : \A k \in 1..run[q].args[j] : k \in Mkdir!Depths
  BY <1>1, <1>6, MkdirArguments
<1>8. \A k \in 1..a - 1 : k \in Mkdir!Depths
  BY <1>5
<1> QED
  BY <1>2, <1>3, <1>4, <1>5, <1>7, <1>8 DEF Mkdir!Passed

\* The three ways in which a mkdir goes on, one at a time.
LEMMA MkdirAdvance ==
  ASSUME Mkdir!TypeOK, NEW p \in Procs, Mkdir!Advance(p)
  PROVE  \/ /\ at[p] < Mkdir!Target(p) /\ at' = [at EXCEPT ![p] = at[p] + 1] /\ i' = i /\ status' = status
         \/ /\ at[p] = Mkdir!Target(p) /\ i[p] < Len(run[p].args)
            /\ i' = [i EXCEPT ![p] = i[p] + 1] /\ status' = status
            /\ at' = [at EXCEPT ![p] = Mkdir!First(run[p], run[p].args[i[p] + 1])]
         \/ /\ at[p] = Mkdir!Target(p) /\ i[p] = Len(run[p].args)
            /\ status' = [status EXCEPT ![p] = "success"] /\ i' = i /\ at' = at
<1>1. PICK n \in Nat, a \in Nat, g \in Nat, m \in Nat :
        n = i[p] /\ a = at[p] /\ g = Mkdir!Target(p) /\ m = Len(run[p].args) /\ a <= g /\ n <= m
  BY MkdirArguments
<1>2. CASE a < g
  BY <1>1, <1>2 DEF Mkdir!Advance
<1>3. CASE a = g /\ n < m
  <2>1. ~(a < g)
    BY <1>3
  <2> QED
    BY <1>1, <1>3, <2>1 DEF Mkdir!Advance
<1>4. CASE a = g /\ n = m
  <2>1. ~(a < g) /\ ~(n < m)
    BY <1>4
  <2> QED
    BY <1>1, <1>4, <2>1 DEF Mkdir!Advance, Mkdir!Exit
<1> QED
  BY <1>1, <1>2, <1>3, <1>4

\* A directory that is made, or one that is there: what is above it is there
\* too, and what the process has passed.
LEMMA MkdirMade ==
  ASSUME Mkdir!IInv, NEW p \in Procs, Mkdir!MakeDirectory(p)
  PROVE  /\ MkdirGrows /\ Mkdir!Tree' /\ fs' \in [Mkdir!Depths -> {"none", "dir", "file"}]
         /\ \/ Mkdir!Advance(p) /\ met' = met /\ \A j \in 1..at[p] : Mkdir!There(j)'
            \/ /\ Mkdir!Advance(p) /\ met' = met /\ run[p].cmd = "mkdir -p" /\ at[p] < Mkdir!Target(p)
               /\ \A j \in 1..at[p] : Mkdir!There(j)' \/ (j = at[p] /\ fs'[j] = "file")
            \/ /\ Mkdir!Exit(p, "failure") /\ met' = [met EXCEPT ![p] = fs[at[p]]] /\ UNCHANGED <<fs, i, at>>
               /\ run[p].cmd = "mkdir -p" /\ fs[at[p]] = "none" =>
                    at[p] - 1 \in 1..Mkdir!Target(p) - 1 /\ (fs[at[p] - 1] = "file" \/ at[p] - 1 \in removed)
<1>0. MaxDepth \in Nat /\ Mkdir!TypeOK /\ Mkdir!Tree /\ Mkdir!Walked
  BY MkdirAssumed DEF Mkdir!CommandsAssumption, Mkdir!IInv
<1>1. PICK k \in Mkdir!Depths, g \in Mkdir!Depths : k = at[p] /\ g = Mkdir!Target(p) /\ k <= g
  <2>1. at[p] \in 1..Mkdir!Target(p) /\ Mkdir!Target(p) \in 1..MaxDepth
    BY <1>0, MkdirArguments
  <2> QED
    BY <1>0, <2>1 DEF Mkdir!Depths
<1>2. k \in 1..MaxDepth /\ g \in 1..MaxDepth
  BY DEF Mkdir!Depths
<1> DEFINE made == fs[k] = "none" /\ (k = 1 \/ fs[k - 1] = "dir")
<1>3. /\ run[p].cmd # "rmdir" /\ status[p] = "run" /\ run' = run /\ removed' = removed
      /\ fs' = IF made THEN [fs EXCEPT ![k] = "dir"] ELSE fs
      /\ IF made \/ Mkdir!Forgives(p) THEN Mkdir!Advance(p) /\ met' = met
         ELSE Mkdir!Exit(p, "failure") /\ met' = [met EXCEPT ![p] = fs[k]] /\ UNCHANGED <<i, at>>
  BY <1>1 DEF Mkdir!MakeDirectory
<1>4. fs \in [Mkdir!Depths -> {"none", "dir", "file"}]
  BY <1>0 DEF Mkdir!TypeOK
<1>5. fs' \in [Mkdir!Depths -> {"none", "dir", "file"}]
  BY <1>3, <1>4
<1>6. MkdirGrows
  BY <1>3, <1>4 DEF MkdirGrows
<1>7. made => \A j \in 1..k - 1 : fs[j] = "dir"
  BY <1>0, MkdirParents
<1>8. Mkdir!Tree'
  <2> SUFFICES ASSUME NEW n \in Mkdir!Depths, NEW j \in 1..n - 1, fs'[n] # "none"
               PROVE  fs'[j] = "dir"
    BY DEF Mkdir!Tree
  <2>1. j \in Mkdir!Depths
    BY <1>0 DEF Mkdir!Depths
  <2>2. fs[j] = "dir"
    <3>1. CASE fs[n] # "none"
      BY <1>0, <3>1 DEF Mkdir!Tree
    <3>2. CASE fs[n] = "none"
      BY <1>3, <1>4, <1>7, <3>2
    <3> QED
      BY <3>1, <3>2
  <2> QED
    BY <1>6, <2>1, <2>2 DEF MkdirGrows
<1>9. Mkdir!Passed(p)
  BY <1>0, <1>3 DEF Mkdir!Walked
<1>10. run[p].cmd # "mkdir -p" => k = g
  BY <1>1, <1>9 DEF Mkdir!Passed
<1>11. CASE made
  <2>1. \A j \in 1..k : fs'[j] = "dir"
    <3>1. \A j \in 1..k : j = k \/ j \in 1..k - 1
      BY <1>2
    <3>2. \A j \in 1..k : j \in Mkdir!Depths
      BY <1>0, <1>2 DEF Mkdir!Depths
    <3> QED
      BY <1>3, <1>4, <1>7, <1>11, <3>1, <3>2
  <2> QED
    BY <1>1, <1>3, <1>5, <1>6, <1>8, <1>11, <2>1 DEF Mkdir!There
<1>12. CASE ~made /\ Mkdir!Forgives(p)
  <2>1. fs[k] # "none" /\ k < g /\ fs' = fs
    BY <1>1, <1>3, <1>12 DEF Mkdir!Forgives
  <2>2. run[p].cmd = "mkdir -p"
    <3>1. k # g
      BY <1>2, <2>1
    <3> QED
      BY <1>10, <3>1
  <2>3. \A j \in 1..k - 1 : fs[j] = "dir"
    BY <1>0, <2>1 DEF Mkdir!Tree
  <2>4. \A j \in 1..k : j = k \/ j \in 1..k - 1
    BY <1>2
  <2>5. fs[k] = "dir" \/ fs[k] = "file"
    BY <1>4, <2>1
  <2>6. \A j \in 1..k : Mkdir!There(j)' \/ (j = k /\ fs'[j] = "file")
    BY <2>1, <2>3, <2>4, <2>5 DEF Mkdir!There
  <2> QED
    BY <1>1, <1>3, <1>5, <1>6, <1>8, <1>12, <2>1, <2>2, <2>6
<1>13. CASE ~made /\ ~Mkdir!Forgives(p)
  <2>1. ASSUME run[p].cmd = "mkdir -p", fs[k] = "none"
        PROVE  k - 1 \in 1..g - 1 /\ (fs[k - 1] = "file" \/ k - 1 \in removed)
    <3>1. k # 1 /\ fs[k - 1] # "dir"
      BY <1>13, <2>1
    <3>2. k - 1 \in 1..k - 1 /\ k - 1 \in 1..g - 1
      BY <1>1, <1>2, <3>1
    <3>3. Mkdir!There(k - 1) \/ fs[k - 1] = "file"
      BY <1>1, <1>9, <2>1, <3>2 DEF Mkdir!Passed
    <3> QED
      BY <3>1, <3>2, <3>3 DEF Mkdir!There
  <2> QED
    BY <1>1, <1>3, <1>5, <1>6, <1>8, <1>13, <2>1
<1> QED
  BY <1>11, <1>12, <1>13

\* What the two properties say of one process.
MkdirSucceeded(q) ==
  run[q].cmd # "rmdir" => \A j \in DOMAIN run[q].args : \A k \in 1..run[q].args[j] : Mkdir!There(k)
MkdirHasReason(q) ==
  run[q].cmd = "mkdir -p" =>
    \/ met[q] # "none"
    \/ \E k \in 1..Mkdir!Target(q) : fs[k] = "file"
    \/ \E k \in 1..Mkdir!Target(q) - 1 : k \in removed

LEMMA MkdirEnded ==
  /\ Mkdir!SuccessMeansThere <=> \A q \in Procs : status[q] = "success" => MkdirSucceeded(q)
  /\ Mkdir!FailsForAReason <=> \A q \in Procs : status[q] = "failure" => MkdirHasReason(q)
BY DEF Mkdir!SuccessMeansThere, Mkdir!FailsForAReason, MkdirSucceeded, MkdirHasReason, Mkdir!There

\* Of a process that has ended, both stay true.
LEMMA MkdirKept ==
  ASSUME Mkdir!IInv, MkdirGrows, NEW q \in Procs, i'[q] = i[q]
  PROVE  /\ MkdirSucceeded(q) => MkdirSucceeded(q)'
         /\ met'[q] = met[q] => (MkdirHasReason(q) => MkdirHasReason(q)')
<1>1. run'[q] = run[q] /\ Mkdir!Target(q)' = Mkdir!Target(q)
  BY DEF MkdirGrows, Mkdir!Target
<1>2. \A k \in Mkdir!Depths : Mkdir!There(k) => Mkdir!There(k)'
  BY DEF MkdirGrows, Mkdir!There
<1>3. \A k \in Mkdir!Depths : fs[k] = "file" => fs'[k] = "file"
  BY DEF MkdirGrows
<1>4. Mkdir!TypeOK
  BY DEF Mkdir!IInv
<1>5. \A j \in DOMAIN run[q].args : \A k \in 1..run[q].args[j] : k \in Mkdir!Depths
  BY <1>4, MkdirArguments
<1>6. \A k \in 1..Mkdir!Target(q) : k \in Mkdir!Depths
  BY <1>4, MkdirArguments
<1>7. MkdirSucceeded(q) => MkdirSucceeded(q)'
  BY <1>1, <1>2, <1>5 DEF MkdirSucceeded
<1>8. met'[q] = met[q] => (MkdirHasReason(q) => MkdirHasReason(q)')
  BY <1>1, <1>3, <1>6 DEF MkdirHasReason, MkdirGrows
<1> QED
  BY <1>7, <1>8

LEMMA MkdirMake ==
  ASSUME Mkdir!IInv, NEW p \in Procs, Mkdir!MakeDirectory(p)
  PROVE  Mkdir!IInv'
<1>0. /\ Mkdir!TypeOK /\ Mkdir!Tree /\ Mkdir!Walked /\ Mkdir!SuccessMeansThere /\ Mkdir!FailsForAReason
      /\ MaxDepth \in Nat
  BY MkdirAssumed DEF Mkdir!IInv, Mkdir!CommandsAssumption
<1>1. /\ fs \in [Mkdir!Depths -> {"none", "dir", "file"}] /\ run \in [Procs -> Commands]
      /\ i \in [Procs -> Nat] /\ at \in [Procs -> Mkdir!Depths]
      /\ removed \subseteq Mkdir!Depths /\ met \in [Procs -> {"none", "dir", "file"}]
      /\ status \in [Procs -> {"run", "success", "failure"}]
  BY <1>0 DEF Mkdir!TypeOK
<1>2. /\ MkdirGrows /\ Mkdir!Tree' /\ fs' \in [Mkdir!Depths -> {"none", "dir", "file"}]
      /\ status[p] = "run" /\ run[p].cmd # "rmdir" /\ run' = run /\ removed' = removed
  BY MkdirMade DEF Mkdir!MakeDirectory
<1>3. Mkdir!Passed(p)
  BY <1>0, <1>2 DEF Mkdir!Walked
<1>4. PICK k \in Mkdir!Depths, g \in 1..MaxDepth, n \in Nat, m \in Nat :
        /\ k = at[p] /\ g = Mkdir!Target(p) /\ n = i[p] /\ m = Len(run[p].args)
        /\ k \in 1..g /\ n \in 1..m /\ DOMAIN run[p].args = 1..m /\ run[p].args[n] = g
  BY <1>0, MkdirArguments DEF Mkdir!Depths, Mkdir!Target
<1>5. k \in 1..MaxDepth
  BY DEF Mkdir!Depths
<1>a. \A d \in 1..g - 1 : d \in 1..g /\ d \in 1..MaxDepth
  <2>1. MaxDepth \in Nat
    BY <1>0
  <2> QED
    BY <2>1
\* What is left to show is about p.
<1>6. ASSUME /\ i' \in [Procs -> Nat] /\ at' \in [Procs -> Mkdir!Depths]
             /\ met' \in [Procs -> {"none", "dir", "file"}] /\ status' \in [Procs -> {"run", "success", "failure"}],
             \A q \in Procs \ {p} : i'[q] = i[q] /\ at'[q] = at[q] /\ status'[q] = status[q] /\ met'[q] = met[q],
             i'[p] \in 1..m /\ at'[p] \in 1..Mkdir!Target(p)',
             status'[p] = "run" => Mkdir!Passed(p)',
             status'[p] = "success" => MkdirSucceeded(p)',
             status'[p] = "failure" => MkdirHasReason(p)'
      PROVE  Mkdir!IInv'
  <2>1. \A q \in Procs : i'[q] \in DOMAIN run'[q].args /\ at'[q] \in 1..Mkdir!Target(q)'
    <3> SUFFICES ASSUME NEW q \in Procs, q # p
                 PROVE  i'[q] \in DOMAIN run'[q].args /\ at'[q] \in 1..Mkdir!Target(q)'
      BY <1>2, <1>4, <1>6
    <3>1. Mkdir!Target(q)' = Mkdir!Target(q)
      BY <1>2, <1>6 DEF Mkdir!Target
    <3> QED
      BY <1>0, <1>2, <1>6, <3>1 DEF Mkdir!TypeOK
  <2>2. \A j \in Mkdir!Depths \ {1} : fs'[j] # "none" => fs'[j - 1] = "dir"
    <3>1. \A j \in Mkdir!Depths \ {1} : j - 1 \in 1..j - 1
      BY <1>0 DEF Mkdir!Depths
    <3> QED
      BY <1>2, <3>1 DEF Mkdir!Tree
  <2>3. Mkdir!TypeOK'
    BY <1>1, <1>2, <1>6, <2>1, <2>2 DEF Mkdir!TypeOK
  <2>4. Mkdir!Walked'
    <3> SUFFICES ASSUME NEW q \in Procs, status'[q] = "run", q # p PROVE Mkdir!Passed(q)'
      BY <1>6 DEF Mkdir!Walked
    <3>1. Mkdir!Passed(q) /\ i'[q] = i[q] /\ at'[q] = at[q]
      BY <1>0, <1>6 DEF Mkdir!Walked
    <3> QED
      BY <1>2, <3>1, MkdirOthers
  <2>5. \A q \in Procs : status'[q] = "success" => MkdirSucceeded(q)'
    <3> SUFFICES ASSUME NEW q \in Procs, status'[q] = "success", q # p PROVE MkdirSucceeded(q)'
      BY <1>6
    <3>1. MkdirSucceeded(q) /\ i'[q] = i[q]
      BY <1>0, <1>6, MkdirEnded
    <3> QED
      BY <1>2, <3>1, MkdirKept
  <2>6. \A q \in Procs : status'[q] = "failure" => MkdirHasReason(q)'
    <3> SUFFICES ASSUME NEW q \in Procs, status'[q] = "failure", q # p PROVE MkdirHasReason(q)'
      BY <1>6
    <3>1. MkdirHasReason(q) /\ i'[q] = i[q] /\ met'[q] = met[q]
      BY <1>0, <1>6, MkdirEnded
    <3> QED
      BY <1>2, <3>1, MkdirKept
  <2>7. Mkdir!SuccessMeansThere' /\ Mkdir!FailsForAReason'
    BY <2>5, <2>6 DEF Mkdir!SuccessMeansThere, Mkdir!FailsForAReason, MkdirSucceeded, MkdirHasReason, Mkdir!There
  <2> QED
    BY <1>2, <2>3, <2>4, <2>7 DEF Mkdir!IInv
<1>7. ASSUME Mkdir!Advance(p), met' = met,
             \A j \in 1..k : Mkdir!There(j)' \/ (j = k /\ fs'[j] = "file" /\ run[p].cmd = "mkdir -p" /\ k < g)
      PROVE  Mkdir!IInv'
  <2>1. \A j \in 1..n - 1 : \A d \in 1..run[p].args[j] : Mkdir!There(d)'
    <3>1. \A j \in 1..n - 1 : j \in DOMAIN run[p].args
      BY <1>4
    <3>2. \A j \in 1..n - 1 : \A d \in 1..run[p].args[j] : d \in Mkdir!Depths
      BY <1>0, <3>1, MkdirArguments
    <3>3. \A d \in Mkdir!Depths : Mkdir!There(d) => Mkdir!There(d)'
      BY <1>2 DEF MkdirGrows, Mkdir!There
    <3> QED
      BY <1>3, <1>4, <3>2, <3>3 DEF Mkdir!Passed
  <2>2. CASE k < g /\ at' = [at EXCEPT ![p] = k + 1] /\ i' = i /\ status' = status
    <3>0. k < g /\ k # g
      BY <1>5, <2>2
    <3>1. k + 1 \in Mkdir!Depths /\ k + 1 \in 1..g
      BY <1>0, <1>5, <3>0 DEF Mkdir!Depths
    <3>2. run[p].cmd = "mkdir -p"
      BY <1>3, <1>4, <3>0 DEF Mkdir!Passed
    <3>3. Mkdir!Target(p)' = g /\ at'[p] = k + 1 /\ i'[p] = n
      BY <1>1, <1>2, <1>4, <2>2 DEF Mkdir!Target
    <3>4. Mkdir!Passed(p)'
      <4>1. (k + 1) - 1 = k
        BY <1>5
      <4> QED
        BY <1>2, <1>7, <2>1, <3>2, <3>3, <4>1 DEF Mkdir!Passed
    <3> QED
      BY <1>1, <1>2, <1>4, <1>6, <1>7, <2>2, <3>1, <3>3, <3>4
  <2>3. CASE k = g
    <3>1. \A j \in 1..n : \A d \in 1..run[p].args[j] : Mkdir!There(d)'
      <4>1. \A j \in 1..n : j = n \/ j \in 1..n - 1
        OBVIOUS
      <4>2. \A d \in 1..g : Mkdir!There(d)'
        <5>1. ~(k < g)
          BY <1>5, <2>3
        <5> QED
          BY <1>7, <2>3, <5>1
      <4> QED
        BY <1>4, <2>1, <4>1, <4>2
    <3>2. CASE /\ n < m /\ i' = [i EXCEPT ![p] = n + 1] /\ status' = status
               /\ at' = [at EXCEPT ![p] = Mkdir!First(run[p], run[p].args[n + 1])]
      <4>1. n + 1 \in 1..m /\ (n + 1) - 1 = n
        BY <1>4, <3>2
      <4>2. PICK t \in 1..MaxDepth : t = run[p].args[n + 1]
        BY <1>0, <1>4, <4>1, MkdirArguments
      <4>3. Mkdir!First(run[p], t) \in 1..t /\ Mkdir!First(run[p], t) \in Mkdir!Depths
        <5>1. 1 \in 1..t /\ t \in 1..t /\ 1 \in Mkdir!Depths /\ t \in Mkdir!Depths
          BY <1>0 DEF Mkdir!Depths
        <5> QED
          BY <5>1 DEF Mkdir!First
      <4>4. /\ i'[p] = n + 1 /\ Mkdir!Target(p)' = t
            /\ at'[p] = IF run[p].cmd = "mkdir -p" THEN 1 ELSE t
        BY <1>1, <1>2, <3>2, <4>2 DEF Mkdir!Target, Mkdir!First
      <4>5. Mkdir!Passed(p)'
        <5>1. 1..1 - 1 = {}
          OBVIOUS
        <5> QED
          BY <1>2, <3>1, <4>1, <4>4, <5>1 DEF Mkdir!Passed
      <4>6. i' \in [Procs -> Nat] /\ at' \in [Procs -> Mkdir!Depths] /\ at'[p] \in 1..t
        <5>1. n + 1 \in Nat
          OBVIOUS
        <5> QED
          BY <1>1, <3>2, <4>2, <4>3, <5>1
      <4> QED
        BY <1>1, <1>2, <1>6, <1>7, <3>2, <4>1, <4>4, <4>5, <4>6
    <3>3. CASE n = m /\ status' = [status EXCEPT ![p] = "success"] /\ i' = i /\ at' = at
      <4>1. MkdirSucceeded(p)'
        BY <1>2, <1>4, <3>1, <3>3 DEF MkdirSucceeded
      <4>2. Mkdir!Target(p)' = g /\ at'[p] = k /\ i'[p] = n /\ status'[p] = "success"
        BY <1>1, <1>2, <1>4, <3>3 DEF Mkdir!Target
      <4> QED
        BY <1>1, <1>4, <1>6, <1>7, <3>3, <4>1, <4>2
    <3> QED
      <4>1. ~(k < g)
        BY <1>5, <2>3
      <4> QED
        BY <1>0, <1>4, <1>7, <3>2, <3>3, <4>1, MkdirAdvance, Zenon
  <2> QED
    BY <1>0, <1>4, <1>7, <2>2, <2>3, MkdirAdvance, Zenon
<1>8. ASSUME Mkdir!Exit(p, "failure"), met' = [met EXCEPT ![p] = fs[k]], i' = i, at' = at,
             run[p].cmd = "mkdir -p" /\ fs[k] = "none" =>
               k - 1 \in 1..g - 1 /\ (fs[k - 1] = "file" \/ k - 1 \in removed)
      PROVE  Mkdir!IInv'
  <2>1. status' = [status EXCEPT ![p] = "failure"]
    BY <1>8 DEF Mkdir!Exit
  <2>2. Mkdir!Target(p)' = g /\ at'[p] = k /\ i'[p] = n /\ status'[p] = "failure" /\ met'[p] = fs[k]
    BY <1>1, <1>2, <1>4, <1>8, <2>1 DEF Mkdir!Target
  <2>3. fs[k] \in {"none", "dir", "file"}
    BY <1>1
  <2>4. MkdirHasReason(p)'
    <3> SUFFICES ASSUME run[p].cmd = "mkdir -p", fs[k] = "none"
                 PROVE  \/ \E d \in 1..g : fs'[d] = "file"
                        \/ \E d \in 1..g - 1 : d \in removed
      BY <1>2, <2>2 DEF MkdirHasReason
    <3>0. PICK d \in 1..g - 1 : d = k - 1
      BY <1>8
    <3>1. d \in 1..g /\ d \in 1..MaxDepth
      BY <1>a
    <3> QED
      BY <1>2, <1>8, <3>0, <3>1 DEF MkdirGrows, Mkdir!Depths
  <2>5. met' \in [Procs -> {"none", "dir", "file"}] /\ status' \in [Procs -> {"run", "success", "failure"}]
    BY <1>1, <1>8, <2>1, <2>3
  <2> QED
    BY <1>1, <1>4, <1>6, <1>8, <2>1, <2>2, <2>4, <2>5
<1>9. \/ Mkdir!Advance(p) /\ met' = met /\ \A j \in 1..k : Mkdir!There(j)'
      \/ /\ Mkdir!Advance(p) /\ met' = met /\ run[p].cmd = "mkdir -p" /\ k < g
         /\ \A j \in 1..k : Mkdir!There(j)' \/ (j = k /\ fs'[j] = "file")
      \/ /\ Mkdir!Exit(p, "failure") /\ met' = [met EXCEPT ![p] = fs[k]] /\ i' = i /\ at' = at
         /\ run[p].cmd = "mkdir -p" /\ fs[k] = "none" =>
              k - 1 \in 1..g - 1 /\ (fs[k - 1] = "file" \/ k - 1 \in removed)
  BY <1>4, MkdirMade
<1> QED
  BY <1>7, <1>8, <1>9

\* rmdir takes the last one away; whoever passed there will find its name
\* among those removed.
LEMMA MkdirRmdir ==
  ASSUME Mkdir!IInv, NEW p \in Procs, Mkdir!Rmdir(p)
  PROVE  Mkdir!IInv'
<1>0. /\ Mkdir!TypeOK /\ Mkdir!Tree /\ Mkdir!Walked /\ Mkdir!SuccessMeansThere /\ Mkdir!FailsForAReason
      /\ MaxDepth \in Nat
  BY MkdirAssumed DEF Mkdir!IInv, Mkdir!CommandsAssumption
<1>1. /\ fs \in [Mkdir!Depths -> {"none", "dir", "file"}] /\ run \in [Procs -> Commands]
      /\ i \in [Procs -> Nat] /\ at \in [Procs -> Mkdir!Depths]
      /\ removed \subseteq Mkdir!Depths /\ met \in [Procs -> {"none", "dir", "file"}]
      /\ status \in [Procs -> {"run", "success", "failure"}]
  BY <1>0 DEF Mkdir!TypeOK
<1>2. PICK k \in Mkdir!Depths : k = Mkdir!Target(p)
  BY <1>0, MkdirArguments DEF Mkdir!Depths
<1>3. /\ run[p].cmd = "rmdir" /\ status[p] = "run" /\ UNCHANGED <<run, i, at, met>>
      /\ \/ /\ fs[k] = "dir" /\ (k = MaxDepth \/ fs[k + 1] = "none")
            /\ fs' = [fs EXCEPT ![k] = "none"] /\ removed' = removed \cup {k} /\ Mkdir!Exit(p, "success")
         \/ fs' = fs /\ removed' = removed /\ Mkdir!Exit(p, "failure")
  BY <1>2 DEF Mkdir!Rmdir
<1>4. \E s \in {"success", "failure"} : status' = [status EXCEPT ![p] = s]
  BY <1>3 DEF Mkdir!Exit
<1>5. \A d \in Mkdir!Depths : Mkdir!There(d) => Mkdir!There(d)'
  BY <1>1, <1>3 DEF Mkdir!There
<1>6. \A d \in Mkdir!Depths : fs[d] = "file" => fs'[d] = "file"
  BY <1>1, <1>3
<1>7. removed \subseteq removed' /\ removed' \subseteq Mkdir!Depths /\ fs' \in [Mkdir!Depths -> {"none", "dir", "file"}]
  BY <1>1, <1>3
<1>8. Mkdir!Tree'
  <2> SUFFICES ASSUME NEW n \in Mkdir!Depths, NEW j \in 1..n - 1, fs'[n] # "none"
               PROVE  fs'[j] = "dir"
    BY DEF Mkdir!Tree
  <2>1. j \in Mkdir!Depths
    BY <1>0 DEF Mkdir!Depths
  <2>2. fs[n] # "none" /\ fs[j] = "dir"
    BY <1>0, <1>1, <1>3 DEF Mkdir!Tree
  <2>3. ASSUME j = k, fs[k] = "dir", k = MaxDepth \/ fs[k + 1] = "none"
        PROVE  FALSE
    <3>1. k # MaxDepth /\ k + 1 \in Mkdir!Depths /\ (k + 1 = n \/ k + 1 \in 1..n - 1)
      BY <1>0, <2>3 DEF Mkdir!Depths
    <3>2. fs[k + 1] = "none"
      BY <2>3, <3>1
    <3> QED
      BY <1>0, <2>2, <3>1, <3>2 DEF Mkdir!Tree
  <2> QED
    BY <1>1, <1>3, <2>1, <2>2, <2>3
<1>9. Mkdir!TypeOK'
  <2>1. \A j \in Mkdir!Depths \ {1} : fs'[j] # "none" => fs'[j - 1] = "dir"
    <3>1. \A j \in Mkdir!Depths \ {1} : j - 1 \in 1..j - 1
      BY <1>0 DEF Mkdir!Depths
    <3> QED
      BY <1>8, <3>1 DEF Mkdir!Tree
  <2>2. status' \in [Procs -> {"run", "success", "failure"}]
    BY <1>1, <1>4
  <2>3. \A q \in Procs : i'[q] \in DOMAIN run'[q].args /\ at'[q] \in 1..Mkdir!Target(q)'
    BY <1>0, <1>3 DEF Mkdir!TypeOK, Mkdir!Target
  <2> QED
    BY <1>1, <1>3, <1>7, <2>1, <2>2, <2>3 DEF Mkdir!TypeOK
<1>10. ASSUME NEW q \in Procs
       PROVE  /\ run'[q] = run[q] /\ Mkdir!Target(q)' = Mkdir!Target(q) /\ i'[q] = i[q] /\ at'[q] = at[q]
              /\ status'[q] # status[q] => q = p
  BY <1>1, <1>3, <1>4 DEF Mkdir!Target
<1>11. \A q \in Procs : \A j \in DOMAIN run[q].args : \A d \in 1..run[q].args[j] : d \in Mkdir!Depths
  BY <1>0, MkdirArguments
<1>12. Mkdir!Walked'
  <2> SUFFICES ASSUME NEW q \in Procs, status'[q] = "run" PROVE Mkdir!Passed(q)'
    BY DEF Mkdir!Walked
  <2>1. status[q] = "run" /\ Mkdir!Passed(q)
    BY <1>0, <1>1, <1>4, <1>10 DEF Mkdir!Walked
  <2>2. PICK n \in Nat, a \in Nat : n = i[q] /\ a = at[q] /\ (\A j \in 1..n - 1 : j \in DOMAIN run[q].args)
                                    /\ (\A d \in 1..a - 1 : d \in Mkdir!Depths)
    <3>1. PICK n \in Nat, m \in Nat : n = i[q] /\ n <= m /\ DOMAIN run[q].args = 1..m
      BY <1>0, MkdirArguments
    <3>2. PICK a \in Nat, g \in Nat : a = at[q] /\ a <= g /\ 1..g \subseteq Mkdir!Depths
      <4>1. PICK g \in 1..MaxDepth : g = Mkdir!Target(q) /\ at[q] \in 1..g /\ 1..g \subseteq Mkdir!Depths
        BY <1>0, MkdirArguments
      <4>2. PICK a \in 1..g : a = at[q]
        BY <4>1
      <4>3. a \in Nat /\ g \in Nat /\ a <= g
        OBVIOUS
      <4> QED
        BY <4>1, <4>2, <4>3
    <3>3. (\A j \in 1..n - 1 : j \in 1..m) /\ (\A d \in 1..a - 1 : d \in 1..g)
      BY <3>1, <3>2
    <3> QED
      BY <3>1, <3>2, <3>3
  <2> QED
    BY <1>5, <1>6, <1>10, <1>11, <2>1, <2>2 DEF Mkdir!Passed
<1>13. \A q \in Procs : status'[q] = "success" => MkdirSucceeded(q)'
  <2> SUFFICES ASSUME NEW q \in Procs, status'[q] = "success", run[q].cmd # "rmdir" PROVE MkdirSucceeded(q)'
    BY <1>10 DEF MkdirSucceeded
  <2>1. MkdirSucceeded(q)
    BY <1>0, <1>3, <1>10, MkdirEnded
  <2> QED
    BY <1>5, <1>10, <1>11, <2>1 DEF MkdirSucceeded
<1>14. \A q \in Procs : status'[q] = "failure" => MkdirHasReason(q)'
  <2> SUFFICES ASSUME NEW q \in Procs, status'[q] = "failure", run[q].cmd = "mkdir -p" PROVE MkdirHasReason(q)'
    BY <1>10 DEF MkdirHasReason
  <2>1. MkdirHasReason(q)
    BY <1>0, <1>3, <1>10, MkdirEnded
  <2>2. \A d \in 1..Mkdir!Target(q) : d \in Mkdir!Depths
    BY <1>0, MkdirArguments
  <2> QED
    BY <1>3, <1>6, <1>7, <1>10, <2>1, <2>2 DEF MkdirHasReason
<1>15. Mkdir!SuccessMeansThere' /\ Mkdir!FailsForAReason'
  BY <1>13, <1>14 DEF Mkdir!SuccessMeansThere, Mkdir!FailsForAReason, MkdirSucceeded, MkdirHasReason, Mkdir!There
<1> QED
  BY <1>8, <1>9, <1>12, <1>15 DEF Mkdir!IInv

LEMMA MkdirUnchanged == Mkdir!IInv /\ UNCHANGED Mkdir!vars => Mkdir!IInv'
<1> SUFFICES ASSUME Mkdir!IInv, UNCHANGED Mkdir!vars PROVE Mkdir!IInv'
  OBVIOUS
<1>1. fs' = fs /\ run' = run /\ i' = i /\ at' = at /\ status' = status /\ removed' = removed /\ met' = met
  BY DEF Mkdir!vars
<1> QED
  BY <1>1 DEF Mkdir!IInv, Mkdir!TypeOK, Mkdir!Target, Mkdir!Tree, Mkdir!Walked, Mkdir!Passed, Mkdir!There,
     Mkdir!SuccessMeansThere, Mkdir!FailsForAReason

LEMMA MkdirNext == Mkdir!IInv /\ Mkdir!Next => Mkdir!IInv'
BY MkdirMake, MkdirRmdir, MkdirUnchanged DEF Mkdir!Next, Mkdir!Done

-----------------------------------------------------------------------------
(* scrub *)

LEMMA ScrubPasses ==
  /\ Scrub!NPASSES \in Nat \ {0}
  /\ \A j \in 1..Scrub!NPASSES : passes[j] = <<>> \/ passes[j] \in [1..3 -> Byte \ {Original}]
<1> USE ScrubAssumed DEF Scrub!ScrubAssumption, Scrub!NPASSES
<1>1. passes \in Seq({<<>>} \cup [1..3 -> Byte \ {Original}]) /\ passes # <<>>
  OBVIOUS
<1> QED
  BY <1>1, EmptySeq, LenProperties

\* What a pass writes is not what the file held.
LEMMA ScrubOfByte ==
  ASSUME NEW j \in 1..Scrub!NPASSES, NEW k \in Nat \ {0}, NEW b, Scrub!Of(j, k, b)
  PROVE  b \in Byte \ {Original}
<1>1. CASE passes[j] = <<>>
  BY <1>1, ScrubAssumed DEF Scrub!ScrubAssumption, Scrub!Of
<1>2. CASE passes[j] # <<>>
  <2>1. passes[j] \in [1..3 -> Byte \ {Original}]
    BY <1>2, ScrubPasses
  <2>2. ((k - 1) % 3) + 1 \in 1..3
    OBVIOUS
  <2> QED
    BY <1>2, <2>1, <2>2 DEF Scrub!Of
<1> QED
  BY <1>1, <1>2

LEMMA ScrubInit == Scrub!Init => Scrub!IInv
<1> SUFFICES ASSUME Scrub!Init PROVE Scrub!IInv
  OBVIOUS
<1> USE ScrubAssumed DEF Scrub!ScrubAssumption
<1>1. PICK n \in 0..MaxSize : cache = [k \in 1..n |-> Original] /\ disk = cache
  BY DEF Scrub!Init
<1>2. cache \in Seq(Byte) /\ Len(cache) = n /\ \A k \in 1..n : cache[k] = Original
  BY <1>1, IsASeq
<1>3. 1 \in 1..Scrub!NPASSES
  BY ScrubPasses
<1>4. st_size = -1 /\ i = 1 /\ pos = 0 /\ pati = 0 /\ appends = 0 /\ failed = FALSE /\ pc = "fstat"
  BY DEF Scrub!Init
<1>8. Scrub!TypeOK
  <2>1. cache \in Seq(Byte) /\ disk \in Seq(Byte) /\ Len(disk) = Len(cache) /\ Len(cache) \in Nat
    BY <1>1, <1>2
  <2>2. MaxAppends \in Nat
    OBVIOUS
  <2>3. i \in 1..Scrub!NPASSES
    BY <1>3, <1>4
  <2>4. st_size \in -1..Len(cache) /\ pos \in 0..(IF st_size < 0 THEN 0 ELSE st_size) /\ pati \in 0..2
    BY <2>1, <1>4
  <2>5. appends \in 0..MaxAppends /\ pc \in {"fstat", "write", "force", "done", "crashed"}
    BY <2>2, <1>4
  <2>6. failed \in BOOLEAN
    BY <1>4
  <2> QED
    BY <2>1, <2>3, <2>4, <2>5, <2>6 DEF Scrub!TypeOK
<1>9. Scrub!Underway
  BY <1>4 DEF Scrub!Underway
<1>5. Scrub!InPhase
  BY DEF Scrub!Init, Scrub!InPhase
<1>6. Scrub!BehindKept
  BY <1>1, <1>2 DEF Scrub!BehindKept
<1>7. Scrub!CacheLayered /\ Scrub!DiskLayered
  BY DEF Scrub!Init, Scrub!CacheLayered, Scrub!DiskLayered
<1> QED
  BY <1>4, <1>5, <1>6, <1>7, <1>8, <1>9 DEF Scrub!IInv

\* The invariant is stronger than the three properties of scrub.
LEMMA ScrubKeepsItsWord ==
  Scrub!IInv => Scrub!Layered /\ Scrub!Overwritten /\ Scrub!KeepsAppended
<1> SUFFICES ASSUME Scrub!IInv
             PROVE  Scrub!Layered /\ Scrub!Overwritten /\ Scrub!KeepsAppended
  OBVIOUS
<1> USE DEF Scrub!IInv
<1>1. ASSUME pc # "crashed" PROVE Scrub!Layered
  <2> SUFFICES ASSUME ~failed, st_size > 0, NEW k \in 1..st_size
               PROVE  \/ Scrub!Of(i, k, disk[k]) /\ (k <= pos \/ pc \in {"done", "crashed"})
                      \/ i > 1 /\ Scrub!Of(i - 1, k, disk[k])
                      \/ i = 1 /\ disk[k] = Original
    BY DEF Scrub!Layered
  <2>1. i > 1 \/ i = 1
    BY ScrubPasses DEF Scrub!TypeOK
  <2>2. CASE Scrub!Below(k, disk[k])
    BY <2>1, <2>2 DEF Scrub!Below
  <2>3. CASE disk[k] = cache[k] /\ k <= pos
    BY <1>1, <2>3 DEF Scrub!CacheLayered
  <2>4. CASE disk[k] = cache[k] /\ ~(k <= pos)
    BY <1>1, <2>4, <2>2 DEF Scrub!CacheLayered
  <2> QED
    BY <1>1, <2>2, <2>3, <2>4 DEF Scrub!DiskLayered
<1>2. Scrub!Overwritten
  <2> SUFFICES ASSUME pc = "done", ~failed, NEW k \in 1..st_size
               PROVE  Scrub!Of(Scrub!NPASSES, k, disk[k]) /\ disk[k] # Original
    BY DEF Scrub!Overwritten
  <2>1. i = Scrub!NPASSES /\ disk = cache /\ pos = st_size
    BY DEF Scrub!Underway
  <2>2. k <= pos /\ k \in Nat \ {0}
    BY <2>1 DEF Scrub!TypeOK
  <2>3. Scrub!Of(Scrub!NPASSES, k, disk[k])
    BY <2>1, <2>2 DEF Scrub!CacheLayered
  <2> QED
    BY <2>2, <2>3, ScrubOfByte, ScrubPasses
<1>3. Scrub!KeepsAppended
  BY DEF Scrub!TypeOK, Scrub!BehindKept, Scrub!KeepsAppended
<1> QED
  BY <1>1, <1>2, <1>3

LEMMA ScrubFstat == Scrub!IInv /\ Scrub!Fstat => Scrub!IInv'
<1> SUFFICES ASSUME Scrub!IInv, Scrub!Fstat PROVE Scrub!IInv'
  OBVIOUS
<1> USE DEF Scrub!IInv
<1>1. /\ pc = "fstat" /\ pc' = "write" /\ st_size' = Len(cache)
      /\ UNCHANGED <<cache, disk, i, pos, pati, appends, failed>>
  BY DEF Scrub!Fstat
<1>2. i = 1 /\ pos = 0 /\ st_size = -1
  BY <1>1 DEF Scrub!Underway
<1>3. Len(cache) \in Nat /\ Len(disk) = Len(cache)
  BY DEF Scrub!TypeOK
<1>4. Scrub!TypeOK'
  BY <1>1, <1>2, <1>3 DEF Scrub!TypeOK
<1>5. Scrub!InPhase' /\ Scrub!Underway'
  BY <1>1, <1>3 DEF Scrub!InPhase, Scrub!Underway
<1>6. \A k \in 1..Len(cache) : cache[k] = Original /\ disk[k] = Original
  BY <1>2, <1>3 DEF Scrub!BehindKept
<1>7. Scrub!CacheLayered' /\ Scrub!DiskLayered'
  BY <1>1, <1>2, <1>6 DEF Scrub!CacheLayered, Scrub!DiskLayered, Scrub!Below
<1>8. Scrub!BehindKept'
  BY <1>1, <1>3 DEF Scrub!BehindKept
<1> QED
  BY <1>1, <1>4, <1>5, <1>7, <1>8

\* The byte that is written is of the running pass, and none behind it is touched.
LEMMA ScrubFputc == Scrub!IInv /\ Scrub!Fputc => Scrub!IInv'
<1> SUFFICES ASSUME Scrub!IInv, Scrub!Fputc PROVE Scrub!IInv'
  OBVIOUS
<1> USE DEF Scrub!IInv
<1>1. PICK b \in Scrub!Bytes : cache' = [cache EXCEPT ![pos + 1] = b]
  BY DEF Scrub!Fputc
<1>2. /\ pc = "write" /\ pos < st_size /\ pos' = pos + 1 /\ Scrub!NextPati
      /\ UNCHANGED <<disk, st_size, i, appends, failed, pc>>
  BY DEF Scrub!Fputc, Scrub!More
<1>3. pos \in Nat /\ st_size \in Nat /\ st_size <= Len(cache) /\ pos + 1 \in 1..Len(cache)
      /\ i \in 1..Scrub!NPASSES
  BY <1>2 DEF Scrub!TypeOK
<1>4. Scrub!Of(i, pos + 1, b)
  <2>1. CASE passes[i] = <<>>
    BY <2>1 DEF Scrub!Of, Scrub!Bytes
  <2>2. CASE passes[i] # <<>>
    <3>1. pati = pos % 3
      BY <2>2 DEF Scrub!InPhase
    <3>2. b = passes[i][pati + 1]
      BY <2>2 DEF Scrub!Bytes, Scrub!ByteOf
    <3>3. ASSUME NEW k \in Nat, k = pos + 1 PROVE Scrub!Of(i, k, b)
      <4>1. k - 1 = pos
        BY <1>3, <3>3
      <4>2. b = passes[i][((k - 1) % 3) + 1]
        BY <3>1, <3>2, <4>1
      <4> QED
        BY <2>2, <4>2 DEF Scrub!Of
    <3> QED
      BY <1>3, <3>3
  <2> QED
    BY <2>1, <2>2
<1>5. b \in Byte
  BY <1>3, <1>4, ScrubOfByte
<1>6. cache' \in Seq(Byte) /\ Len(cache') = Len(cache)
      /\ \A k \in 1..Len(cache) : cache'[k] = IF k = pos + 1 THEN b ELSE cache[k]
  BY <1>1, <1>3, <1>5, ExceptSeq DEF Scrub!TypeOK
<1>7. pati' \in 0..2 /\ (passes[i] # <<>> => pati' = pos' % 3)
  BY <1>2, <1>3 DEF Scrub!NextPati, Scrub!TypeOK, Scrub!InPhase
<1>8. Scrub!TypeOK'
  BY <1>2, <1>3, <1>6, <1>7 DEF Scrub!TypeOK
<1>9. Scrub!InPhase' /\ Scrub!Underway'
  BY <1>2, <1>3, <1>7 DEF Scrub!InPhase, Scrub!Underway
<1>10. Scrub!CacheLayered'
  <2> SUFFICES ASSUME ~failed, NEW k \in 1..st_size
               PROVE  IF k <= pos + 1 THEN Scrub!Of(i, k, cache'[k]) ELSE Scrub!Below(k, cache'[k])
    BY <1>2 DEF Scrub!CacheLayered, Scrub!Below, Scrub!Of
  <2>1. CASE k = pos + 1
    BY <1>3, <1>4, <1>6, <2>1
  <2>2. CASE k # pos + 1
    <3>1. cache'[k] = cache[k]
      BY <1>3, <1>6, <2>2
    <3>2. k <= pos + 1 <=> k <= pos
      BY <1>3, <2>2
    <3> QED
      BY <1>2, <3>1, <3>2 DEF Scrub!CacheLayered
  <2> QED
    BY <2>1, <2>2
<1>11. Scrub!DiskLayered'
  <2> SUFFICES ASSUME ~failed, NEW k \in 1..st_size
               PROVE  disk[k] = cache'[k] \/ Scrub!Below(k, disk[k])
    BY <1>2 DEF Scrub!DiskLayered, Scrub!Below, Scrub!Of
  <2>1. disk[k] = cache[k] \/ Scrub!Below(k, disk[k])
    BY <1>2 DEF Scrub!DiskLayered
  <2>2. CASE k = pos + 1
    <3>1. Scrub!Below(k, cache[k])
      BY <1>2, <1>3, <2>2 DEF Scrub!CacheLayered
    <3> QED
      BY <2>1, <3>1
  <2>3. CASE k # pos + 1
    BY <1>3, <1>6, <2>1, <2>3
  <2> QED
    BY <2>2, <2>3
<1>12. Scrub!BehindKept'
  BY <1>2, <1>3, <1>6 DEF Scrub!BehindKept, Scrub!TypeOK
<1> QED
  BY <1>2, <1>8, <1>9, <1>10, <1>11, <1>12

\* A write that fails is not looked at: nothing is claimed of such a run but
\* that it keeps within the file.
LEMMA ScrubFputcFails == Scrub!IInv /\ Scrub!FputcFails => Scrub!IInv'
<1> SUFFICES ASSUME Scrub!IInv, Scrub!FputcFails PROVE Scrub!IInv'
  OBVIOUS
<1> USE DEF Scrub!IInv
<1>1. /\ pc = "write" /\ pos < st_size /\ pos' = pos + 1 /\ Scrub!NextPati /\ failed' = TRUE
      /\ UNCHANGED <<cache, disk, st_size, i, appends, pc>>
  BY DEF Scrub!FputcFails, Scrub!More
<1>2. pos \in Nat /\ st_size \in Nat /\ i \in 1..Scrub!NPASSES
  BY <1>1 DEF Scrub!TypeOK
<1>3. pati' \in 0..2 /\ (passes[i] # <<>> => pati' = pos' % 3)
  BY <1>1, <1>2 DEF Scrub!NextPati, Scrub!TypeOK, Scrub!InPhase
<1>4. Scrub!TypeOK'
  BY <1>1, <1>2, <1>3 DEF Scrub!TypeOK
<1>5. Scrub!InPhase' /\ Scrub!Underway'
  BY <1>1, <1>2, <1>3 DEF Scrub!InPhase, Scrub!Underway
<1>6. Scrub!CacheLayered' /\ Scrub!DiskLayered'
  BY <1>1 DEF Scrub!CacheLayered, Scrub!DiskLayered
<1>7. Scrub!BehindKept'
  BY <1>1 DEF Scrub!BehindKept
<1> QED
  BY <1>1, <1>4, <1>5, <1>6, <1>7

LEMMA ScrubEndPass == Scrub!IInv /\ Scrub!EndPass => Scrub!IInv'
<1> SUFFICES ASSUME Scrub!IInv, Scrub!EndPass PROVE Scrub!IInv'
  OBVIOUS
<1> USE DEF Scrub!IInv
<1>1. /\ pc = "write" /\ ~(pos < st_size) /\ pc' = "force"
      /\ UNCHANGED <<cache, disk, st_size, i, pos, pati, appends, failed>>
  BY DEF Scrub!EndPass, Scrub!More
<1>2. pos = st_size /\ st_size >= 0
  BY <1>1 DEF Scrub!TypeOK, Scrub!Underway
<1>3. Scrub!TypeOK'
  BY <1>1 DEF Scrub!TypeOK
<1>4. Scrub!InPhase' /\ Scrub!Underway'
  BY <1>1, <1>2 DEF Scrub!InPhase, Scrub!Underway
<1>5. Scrub!CacheLayered' /\ Scrub!DiskLayered' /\ Scrub!BehindKept'
  BY <1>1 DEF Scrub!CacheLayered, Scrub!DiskLayered, Scrub!BehindKept, Scrub!Below, Scrub!Of
<1> QED
  BY <1>1, <1>3, <1>4, <1>5

\* A pass is on the disk as a whole before the next one begins.
LEMMA ScrubForce == Scrub!IInv /\ Scrub!Force => Scrub!IInv'
<1> SUFFICES ASSUME Scrub!IInv, Scrub!Force PROVE Scrub!IInv'
  OBVIOUS
<1> USE DEF Scrub!IInv
<1>1. pc = "force" /\ disk' = cache /\ UNCHANGED <<cache, st_size, appends, failed>>
  BY DEF Scrub!Force, Scrub!ForceAll
<1>2. pos = st_size /\ st_size \in Nat /\ i \in 1..Scrub!NPASSES /\ Scrub!NPASSES \in Nat
  BY <1>1, ScrubPasses DEF Scrub!TypeOK, Scrub!Underway
<1>3. ~failed => \A k \in 1..st_size : Scrub!Of(i, k, cache[k])
  BY <1>1, <1>2 DEF Scrub!CacheLayered
<1>4. Scrub!BehindKept'
  BY <1>1 DEF Scrub!BehindKept, Scrub!TypeOK
<1>5. CASE i = Scrub!NPASSES
  <2>1. pc' = "done" /\ UNCHANGED <<i, pos, pati>>
    BY <1>5 DEF Scrub!Force
  <2>2. Scrub!TypeOK'
    BY <1>1, <2>1 DEF Scrub!TypeOK
  <2>3. Scrub!InPhase' /\ Scrub!Underway'
    BY <1>1, <1>2, <1>5, <2>1 DEF Scrub!InPhase, Scrub!Underway
  <2>4. Scrub!CacheLayered' /\ Scrub!DiskLayered'
    BY <1>1, <2>1 DEF Scrub!CacheLayered, Scrub!DiskLayered, Scrub!Below, Scrub!Of
  <2> QED
    BY <1>4, <2>1, <2>2, <2>3, <2>4
<1>6. CASE i # Scrub!NPASSES
  <2>1. pc' = "write" /\ i' = i + 1 /\ pos' = 0 /\ pati' = 0
    BY <1>6 DEF Scrub!Force, Scrub!Rewind
  <2>2. i' \in 1..Scrub!NPASSES /\ i' > 1 /\ i' - 1 = i
    BY <1>2, <1>6, <2>1
  <2>3. Scrub!TypeOK'
    BY <1>1, <1>2, <2>1, <2>2 DEF Scrub!TypeOK
  <2>4. Scrub!InPhase' /\ Scrub!Underway'
    BY <1>1, <1>2, <2>1 DEF Scrub!InPhase, Scrub!Underway
  <2>5. Scrub!CacheLayered' /\ Scrub!DiskLayered'
    BY <1>1, <1>2, <1>3, <2>1, <2>2 DEF Scrub!CacheLayered, Scrub!DiskLayered, Scrub!Below, Scrub!Of
  <2> QED
    BY <1>4, <2>1, <2>3, <2>4, <2>5
<1> QED
  BY <1>5, <1>6

LEMMA ScrubWriteBack == Scrub!IInv /\ Scrub!WriteBack => Scrub!IInv'
<1> SUFFICES ASSUME Scrub!IInv, Scrub!WriteBack PROVE Scrub!IInv'
  OBVIOUS
<1> USE DEF Scrub!IInv
<1>1. PICK m \in DOMAIN disk : disk' = [disk EXCEPT ![m] = cache[m]]
  BY DEF Scrub!WriteBack
<1>2. pc \in {"write", "force"} /\ UNCHANGED <<cache, st_size, i, pos, pati, appends, failed, pc>>
  BY DEF Scrub!WriteBack
<1>3. m \in 1..Len(disk) /\ Len(disk) = Len(cache) /\ cache[m] \in Byte
  BY <1>1 DEF Scrub!TypeOK
<1>4. disk' \in Seq(Byte) /\ Len(disk') = Len(disk)
      /\ \A k \in 1..Len(disk) : disk'[k] = disk[k] \/ disk'[k] = cache[k]
  BY <1>1, <1>3, ExceptSeq DEF Scrub!TypeOK
<1>5. Scrub!TypeOK'
  BY <1>2, <1>4 DEF Scrub!TypeOK
<1>6. Scrub!InPhase' /\ Scrub!Underway'
  BY <1>2 DEF Scrub!InPhase, Scrub!Underway
<1>7. Scrub!CacheLayered'
  BY <1>2 DEF Scrub!CacheLayered, Scrub!Below, Scrub!Of
<1>8. Scrub!DiskLayered'
  <2> SUFFICES ASSUME ~failed, NEW k \in 1..st_size
               PROVE  disk'[k] = cache[k] \/ Scrub!Below(k, disk'[k])
    BY <1>2 DEF Scrub!DiskLayered, Scrub!Below, Scrub!Of
  <2>1. k \in 1..Len(disk)
    BY <1>2 DEF Scrub!TypeOK, Scrub!Underway
  <2> QED
    BY <1>2, <1>4, <2>1 DEF Scrub!DiskLayered
<1>9. Scrub!BehindKept'
  BY <1>2, <1>4 DEF Scrub!BehindKept
<1> QED
  BY <1>2, <1>5, <1>6, <1>7, <1>8, <1>9

LEMMA ScrubAppended == Scrub!IInv /\ Scrub!Appended => Scrub!IInv'
<1> SUFFICES ASSUME Scrub!IInv, Scrub!Appended PROVE Scrub!IInv'
  OBVIOUS
<1> USE DEF Scrub!IInv
<1>1. /\ pc \in {"fstat", "write", "force"} /\ appends < MaxAppends
      /\ cache' = Append(cache, Original) /\ disk' = Append(disk, Original) /\ appends' = appends + 1
      /\ UNCHANGED <<st_size, i, pos, pati, failed, pc>>
  BY DEF Scrub!Appended
<1>2. Original \in Byte /\ MaxAppends \in Nat
  BY ScrubAssumed DEF Scrub!ScrubAssumption
<1>3. cache \in Seq(Byte) /\ disk \in Seq(Byte) /\ Len(disk) = Len(cache) /\ Len(cache) \in Nat
      /\ st_size <= Len(cache)
  BY DEF Scrub!TypeOK
<1>4. /\ cache' \in Seq(Byte) /\ Len(cache') = Len(cache) + 1
      /\ disk' \in Seq(Byte) /\ Len(disk') = Len(cache) + 1
      /\ \A k \in 1..Len(cache) : cache'[k] = cache[k] /\ disk'[k] = disk[k]
      /\ cache'[Len(cache) + 1] = Original /\ disk'[Len(cache) + 1] = Original
  BY <1>1, <1>2, <1>3, AppendProperties
<1>5. Scrub!TypeOK'
  <2>1. st_size' \in -1..Len(cache') /\ pos' \in 0..(IF st_size' < 0 THEN 0 ELSE st_size')
    BY <1>1, <1>3, <1>4 DEF Scrub!TypeOK
  <2>2. appends' \in 0..MaxAppends
    BY <1>1, <1>2 DEF Scrub!TypeOK
  <2> QED
    BY <1>1, <1>4, <2>1, <2>2 DEF Scrub!TypeOK
<1>6. Scrub!InPhase' /\ Scrub!Underway'
  BY <1>1 DEF Scrub!InPhase, Scrub!Underway
<1>7. \A k \in 1..st_size : cache'[k] = cache[k] /\ disk'[k] = disk[k]
  <2> TAKE k \in 1..st_size
  <2>1. k \in 1..Len(cache)
    BY <1>3 DEF Scrub!TypeOK
  <2> QED
    BY <1>4, <2>1
<1>8. Scrub!CacheLayered' /\ Scrub!DiskLayered'
  BY <1>1, <1>7 DEF Scrub!CacheLayered, Scrub!DiskLayered, Scrub!Below, Scrub!Of
<1>9. Scrub!BehindKept'
  <2> SUFFICES ASSUME NEW k \in 1..Len(disk'), k > st_size
               PROVE  cache'[k] = Original /\ disk'[k] = Original
    BY <1>1 DEF Scrub!BehindKept
  <2>1. CASE k = Len(cache) + 1
    BY <1>4, <2>1
  <2>2. CASE k # Len(cache) + 1
    <3>1. k \in 1..Len(cache)
      BY <1>3, <1>4, <2>2
    <3> QED
      BY <1>3, <1>4, <3>1 DEF Scrub!BehindKept
  <2> QED
    BY <2>1, <2>2
<1> QED
  BY <1>1, <1>5, <1>6, <1>8, <1>9

\* A crash leaves what was on the disk.
LEMMA ScrubCrash == Scrub!IInv /\ Scrub!Crash => Scrub!IInv'
<1> SUFFICES ASSUME Scrub!IInv, Scrub!Crash PROVE Scrub!IInv'
  OBVIOUS
<1> USE DEF Scrub!IInv
<1>1. /\ pc \in {"fstat", "write", "force"} /\ pc' = "crashed" /\ cache' = disk
      /\ UNCHANGED <<disk, st_size, i, pos, pati, appends, failed>>
  BY DEF Scrub!Crash
<1>2. Scrub!TypeOK'
  BY <1>1 DEF Scrub!TypeOK
<1>3. Scrub!InPhase' /\ Scrub!Underway' /\ Scrub!CacheLayered' /\ Scrub!DiskLayered'
  BY <1>1 DEF Scrub!InPhase, Scrub!Underway, Scrub!CacheLayered, Scrub!DiskLayered
<1>4. Scrub!BehindKept'
  BY <1>1 DEF Scrub!BehindKept
<1>5. Scrub!Layered
  BY ScrubKeepsItsWord
<1>6. Scrub!Layered'
  BY <1>1, <1>5 DEF Scrub!Layered, Scrub!Of
<1> QED
  BY <1>1, <1>2, <1>3, <1>4, <1>6

LEMMA ScrubUnchanged == Scrub!IInv /\ UNCHANGED Scrub!vars => Scrub!IInv'
BY DEF Scrub!vars, Scrub!IInv, Scrub!TypeOK, Scrub!InPhase, Scrub!Underway, Scrub!CacheLayered,
   Scrub!DiskLayered, Scrub!BehindKept, Scrub!Layered, Scrub!Below, Scrub!Of

LEMMA ScrubNext == Scrub!IInv /\ Scrub!Next => Scrub!IInv'
<1> SUFFICES ASSUME Scrub!IInv, Scrub!Next PROVE Scrub!IInv'
  OBVIOUS
<1>1. CASE Scrub!Fstat
  BY <1>1, ScrubFstat
<1>2. CASE Scrub!Fputc
  BY <1>2, ScrubFputc
<1>3. CASE Scrub!FputcFails
  BY <1>3, ScrubFputcFails
<1>4. CASE Scrub!EndPass
  BY <1>4, ScrubEndPass
<1>5. CASE Scrub!Force
  BY <1>5, ScrubForce
<1>6. CASE Scrub!WriteBack
  BY <1>6, ScrubWriteBack
<1>7. CASE Scrub!Appended
  BY <1>7, ScrubAppended
<1>8. CASE Scrub!Crash
  BY <1>8, ScrubCrash
<1>9. CASE Scrub!Done
  BY <1>9, ScrubUnchanged DEF Scrub!Done
<1> QED
  BY <1>1, <1>2, <1>3, <1>4, <1>5, <1>6, <1>7, <1>8, <1>9 DEF Scrub!Next

-----------------------------------------------------------------------------
(* cat and the others that work through operands *)

LEMMA OperandsGiven ==
  /\ DISK \in Nat /\ FileChanges \in Nat /\ Dirs \subseteq OperandFiles
  /\ Operands!Pipe \notin OperandFiles /\ "total" \notin OperandFiles
  /\ CommandLines \subseteq Seq(OperandFiles)
  /\ \A s \in Contents : s \in Seq(DOMAIN Code) /\ Len(s) <= DISK
<1>1. Operands!OperandsAssumption
  BY OperandsAssumed
<1>2. Operands!Pipe \notin OperandFiles /\ "total" \notin OperandFiles
  BY <1>1 DEF Operands!OperandsAssumption
<1> QED
  BY <1>1, <1>2 DEF Operands!OperandsAssumption

LEMMA OperandsInit == Operands!Init => Operands!IInv
<1> SUFFICES ASSUME Operands!Init PROVE Operands!IInv
  OBVIOUS
<1>1. /\ tool \in Operands!Tools /\ operands \in CommandLines /\ data \in [OperandFiles -> Contents]
      /\ sink \in {Operands!Pipe} \cup (IF tool = "cat" THEN OperandFiles \ (Dirs \cup {Stdin}) ELSE {})
      /\ linked = OperandFiles /\ beginning = data /\ i = 0 /\ at = -1 /\ rows = <<>>
      /\ changes = 0 /\ status = "run"
  BY DEF Operands!Init
<1>2. sink = Operands!Pipe \/ (tool = "cat" /\ sink \in OperandFiles)
  BY <1>1
<1>3. /\ data \in [OperandFiles -> Seq(DOMAIN Code)] /\ \A f \in OperandFiles : Len(data[f]) <= DISK /\ Len(data[f]) \in Nat
      /\ operands \in Seq(OperandFiles) /\ Len(operands) \in Nat
  BY <1>1, OperandsGiven, LenProperties
<1>4. rows \in Seq(Operands!ToSet(rows))
  BY <1>1, EmptySeq
<1>5. 0 \in 0..Len(operands) /\ 0 \in 0..FileChanges
  BY <1>3, OperandsGiven
<1>6. Operands!Types
  BY <1>1, <1>2, <1>3, <1>4, <1>5 DEF Operands!Types
<1>7. Operands!Lengths
  <2>1. \A f \in OperandFiles : Len(data[f]) <= DISK + 0
    BY <1>3, OperandsGiven
  <2> QED
    BY <1>1, <1>2, <1>3, <2>1 DEF Operands!Lengths
<1>8. Operands!Reading
  BY <1>1 DEF Operands!Reading
<1>9. Operands!Through
  BY <1>1 DEF Operands!Through
<1>10. Operands!Feeding
  <2> SUFFICES ASSUME sink \in OperandFiles, beginning[sink] # <<>> PROVE Len(data[sink]) > 0
    BY <1>1, <1>2 DEF Operands!Feeding
  <2>1. Len(data[sink]) # 0
    BY <1>1, <1>3, EmptySeq
  <2> QED
    BY <1>3, <2>1
<1> QED
  BY <1>6, <1>7, <1>8, <1>9, <1>10 DEF Operands!IInv

\* The types one by one.
LEMMA OperandsTypes ==
  ASSUME Operands!Types
  PROVE  /\ tool \in Operands!Tools /\ status \in {"run", "success", "failure"}
         /\ operands \in Seq(OperandFiles) /\ Len(operands) \in Nat /\ DOMAIN operands = 1..Len(operands)
         /\ i \in 0..Len(operands) /\ changes \in Nat /\ changes \in 0..FileChanges
         /\ sink = Operands!Pipe \/ (tool = "cat" /\ sink \in OperandFiles /\ sink # Operands!Pipe)
         /\ data \in [OperandFiles -> Seq(DOMAIN Code)] /\ linked \subseteq OperandFiles
         /\ \A f \in OperandFiles : data[f] \in Seq(DOMAIN Code) /\ Len(data[f]) \in Nat
         /\ rows \in Seq(Operands!ToSet(rows))
         /\ \A k \in 1..Len(operands) : operands[k] \in OperandFiles
         /\ i < Len(operands) => Operands!This \in OperandFiles /\ i + 1 \in 1..Len(operands)
<1>1. /\ tool \in Operands!Tools /\ status \in {"run", "success", "failure"}
      /\ operands \in Seq(OperandFiles) /\ i \in 0..Len(operands) /\ changes \in 0..FileChanges
      /\ sink = Operands!Pipe \/ (tool = "cat" /\ sink \in OperandFiles)
      /\ data \in [OperandFiles -> Seq(DOMAIN Code)] /\ linked \subseteq OperandFiles
      /\ rows \in Seq(Operands!ToSet(rows))
  BY DEF Operands!Types
<1>2. /\ Len(operands) \in Nat /\ DOMAIN operands = 1..Len(operands)
      /\ \A f \in OperandFiles : data[f] \in Seq(DOMAIN Code) /\ Len(data[f]) \in Nat
  BY <1>1, LenProperties
<1>3. \A k \in 1..Len(operands) : operands[k] \in OperandFiles
  BY <1>1, ElementOfSeq
<1>4. i < Len(operands) => i + 1 \in 1..Len(operands)
  BY <1>1, <1>2
<1>5. i < Len(operands) => Operands!This \in OperandFiles
  BY <1>3, <1>4 DEF Operands!This
<1>6. changes \in Nat
  BY <1>1, OperandsGiven
<1>7. sink \in OperandFiles => sink # Operands!Pipe
  BY OperandsGiven
<1> QED
  BY <1>1, <1>2, <1>3, <1>4, <1>5, <1>6, <1>7

\* What a row more means for the rows.
LEMMA RowsGrow ==
  ASSUME NEW r, r \in Seq(Operands!ToSet(r)), NEW x
  PROVE  /\ Append(r, x) \in Seq(Operands!ToSet(Append(r, x)))
         /\ \A n \in DOMAIN r : n \in DOMAIN Append(r, x) /\ Append(r, x)[n] = r[n]
         /\ \E n \in DOMAIN Append(r, x) : Append(r, x)[n] = x
         /\ \A n \in DOMAIN Append(r, x) : n \in DOMAIN r \/ Append(r, x)[n] = x
<1> DEFINE S == Operands!ToSet(r) \cup {x}
<1>1. r \in Seq(S) /\ x \in S
  OBVIOUS
<1> HIDE DEF S
<1>2. PICK k \in Nat : k = Len(r)
  BY <1>1, LenProperties
<1>3. DOMAIN r = 1..k
  BY <1>1, <1>2, LenProperties
<1>4. /\ Append(r, x) \in Seq(S) /\ Len(Append(r, x)) = k + 1 /\ Append(r, x)[k + 1] = x
      /\ \A n \in 1..k : Append(r, x)[n] = r[n]
  BY <1>1, <1>2, AppendProperties
<1>5. PICK q \in Seq(S) : q = Append(r, x)
  BY <1>4
<1>6. DOMAIN q = 1..k + 1
  BY <1>4, <1>5, LenProperties
<1>7. q \in Seq(Operands!ToSet(q))
  <2>1. \A n \in 1..Len(q) : q[n] \in Operands!ToSet(q)
    BY <1>5, LenProperties DEF Operands!ToSet
  <2>2. q \in [1..Len(q) -> Operands!ToSet(q)] /\ Len(q) \in Nat
    BY <1>5, <2>1, LenProperties
  <2> QED
    BY <2>2, SeqDef
<1>8. /\ k + 1 \in 1..k + 1 /\ \A n \in 1..k : n \in 1..k + 1
      /\ \A n \in 1..k + 1 : n \in 1..k \/ n = k + 1
  OBVIOUS
<1> QED
  BY <1>3, <1>4, <1>5, <1>6, <1>7, <1>8

\* The smaller of two numbers.
LEMMA OperandsMin == ASSUME NEW a \in Int, NEW b \in Int PROVE Operands!Min({a, b}) = IF a <= b THEN a ELSE b
<1>1. CASE a <= b
  <2>1. a \in {a, b} /\ \A y \in {a, b} : a <= y
    BY <1>1
  <2>2. \A z \in {a, b} : (\A y \in {a, b} : z <= y) => z = a
    BY <1>1
  <2> QED
    BY <1>1, <2>1, <2>2 DEF Operands!Min
<1>2. CASE ~(a <= b)
  <2>1. b \in {a, b} /\ \A y \in {a, b} : b <= y
    BY <1>2
  <2>2. \A z \in {a, b} : (\A y \in {a, b} : z <= y) => z = b
    BY <1>2
  <2> QED
    BY <1>2, <2>1, <2>2 DEF Operands!Min
<1> QED
  BY <1>1, <1>2

\* A write adds its character where there is room.
LEMMA OperandsWrite ==
  ASSUME Operands!Types, Operands!Lengths, NEW s, Operands!Write(s),
         sink # Operands!Pipe => s = <<>> \/ \E c \in DOMAIN Code : s = <<c>>
  PROVE  /\ data' \in [OperandFiles -> Seq(DOMAIN Code)]
         /\ \A f \in OperandFiles : f # sink => data'[f] = data[f]
         /\ sink \in OperandFiles =>
              Len(data'[sink]) = IF s = <<>> \/ Len(data[sink]) = DISK THEN Len(data[sink]) ELSE Len(data[sink]) + 1
<1>1. CASE sink = Operands!Pipe
  <2>1. data' = data
    BY <1>1 DEF Operands!Write
  <2> QED
    BY <1>1, <2>1, OperandsTypes, OperandsGiven
<1>2. CASE sink # Operands!Pipe
  <2>1. data' = [data EXCEPT ![sink] = data[sink] \o Operands!Room(s)] /\ sink \in OperandFiles
    BY <1>2, OperandsTypes DEF Operands!Write
  <2>2. PICK d \in Seq(DOMAIN Code), n \in Nat, k \in Nat : d = data[sink] /\ n = Len(d) /\ k = DISK /\ n <= k
    <3>1. Len(data[sink]) <= DISK
      BY <1>2 DEF Operands!Lengths
    <3> QED
      BY <2>1, <3>1, OperandsTypes, OperandsGiven
  <2>3. s \in Seq(DOMAIN Code) /\ (IF s = <<>> THEN Len(s) = 0 ELSE Len(s) = 1)
    <3>1. CASE s = <<>>
      BY <3>1, EmptySeq
    <3>2. CASE s # <<>>
      <4>1. PICK c \in DOMAIN Code : s = <<c>>
        BY <1>2, <3>2
      <4> QED
        BY <3>2, <4>1
    <3> QED
      BY <3>1, <3>2
  <2>4. PICK r \in Seq(DOMAIN Code) : /\ r = Operands!Room(s)
                                      /\ Len(r) = IF s = <<>> \/ n = k THEN 0 ELSE 1
    <3>1. PICK l \in Nat : l = Len(s) /\ (l = IF s = <<>> THEN 0 ELSE 1)
      BY <2>3
    <3>2. PICK m \in Nat : m = Operands!Min({l, k - n}) /\ m <= l /\ (m = IF s = <<>> \/ n = k THEN 0 ELSE 1)
      <4>1. Operands!Min({l, k - n}) = IF l <= k - n THEN l ELSE k - n
        BY <2>2, OperandsMin
      <4>2. CASE s = <<>>
        <5>1. l = 0
          BY <3>1, <4>2
        <5>2. (IF l <= k - n THEN l ELSE k - n) = 0
          BY <2>2, <5>1
        <5> QED
          BY <4>1, <4>2, <5>1, <5>2
      <4>3. CASE s # <<>>
        <5>1. l = 1
          BY <3>1, <4>3
        <5>2. (IF l <= k - n THEN l ELSE k - n) = IF n = k THEN 0 ELSE 1
          BY <2>2, <5>1
        <5> QED
          BY <4>1, <4>3, <5>1, <5>2
      <4> QED
        BY <4>2, <4>3
    <3>3. Operands!Room(s) = SubSeq(s, 1, m)
      BY <2>2, <3>1, <3>2 DEF Operands!Room
    <3>4. SubSeq(s, 1, m) \in Seq(DOMAIN Code) /\ Len(SubSeq(s, 1, m)) = m
      <4>1. \A x \in 1..m : x \in 1..Len(s)
        BY <3>1, <3>2
      <4>2. SubSeq(s, 1, m) \in Seq(DOMAIN Code)
        BY <2>3, <4>1, SubSeqProperties
      <4>3. Len(SubSeq(s, 1, m)) = IF 1 <= m THEN (m - 1) + 1 ELSE 0
        BY <2>3, <4>1, SubSeqProperties
      <4>4. (IF 1 <= m THEN (m - 1) + 1 ELSE 0) = m
        BY <3>2
      <4> QED
        BY <4>2, <4>3, <4>4
    <3> QED
      BY <3>2, <3>3, <3>4
  <2>5. d \o r \in Seq(DOMAIN Code) /\ Len(d \o r) = n + Len(r)
    BY <2>2, ConcatProperties
  <2>6. n + Len(r) = IF s = <<>> \/ n = k THEN n ELSE n + 1
    <3>1. CASE s = <<>> \/ n = k
      BY <2>4, <3>1
    <3>2. CASE ~(s = <<>> \/ n = k)
      BY <2>4, <3>2
    <3> QED
      BY <3>1, <3>2
  <2>7. data' = [data EXCEPT ![sink] = d \o r]
    BY <2>1, <2>2, <2>4
  <2>8. data \in [OperandFiles -> Seq(DOMAIN Code)]
    BY OperandsTypes
  <2>9. data'[sink] = d \o r /\ \A f \in OperandFiles : f # sink => data'[f] = data[f]
    BY <2>1, <2>7, <2>8
  <2>10. data' \in [OperandFiles -> Seq(DOMAIN Code)]
    BY <2>1, <2>5, <2>7, <2>8
  <2> QED
    BY <2>2, <2>5, <2>6, <2>9, <2>10
<1> QED
  BY <1>1, <1>2

\* What wc counts with one character more.
LEMMA OperandsCount ==
  ASSUME NEW a \in Operands!Counts, NEW n \in Nat, a.bytes = n, a.lines <= n,
         2 * a.words <= n + IF a.inword THEN 1 ELSE 0, NEW c
  PROVE  /\ Operands!WcTurn(a, c) \in Operands!Counts
         /\ Operands!WcTurn(a, c).bytes = n + 1 /\ Operands!WcTurn(a, c).lines <= n + 1
         /\ 2 * Operands!WcTurn(a, c).words <= (n + 1) + IF Operands!WcTurn(a, c).inword THEN 1 ELSE 0
<1>1. PICK l \in Nat, w \in Nat, in \in BOOLEAN : l = a.lines /\ w = a.words /\ in = a.inword
  BY DEF Operands!Counts
<1>2. PICK b \in BOOLEAN : b = ~Operands!Blank(c)
  OBVIOUS
<1>3. PICK p \in Nat : p = (IF c = "\n" THEN l + 1 ELSE l) /\ p <= n + 1
  <2>1. CASE c = "\n"
    BY <1>1, <2>1
  <2>2. CASE c # "\n"
    BY <1>1, <2>2
  <2> QED
    BY <2>1, <2>2
<1>4. PICK q \in Nat : q = (IF b /\ ~in THEN w + 1 ELSE w) /\ 2 * q <= (n + 1) + IF b THEN 1 ELSE 0
  <2>1. 2 * w <= n + IF in THEN 1 ELSE 0
    BY <1>1
  <2>2. CASE b /\ ~in
    BY <2>1, <2>2
  <2>3. CASE ~(b /\ ~in)
    BY <2>1, <2>3
  <2> QED
    BY <2>2, <2>3
<1>5. Operands!WcTurn(a, c) = [bytes |-> n + 1, lines |-> p, words |-> q, inword |-> b]
  BY <1>1, <1>2, <1>3, <1>4 DEF Operands!WcTurn
<1>6. [bytes |-> n + 1, lines |-> p, words |-> q, inword |-> b] \in Operands!Counts
  BY DEF Operands!Counts
<1> QED
  BY <1>3, <1>4, <1>5, <1>6

LEMMA OperandsOpen == Operands!IInv /\ Operands!Open => Operands!IInv'
<1> SUFFICES ASSUME Operands!IInv, Operands!Open PROVE Operands!IInv'
  OBVIOUS
<1>0. Operands!Types /\ Operands!Lengths /\ Operands!Reading /\ Operands!Through /\ Operands!Feeding
  BY DEF Operands!IInv
<1>1. /\ status = "run" /\ i < Len(operands) /\ tool \in Operands!Readers /\ at = -1 /\ i' = i
      /\ UNCHANGED <<data, linked, out, rows, changes, tool, operands, sink, beginning>>
      /\ IF Operands!This \in linked THEN at' = 0 /\ acc' = Operands!Begin /\ status' = status
         ELSE at' = at /\ status' = "failure"
  BY DEF Operands!Open, Operands!Working, Operands!Missing, Operands!env
<1>2. Operands!This' = Operands!This /\ (\A f : Operands!Named(f)' = Operands!Named(f)) /\ Operands!Due' = Operands!Due
  BY <1>1 DEF Operands!This, Operands!Named, Operands!Due, Operands!Reported, Operands!ToSet
<1>3. tool # "stat" /\ tool # "touch"
  BY <1>1 DEF Operands!Readers, Operands!Copiers
<1>4. Operands!Types'
  <2>1. status' \in {"run", "success", "failure"}
    BY <1>1
  <2> QED
    BY <1>0, <1>1, <2>1 DEF Operands!Types, Operands!ToSet
<1>5. Operands!Lengths'
  BY <1>0, <1>1 DEF Operands!Lengths
<1>6. Operands!Through'
  <2>1. \A k \in 1..i : operands[k] \in Operands!Due => Operands!Named(operands[k])
    BY <1>0 DEF Operands!Through
  <2>2. status' = "failure" => Operands!This \notin linked
    BY <1>1
  <2>3. status' # "success"
    BY <1>1
  <2> QED
    BY <1>1, <1>2, <1>3, <2>1, <2>2, <2>3 DEF Operands!Through
<1>7. CASE Operands!This \in linked
  <2>1. Len(data[Operands!This]) \in Nat
    BY <1>0, <1>1, OperandsTypes
  <2>2. tool = "wc" => acc' = [bytes |-> 0, lines |-> 0, words |-> 0, inword |-> FALSE]
    BY <1>1, <1>7 DEF Operands!Begin, Operands!Zero
  <2>3. [bytes |-> 0, lines |-> 0, words |-> 0, inword |-> FALSE] \in Operands!Counts
    BY DEF Operands!Counts
  <2>4. tool = "wc" => /\ acc' \in Operands!Counts /\ acc'.bytes = 0 /\ acc'.lines <= 0
                       /\ 2 * acc'.words <= 0 + IF acc'.inword THEN 1 ELSE 0
    <3>1. tool = "wc" => acc'.bytes = 0 /\ acc'.lines = 0 /\ acc'.words = 0 /\ acc'.inword = FALSE
      BY <2>2
    <3>2. 0 <= 0 /\ 2 * 0 <= 0 + IF FALSE THEN 1 ELSE 0
      OBVIOUS
    <3> QED
      BY <2>2, <2>3, <3>1, <3>2
  <2>5. at' = 0 /\ 0 <= Len(data[Operands!This])
    BY <1>1, <1>7, <2>1
  <2>6. Operands!Reading'
    BY <1>1, <1>2, <1>7, <2>4, <2>5 DEF Operands!Reading
  <2>7. Operands!Feeding'
    BY <1>0, <1>1, <1>2, <2>5 DEF Operands!Feeding
  <2> QED
    BY <1>4, <1>5, <1>6, <2>6, <2>7 DEF Operands!IInv
<1>8. CASE Operands!This \notin linked
  <2>1. at' = -1
    BY <1>1, <1>8
  <2>2. Operands!Reading' /\ Operands!Feeding'
    BY <1>0, <1>1, <2>1 DEF Operands!Reading, Operands!Feeding
  <2> QED
    BY <1>4, <1>5, <1>6, <2>2 DEF Operands!IInv
<1> QED
  BY <1>7, <1>8

LEMMA OperandsRead == Operands!IInv /\ Operands!Read => Operands!IInv'
<1> SUFFICES ASSUME Operands!IInv, Operands!Read PROVE Operands!IInv'
  OBVIOUS
<1>0. Operands!Types /\ Operands!Lengths /\ Operands!Reading /\ Operands!Through /\ Operands!Feeding
  BY DEF Operands!IInv
<1> DEFINE c == data[Operands!This][at + 1]
<1>1. /\ status = "run" /\ i < Len(operands) /\ at >= 0 /\ ~Operands!AtEnd
      /\ acc' = Operands!Turn(c) /\ Operands!Write(Operands!Written(c)) /\ at' = at + 1
      /\ UNCHANGED <<linked, i, rows, changes, status, tool, operands, sink, beginning>>
  BY DEF Operands!Read, Operands!Working, Operands!env
<1>2. PICK n \in Nat, f \in OperandFiles : n = at /\ f = Operands!This
  <2>1. at \in Nat
    BY <1>0, <1>1 DEF Operands!Reading
  <2> QED
    BY <1>0, <1>1, <2>1, OperandsTypes
<1>3. n < Len(data[f]) /\ tool \in Operands!Readers
  <2>1. n # Len(data[f])
    BY <1>1, <1>2 DEF Operands!AtEnd
  <2>2. n <= Len(data[f]) /\ tool \in Operands!Readers
    BY <1>0, <1>2 DEF Operands!Reading
  <2> QED
    BY <1>0, <2>1, <2>2, OperandsTypes
<1>4. c \in DOMAIN Code
  <2>1. n + 1 \in 1..Len(data[f])
    BY <1>0, <1>3, OperandsTypes
  <2> QED
    BY <1>0, <1>2, <2>1, OperandsTypes, ElementOfSeq
<1>5. sink # Operands!Pipe => Operands!Written(c) = <<c>>
  <2>1. sink # Operands!Pipe => tool = "cat"
    BY <1>0, OperandsTypes
  <2> QED
    BY <2>1 DEF Operands!Written, Operands!Copiers
<1> HIDE DEF c
<1>6. /\ data' \in [OperandFiles -> Seq(DOMAIN Code)]
      /\ \A g \in OperandFiles : g # sink => data'[g] = data[g]
      /\ sink \in OperandFiles =>
           Len(data'[sink]) = IF Len(data[sink]) = DISK THEN Len(data[sink]) ELSE Len(data[sink]) + 1
  <2>1. sink # Operands!Pipe => \E x \in DOMAIN Code : Operands!Written(c) = <<x>>
    BY <1>4, <1>5
  <2>2. sink \in OperandFiles => Operands!Written(c) # <<>>
    <3>1. sink \in OperandFiles => sink # Operands!Pipe
      BY OperandsGiven
    <3>2. <<c>> # <<>>
      OBVIOUS
    <3> QED
      BY <1>5, <3>1, <3>2
  <2> QED
    BY <1>0, <1>1, <2>1, <2>2, OperandsWrite
<1>7. PICK l \in Nat, m \in Nat : /\ l = Len(data[f]) /\ m = Len(data'[f]) /\ l <= m
  <2>1. Len(data[f]) \in Nat
    BY <1>0, OperandsTypes
  <2>2. f = sink => Len(data'[f]) = Len(data[f]) \/ Len(data'[f]) = Len(data[f]) + 1
    BY <1>6
  <2>3. f # sink => Len(data'[f]) = Len(data[f])
    BY <1>6
  <2> QED
    BY <2>1, <2>2, <2>3
<1>8. Operands!This' = f /\ (\A x : Operands!Named(x)' = Operands!Named(x)) /\ Operands!Due' = Operands!Due
  BY <1>1, <1>2 DEF Operands!This, Operands!Named, Operands!Due, Operands!Reported, Operands!ToSet
<1>9. Operands!Types'
  BY <1>0, <1>1, <1>6 DEF Operands!Types, Operands!ToSet
<1>10. sink # Operands!Pipe =>
         \E a, b, k \in Nat : /\ a = Len(data[sink]) /\ b = Len(data'[sink]) /\ k = DISK
                              /\ a <= k /\ b <= k /\ b = IF a = k THEN a ELSE a + 1
  <2> SUFFICES ASSUME sink # Operands!Pipe
               PROVE  \E a, b, k \in Nat : /\ a = Len(data[sink]) /\ b = Len(data'[sink]) /\ k = DISK
                                           /\ a <= k /\ b <= k /\ b = IF a = k THEN a ELSE a + 1
    OBVIOUS
  <2>1. PICK a \in Nat, k \in Nat : a = Len(data[sink]) /\ k = DISK /\ a <= k
    BY <1>0, OperandsTypes, OperandsGiven DEF Operands!Lengths
  <2>2. PICK b \in Nat : b = (IF a = k THEN a ELSE a + 1) /\ b <= k
    BY <2>1
  <2>3. Len(data'[sink]) = b
    BY <1>0, <1>6, <2>1, <2>2, OperandsTypes
  <2> QED
    BY <2>1, <2>2, <2>3
<1>11. Operands!Lengths'
  <2>1. ASSUME NEW g \in OperandFiles PROVE Len(data'[g]) <= DISK + changes
    <3>1. CASE g = sink
      <4>1. Len(data'[g]) \in Nat /\ Len(data'[g]) <= DISK
        BY <1>0, <1>10, <3>1, OperandsGiven
      <4> QED
        BY <1>0, <4>1, OperandsTypes, OperandsGiven
    <3>2. CASE g # sink
      BY <1>0, <1>6, <3>2 DEF Operands!Lengths
    <3> QED
      BY <3>1, <3>2
  <2> QED
    BY <1>1, <1>10, <2>1 DEF Operands!Lengths
<1>12. Operands!Reading'
  <2>1. n + 1 <= m
    BY <1>3, <1>7
  <2>2. tool = "wc" => /\ acc' \in Operands!Counts /\ acc'.bytes = n + 1 /\ acc'.lines <= n + 1
                       /\ 2 * acc'.words <= (n + 1) + IF acc'.inword THEN 1 ELSE 0
    <3> SUFFICES ASSUME tool = "wc"
                 PROVE  /\ acc' \in Operands!Counts /\ acc'.bytes = n + 1 /\ acc'.lines <= n + 1
                        /\ 2 * acc'.words <= (n + 1) + IF acc'.inword THEN 1 ELSE 0
      OBVIOUS
    <3>1. acc' = Operands!WcTurn(acc, c)
      BY <1>1 DEF Operands!Turn
    <3>2. n # -1
      OBVIOUS
    <3>3. /\ acc \in Operands!Counts /\ acc.bytes = n /\ acc.lines <= n
          /\ 2 * acc.words <= n + IF acc.inword THEN 1 ELSE 0
      BY <1>0, <1>2, <3>2 DEF Operands!Reading
    <3> QED
      BY <3>1, <3>3, OperandsCount
  <2>3. n + 1 \in Nat
    OBVIOUS
  <2>4. at' = n + 1 /\ Len(data'[Operands!This']) = m
    BY <1>1, <1>2, <1>7, <1>8
  <2> QED
    BY <1>1, <1>3, <2>1, <2>2, <2>3, <2>4 DEF Operands!Reading
<1>13. Operands!Through'
  BY <1>0, <1>1, <1>8 DEF Operands!Through
<1>14. Operands!Feeding'
  <2> SUFFICES ASSUME sink # Operands!Pipe, beginning[sink] # <<>>
               PROVE  /\ Len(data'[sink]) > 0
                      /\ f = sink /\ Len(data'[sink]) < DISK => n + 1 < Len(data'[sink])
                      /\ \A k \in 1..i : operands[k] = sink => Len(data'[sink]) = DISK
    BY <1>1, <1>2, <1>8 DEF Operands!Feeding
  <2>1. PICK a \in Nat, b \in Nat, k \in Nat : /\ a = Len(data[sink]) /\ b = Len(data'[sink]) /\ k = DISK
                                               /\ a <= k /\ b <= k /\ b = IF a = k THEN a ELSE a + 1
    BY <1>10
  <2>2. n # -1
    OBVIOUS
  <2>3. a > 0 /\ (f = sink /\ a < k => n < a) /\ \A x \in 1..i : operands[x] = sink => a = k
    BY <1>0, <1>2, <2>1, <2>2 DEF Operands!Feeding
  <2>4. b > 0 /\ (b < k => a < k /\ b = a + 1) /\ (a = k => b = k)
    BY <2>1, <2>3
  <2>5. f = sink /\ b < k => n + 1 < b
    BY <2>3, <2>4
  <2> QED
    BY <2>1, <2>3, <2>4, <2>5
<1> QED
  BY <1>9, <1>11, <1>12, <1>13, <1>14 DEF Operands!IInv

LEMMA OperandsClose == Operands!IInv /\ Operands!Close => Operands!IInv'
<1> SUFFICES ASSUME Operands!IInv, Operands!Close PROVE Operands!IInv'
  OBVIOUS
<1>0. Operands!Types /\ Operands!Lengths /\ Operands!Reading /\ Operands!Through /\ Operands!Feeding
  BY DEF Operands!IInv
<1>1. /\ status = "run" /\ i < Len(operands) /\ at >= 0 /\ Operands!AtEnd
      /\ Operands!Write(Operands!LastLine) /\ i' = i + 1 /\ at' = -1
      /\ UNCHANGED <<linked, changes, status, tool, operands, sink, beginning>>
  BY DEF Operands!Close, Operands!Working, Operands!env
<1>2. PICK n \in Nat, f \in OperandFiles : n = i /\ f = operands[n + 1] /\ f = Operands!This /\ n + 1 <= Len(operands)
  <2>1. i \in Nat /\ i + 1 <= Len(operands)
    BY <1>0, <1>1, OperandsTypes
  <2> QED
    BY <1>0, <1>1, <2>1, OperandsTypes DEF Operands!This
<1>3. tool \in Operands!Readers /\ at # -1
  BY <1>0, <1>1 DEF Operands!Reading
<1>4. tool # "stat" /\ tool # "touch"
  BY <1>3 DEF Operands!Readers, Operands!Copiers
<1>5. sink # Operands!Pipe => tool = "cat" /\ Operands!LastLine = <<>>
  <2>1. sink # Operands!Pipe => tool = "cat"
    BY <1>0, OperandsTypes
  <2> QED
    BY <2>1 DEF Operands!LastLine
<1>6. /\ data' \in [OperandFiles -> Seq(DOMAIN Code)]
      /\ \A g \in OperandFiles : Len(data'[g]) = Len(data[g])
      /\ sink # Operands!Pipe => Len(data'[sink]) = Len(data[sink])
  <2>1. sink \in OperandFiles => sink # Operands!Pipe
    BY OperandsGiven
  <2>2. /\ data' \in [OperandFiles -> Seq(DOMAIN Code)]
        /\ \A g \in OperandFiles : g # sink => data'[g] = data[g]
        /\ sink \in OperandFiles => Len(data'[sink]) = Len(data[sink])
    BY <1>0, <1>1, <1>5, <2>1, OperandsWrite
  <2>3. sink # Operands!Pipe => sink \in OperandFiles
    BY <1>0, OperandsTypes
  <2> QED
    BY <2>2, <2>3
<1>7. /\ rows' \in Seq(Operands!ToSet(rows')) /\ \A k \in DOMAIN rows : k \in DOMAIN rows' /\ rows'[k] = rows[k]
      /\ Operands!Counted => \E k \in DOMAIN rows' : rows'[k] = Operands!Row
  <2> DEFINE now == IF Operands!Counted THEN Append(rows, Operands!Row) ELSE rows
  <2>1. \/ rows' = now
        \/ \E x : rows' = Append(now, x)
    BY DEF Operands!Close
  <2>2. /\ now \in Seq(Operands!ToSet(now)) /\ \A k \in DOMAIN rows : k \in DOMAIN now /\ now[k] = rows[k]
        /\ Operands!Counted => \E k \in DOMAIN now : now[k] = Operands!Row
    <3>1. rows \in Seq(Operands!ToSet(rows))
      BY <1>0, OperandsTypes
    <3>2. CASE Operands!Counted
      <4>1. now = Append(rows, Operands!Row)
        BY <3>2
      <4> QED
        BY <3>1, <4>1, RowsGrow
    <3>3. CASE ~Operands!Counted
      <4>1. now = rows
        BY <3>3
      <4> QED
        BY <3>1, <3>3, <4>1
    <3> QED
      BY <3>2, <3>3
  <2> HIDE DEF now
  <2>3. CASE rows' = now
    BY <2>2, <2>3
  <2>4. CASE \E x : rows' = Append(now, x)
    <3>1. PICK x : rows' = Append(now, x)
      BY <2>4
    <3>2. /\ Append(now, x) \in Seq(Operands!ToSet(Append(now, x)))
          /\ \A k \in DOMAIN now : k \in DOMAIN Append(now, x) /\ Append(now, x)[k] = now[k]
      BY <2>2, RowsGrow
    <3> QED
      BY <2>2, <3>1, <3>2
  <2> QED
    BY <2>1, <2>3, <2>4
<1>8. /\ \A g : Operands!Named(g) => Operands!Named(g)'
      /\ Operands!Counted => Operands!Named(f)'
  <2>1. Operands!Row.name = f
    BY <1>2 DEF Operands!Row
  <2> QED
    BY <1>7, <2>1 DEF Operands!Named
<1>9. Operands!Due' = Operands!Due /\ (f \in Operands!Due => Operands!Counted)
  <2>1. Operands!Due' = Operands!Due
    BY <1>1 DEF Operands!Due, Operands!Reported, Operands!ToSet
  <2> QED
    BY <1>2, <1>4, <2>1 DEF Operands!Due, Operands!Reported, Operands!Counted
<1>10. Operands!Types'
  <2>1. n + 1 \in 0..Len(operands)
    BY <1>0, <1>2, OperandsTypes
  <2> QED
    BY <1>0, <1>1, <1>2, <1>6, <1>7, <2>1 DEF Operands!Types
<1>11. Operands!Lengths'
  BY <1>0, <1>1, <1>6 DEF Operands!Lengths
<1>12. Operands!Reading'
  BY <1>1 DEF Operands!Reading
<1>13. \A k \in 1..n + 1 : k \in 1..n \/ k = n + 1
  OBVIOUS
<1>14. Operands!Through'
  <2>1. ASSUME NEW k \in 1..n + 1, operands[k] \in Operands!Due PROVE Operands!Named(operands[k])'
    <3>1. CASE k \in 1..n
      BY <1>0, <1>1, <1>2, <1>8, <2>1, <3>1 DEF Operands!Through
    <3>2. CASE k = n + 1
      BY <1>1, <1>2, <1>8, <1>9, <2>1, <3>2
    <3> QED
      BY <1>13, <3>1, <3>2
  <2> QED
    BY <1>1, <1>2, <1>4, <1>9, <2>1 DEF Operands!Through
<1>15. Operands!Feeding'
  <2> SUFFICES ASSUME sink # Operands!Pipe, beginning[sink] # <<>>
               PROVE  /\ Len(data[sink]) > 0
                      /\ \A k \in 1..n + 1 : operands[k] = sink => Len(data[sink]) = DISK
    BY <1>1, <1>2, <1>6 DEF Operands!Feeding
  <2>1. /\ Len(data[sink]) > 0 /\ (f = sink /\ Len(data[sink]) < DISK => at < Len(data[sink]))
        /\ \A k \in 1..n : operands[k] = sink => Len(data[sink]) = DISK
    BY <1>0, <1>2, <1>3 DEF Operands!Feeding
  <2>2. ASSUME f = sink PROVE Len(data[sink]) = DISK
    <3>1. at = Len(data[sink])
      BY <1>1, <1>2, <1>5, <2>2 DEF Operands!AtEnd
    <3>2. Len(data[sink]) <= DISK /\ Len(data[sink]) \in Nat
      BY <1>0, <2>2, OperandsTypes DEF Operands!Lengths
    <3>3. ~(Len(data[sink]) < Len(data[sink]))
      BY <3>2
    <3>4. ~(Len(data[sink]) < DISK)
      BY <2>1, <2>2, <3>1, <3>3
    <3> QED
      BY <3>2, <3>4, OperandsGiven
  <2> QED
    BY <1>2, <1>13, <2>1, <2>2
<1> QED
  BY <1>10, <1>11, <1>12, <1>14, <1>15 DEF Operands!IInv

LEMMA OperandsTouch == Operands!IInv /\ Operands!Touch => Operands!IInv'
<1> SUFFICES ASSUME Operands!IInv, Operands!Touch PROVE Operands!IInv'
  OBVIOUS
<1>0. Operands!Types /\ Operands!Lengths /\ Operands!Reading /\ Operands!Through /\ Operands!Feeding
  BY DEF Operands!IInv
<1>1. /\ status = "run" /\ i < Len(operands) /\ tool = "touch" /\ at' = at
      /\ UNCHANGED <<changes, tool, operands, sink, beginning>>
  BY DEF Operands!Touch, Operands!Working, Operands!Missing, Operands!env
<1>2. PICK n \in Nat, f \in OperandFiles : n = i /\ f = operands[n + 1] /\ f = Operands!This /\ n + 1 <= Len(operands)
  <2>1. i \in Nat /\ i + 1 <= Len(operands)
    BY <1>0, <1>1, OperandsTypes
  <2> QED
    BY <1>0, <1>1, <2>1, OperandsTypes DEF Operands!This
<1>3. sink = Operands!Pipe /\ at = -1
  <2>1. tool # "cat" /\ tool \notin Operands!Readers
    BY <1>1 DEF Operands!Readers, Operands!Copiers
  <2> QED
    BY <1>0, <2>1, OperandsTypes DEF Operands!Reading
<1>4. Operands!Reading' /\ Operands!Feeding'
  BY <1>1, <1>3 DEF Operands!Reading, Operands!Feeding
<1>5. Operands!Due' = Operands!Due
  BY <1>1 DEF Operands!Due, Operands!Reported, Operands!ToSet
<1>6. CASE f \in Dirs /\ f \in linked
  <2>1. status' = "failure" /\ i' = i /\ UNCHANGED <<data, linked, rows>>
    BY <1>2, <1>6 DEF Operands!Touch, Operands!Missing
  <2>2. Operands!Types' /\ Operands!Lengths'
    BY <1>0, <1>1, <1>2, <2>1 DEF Operands!Types, Operands!Lengths, Operands!ToSet
  <2>3. Operands!This' = f /\ \A g : Operands!Named(g)' = Operands!Named(g)
    BY <1>1, <1>2, <2>1 DEF Operands!This, Operands!Named
  <2>4. Operands!Through'
    <3>1. \A k \in 1..n : operands[k] \in Operands!Due => Operands!Named(operands[k])
      BY <1>0, <1>2 DEF Operands!Through
    <3>2. tool = "touch" /\ changes = 0 => \A k \in DOMAIN rows : rows[k].name \in linked
      BY <1>0 DEF Operands!Through
    <3> QED
      BY <1>1, <1>2, <1>5, <1>6, <2>1, <2>3, <3>1, <3>2 DEF Operands!Through
  <2> QED
    BY <1>4, <2>2, <2>4 DEF Operands!IInv
<1>7. CASE ~(f \in Dirs /\ f \in linked)
  <2> DEFINE x == [name |-> f, read |-> <<>>, value |-> <<>>]
  <2>1. /\ linked' = linked \cup {f} /\ data' = (IF f \in linked THEN data ELSE [data EXCEPT ![f] = <<>>])
        /\ rows' = Append(rows, x) /\ i' = n + 1 /\ status' = status
    BY <1>2, <1>7 DEF Operands!Touch
  <2>2. x.name = f
    OBVIOUS
  <2> HIDE DEF x
  <2>3. /\ rows' \in Seq(Operands!ToSet(rows')) /\ \A k \in DOMAIN rows : k \in DOMAIN rows' /\ rows'[k] = rows[k]
        /\ \E k \in DOMAIN rows' : rows'[k] = x
        /\ \A k \in DOMAIN rows' : k \in DOMAIN rows \/ rows'[k] = x
    <3>1. rows \in Seq(Operands!ToSet(rows)) /\ rows' = Append(rows, x)
      BY <1>0, <2>1, OperandsTypes
    <3> QED
      BY <3>1, RowsGrow
  <2>4. /\ data' \in [OperandFiles -> Seq(DOMAIN Code)]
        /\ \A g \in OperandFiles : data'[g] = data[g] \/ data'[g] = <<>>
    BY <1>0, <2>1, OperandsTypes, EmptySeq
  <2>5. Operands!Types'
    <3>1. n + 1 \in 0..Len(operands)
      BY <1>0, <1>2, OperandsTypes
    <3>2. linked' \subseteq OperandFiles
      BY <1>0, <2>1, OperandsTypes
    <3> QED
      BY <1>0, <1>1, <2>1, <2>3, <2>4, <3>1, <3>2 DEF Operands!Types
  <2>6. Operands!Lengths'
    <3>1. Len(<<>>) <= DISK + changes
      BY <1>0, EmptySeq, OperandsTypes, OperandsGiven
    <3>2. \A g \in OperandFiles : Len(data'[g]) <= DISK + changes
      BY <1>0, <2>4, <3>1 DEF Operands!Lengths
    <3> QED
      BY <1>1, <1>3, <3>2 DEF Operands!Lengths
  <2>7. (\A g : Operands!Named(g) => Operands!Named(g)') /\ Operands!Named(f)'
    BY <2>2, <2>3 DEF Operands!Named
  <2>8. \A k \in 1..n + 1 : k \in 1..n \/ k = n + 1
    OBVIOUS
  <2>9. \A k \in 1..n + 1 : operands[k] \in Operands!Due => Operands!Named(operands[k])'
    BY <1>0, <1>1, <1>2, <2>7, <2>8 DEF Operands!Through
  <2>10. changes = 0 => \A k \in DOMAIN rows' : rows'[k].name \in linked'
    BY <1>0, <1>1, <2>1, <2>2, <2>3 DEF Operands!Through
  <2>11. Operands!Through'
    BY <1>1, <1>2, <1>5, <2>1, <2>9, <2>10 DEF Operands!Through
  <2> QED
    BY <1>4, <2>5, <2>6, <2>11 DEF Operands!IInv
<1> QED
  BY <1>6, <1>7

LEMMA OperandsStat == Operands!IInv /\ Operands!Stat => Operands!IInv'
<1> SUFFICES ASSUME Operands!IInv, Operands!Stat PROVE Operands!IInv'
  OBVIOUS
<1>0. Operands!Types /\ Operands!Lengths /\ Operands!Reading /\ Operands!Through /\ Operands!Feeding
  BY DEF Operands!IInv
<1>1. /\ status = "run" /\ i < Len(operands) /\ tool = "stat" /\ i' = i + 1
      /\ UNCHANGED <<data, linked, at, changes, status, tool, operands, sink, beginning>>
  BY DEF Operands!Stat, Operands!Working, Operands!env
<1>2. PICK n \in Nat, f \in OperandFiles : n = i /\ f = operands[n + 1] /\ f = Operands!This /\ n + 1 <= Len(operands)
  <2>1. i \in Nat /\ i + 1 <= Len(operands)
    BY <1>0, <1>1, OperandsTypes
  <2> QED
    BY <1>0, <1>1, <2>1, OperandsTypes DEF Operands!This
<1>3. sink = Operands!Pipe /\ at = -1
  <2>1. tool # "cat" /\ tool \notin Operands!Readers
    BY <1>1 DEF Operands!Readers, Operands!Copiers
  <2> QED
    BY <1>0, <2>1, OperandsTypes DEF Operands!Reading
<1>4. Operands!Reading' /\ Operands!Feeding' /\ Operands!Lengths'
  BY <1>0, <1>1, <1>3 DEF Operands!Reading, Operands!Feeding, Operands!Lengths
<1> DEFINE x == [name |-> f, read |-> <<>>, value |-> Len(data[f])]
<1>5. rows' = IF f \in linked THEN Append(rows, x) ELSE rows
  BY <1>2 DEF Operands!Stat
<1>6. x.name = f
  OBVIOUS
<1> HIDE DEF x
<1>7. /\ rows' \in Seq(Operands!ToSet(rows')) /\ \A k \in DOMAIN rows : k \in DOMAIN rows' /\ rows'[k] = rows[k]
      /\ f \in linked => \E k \in DOMAIN rows' : rows'[k] = x
  <2>1. rows \in Seq(Operands!ToSet(rows))
    BY <1>0, OperandsTypes
  <2>2. CASE f \in linked
    <3>1. rows' = Append(rows, x)
      BY <1>5, <2>2
    <3> QED
      BY ONLY <2>1, <3>1, RowsGrow
  <2>3. CASE f \notin linked
    <3>1. rows' = rows
      BY <1>5, <2>3
    <3> QED
      BY ONLY <2>1, <2>3, <3>1
  <2> QED
    BY ONLY <2>2, <2>3
<1>8. (\A g : Operands!Named(g) => Operands!Named(g)') /\ (f \in linked => Operands!Named(f)')
  BY <1>6, <1>7 DEF Operands!Named
<1>9. Operands!Types'
  <2>1. n + 1 \in 0..Len(operands)
    BY <1>0, <1>2, OperandsTypes
  <2> QED
    BY <1>0, <1>1, <1>2, <1>7, <2>1 DEF Operands!Types
<1>10. \A k \in 1..n + 1 : k \in 1..n \/ k = n + 1
  OBVIOUS
<1>11. Operands!Due' = linked /\ Operands!Due = linked
  BY <1>1 DEF Operands!Due
<1>12. \A k \in 1..n + 1 : operands[k] \in linked => Operands!Named(operands[k])'
  BY <1>0, <1>1, <1>2, <1>8, <1>10, <1>11 DEF Operands!Through
<1>13. Operands!Through'
  BY <1>1, <1>2, <1>11, <1>12 DEF Operands!Through
<1> QED
  BY <1>4, <1>9, <1>13 DEF Operands!IInv

LEMMA OperandsFinish == Operands!IInv /\ Operands!Finish => Operands!IInv'
<1> SUFFICES ASSUME Operands!IInv, Operands!Finish PROVE Operands!IInv'
  OBVIOUS
<1>0. Operands!Types /\ Operands!Lengths /\ Operands!Reading /\ Operands!Through /\ Operands!Feeding
  BY DEF Operands!IInv
<1>1. /\ status = "run" /\ i = Len(operands) /\ status' = "success"
      /\ UNCHANGED <<data, linked, i, at, rows, changes, tool, operands, sink, beginning>>
  BY DEF Operands!Finish, Operands!env
<1>2. at = -1
  <2>1. ~(i < Len(operands))
    BY <1>0, <1>1, OperandsTypes
  <2> QED
    BY <1>0, <2>1 DEF Operands!Reading
<1>3. Operands!Types' /\ Operands!Lengths'
  BY <1>0, <1>1 DEF Operands!Types, Operands!Lengths, Operands!ToSet
<1>4. Operands!Reading' /\ Operands!Feeding'
  BY <1>0, <1>1, <1>2 DEF Operands!Reading, Operands!Feeding
<1>5. Operands!Due' = Operands!Due /\ \A g : Operands!Named(g)' = Operands!Named(g)
  BY <1>1 DEF Operands!Due, Operands!Reported, Operands!ToSet, Operands!Named
<1>6. Operands!Through'
  BY <1>0, <1>1, <1>5 DEF Operands!Through
<1> QED
  BY <1>3, <1>4, <1>6 DEF Operands!IInv

\* What other programs do to a file that is not the one written to.
LEMMA OperandsAppended ==
  ASSUME Operands!IInv, NEW f \in Operands!ToSet(operands), NEW c \in DOMAIN Code, Operands!AppendByOthers(f, c)
  PROVE  Operands!IInv'
<1>0. Operands!Types /\ Operands!Lengths /\ Operands!Reading /\ Operands!Through /\ Operands!Feeding
  BY DEF Operands!IInv
<1>1. /\ status = "run" /\ changes < FileChanges /\ f # sink /\ f \in linked /\ changes' = changes + 1
      /\ data' = [data EXCEPT ![f] = Append(data[f], c)]
      /\ UNCHANGED <<linked, i, at, acc, rows, status, tool, operands, sink, beginning>>
  BY DEF Operands!AppendByOthers, Operands!Others, Operands!env
<1>2. f \in OperandFiles /\ data \in [OperandFiles -> Seq(DOMAIN Code)] /\ data[f] \in Seq(DOMAIN Code)
  BY <1>0, <1>1, OperandsTypes
<1>3. PICK n \in Nat, k \in Nat : n = changes /\ k = FileChanges /\ n + 1 <= k
  BY <1>0, <1>1, OperandsTypes, OperandsGiven
<1>4. Append(data[f], c) \in Seq(DOMAIN Code) /\ Len(Append(data[f], c)) = Len(data[f]) + 1
  BY <1>2, AppendProperties
<1>5. /\ data' \in [OperandFiles -> Seq(DOMAIN Code)]
      /\ \A g \in OperandFiles : Len(data'[g]) = Len(data[g]) \/ Len(data'[g]) = Len(data[g]) + 1
      /\ sink \in OperandFiles => data'[sink] = data[sink]
  BY <1>1, <1>2, <1>4
<1>6. Operands!Types'
  <2>1. n + 1 \in 0..k
    BY <1>3
  <2> QED
    BY <1>0, <1>1, <1>3, <1>5, <2>1 DEF Operands!Types, Operands!ToSet
<1>7. sink # Operands!Pipe => data'[sink] = data[sink]
  BY <1>0, <1>5, OperandsTypes
<1>8. Operands!Lengths'
  <2>1. ASSUME NEW g \in OperandFiles PROVE Len(data'[g]) <= DISK + (n + 1)
    <3>1. PICK l \in Nat, d \in Nat : l = Len(data[g]) /\ d = DISK /\ l <= d + n
      BY <1>0, <1>3, OperandsTypes, OperandsGiven DEF Operands!Lengths
    <3>2. l <= d + (n + 1) /\ l + 1 <= d + (n + 1)
      BY <3>1
    <3> QED
      BY <1>5, <3>1, <3>2
  <2> QED
    BY <1>0, <1>1, <1>3, <1>7, <2>1 DEF Operands!Lengths
<1>9. Operands!This' = Operands!This /\ (\A g : Operands!Named(g)' = Operands!Named(g)) /\ Operands!Due' = Operands!Due
  BY <1>1 DEF Operands!This, Operands!Named, Operands!Due, Operands!Reported, Operands!ToSet
<1>10. Operands!Reading'
  <2>1. at # -1 => at \in Nat /\ at <= Len(data'[Operands!This])
    <3> SUFFICES ASSUME at # -1 PROVE at \in Nat /\ at <= Len(data'[Operands!This])
      OBVIOUS
    <3>1. at \in Nat /\ at <= Len(data[Operands!This]) /\ i < Len(operands)
      BY <1>0 DEF Operands!Reading
    <3>2. PICK g \in OperandFiles, l \in Nat : g = Operands!This /\ l = Len(data[g])
      BY <1>0, <3>1, OperandsTypes
    <3>3. at <= l /\ at <= l + 1
      BY <3>1, <3>2
    <3> QED
      BY <1>5, <3>1, <3>2, <3>3
  <2> QED
    BY <1>0, <1>1, <1>9, <2>1 DEF Operands!Reading
<1>11. Operands!Through'
  <2>1. changes' # 0
    BY <1>1, <1>3
  <2> QED
    BY <1>0, <1>1, <1>9, <2>1 DEF Operands!Through
<1>12. Operands!Feeding'
  BY <1>0, <1>1, <1>7, <1>9 DEF Operands!Feeding
<1> QED
  BY <1>6, <1>8, <1>10, <1>11, <1>12 DEF Operands!IInv

LEMMA OperandsRemoved ==
  ASSUME Operands!IInv, NEW f \in Operands!ToSet(operands), Operands!RemoveByOthers(f)
  PROVE  Operands!IInv'
<1>0. Operands!Types /\ Operands!Lengths /\ Operands!Reading /\ Operands!Through /\ Operands!Feeding
  BY DEF Operands!IInv
<1>1. /\ status = "run" /\ changes < FileChanges /\ changes' = changes + 1 /\ linked' = linked \ {f}
      /\ UNCHANGED <<data, i, at, acc, rows, status, tool, operands, sink, beginning>>
  BY DEF Operands!RemoveByOthers, Operands!Others, Operands!env
<1>2. PICK n \in Nat, k \in Nat : n = changes /\ k = FileChanges /\ n + 1 <= k
  BY <1>0, <1>1, OperandsTypes, OperandsGiven
<1>3. Operands!Types'
  <2>1. n + 1 \in 0..k
    BY <1>2
  <2>2. linked' \subseteq OperandFiles
    BY <1>0, <1>1, OperandsTypes
  <2> QED
    BY <1>0, <1>1, <1>2, <2>1, <2>2 DEF Operands!Types, Operands!ToSet
<1>4. Operands!Lengths'
  <2>1. ASSUME NEW g \in OperandFiles PROVE Len(data[g]) <= DISK + (n + 1)
    <3>1. PICK l \in Nat, d \in Nat : l = Len(data[g]) /\ d = DISK /\ l <= d + n
      BY <1>0, <1>2, OperandsTypes, OperandsGiven DEF Operands!Lengths
    <3>2. l <= d + (n + 1)
      BY <3>1
    <3> QED
      BY <3>1, <3>2
  <2> QED
    BY <1>0, <1>1, <1>2, <2>1 DEF Operands!Lengths
<1>5. /\ Operands!This' = Operands!This /\ (\A g : Operands!Named(g)' = Operands!Named(g))
      /\ Operands!Due' \subseteq Operands!Due
  BY <1>1 DEF Operands!This, Operands!Named, Operands!Due, Operands!Reported, Operands!ToSet
<1>6. Operands!Reading' /\ Operands!Feeding'
  BY <1>0, <1>1, <1>5 DEF Operands!Reading, Operands!Feeding
<1>7. Operands!Through'
  <2>1. changes' # 0
    BY <1>1, <1>2
  <2> QED
    BY <1>0, <1>1, <1>5, <2>1 DEF Operands!Through
<1> QED
  BY <1>3, <1>4, <1>6, <1>7 DEF Operands!IInv

LEMMA OperandsUnchanged == Operands!IInv /\ UNCHANGED Operands!vars => Operands!IInv'
<1> SUFFICES ASSUME Operands!IInv, UNCHANGED Operands!vars PROVE Operands!IInv'
  OBVIOUS
<1>1. /\ tool' = tool /\ operands' = operands /\ sink' = sink /\ data' = data /\ linked' = linked /\ i' = i
      /\ at' = at /\ acc' = acc /\ rows' = rows /\ beginning' = beginning /\ changes' = changes /\ status' = status
  BY DEF Operands!vars
<1>2. /\ Operands!This' = Operands!This /\ (\A g : Operands!Named(g)' = Operands!Named(g))
      /\ Operands!Due' = Operands!Due
  BY <1>1 DEF Operands!This, Operands!Named, Operands!Due, Operands!Reported, Operands!ToSet
<1>3. Operands!Types' /\ Operands!Lengths'
  BY <1>1 DEF Operands!IInv, Operands!Types, Operands!Lengths, Operands!ToSet
<1>4. Operands!Reading' /\ Operands!Through' /\ Operands!Feeding'
  BY <1>1, <1>2 DEF Operands!IInv, Operands!Reading, Operands!Through, Operands!Feeding
<1> QED
  BY <1>3, <1>4 DEF Operands!IInv

LEMMA OperandsNext == Operands!IInv /\ Operands!Next => Operands!IInv'
<1> SUFFICES ASSUME Operands!IInv, Operands!Next PROVE Operands!IInv'
  OBVIOUS
<1>1. CASE Operands!Program
  BY <1>1, OperandsOpen, OperandsRead, OperandsClose, OperandsTouch, OperandsStat, OperandsFinish DEF Operands!Program
<1>2. CASE Operands!Done
  BY <1>2, OperandsUnchanged DEF Operands!Done
<1>3. ASSUME NEW f \in Operands!ToSet(operands),
             Operands!RemoveByOthers(f) \/ \E c \in DOMAIN Code : Operands!AppendByOthers(f, c)
      PROVE  Operands!IInv'
  BY <1>3, OperandsRemoved, OperandsAppended
<1> QED
  BY <1>1, <1>2, <1>3 DEF Operands!Next

\* The promises follow.
LEMMA OperandsKept == Operands!IInv => Operands!FailsAtFirst /\ Operands!FeedsItself
<1> SUFFICES ASSUME Operands!IInv PROVE Operands!FailsAtFirst /\ Operands!FeedsItself
  OBVIOUS
<1>0. Operands!Types /\ Operands!Reading /\ Operands!Through /\ Operands!Feeding
  BY DEF Operands!IInv
<1>1. \A k \in 1..i : operands[k] \in Operands!Due => Operands!Named(operands[k])
  BY <1>0 DEF Operands!Through
<1>2. \A f \in Operands!ToSet(operands) : \E k \in 1..Len(operands) : operands[k] = f
  BY <1>0, OperandsTypes DEF Operands!ToSet
<1>3. ASSUME status = "success" PROVE \A f \in Operands!ToSet(operands) \cap Operands!Due : Operands!Named(f)
  <2>1. i = Len(operands)
    BY <1>0, <1>3 DEF Operands!Through
  <2> QED
    BY <1>1, <1>2, <2>1
<1>4. Operands!FailsAtFirst
  <2>1. ASSUME status = "failure"
        PROVE  /\ IF tool = "touch" THEN Operands!This \in Dirs ELSE Operands!This \notin linked
               /\ \A k \in 1..i : operands[k] \in Operands!Reported => Operands!Named(operands[k])
    <3>1. tool # "stat" /\ IF tool = "touch" THEN Operands!This \in Dirs ELSE Operands!This \notin linked
      BY <1>0, <2>1 DEF Operands!Through
    <3> QED
      BY <1>1, <3>1 DEF Operands!Due
  <2>2. ASSUME status = "success", tool # "stat"
        PROVE  \A f \in Operands!Reported : Operands!Named(f)
    BY <1>3, <2>2 DEF Operands!Due, Operands!Reported
  <2>3. ASSUME status = "success", tool = "stat"
        PROVE  \A f \in linked \cap Operands!ToSet(operands) : Operands!Named(f)
    BY <1>3, <2>3 DEF Operands!Due
  <2>4. tool = "touch" /\ changes = 0 => \A k \in DOMAIN rows : rows[k].name \in linked
    BY <1>0 DEF Operands!Through
  <2> QED
    BY <2>1, <2>2, <2>3, <2>4 DEF Operands!FailsAtFirst, Operands!Named
<1>5. Operands!FeedsItself
  <2> SUFFICES ASSUME tool = "cat", sink \in Operands!ToSet(operands), status = "success", beginning[sink] # <<>>
               PROVE  Len(data[sink]) = DISK
    BY DEF Operands!FeedsItself
  <2>1. PICK k \in 1..Len(operands) : operands[k] = sink
    BY <1>2
  <2>2. i = Len(operands) /\ sink # Operands!Pipe
    <3>1. sink \in OperandFiles
      BY <1>0, <2>1, OperandsTypes
    <3> QED
      BY <1>0, <3>1, OperandsGiven DEF Operands!Through
  <2> QED
    BY <1>0, <2>1, <2>2 DEF Operands!Feeding
<1>6. QED
  BY <1>4, <1>5

\* So do the types that the runs check.
LEMMA OperandsTypeOK == Operands!IInv => Operands!TypeOK
<1> SUFFICES ASSUME Operands!IInv PROVE Operands!TypeOK
  OBVIOUS
<1>1. Operands!Types /\ Operands!Lengths /\ Operands!Reading
  BY DEF Operands!IInv
<1>2. ASSUME at # -1
      PROVE  /\ at \in Nat /\ at <= Len(data[Operands!This]) /\ at <= DISK + FileChanges
             /\ tool = "wc" => acc.bytes = at /\ acc.lines <= at /\ 2 * acc.words <= at + 1
  <2>1. at \in Nat /\ at <= Len(data[Operands!This]) /\ i < Len(operands)
    BY <1>1, <1>2 DEF Operands!Reading
  <2>2. at <= DISK + FileChanges
    <3>1. Operands!This \in OperandFiles /\ Len(data[Operands!This]) \in Nat
      BY <1>1, <2>1, OperandsTypes
    <3>2. Len(data[Operands!This]) <= DISK + changes
      BY <1>1, <3>1 DEF Operands!Lengths
    <3>3. DISK \in Nat /\ FileChanges \in Nat /\ changes \in 0..FileChanges
      BY <1>1, OperandsTypes, OperandsGiven
    <3> QED
      BY <2>1, <3>1, <3>2, <3>3
  <2>3. ASSUME tool = "wc" PROVE acc.bytes = at /\ acc.lines <= at /\ 2 * acc.words <= at + 1
    <3>1. /\ acc \in Operands!Counts /\ acc.bytes = at /\ acc.lines <= at
          /\ 2 * acc.words <= at + IF acc.inword THEN 1 ELSE 0
      BY <1>1, <1>2, <2>3 DEF Operands!Reading
    <3>2. PICK w \in Nat : w = acc.words
      BY <3>1 DEF Operands!Counts
    <3>3. 2 * w <= at + IF acc.inword THEN 1 ELSE 0
      BY <3>1, <3>2
    <3>4. 2 * w <= at + 1
      BY <2>1, <3>3
    <3> QED
      BY <3>1, <3>2, <3>4
  <2> QED
    BY <2>1, <2>2, <2>3
<1>3. at \in Nat \cup {-1}
  BY <1>1 DEF Operands!Reading
<1>4. at \in -1..DISK + FileChanges
  <2>1. CASE at = -1
    BY <2>1, OperandsGiven
  <2>2. CASE at # -1
    BY <1>2, <2>2, OperandsGiven
  <2> QED
    BY <2>1, <2>2
<1>5. at >= 0 => at # -1
  OBVIOUS
<1> QED
  BY <1>1, <1>2, <1>4, <1>5, OperandsTypes DEF Operands!TypeOK

-----------------------------------------------------------------------------
(* who, uptime and which *)

LEMMA LookupsInit == Lookups!Init => Lookups!IInv
<1> SUFFICES ASSUME Lookups!Init PROVE Lookups!IInv
  OBVIOUS
<1>0. TableSize \in Nat \ {0} /\ Elapsed \subseteq Int
  BY LookupsAssumed DEF Lookups!LookupsAssumption
<1>1. /\ lookup \in {"who", "uptime", "which"} /\ slot = 1 /\ pass \in {1, 2}
      /\ seen = <<>> /\ nusers = 0 /\ shown = <<>> /\ result = "none"
      /\ always = Lookups!Hits(table) /\ ever = Lookups!Hits(table)
  BY DEF Lookups!Init
<1>2. since \in Int
  BY <1>0 DEF Lookups!Init
<1>3. table \in [Lookups!Slots -> Lookups!LoginTypes \cup Lookups!DirTypes]
  BY DEF Lookups!Init
<1>4. Lookups!Hits(table) \subseteq Lookups!Slots
  BY DEF Lookups!Hits
<1>5. seen \in Seq(Lookups!Slots) /\ Len(seen) = 0 /\ DOMAIN seen = {}
  BY <1>1, EmptySeq
<1>6. Lookups!TypeOK
  BY <1>0, <1>1, <1>4, <1>5 DEF Lookups!TypeOK
<1>7. Lookups!Entries
  BY <1>1, <1>2, <1>3, <1>5 DEF Lookups!Entries
<1>8. Lookups!GoneBy
  <2>1. \A k \in always : ~(k < slot)
    BY <1>1, <1>4 DEF Lookups!Slots
  <2> QED
    BY <1>1, <1>5, <2>1 DEF Lookups!GoneBy
<1>9. Lookups!Ending /\ Lookups!Time
  BY <1>1 DEF Lookups!Ending, Lookups!Time
<1> QED
  BY <1>6, <1>7, <1>8, <1>9 DEF Lookups!IInv

\* The first look for the boot, or the beginning of the pass that counts.
LEMMA LookupsLookForBoot == Lookups!IInv /\ Lookups!LookForBoot => Lookups!IInv'
<1> SUFFICES ASSUME Lookups!IInv, Lookups!LookForBoot PROVE Lookups!IInv'
  OBVIOUS
<1>0. TableSize \in Nat \ {0}
  BY LookupsAssumed DEF Lookups!LookupsAssumption
<1>a. Lookups!TypeOK /\ Lookups!Entries /\ Lookups!GoneBy /\ Lookups!Ending /\ Lookups!Time
  BY DEF Lookups!IInv
<1>1. pass = 1 /\ result = "none" /\ UNCHANGED <<lookup, table, since, seen, nusers, changes, result>>
  BY DEF Lookups!LookForBoot
<1>2. seen = <<>> /\ nusers = 0
  BY <1>a, <1>1 DEF Lookups!GoneBy
<1>3. Len(seen) = 0 /\ DOMAIN seen = {}
  BY <1>2, EmptySeq
<1>4. Lookups!Hits(table) \subseteq Lookups!Slots
  BY DEF Lookups!Hits
<1>5. slot \in 1..(TableSize + 1) /\ always \subseteq ever /\ ever \subseteq Lookups!Slots
  BY <1>a DEF Lookups!TypeOK
<1>6. Lookups!Hits(table)' = Lookups!Hits(table)
  BY <1>1 DEF Lookups!Hits
<1>7. CASE Lookups!Rewind /\ shown' \in {shown, Lookups!Shown(since)}
  <2>1. slot' = 1 /\ pass' = 2 /\ always' = Lookups!Hits(table) /\ ever' = Lookups!Hits(table)
    BY <1>7 DEF Lookups!Rewind
  <2>2. Lookups!TypeOK'
    BY <1>0, <1>a, <1>1, <1>2, <1>3, <1>4, <2>1 DEF Lookups!TypeOK
  <2>3. Lookups!Entries'
    BY <1>a, <1>1, <1>6, <2>1 DEF Lookups!Entries
  <2>4. Lookups!GoneBy'
    <3>1. \A k \in always' : ~(k < slot')
      BY <1>4, <2>1 DEF Lookups!Slots
    <3> QED
      BY <1>1, <1>3, <2>1, <3>1 DEF Lookups!GoneBy
  <2>5. Lookups!Ending'
    BY <1>1, <1>2 DEF Lookups!Ending
  <2>6. Lookups!Time'
    <3>1. Lookups!Shown(since)' = Lookups!Shown(since)
      BY <1>1 DEF Lookups!Shown, Lookups!Parts, Lookups!Days, Lookups!Hours, Lookups!Quot, Lookups!Rem
    <3> QED
      BY <1>a, <1>7, <3>1 DEF Lookups!Time
  <2> QED
    BY <2>2, <2>3, <2>4, <2>5, <2>6 DEF Lookups!IInv
<1>8. CASE slot <= TableSize /\ slot' = slot + 1 /\ UNCHANGED <<pass, always, ever, shown>>
  <2>1. Lookups!TypeOK'
    BY <1>0, <1>a, <1>1, <1>5, <1>8 DEF Lookups!TypeOK
  <2>2. Lookups!Entries'
    BY <1>a, <1>1, <1>6, <1>8 DEF Lookups!Entries
  <2>3. Lookups!GoneBy'
    BY <1>a, <1>1, <1>3, <1>8 DEF Lookups!GoneBy
  <2>4. Lookups!Ending' /\ Lookups!Time'
    <3>1. Lookups!Shown(since)' = Lookups!Shown(since)
      BY <1>1 DEF Lookups!Shown, Lookups!Parts, Lookups!Days, Lookups!Hours, Lookups!Quot, Lookups!Rem
    <3> QED
      BY <1>a, <1>1, <1>2, <1>8, <3>1 DEF Lookups!Ending, Lookups!Time
  <2> QED
    BY <2>1, <2>2, <2>3, <2>4 DEF Lookups!IInv
<1>9. slot > TableSize \/ slot <= TableSize
  BY <1>0, <1>5
<1> QED
  BY <1>7, <1>8, <1>9 DEF Lookups!LookForBoot

\* The pass goes by one entry.
LEMMA LookupsLook == Lookups!IInv /\ Lookups!Look => Lookups!IInv'
<1> SUFFICES ASSUME Lookups!IInv, Lookups!Look PROVE Lookups!IInv'
  OBVIOUS
<1>0. TableSize \in Nat \ {0}
  BY LookupsAssumed DEF Lookups!LookupsAssumption
<1>a. Lookups!TypeOK /\ Lookups!Entries /\ Lookups!GoneBy /\ Lookups!Ending /\ Lookups!Time
  BY DEF Lookups!IInv
<1>1. /\ pass = 2 /\ result = "none" /\ slot <= TableSize /\ slot' = slot + 1
      /\ UNCHANGED <<lookup, table, pass, since, always, ever, changes, shown>>
  BY DEF Lookups!Look
<1>2. slot \in Lookups!Slots /\ seen \in Seq(Lookups!Slots) /\ nusers \in Nat
  BY <1>0, <1>a, <1>1 DEF Lookups!TypeOK, Lookups!Entries, Lookups!Slots
<1>3. Lookups!Hits(table)' = Lookups!Hits(table) /\ Lookups!Shown(since)' = Lookups!Shown(since)
  BY <1>1 DEF Lookups!Hits, Lookups!Shown, Lookups!Parts, Lookups!Days, Lookups!Hours, Lookups!Quot, Lookups!Rem
<1>4. Lookups!Time'
  BY <1>a, <1>1, <1>3 DEF Lookups!Time
<1>5. always \subseteq ever /\ ever \subseteq Lookups!Slots /\ always \subseteq Lookups!Hits(table)
      /\ Lookups!Hits(table) \subseteq ever
  BY <1>a DEF Lookups!TypeOK, Lookups!Entries
<1>6. CASE table[slot] \in {"USER_PROCESS", "X_OK"}
  <2>1. /\ seen' = Append(seen, slot)
        /\ nusers' = IF lookup = "uptime" THEN nusers + 1 ELSE nusers
        /\ result' = IF lookup = "which" THEN "success" ELSE "none"
    BY <1>6 DEF Lookups!Look
  <2>2. /\ seen' \in Seq(Lookups!Slots) /\ Len(seen') = Len(seen) + 1 /\ Len(seen) \in Nat
        /\ DOMAIN seen = 1..Len(seen) /\ DOMAIN seen' = 1..(Len(seen) + 1)
        /\ seen'[Len(seen) + 1] = slot
        /\ \A k \in 1..Len(seen) : seen'[k] = seen[k]
    BY <1>2, <2>1, AppendProperties, LenProperties
  <2>3. slot \in ever
    BY <1>2, <1>5, <1>6 DEF Lookups!Hits
  <2>4. Lookups!TypeOK'
    <3>1. lookup = "uptime" => nusers' = Len(seen')
      BY <1>a, <1>1, <2>1, <2>2 DEF Lookups!TypeOK
    <3>2. slot' \in 1..(TableSize + 1)
      BY <1>0, <1>1, <1>2 DEF Lookups!Slots
    <3>3. result' \in {"none", "success", "failure"}
      BY <2>1
    <3> QED
      BY <1>a, <1>1, <3>1, <3>2, <3>3 DEF Lookups!TypeOK
  <2>5. Lookups!Entries'
    <3>1. nusers' \in Nat
      BY <1>2, <2>1
    <3> QED
      BY <1>a, <1>1, <1>3, <2>2, <3>1 DEF Lookups!Entries
  <2>6. Lookups!GoneBy'
    <3>0. \A k \in 1..Len(seen) : seen[k] \in Lookups!Slots
      BY <1>2, ElementOfSeq
    <3>1. \A k \in 1..Len(seen) : seen[k] < slot /\ seen[k] \in ever /\ seen[k] \in Int
      BY <1>a, <2>2, <3>0 DEF Lookups!GoneBy, Lookups!Slots
    <3>2. \A k \in DOMAIN seen' : seen'[k] < slot' /\ seen'[k] \in ever'
      BY <1>1, <1>2, <2>2, <2>3, <3>1 DEF Lookups!Slots
    <3>3. \A j, k \in DOMAIN seen' : j < k => seen'[j] < seen'[k]
      BY <1>a, <1>2, <2>2, <3>1 DEF Lookups!GoneBy, Lookups!Slots
    <3>4. \A k \in always' : k < slot' => k \in Lookups!ToSet(seen)'
      <4>1. \A k \in always : k \in Int /\ (k < slot + 1 => k = slot \/ k < slot)
        BY <1>2, <1>5 DEF Lookups!Slots
      <4>2. \A k \in always : k < slot => \E n \in 1..Len(seen) : k = seen[n]
        BY <1>a, <1>1, <2>2 DEF Lookups!GoneBy, Lookups!ToSet
      <4>3. \A k \in always : k < slot + 1 => \E n \in 1..(Len(seen) + 1) : k = seen'[n]
        BY <2>2, <4>1, <4>2
      <4> QED
        BY <1>1, <2>2, <4>3 DEF Lookups!ToSet
    <3> QED
      BY <1>1, <3>2, <3>3, <3>4 DEF Lookups!GoneBy
  <2>7. Lookups!Ending'
    <3>1. lookup = "which" => Len(seen') = 1
      <4>1. lookup = "which" => seen = <<>>
        BY <1>a, <1>1 DEF Lookups!Ending
      <4> QED
        BY <2>2, <4>1, EmptySeq
    <3> QED
      BY <1>1, <2>1, <3>1 DEF Lookups!Ending
  <2> QED
    BY <1>4, <2>4, <2>5, <2>6, <2>7 DEF Lookups!IInv
<1>7. CASE table[slot] \notin {"USER_PROCESS", "X_OK"}
  <2>1. UNCHANGED <<seen, nusers, result>>
    BY <1>7 DEF Lookups!Look
  <2>2. Lookups!TypeOK'
    <3>1. slot' \in 1..(TableSize + 1)
      BY <1>0, <1>1, <1>2 DEF Lookups!Slots
    <3> QED
      BY <1>a, <1>1, <2>1, <3>1 DEF Lookups!TypeOK
  <2>3. Lookups!Entries'
    BY <1>a, <1>1, <1>3, <2>1 DEF Lookups!Entries
  <2>4. Lookups!GoneBy'
    <3>1. slot \notin always
      BY <1>5, <1>7 DEF Lookups!Hits
    <3>2. \A k \in always : k < slot' => k < slot
      BY <1>1, <1>2, <1>5, <3>1 DEF Lookups!Slots
    <3>3. \A k \in DOMAIN seen : seen[k] \in Int
      <4>1. \A k \in DOMAIN seen : seen[k] \in Lookups!Slots
        BY <1>2, LenProperties, ElementOfSeq
      <4> QED
        BY <4>1 DEF Lookups!Slots
    <3>4. \A k \in DOMAIN seen : seen[k] < slot'
      BY <1>a, <1>1, <1>2, <3>3 DEF Lookups!GoneBy, Lookups!Slots
    <3>5. Lookups!ToSet(seen)' = Lookups!ToSet(seen)
      BY <2>1 DEF Lookups!ToSet
    <3> QED
      BY <1>a, <1>1, <2>1, <3>2, <3>4, <3>5 DEF Lookups!GoneBy
  <2>5. Lookups!Ending'
    BY <1>a, <1>1, <2>1 DEF Lookups!Ending
  <2> QED
    BY <1>4, <2>2, <2>3, <2>4, <2>5 DEF Lookups!IInv
<1> QED
  BY <1>6, <1>7

LEMMA LookupsEnd == Lookups!IInv /\ Lookups!End => Lookups!IInv'
<1> SUFFICES ASSUME Lookups!IInv, Lookups!End PROVE Lookups!IInv'
  OBVIOUS
<1>a. Lookups!TypeOK /\ Lookups!Entries /\ Lookups!GoneBy /\ Lookups!Ending /\ Lookups!Time
  BY DEF Lookups!IInv
<1>1. /\ pass = 2 /\ result = "none" /\ slot > TableSize
      /\ UNCHANGED <<lookup, table, slot, pass, since, seen, nusers, always, ever, changes, shown>>
  BY DEF Lookups!End
<1>2. result' \in {"success", "failure"} /\ (lookup = "which" => result' = "failure")
  BY <1>a DEF Lookups!End, Lookups!TypeOK
<1>3. /\ Lookups!Hits(table)' = Lookups!Hits(table) /\ Lookups!Shown(since)' = Lookups!Shown(since)
      /\ Lookups!ToSet(seen)' = Lookups!ToSet(seen)
  BY <1>1 DEF Lookups!Hits, Lookups!Shown, Lookups!Parts, Lookups!Days, Lookups!Hours, Lookups!Quot, Lookups!Rem,
     Lookups!ToSet
<1>4. Lookups!TypeOK'
  BY <1>a, <1>1, <1>2 DEF Lookups!TypeOK
<1>5. Lookups!Entries' /\ Lookups!Time'
  BY <1>a, <1>1, <1>3 DEF Lookups!Entries, Lookups!Time
<1>6. Lookups!GoneBy'
  BY <1>a, <1>1, <1>3 DEF Lookups!GoneBy
<1>7. Lookups!Ending'
  BY <1>a, <1>1, <1>2 DEF Lookups!Ending
<1> QED
  BY <1>4, <1>5, <1>6, <1>7 DEF Lookups!IInv

\* What others change can take somebody from those who are there all the time,
\* and adds only to those who ever were.
LEMMA LookupsChange ==
  ASSUME Lookups!IInv, NEW k \in Lookups!Slots, Lookups!Change(k)
  PROVE  Lookups!IInv'
<1>a. Lookups!TypeOK /\ Lookups!Entries /\ Lookups!GoneBy /\ Lookups!Ending /\ Lookups!Time
  BY DEF Lookups!IInv
<1>1. /\ result = "none"
      /\ always' = always \cap Lookups!Hits(table') /\ ever' = ever \cup Lookups!Hits(table')
      /\ UNCHANGED <<lookup, slot, pass, since, seen, nusers, shown, result>>
  BY DEF Lookups!Change
<1>2. table' \in [Lookups!Slots -> Lookups!LoginTypes \cup Lookups!DirTypes]
  BY <1>a DEF Lookups!Change, Lookups!Entries, Lookups!LoginTypes, Lookups!DirTypes
<1>3. Lookups!Hits(table)' = Lookups!Hits(table') /\ Lookups!Hits(table') \subseteq Lookups!Slots
  BY DEF Lookups!Hits
<1>4. Lookups!TypeOK'
  BY <1>a, <1>1, <1>3 DEF Lookups!TypeOK
<1>5. Lookups!Entries'
  BY <1>a, <1>1, <1>2, <1>3 DEF Lookups!Entries
<1>6. Lookups!GoneBy'
  <2>1. Lookups!ToSet(seen)' = Lookups!ToSet(seen)
    BY <1>1 DEF Lookups!ToSet
  <2>2. always' \subseteq always /\ ever \subseteq ever'
    BY <1>1
  <2> QED
    BY <1>a, <1>1, <2>1, <2>2 DEF Lookups!GoneBy
<1>7. Lookups!Ending' /\ Lookups!Time'
  <2>1. Lookups!Shown(since)' = Lookups!Shown(since)
    BY <1>1 DEF Lookups!Shown, Lookups!Parts, Lookups!Days, Lookups!Hours, Lookups!Quot, Lookups!Rem
  <2> QED
    BY <1>a, <1>1, <2>1 DEF Lookups!Ending, Lookups!Time
<1> QED
  BY <1>4, <1>5, <1>6, <1>7 DEF Lookups!IInv

LEMMA LookupsUnchanged == Lookups!IInv /\ UNCHANGED Lookups!vars => Lookups!IInv'
<1> SUFFICES ASSUME Lookups!IInv, UNCHANGED Lookups!vars PROVE Lookups!IInv'
  OBVIOUS
<1>1. /\ lookup' = lookup /\ table' = table /\ slot' = slot /\ pass' = pass /\ since' = since /\ seen' = seen
      /\ nusers' = nusers /\ always' = always /\ ever' = ever /\ shown' = shown /\ result' = result
  BY DEF Lookups!vars
<1> QED
  BY <1>1 DEF Lookups!IInv, Lookups!TypeOK, Lookups!Entries, Lookups!GoneBy, Lookups!Ending, Lookups!Time,
     Lookups!Hits, Lookups!ToSet, Lookups!Shown, Lookups!Parts, Lookups!Days, Lookups!Hours, Lookups!Quot, Lookups!Rem

LEMMA LookupsNext == Lookups!IInv /\ Lookups!Next => Lookups!IInv'
BY LookupsLookForBoot, LookupsLook, LookupsEnd, LookupsChange, LookupsUnchanged DEF Lookups!Next, Lookups!Done

\* Whoever is there all the time has been seen where the pass is over, and the
\* first one that which takes is not behind one of these.
LEMMA LookupsFirstFound == Lookups!IInv => Lookups!FirstFound
<1> SUFFICES ASSUME Lookups!IInv, lookup = "which"
             PROVE  /\ result = "success" => /\ Lookups!ToSet(seen) \subseteq ever
                                             /\ \A k \in always : Lookups!Last(seen) <= k
                    /\ result = "failure" => always = {}
  BY DEF Lookups!FirstFound
<1>a. Lookups!TypeOK /\ Lookups!Entries /\ Lookups!GoneBy /\ Lookups!Ending
  BY DEF Lookups!IInv
<1>1. /\ TableSize \in Nat /\ slot \in Int /\ always \subseteq Lookups!Slots /\ seen \in Seq(Lookups!Slots)
      /\ DOMAIN seen = 1..Len(seen)
  BY <1>a, LookupsAssumed, LenProperties DEF Lookups!LookupsAssumption, Lookups!TypeOK, Lookups!Entries
<1>2. ASSUME result = "success"
      PROVE  Lookups!ToSet(seen) \subseteq ever /\ \A k \in always : Lookups!Last(seen) <= k
  <2>1. Len(seen) = 1 /\ pass = 2
    BY <1>a, <1>2 DEF Lookups!Ending
  <2>2. DOMAIN seen = {1} /\ Lookups!Last(seen) = seen[1]
    BY <1>1, <2>1 DEF Lookups!Last
  <2>3. seen[1] < slot /\ seen[1] \in ever /\ seen[1] \in Lookups!Slots
    BY <1>a, <1>1, <2>1, <2>2, ElementOfSeq DEF Lookups!GoneBy
  <2>4. Lookups!ToSet(seen) = {seen[1]}
    BY <2>2 DEF Lookups!ToSet
  <2>5. ASSUME NEW k \in always, ~(seen[1] <= k)
        PROVE  FALSE
    <3>1. k < slot /\ k # seen[1]
      BY <1>1, <2>3, <2>5 DEF Lookups!Slots
    <3> QED
      BY <1>a, <2>1, <2>4, <3>1 DEF Lookups!GoneBy
  <2> QED
    BY <2>2, <2>3, <2>4, <2>5
<1>3. ASSUME result = "failure", NEW k \in always
      PROVE  FALSE
  <2>1. seen = <<>> /\ pass = 2 /\ slot > TableSize
    BY <1>a, <1>3 DEF Lookups!Ending
  <2>2. k < slot
    BY <1>1, <2>1 DEF Lookups!Slots
  <2>3. k \in Lookups!ToSet(seen)
    BY <1>a, <2>1, <2>2 DEF Lookups!GoneBy
  <2> QED
    BY <2>1, <2>3 DEF Lookups!ToSet
<1> QED
  BY <1>2, <1>3

LEMMA LookupsUsersMet == Lookups!IInv => Lookups!UsersMet
<1> SUFFICES ASSUME Lookups!IInv, lookup # "which", result # "none"
             PROVE  Lookups!IsInjective(seen) /\ always \subseteq Lookups!ToSet(seen) /\ Lookups!ToSet(seen) \subseteq ever
  BY DEF Lookups!UsersMet
<1>a. Lookups!TypeOK /\ Lookups!Entries /\ Lookups!GoneBy /\ Lookups!Ending
  BY DEF Lookups!IInv
<1>1. TableSize \in Nat /\ slot \in Int /\ always \subseteq Lookups!Slots /\ seen \in Seq(Lookups!Slots)
  BY <1>a, LookupsAssumed DEF Lookups!LookupsAssumption, Lookups!TypeOK, Lookups!Entries
<1>2. pass = 2 /\ slot > TableSize
  BY <1>a DEF Lookups!Ending
<1>3. always \subseteq Lookups!ToSet(seen)
  <2>1. \A k \in always : k < slot
    BY <1>1, <1>2 DEF Lookups!Slots
  <2> QED
    BY <1>a, <1>2, <2>1 DEF Lookups!GoneBy
<1>4. Lookups!ToSet(seen) \subseteq ever
  BY <1>a DEF Lookups!GoneBy, Lookups!ToSet
<1>5. Lookups!IsInjective(seen)
  <2>1. DOMAIN seen \subseteq Int /\ \A k \in DOMAIN seen : seen[k] \in Int
    BY <1>1, LenProperties, ElementOfSeq DEF Lookups!Slots
  <2>2. ASSUME NEW j \in DOMAIN seen, NEW k \in DOMAIN seen, seen[j] = seen[k]
        PROVE  j = k
    <3>1. ~(j < k) /\ ~(k < j)
      BY <1>a, <2>1, <2>2 DEF Lookups!GoneBy
    <3> QED
      BY <2>1, <3>1
  <2> QED
    BY <2>2 DEF Lookups!IsInjective
<1> QED
  BY <1>3, <1>4, <1>5

\* What division by a positive number leaves.
LEMMA Remainders ==
  ASSUME NEW a \in Nat
  PROVE  /\ Lookups!Quot(a, 60) \in Nat /\ Lookups!Quot(a, 24) \in Nat
         /\ Lookups!Rem(a, 60) = a - 60 * Lookups!Quot(a, 60) /\ Lookups!Rem(a, 60) \in 0..59
         /\ Lookups!Rem(a, 24) = a - 24 * Lookups!Quot(a, 24) /\ Lookups!Rem(a, 24) \in 0..23
<1>1. (a \div 60) \in Nat /\ a - 60 * (a \div 60) \in 0..59
  OBVIOUS
<1>2. (a \div 24) \in Nat /\ a - 24 * (a \div 24) \in 0..23
  OBVIOUS
<1>3. Lookups!Quot(a, 60) = a \div 60 /\ Lookups!Quot(a, 24) = a \div 24
  BY DEF Lookups!Quot
<1> QED
  BY <1>1, <1>2, <1>3 DEF Lookups!Rem

LEMMA LookupsTimeAddsUp == Lookups!IInv => Lookups!TimeAddsUp
<1> SUFFICES ASSUME Lookups!IInv, shown # <<>>, since >= 0
             PROVE  /\ ((shown[1] * 24 + shown[2]) * 60 + shown[3]) * 60 + shown[4] = since
                    /\ shown[2] < 24 /\ shown[3] < 60 /\ shown[4] < 60
  BY DEF Lookups!TimeAddsUp
<1>1. shown = Lookups!Shown(since) /\ since \in Nat
  BY DEF Lookups!IInv, Lookups!Time, Lookups!Entries
<1>2. PICK m \in Nat, r4 \in 0..59 :
        m = Lookups!Quot(since, 60) /\ r4 = Lookups!Rem(since, 60) /\ r4 = since - 60 * m
  BY <1>1, Remainders
<1>3. PICK h \in Nat, r3 \in 0..59 :
        h = Lookups!Quot(m, 60) /\ r3 = Lookups!Rem(m, 60) /\ r3 = m - 60 * h
  BY Remainders
<1>4. PICK d \in Nat, r2 \in 0..23 :
        d = Lookups!Quot(h, 24) /\ r2 = Lookups!Rem(h, 24) /\ r2 = h - 24 * d
  BY Remainders
<1>5. Lookups!Parts(since) = <<d, r2, r3, r4>>
  BY <1>2, <1>3, <1>4 DEF Lookups!Parts, Lookups!Days, Lookups!Hours
<1>6. /\ shown[1] = d /\ shown[2] = r2 /\ shown[3] = r3 /\ shown[4] = r4
  <2>1. \A n \in Nat : (IF n > 0 THEN n ELSE 0) = n
    OBVIOUS
  <2>2. r2 \in Nat /\ r3 \in Nat /\ r4 \in Nat
    OBVIOUS
  <2>3. /\ shown[1] = IF d > 0 THEN d ELSE 0
        /\ shown[2] = IF r2 > 0 THEN r2 ELSE 0
        /\ shown[3] = IF r3 > 0 THEN r3 ELSE 0
        /\ shown[4] = IF r4 > 0 THEN r4 ELSE 0
    BY <1>1, <1>5 DEF Lookups!Shown
  <2> QED
    BY <2>1, <2>2, <2>3, Zenon
<1>7. ((d * 24 + r2) * 60 + r3) * 60 + r4 = since
  <2>1. d * 24 + r2 = h
    <3>1. r2 = h - 24 * d
      BY <1>4
    <3> QED
      BY <3>1
  <2>2. h * 60 + r3 = m
    <3>1. r3 = m - 60 * h
      BY <1>3
    <3> QED
      BY <3>1
  <2>3. m * 60 + r4 = since
    <3>1. r4 = since - 60 * m
      BY <1>2
    <3> QED
      BY <1>1, <3>1
  <2> QED
    BY <2>1, <2>2, <2>3
<1>8. r2 < 24 /\ r3 < 60 /\ r4 < 60
  OBVIOUS
<1> QED
  BY <1>6, <1>7, <1>8

-----------------------------------------------------------------------------
(* rest and up *)

LEMMA RequestInit == Request!Init => Request!IInv
<1> SUFFICES ASSUME Request!Init PROVE Request!IInv
  OBVIOUS
<1>1. /\ client \in {"rest", "up"} /\ method \in Request!Methods
      /\ opts = 0 /\ library = "none" /\ curl = "none" /\ headers = -1 /\ input = "none"
      /\ sent = <<>> /\ step = "start" /\ rc = "none"
  BY DEF Request!Init, Request!Methods
<1>2. 0 \in 0..MaxHeaders
  BY RequestAssumed DEF Request!RequestAssumption
<1>3. Request!Asked
  BY <1>1, <1>2 DEF Request!Asked, Request!Steps
<1> QED
  BY <1>1, <1>3 DEF Request!IInv, Request!Before, Request!During, Request!After, Request!Sent, Request!AllGivenBack

LEMMA RequestUnchanged == Request!IInv /\ UNCHANGED Request!vars => Request!IInv'
<1> SUFFICES ASSUME Request!IInv, UNCHANGED Request!vars PROVE Request!IInv'
  OBVIOUS
<1>1. /\ client' = client /\ argc' = argc /\ method' = method /\ scheme' = scheme /\ opts' = opts
      /\ library' = library /\ curl' = curl /\ headers' = headers /\ input' = input /\ sent' = sent
      /\ step' = step /\ rc' = rc
  BY DEF Request!vars
<1>2. /\ Request!Usage' = Request!Usage /\ Request!NewHeaders' = Request!NewHeaders
      /\ Request!OpenOf' = Request!OpenOf /\ Request!Verb' = Request!Verb /\ Request!Body' = Request!Body
      /\ \A ok : Request!Status(ok)' = Request!Status(ok)
  BY <1>1 DEF Request!Usage, Request!NewHeaders, Request!OpenOf, Request!Verb, Request!Body, Request!Status
<1>3. Request!Asked' /\ Request!AllGivenBack' /\ Request!After'
  BY <1>1 DEF Request!IInv, Request!Asked, Request!AllGivenBack, Request!After
<1>4. Request!Before' /\ Request!During'
  BY <1>1, <1>2 DEF Request!IInv, Request!Before, Request!During
<1>5. Request!Sent'
  BY <1>1, <1>2 DEF Request!IInv, Request!Sent
<1> QED
  BY <1>3, <1>4, <1>5 DEF Request!IInv

LEMMA RequestNext == Request!IInv /\ Request!Next => Request!IInv'
<1> SUFFICES ASSUME Request!IInv, Request!Next PROVE Request!IInv'
  OBVIOUS
<1>0. MaxHeaders \in Nat
  BY RequestAssumed DEF Request!RequestAssumption
<1>a. Request!Asked /\ Request!Before /\ Request!During /\ Request!After /\ Request!Sent /\ Request!AllGivenBack
  BY DEF Request!IInv
<1>b. client' = client /\ argc' = argc /\ method' = method /\ scheme' = scheme
  BY DEF Request!Next, Request!Start, Request!Header, Request!LeaveEarly, Request!WrongUsage, Request!OpenInput,
     Request!EasyInit, Request!SetOptions, Request!Perform, Request!EasyCleanup, Request!FreeHeaders,
     Request!GlobalCleanup, Request!CloseInput, Request!Done, Request!Go, Request!Exit, Request!given, Request!vars
<1>c. /\ Request!Usage' = Request!Usage /\ Request!NewHeaders' = Request!NewHeaders
      /\ Request!OpenOf' = Request!OpenOf /\ Request!Verb' = Request!Verb /\ Request!Body' = Request!Body
      /\ \A ok : Request!Status(ok)' = Request!Status(ok)
  BY <1>b DEF Request!Usage, Request!NewHeaders, Request!OpenOf, Request!Verb, Request!Body, Request!Status
<1> USE <1>0, <1>a, <1>b, <1>c
<1> USE DEF Request!Go, Request!Exit, Request!GiveUp
<1>1. CASE Request!Start
  <2> USE <1>1 DEF Request!Start
  <2>1. Request!Asked'
    BY DEF Request!Asked, Request!Before, Request!During, Request!After, Request!Steps
  <2>2. Request!Before'
    BY DEF Request!Asked, Request!Before, Request!During, Request!After, Request!List
  <2>3. Request!During'
    BY DEF Request!Asked, Request!Before, Request!During, Request!After
  <2>4. Request!After'
    BY DEF Request!Asked, Request!Before, Request!During, Request!After
  <2>5. Request!Sent'
    BY DEF Request!Asked, Request!Before, Request!During, Request!After, Request!Sent, Request!AllGivenBack
  <2>6. Request!AllGivenBack'
    BY DEF Request!Asked, Request!Before, Request!During, Request!After, Request!Sent, Request!AllGivenBack
  <2> QED
    BY <2>1, <2>2, <2>3, <2>4, <2>5, <2>6 DEF Request!IInv
<1>2. CASE Request!Header
  <2> USE <1>2 DEF Request!Header
  <2>1. Request!Asked'
    BY DEF Request!Asked, Request!Before, Request!During, Request!After, Request!Steps
  <2>2. Request!Before'
    BY DEF Request!Asked, Request!Before, Request!During, Request!After, Request!List, Request!Added
  <2>3. Request!During'
    BY DEF Request!Asked, Request!Before, Request!During, Request!After, Request!List, Request!Added
  <2>4. Request!After'
    BY DEF Request!Asked, Request!Before, Request!During, Request!After
  <2>5. Request!Sent'
    BY DEF Request!Asked, Request!Before, Request!During, Request!After, Request!Sent, Request!AllGivenBack
  <2>6. Request!AllGivenBack'
    BY DEF Request!Asked, Request!Before, Request!During, Request!After, Request!Sent, Request!AllGivenBack
  <2> QED
    BY <2>1, <2>2, <2>3, <2>4, <2>5, <2>6 DEF Request!IInv
<1>3. CASE Request!LeaveEarly
  <2> USE <1>3 DEF Request!LeaveEarly
  <2>1. Request!Asked'
    BY DEF Request!Asked, Request!Before, Request!During, Request!After, Request!Steps
  <2>2. Request!Before'
    BY DEF Request!Asked, Request!Before, Request!During, Request!After
  <2>3. Request!During'
    BY DEF Request!Asked, Request!Before, Request!During, Request!After
  <2>4. Request!After'
    BY DEF Request!Asked, Request!Before, Request!During, Request!After
  <2>5. Request!Sent'
    BY DEF Request!Asked, Request!Before, Request!During, Request!After, Request!Sent, Request!AllGivenBack
  <2>6. Request!AllGivenBack'
    BY DEF Request!Asked, Request!Before, Request!During, Request!After, Request!Sent, Request!AllGivenBack, Request!OpenOf, Request!List
  <2> QED
    BY <2>1, <2>2, <2>3, <2>4, <2>5, <2>6 DEF Request!IInv
<1>4. CASE Request!WrongUsage
  <2> USE <1>4 DEF Request!WrongUsage
  <2>1. Request!Asked'
    BY DEF Request!Asked, Request!Before, Request!During, Request!After, Request!Steps
  <2>2. Request!Before'
    BY DEF Request!Asked, Request!Before, Request!During, Request!After
  <2>3. Request!During'
    BY DEF Request!Asked, Request!Before, Request!During, Request!After
  <2>4. Request!After'
    BY DEF Request!Asked, Request!Before, Request!During, Request!After
  <2>5. Request!Sent'
    BY DEF Request!Asked, Request!Before, Request!During, Request!After, Request!Sent, Request!AllGivenBack
  <2>6. Request!AllGivenBack'
    BY DEF Request!Asked, Request!Before, Request!During, Request!After, Request!Sent, Request!AllGivenBack, Request!OpenOf, Request!List
  <2> QED
    BY <2>1, <2>2, <2>3, <2>4, <2>5, <2>6 DEF Request!IInv
<1>5. CASE Request!OpenInput
  <2> USE <1>5 DEF Request!OpenInput
  <2>1. Request!Asked'
    BY DEF Request!Asked, Request!Before, Request!During, Request!After, Request!Steps
  <2>2. Request!Before'
    BY DEF Request!Asked, Request!Before, Request!During, Request!After
  <2>3. Request!During'
    BY DEF Request!Asked, Request!Before, Request!During, Request!After, Request!OpenOf, Request!Usage
  <2>4. Request!After'
    BY DEF Request!Asked, Request!Before, Request!During, Request!After
  <2>5. Request!Sent'
    BY DEF Request!Asked, Request!Before, Request!During, Request!After, Request!Sent, Request!AllGivenBack
  <2>6. Request!AllGivenBack'
    BY DEF Request!Asked, Request!Before, Request!During, Request!After, Request!Sent, Request!AllGivenBack, Request!OpenOf, Request!List
  <2> QED
    BY <2>1, <2>2, <2>3, <2>4, <2>5, <2>6 DEF Request!IInv
<1>6. CASE Request!EasyInit
  <2> USE <1>6 DEF Request!EasyInit
  <2>1. Request!Asked'
    BY DEF Request!Asked, Request!Before, Request!During, Request!After, Request!Steps, Request!OpenOf
  <2>2. Request!Before'
    BY DEF Request!Asked, Request!Before, Request!During, Request!After, Request!OpenOf
  <2>3. Request!During'
    BY DEF Request!Asked, Request!Before, Request!During, Request!After, Request!OpenOf
  <2>4. Request!After'
    BY DEF Request!Asked, Request!Before, Request!During, Request!After, Request!OpenOf
  <2>5. Request!Sent'
    BY DEF Request!Asked, Request!Before, Request!During, Request!After, Request!Sent, Request!AllGivenBack, Request!OpenOf
  <2>6. Request!AllGivenBack'
    BY DEF Request!Asked, Request!Before, Request!During, Request!After, Request!Sent, Request!AllGivenBack, Request!OpenOf, Request!List
  <2> QED
    BY <2>1, <2>2, <2>3, <2>4, <2>5, <2>6 DEF Request!IInv
<1>7. CASE Request!SetOptions
  <2> USE <1>7 DEF Request!SetOptions
  <2>1. Request!Asked'
    BY DEF Request!Asked, Request!Before, Request!During, Request!After, Request!Steps
  <2>2. Request!Before'
    BY DEF Request!Asked, Request!Before, Request!During, Request!After, Request!List, Request!Added, Request!NewHeaders
  <2>3. Request!During'
    BY DEF Request!Asked, Request!Before, Request!During, Request!After, Request!List, Request!Added, Request!NewHeaders
  <2>4. Request!After'
    BY DEF Request!Asked, Request!Before, Request!During, Request!After
  <2>5. Request!Sent'
    BY DEF Request!Asked, Request!Before, Request!During, Request!After, Request!Sent, Request!AllGivenBack
  <2>6. Request!AllGivenBack'
    BY DEF Request!Asked, Request!Before, Request!During, Request!After, Request!Sent, Request!AllGivenBack
  <2> QED
    BY <2>1, <2>2, <2>3, <2>4, <2>5, <2>6 DEF Request!IInv
<1>8. CASE Request!Perform
  <2> USE <1>8 DEF Request!Perform
  <2>1. Request!Asked'
    BY DEF Request!Asked, Request!Before, Request!During, Request!After, Request!Steps, Request!Status
  <2>2. Request!Before'
    BY DEF Request!Asked, Request!Before, Request!During, Request!After
  <2>3. Request!During'
    BY DEF Request!Asked, Request!Before, Request!During, Request!After
  <2>4. Request!After'
    BY DEF Request!Asked, Request!Before, Request!During, Request!After
  <2>5. Request!Sent'
    BY DEF Request!Asked, Request!Before, Request!During, Request!After, Request!Sent, Request!AllGivenBack
  <2>6. Request!AllGivenBack'
    BY DEF Request!Asked, Request!Before, Request!During, Request!After, Request!Sent, Request!AllGivenBack
  <2> QED
    BY <2>1, <2>2, <2>3, <2>4, <2>5, <2>6 DEF Request!IInv
<1>9. CASE Request!EasyCleanup
  <2> USE <1>9 DEF Request!EasyCleanup
  <2>1. Request!Asked'
    BY DEF Request!Asked, Request!Before, Request!During, Request!After, Request!Steps
  <2>2. Request!Before'
    BY DEF Request!Asked, Request!Before, Request!During, Request!After
  <2>3. Request!During'
    BY DEF Request!Asked, Request!Before, Request!During, Request!After
  <2>4. Request!After'
    BY DEF Request!Asked, Request!Before, Request!During, Request!After
  <2>5. Request!Sent'
    BY DEF Request!Asked, Request!Before, Request!During, Request!After, Request!Sent, Request!AllGivenBack
  <2>6. Request!AllGivenBack'
    BY DEF Request!Asked, Request!Before, Request!During, Request!After, Request!Sent, Request!AllGivenBack
  <2> QED
    BY <2>1, <2>2, <2>3, <2>4, <2>5, <2>6 DEF Request!IInv
<1>10. CASE Request!FreeHeaders
  <2> USE <1>10 DEF Request!FreeHeaders
  <2>1. Request!Asked'
    BY DEF Request!Asked, Request!Before, Request!During, Request!After, Request!Steps
  <2>2. Request!Before'
    BY DEF Request!Asked, Request!Before, Request!During, Request!After
  <2>3. Request!During'
    BY DEF Request!Asked, Request!Before, Request!During, Request!After
  <2>4. Request!After'
    BY DEF Request!Asked, Request!Before, Request!During, Request!After
  <2>5. Request!Sent'
    BY DEF Request!Asked, Request!Before, Request!During, Request!After, Request!Sent, Request!AllGivenBack
  <2>6. Request!AllGivenBack'
    BY DEF Request!Asked, Request!Before, Request!During, Request!After, Request!Sent, Request!AllGivenBack
  <2> QED
    BY <2>1, <2>2, <2>3, <2>4, <2>5, <2>6 DEF Request!IInv
<1>11. CASE Request!GlobalCleanup
  <2> USE <1>11 DEF Request!GlobalCleanup
  <2>1. Request!Asked'
    BY DEF Request!Asked, Request!Before, Request!During, Request!After, Request!Steps
  <2>2. Request!Before'
    BY DEF Request!Asked, Request!Before, Request!During, Request!After
  <2>3. Request!During'
    BY DEF Request!Asked, Request!Before, Request!During, Request!After
  <2>4. Request!After'
    BY DEF Request!Asked, Request!Before, Request!During, Request!After, Request!OpenOf
  <2>5. Request!Sent'
    BY DEF Request!Asked, Request!Before, Request!During, Request!After, Request!Sent, Request!AllGivenBack
  <2>6. Request!AllGivenBack'
    BY DEF Request!Asked, Request!Before, Request!During, Request!After, Request!Sent, Request!AllGivenBack, Request!OpenOf
  <2> QED
    BY <2>1, <2>2, <2>3, <2>4, <2>5, <2>6 DEF Request!IInv
<1>12. CASE Request!CloseInput
  <2> USE <1>12 DEF Request!CloseInput
  <2>1. Request!Asked'
    BY DEF Request!Asked, Request!Before, Request!During, Request!After, Request!Steps
  <2>2. Request!Before'
    BY DEF Request!Asked, Request!Before, Request!During, Request!After
  <2>3. Request!During'
    BY DEF Request!Asked, Request!Before, Request!During, Request!After
  <2>4. Request!After'
    BY DEF Request!Asked, Request!Before, Request!During, Request!After
  <2>5. Request!Sent'
    BY DEF Request!Asked, Request!Before, Request!During, Request!After, Request!Sent, Request!AllGivenBack
  <2>6. Request!AllGivenBack'
    BY DEF Request!Asked, Request!Before, Request!During, Request!After, Request!Sent, Request!AllGivenBack, Request!OpenOf
  <2> QED
    BY <2>1, <2>2, <2>3, <2>4, <2>5, <2>6 DEF Request!IInv
<1>13. CASE Request!Done
  BY <1>13, RequestUnchanged DEF Request!Done
<1> QED
  BY <1>1, <1>2, <1>3, <1>4, <1>5, <1>6, <1>7, <1>8, <1>9, <1>10, <1>11, <1>12, <1>13 DEF Request!Next

\* What was sent is what was asked for, and the status that of its answer.
LEMMA RequestKeepsItsWord ==
  Request!IInv => Request!AllGivenBack /\ Request!StatusTells /\ Request!RequestAsAsked
<1> SUFFICES ASSUME Request!IInv
             PROVE  Request!AllGivenBack /\ Request!StatusTells /\ Request!RequestAsAsked
  OBVIOUS
<1>1. Request!AllGivenBack /\ Request!Asked /\ Request!Sent
  BY DEF Request!IInv
<1>2. ASSUME sent # <<>>
      PROVE  /\ ~Request!Usage
             /\ sent[1].ok \in BOOLEAN /\ rc = Request!Status(sent[1].ok)
             /\ sent[1].verb = Request!Verb /\ sent[1].body = Request!Body
  BY <1>1, <1>2 DEF Request!Sent
<1>3. Request!StatusTells
  BY <1>1, <1>2 DEF Request!StatusTells, Request!Status, Request!Asked
<1>4. Request!RequestAsAsked
  <2>1. ASSUME client = "rest"
        PROVE  /\ Request!Verb = IF method = "PATCH" THEN "GET" ELSE method
               /\ Request!Body = (method \in {"PUT", "POST"})
    BY <1>1, <2>1 DEF Request!Verb, Request!Body, Request!Uploads, Request!Asked, Request!Methods
  <2> QED
    BY <1>2, <2>1 DEF Request!RequestAsAsked
<1> QED
  BY <1>1, <1>3, <1>4

\* From the handle's first option to its end the library is there, the list of
\* headers has all that were added, and the input of rest is open.
LEMMA RequestHeld == Request!IInv => Request!TypeOK /\ Request!NothingGoneTooSoon
<1> SUFFICES ASSUME Request!IInv PROVE Request!TypeOK /\ Request!NothingGoneTooSoon
  OBVIOUS
<1>0. MaxHeaders \in Nat
  BY RequestAssumed DEF Request!RequestAssumption
<1>1. Request!Asked /\ Request!Before /\ Request!During /\ Request!After /\ Request!Sent /\ Request!AllGivenBack
  BY DEF Request!IInv
<1>2. Request!NewHeaders \in 0..6 /\ opts \in 0..MaxHeaders /\ opts + Request!NewHeaders \in 0..MaxHeaders + 6
  <2>1. Request!NewHeaders \in 0..6
    BY DEF Request!NewHeaders
  <2>2. opts \in 0..MaxHeaders
    BY <1>1 DEF Request!Asked
  <2> QED
    BY <1>0, <2>1, <2>2
<1>3. headers = -1 \/ headers = Request!List(opts) \/ headers = Request!List(opts + Request!NewHeaders)
  BY <1>1 DEF Request!Asked, Request!Steps, Request!Before, Request!During, Request!After, Request!AllGivenBack
<1>4. headers \in -1..(MaxHeaders + 6) /\ headers # 0
  BY <1>0, <1>2, <1>3 DEF Request!List
<1>5. curl \in {"none", "easy", "set", "cleaned"}
  BY <1>1 DEF Request!Asked, Request!Steps, Request!Before, Request!During, Request!After, Request!AllGivenBack
<1>6. Len(sent) <= 1
  <2>1. CASE sent = <<>>
    BY <2>1
  <2>2. CASE sent # <<>>
    <3>1. \E x : sent = <<x>>
      BY <1>1, <2>2 DEF Request!Sent
    <3> QED
      BY <3>1
  <2> QED
    BY <2>1, <2>2
<1>7. Request!TypeOK
  BY <1>1, <1>4, <1>5, <1>6 DEF Request!TypeOK, Request!Asked
<1>8. ASSUME curl \in {"easy", "set"}
      PROVE  step \in {"set", "perform", "cleanup"} /\ (curl = "set" => step \in {"perform", "cleanup"})
  BY <1>1, <1>8 DEF Request!Asked, Request!Steps, Request!Before, Request!During, Request!After, Request!AllGivenBack
<1>9. ASSUME curl = "set", Request!NewHeaders > 0 PROVE headers >= Request!NewHeaders
  <2>1. headers = Request!List(opts + Request!NewHeaders)
    BY <1>1, <1>8, <1>9 DEF Request!During
  <2> QED
    BY <1>0, <1>2, <1>9, <2>1 DEF Request!List
<1>10. Request!NothingGoneTooSoon
  BY <1>1, <1>8, <1>9 DEF Request!During, Request!OpenOf, Request!NothingGoneTooSoon
<1> QED
  BY <1>7, <1>10

-----------------------------------------------------------------------------
(* All programs *)

FilesInv == /\ program = "sponge" => Sponge!IInv
            /\ program = "mkdir" => Mkdir!IInv
            /\ program = "scrub" => Scrub!IInv
            /\ program = "operands" => Operands!IInv
            /\ program = "lookup" => Lookups!IInv
            /\ program = "request" => Request!IInv

LEMMA FilesInit == Init => FilesInv
<1> SUFFICES ASSUME Init PROVE FilesInv
  OBVIOUS
<1>1. CASE program \in {"sponge", "mkdir", "scrub"}
  BY <1>1, SpongeInit, MkdirInit, ScrubInit DEF Init, FilesInv
<1>2. CASE program \in {"operands", "lookup", "request"}
  BY <1>2, OperandsInit, LookupsInit, RequestInit DEF Init, FilesInv
<1>3. CASE program \in {"walk", "ls"}
  BY <1>3 DEF FilesInv
<1> QED
  BY <1>1, <1>2, <1>3 DEF Init

\* Which program runs is chosen once.
LEMMA FilesStep ==
  ASSUME [Next]_vars
  PROVE  /\ program' = program
         /\ program = "sponge" => Sponge!Next \/ UNCHANGED Sponge!vars
         /\ program = "mkdir" => Mkdir!Next \/ UNCHANGED Mkdir!vars
         /\ program = "scrub" => Scrub!Next \/ UNCHANGED Scrub!vars
         /\ program = "operands" => Operands!Next \/ UNCHANGED Operands!vars
         /\ program = "lookup" => Lookups!Next \/ UNCHANGED Lookups!vars
         /\ program = "request" => Request!Next \/ UNCHANGED Request!vars
<1>1. CASE SpongeStep \/ MkdirStep \/ ScrubStep
  BY <1>1 DEF SpongeStep, MkdirStep, ScrubStep
<1>2. CASE OperandStep \/ LookupStep \/ RequestStep
  BY <1>2 DEF OperandStep, LookupStep, RequestStep
<1>3. CASE WalkStep \/ LsStep
  BY <1>3 DEF WalkStep, LsStep
<1>4. CASE UNCHANGED vars
  <2>1. UNCHANGED <<program, pc, status, i, at, out, changes>> /\ UNCHANGED oldVars
        /\ UNCHANGED <<operandVars, lookupVars, requestVars>>
    BY <1>4 DEF vars, newVars
  <2>2. UNCHANGED Sponge!vars /\ UNCHANGED Mkdir!vars /\ UNCHANGED Scrub!vars
    BY <2>1 DEF oldVars, spongeVars, mkdirVars, scrubVars, Sponge!vars, Mkdir!vars, Scrub!vars
  <2>3. UNCHANGED Operands!vars /\ UNCHANGED Lookups!vars /\ UNCHANGED Request!vars
    BY <2>1 DEF operandVars, lookupVars, requestVars, Operands!vars, Lookups!vars, Request!vars
  <2> QED
    BY <2>1, <2>2, <2>3
<1> QED
  BY <1>1, <1>2, <1>3, <1>4 DEF Next

LEMMA FilesNext == FilesInv /\ [Next]_vars => FilesInv'
<1> SUFFICES ASSUME FilesInv, [Next]_vars PROVE FilesInv'
  OBVIOUS
<1>1. program = "sponge" => Sponge!IInv'
  BY FilesStep, SpongeNext, SpongeUnchanged DEF FilesInv
<1>2. program = "mkdir" => Mkdir!IInv'
  BY FilesStep, MkdirNext, MkdirUnchanged DEF FilesInv
<1>3. program = "scrub" => Scrub!IInv'
  BY FilesStep, ScrubNext, ScrubUnchanged DEF FilesInv
<1>4. program = "operands" => Operands!IInv'
  BY FilesStep, OperandsNext, OperandsUnchanged DEF FilesInv
<1>5. program = "lookup" => Lookups!IInv'
  BY FilesStep, LookupsNext, LookupsUnchanged DEF FilesInv
<1>6. program = "request" => Request!IInv'
  BY FilesStep, RequestNext, RequestUnchanged DEF FilesInv
<1> QED
  BY FilesStep, <1>1, <1>2, <1>3, <1>4, <1>5, <1>6 DEF FilesInv

THEOREM FilesInvariant == Spec => []FilesInv
BY FilesInit, FilesNext, PTL DEF Spec

\* The types, and for rest and up also that nothing is given back too soon:
\* what a request's handle refers to is there until the handle is cleaned up.
\* The walks and ls are left to TLC: what they resolve and list is recursive.
THEOREM FilesTypes == Spec => [](program \notin {"walk", "ls"} => TypeOK)
<1>1. ASSUME FilesInv, program \notin {"walk", "ls"} PROVE TypeOK
  <2>1. program = "sponge" => Sponge!TypeOK
    BY <1>1 DEF FilesInv, Sponge!IInv
  <2>2. program = "mkdir" => Mkdir!TypeOK
    BY <1>1 DEF FilesInv, Mkdir!IInv
  <2>3. program = "scrub" => Scrub!TypeOK
    BY <1>1 DEF FilesInv, Scrub!IInv
  <2>4. program = "operands" => Operands!TypeOK
    BY <1>1, OperandsTypeOK DEF FilesInv
  <2>5. program = "lookup" => Lookups!TypeOK
    BY <1>1 DEF FilesInv, Lookups!IInv
  <2>6. program = "request" => Request!TypeOK /\ Request!NothingGoneTooSoon
    BY <1>1, RequestHeld DEF FilesInv
  <2> QED
    BY <1>1, <2>1, <2>2, <2>3, <2>4, <2>5, <2>6 DEF TypeOK
<1> QED
  BY <1>1, FilesInvariant, PTL

\* sponge.c: when it succeeds and no write was lost, each of its files has all
\* that the producer gave; a lost write leaves a gap and nothing else. mkdir.c,
\* rmdir.c: what was made is there, but for what an rmdir took, and what failed
\* had a reason, whatever two or more of them do at once. cat.c, touch.c,
\* stat.c and the like: the first operand that is missing ends the program, and
\* all before it are done; a cat that reads what it writes fills the disk.
\* which.c: a search fails only when no directory has had the program all the
\* time. rest.c, up.c: all is given back on every way out, the request is the
\* one asked for, and the status its own.
THEOREM FilesSuccessIsTrue == Spec => []SuccessIsTrue
<1>1. ASSUME FilesInv PROVE SuccessIsTrue
  <2>1. program = "sponge" => Sponge!CompleteUnlessLost /\ Sponge!OnlyGaps
    BY <1>1, SpongeDelivers DEF FilesInv
  <2>2. program = "mkdir" => Mkdir!SuccessMeansThere /\ Mkdir!FailsForAReason
    BY <1>1 DEF FilesInv, Mkdir!IInv
  <2>3. program = "operands" => Operands!FailsAtFirst /\ Operands!FeedsItself
    BY <1>1, OperandsKept DEF FilesInv
  <2>4. program = "lookup" => Lookups!FirstFound
    BY <1>1, LookupsFirstFound DEF FilesInv
  <2>5. program = "request" => Request!AllGivenBack /\ Request!StatusTells /\ Request!RequestAsAsked
    BY <1>1, RequestKeepsItsWord DEF FilesInv
  <2> QED
    BY <2>1, <2>2, <2>3, <2>4, <2>5 DEF SuccessIsTrue
<1> QED
  BY <1>1, FilesInvariant, PTL

\* who.c, uptime.c: whoever is logged in from the beginning of a pass over the
\* table to its end is met once, and nobody who never was; the days, hours,
\* minutes and seconds add up to the time since the boot.
THEOREM FilesUsersMet == Spec => [](program = "lookup" => Lookups!UsersMet /\ Lookups!TimeAddsUp)
<1>1. FilesInv => (program = "lookup" => Lookups!UsersMet /\ Lookups!TimeAddsUp)
  BY LookupsUsersMet, LookupsTimeAddsUp DEF FilesInv
<1> QED
  BY <1>1, FilesInvariant, PTL

\* scrub.c: whatever is the schedule, at every moment, also after a crash, each
\* byte on the disk is of the running pass or of the one before it; after the
\* last one nothing is left of what the file held when the passes began, and
\* what others have appended meanwhile is still there.
THEOREM ScrubPassesReachDisk == Spec => []PassesReachDisk
<1>1. FilesInv => PassesReachDisk
  BY ScrubKeepsItsWord DEF FilesInv, PassesReachDisk
<1> QED
  BY <1>1, FilesInvariant, PTL
=============================================================================
