------------------------------- MODULE Sponge -------------------------------
(***************************************************************************)
(* sponge.c at the end of a pipeline "cat src | sponge argv...", the       *)
(* program's reason to exist being that src may be one of its operands.    *)
(* The producer and sponge are two processes over one file system.         *)
(***************************************************************************)
EXTENDS Integers, Sequences, SequencesExt

CONSTANTS File, Byte, Argvs, Inputs
SpongeAssumption == Argvs \subseteq Seq(File) /\ Inputs \subseteq Seq(Byte)

TC_ERR == -1

VARIABLES argv,    \* sponge's operands
          src,     \* the file the producer reads
          file,    \* what each file holds
          roff,    \* the producer's offset in src; TC_ERR once it has ended
          pipe,    \* standard input of sponge
          fp,      \* sponge's descriptors: an offset, or TC_ERR
          i, ch,   \* loop index and character in hand
          pc, status,
          lost     \* history: some tc_putc failed

vars == <<argv, src, file, roff, pipe, fp, i, ch, pc, status, lost>>
argc == Len(argv)

Init ==
  /\ argv \in Argvs
  /\ src \in File
  /\ file \in [File -> Inputs]
  /\ roff = 0
  /\ pipe = <<>>
  /\ fp = [k \in 1..argc |-> TC_ERR]
  /\ i = 1 /\ ch = <<>>
  /\ pc = "start" /\ status = "running"
  /\ lost = FALSE

\* The producer copies one character of src, or finds the end of the file:
\* whatever src holds at that moment.
Produce ==
  /\ roff # TC_ERR
  /\ IF roff < Len(file[src])
     THEN pipe' = Append(pipe, file[src][roff + 1]) /\ roff' = roff + 1
     ELSE roff' = TC_ERR /\ pipe' = pipe
  /\ UNCHANGED <<argv, src, file, fp, i, ch, pc, status, lost>>

Exit(code) ==
  /\ pc' = "exit" /\ status' = code
  /\ fp' = [k \in 1..argc |-> TC_ERR]
  /\ UNCHANGED <<argv, src, file, roff, pipe, i, ch, lost>>

\* No operand or no memory; an operand that cannot be opened.
GiveUp == pc \in {"start", "open"} /\ Exit("FAILURE")

Start ==
  /\ pc = "start" /\ argc > 0
  /\ pc' = "open"
  /\ UNCHANGED <<argv, src, file, roff, pipe, fp, i, ch, status, lost>>

\* tc_open_writer creates or empties an operand; after the last one the
\* program starts to read.
Open ==
  /\ pc = "open"
  /\ fp' = [fp EXCEPT ![i] = 0]
  /\ file' = [file EXCEPT ![argv[i]] = <<>>]
  /\ IF i = argc THEN pc' = "read" /\ i' = 1 ELSE i' = i + 1 /\ pc' = pc
  /\ UNCHANGED <<argv, src, roff, pipe, ch, status, lost>>

Getc ==
  /\ pc = "read" /\ pipe # <<>>
  /\ ch' = <<Head(pipe)>> /\ pipe' = Tail(pipe)
  /\ i' = 1 /\ pc' = "write"
  /\ UNCHANGED <<argv, src, file, roff, fp, status, lost>>

WriteAt(s, off, c) ==
  IF off < Len(s) THEN [s EXCEPT ![off + 1] = c] ELSE Append(s, c)

\* The result of tc_putc is not looked at.
Putc ==
  /\ pc = "write"
  /\ \/ /\ file' = [file EXCEPT ![argv[i]] = WriteAt(@, fp[i], ch[1])]
        /\ fp' = [fp EXCEPT ![i] = @ + 1]
        /\ lost' = lost
     \/ file' = file /\ fp' = fp /\ lost' = TRUE
  /\ IF i = argc THEN pc' = "read" ELSE pc' = pc
  /\ i' = i + 1
  /\ UNCHANGED <<argv, src, roff, pipe, ch, status>>

\* Mutant: an empty pipe is taken for its end.
NoMoreYet == pc = "read" /\ pipe = <<>> /\ Exit("SUCCESS")

\* A pipe is at its end when it is empty and its writer has gone.
EndOfInput == pc = "read" /\ pipe = <<>> /\ roff = TC_ERR /\ Exit("SUCCESS")

Done == pc = "exit" /\ roff = TC_ERR /\ UNCHANGED vars

Next == \/ Produce \/ Start \/ GiveUp \/ Open \/ Getc \/ Putc \/ EndOfInput
        \/ Done

\* Neither process can run for ever without the other.
Spec == Init /\ [][Next]_vars /\ WF_vars(Next)

-----------------------------------------------------------------------------
TypeOK ==
  /\ argv \in Seq(File) /\ src \in File /\ file \in [File -> Seq(Byte)]
  /\ roff \in Nat \cup {TC_ERR} /\ pipe \in Seq(Byte) /\ lost \in BOOLEAN
  /\ fp \in [1..argc -> Nat \cup {TC_ERR}] /\ i \in 1..argc + 1
  /\ ch \in Seq(Byte) /\ Len(ch) <= 1
  /\ pc \in {"start", "open", "read", "write", "exit"}
  /\ status \in {"running", "SUCCESS", "FAILURE"}

Outs == ToSet(argv)

\* When sponge reports success and every write went through, each operand
\* holds all that the producer delivered, if src is not itself an operand.
CompleteUnlessLost ==
  status = "SUCCESS" /\ ~lost /\ src \notin Outs =>
    \A f \in Outs : file[f] = file[src]

IsSubsequence(s, t) ==
  \E at \in [DOMAIN s -> DOMAIN t] :
    /\ \A j, k \in DOMAIN s : j < k => at[j] < at[k]
    /\ \A k \in DOMAIN s : s[k] = t[at[k]]

\* A lost character leaves a gap and nothing else: what a file holds is a
\* subsequence of the source, for operands that are all different.
OnlyGaps ==
  pc \in {"read", "write", "exit"} /\ status # "FAILURE"
    /\ IsInjective(argv) /\ src \notin Outs =>
    \A f \in Outs : IsSubsequence(file[f], file[src])

\* sponge.c:44 "soak up standard input and write to a file": no operand is
\* touched before the end of standard input. The code empties the operands
\* before it reads and writes each character as it comes.
SoaksUp == file' # file => roff = TC_ERR /\ pipe = <<>>

-----------------------------------------------------------------------------
\* For the proof, where src is not an operand and so stays as it is. What the
\* producer has given is what sponge has taken and what is in the pipe.
Apart == src \notin Outs
Given == IF roff = TC_ERR THEN Len(file[src]) ELSE roff
Taken == Given - Len(pipe)
Flow ==
  Apart => /\ Taken >= 0 /\ Given <= Len(file[src])
           /\ \A k \in 1..Len(pipe) : pipe[k] = file[src][Taken + k]
           /\ pc \in {"start", "open"} => Taken = 0
           /\ pc = "write" => Taken > 0 /\ ch = <<file[src][Taken]>>

\* The operands before the index have been emptied.
Underway == /\ pc = "start" => i = 1
            /\ pc \in {"open", "read", "write"} => argc > 0
            /\ pc \in {"open", "write"} => i <= argc
            /\ pc = "write" => \E c \in Byte : ch = <<c>>
            /\ pc \in {"start", "open"} => ~lost
            /\ pc = "open" => \A k \in 1..i - 1 : fp[k] = 0 /\ file[argv[k]] = <<>>
            /\ pc = "exit" <=> status # "running"
            /\ status = "SUCCESS" => pipe = <<>> /\ roff = TC_ERR

\* The characters that an operand should have got, and those that its file
\* should have, which may have been given to another operand of its name.
Due(k) == IF pc = "write" /\ k >= i THEN Taken - 1 ELSE Taken
Copied(k) == IF pc = "write" /\ \A j \in 1..i - 1 : argv[j] # argv[k] THEN Taken - 1 ELSE Taken
Copying == pc \in {"read", "write"}
Holds(s, t, n) == Len(s) = n /\ \A x \in 1..n : s[x] = t[x]
Complete ==
  Apart /\ ~lost =>
    /\ Copying => \A k \in 1..argc : fp[k] = Due(k)
    /\ Copying \/ status = "SUCCESS" => \A k \in 1..argc : Holds(file[argv[k]], file[src], Copied(k))

\* What is in a file is some of what it should have got, in its order.
Among(s, t, n) ==
  \E e \in [1..Len(s) -> 1..n] :
    /\ \A j, k \in 1..Len(s) : j < k => e[j] < e[k]
    /\ \A k \in 1..Len(s) : s[k] = t[e[k]]
Gaps ==
  Apart /\ IsInjective(argv) =>
    /\ Copying => \A k \in 1..argc : fp[k] = Len(file[argv[k]])
    /\ Copying \/ status = "SUCCESS" => \A k \in 1..argc : Among(file[argv[k]], file[src], Due(k))
IInv == TypeOK /\ Flow /\ Underway /\ Complete /\ Gaps
=============================================================================
