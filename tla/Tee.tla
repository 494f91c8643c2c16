-------------------------------- MODULE Tee --------------------------------
(***************************************************************************)
(* tee.c: copy standard input to standard output and to every file named   *)
(* on the command line, one character at a time.                           *)
(*                                                                         *)
(* A descriptor fd[k] is TC_ERR or the offset at which the next character  *)
(* goes into file argv[k]; the same name may be given twice, and then two  *)
(* descriptors write the same file, each at its own offset.                *)
(***************************************************************************)
EXTENDS Integers, Sequences

CONSTANTS File,     \* names of files
          Byte,     \* characters
          Argvs,    \* the command lines (after the options) considered
          Inputs    \* the contents of standard input and of files considered

ASSUME TeeAssumption == /\ Argvs \subseteq Seq(File)
                        /\ Inputs \subseteq Seq(Byte)

\* For TLC: every command line of at most two names, the same one twice
\* included, and every content of at most two characters.
UpToTwo(S) == UNION {[1..k -> S] : k \in 0..2}
MCArgvs == UpToTwo(File)
MCInputs == UpToTwo(Byte)

TC_ERR == -1        \* libtc's error value; also the value of a closed fd[k]

VARIABLES argv,     \* the operands
          input,    \* all that standard input will deliver
          nread,    \* how many characters tc_getc has returned
          file,     \* what each file holds
          fd,       \* the array of descriptors
          i,        \* the loop index of the opening and the writing loop
          stdout,   \* what has reached standard output
          pc,       \* "start", "open", "read", "write", "exit"
          status    \* "running", then the exit status

vars == <<argv, input, nread, file, fd, i, stdout, pc, status>>

argc == Len(argv)
Closed == [k \in 1..argc |-> TC_ERR]

Init ==
  /\ argv \in Argvs
  /\ input \in Inputs
  /\ file \in [File -> Inputs]
  /\ nread = 0
  /\ fd = Closed
  /\ i = 1
  /\ stdout = <<>>
  /\ pc = "start"
  /\ status = "running"

\* Every way out closes each descriptor that is open and exits.
Exit(code) ==
  /\ pc' = "exit"
  /\ status' = code
  /\ fd' = Closed
  /\ UNCHANGED <<argv, input, nread, i, stdout>>

\* No operand or no memory, an operand that cannot be opened, a write that
\* fails: the program gives up.
Fails ==
  /\ pc = "start" \/ (pc \in {"open", "write"} /\ i <= argc)
  /\ Exit("FAILURE")
  /\ UNCHANGED file

Start ==
  /\ pc = "start"
  /\ argc > 0
  /\ pc' = "open"
  /\ UNCHANGED <<argv, input, nread, file, fd, i, stdout, status>>

\* tc_open_writer creates or empties the file.
Open ==
  /\ pc = "open"
  /\ i <= argc
  /\ fd' = [fd EXCEPT ![i] = 0]
  /\ file' = [file EXCEPT ![argv[i]] = <<>>]
  /\ i' = i + 1
  /\ UNCHANGED <<argv, input, nread, stdout, pc, status>>

AllOpen ==
  /\ pc = "open"
  /\ i > argc
  /\ pc' = "read"
  /\ UNCHANGED <<argv, input, nread, file, fd, i, stdout, status>>

Getc ==
  /\ pc = "read"
  /\ nread < Len(input)
  /\ nread' = nread + 1
  /\ i' = 1
  /\ pc' = "write"
  /\ UNCHANGED <<argv, input, file, fd, stdout, status>>

\* Mutants: TC_EOF is taken for a character, or is not seen.
EndOfInputCopied ==
  /\ pc = "read" /\ nread = Len(input)
  /\ nread' = nread + 1 /\ i' = 1 /\ pc' = "write"
  /\ UNCHANGED <<argv, input, file, fd, stdout, status>>
EndOfInputMissed == pc = "read" /\ nread = Len(input) /\ UNCHANGED vars

\* tc_getc returns TC_EOF.
EndOfInput ==
  /\ pc = "read"
  /\ nread = Len(input)
  /\ Exit("SUCCESS")
  /\ UNCHANGED file

\* Mutant: descriptors append.
WriteAtEnd(s, off, c) == Append(s, c)

\* One character at a descriptor's offset: over what is there, or at the end.
WriteAt(s, off, c) ==
  IF off < Len(s) THEN [s EXCEPT ![off + 1] = c] ELSE Append(s, c)

\* Mutant: the result of tc_putc is not looked at, as in sponge.c.
PutcUnchecked ==
  /\ pc = "write"
  /\ i <= argc
  /\ \/ file' = [file EXCEPT ![argv[i]] = WriteAt(@, fd[i], input[nread])]
     \/ file' = file
  /\ fd' = [fd EXCEPT ![i] = @ + 1]
  /\ i' = i + 1
  /\ UNCHANGED <<argv, input, nread, stdout, pc, status>>

Putc ==
  /\ pc = "write"
  /\ i <= argc
  /\ file' = [file EXCEPT ![argv[i]] = WriteAt(@, fd[i], input[nread])]
  /\ fd' = [fd EXCEPT ![i] = @ + 1]
  /\ i' = i + 1
  /\ UNCHANGED <<argv, input, nread, stdout, pc, status>>

\* The result of writing to standard output is not looked at: the character
\* is there or it is lost.
PutcStdout ==
  /\ pc = "write"
  /\ i > argc
  /\ \/ stdout' = Append(stdout, input[nread])
     \/ stdout' = stdout
  /\ pc' = "read"
  /\ UNCHANGED <<argv, input, nread, file, fd, i, status>>

Done == pc = "exit" /\ UNCHANGED vars

Next == \/ Start \/ Open \/ AllOpen \/ Getc \/ EndOfInput \/ Putc \/ PutcStdout
        \/ Fails \/ Done

\* tee is one process: it takes its next step as long as it has one.
Fairness == WF_vars(Next)

Spec == Init /\ [][Next]_vars /\ Fairness

-----------------------------------------------------------------------------
\* The outputs.
Outs == {argv[k] : k \in 1..argc}

TypeOK ==
  /\ argv \in Seq(File)
  /\ input \in Seq(Byte)
  /\ nread \in 0..Len(input)
  /\ file \in [File -> Seq(Byte)]
  /\ fd \in [1..argc -> Nat \cup {TC_ERR}]
  /\ i \in 1..argc + 1
  /\ stdout \in Seq(Byte)
  /\ pc \in {"start", "open", "read", "write", "exit"}
  /\ status \in {"running", "SUCCESS", "FAILURE"}

\* How many characters of the input file argv[k] holds while characters are
\* copied: the one in hand is there as soon as some descriptor on that file
\* has been served.
Copied(k) ==
  IF pc = "read" \/ \E j \in 1..(i - 1) : argv[j] = argv[k]
  THEN nread ELSE nread - 1

\* Lock step: while tee copies, every output holds exactly the characters
\* read so far, but for the one in hand, which the outputs not yet served
\* lack; a name given twice does not double or garble a character.
LockStep ==
  pc \in {"read", "write"} =>
    \A k \in 1..argc : file[argv[k]] = SubSeq(input, 1, Copied(k))

\* The descriptors advance together: all offsets are equal between two
\* characters, and while one is copied the served ones are exactly one ahead.
OffsetsAgree ==
  /\ pc = "start" => i = 1 /\ nread = 0 /\ stdout = <<>> /\ fd = Closed
  /\ pc = "open" => /\ nread = 0 /\ stdout = <<>>
                    /\ \A k \in 1..argc : fd[k] = IF k < i THEN 0 ELSE TC_ERR
                    /\ \A k \in 1..(i - 1) : file[argv[k]] = <<>>
  /\ pc = "read" => i = argc + 1 /\ \A k \in 1..argc : fd[k] = nread
  /\ pc = "write" => /\ nread > 0
                     /\ \A k \in 1..argc :
                          fd[k] = IF k < i THEN nread ELSE nread - 1

\* tee reports success only when every file holds all of the input: a write
\* that fails is never passed over, also when only one of several fails.
SuccessIsComplete ==
  status = "SUCCESS" => \A k \in 1..argc : file[argv[k]] = input

\* What a reader of standard output has seen is already in every file: a
\* pipeline that dies later does not leave a file behind the output.
ShownIsSaved ==
  stdout # <<>> => \A k \in 1..argc : Len(stdout) <= Len(file[argv[k]])

\* No path out of the program (no operand, an open that fails half way, a
\* write that fails half way, end of input) leaves a descriptor open.
NothingLeftOpen == pc = "exit" => \A k \in 1..argc : fd[k] = TC_ERR

\* tee ends, whatever fails, when its input does.
Terminates == <>(pc = "exit")

\* tee implements the promise of Fanout.
F == INSTANCE Fanout WITH
       outs <- Outs,
       data <- file,
       opened <- {argv[k] : k \in {j \in 1..argc : fd[j] # TC_ERR}},
       result <- status

ImplementsFanout == F!ASpec
=============================================================================
