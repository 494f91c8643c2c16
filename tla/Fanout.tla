------------------------------- MODULE Fanout -------------------------------
(***************************************************************************)
(* What a program that copies its standard input into several files        *)
(* promises, whatever it reads a byte with and in whatever order it serves *)
(* its outputs: an output is emptied when it is opened, from then on it    *)
(* always holds a prefix of the input, and the program reports success     *)
(* only when every output holds all of it.                                 *)
(***************************************************************************)
EXTENDS Sequences, Integers

CONSTANTS File,     \* names of files
          Byte      \* what a file is made of

VARIABLES outs,     \* the files named on the command line
          input,    \* all that standard input will deliver
          data,     \* what each file holds
          opened,   \* the outputs that are open
          result    \* "running", "SUCCESS" or "FAILURE"

avars == <<outs, input, data, opened, result>>

AInit ==
  /\ outs \in SUBSET File
  /\ input \in Seq(Byte)
  /\ data \in [File -> Seq(Byte)]
  /\ opened = {}
  /\ result = "running"

\* Opening an output empties it, also when it is already open; no output
\* has been written before the last one is opened.
Truncate(f) ==
  /\ result = "running"
  /\ f \in outs
  /\ \A g \in opened : data[g] = <<>>
  /\ opened' = opened \cup {f}
  /\ data' = [data EXCEPT ![f] = <<>>]
  /\ UNCHANGED <<outs, input, result>>

\* One more byte of the input reaches an open output.
Extend(f) ==
  /\ result = "running"
  /\ f \in opened
  /\ opened = outs
  /\ Len(data[f]) < Len(input)
  /\ data' = [data EXCEPT ![f] = SubSeq(input, 1, Len(data[f]) + 1)]
  /\ UNCHANGED <<outs, input, opened, result>>

Succeed ==
  /\ result = "running"
  /\ opened = outs
  /\ \A f \in outs : data[f] = input
  /\ result' = "SUCCESS"
  /\ opened' = {}
  /\ UNCHANGED <<outs, input, data>>

Fail ==
  /\ result = "running"
  /\ result' = "FAILURE"
  /\ opened' = {}
  /\ UNCHANGED <<outs, input, data>>

ANext == \/ \E f \in outs : Truncate(f) \/ Extend(f)
         \/ Succeed
         \/ Fail

ASpec == AInit /\ [][ANext]_avars
=============================================================================
