----------------------------- MODULE Brainfuck -----------------------------
(***************************************************************************)
(* The language: what a program means, one instruction a step. A bracket   *)
(* jumps to the one that matches it, however they are nested.              *)
(***************************************************************************)
EXTENDS Integers, Sequences, FiniteSets

CONSTANTS MEMSZ,     \* cells of the working memory
          INTSZ,     \* values of a cell
          TC_EOF     \* what ',' reads at the end of the input

VARIABLES p,         \* the program, p[1] to p[Len(p)]
          ip,        \* next instruction
          xc, x,     \* working pointer and memory
          io         \* last character read or written
vars == <<p, ip, xc, x, io>>

\* How much deeper in loops the instructions j to k of a program q lead.
Count(q, c, j, k) == Cardinality({m \in j..k : q[m] = c})
Rise(q, j, k) == Count(q, "[", j, k) - Count(q, "]", j, k)
Balanced(j, k) == Rise(p, j, k) = 0

\* The bracket that closes the one at j.
Closing(j) == CHOOSE k \in j..Len(p) :
  Balanced(j, k) /\ \A m \in j..k - 1 : ~Balanced(j, m)
Opening(k) == CHOOSE j \in 1..k :
  Balanced(j, k) /\ \A m \in j + 1..k : ~Balanced(m, k)

Cell == x[xc]
Op(c) == ip \in DOMAIN p /\ p[ip] = c /\ p' = p
\* The language says nothing of a pointer outside the memory.
OnCell(c) == Op(c) /\ xc \in DOMAIN x

Add == OnCell("+") /\ x' = [x EXCEPT ![xc] = (@ + 1) % INTSZ] /\ ip' = ip + 1 /\ UNCHANGED <<xc, io>>
Sub == OnCell("-") /\ x' = [x EXCEPT ![xc] = (@ - 1) % INTSZ] /\ ip' = ip + 1 /\ UNCHANGED <<xc, io>>
Put == OnCell(".") /\ io' = Cell /\ ip' = ip + 1 /\ UNCHANGED <<xc, x>>
Get == OnCell(",") /\ io' \in 0..INTSZ - 1 /\ x' = [x EXCEPT ![xc] = io'] /\ ip' = ip + 1 /\ UNCHANGED xc
Right == Op(">") /\ xc' = xc + 1 /\ ip' = ip + 1 /\ UNCHANGED <<x, io>>
Left == Op("<") /\ xc' = xc - 1 /\ ip' = ip + 1 /\ UNCHANGED <<x, io>>
Open == OnCell("[") /\ ip' = (IF Cell = 0 THEN Closing(ip) ELSE ip) + 1 /\ UNCHANGED <<xc, x, io>>
Close == Op("]") /\ ip' = Opening(ip) /\ UNCHANGED <<xc, x, io>>

\* All other characters are comments.
Instructions == {"+", "-", ".", ",", ">", "<", "[", "]"}
Comment == /\ ip \in DOMAIN p /\ p[ip] \notin Instructions /\ p' = p
           /\ ip' = ip + 1 /\ UNCHANGED <<xc, x, io>>

Init == ip = 1 /\ xc = 0 /\ x = [c \in 0..MEMSZ - 1 |-> 0] /\ io = TC_EOF
Next == Add \/ Sub \/ Put \/ Get \/ Right \/ Left \/ Open \/ Close \/ Comment
Spec == Init /\ [][Next]_vars
=============================================================================
