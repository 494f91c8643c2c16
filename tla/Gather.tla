------------------------------- MODULE Gather -------------------------------
(***************************************************************************)
(* Programs that gather what they get before they use it: md2 the whole    *)
(* input in a buffer that grows, gzinfo the ten bytes of a header, logger  *)
(* its arguments in a message of fixed size. A step is one character of    *)
(* md2 or gzinfo, one argument of logger. The number of what has been      *)
(* taken is at; mem is the memory, with its Garbage.                       *)
(***************************************************************************)
EXTENDS Integers, Sequences, SequencesExt, FiniteSetsExt, Stepwise

CONSTANTS Inputs,     \* md2's
          CAP,        \* of md2's buffer at first, 512
          Headers,    \* gzinfo's inputs, and pieces of them
          ID1, ID2,
          W,          \* bits of a byte, 8
          OldTimes,   \* what mtime may hold before it is set
          Arguments,  \* logger's command lines
          MSGSZ       \* 2048

BYTE == Power(2, W)     \* the values of a byte, and of the time
TIME == Power(BYTE, 4)
GatherAssumption == /\ {CAP, W, MSGSZ} \subseteq Nat \ {0} /\ OldTimes \subseteq 0..(TIME - 1)
                    /\ Headers \subseteq Seq(0..(BYTE - 1))

VARIABLES tool, text, at, mem, size, told, status
vars == <<tool, text, at, mem, size, told, status>>
Garbage == "garbage"

\* size is md2's cap, the mtime of gzinfo and the msgsize of logger.
Init == /\ tool \in {"md2", "gzinfo", "logger"}
        /\ text \in CASE tool = "md2" -> Inputs [] tool = "gzinfo" -> Headers [] OTHER -> Arguments
        /\ size \in CASE tool = "md2" -> {CAP} [] tool = "gzinfo" -> OldTimes [] OTHER -> {1}
        /\ mem = IF tool = "md2" THEN [k \in 1..CAP |-> Garbage] ELSE <<>>
        /\ at = 0 /\ told = <<>> /\ status = "run"

Exit(st) == status' = st
Fails == Exit("failure") /\ UNCHANGED <<mem, size, at, told>>
\* Memory is asked for at the start and each time the buffer is full, and for
\* the digits of the time.
Asks == \/ tool = "md2" /\ (at = 0 \/ (at < Len(text) /\ at + 1 >= size))
        \/ tool = "gzinfo" /\ at = 8
OutOfMemory == status = "run" /\ Asks /\ Fails /\ UNCHANGED <<tool, text>>

-----------------------------------------------------------------------------
\* md2.c: the buffer of len characters is full, one twice as long takes over.
\* Mutant: the last character is not copied.
CopiedButLast(m, len) == [k \in 1..(2 * len) |-> IF k < len THEN m[k] ELSE Garbage]

Copied(m, len) == [k \in 1..(2 * len) |-> IF k <= len THEN m[k] ELSE Garbage]

Md2 == /\ tool = "md2" /\ status = "run"
       /\ IF at < Len(text)
          THEN LET stored == [mem EXCEPT ![at + 1] = text[at + 1]]
                   len == at + 1
               IN  /\ at' = len
                   /\ mem' = IF len >= size THEN Copied(stored, len) ELSE stored
                   /\ size' = IF len >= size THEN 2 * len ELSE size
                   /\ UNCHANGED <<told, status>>
          ELSE told' = SubSeq(mem, 1, at) /\ Exit("success") /\ UNCHANGED <<at, mem, size>>
       /\ UNCHANGED <<tool, text>>

-----------------------------------------------------------------------------
\* gzinfo.c: the bytes of the time are shifted in at the upper end, the least
\* one first; the number is shown as a signed one.
\* Mutant: shifted in at the lower end.
ShiftedInBelow(t, byte) == (t * BYTE + byte) % TIME

ShiftedIn(t, byte) == t \div BYTE + byte * Power(BYTE, 3)
Signed(t) == IF t >= TIME \div 2 THEN t - TIME ELSE t
Flags(byte) == {k \in 0..(W - 1) : (byte \div Power(2, k)) % 2 = 1}
Wrong(byte) == (at = 0 /\ byte # ID1) \/ (at = 1 /\ byte # ID2)
Gzinfo ==
  /\ tool = "gzinfo" /\ status = "run"
  /\ CASE at = 10 -> /\ told' = <<mem[3], Flags(mem[4]), Signed(size), mem[10]>>
                     /\ Exit("success") /\ UNCHANGED <<at, mem, size>>
       [] at < 10 /\ (at = Len(text) \/ Wrong(text[at + 1])) -> Fails
       [] OTHER -> /\ at' = at + 1 /\ mem' = Append(mem, text[at + 1])
                   /\ size' = IF at \in 4..7 THEN ShiftedIn(size, text[at + 1]) ELSE size
                   /\ UNCHANGED <<told, status>>
  /\ UNCHANGED <<tool, text>>

-----------------------------------------------------------------------------
\* logger.c: msgsize counts the argument already when strncat is told how
\* much of it there is room for.
strncat(s, t, n) == s \o SubSeq(t, 1, Min({n, Len(t)}))
Sized == size + Len(text[at + 1])
More == at + 1 < Len(text)
TooLong == Sized >= MSGSZ \/ (More /\ Sized + 1 >= MSGSZ)
Logger ==
  /\ tool = "logger" /\ status = "run"
  /\ CASE text = <<>> -> Fails
       [] text # <<>> /\ at = Len(text) -> told' = mem /\ Exit("success") /\ UNCHANGED <<at, mem, size>>
       [] text # <<>> /\ at < Len(text) /\ TooLong -> Fails
       [] OTHER -> LET m == strncat(mem, text[at + 1], MSGSZ - Sized)
                   IN  /\ mem' = IF More THEN strncat(m, <<"SP">>, MSGSZ - (Sized + 1)) ELSE m
                       /\ size' = IF More THEN Sized + 1 ELSE Sized
                       /\ at' = at + 1 /\ UNCHANGED <<told, status>>
  /\ UNCHANGED <<tool, text>>

Done == status # "run" /\ UNCHANGED vars
Next == Md2 \/ Gzinfo \/ Logger \/ OutOfMemory \/ Done

-----------------------------------------------------------------------------
\* Among the types: nothing is stored behind the end of the memory.
TypeOK == /\ tool \in {"md2", "gzinfo", "logger"} /\ status \in {"run", "success", "failure"}
          /\ at \in 0..Len(text)
          /\ tool = "md2" => at < Len(mem) /\ Len(mem) = size
          /\ tool = "gzinfo" => size \in 0..(TIME - 1) /\ at = Len(mem)
          /\ tool = "logger" => Len(mem) < MSGSZ /\ (status = "run" => Len(mem) < size)
          /\ status = "failure" => told = <<>>

\* md2.c: what is digested is the input, however often the buffer has grown.
DigestsWhole == tool = "md2" /\ status = "success" => told = text

\* gzinfo.c: something is shown only of a whole header that begins with the
\* magic numbers; the time is that of its four bytes, whatever the variable
\* held before.
LittleEndian(s) == s[1] + BYTE * (s[2] + BYTE * (s[3] + BYTE * s[4]))
ShowsHeader ==
  tool = "gzinfo" /\ status = "success" =>
    /\ Len(text) >= 10 /\ text[1] = ID1 /\ text[2] = ID2
    /\ told[1] = text[3] /\ told[4] = text[10]
    /\ Value(2, [k \in 1..W |-> IF W - k \in told[2] THEN 1 ELSE 0]) = text[4]
    /\ (told[3] - LittleEndian(SubSeq(text, 5, 8))) % TIME = 0
    /\ told[3] \in (-(TIME \div 2))..(TIME \div 2 - 1)

\* logger.c: what is logged is the arguments with blanks between them, if none
\* of them is longer than the room that is left behind all of them; otherwise
\* some may be cut at their ends. What does not fit at all is refused.
Cut(c) == FlattenSeq([k \in 1..Len(text) |->
            (IF k = 1 THEN <<>> ELSE <<"SP">>) \o SubSeq(text[k], 1, c[k])])
Joined == Cut([k \in DOMAIN text |-> Len(text[k])])
LogsArguments ==
  tool = "logger" =>
    /\ status = "failure" <=> (status # "run" /\ (text = <<>> \/ Len(Joined) + 1 >= MSGSZ))
    /\ status = "success" =>
         /\ (\A k \in DOMAIN text : Len(text[k]) <= MSGSZ - 1 - Len(Joined)) => told = Joined
         /\ \E c \in [DOMAIN text -> 0..MSGSZ] : (\A k \in DOMAIN text : c[k] <= Len(text[k])) /\ told = Cut(c)
=============================================================================
