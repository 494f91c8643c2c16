-------------------------------- MODULE Tmpl --------------------------------
(***************************************************************************)
(* tmpl: text with commands in it, ${...} and %{...}; each is replaced by  *)
(* what it prints, less the last newline, of %{...} every character as an  *)
(* HTML entity.  A backslash before a mark takes its meaning away.         *)
(***************************************************************************)
EXTENDS Integers, SequencesExt, FiniteSetsExt

CONSTANTS Chars, MaxLen,
          Outputs,  \* what a command may print
          L         \* 2048, the room for a command

TmplAssumption ==
  /\ MaxLen \in Nat /\ L \in Nat /\ L > 1
  /\ {"$", "%", "{", "}", "\\"} \subseteq Chars

VARIABLES text, pos,  \* standard input, and how much of it has been read
          out,        \* standard output: characters, and [entity |-> c]
          ran,        \* the commands: [at |-> where the mark was, s |-> the command]
          pc          \* "copy" or "done"

vars == <<text, pos, out, ran, pc>>

EOF == "EOF"
Marks == {"$", "%"}

Init ==
  /\ text \in UNION {[1..k -> Chars] : k \in 0..MaxLen}
  /\ pos = 0 /\ out = <<>> /\ ran = <<>> /\ pc = "copy"

Getc(k) == IF k <= Len(text) THEN text[k] ELSE EOF

\* s: the characters up to a brace or the end, if there is room for them.
CommandLen == Min({L - 1} \cup {n \in 0..Len(text) : Getc(pos + 3 + n) \in {"}", EOF}})

\* What has been read with a command of n characters: the brace if it ended it.
AfterCommand(n) ==
  pos + 2 + n + (IF n < L - 1 /\ Getc(pos + 3 + n) = "}" THEN 1 ELSE 0)

\* The last newline of what a command prints is not printed.
Trimmed(o) == IF o # <<>> /\ Last(o) = "\n" THEN Front(o) ELSE o

Entities(o) == [k \in DOMAIN o |-> [entity |-> o[k]]]

IsCommand == Getc(pos + 1) \in Marks /\ Getc(pos + 2) = "{"

Run ==
  /\ pc = "copy" /\ IsCommand
  /\ \E o \in Outputs :
       out' = out \o (IF Getc(pos + 1) = "%" THEN Entities(Trimmed(o)) ELSE Trimmed(o))
  /\ ran' = Append(ran, [at |-> pos + 1, s |-> SubSeq(text, pos + 3, pos + 2 + CommandLen)])
  /\ pos' = AfterCommand(CommandLen)
  /\ UNCHANGED <<text, pc>>

\* popen fails: the rest of the text is left.
PopenFails ==
  /\ pc = "copy" /\ IsCommand
  /\ pos' = AfterCommand(CommandLen) /\ pc' = "done"
  /\ UNCHANGED <<text, out, ran>>

\* A mark that is the last character is not printed.
MarkAtEnd ==
  /\ pc = "copy" /\ Getc(pos + 1) \in Marks /\ Getc(pos + 2) = EOF
  /\ pos' = pos + 1 /\ pc' = "done"
  /\ UNCHANGED <<text, out, ran>>

Escapes(k) == Getc(k) = "\\" /\ Getc(k + 1) \in Marks

\* A character, with the mark before it if there is one, or an escaped mark.
Copy ==
  LET m == IF Getc(pos + 1) \in Marks THEN 1 ELSE 0
      e == IF Escapes(pos + 1 + m) THEN 1 ELSE 0
  IN  /\ pc = "copy" /\ ~IsCommand /\ Getc(pos + 1) # EOF /\ Getc(pos + 1 + m) # EOF
      /\ out' = out \o SubSeq(text, pos + 1, pos + m) \o <<Getc(pos + 1 + m + e)>>
      /\ pos' = pos + 1 + m + e
      /\ UNCHANGED <<text, ran, pc>>

AtEnd == pc = "copy" /\ Getc(pos + 1) = EOF /\ pc' = "done" /\ UNCHANGED <<text, pos, out, ran>>

Done == pc = "done" /\ UNCHANGED vars

Next == Run \/ PopenFails \/ MarkAtEnd \/ Copy \/ AtEnd \/ Done
Spec == Init /\ [][Next]_vars

-----------------------------------------------------------------------------
TypeOK ==
  /\ pos \in 0..Len(text) /\ pc \in {"copy", "done"}
  /\ \A r \in Range(ran) : r.at <= pos /\ Len(r.s) < L

\* Every text can be printed as it is: with a backslash before each of its
\* marks it comes out without them, whatever else is in it, and nothing runs.
EscapedIsPlain ==
  (\A k \in DOMAIN text : text[k] \in Marks => k > 1 /\ text[k - 1] = "\\") =>
    /\ ran = <<>>
    /\ pc = "done" =>
         out =
               LET kept == {k \in DOMAIN text : ~(text[k] = "\\" /\ k < Len(text) /\ text[k + 1] \in Marks)}
               IN  [n \in 1..Cardinality(kept) |->
                      text[CHOOSE k \in kept : Cardinality({j \in kept : j <= k}) = n]]

\* What is run is what stands between the braces, up to the first that closes.
RunsCommands ==
  \A r \in Range(ran) :
    LET e == r.at + 1 + Len(r.s) IN
    /\ text[r.at] \in Marks /\ text[r.at + 1] = "{" /\ r.s = SubSeq(text, r.at + 2, e)
    /\ "}" \notin Range(r.s)
    /\ Len(r.s) < L - 1 => e = Len(text) \/ text[e + 1] = "}"

\* No command is left out: in a text without a backslash, each that has no mark
\* before it and is not within another has been run where the text was read.
RunsAll ==
  "\\" \notin Range(text) =>
    \A k \in 1..pos - 1 :
      /\ text[k] \in Marks /\ text[k + 1] = "{" /\ (k > 1 => text[k - 1] \notin Marks)
      /\ pc = "copy"
      => \E r \in Range(ran) : r.at <= k /\ k <= r.at + 1 + Len(r.s)
=============================================================================
