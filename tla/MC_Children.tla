---------------------------- MODULE MC_Children ----------------------------
(***************************************************************************)
(* The programs that start commands, one of which is chosen at the start:  *)
(* repeat, shell, foreach and tmpl, with the command lines that shell and  *)
(* foreach put together. They share no state; variables that have the      *)
(* same name in several of them are one variable here, and those that the  *)
(* chosen program does not have are Unused.                                *)
(***************************************************************************)
EXTENDS Integers, Sequences

VARIABLES program,
          pc, status, ran, buf, off, cur,
          flag_n, i, pid, ended, bad,
          script, seekable, cbuf, done, cpc, excused,
          nlines, toolong, reads, eaten,
          cmd, line, eol,
          text, pos, out

vars == <<program, pc, status, ran, buf, off, cur, flag_n, i, pid, ended, bad,
          script, seekable, cbuf, done, cpc, excused, nlines, toolong, reads, eaten,
          cmd, line, eol, text, pos, out>>

CONSTANTS Pid, IntMax, Codes,                     \* of repeat
          ShellLines, MaxRuns, ForeachLines,
          LineLen,                                \* of the command lines
          TmplChars, TmplLen, TmplRoom, Outputs   \* of tmpl

Repeat == INSTANCE Repeat
Shell == INSTANCE Shell WITH MaxLines <- ShellLines
Foreach == INSTANCE Foreach WITH MaxLines <- ForeachLines
CommandLine == INSTANCE CommandLine WITH MaxLen <- LineLen
Tmpl == INSTANCE Tmpl WITH Chars <- TmplChars, MaxLen <- TmplLen, L <- TmplRoom

ASSUME RepeatAssumed == Repeat!RepeatAssumption
ASSUME TmplAssumed == Tmpl!TmplAssumption

\* For TLC: one process more than repeat ever has at a time, and INT_MAX = 3,
\* so that the counter of an endless repetition wraps; scripts of four lines,
\* on a file and on a pipe; for foreach, inputs of four lines, delivered in any
\* pieces; all commands and lines of four characters; all texts of five, with
\* room for commands of one.
MCPid == 0..2
MCCodes == 0..2
MCChars == {"$", "%", "{", "}", "\\", "a"}
MCOutputs == {<<>>, <<"x", "\n">>}

Unused == "unused"
shared == <<pc, status, ran, buf, off, cur>>
repeatVars == <<flag_n, i, pid, ended, bad>>
shellVars == <<script, seekable, cbuf, done, cpc, excused>>
foreachVars == <<nlines, toolong, reads, eaten>>
lineVars == <<cmd, line, eol>>
tmplVars == <<text, pos, out>>

NotRepeat == <<ran, buf, off, cur, shellVars, foreachVars, lineVars, tmplVars>>
NotShell == <<status, repeatVars, foreachVars, lineVars, tmplVars>>
NotForeach == <<repeatVars, shellVars, lineVars, tmplVars>>
NotCommandLine == <<shared, repeatVars, shellVars, foreachVars, tmplVars>>
NotTmpl == <<status, buf, off, cur, repeatVars, shellVars, foreachVars, lineVars>>

UnusedRepeat == flag_n = Unused /\ i = Unused /\ pid = Unused /\ ended = Unused /\ bad = Unused
UnusedShell == /\ script = Unused /\ seekable = Unused /\ cbuf = Unused
               /\ done = Unused /\ cpc = Unused /\ excused = Unused
UnusedForeach == nlines = Unused /\ toolong = Unused /\ reads = Unused /\ eaten = Unused
UnusedLine == cmd = Unused /\ line = Unused /\ eol = Unused
UnusedTmpl == text = Unused /\ pos = Unused /\ out = Unused
UnusedInput == buf = Unused /\ off = Unused /\ cur = Unused

Init ==
  \/ /\ program = "repeat" /\ Repeat!Init
     /\ ran = Unused /\ UnusedInput /\ UnusedShell /\ UnusedForeach /\ UnusedLine /\ UnusedTmpl
  \/ /\ program = "shell" /\ Shell!Init
     /\ status = Unused /\ UnusedRepeat /\ UnusedForeach /\ UnusedLine /\ UnusedTmpl
  \/ /\ program = "foreach" /\ Foreach!Init
     /\ UnusedRepeat /\ UnusedShell /\ UnusedLine /\ UnusedTmpl
  \/ /\ program = "command line" /\ CommandLine!Init
     /\ pc = Unused /\ status = Unused /\ ran = Unused /\ UnusedInput
     /\ UnusedRepeat /\ UnusedShell /\ UnusedForeach /\ UnusedTmpl
  \/ /\ program = "tmpl" /\ Tmpl!Init
     /\ status = Unused /\ UnusedInput
     /\ UnusedRepeat /\ UnusedShell /\ UnusedForeach /\ UnusedLine

RepeatStep == program = "repeat" /\ Repeat!Next /\ UNCHANGED <<program, NotRepeat>>
ShellStep == program = "shell" /\ Shell!Next /\ UNCHANGED <<program, NotShell>>
ForeachStep == program = "foreach" /\ Foreach!Next /\ UNCHANGED <<program, NotForeach>>
CommandLineStep == program = "command line" /\ CommandLine!Next /\ UNCHANGED <<program, NotCommandLine>>
TmplStep == program = "tmpl" /\ Tmpl!Next /\ UNCHANGED <<program, NotTmpl>>

Next == RepeatStep \/ ShellStep \/ ForeachStep \/ CommandLineStep \/ TmplStep

\* Whatever runs goes on running, and commands end.
Spec == Init /\ [][Next]_vars /\ WF_vars(Next)

-----------------------------------------------------------------------------
TypeOK ==
  /\ program = "repeat" => Repeat!TypeOK
  /\ program = "shell" => Shell!TypeOK
  /\ program = "foreach" => Foreach!TypeOK
  /\ program = "command line" => CommandLine!TypeOK
  /\ program = "tmpl" => Tmpl!TypeOK

\* repeat.c, shell.c, foreach.c: the way in which the program has ended says
\* what became of the commands. Of repeat's processes only the one that the
\* user started runs the loop, its commands run one at a time, and none is
\* left behind.
EndsForAReason ==
  /\ program = "repeat" =>
       Repeat!OnlyParentLoops /\ Repeat!OneAtATime /\ Repeat!ExitStatus
  /\ program = "shell" => Shell!EndsForAReason
  /\ program = "foreach" => Foreach!AllOrEaten /\ Foreach!KilledByLine

\* shell.c, foreach.c: the lines of standard input run in order, none is passed
\* over but for those a command has read, and none runs after exit. Each runs
\* once, but for the shell on a file: a command that it cannot execute may give
\* lines back (shell.c:141), and then they run again, once for such a command.
LinesInOrder ==
  /\ program = "shell" => Shell!InOrderOnce /\ Shell!NothingSkipped /\ Shell!ExitIsLast
  /\ program = "foreach" => Foreach!InOrderOnce

\* shell.c, foreach.c, tmpl.c: what runs is what the text says. The shell cuts,
\* loses and joins no word of its line, and writes within argv; foreach puts its
\* line in the place of every {}; tmpl runs what is between the braces, but for
\* commands of L - 1 characters and more, which end there (tmpl.c:89), and what
\* is escaped does not run.
RunAsWritten ==
  /\ program = "command line" =>
       /\ CommandLine!ArgvifyLosesNothing /\ CommandLine!ArgvifyFits
       /\ CommandLine!SubstituteReplaces
  /\ program = "tmpl" => Tmpl!EscapedIsPlain /\ Tmpl!RunsCommands /\ Tmpl!RunsAll

\* Each program comes to its end: repeat with -n or once a command fails, the
\* shell at the end of an input of which no child gives back anything (it may
\* come to no end otherwise), foreach and tmpl always.
MustEnd ==
  \/ program = "repeat" /\ Repeat!MustEnd
  \/ program = "shell" /\ Shell!MustEnd
  \/ program \in {"foreach", "tmpl"}
Ended ==
  \/ program = "repeat" /\ Repeat!Ended
  \/ program = "shell" /\ Shell!Ended
  \/ program = "foreach" /\ Foreach!Ended
  \/ program = "tmpl" /\ pc = "done"
Terminates == MustEnd ~> Ended

-----------------------------------------------------------------------------
\* shell.c:92 "last entry in argv must be TC_NULL": behind the words there
\* is one more entry, the null pointer that execvp looks for.
ArgvTerminated == program = "command line" => CommandLine!ArgvTerminated

\* foreach.c:123 "executes a command for every line of standard input": there
\* is room for the command of every line.
SubstituteFits == program = "command line" => CommandLine!SubstituteFits
=============================================================================
