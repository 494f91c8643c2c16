------------------------------ MODULE MC_Files ------------------------------
(***************************************************************************)
(* The programs that work on a file system which others change meanwhile,  *)
(* one of which is chosen at the start: sponge, mkdir and rmdir, the walks *)
(* of du, forage and loc, ls, scrub, those that work through operands, and *)
(* those that look through a table; and rest and up, that ask a server.    *)
(* They share no state; variables of the same name are one variable here,  *)
(* the others are Unused.                                                  *)
(***************************************************************************)
EXTENDS Integers, Sequences, SequencesExt

CONSTANTS File, Character, Argvs, Inputs,                       \* of sponge
          Procs, MaxDepth, Commands,                            \* of mkdir and rmdir
          Byte, passes, Random, Original, MaxSize, MaxAppends,  \* of scrub
          OperandFiles, Dirs, Stdin, Contents, CommandLines, flag_n, Pattern, Code,
          BITS, DISK, FileChanges,                              \* of cat and the like
          TableSize, Elapsed, TableChanges,                     \* of who, uptime and which
          MaxHeaders                                            \* of rest

VARIABLES program, pc, status, i, at, out,
          argv, src, file, roff, pipe, fp, ch, lost,
          fs, run, removed, met,
          prog, present, touched, stack, total, files,
          dir, selector, flag_1, flag_l, flag_G, ws_col, dentries,
          cache, disk, st_size, pos, pati, appends, failed,
          tool, operands, sink, data, linked, acc, counted, rows, beginning,
          lookup, table, slot, pass, since, seen, nusers, always, ever, shown, result, changes,
          client, argc, method, scheme, opts, library, curl, headers, input, sent, step, rc

spongeVars == <<argv, src, file, roff, pipe, fp, ch, lost>>
mkdirVars == <<fs, run, removed, met>>
walkVars == <<prog, present, touched, stack, total, files>>
lsVars == <<dir, selector, flag_1, flag_l, flag_G, ws_col, dentries>>
scrubVars == <<cache, disk, st_size, pos, pati, appends, failed>>
operandVars == <<tool, operands, sink, data, linked, acc, counted, rows, beginning>>
lookupVars == <<lookup, table, slot, pass, since, seen, nusers, always, ever, shown, result>>
requestVars == <<client, argc, method, scheme, opts, library, curl, headers, input, sent, step, rc>>
oldVars == <<spongeVars, mkdirVars, walkVars, lsVars, scrubVars>>
newVars == <<operandVars, lookupVars, requestVars, changes>>
vars == <<program, pc, status, i, at, out, oldVars, newVars>>

\* For TLC: every pipeline over two files of at most two characters with at
\* most two operands.
MCArgvs == BoundedSeq({"f", "g"}, 2)
MCInputs == BoundedSeq({"a", "b"}, 2)
Sponge == INSTANCE Sponge WITH Byte <- Character

\* Two processes on a path of three components: all commands with one
\* argument, and mkdir and mkdir -p with some pairs of arguments.
MCCommands ==
  [cmd : {"mkdir", "mkdir -p", "rmdir"}, args : {<<k>> : k \in 1..3}]
    \cup [cmd : {"mkdir", "mkdir -p"}, args : {<<1, 2>>, <<2, 3>>, <<3, 2>>}]
Mkdir == INSTANCE Mkdir

\* Entry 0 is the root; 1 is a directory with a file 2 and a link 3 to the
\* root; 4 is a file in the root. Two of them may come or go.
Walk == INSTANCE TreeWalk WITH
  Entries <- 0..4,
  Kind <- [e \in 0..4 |-> IF e \in {0, 1} THEN "dir" ELSE IF e = 3 THEN "link" ELSE "file"],
  Parent <- [e \in 0..4 |-> IF e \in {2, 3} THEN 1 ELSE 0],
  Target <- [e \in 0..4 |-> IF e = 3 THEN 0 ELSE e],
  Size <- [e \in 0..4 |-> 2^e],
  Matching <- {1, 2, 4}, Hidden <- {2}, MAXLINKS <- 1, Changes <- 2

\* Up to three entries beside the directory and its parent, the names of one
\* to three characters; a terminal without columns, with room for one name
\* and for two.
SomeNames == <<".", "..", ".h", "a", "b">>
AFile(link, letter, x, known) == [link |-> link, letter |-> letter, x |-> x, known |-> known]
Ls == INSTANCE Ls WITH
  Names <- SomeNames,
  Width <- [n \in ToSet(SomeNames) |-> IF n = "b" THEN 3 ELSE IF n \in {"..", ".h"} THEN 2 ELSE 1],
  Files <- {AFile(FALSE, "d", TRUE, TRUE), AFile(FALSE, "-", TRUE, TRUE), AFile(TRUE, "-", FALSE, TRUE),
            AFile(FALSE, "p", FALSE, FALSE), AFile(TRUE, "none", FALSE, TRUE)},
  Columns <- {0, 4, 9}

\* Files of up to four bytes, one more than a pattern; a random pass and two
\* of patterns that differ in their phase; one byte appended.
MCByte == {"r", "x", "y", "z", "o"}
MCPasses == <<<<>>, <<"x", "y", "z">>, <<"y", "z", "x">>>>
MCRandom == {"r"}
Scrub == INSTANCE Scrub

\* Two files, a directory and standard input, no, one and two operands; one
\* change by others, and room for four characters on the disk.
MCFiles == {"f", "g", "d", "stdin"}
MCContents == BoundedSeq({"a", "\n"}, 2) \cup {<<" ", "a">>}
MCCommandLines == {<<"stdin">>, <<"f">>, <<"f", "g">>, <<"f", "f">>, <<"d", "f">>, <<"f", "d">>}
MCCode == [c \in {"a", " ", "\n"} |-> CASE c = "a" -> 2 [] c = " " -> 6 [] OTHER -> 3]
Operands == INSTANCE Operands WITH
  Files <- OperandFiles, Operands <- CommandLines, MaxChanges <- FileChanges, start <- beginning,
  total <- counted

\* Three entries, of which others change two; times since the boot around the
\* limits of minutes, hours and days, and before the boot.
MCElapsed == {0 - 61, 0, 59, 60, 3599, 3600, 86399, 86400, 90061, 172800}
Lookups == INSTANCE Lookups WITH Size <- TableSize, MaxChanges <- TableChanges

Request == INSTANCE Request

ASSUME SpongeAssumed == Sponge!SpongeAssumption
ASSUME MkdirAssumed == Mkdir!CommandsAssumption
ASSUME WalkAssumed == Walk!TreeAssumption
ASSUME LsAssumed == Ls!LsAssumption
ASSUME OperandsAssumed == Operands!OperandsAssumption
ASSUME LookupsAssumed == Lookups!LookupsAssumption
ASSUME RequestAssumed == Request!RequestAssumption
ASSUME ScrubAssumed == Scrub!ScrubAssumption

Unused == "unused"
UnusedSponge == /\ argv = Unused /\ src = Unused /\ file = Unused /\ roff = Unused
                /\ pipe = Unused /\ fp = Unused /\ ch = Unused /\ lost = Unused
UnusedMkdir == fs = Unused /\ run = Unused /\ removed = Unused /\ met = Unused
UnusedWalk == /\ prog = Unused /\ present = Unused /\ touched = Unused
              /\ stack = Unused /\ total = Unused /\ files = Unused
UnusedLs == /\ dir = Unused /\ selector = Unused /\ flag_1 = Unused /\ flag_l = Unused
            /\ flag_G = Unused /\ ws_col = Unused /\ dentries = Unused
UnusedScrub == /\ cache = Unused /\ disk = Unused /\ st_size = Unused /\ pos = Unused
               /\ pati = Unused /\ appends = Unused /\ failed = Unused
UnusedOperands == /\ tool = Unused /\ operands = Unused /\ sink = Unused /\ data = Unused
                  /\ linked = Unused /\ acc = Unused /\ counted = Unused /\ rows = Unused /\ beginning = Unused
UnusedLookups == /\ lookup = Unused /\ table = Unused /\ slot = Unused /\ pass = Unused
                 /\ since = Unused /\ seen = Unused /\ nusers = Unused /\ always = Unused
                 /\ ever = Unused /\ shown = Unused /\ result = Unused
UnusedRequest == /\ client = Unused /\ argc = Unused /\ method = Unused /\ scheme = Unused
                 /\ opts = Unused /\ library = Unused /\ curl = Unused /\ headers = Unused
                 /\ input = Unused /\ sent = Unused /\ step = Unused /\ rc = Unused
UnusedOld == UnusedSponge /\ UnusedMkdir /\ UnusedWalk /\ UnusedLs /\ UnusedScrub
UnusedNew == UnusedOperands /\ UnusedLookups /\ UnusedRequest /\ changes = Unused

Init ==
  \/ /\ program = "sponge" /\ Sponge!Init /\ at = Unused /\ out = Unused
     /\ UnusedMkdir /\ UnusedWalk /\ UnusedLs /\ UnusedScrub /\ UnusedNew
  \/ /\ program = "mkdir" /\ Mkdir!Init /\ pc = Unused /\ out = Unused
     /\ UnusedSponge /\ UnusedWalk /\ UnusedLs /\ UnusedScrub /\ UnusedNew
  \/ /\ program = "walk" /\ Walk!Init /\ pc = Unused /\ status = Unused /\ i = Unused /\ at = Unused
     /\ UnusedSponge /\ UnusedMkdir /\ UnusedLs /\ UnusedScrub /\ UnusedNew
  \/ /\ program = "ls" /\ Ls!Init /\ status = Unused /\ at = Unused
     /\ UnusedSponge /\ UnusedMkdir /\ UnusedWalk /\ UnusedScrub /\ UnusedNew
  \/ /\ program = "scrub" /\ Scrub!Init /\ status = Unused /\ at = Unused /\ out = Unused
     /\ UnusedSponge /\ UnusedMkdir /\ UnusedWalk /\ UnusedLs /\ UnusedNew
  \/ /\ program = "operands" /\ Operands!Init /\ pc = Unused
     /\ UnusedOld /\ UnusedLookups /\ UnusedRequest
  \/ /\ program = "lookup" /\ Lookups!Init
     /\ pc = Unused /\ status = Unused /\ i = Unused /\ at = Unused /\ out = Unused
     /\ UnusedOld /\ UnusedOperands /\ UnusedRequest
  \/ /\ program = "request" /\ Request!Init
     /\ pc = Unused /\ status = Unused /\ i = Unused /\ at = Unused /\ out = Unused
     /\ UnusedOld /\ UnusedOperands /\ UnusedLookups /\ changes = Unused

SpongeStep == program = "sponge" /\ Sponge!Next
              /\ UNCHANGED <<program, at, out, mkdirVars, walkVars, lsVars, scrubVars, newVars>>
MkdirStep == program = "mkdir" /\ Mkdir!Next
             /\ UNCHANGED <<program, pc, out, spongeVars, walkVars, lsVars, scrubVars, newVars>>
WalkStep == program = "walk" /\ Walk!Next
            /\ UNCHANGED <<program, pc, status, i, at, spongeVars, mkdirVars, lsVars, scrubVars, newVars>>
LsStep == program = "ls" /\ Ls!Next
          /\ UNCHANGED <<program, status, at, spongeVars, mkdirVars, walkVars, scrubVars, newVars>>
ScrubStep == program = "scrub" /\ Scrub!Next
             /\ UNCHANGED <<program, status, at, out, spongeVars, mkdirVars, walkVars, lsVars, newVars>>

OperandStep == program = "operands" /\ Operands!Next
               /\ UNCHANGED <<program, pc, oldVars, lookupVars, requestVars>>
LookupStep == program = "lookup" /\ Lookups!Next
              /\ UNCHANGED <<program, pc, status, i, at, out, oldVars, operandVars, requestVars>>
RequestStep == program = "request" /\ Request!Next
               /\ UNCHANGED <<program, pc, status, i, at, out, oldVars, operandVars, lookupVars, changes>>

Next == \/ SpongeStep \/ MkdirStep \/ WalkStep \/ LsStep \/ ScrubStep
        \/ OperandStep \/ LookupStep \/ RequestStep

\* Whatever can go on does; what others may do to the files is bounded.
Spec == Init /\ [][Next]_vars /\ WF_vars(Next)

-----------------------------------------------------------------------------
TypeOK ==
  /\ program = "sponge" => Sponge!TypeOK
  /\ program = "mkdir" => Mkdir!TypeOK
  /\ program = "walk" => Walk!TypeOK
  /\ program = "ls" => Ls!TypeOK
  /\ program = "scrub" => Scrub!TypeOK
  /\ program = "operands" => Operands!TypeOK
  /\ program = "lookup" => Lookups!TypeOK
  /\ program = "request" => Request!TypeOK /\ Request!NothingGoneTooSoon

\* sponge.c: after a success each operand holds what the producer gave, where
\* no write was lost and the producer does not read an operand; a lost write
\* leaves a gap and nothing else. mkdir.c: after a success the directories are
\* there, but for what an rmdir took; a failure has a reason among those that
\* the tree itself can give (EEXIST, ENOENT, ENOTDIR).
\* cat.c and the like: the first operand that is missing is the reason of a
\* failure; cat that reads what it writes ends only with a full disk. rest.c,
\* up.c: rest's status is that of the request, which is the one asked for, and
\* all that was taken for it is given back on every way out. which.c: a search
\* fails only when no directory has had the program all the time.
SuccessIsTrue ==
  /\ program = "sponge" => Sponge!CompleteUnlessLost /\ Sponge!OnlyGaps
  /\ program = "mkdir" => Mkdir!SuccessMeansThere /\ Mkdir!FailsForAReason
  /\ program = "operands" => Operands!FailsAtFirst /\ Operands!FeedsItself
  /\ program = "lookup" => Lookups!FirstFound
  /\ program = "request" =>
       Request!AllGivenBack /\ Request!StatusTells /\ Request!RequestAsAsked

\* du.c, forage.c, loc.c: while the tree changes, the report adds up, is in
\* order, and has all that was there from the beginning to the end. cat.c,
\* head.c, wc.c, sum.c and the like: while the files change, all that was in
\* them from the beginning is read, once and in order, the numbers are those
\* of what was read, and sum tells apart what differs in one character.
\* who.c, uptime.c: who is logged in all the time is met once.
ReportIsTrue ==
  /\ program = "walk" => Walk!AddsUp /\ Walk!InOrder /\ Walk!Complete
  /\ program = "operands" => /\ Operands!EachWhole /\ Operands!InOrder
                             /\ Operands!WcAddsUp /\ Operands!SumDetects
  /\ program = "lookup" => Lookups!UsersMet /\ Lookups!TimeAddsUp

\* ls.c: a listing that is complete has what was asked for; one that has failed
\* lacks nothing but what stands behind an entry that could not be looked up.
\* The rows fit the terminal, which has its own colour back in the end.
ListingIsTrue ==
  program = "ls" => Ls!ListsDirectory /\ Ls!MissingBehindLost /\ Ls!RowsFit /\ Ls!ColourOff

\* scrub.c: on the disk there is always the running pass over the one before
\* it, in the end the last one, and what others have appended. An append is on
\* the disk at once, and fsync does not fail.
PassesReachDisk == program = "scrub" => Scrub!Layered /\ Scrub!Overwritten /\ Scrub!KeepsAppended

\* Each program comes to its end, whichever process is faster, and even where
\* links lead back to where a walk came from. rest and up set no timeout: their
\* request is one step, which ends when the server or the connection does.
Ended ==
  \/ program \in {"sponge", "ls", "scrub"} /\ pc \in {"exit", "done", "failed", "trap", "crashed"}
  \/ program = "mkdir" /\ \A p \in Procs : status[p] # "run"
  \/ program = "walk" /\ stack = <<>>
  \/ program = "operands" /\ status # "run"
  \/ program = "lookup" /\ result # "none"
  \/ program = "request" /\ step = "exit"
Terminates == <>Ended

\* sponge.c:44 "soak up standard input and write to a file".
SoaksUp == [][program = "sponge" => Sponge!SoaksUp]_vars
=============================================================================
