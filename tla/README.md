# Verification of tcutils

tcutils (`src/README.md`) is a collection of some hundred small Unix programs in
C. Each `src/src/*.c` is a program of its own with its own `main`; they share no
code but the library libtc (arguments, descriptors, strings), which is not in
the repository. This directory holds TLA+ models of the programs whose control
is hard to test, configurations with which TLC checks them, and proofs that
tlapm checks. Modules are written from the code; where a document, a comment or
an option's help says otherwise, a run shows the difference.

## 1. Inventory

A program keeps its state in the variables of `main`; what is shared is outside
of it: descriptors (also with its children), the file system, the terminal, the
clock. Programs meet in pipelines, through files, and as parent and child.

| Component | State it keeps | Operations | Interaction | What is hard | What makes it correct |
|---|---|---|---|---|---|
| tee | array of descriptors, index, character in hand | open, read, write all, close | files; the same file twice | every error path; offsets of one file opened twice | outputs agree, success means complete, nothing left open |
| sponge | the same | the same | the program before it in the pipe reads a file that sponge writes | interleaving, truncation before reading | complete copies |
| repeat | count, pids, statuses | fork, exec, wait | children that are copies of it | what a child does whose exec fails; wrap of the counter | one at a time, stop at the first failure |
| shell | stdio buffer, line, argument array | read, fork, exec, wait, cd, exit | children share its standard input | lines taken or given back by children | each line once, in order |
| foreach | stdio buffer, line, command | read, substitute, system | commands share its standard input | commands that read it | each line once |
| character filters | a few counters and flags each | one turn of getc/putc | pipes | ends of input, tab stops, backspace | columns, counts, words |
| line filters | lines held back: one, n, or all | one turn of getline | pipes, terminal (more) | boundaries of groups, pages, buffers | groups, last lines, differences |
| moo | farm of digits, line buffer | shuffle, guess | terminal | bounds of a line, what a cow is | only the secret wins |
| snek | array of segments, direction, apple | key, turn | terminal, timer | bounds of the array, growth, collisions | the snake is connected and does not cross itself |
| bfi | program, tape, two pointers | one instruction, searches for brackets | files | nested and broken brackets | it implements the language |
| mkdir, rmdir | the prefix of the path in work | mkdir, mkdir -p, rmdir | the file system, other processes at once | check and act, partial failure | what is reported is true |
| leave | time to leave, stage of the child | fork, sleep, message | clock, terminal that goes away | oversleeping, log out | messages in time, and an end |
| mugwump | positions, found flags, guesses | scan a point, judge | terminal | end of input, the root of zero | the judgement is right, what is told is a number |
| dc | stack, registers, number in hand | digit, arithmetic, load, store | terminal | full and empty stack, overflow, order of evaluation | it is a calculator |
| du, forage, loc | a recursion over paths, totals | visit | the tree of files, changed by others | links, entries that come and go | totals add up, nothing is left out |
| spell | trie, pointer into a buffer | load, check | files | pointer past the end of a line | no wrong word is missed |
| grep | a line buffer, counts | search a piece | files | long lines, last line | lines with the pattern are found |
| ls | directory entries, widths | scandir, stat, print | directory changed by others, terminal | stale entries, narrow terminals | complete, in rows that fit |
| seq | number, step, last | print, add | - | overflow, direction | no number is missing |
| cmp | position, line, byte | read two characters | files with errors | error or end of file | the first difference is told |
| tmpl | a command buffer | copy, escape, run | commands | escapes, long commands | what is run is what is in braces |
| scrub | pass, position, pattern index | write, force | disk, other writers | crash, failed writes, changed size | a pass is on the disk before the next |
| chef, extract, litc, hexdump | a word, a format, a flag, an offset | one word, line or piece | pipes | words cut by the buffer, `$` at the end of a format, last pieces | each word translated, each group in its place, each byte shown |
| cw2wav | samples of a dit and a dah, spaces | one character | files, a full disk | an index that is not set, spacing that is faster than the code | the text can be heard again |
| md2, gzinfo, logger | a growing buffer, a header, a message of fixed size | one character or argument | files, syslog | buffers at their limit, short headers | what is used is what was read |
| cat, head, sum, crc32, wc, lolcat, fgrep, touch, stat | operand, place in it, what is gathered | open, read, report | files that others change, or that are the output too | missing operands, changes meanwhile, a loop through the output | each whole, once, in order; totals |
| who, uptime, which | place in a table | look at the next entry | users, directories, other users | the table changes during the pass | nobody twice, nobody left out |
| rest, up | library, handle, headers, input | init, set, perform, release | a server, by libcurl | many ways out, each with something to give back | all given back, the right request, a true status |
| factor | number left, divisor | next factor | - | zero, one, primes | the prime factors, in order |
| xkcdpass, d6, uuidgen | offsets of the words, place in the phrase | draw | random numbers, clock | redrawing for ever, empty lists | what is drawn is what was asked for |

The other programs are listed with the reason in `PROJECT.json`, "components":
most are one call of the system or of libtc. The hazards are there too, each at
its line and with the properties that would notice it.

## 2. Modules

A program's module has its name; the variables have the names of the C
variables where there is one, `pc` is the place in the code, and an action is
one turn of its loop, one system call, or one step of another process. The
line numbers of every definition are in `PROJECT.json`, "map". A definition that
is preceded by "Mutant:" is no part of the specification: it is what the
operator after it would be with a plausible mistake in the code, and each
property is known to fail with one of them.

The programs are many and small, so one model-checking module takes several of
one kind: its first variable, `program`, says which of them runs, the variables
of the others have the value Unused, and its properties are those of the
component modules behind `program = "..." =>`. Nothing is shared between the
programs of one such module; variables of one name are one variable there.

| Checked by | Module | Part | Correspondence |
|---|---|---|---|
| itself | Fanout | abstract | a copier to several files: prefixes of the input, success when all are complete |
| | Tee | tee.c | refines Fanout; an action is one call on a descriptor, a descriptor is its offset |
| MC_Children | Repeat | repeat.c | one copy of the program's state for each process; fork copies it |
| | Shell | shell.c | the shared input is an offset, stdio a buffer of lines; children read, exit, and give back |
| | Foreach | foreach.c | loop and shared input; some lines are too long for the memory taken, after which the program may abort |
| | CommandLine | shell.c, foreach.c | argvify and the substitution of `{}`, on strings of characters |
| | Tmpl | tmpl.c | one turn of the loop a step, a command prints anything of a set |
| MC_Filters | CharFilters | 9 programs | one variable for each program's state and output; they are fed the same text |
| | LineFilters | 6 programs | the same for programs that read lines |
| | WordFilters | chef.c, extract.c, litc.c, hexdump.c | one turn of the main loop; the rules of chef as a table, in their order |
| | Morse | cw2wav.c | the sound as a sequence of tones and silences with their lengths in samples; the index that is not set is any number |
| | Gather | md2.c, gzinfo.c, logger.c | the memory with its garbage; what is digested, shown or logged in the end |
| MC_Files | Sponge | sponge.c | composed with the producer of its pipeline over one file system |
| | Mkdir | mkdir.c, rmdir.c | processes over the prefixes of one path, one system call a step |
| | TreeWalk | du.c, forage.c, loc.c | one recursion (a stack of frames) for three programs, a variable says which |
| | Ls | ls.c | entries of scandir, a file is what stat tells of it |
| | Scrub | scrub.c | the file in the cache and on the disk |
| | Operands | 9 programs | one loop over the operands, a variable says which program; names and contents of files apart; wc's total is counted along |
| | Lookups | who.c, uptime.c, which.c | a table of logins or directories, one entry a step, changed by others |
| | Request | rest.c, up.c | what is held of libcurl, one call a step; the server does or fails |
| MC_Terminal | Leave | leave.c | parent and child; time advances by any sleep that is long enough |
| | Mugwump | mugwump.c | positions are any, lines of a small set; a distance is a number, or the root of zero, which is none |
| | Desk | abstract | a calculator over endless zeros |
| | Dc | dc.c | refines Desk; 3 bits for 64, both orders of `pop() op pop()` |
| | Brainfuck | abstract | the language, a jump in one step |
| | Bfi | bfi.c | refines Brainfuck; searches for brackets character by character |
| | Moo | moo.c | random numbers are any number, guesses any line |
| | Draws | xkcdpass.c, d6.c, uuidgen.c | random numbers are any; a word list is a text with its line feeds |
| | Snek | snek.c | keys between turns; the array of segments, the screen |
| MC_Texts | Spell | spell.c | a trie as its set of prefixes; getline's buffer keeps what earlier lines left behind |
| | Grep | grep.c | pieces that fgets returns; regexec is external |
| | Cmp | cmp.c | two files, and where reading them fails: a file is what can be read of it |
| | SeqNumbers | seq.c | integers up to LLONG_MAX that wrap |
| | Factors | factor.c | one division a step |
| the modules that use it | Stepwise | definitions and lemmas | sequences element by element, see section 5 |

The model-checking module is parametric where its programs are: the constants
get their values for TLC from the operators MC... at its head, in the .cfg, and
the theorems are about the same composed `Spec` with any values. The proofs are
in Tee_proofs, and for the composed modules in MC_Children_proofs,
MC_Filters_proofs (with LineAndWordFilters_proofs, which holds those about the
filters of lines and words), MC_Terminal_proofs, MC_Texts_proofs and
MC_Files_proofs; Stepwise holds its own. Composition with the environment is in the component modules: Sponge has the producer of its pipe,
Shell, Foreach and Repeat have their children, Mkdir the other processes,
TreeWalk, Ls, Operands and Scrub whoever changes the files, Lookups the other
users, Request the server, Leave the clock and the user.

## 3. Runs

All runs that pass explore their whole state space; each takes less than a few
minutes.

| Run | Bounds | Shows |
|---|---|---|
| tee | 2 names (also twice the same), 2 characters of input and of old content, every call may fail | copies in lock step, success is complete, an end, refinement of Fanout |
| children | repeat: INT_MAX = 3, statuses 0 to 2, one process more than there ever are; shell: 3 lines of five kinds, on a pipe in any pieces or a file; foreach: 4 lines, any of them too long; argvify and `{}`: 4 characters; tmpl: 5 characters, commands of up to 2 | EndsForAReason (with one command at a time), LinesInOrder, RunAsWritten, Terminates |
| filters | 6 characters out of letter, blank, tab, newline, backspace; 4 lines, one kind of them empty; chef: 5 characters, words of 4 fit; extract: formats of 2 pieces, patterns with 2 groups; litc: 4 lines; hexdump: 5 bytes in pieces of 2; cw2wav: 3 characters, four pairs of speeds, garbage below, at and above 0; md2: 5 characters, a buffer of 2 that grows twice; gzinfo: bytes of 4 bits; logger: messages of 5 characters | ColumnsKept, TextKept, LinesChosen, TextHeard |
| files | sponge: 2 operands; mkdir: 2 processes, 3 components; du, forage, loc: 5 entries with a link to the root, two come and go; ls: 3 entries beside `.` and `..`, widths 0, 4 and 9; scrub: 4 bytes, 3 passes, one append; operands: 2 files, a directory and standard input, 2 operands of 2 characters, one change, a disk of 4; lookups: 3 entries, 2 changes, times around a minute, an hour, a day and before the boot; requests: 2 options -H, all methods and schemes | SuccessIsTrue, ReportIsTrue, ListingIsTrue, PassesReachDisk, Terminates |
| terminal | leave: calls around every limit of the reminders; mugwump: 2 on 3 by 3; dc: 3 bits, stack of 3, one register; bfi: all programs of 3 characters, those over brackets of 6; xkcdpass: all lists of 4 characters, 2 phrases; uuidgen: times of 3 bytes of 2 bits, and beyond; moo: 4 digits, 2 of them secret; snek: 4 rows, 5 columns, so 6 cells | RemindersInTime, JudgedFairly, NeverRetried (moo's test for a leading zero never fires), WonBySecret (only the secret, or the end of the input, ends a game of moo), the snake is Connected, SelfAvoiding, NeverTooLong for its array, and ScreenShows it, ImplementsLanguage (Bfi to Brainfuck, Dc to Desk), Terminates |
| texts | spell: 2 lines of 3 letters; grep: 5 characters, lines of 3 fit; cmp: 3 characters in each file; seq: LLONG_MAX = 7 (4 bits), all arguments; factor: 0 to 130 | MisspeltFound, MatchesFound, DifferenceFound, NumbersInSteps, Terminates |
| sponge_soaks, uniq_fields, grep_fixed, shell_argv, foreach_room | as above | violations, see below |

The bounds are the least ones at which each boundary of the code is passed: one
file more than one, a buffer that is filled and passed by one, a pattern that
begins anew, a group between two others, a counter that wraps. CHECK_DEADLOCK
is on everywhere: a program that has ended stutters by an action of its own
(`Done`).

### Where the code and its words differ

Runs with the expectation "violation" check one sentence of a help text or a
comment that the code does not keep:

* sponge_soaks: "soak up standard input and write to a file" (sponge.c:44): the
  operands are emptied before the input is read.
* uniq_fields: "skip comparison of the first N fields" (uniq.c:177): the loop
  counts every field twice and skips half of them.
* grep_fixed: "performed fixed string search (similar to fgrep)" (grep.c:77):
  -F takes a line that ends with the beginning of the pattern.
* shell_argv: "last entry in argv must be TC_NULL" (shell.c:92): argvify makes
  as many entries as there are words, and none for the null pointer.
* foreach_room: "executes a command for every line of standard input"
  (foreach.c:123): the memory for the command is taken by the length of the
  command (foreach.c:67), and the line is copied into it without a limit, so
  that a line longer than the command may be written beyond the end of it. What
  happens then is undefined: Foreach goes on, or is killed at that line or any
  later moment (`Aborted`).

More such places were met while the models were written. The models do what the
code does there, the properties are stated so that they leave these cases out,
and no run repeats them:

* shell: on a file, the child whose exec fails puts the shared offset back by
  what its copy of the buffer holds (shell.c:141), so that lines which have run
  run again, and the shell may come to no end.
* foreach: a command that reads standard input takes the lines that have not
  been buffered. tmpl cuts a command of TC_LINEMAX - 1 characters or more
  (tmpl.c:89).
* unexpand moves a text to the left whose leading blanks do not fill a tab stop;
  fold -b counts columns all the same; makewords drops a word that the end of
  the input ends; rev and grep drop the last character of a last line without a
  newline.
* uniq opens OUTPUT for reading, and writes nothing to it; tail of a text
  shorter than its number of lines prints buffers it has not filled; more on two
  rows prints two lines before its second pause; mismatch prints a repeated line
  that FILE has.
* mkdir -p fails when the last directory of the path exists already
  (mkdir.c:64 "as needed"); leave takes +1700 for 17 hours from now (leave.c:64
  "leave at 5pm"); of the second number of a line mugwump takes the last digit.
* du counts a directory once more for every link to it; forage does not find a
  link that leads nowhere; ls stops at an entry that has gone or is such a
  link, and has a colour for links that no entry ever gets.
* chef has rules for two letters at the place of the last one (chef.c:51 and
  60), which no word has, and drops a word that the end of its input or a full
  buffer ends; extract drops the last character of a last line without a newline; of
  an incomplete last piece hexdump shows zeros, too.
* cw2wav: between two words there are 3+5+3 units, not the 7 of the comment at
  cw2wav.c:40; the index at line 454 is not set before it is used, so that the
  first character may have a pause before it, or one of the later ones none, and
  runs together with the one before it (TextHeard says that no other does);
  with -f three times -w or more the characters run together.
* logger cuts the end of an argument that is longer than the room left behind
  all of them (logger.c:123 counts it twice), and still succeeds: TextKept
  allows the cut, and refuses any other loss; gzinfo shows a
  time after 2038 as one before 1970.
* xkcdpass draws for ever when no word begins with the letter of an acrostic,
  which is made lower case although the words are not; an empty list is a
  division by zero, and the end of the file a short phrase. An empty line is
  taken without a look before its beginning, which the code does take
  (xkcdpass.c:165 after 164).
* cat whose output is one of its operands fills the disk and succeeds; wc shows
  numbers after a variable it has not set, and no line for directories; stat
  goes on after a missing name, and for more than 1024 pebibytes reads past its
  table of units (stat.c:82). mktemp's -p takes no operand (mktemp.c:54 against
  its help at line 67).
* up's exit status is 0 after a failed request; when there is no handle it does
  not clean the library up. rest makes a GET of every method it does not know.
* spell reports ends of words after two or more blanks, and takes the last
  character of each entry for its newline (spell.c:70): without one, the last
  entry of a dictionary is known without its last character. seq accepts a
  sequence downwards and prints nothing; a sum that leaves the integers
  (seq.c:98) is undefined, and NumbersInSteps excepts it. cmp takes an error of
  reading for the end of its file; grep -F finds the empty pattern in no line
  (grep.c:51). sponge and scrub do not look at what writing returns.
* mugwump computes the distance of a mugwump just found although it is not
  shown (mugwump.c:96): the root of zero, no number. In the first turn it is
  shown if a mugwump hides at 0,0, where the player begins.
* ls that fails at an entry has shown those before it, and none behind it.

## 4. Fairness

Safety properties need none. Where a property says that something happens, the
fairness is weak fairness of the program's own steps: a process that can run is
run by the scheduler. Of its environment it is assumed only where the program
itself waits for it:

* tee, spell, seq, factor, bfi and mugwump: the program's steps only (`Runs` in
  MC_Texts and MC_Terminal). Nobody has to type a line.
* children: as long as anything can run, something runs (`WF_vars(Next)`): the
  program, its children, or what delivers its input. So commands end; one that
  does not is waited for for ever, as it should be.
* files: the same. sponge's producer, the processes of mkdir and the changes to
  a tree are all finite, so that none can keep the program from its turn for
  ever.
* leave: fork, the parent and the child. A sleep ends at some time.
* xkcdpass and d6: among the random numbers there is one that will do again and
  again (`WF_vars(Chance)` in MC_Terminal), where one exists at all: for
  xkcdpass only if the list has a line for each letter (`CanEnd`). This is what
  the programs rely on; a generator that leaves out a number for ever would
  refute it.

A shell on a file that can be rewound need not end: a child whose exec fails
leaves through exit handlers that may put the shared offset back, and the lines
are read again. `Terminates` asks for the end only on a pipe or of a script
without such a command (`MustEnd`). LinesInOrder speaks of both: lines run in
order and once, and where one runs again, a command before it could not be
executed, on a file, and no line has run again since. Files: `Terminates` takes
the request of rest or up for a step that ends; neither sets a timeout.

## 5. Proofs

Stepwise holds what is made of a sequence element by element (the value a step
function folds it to, the elements that are in a set, ascending numbers, powers,
the number that digits stand for), by explicit functions in place of recursive
operators, and the lemmas about it: induction over sets of numbers in place of
predicates, one element more at the end, division by a product, and chains: the
pieces that numbers in ascending order cut a sequence into, which together are
the sequence (Chained, FlattenedTo). The component modules state their
references with it.

tlapm proves what follows for all values of the constants that the assumptions
named in the modules allow. In each module `IInv` is the inductive invariant: it
is TypeOK, the properties, and what has to be added to them. The composed
modules' invariant says of every program that while it runs, its `IInv` holds;
a step is a step of one program, and leaves `program` alone.

* **Tee_proofs.** For any operands and inputs: types (TeeTypeCorrect), LockStep,
  SuccessIsComplete, ShownIsSaved (a reader of standard output sees nothing that
  is not yet in the files), NothingLeftOpen (every way out closes every
  descriptor), and the refinement of Fanout (initial states and steps; Fanout's
  fairness is none). The inductive invariant is the conjunction of these with
  OffsetsAgree, what is true between two writes of one character: the
  descriptors below the index have it, the others do not. Alone, "success means
  complete" is not inductive: it is true at the end because the copies have
  been in step all along.
* **MC_Children_proofs.** For any number of processes, lines and commands, and
  any INT_MAX: repeat runs one command at a time and ends for a reason
  (ChildrenEndForAReason, with the reasons of the shell, and of foreach, which is
  killed only for a line that is too long); shell and foreach run the
  lines in the order in which they are typed, and leave out none but those that a
  child has taken or that could not be started; lines run again only on a file,
  after a command of the shell's that could not be executed, and once for each
  (ChildrenLinesInOrder, ShellForgetsNothing). repeat needs OneChild (never two processes beside the
  first, and the other has the count of the moment when it was forked) and
  Counted; the shell needs NoGaps: of the lines that have been read each has been
  run, was taken by a child, is in hand, or is in the buffer with all before it,
  and this also after a child has put the offset back; and Follows, which says
  that the line in hand is behind the last that ran, unless one has been given
  back since.
* **MC_Filters_proofs.** For any text, lines, widths, tab stops, buffers and
  options. FiltersColumnsKept: expand leaves each character in its row and
  column; no line of fold is wider than the width, and it is broken just where
  the next character would not fit, nowhere else. The cursor after the output
  is the cursor after the input (SameCursor), and fold's counter is the column
  of what it printed (ColumnKnown). FiltersCharactersKept is what TextKept
  says of the programs that read characters: makewords needs that its buffer is empty
  just after what is no letter (WordInHand), wc and ts that they know the
  character before (BlankKnown, StampDue), rev that its buffer is the
  unfinished line (LineInHand). FiltersLinesChosen: uniq, tail, nl, more and
  mismatch, for whatever options, tail -n 0, a terminal without rows and an
  empty FILE among them: the last group is in hand and those before it are
  printed (GroupInHand); tail's ring holds the last lines by their age (Ring);
  nl's number counts the numbered lines (NlCounts); more has shown no more
  since the last pause than it counted (SincePause); what mismatch has passed in
  FILE is before the line in hand (Passed). extract and litc, with what has been
  written so far and how many fences were met (FilledSoFar, FencesCounted).
  FiltersWordsKept: chef translates each word, its buffer being the letters of
  the word in hand (LettersInHand), and hexdump shows each byte (PiecesShown).
* **MC_Terminal_proofs.** For every time to leave and any oversleeping, any
  board, any size of stack and width of numbers, any program and memory, any
  list of words, any screen: types of all programs (TerminalTypeCorrect); leave's messages
  are in time, none is left out, and it is quiet afterwards
  (LeaveRemindersInTime, by way of Clock and NextToCome: which message is the
  next, and that its time has not been missed by more than was overslept);
  mugwump judges each guess right, and after the first one tells a number of each
  mugwump that has not been found (NumbersTold: the root of zero, which it
  computes right after each hit, is never shown), xkcdpass and d6 take what was asked for, and the digits
  of uuidgen are those of the time (ChanceJudgedFairly; Dated says which bytes
  of the time the digits said so far stand for, by the rule for dividing twice).
  moo, for any number of digits: NeverRetried (the test for a leading zero is
  dead code) needs ZeroAhead: until the zero's own turn comes it is among the digits
  that have not been placed; WonBySecret. InterpretersImplementTheirLanguages is the
  refinement of Brainfuck by Bfi and of Desk by Dc: initial states map to
  initial states and every step to a step or a stutter. Bfi's invariant follows the
  search for a bracket: the counter is what the brackets passed by add up to, and
  none of them was the partner (GoesForward, GoesBack), so that where it stops is
  the bracket that the language's jump goes to. Desk counts without an end, so that
  Dc's stack needs only its pointer within its bounds.
  snek, on screens of any size: Connected, SelfAvoiding, NeverTooLong and
  ScreenShows. NeverTooLong is a counting argument: all but the last segment are
  different cells between the walls, so that there are at most as many; it needs
  SelfAvoiding, which in turn needs that the last two segments are the same right
  after an apple. ScreenShows needs both again: the cell that is cleared is the
  last segment's, and no other segment is there.
* **MC_Texts_proofs.** For any alphabet, dictionary, patterns, files, LLONG_MAX
  and numbers: types of all programs (TextsTypeCorrect). MisspeltWordsFound:
  spell passes over no word outside what it knows, and reports nothing it knows;
  between single blanks it reports words only. What it knows is the dictionary,
  or all of it and a last entry without its last character. The pointer goes through a buffer that also holds the ends of longer
  lines, so the invariant says that the line is in the buffer up to its NUL
  (InBuffer), that the words before the pointer have been looked up (SoFar), and
  that the pointer is at the beginning of a word (AtWord); the trie accepts
  what has been learnt and nothing else (Learnt). MatchingLinesFound: grep's pieces are lines
  while the program is between two lines (BetweenLines); the pattern may be empty. FirstDifferenceTold: cmp
  has read the same from both files up to `pos` (Agrees) and has told of the
  place where it stopped (Told); a file is what can be read of it before an error. NumbersPrintedInSteps: where no sum leaves the
  integers seq is one step behind what it will print (Behind) and leaves none out; factor
  prints primes in ascending order, whose product with what is left is the
  number: what is under trial leaves no smaller divisor (Trying, LastIsLeast),
  and the least divisor is prime because a divisor of a divisor divides. The
  lemmas that bounded sets have a least and a greatest member stand at the head.
* **MC_Files_proofs.** For any files, paths, operands, tables, processes,
  schedules and headers, where the names "pipe" and "total" are no files and
  the disk has room for what each file holds at the start.
  *Every copy, table and request is what it says* (FilesSuccessIsTrue). sponge:
  what the producer has given is what sponge has taken and what is still in the
  pipe (Flow); each operand's file holds what its descriptor should have got
  (Complete; two operands may name one file, so the offset of each has to be
  compared with the file and not with the other's), or, when writes are lost,
  some of it in the same order (Gaps). mkdir and rmdir: what was made is a tree
  and the prefixes walked are there, but for what an rmdir took meanwhile (Tree,
  Walked). The loop over operands: all that was passed has been named (Through),
  and a cat that reads what it writes comes no nearer to its end while there
  is room on the disk (Feeding). which: no directory that has had the program all
  the time has been passed by (GoneBy). rest and up: what is held before,
  during and after the request (Before, During, After), so that all of it is
  given back on every way out.
  *Logins* (FilesUsersMet): who and uptime meet whoever is there all the time
  once, and nobody who never was; the parts of the time since the boot add up.
  *scrub* (ScrubPassesReachDisk): wherever the machine stops, each byte on the
  disk is of the running pass or of the one before it, after the last pass nothing
  of the original is left, and what was appended is still there. The
  invariant has two layers, the cache between two passes at the position of the
  writer (CacheLayered) and the disk behind it (DiskLayered), and when a pass has
  been forced what lies between the two is gone (BehindKept).
  *Types* (FilesTypes) of all but the walks and ls, whose results are totals of
  a tree and layouts; with them, that nothing a request refers to is given
  back too soon. FilesInvariant is the invariant of the composition. This
  module takes tlapm about a quarter of an hour from nothing.

What the attempts found. Some invariants were not inductive because the
model was wrong, and the models were changed to what the code does: the
shell's child whose exec fails gives lines back by a seek that fails where it would
go before the beginning of the file (ExecFails had made the offset negative);
Draws had a phrase begun where none is asked for; a conjunct of Cmp's TypeOK had been swallowed by the
implication before it and said nothing; spell's invariant needs that no line is
read while the dictionary is loaded, which the code keeps and nothing had
stated.

What is only model-checked, and why:

* Liveness (every `Terminates`): there is no rule for fairness in this prover.
* RunAsWritten and TypeOK of MC_Children; of MC_Filters TypeOK, TextHeard and
  what TextKept says of md2, gzinfo and logger; of MC_Files
  ListingIsTrue, the types of the walks and of ls, and ReportIsTrue but for
  logins and times (those are FilesUsersMet): most of it compares with a
  reference over strings (argvify, the words of a message, the sound of a code),
  totals of trees or a layout in rows, and what these compute for every input is
  an induction over data. Where such an induction was worth it, it is made in
  Stepwise over sets of numbers. Two parts of ReportIsTrue are not of that kind
  and are not proved, see section 7.
* The runs that find a violation: each is one state or behaviour, and a proof
  would say no more.

## 6. What is not modelled

* libtc, regexec, popen, system, libcurl, getutxent, syslog, the kernel:
  external, by what the code expects.
* Wording, formats, colours (but where ls's are the question), help texts; of
  stat, who and gzinfo what they show beside the numbers the properties are
  about; the wave form of cw2wav; the digests of md2 and crc32.
* Memory that cannot be allocated, except where the code has a path for it that
  changes state.
* tail is taken to find getline's buffer unchanged at the end of the file; in
  spell what the buffer held before is part of the state.
* mugwump's iteration for the square root (floating point): a root is a number,
  but for that of zero. There the first turn divides zero by zero, and the loop
  ends because what is made of it as an integer is the same twice; C does not
  define that conversion.
* Errors of mkdir and rmdir that the tree does not give (permissions, a full
  disk), a failing fsync of scrub, timeouts of rest and up, which set none.
* du and loc open files that may block (a fifo); amounts above an exbibyte read
  past the table of units, as in ls and stat.
* dc: undefined order of evaluation is both orders; a division that traps ends
  the program.
* cmp, seq, grep and tmpl are modelled without the parsing of their options.
* In the lookups a change of a table is seen at once; a record that is read
  while it is written is not modelled.
* The programs that are left are one call of the system or of libtc (kill,
  link, sync, whoami, compress, nanoid), a fixed text or a pure conversion
  (duck, units, basename), or a loop of one character without other state
  (copy, lowercase, yes). Of two of them it is known that their loops compare
  an int with an unsigned number: hr on a terminal that has no columns, and
  pwgen with a negative argument, do not stop where one would expect. hr also
  divides by the length of its operand, which may be empty, and reads the
  window's size when standard output is no terminal and has none. They are too
  small for a model to say more than this sentence.

## 7. Plan

1. Proofs: what TextKept says of md2, gzinfo and logger, then cw2wav, whose
   sound is an integer division away from its code. Of MC_Files: InOrder of the walks (what is reported is no prefix of a path on
   the stack, and where it leaves such a path it is before all that is still to
   do there; a sorted enumeration exists because the rank of an entry is an
   injection), EachWhole of the operands, over `rows` in place of a selection
   of it, and wc's total by the lemmas of Stepwise.
2. Models: several starting points of loc, the pages of more with its terminal,
   several files for scrub, tail reading a file that grows.
3. Abstract specifications: a filter as a function of its input, for cat, rev
   and unix2dos at once; a queue of lines for shell and foreach.
