---------------------------- MODULE MC_Terminal ----------------------------
(***************************************************************************)
(* The programs that work for one user at a terminal, one of which is      *)
(* chosen at the start: leave, mugwump, dc, the interpreter bfi, moo,      *)
(* those that draw by chance, and snek. They share no state; variables of  *)
(* the same name are one variable here, the others are Unused.             *)
(***************************************************************************)
EXTENDS Integers, Sequences, SequencesExt

CONSTANTS Whens, Nows, Oversleeps, LATE,   \* of leave
          N, NWUMPS, Lines,                \* of mugwump
          STSZ, LONG_MAX, MAXDIGITS, DigitKeys, Names,   \* of dc
          Programs, MEMSZ, INTSZ, TC_EOF,  \* of bfi
          MooN, SECRET,                    \* of moo
          WordLists, Acrostics, None, NWords, Phrases, TcTolower, Times, BYTES, DIGIT,  \* of xkcdpass, uuidgen
          ROWS, COLS                       \* of snek

VARIABLES program, pc, n, feof,
          parent, when, start, now, leave, ss, tty, slack, said,
          mugwumps, found, player, told, i, typed, outcome,
          stack, reg,
          p, l, xc, x, io, mode, at,
          farm, line, bulls, cows,
          game, dict, acrostic, words, j, drawn, ts,
          sk, length, direction, apple, screen, gameover

leaveVars == <<parent, when, start, now, leave, ss, tty, slack, said>>
mugwumpVars == <<mugwumps, found, player, told>>
dcVars == <<stack, reg>>
bfiVars == <<p, l, xc, x, io, mode>>
mooVars == <<farm, line, bulls, cows>>
drawVars == <<game, dict, acrostic, words, j, drawn, ts>>
snekVars == <<sk, length, direction, apple, screen, gameover>>
vars == <<program, pc, n, feof, i, typed, outcome, at, leaveVars, mugwumpVars, dcVars, bfiVars, mooVars,
          drawVars, snekVars>>

\* For TLC: calls at 16:54, some time later and at 17:00, times to leave around each of
\* the limits of the reminders, in both forms, and past ones.
Clock(h, m, s) == h * 3600 + m * 60 + s
MCWhens ==
  [relative : {FALSE}, hhmm : {1655, 1660, 1701, 1708, -5}]
    \cup [relative : {TRUE}, hhmm : {-3, 0, 1, 4, 5, 6, 1700}]
MCNows == {Clock(16, 54, 0), Clock(16, 55, 17), Clock(17, 0, 0)}
MCOversleeps == {0, 7}
Leave == INSTANCE Leave

\* For TLC: two mugwumps on a board of three times three; lines without a number, with
\* one and with two, on the board and off it.
MCLines == {<<>>, <<1>>, <<1, 12>>, <<12>>, <<5, 1>>} \cup (0..2) \X (0..2)
Mugwump == INSTANCE Mugwump

\* For TLC: values of three bits, a stack of three, numbers of up to two digits, one
\* register.
Dc == INSTANCE Dc WITH Digits <- DigitKeys

\* For TLC: all programs of at most three characters, comments and broken ones
\* among them, and all of at most six that are made of brackets and of what
\* makes a cell zero or not.
MCEOF == -1
MCPrograms ==
  BoundedSeq({"+", "-", ".", ",", ">", "<", "[", "]", "a"}, 3)
    \cup BoundedSeq({",", "-", "[", "]"}, 6)
Bfi == INSTANCE Bfi

\* For TLC: a farm of four digits of which two are the secret.
Moo == INSTANCE Moo WITH N <- MooN, b <- bulls, c <- cows

\* For TLC: all word lists of up to four characters, with empty lines, lines
\* that end with a carriage return, and no line feed at the end; two phrases.
MCWordLists == BoundedSeq({"a", "A", "'", "\r", "\n"}, 4)
MCAcrostics == {None, <<>>, <<"a">>, <<"A", "'">>}
MCTcTolower == [c \in {"a", "A", "'"} |-> IF c = "A" THEN "a" ELSE c]
MCTimes == 0..70
Draws == INSTANCE Draws WITH said <- drawn

\* For TLC: a screen of four times five, six cells of which are between the walls.
Snek == INSTANCE Snek WITH my <- ROWS, mx <- COLS, l <- length, d <- direction, a <- apple, over <- gameover

ASSUME DrawsAssumed == Draws!DrawsAssumption
ASSUME LeaveAssumed == Leave!LeaveAssumption
ASSUME MugwumpAssumed == Mugwump!MugwumpAssumption
ASSUME DcAssumed == Dc!DcAssumption
ASSUME BfiAssumed == Bfi!BfiAssumption
ASSUME MooAssumed == Moo!MooAssumption
ASSUME SnekAssumed == Snek!ScreenAssumption

Unused == "unused"
UnusedLeave == /\ parent = Unused /\ when = Unused /\ start = Unused /\ now = Unused /\ leave = Unused
               /\ ss = Unused /\ tty = Unused /\ slack = Unused /\ said = Unused
UnusedMugwump == mugwumps = Unused /\ found = Unused /\ player = Unused /\ told = Unused
UnusedDc == stack = Unused /\ reg = Unused
UnusedBfi == /\ p = Unused /\ l = Unused /\ xc = Unused /\ x = Unused
             /\ io = Unused /\ mode = Unused
UnusedMoo == farm = Unused /\ line = Unused /\ bulls = Unused /\ cows = Unused
UnusedDraws == /\ game = Unused /\ dict = Unused /\ acrostic = Unused /\ words = Unused
               /\ j = Unused /\ drawn = Unused /\ ts = Unused
UnusedSnek == /\ sk = Unused /\ length = Unused /\ direction = Unused /\ apple = Unused
              /\ screen = Unused /\ gameover = Unused
UnusedGame == i = Unused /\ outcome = Unused

Init ==
  \/ /\ program = "leave" /\ Leave!Init /\ feof = Unused /\ UnusedGame /\ typed = Unused
     /\ at = Unused /\ UnusedMugwump /\ UnusedDc /\ UnusedBfi /\ UnusedMoo /\ UnusedDraws /\ UnusedSnek
  \/ /\ program = "mugwump" /\ Mugwump!Init /\ n = Unused
     /\ at = Unused /\ UnusedLeave /\ UnusedDc /\ UnusedBfi /\ UnusedMoo /\ UnusedDraws /\ UnusedSnek
  \/ /\ program = "dc" /\ Dc!Init /\ UnusedGame /\ typed = Unused
     /\ at = Unused /\ UnusedLeave /\ UnusedMugwump /\ UnusedBfi /\ UnusedMoo /\ UnusedDraws /\ UnusedSnek
  \/ /\ program = "bfi" /\ Bfi!Init /\ n = Unused /\ feof = Unused /\ UnusedGame /\ typed = Unused
     /\ UnusedLeave /\ UnusedMugwump /\ UnusedDc /\ UnusedMoo /\ UnusedDraws /\ UnusedSnek
  \/ /\ program = "moo" /\ Moo!Init /\ n = Unused /\ outcome = Unused /\ at = Unused
     /\ UnusedLeave /\ UnusedMugwump /\ UnusedDc /\ UnusedBfi /\ UnusedDraws /\ UnusedSnek
  \/ /\ program = "draws" /\ Draws!Init /\ pc = Unused /\ n = Unused /\ feof = Unused /\ typed = Unused
     /\ UnusedLeave /\ UnusedMugwump /\ UnusedDc /\ UnusedBfi /\ UnusedMoo /\ UnusedSnek
  \/ /\ program = "snek" /\ Snek!Init /\ pc = Unused /\ n = Unused /\ feof = Unused /\ UnusedGame
     /\ typed = Unused /\ at = Unused
     /\ UnusedLeave /\ UnusedMugwump /\ UnusedDc /\ UnusedBfi /\ UnusedMoo /\ UnusedDraws

OnlyLeave == /\ program = "leave"
             /\ UNCHANGED <<program, feof, i, typed, outcome, at, mugwumpVars, dcVars, bfiVars, mooVars, drawVars,
                            snekVars>>
OnlyMugwump == /\ program = "mugwump"
               /\ UNCHANGED <<program, n, at, leaveVars, dcVars, bfiVars, mooVars, drawVars,
                            snekVars>>
OnlyDc == /\ program = "dc"
          /\ UNCHANGED <<program, i, typed, outcome, at, leaveVars, mugwumpVars, bfiVars, mooVars, drawVars,
                            snekVars>>
OnlyBfi == /\ program = "bfi"
           /\ UNCHANGED <<program, n, feof, i, typed, outcome, leaveVars, mugwumpVars, dcVars, mooVars, drawVars,
                            snekVars>>
OnlyMoo == /\ program = "moo"
           /\ UNCHANGED <<program, n, outcome, at, leaveVars, mugwumpVars, dcVars, bfiVars, drawVars,
                            snekVars>>
OnlyDraws == /\ program = "draws"
             /\ UNCHANGED <<program, pc, n, feof, typed, leaveVars, mugwumpVars, dcVars, bfiVars, mooVars,
                            snekVars>>
OnlySnek == /\ program = "snek"
            /\ UNCHANGED <<program, pc, n, feof, i, typed, outcome, at, leaveVars, mugwumpVars, dcVars,
                           bfiVars, mooVars, drawVars>>

Next == \/ OnlyLeave /\ Leave!Next
        \/ OnlyMugwump /\ Mugwump!Next
        \/ OnlyDc /\ Dc!Next
        \/ OnlyBfi /\ Bfi!Next
        \/ OnlyMoo /\ Moo!Next
        \/ OnlyDraws /\ Draws!Next
        \/ OnlySnek /\ Snek!Next

\* The programs run on; nobody has to type anything.
Runs == \/ OnlyLeave /\ Leave!Next
        \/ OnlyMugwump /\ Mugwump!Program
        \/ OnlyBfi /\ Bfi!Search
        \/ OnlyMoo /\ Moo!Program
        \/ OnlyDraws /\ Draws!Program
        \/ OnlySnek /\ Snek!Turn

\* Random numbers that will do come again and again.
Chance == OnlyDraws /\ Draws!Draws

Spec == Init /\ [][Next]_vars /\ WF_vars(Runs) /\ WF_vars(Chance)

-----------------------------------------------------------------------------
\* Among the types: dc's stack and bfi's search stay inside their arrays, and
\* no game has more guesses than it should; among moo's, that there are never
\* more bulls and cows than places, and each digit is in the farm once.
TypeOK ==
  /\ program = "leave" => Leave!TypeOK
  /\ program = "mugwump" => Mugwump!TypeOK
  /\ program = "dc" => Dc!TypeOK
  /\ program = "bfi" => Bfi!TypeOK /\ Bfi!FindsBracket
  /\ program = "moo" => Moo!TypeOK /\ Moo!FarmPermuted
  /\ program = "draws" => Draws!TypeOK
  /\ program = "snek" => Snek!TypeOK

\* leave.c: each message comes when it is due, but for what was slept too
\* long, none is left out, and they stop when the user has gone.
RemindersInTime ==
  program = "leave" => Leave!OnTime /\ Leave!NoneLeftOut /\ Leave!QuietAfterwards

\* mugwump.c: a game is won exactly when every mugwump has been found, lost
\* only with all guesses spent, and after a guess no distance is told that is
\* not a number, though one is computed for each that was hit. xkcdpass.c, d6.c, uuidgen.c: what is drawn is taken if, and
\* only if, it is what was asked for, and what is shown is what was drawn.
JudgedFairly ==
  /\ program = "mugwump" => Mugwump!FairlyJudged /\ Mugwump!NumbersTold
  /\ program = "draws" => Draws!PhrasesOfWords /\ Draws!OneOfSix /\ Draws!InOrderOfTime

\* moo.c: the test for a leading zero in the shuffle is never true: it neither
\* repeats a turn for ever nor keeps a zero out of the first place.
NeverRetried == program = "moo" => Moo!NeverRetried

\* moo.c: nobody wins by a line that is too short, whatever it leaves in the
\* buffer: a game is over by the secret or by the end of the input.
WonBySecret == program = "moo" => Moo!WonBySecret

\* snek.c: while the game goes on the whole snake is between the walls, and
\* each of its segments next to the one before it.
Connected == program = "snek" => Snek!Connected

\* snek.c: the snake does not cross itself, but for its last segment right
\* after an apple that lay in the very cell that the tail was leaving.
SelfAvoiding == program = "snek" => Snek!SelfAvoiding

\* snek.c: the length of the snake, which is never tested, fits its array on
\* every screen with up to 2046 cells between the walls.
NeverTooLong == program = "snek" => Snek!NeverTooLong

\* snek.c: the screen shows the snake, at most one apple, and the walls.
ScreenShows == program = "snek" => Snek!ScreenShows

\* bfi.c implements the language Brainfuck, as far as programs are well-formed,
\* and dc.c the calculator Desk, of which no result is ever without room.
ImplementsLanguage ==
  /\ program = "bfi" => Bfi!LanguageInit
  /\ program = "dc" => Dc!DeskInit
  /\ [][/\ program = "bfi" => Bfi!LanguageStep
        /\ program = "dc" => Dc!DeskStep /\ Dc!ResultKept]_vars

\* leave comes to its end, mugwump once its input has ended, each search of
\* bfi for a bracket, moo's shuffle, and xkcdpass if its list has words for
\* the acrostic.
Waits == \/ program = "leave"
         \/ program = "mugwump" /\ feof
         \/ program = "bfi" /\ mode \in {"forward", "back"}
         \/ program = "moo" /\ pc = "shuffle"
         \/ program = "draws" /\ Draws!CanEnd
Ended == \/ program = "leave" /\ pc = "done" /\ parent = "done"
         \/ program = "mugwump" /\ pc = "done"
         \/ program = "bfi" /\ mode \notin {"forward", "back"}
         \/ program = "moo" /\ pc = "guess"
         \/ program = "draws" /\ Draws!Ended
Terminates == Waits ~> Ended
=============================================================================
