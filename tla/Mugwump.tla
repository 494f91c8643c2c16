------------------------------- MODULE Mugwump -------------------------------
(***************************************************************************)
(* mugwump: NWUMPS mugwumps hide on a board of N times N, and the player   *)
(* has N guesses; before each the program tells how far from the last one  *)
(* those are that have not been found. Then, perhaps, another game.        *)
(***************************************************************************)
EXTENDS Integers, Sequences, FiniteSets

CONSTANTS N,       \* side of the board and number of guesses: 10
          NWUMPS,  \* 4
          Lines    \* what the player may type: the numbers of a line

MugwumpAssumption == N \in 2..10 /\ NWUMPS \in Nat \ {0} /\ Lines \subseteq Seq(Nat)

VARIABLES pc,       \* "tell", "ask", "look", "again" or "done"
          mugwumps, found, player, i,
          told,     \* history: what was told of each mugwump before this guess
          typed,    \* history: the last line that was read
          feof,     \* the end of the input has been seen
          outcome   \* of the last game: "none", "win", "lose" or "left"

vars == <<pc, mugwumps, found, player, i, told, typed, feof, outcome>>

Wumps == 1..NWUMPS
Square == [x : 0..N - 1, y : 0..N - 1]

\* scan_point: x is the number at the first digit, and y the one at each
\* digit after it, so that in the end it is the last digit of the line alone.
ScanPoint(s) ==
  [x |-> IF s = <<>> THEN -1 ELSE s[1],
   y |-> IF s = <<>> \/ (Len(s) = 1 /\ s[1] < 10) THEN -1 ELSE s[Len(s)] % 10]

OnBoard(p) == p \in Square

Play ==
  /\ mugwumps' \in [Wumps -> Square] /\ found' = {}
  /\ player' = [x |-> 0, y |-> 0] /\ i' = 0 /\ told' = <<>>
  /\ pc' = "tell"

Init ==
  /\ pc = "tell" /\ mugwumps \in [Wumps -> Square] /\ found = {}
  /\ player = [x |-> 0, y |-> 0] /\ i = 0 /\ told = <<>> /\ typed = <<>>
  /\ feof = FALSE /\ outcome = "none"

GuessLeft == i < N

\* dist, asked for every mugwump, the found ones too. The root of zero is no
\* number: its first turn divides zero by zero, and the loop ends there, since
\* what the build makes an integer of is the same before and after (C defines
\* no such conversion). Any other root is a number.
Dist(j) == IF mugwumps[j] = player THEN "nan" ELSE "number"

\* Mutant: the number is shown whether the mugwump has been found or not.
ToldOfAll(j) == Dist(j)

ToldOf(j) == IF j \in found THEN "found" ELSE Dist(j)

\* The distances are told; after the last of the N guesses the game is lost.
Tell ==
  /\ pc = "tell" /\ GuessLeft /\ pc' = "ask"
  /\ told' = [j \in Wumps |-> ToldOf(j)]
  /\ UNCHANGED <<mugwumps, found, player, i, typed, feof, outcome>>

Lose ==
  /\ pc = "tell" /\ ~GuessLeft /\ pc' = "again" /\ outcome' = "lose"
  /\ UNCHANGED <<mugwumps, found, player, i, told, typed, feof>>

\* A line of input, the last one perhaps without a newline: then the end of
\* the input has been seen, and even a bad move counts.
Ask == \E s \in Lines, newline \in BOOLEAN :
  /\ pc = "ask" /\ ~feof
  /\ typed' = s /\ player' = ScanPoint(s) /\ feof' = ~newline
  /\ pc' = IF OnBoard(player') \/ feof' THEN "look" ELSE "ask"
  /\ UNCHANGED <<mugwumps, found, i, told, outcome>>

NoLine ==
  /\ pc = "ask" /\ feof' = TRUE
  /\ pc' = "again" /\ outcome' = "left"
  /\ UNCHANGED <<mugwumps, found, player, i, told, typed>>

\* Mutant: all have to be there at once.
AllAtOnce == \A j \in Wumps : mugwumps[j] = player

Hit == {j \in Wumps : mugwumps[j] = player}
AllFound == found' = Wumps

Look ==
  /\ pc = "look" /\ found' = found \cup Hit
  /\ IF AllFound THEN pc' = "again" /\ outcome' = "win" /\ UNCHANGED i
     ELSE pc' = "tell" /\ i' = i + 1 /\ UNCHANGED outcome
  /\ UNCHANGED <<mugwumps, player, told, typed, feof>>

\* Mutant: the end of the input is not asked for first.
GoesOn == FALSE

Finished == feof

\* done: at the end of the input it is over; an end of the input that comes
\* as the answer is no "n", and begins a game.
Quit ==
  /\ pc = "again" /\ (Finished \/ ~feof) /\ pc' = "done"
  /\ UNCHANGED <<mugwumps, found, player, i, told, typed, feof, outcome>>

Again ==
  /\ pc = "again" /\ ~Finished /\ feof' \in {feof, TRUE}
  /\ Play /\ UNCHANGED <<typed, outcome>>

Done == pc = "done" /\ UNCHANGED vars

Program == Tell \/ Lose \/ Look \/ (feof /\ (NoLine \/ Quit \/ Again))
Next == Tell \/ Lose \/ Ask \/ NoLine \/ Look \/ Quit \/ Again \/ Done
Spec == Init /\ [][Next]_vars /\ WF_vars(Program)

-----------------------------------------------------------------------------
\* Among the types: never more than N guesses.
TypeOK ==
  /\ pc \in {"tell", "ask", "look", "again", "done"}
  /\ mugwumps \in [Wumps -> Square] /\ found \subseteq Wumps
  /\ player.x \in Int /\ player.y \in -1..9
  /\ i \in 0..N /\ (pc \in {"ask", "look"} => i < N)
  /\ feof \in BOOLEAN /\ outcome \in {"none", "win", "lose", "left"}

\* The game that has just ended was won if, and only if, every mugwump has
\* been found, and lost only with all guesses spent.
FairlyJudged ==
  pc = "again" => /\ outcome = "win" <=> found = Wumps
                  /\ outcome = "lose" => i = N

\* After a guess the distance that is told of a mugwump is a number, and it is
\* told of those not found only: the root of zero, which dist computes right
\* after every hit, is never shown. Before the first guess it may be: a mugwump
\* can hide at 0,0, where the player begins.
NumbersTold ==
  pc \in {"ask", "look"} /\ i > 0 =>
    \A j \in Wumps : told[j] = IF j \in found THEN "found" ELSE "number"

-----------------------------------------------------------------------------
\* The invariant that the proofs need: a game that goes on has a mugwump left,
\* and none is left in the square of the last guess.
StillHiding == pc \in {"tell", "ask", "look"} => found # Wumps
NoneThere == pc = "tell" /\ i > 0 => \A j \in Wumps \ found : mugwumps[j] # player

IInv == TypeOK /\ StillHiding /\ FairlyJudged /\ NumbersTold /\ NoneThere
=============================================================================
