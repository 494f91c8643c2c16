-------------------------------- MODULE Snek --------------------------------
(***************************************************************************)
(* snek: a snake of l segments walks over the screen, one cell a turn, in  *)
(* the direction of the last key, and grows by one segment per apple. The  *)
(* next apple may lie anywhere between the walls, under the snake too.     *)
(***************************************************************************)
EXTENDS Integers, Sequences

CONSTANTS my, mx     \* rows and columns of the terminal

ScreenAssumption == my \in Nat /\ mx \in Nat /\ my > 2 /\ mx > 2

VARIABLES sk,        \* sk[1], the head, to sk[l]; sk[l + 1] is the place that
                     \* the tail has left, the rest of the array is not used
          l, d, a,   \* length, direction, apple
          screen,    \* the character in each cell
          over       \* the game has ended, its score is l - 1

vars == <<sk, l, d, a, screen, over>>

Cells == (0..my - 1) \X (0..mx - 1)
Inside == (1..my - 2) \X (1..mx - 2)
Corner == <<0, 0>>
Wall(c) == c \in Cells \ Inside

Init ==
  /\ sk = <<<<my \div 2, mx \div 2>>, Corner>> /\ l = 1 /\ d = 2
  /\ a \in Inside
  /\ screen = [c \in Cells |-> IF Wall(c) THEN "#" ELSE " "]
  /\ over = FALSE

\* A key that arrives before the turn is over; 'q' ends the game.
Key == \E key \in 0..3 :
  /\ ~over /\ d' = key
  /\ UNCHANGED <<sk, l, a, screen, over>>
GameOver == over' = TRUE /\ screen' = [c \in Cells |-> " "]
Quit == ~over /\ GameOver /\ UNCHANGED <<sk, l, d, a>>

Moved(c) == <<c[1] + (CASE d = 0 -> -1 [] d = 2 -> 1 [] OTHER -> 0),
              c[2] + (CASE d = 1 -> 1 [] d = 3 -> -1 [] OTHER -> 0)>>

\* Mutants: the comparison begins two segments late; the last column belongs
\* to the field.
HitsLate(s) == s[1] \notin Inside \/ \E k \in 4..l : s[1] = s[k]
HitsBeyond(s) == s[1] \notin (1..my - 2) \X (1..mx - 1) \/ \E k \in 2..l : s[1] = s[k]

Hits(s) == s[1] \notin Inside \/ \E k \in 2..l : s[1] = s[k]

\* Mutant: the place of the tail is not wiped.
NotWiped(s) == screen

Wiped(s) == [screen EXCEPT ![s[l + 1]] = " "]
Draw(s) == LET apple == [Wiped(s) EXCEPT ![a] = "+"]
           IN  [c \in Cells |-> IF \E k \in 1..l : c = s[k] THEN "@" ELSE apple[c]]

\* One turn: every segment takes the place of the one before it.
Shifted == <<Moved(sk[1])>> \o SubSeq(sk, 1, l)
Turn ==
  /\ ~over /\ UNCHANGED d
  /\ LET s == Shifted
     IN  IF Hits(s)
         THEN GameOver /\ sk' = s /\ UNCHANGED <<l, a>>
         ELSE /\ screen' = Draw(s) /\ UNCHANGED over
              /\ IF s[1] = a
                 THEN a' \in Inside /\ l' = l + 1 /\ sk' = Append(s, Corner)
                 ELSE sk' = s /\ UNCHANGED <<l, a>>

Done == over /\ UNCHANGED vars

Next == Key \/ Quit \/ Turn \/ Done

-----------------------------------------------------------------------------
TypeOK ==
  /\ l \in Nat \ {0} /\ d \in 0..3 /\ over \in BOOLEAN
  /\ sk \in Seq(Cells) /\ Len(sk) = l + 1
  /\ a \in Inside /\ screen \in [Cells -> {"#", " ", "+", "@"}]

\* While the game goes on the whole snake is between the walls, and each of
\* its segments next to the one before it.
NextTo(b, c) == \/ b[1] = c[1] /\ (b[2] = c[2] + 1 \/ c[2] = b[2] + 1)
                \/ b[2] = c[2] /\ (b[1] = c[1] + 1 \/ c[1] = b[1] + 1)
Connected ==
  ~over => /\ \A k \in 1..l : sk[k] \in Inside
           /\ \A k \in 1..l - 1 : NextTo(sk[k], sk[k + 1])

\* The snake does not cross itself. Only an apple in the very cell that its
\* tail is leaving makes head and tail share that cell, and only until the
\* first turn without an apple.
Grown == sk[l + 1] = Corner
SelfAvoiding ==
  ~over => /\ \A j, k \in 1..l - 1 : sk[j] = sk[k] => j = k
           /\ ~Grown => \A j, k \in 1..l : sk[j] = sk[k] => j = k

\* So it never has more segments than there are cells, and one: the 2048
\* elements of sk[] are enough for screens with up to 2046 cells inside.
NeverTooLong == l <= (my - 2) * (mx - 2) + 1

\* The screen shows the snake, without the segment that an apple has just
\* added, and at most the apple that is there to be eaten; the walls stand.
ScreenShows ==
  LET shown(ch) == {c \in Cells : screen[c] = ch}
  IN  ~over => /\ {sk[k] : k \in 1..l - 1} \subseteq shown("@")
               /\ shown("@") \subseteq {sk[k] : k \in 1..l}
               /\ shown("+") \subseteq {a}
               /\ shown("#") = {c \in Cells : Wall(c)}

IInv == TypeOK /\ Connected /\ SelfAvoiding /\ NeverTooLong /\ ScreenShows
=============================================================================
