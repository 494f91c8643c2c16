-------------------------------- MODULE Leave --------------------------------
(***************************************************************************)
(* leave: the parent reports the alarm and exits, the child sleeps until 5 *)
(* minutes and 1 minute before the time to leave, until that time, and     *)
(* then ten times for a minute. Times are in seconds from midnight.        *)
(***************************************************************************)
EXTENDS Integers, Sequences

CONSTANTS Whens,     \* arguments: [relative: BOOLEAN, hhmm: what atoi makes of it]
          Nows,      \* when leave is called
          Oversleeps,\* by how much a sleep may be longer than asked for
          LATE       \* how many times the user is told to be late: 10

MINUTE == 60
HOUR == 3600

LeaveAssumption ==
  /\ Whens \subseteq [relative : BOOLEAN, hhmm : Int]
  /\ Nows \subseteq Nat /\ Oversleeps \subseteq Nat /\ LATE \in Nat

VARIABLES pc,      \* of the child: "fork", "sleep", "look", "print" or "done"
          parent,  \* "fork", "alarm" or "done"
          when, start,
          now, leave,
          ss,      \* seconds left
          n,       \* the message to come: 1..3 reminders, LATE late ones, one more
          tty,     \* the user is logged in
          slack,   \* history: the sum of what was slept too long
          said     \* history: [n, at, slack, tty] of each message

vars == <<pc, parent, when, start, now, leave, ss, n, tty, slack, said>>

Lead == <<5 * MINUTE, MINUTE, 0>>  \* of the reminders
GiveUpMessage == Len(Lead) + LATE + 1

\* % of C, which has the sign of its left operand.
CMod(a, b) == IF a < 0 THEN -((-a) % b) ELSE a % b

Seconds(hhmm) ==
  LET mm == CMod(hhmm, 100) IN ((hhmm - mm) \div 100) * HOUR + mm * MINUTE

\* mktime makes of any hours and minutes so many seconds after midnight.
LeaveAt(w, t) == IF w.relative THEN t + Seconds(w.hhmm) ELSE Seconds(w.hhmm)
AlreadyLate(w, t) == ~w.relative /\ LeaveAt(w, t) <= t

Init ==
  /\ when \in Whens /\ start \in Nows
  /\ now = start /\ leave = LeaveAt(when, start) /\ ss = leave - start
  /\ parent = IF AlreadyLate(when, start) THEN "done" ELSE "fork"
  /\ pc = IF AlreadyLate(when, start) THEN "done" ELSE "fork"
  /\ n = 1 /\ tty = TRUE /\ slack = 0 /\ said = <<>>

Fork ==
  /\ parent = "fork"
  /\ \/ parent' = "alarm" /\ pc' = "sleep"
     \/ parent' = "done" /\ pc' = "done"    \* no process to be had
  /\ UNCHANGED <<when, start, now, leave, ss, n, tty, slack, said>>

AlarmSet ==
  /\ parent = "alarm" /\ parent' = "done"
  /\ UNCHANGED <<pc, when, start, now, leave, ss, n, tty, slack, said>>

IsReminder == n \in DOMAIN Lead

\* Mutant: the seconds are those from the beginning.
LeftOfAll == leave - start

TooLate == IsReminder /\ ss < Lead[n]
Left == IF IsReminder THEN Lead[n] ELSE ss

Skip ==
  /\ pc = "sleep" /\ TooLate /\ n' = n + 1
  /\ UNCHANGED <<pc, parent, when, start, now, leave, ss, tty, slack, said>>

Nap == IF IsReminder THEN ss - Lead[n] ELSE MINUTE

Sleep == \E over \in Oversleeps :
  /\ pc = "sleep" /\ ~TooLate /\ n < GiveUpMessage
  /\ now' = now + Nap + over /\ slack' = slack + over
  /\ pc' = "look"
  /\ UNCHANGED <<parent, when, start, leave, ss, n, tty, said>>

Looks == pc' = IF tty THEN "print" ELSE "done"

ExitIfUserLeft ==
  /\ pc = "look" /\ Looks
  /\ UNCHANGED <<parent, when, start, now, leave, ss, n, tty, slack, said>>

Say == said' = Append(said, [n |-> n, at |-> now, slack |-> slack, tty |-> tty])

ShowMessage ==
  /\ pc = "print" /\ Say
  /\ ss' = Left /\ n' = n + 1 /\ pc' = "sleep"
  /\ UNCHANGED <<parent, when, start, now, leave, tty, slack>>

GiveUp ==
  /\ pc = "sleep" /\ n = GiveUpMessage /\ Say /\ pc' = "done"
  /\ UNCHANGED <<parent, when, start, now, leave, ss, n, tty, slack>>

\* The user logs out, at any time.
LogOut ==
  /\ tty /\ pc # "done" /\ tty' = FALSE
  /\ UNCHANGED <<pc, parent, when, start, now, leave, ss, n, slack, said>>

Done == pc = "done" /\ parent = "done" /\ UNCHANGED vars

Child == Skip \/ Sleep \/ ExitIfUserLeft \/ ShowMessage \/ GiveUp
Next == Fork \/ AlarmSet \/ Child \/ LogOut \/ Done
Spec == Init /\ [][Next]_vars /\ WF_vars(Next)

-----------------------------------------------------------------------------
TypeOK ==
  /\ pc \in {"fork", "sleep", "look", "print", "done"}
  /\ parent \in {"fork", "alarm", "done"}
  /\ when \in Whens /\ start \in Nows /\ now \in Int /\ now >= start
  /\ leave \in Int /\ ss \in Int
  /\ n \in 1..GiveUpMessage /\ (pc \in {"look", "print"} => n < GiveUpMessage)
  /\ tty \in BOOLEAN /\ slack \in Nat
  /\ said \in Seq([n : 1..GiveUpMessage, at : Int, slack : Nat, tty : BOOLEAN])
  /\ \A m \in DOMAIN said : said[m].n \in 1..n /\ said[m].slack \in 0..slack

\* When a message would come if no sleep were too long: a time to leave that
\* has passed counts the lateness from the call.
Due(k) ==
  CASE k \in DOMAIN Lead -> leave - Lead[k]
    [] k = GiveUpMessage -> (IF leave < start THEN start ELSE leave) + LATE * MINUTE
    [] OTHER -> (IF leave < start THEN start ELSE leave) + (k - Len(Lead)) * MINUTE

\* A message comes exactly when it is due plus what the sleeps before it were
\* too long: it is never early, and nobody is told to be later than he is.
OnTime == \A m \in DOMAIN said : said[m].at = Due(said[m].n) + said[m].slack

\* The first message is the first one that is not over at the start, and from
\* then on none is left out or said twice.
NoneLeftOut ==
  \A m \in DOMAIN said :
    IF m > 1 THEN said[m].n = said[m - 1].n + 1
    ELSE \A k \in DOMAIN Lead : k < said[m].n <=> leave - start < Lead[k]

\* After the user has gone there is at most one more message, which was on
\* its way, and the one that gives up if that was the last.
QuietAfterwards ==
  \A m \in DOMAIN said : ~said[m].tty /\ m < Len(said) => said[m + 1].n = GiveUpMessage

-----------------------------------------------------------------------------
(***************************************************************************)
(* The invariant that the proofs need: how the clock, the seconds left and *)
(* the message to come hang together while the child runs.                 *)
(***************************************************************************)
Running == pc # "done"

Forked == parent = "fork" <=> pc = "fork"

Base == IF leave < start THEN start ELSE leave

\* What the clock would tell without oversleeping: before a reminder the
\* seconds left are true, after the last one there is a minute for each
\* message.
Clock ==
  Running =>
    now = slack + (IF pc \in {"look", "print"} THEN Due(n)
                   ELSE IF IsReminder THEN leave - ss
                   ELSE Base + (n - Len(Lead) - 1) * MINUTE)

NotBefore == pc \in {"look", "print"} => ~TooLate

\* Until the first message only what is over has been passed by.
FirstToCome ==
  Running /\ said = <<>> => /\ ss = leave - start
                           /\ \A k \in DOMAIN Lead : k < n => leave - start < Lead[k]

\* From then on the last message is the one before the next, and the seconds
\* left are those that it told.
NextToCome ==
  Running /\ said # <<>> =>
    /\ said[Len(said)].n = n - 1
    /\ n <= Len(Lead) + 1 => leave >= start /\ ss = Lead[n - 1]

\* A message that nobody saw was on its way when the user went.
GoneMeansGone ==
  \A m \in DOMAIN said : ~said[m].tty =>
    /\ ~tty /\ pc # "print"
    /\ Running => m = Len(said)

IInv == /\ TypeOK /\ Forked /\ Clock /\ NotBefore /\ FirstToCome /\ NextToCome
        /\ GoneMeansGone /\ OnTime /\ NoneLeftOut /\ QuietAfterwards
=============================================================================
