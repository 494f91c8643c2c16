-------------------------- MODULE MC_Terminal_proofs --------------------------
(***************************************************************************)
(* Proofs about the programs for one user, program by program and then of  *)
(* all: for every time to leave and whatever the sleeps last too long, any *)
(* board, any size of stack and of values, any program and memory, any     *)
(* farm, any word list and time, any screen.                               *)
(***************************************************************************)
EXTENDS MC_Terminal, Stepwise, WellFoundedInduction

-----------------------------------------------------------------------------
(* leave *)

LEMMA LeaveLead ==
  /\ DOMAIN Leave!Lead = 1..3 /\ Len(Leave!Lead) = 3
  /\ Leave!Lead[1] = 300 /\ Leave!Lead[2] = 60 /\ Leave!Lead[3] = 0
  /\ Leave!MINUTE = 60 /\ Leave!GiveUpMessage = LATE + 4 /\ LATE \in Nat
BY LeaveAssumed DEF Leave!LeaveAssumption, Leave!Lead, Leave!MINUTE, Leave!GiveUpMessage

\* What the user says is a time, whatever it is.
LEMMA LeaveAtIsATime ==
  ASSUME NEW w \in Whens, NEW t \in Nows
  PROVE  t \in Nat /\ Leave!LeaveAt(w, t) \in Int
<1>1. t \in Nat /\ w.hhmm \in Int
  BY LeaveAssumed DEF Leave!LeaveAssumption
<1> DEFINE h == w.hhmm
           mm == Leave!CMod(h, 100)
<1>2. mm \in Int
  BY <1>1 DEF Leave!CMod
<1>3. Leave!Seconds(h) \in Int
  <2>1. ((h - mm) \div 100) \in Int
    <3> HIDE DEF mm
    <3> QED
      BY <1>1, <1>2
  <2> QED
    BY <1>2, <2>1 DEF Leave!Seconds, Leave!HOUR, Leave!MINUTE
<1> QED
  BY <1>1, <1>3 DEF Leave!LeaveAt

\* When a message is due, without the cases.
LEMMA LeaveDue ==
  ASSUME NEW k \in 1..Leave!GiveUpMessage, leave \in Int, start \in Int
  PROVE  /\ k <= 3 => Leave!Due(k) = leave - Leave!Lead[k]
         /\ k > 3 /\ k < Leave!GiveUpMessage => Leave!Due(k) = Leave!Base + (k - 3) * 60
         /\ k = Leave!GiveUpMessage => Leave!Due(k) = Leave!Base + (k - 4) * 60
<1>1. k \in Int /\ LATE \in Nat /\ Leave!GiveUpMessage = LATE + 4
  BY LeaveLead
<1>2. CASE k <= 3
  <2>1. k \in DOMAIN Leave!Lead
    BY <1>1, <1>2, LeaveLead
  <2> QED
    BY <1>1, <1>2, <2>1 DEF Leave!Due
<1>3. CASE k > 3 /\ k < Leave!GiveUpMessage
  <2>1. k \notin DOMAIN Leave!Lead /\ k # Leave!GiveUpMessage
    BY <1>1, <1>3, LeaveLead
  <2>2. Leave!Due(k) = Leave!Base + (k - 3) * 60
    BY <1>1, <2>1, LeaveLead DEF Leave!Due, Leave!Base
  <2> QED
    BY <1>1, <1>3, <2>2
<1>4. CASE k = Leave!GiveUpMessage
  <2>1. k \notin DOMAIN Leave!Lead /\ k - 4 = LATE
    BY <1>1, <1>4, LeaveLead
  <2>2. Leave!Due(k) = Leave!Base + LATE * 60
    BY <1>1, <1>4, <2>1, LeaveLead DEF Leave!Due, Leave!Base
  <2> QED
    BY <1>1, <1>4, <2>1, <2>2
<1> QED
  BY <1>1, <1>2, <1>3, <1>4

LEMMA LeaveTypes ==
  ASSUME Leave!TypeOK
  PROVE  /\ start \in Nat /\ leave \in Int /\ now \in Int /\ ss \in Int /\ slack \in Nat
         /\ n \in 1..Leave!GiveUpMessage /\ n \in Nat /\ Leave!GiveUpMessage = LATE + 4 /\ LATE \in Nat
         /\ Leave!Base \in Int
         /\ Leave!IsReminder <=> n <= 3
         /\ Leave!TooLate <=> n <= 3 /\ ss < Leave!Lead[n]
<1>1. start \in Nat /\ leave \in Int /\ now \in Int /\ ss \in Int /\ slack \in Nat
  BY LeaveAssumed DEF Leave!TypeOK, Leave!LeaveAssumption
<1>2. n \in 1..Leave!GiveUpMessage /\ n \in Nat /\ Leave!GiveUpMessage = LATE + 4 /\ LATE \in Nat
  BY LeaveLead DEF Leave!TypeOK
<1>3. Leave!Base \in Int
  BY <1>1 DEF Leave!Base
<1>4. Leave!IsReminder <=> n <= 3
  BY <1>2, LeaveLead DEF Leave!IsReminder
<1> QED
  BY <1>1, <1>2, <1>3, <1>4 DEF Leave!TooLate

LEMMA LeaveInit == Leave!Init => Leave!IInv
<1> SUFFICES ASSUME Leave!Init PROVE Leave!IInv
  OBVIOUS
<1>1. /\ when \in Whens /\ start \in Nows /\ now = start
      /\ leave = Leave!LeaveAt(when, start) /\ ss = leave - start
      /\ n = 1 /\ tty = TRUE /\ slack = 0 /\ said = <<>>
      /\ pc \in {"fork", "done"} /\ parent \in {"fork", "done"}
  BY DEF Leave!Init
<1>2. start \in Nat /\ leave \in Int
  BY <1>1, LeaveAtIsATime
<1>3. Leave!TypeOK
  <2>1. now \in Int /\ now >= start /\ ss \in Int /\ slack \in Nat /\ n \in 1..Leave!GiveUpMessage
    BY <1>1, <1>2, LeaveLead
  <2>2. said \in Seq([n : 1..Leave!GiveUpMessage, at : Int, slack : Nat, tty : BOOLEAN])
        /\ DOMAIN said = {}
    BY <1>1
  <2> QED
    BY <1>1, <1>2, <2>1, <2>2 DEF Leave!TypeOK
<1>4. Leave!IsReminder
  BY <1>3, <1>1, LeaveTypes
<1>5. Leave!Clock
  <2>1. now = slack + (leave - ss)
    BY <1>1, <1>2
  <2> QED
    BY <1>1, <1>4, <2>1 DEF Leave!Clock
<1>6. Leave!Forked /\ Leave!NotBefore /\ Leave!NextToCome
  BY <1>1 DEF Leave!Init, Leave!Forked, Leave!NotBefore, Leave!NextToCome
<1>7. Leave!FirstToCome
  BY <1>1, LeaveLead DEF Leave!FirstToCome
<1>8. Leave!GoneMeansGone /\ Leave!OnTime /\ Leave!NoneLeftOut /\ Leave!QuietAfterwards
  <2>1. DOMAIN said = {}
    BY <1>1
  <2> QED
    BY <2>1 DEF Leave!GoneMeansGone, Leave!OnTime, Leave!NoneLeftOut, Leave!QuietAfterwards
<1> QED
  BY <1>3, <1>5, <1>6, <1>7, <1>8 DEF Leave!IInv

\* What has been said is not changed by a step that says nothing.
LEMMA LeaveSilence ==
  ASSUME Leave!IInv, UNCHANGED <<start, leave, said>>
  PROVE  Leave!OnTime' /\ Leave!NoneLeftOut' /\ Leave!QuietAfterwards'
BY DEF Leave!IInv, Leave!OnTime, Leave!NoneLeftOut, Leave!QuietAfterwards, Leave!Due

\* A step that says nothing and takes no time leaves the invariant alone, if
\* nobody comes back and the message on its way has been looked at.
LEMMA LeaveStays ==
  ASSUME Leave!IInv,
         UNCHANGED <<when, start, now, leave, ss, n, slack, said>>,
         pc' \in {"fork", "sleep", "look", "print", "done"}, parent' \in {"fork", "alarm", "done"},
         Leave!Forked', tty' \in BOOLEAN,
         tty' => tty, pc = "done" => pc' = "done",
         pc' # "done" => (pc' \in {"look", "print"} <=> pc \in {"look", "print"}),
         pc' = "print" => pc = "print" \/ tty
  PROVE  Leave!IInv'
<1>1. Leave!TypeOK'
  BY DEF Leave!IInv, Leave!TypeOK
<1>2. Leave!Clock'
  BY DEF Leave!IInv, Leave!Clock, Leave!Running, Leave!Due, Leave!Base, Leave!IsReminder
<1>3. Leave!NotBefore'
  BY DEF Leave!IInv, Leave!NotBefore, Leave!TooLate, Leave!IsReminder
<1>4. Leave!FirstToCome' /\ Leave!NextToCome'
  BY DEF Leave!IInv, Leave!FirstToCome, Leave!NextToCome, Leave!Running
<1>5. Leave!GoneMeansGone'
  BY DEF Leave!IInv, Leave!GoneMeansGone, Leave!Running
<1> QED
  BY <1>1, <1>2, <1>3, <1>4, <1>5, LeaveSilence DEF Leave!IInv

LEMMA LeaveFork == Leave!IInv /\ Leave!Fork => Leave!IInv'
<1> SUFFICES ASSUME Leave!IInv, Leave!Fork PROVE Leave!IInv'
  OBVIOUS
<1>1. /\ pc' \in {"sleep", "done"} /\ parent' \in {"alarm", "done"}
      /\ parent = "fork" /\ UNCHANGED <<when, start, now, leave, ss, n, tty, slack, said>>
  BY DEF Leave!Fork
<1>2. pc = "fork" /\ Leave!Forked' /\ tty \in BOOLEAN
  BY <1>1 DEF Leave!IInv, Leave!Forked, Leave!TypeOK
<1> QED
  BY <1>1, <1>2, LeaveStays

LEMMA LeaveAlarmSet == Leave!IInv /\ Leave!AlarmSet => Leave!IInv'
<1> SUFFICES ASSUME Leave!IInv, Leave!AlarmSet PROVE Leave!IInv'
  OBVIOUS
<1>1. /\ parent = "alarm" /\ parent' = "done"
      /\ UNCHANGED <<pc, when, start, now, leave, ss, n, tty, slack, said>>
  BY DEF Leave!AlarmSet
<1>2. Leave!Forked' /\ tty \in BOOLEAN /\ pc \in {"fork", "sleep", "look", "print", "done"}
  BY <1>1 DEF Leave!IInv, Leave!Forked, Leave!TypeOK
<1> QED
  BY <1>1, <1>2, LeaveStays

LEMMA LeaveExitIfUserLeft == Leave!IInv /\ Leave!ExitIfUserLeft => Leave!IInv'
<1> SUFFICES ASSUME Leave!IInv, Leave!ExitIfUserLeft PROVE Leave!IInv'
  OBVIOUS
<1>1. /\ pc = "look" /\ pc' = IF tty THEN "print" ELSE "done"
      /\ UNCHANGED <<parent, when, start, now, leave, ss, n, tty, slack, said>>
  BY DEF Leave!ExitIfUserLeft, Leave!Looks
<1>2. Leave!Forked' /\ tty \in BOOLEAN /\ parent \in {"fork", "alarm", "done"}
  BY <1>1 DEF Leave!IInv, Leave!Forked, Leave!TypeOK
<1> QED
  BY <1>1, <1>2, LeaveStays

LEMMA LeaveLogOut == Leave!IInv /\ Leave!LogOut => Leave!IInv'
<1> SUFFICES ASSUME Leave!IInv, Leave!LogOut PROVE Leave!IInv'
  OBVIOUS
<1>1. tty' = FALSE /\ UNCHANGED <<pc, parent, when, start, now, leave, ss, n, slack, said>>
  BY DEF Leave!LogOut
<1>2. /\ Leave!Forked' /\ parent \in {"fork", "alarm", "done"}
      /\ pc \in {"fork", "sleep", "look", "print", "done"}
  BY <1>1 DEF Leave!IInv, Leave!Forked, Leave!TypeOK
<1> QED
  BY <1>1, <1>2, LeaveStays

LEMMA LeaveUnchanged == Leave!IInv /\ UNCHANGED Leave!vars => Leave!IInv'
<1> SUFFICES ASSUME Leave!IInv, UNCHANGED Leave!vars PROVE Leave!IInv'
  OBVIOUS
<1>1. UNCHANGED <<pc, parent, when, start, now, leave, ss, n, tty, slack, said>>
  BY DEF Leave!vars
<1>2. /\ Leave!Forked' /\ tty \in BOOLEAN /\ parent \in {"fork", "alarm", "done"}
      /\ pc \in {"fork", "sleep", "look", "print", "done"}
  BY <1>1 DEF Leave!IInv, Leave!Forked, Leave!TypeOK
<1> QED
  BY <1>1, <1>2, LeaveStays

\* A reminder is over only before the first message: later ones are told one
\* after the other.
LEMMA LeaveSkip == Leave!IInv /\ Leave!Skip => Leave!IInv'
<1> SUFFICES ASSUME Leave!IInv, Leave!Skip PROVE Leave!IInv'
  OBVIOUS
<1>0. Leave!TypeOK
  BY DEF Leave!IInv
<1>1. /\ pc = "sleep" /\ Leave!TooLate /\ n' = n + 1
      /\ UNCHANGED <<pc, parent, when, start, now, leave, ss, tty, slack, said>>
  BY DEF Leave!Skip
<1>2. n \in 1..3 /\ ss < Leave!Lead[n] /\ n' \in 1..Leave!GiveUpMessage /\ ss \in Int /\ start \in Int
      /\ leave \in Int /\ now \in Int /\ slack \in Int
  BY <1>0, <1>1, LeaveTypes
<1>3. said = <<>>
  <2> SUFFICES ASSUME said # <<>> PROVE FALSE
    OBVIOUS
  <2>1. said[Len(said)].n = n - 1 /\ ss = Leave!Lead[n - 1]
    BY <1>1, <1>2, LeaveLead DEF Leave!IInv, Leave!NextToCome, Leave!Running
  <2>2. Len(said) \in DOMAIN said
    BY <1>0, EmptySeq, LenProperties DEF Leave!TypeOK
  <2>3. n - 1 >= 1
    BY <1>0, <2>1, <2>2 DEF Leave!TypeOK
  <2> QED
    BY <1>2, <2>1, <2>3, LeaveLead
<1>4. ss = leave - start /\ \A k \in 1..3 : k < n => leave - start < Leave!Lead[k]
  BY <1>1, <1>3, LeaveLead DEF Leave!IInv, Leave!FirstToCome, Leave!Running
<1>5. Leave!TypeOK'
  BY <1>0, <1>1, <1>2, <1>3 DEF Leave!TypeOK
<1>6. Leave!FirstToCome' /\ Leave!NextToCome' /\ Leave!NotBefore' /\ Leave!Forked'
  <2>1. \A k \in 1..3 : k < n + 1 => leave - start < Leave!Lead[k]
    BY <1>2, <1>4
  <2> QED
    BY <1>1, <1>3, <1>4, <2>1, LeaveLead DEF Leave!IInv, Leave!FirstToCome, Leave!NextToCome,
       Leave!NotBefore, Leave!Forked
<1>7. Leave!Clock'
  <2>1. now = slack + (leave - ss)
    BY <1>0, <1>1, <1>2, LeaveTypes DEF Leave!IInv, Leave!Clock, Leave!Running
  <2>2. CASE n < 3
    <3>1. Leave!IsReminder'
      BY <1>1, <1>2, <2>2, LeaveLead DEF Leave!IsReminder
    <3> QED
      BY <1>1, <2>1, <3>1 DEF Leave!Clock
  <2>3. CASE n = 3
    <3>1. ~Leave!IsReminder'
      BY <1>1, <2>3, LeaveLead DEF Leave!IsReminder
    <3>2. leave < start
      BY <1>2, <1>4, <2>3, LeaveLead
    <3>3. Leave!Base' = start
      BY <1>1, <3>2 DEF Leave!Base
    <3>4. now = slack + (start + (n' - 3 - 1) * 60)
      BY <1>1, <1>2, <1>4, <2>1, <2>3
    <3> QED
      BY <1>1, <3>1, <3>3, <3>4, LeaveLead DEF Leave!Clock
  <2> QED
    BY <1>2, <2>2, <2>3
<1>8. Leave!GoneMeansGone'
  BY <1>1 DEF Leave!IInv, Leave!GoneMeansGone, Leave!Running
<1> QED
  BY <1>1, <1>5, <1>6, <1>7, <1>8, LeaveSilence DEF Leave!IInv

LEMMA LeaveSleep == Leave!IInv /\ Leave!Sleep => Leave!IInv'
<1> SUFFICES ASSUME Leave!IInv, Leave!Sleep PROVE Leave!IInv'
  OBVIOUS
<1>0. Leave!TypeOK
  BY DEF Leave!IInv
<1>1. PICK over \in Oversleeps : now' = now + Leave!Nap + over /\ slack' = slack + over
  BY DEF Leave!Sleep
<1>2. /\ pc = "sleep" /\ ~Leave!TooLate /\ n < Leave!GiveUpMessage /\ pc' = "look"
      /\ UNCHANGED <<parent, when, start, leave, ss, n, tty, said>>
  BY DEF Leave!Sleep
<1>3. over \in Nat
  BY LeaveAssumed DEF Leave!LeaveAssumption
<1> DEFINE B == Leave!Base
<1>4. /\ n \in 1..Leave!GiveUpMessage /\ n \in Nat /\ ss \in Int /\ start \in Int /\ leave \in Int
      /\ now \in Int /\ slack \in Nat /\ B \in Int
      /\ (n <= 3 => ~(ss < Leave!Lead[n])) /\ (Leave!IsReminder <=> n <= 3)
  BY <1>0, <1>2, LeaveTypes
<1>5. now = slack + IF n <= 3 THEN leave - ss ELSE B + (n - 4) * 60
  <2>1. CASE n <= 3
    BY <1>2, <1>4, <2>1 DEF Leave!IInv, Leave!Clock, Leave!Running
  <2>2. CASE n > 3
    <3>1. now = slack + (B + (n - 3 - 1) * 60)
      BY <1>2, <1>4, <2>2, LeaveLead DEF Leave!IInv, Leave!Clock, Leave!Running
    <3> QED
      BY <1>4, <2>2, <3>1
  <2> QED
    BY <1>4, <2>1, <2>2
<1>6. now' = slack' + Leave!Due(n) /\ now' \in Int /\ now' >= now
  <2> HIDE DEF B
  <2>1. CASE n <= 3
    <3>1. Leave!Nap = ss - Leave!Lead[n] /\ Leave!Lead[n] \in Int
      BY <1>4, <2>1, LeaveLead DEF Leave!Nap
    <3>2. Leave!Due(n) = leave - Leave!Lead[n]
      BY <1>4, <2>1, LeaveDue
    <3> QED
      BY <1>1, <1>3, <1>4, <1>5, <2>1, <3>1, <3>2
  <2>2. CASE n > 3
    <3>1. Leave!Nap = 60
      BY <1>4, <2>2, LeaveLead DEF Leave!Nap
    <3>2. Leave!Due(n) = B + (n - 3) * 60
      BY <1>2, <1>4, <2>2, LeaveDue DEF B
    <3> QED
      BY <1>1, <1>3, <1>4, <1>5, <2>2, <3>1, <3>2
  <2> QED
    BY <1>4, <2>1, <2>2
<1>7. Leave!TypeOK'
  <2>1. slack' \in Nat /\ now' \in Int /\ now' >= start
    BY <1>0, <1>1, <1>3, <1>4, <1>6 DEF Leave!TypeOK
  <2>2. \A m \in DOMAIN said : said[m].slack \in 0..slack'
    <3>1. \A m \in DOMAIN said : said[m].slack \in 0..slack
      BY <1>0, Zenon DEF Leave!TypeOK
    <3>2. slack \in Nat /\ slack' \in Int /\ slack <= slack'
      BY <1>0, <1>1, <1>3, <1>4 DEF Leave!TypeOK
    <3>3. \A b \in 0..slack : b \in 0..slack'
      BY <3>2
    <3> QED
      BY <3>1, <3>3, Zenon
  <2> QED
    BY <1>0, <1>2, <2>1, <2>2 DEF Leave!TypeOK
<1>8. Leave!Clock'
  BY <1>2, <1>6 DEF Leave!Clock, Leave!Due
<1>9. Leave!NotBefore' /\ Leave!Forked'
  BY <1>2 DEF Leave!IInv, Leave!NotBefore, Leave!Forked, Leave!TooLate, Leave!IsReminder
<1>10. Leave!FirstToCome' /\ Leave!NextToCome' /\ Leave!GoneMeansGone'
  BY <1>2 DEF Leave!IInv, Leave!FirstToCome, Leave!NextToCome, Leave!GoneMeansGone, Leave!Running
<1> QED
  BY <1>2, <1>7, <1>8, <1>9, <1>10, LeaveSilence DEF Leave!IInv

\* A message that is due is the next one, and comes in time.
LEMMA LeaveSays ==
  ASSUME Leave!IInv, Leave!Say, UNCHANGED <<start, leave>>, pc # "done",
         now = slack + Leave!Due(n), ~Leave!TooLate
  PROVE  LET r == [n |-> n, at |-> now, slack |-> slack, tty |-> tty]
         IN  /\ said' \in Seq([n : 1..Leave!GiveUpMessage, at : Int, slack : Nat, tty : BOOLEAN])
             /\ Len(said') = Len(said) + 1 /\ Len(said) \in Nat /\ said' # <<>>
             /\ \A m \in 1..Len(said) : said'[m] = said[m]
             /\ said'[Len(said) + 1] = r
             /\ \A m \in DOMAIN said' : said'[m].n \in 1..n /\ said'[m].slack \in 0..slack
             /\ Leave!OnTime' /\ Leave!NoneLeftOut'
<1> DEFINE r == [n |-> n, at |-> now, slack |-> slack, tty |-> tty]
           S == [n : 1..Leave!GiveUpMessage, at : Int, slack : Nat, tty : BOOLEAN]
<1>0. Leave!TypeOK
  BY DEF Leave!IInv
<1>1. /\ n \in 1..Leave!GiveUpMessage /\ n \in Nat /\ ss \in Int /\ start \in Int /\ leave \in Int
      /\ slack \in Nat /\ (n <= 3 => ~(ss < Leave!Lead[n]))
  BY <1>0, LeaveTypes
<1>2. r \in S /\ said \in Seq(S)
  BY <1>0, <1>1 DEF Leave!TypeOK
<1>3. said' = Append(said, r)
  BY DEF Leave!Say
<1>4. /\ said' \in Seq(S) /\ Len(said') = Len(said) + 1 /\ Len(said) \in Nat /\ said' # <<>>
      /\ (\A m \in 1..Len(said) : said'[m] = said[m]) /\ said'[Len(said) + 1] = r
      /\ DOMAIN said = 1..Len(said) /\ DOMAIN said' = 1..(Len(said) + 1)
  <2> HIDE DEF r, S
  <2> QED
    BY <1>2, <1>3, AppendProperties, LenProperties, EmptySeq
<1>5. \A m \in DOMAIN said' : m \in 1..Len(said) \/ m = Len(said) + 1
  BY <1>4
<1>6. \A m \in DOMAIN said' : said'[m].n \in 1..n /\ said'[m].slack \in 0..slack
  <2>1. r.n \in 1..n /\ r.slack \in 0..slack
    BY <1>1
  <2> HIDE DEF r, S
  <2> QED
    BY <1>0, <1>4, <1>5, <2>1 DEF Leave!TypeOK
<1>7. Leave!OnTime'
  <2> SUFFICES ASSUME NEW m \in DOMAIN said' PROVE said'[m].at = Leave!Due(said'[m].n) + said'[m].slack
    BY DEF Leave!OnTime, Leave!Due
  <2>1. CASE m \in 1..Len(said)
    BY <1>4, <2>1 DEF Leave!IInv, Leave!OnTime
  <2>2. CASE m = Len(said) + 1
    <3>1. Leave!Due(n) \in Int
      BY <1>1, LeaveDue, LeaveLead, <1>0, LeaveTypes
    <3>2. r.at = Leave!Due(r.n) + r.slack
      BY <1>1, <3>1
    <3> HIDE DEF r
    <3> QED
      BY <1>4, <2>2, <3>2
  <2> QED
    BY <1>5, <2>1, <2>2
<1>8. Leave!NoneLeftOut'
  <2> SUFFICES ASSUME NEW m \in DOMAIN said'
               PROVE  IF m > 1 THEN said'[m].n = said'[m - 1].n + 1
                      ELSE \A k \in DOMAIN Leave!Lead : k < said'[m].n <=> leave - start < Leave!Lead[k]
    BY DEF Leave!NoneLeftOut
  <2>1. CASE m \in 1..Len(said)
    <3>1. m \in Nat /\ (m > 1 => m - 1 \in 1..Len(said))
      <4> DEFINE L == Len(said)
      <4>1. L \in Nat /\ m \in 1..L
        BY <1>4, <2>1
      <4> HIDE DEF L
      <4>2. m \in Nat /\ (m > 1 => m - 1 \in 1..L)
        BY <4>1
      <4> QED
        BY <4>2 DEF L
    <3>2. said'[m] = said[m] /\ (m > 1 => said'[m - 1] = said[m - 1])
      BY <1>4, <2>1, <3>1
    <3> QED
      BY <1>4, <2>1, <3>2 DEF Leave!IInv, Leave!NoneLeftOut
  <2>2. CASE m = Len(said) + 1 /\ said # <<>>
    <3>1. Len(said) \in 1..Len(said)
      BY <1>2, <1>4, <2>2, EmptySeq, LenProperties
    <3>2. said[Len(said)].n = n - 1
      BY <2>2 DEF Leave!IInv, Leave!NextToCome, Leave!Running
    <3>3. m > 1 /\ m - 1 = Len(said) /\ said'[m].n = n /\ said'[m - 1].n = n - 1
      BY <1>4, <2>2, <3>1, <3>2
    <3> QED
      BY <1>1, <3>3
  <2>3. CASE m = Len(said) + 1 /\ said = <<>>
    <3>1. m = 1 /\ said'[m].n = n
      BY <1>4, <2>3
    <3>2. ss = leave - start /\ \A k \in 1..3 : k < n => leave - start < Leave!Lead[k]
      BY <2>3, LeaveLead DEF Leave!IInv, Leave!FirstToCome, Leave!Running
    <3>3. \A k \in 1..3 : ~(k < n) => ~(leave - start < Leave!Lead[k])
      <4> SUFFICES ASSUME NEW k \in 1..3, n <= k PROVE ~(leave - start < Leave!Lead[k])
        BY <1>1
      <4>1. n \in 1..3 /\ Leave!Lead[n] >= Leave!Lead[k]
        BY <1>1, LeaveLead
      <4> QED
        BY <1>1, <3>2, <4>1, LeaveLead
    <3> QED
      BY <3>1, <3>2, <3>3, LeaveLead
  <2> QED
    BY <1>5, <2>1, <2>2, <2>3
<1> QED
  BY <1>4, <1>6, <1>7, <1>8

LEMMA LeaveShowMessage == Leave!IInv /\ Leave!ShowMessage => Leave!IInv'
<1> SUFFICES ASSUME Leave!IInv, Leave!ShowMessage PROVE Leave!IInv'
  OBVIOUS
<1> DEFINE r == [n |-> n, at |-> now, slack |-> slack, tty |-> tty]
<1>0. Leave!TypeOK
  BY DEF Leave!IInv
<1>1. /\ pc = "print" /\ Leave!Say /\ ss' = Leave!Left /\ n' = n + 1 /\ pc' = "sleep"
      /\ UNCHANGED <<parent, when, start, now, leave, tty, slack>>
  BY DEF Leave!ShowMessage
<1>2. /\ n \in 1..Leave!GiveUpMessage /\ n \in Nat /\ ss \in Int /\ start \in Int /\ leave \in Int
      /\ now \in Int /\ slack \in Nat /\ Leave!GiveUpMessage \in Nat
      /\ (Leave!IsReminder <=> n <= 3)
      /\ n < Leave!GiveUpMessage
  BY <1>0, <1>1, LeaveTypes DEF Leave!TypeOK
<1>3. now = slack + Leave!Due(n) /\ ~Leave!TooLate
  BY <1>1 DEF Leave!IInv, Leave!Clock, Leave!NotBefore, Leave!Running
<1>4. /\ said' \in Seq([n : 1..Leave!GiveUpMessage, at : Int, slack : Nat, tty : BOOLEAN])
      /\ Len(said') = Len(said) + 1 /\ Len(said) \in Nat /\ said' # <<>>
      /\ \A m \in 1..Len(said) : said'[m] = said[m]
      /\ said'[Len(said) + 1] = r
      /\ \A m \in DOMAIN said' : said'[m].n \in 1..n /\ said'[m].slack \in 0..slack
      /\ Leave!OnTime' /\ Leave!NoneLeftOut'
  BY <1>1, <1>3, LeaveSays
<1>5. ss' \in Int /\ (n <= 3 => ss' = Leave!Lead[n] /\ Leave!Lead[n] >= 0 /\ ss >= Leave!Lead[n])
  BY <1>0, <1>1, <1>2, <1>3, LeaveTypes, LeaveLead DEF Leave!Left
<1>6. n <= 3 => leave >= start
  <2>1. CASE said = <<>>
    BY <1>1, <1>2, <1>5, <2>1 DEF Leave!IInv, Leave!FirstToCome, Leave!Running
  <2>2. CASE said # <<>>
    BY <1>1, <1>2, <2>2, LeaveLead DEF Leave!IInv, Leave!NextToCome, Leave!Running
  <2> QED
    BY <2>1, <2>2
<1>7. Leave!TypeOK'
  <2>1. n' \in 1..Leave!GiveUpMessage /\ n + 1 \in Nat
    BY <1>1, <1>2
  <2>2. \A m \in DOMAIN said' : said'[m].n \in 1..(n + 1) /\ said'[m].slack \in 0..slack
    <3>1. \A b \in 1..n : b \in 1..(n + 1)
      BY <1>2
    <3> QED
      BY <1>4, <3>1
  <2> QED
    BY <1>0, <1>1, <1>4, <1>5, <2>1, <2>2 DEF Leave!TypeOK
<1>8. Leave!NotBefore' /\ Leave!Forked' /\ Leave!FirstToCome'
  BY <1>1, <1>4 DEF Leave!IInv, Leave!NotBefore, Leave!Forked, Leave!FirstToCome
<1>9. Leave!NextToCome'
  <2>1. said'[Len(said')].n = n' - 1
    BY <1>1, <1>2, <1>4
  <2>2. n' <= 4 => leave' >= start' /\ ss' = Leave!Lead[n' - 1]
    <3>1. n' <= 4 <=> n <= 3
      BY <1>1, <1>2
    <3>2. n' - 1 = n
      BY <1>1, <1>2
    <3> QED
      BY <1>1, <1>5, <1>6, <3>1, <3>2
  <2> QED
    BY <2>1, <2>2, LeaveLead DEF Leave!NextToCome
<1>10. Leave!Clock'
  <2>1. (Leave!IsReminder' <=> n < 3) /\ Leave!Base' = Leave!Base /\ Leave!Base \in Int
    BY <1>0, <1>1, <1>2, LeaveLead, LeaveTypes DEF Leave!IsReminder, Leave!Base
  <2>2. CASE n < 3
    <3>1. now = slack + (leave - ss')
      BY <1>2, <1>3, <1>5, <2>2, LeaveDue
    <3> QED
      BY <1>1, <2>1, <2>2, <3>1 DEF Leave!Clock
  <2>3. CASE n = 3
    <3>1. Leave!Base = leave
      BY <1>2, <1>6, <2>3 DEF Leave!Base
    <3>2. Leave!Due(n) = leave
      BY <1>2, <2>3, LeaveDue, LeaveLead
    <3>3. now = slack + (Leave!Base + (n' - 3 - 1) * 60)
      BY <1>1, <1>2, <1>3, <2>3, <3>1, <3>2
    <3> QED
      BY <1>1, <2>1, <2>3, <3>3, LeaveLead DEF Leave!Clock
  <2>4. CASE n > 3
    <3>1. Leave!Due(n) = Leave!Base + (n - 3) * 60
      BY <1>2, <2>4, LeaveDue
    <3>2. now = slack + (Leave!Base + (n' - 3 - 1) * 60)
      <4> DEFINE B == Leave!Base
      <4>1. B \in Int /\ now = slack + (B + (n - 3) * 60)
        BY <1>3, <2>1, <3>1
      <4> HIDE DEF B
      <4>2. now = slack + (B + (n' - 3 - 1) * 60)
        BY <1>1, <1>2, <4>1
      <4> QED
        BY <4>2 DEF B
    <3> QED
      BY <1>1, <1>2, <2>1, <2>4, <3>2, LeaveLead DEF Leave!Clock
  <2> QED
    BY <1>2, <2>2, <2>3, <2>4
<1>11. \A m \in 1..Len(said) : said'[m].tty
  <2>1. \A m \in DOMAIN said : said[m].tty
    BY <1>1 DEF Leave!IInv, Leave!GoneMeansGone
  <2>2. DOMAIN said = 1..Len(said)
    BY <1>0, LenProperties DEF Leave!TypeOK
  <2> QED
    BY <1>4, <2>1, <2>2
<1>12. \A m \in DOMAIN said' : m \in 1..Len(said) \/ m = Len(said')
  BY <1>4
<1>13. Leave!GoneMeansGone'
  <2>1. said'[Len(said')].tty = tty'
    BY <1>1, <1>4
  <2> QED
    BY <1>1, <1>11, <1>12, <2>1 DEF Leave!GoneMeansGone
<1>14. Leave!QuietAfterwards'
  <2>1. \A m \in DOMAIN said' : ~said'[m].tty => m = Len(said')
    BY <1>11, <1>12
  <2> QED
    BY <1>4, <2>1 DEF Leave!QuietAfterwards
<1> QED
  BY <1>4, <1>7, <1>8, <1>9, <1>10, <1>13, <1>14 DEF Leave!IInv

\* The last message is not looked at: it may come after the user has gone.
LEMMA LeaveGiveUp == Leave!IInv /\ Leave!GiveUp => Leave!IInv'
<1> SUFFICES ASSUME Leave!IInv, Leave!GiveUp PROVE Leave!IInv'
  OBVIOUS
<1> DEFINE r == [n |-> n, at |-> now, slack |-> slack, tty |-> tty]
<1>0. Leave!TypeOK
  BY DEF Leave!IInv
<1>1. /\ pc = "sleep" /\ n = Leave!GiveUpMessage /\ Leave!Say /\ pc' = "done"
      /\ UNCHANGED <<parent, when, start, now, leave, ss, n, tty, slack>>
  BY DEF Leave!GiveUp
<1> DEFINE B == Leave!Base
<1>2. /\ n \in 1..Leave!GiveUpMessage /\ n > 3 /\ n \in Nat /\ start \in Int /\ leave \in Int
      /\ now \in Int /\ slack \in Nat /\ ~Leave!IsReminder /\ ~Leave!TooLate /\ B \in Int
  BY <1>0, <1>1, LeaveTypes
<1>3. now = slack + Leave!Due(n)
  <2>1. now = slack + (B + (n - 3 - 1) * 60)
    BY <1>1, <1>2, LeaveLead DEF Leave!IInv, Leave!Clock, Leave!Running
  <2>2. Leave!Due(n) = B + (n - 4) * 60
    BY <1>1, <1>2, LeaveDue
  <2> HIDE DEF B
  <2> QED
    BY <1>2, <2>1, <2>2
<1>4. /\ said' \in Seq([n : 1..Leave!GiveUpMessage, at : Int, slack : Nat, tty : BOOLEAN])
      /\ Len(said') = Len(said) + 1 /\ Len(said) \in Nat /\ said' # <<>>
      /\ \A m \in 1..Len(said) : said'[m] = said[m]
      /\ said'[Len(said) + 1] = r
      /\ \A m \in DOMAIN said' : said'[m].n \in 1..n /\ said'[m].slack \in 0..slack
      /\ Leave!OnTime' /\ Leave!NoneLeftOut'
  BY <1>1, <1>2, <1>3, LeaveSays
<1>5. Leave!TypeOK'
  BY <1>0, <1>1, <1>4 DEF Leave!TypeOK
<1>6. /\ Leave!NotBefore' /\ Leave!Forked' /\ Leave!FirstToCome' /\ Leave!NextToCome'
      /\ Leave!Clock'
  BY <1>1 DEF Leave!IInv, Leave!NotBefore, Leave!Forked, Leave!FirstToCome, Leave!NextToCome,
     Leave!Clock, Leave!Running
<1>7. DOMAIN said = 1..Len(said) /\ \A m \in DOMAIN said' : m \in 1..Len(said) \/ m = Len(said')
  BY <1>0, <1>4, LenProperties DEF Leave!TypeOK
<1>8. \A m \in 1..Len(said) : ~said'[m].tty => ~tty /\ m = Len(said)
  BY <1>1, <1>4, <1>7 DEF Leave!IInv, Leave!GoneMeansGone, Leave!Running
<1>9. Leave!GoneMeansGone'
  <2>1. said'[Len(said')].tty = tty
    BY <1>4
  <2> QED
    BY <1>1, <1>7, <1>8, <2>1 DEF Leave!GoneMeansGone, Leave!Running
<1>10. Leave!QuietAfterwards'
  <2> SUFFICES ASSUME NEW m \in DOMAIN said', ~said'[m].tty, m < Len(said')
               PROVE  said'[m + 1].n = Leave!GiveUpMessage
    BY DEF Leave!QuietAfterwards, Leave!GiveUpMessage
  <2>1. m = Len(said)
    <3>1. m # Len(said')
      BY <1>4
    <3> QED
      BY <1>7, <1>8, <3>1
  <2>2. said'[Len(said) + 1].n = n
    BY <1>4
  <2> QED
    BY <1>1, <2>1, <2>2
<1> QED
  BY <1>4, <1>5, <1>6, <1>9, <1>10 DEF Leave!IInv

LEMMA LeaveNext == Leave!IInv /\ Leave!Next => Leave!IInv'
<1> SUFFICES ASSUME Leave!IInv, Leave!Next PROVE Leave!IInv'
  OBVIOUS
<1>1. CASE Leave!Fork
  BY <1>1, LeaveFork
<1>2. CASE Leave!AlarmSet
  BY <1>2, LeaveAlarmSet
<1>3. CASE Leave!Skip
  BY <1>3, LeaveSkip
<1>4. CASE Leave!Sleep
  BY <1>4, LeaveSleep
<1>5. CASE Leave!ExitIfUserLeft
  BY <1>5, LeaveExitIfUserLeft
<1>6. CASE Leave!ShowMessage
  BY <1>6, LeaveShowMessage
<1>7. CASE Leave!GiveUp
  BY <1>7, LeaveGiveUp
<1>8. CASE Leave!LogOut
  BY <1>8, LeaveLogOut
<1>9. CASE Leave!Done
  BY <1>9, LeaveUnchanged DEF Leave!Done
<1> QED
  BY <1>1, <1>2, <1>3, <1>4, <1>5, <1>6, <1>7, <1>8, <1>9 DEF Leave!Next, Leave!Child

-----------------------------------------------------------------------------
(* mugwump *)

LEMMA MugwumpSizes == N \in Nat \ {0, 1} /\ Mugwump!Wumps # {}
<1>1. N \in 2..10 /\ NWUMPS \in Nat \ {0}
  BY MugwumpAssumed DEF Mugwump!MugwumpAssumption
<1>2. 1 \in 1..NWUMPS
  BY <1>1
<1> QED
  BY <1>1, <1>2 DEF Mugwump!Wumps

LEMMA MugwumpInit == Mugwump!Init => Mugwump!IInv
<1> SUFFICES ASSUME Mugwump!Init PROVE Mugwump!IInv
  OBVIOUS
<1> USE MugwumpAssumed DEF Mugwump!MugwumpAssumption
<1>1. /\ pc = "tell" /\ mugwumps \in [Mugwump!Wumps -> Mugwump!Square] /\ found = {}
      /\ player = [x |-> 0, y |-> 0] /\ i = 0 /\ feof = FALSE /\ outcome = "none"
  BY DEF Mugwump!Init
<1>2. Mugwump!TypeOK
  <2>1. player.x \in Int /\ player.y \in -1..9
    BY <1>1
  <2>2. i \in 0..N
    BY <1>1, MugwumpSizes
  <2> QED
    BY <1>1, <2>1, <2>2 DEF Mugwump!TypeOK
<1>3. Mugwump!StillHiding
  BY <1>1, MugwumpSizes DEF Mugwump!StillHiding
<1>4. Mugwump!FairlyJudged /\ Mugwump!NumbersTold /\ Mugwump!NoneThere
  BY <1>1 DEF Mugwump!FairlyJudged, Mugwump!NumbersTold, Mugwump!NoneThere
<1> QED
  BY <1>2, <1>3, <1>4 DEF Mugwump!IInv

\* A line that has been read, whatever is on it, gives a square or none.
LEMMA MugwumpScanPoint ==
  ASSUME NEW s \in Lines
  PROVE  Mugwump!ScanPoint(s).x \in Int /\ Mugwump!ScanPoint(s).y \in -1..9
<1>1. s \in Seq(Nat)
  BY MugwumpAssumed DEF Mugwump!MugwumpAssumption
<1>2. CASE s = <<>>
  BY <1>2 DEF Mugwump!ScanPoint
<1>3. CASE s # <<>>
  <2>1. Len(s) \in 1..Len(s) /\ 1 \in 1..Len(s)
    BY <1>1, <1>3, EmptySeq, LenProperties
  <2>2. s[1] \in Nat /\ s[Len(s)] \in Nat
    BY <1>1, <2>1, ElementOfSeq
  <2>3. s[Len(s)] % 10 \in 0..9
    BY <2>2
  <2> QED
    BY <1>3, <2>2, <2>3 DEF Mugwump!ScanPoint
<1> QED
  BY <1>2, <1>3

LEMMA MugwumpNext == Mugwump!IInv /\ Mugwump!Next => Mugwump!IInv'
<1> SUFFICES ASSUME Mugwump!IInv, Mugwump!Next PROVE Mugwump!IInv'
  OBVIOUS
<1> USE MugwumpAssumed DEF Mugwump!MugwumpAssumption, Mugwump!IInv
<1>1. CASE Mugwump!Tell
  <2>1. /\ pc = "tell" /\ i < N /\ pc' = "ask" /\ told' = [k \in Mugwump!Wumps |-> Mugwump!ToldOf(k)]
        /\ UNCHANGED <<mugwumps, found, player, i, typed, feof, outcome>>
    BY <1>1 DEF Mugwump!Tell, Mugwump!GuessLeft
  <2>2. Mugwump!TypeOK' /\ Mugwump!StillHiding' /\ Mugwump!FairlyJudged' /\ Mugwump!NoneThere'
    BY <2>1 DEF Mugwump!TypeOK, Mugwump!StillHiding, Mugwump!FairlyJudged, Mugwump!NoneThere
  <2>3. ASSUME i > 0, NEW k \in Mugwump!Wumps PROVE told'[k] = IF k \in found' THEN "found" ELSE "number"
    <3>1. k \notin found => mugwumps[k] # player
      BY <2>1, <2>3 DEF Mugwump!NoneThere
    <3>2. told'[k] = IF k \in found THEN "found" ELSE IF mugwumps[k] = player THEN "nan" ELSE "number"
      BY <2>1 DEF Mugwump!ToldOf, Mugwump!Dist
    <3> QED
      BY <2>1, <3>1, <3>2
  <2>4. Mugwump!NumbersTold'
    BY <2>1, <2>3 DEF Mugwump!NumbersTold
  <2> QED
    BY <2>2, <2>4
<1>2. CASE Mugwump!Lose
  <2>1. /\ pc = "tell" /\ ~(i < N) /\ pc' = "again" /\ outcome' = "lose"
        /\ UNCHANGED <<mugwumps, found, player, i, told, typed, feof>>
    BY <1>2 DEF Mugwump!Lose, Mugwump!GuessLeft
  <2>2. Mugwump!TypeOK' /\ i = N
    BY <2>1 DEF Mugwump!TypeOK
  <2> QED
    BY <2>1, <2>2 DEF Mugwump!StillHiding, Mugwump!FairlyJudged, Mugwump!NumbersTold, Mugwump!NoneThere
<1>3. CASE Mugwump!Ask
  <2>1. PICK s \in Lines : player' = Mugwump!ScanPoint(s)
    BY <1>3 DEF Mugwump!Ask
  <2>2. /\ pc = "ask" /\ pc' \in {"look", "ask"} /\ feof' \in BOOLEAN
        /\ UNCHANGED <<mugwumps, found, i, told, outcome>>
    BY <1>3 DEF Mugwump!Ask
  <2>3. Mugwump!TypeOK'
    BY <2>1, <2>2, MugwumpScanPoint DEF Mugwump!TypeOK
  <2> QED
    BY <2>2, <2>3 DEF Mugwump!StillHiding, Mugwump!FairlyJudged, Mugwump!NumbersTold, Mugwump!NoneThere
<1>4. CASE Mugwump!NoLine
  BY <1>4 DEF Mugwump!NoLine, Mugwump!TypeOK, Mugwump!StillHiding,
     Mugwump!FairlyJudged, Mugwump!NumbersTold, Mugwump!NoneThere
<1>5. CASE Mugwump!Look
  <2>1. /\ pc = "look" /\ found' = found \cup Mugwump!Hit
        /\ UNCHANGED <<mugwumps, player, told, typed, feof>>
        /\ IF found' = Mugwump!Wumps THEN pc' = "again" /\ outcome' = "win" /\ UNCHANGED i
           ELSE pc' = "tell" /\ i' = i + 1 /\ UNCHANGED outcome
    BY <1>5 DEF Mugwump!Look, Mugwump!AllFound
  <2>2. Mugwump!Hit \subseteq Mugwump!Wumps
        /\ \A k \in Mugwump!Wumps \ found' : mugwumps'[k] # player'
    BY <2>1 DEF Mugwump!Hit
  <2>3. i' \in 0..N
    BY <2>1 DEF Mugwump!TypeOK
  <2>4. Mugwump!TypeOK'
    BY <2>1, <2>2, <2>3 DEF Mugwump!TypeOK
  <2> QED
    BY <2>1, <2>2, <2>4 DEF Mugwump!StillHiding, Mugwump!FairlyJudged, Mugwump!NumbersTold, Mugwump!NoneThere,
       Mugwump!Wumps
<1>6. CASE Mugwump!Quit
  BY <1>6 DEF Mugwump!Quit, Mugwump!TypeOK, Mugwump!StillHiding,
     Mugwump!FairlyJudged, Mugwump!NumbersTold, Mugwump!NoneThere
<1>7. CASE Mugwump!Again
  <2>1. /\ mugwumps' \in [Mugwump!Wumps -> Mugwump!Square] /\ found' = {}
        /\ player' = [x |-> 0, y |-> 0] /\ i' = 0 /\ pc' = "tell"
        /\ feof' \in {feof, TRUE} /\ UNCHANGED <<typed, outcome>>
    BY <1>7 DEF Mugwump!Again, Mugwump!Play
  <2>2. Mugwump!TypeOK'
    <3>1. player'.x \in Int /\ player'.y \in -1..9
      BY <2>1
    <3>2. i' \in 0..N
      BY <2>1, MugwumpSizes
    <3>3. feof' \in BOOLEAN
      BY <2>1 DEF Mugwump!TypeOK
    <3>4. found' \subseteq Mugwump!Wumps /\ mugwumps' \in [Mugwump!Wumps -> Mugwump!Square]
      BY <2>1
    <3>5. /\ outcome' \in {"none", "win", "lose", "left"} /\ pc' = "tell"
      BY <2>1 DEF Mugwump!TypeOK
    <3> QED
      BY <3>1, <3>2, <3>3, <3>4, <3>5 DEF Mugwump!TypeOK, Mugwump!Wumps, Mugwump!Square
  <2>3. Mugwump!StillHiding'
    BY <2>1, MugwumpSizes DEF Mugwump!StillHiding, Mugwump!Wumps
  <2> QED
    BY <2>1, <2>2, <2>3 DEF Mugwump!FairlyJudged, Mugwump!NumbersTold, Mugwump!NoneThere
<1>8. CASE Mugwump!Done
  BY <1>8 DEF Mugwump!Done, Mugwump!vars, Mugwump!TypeOK, Mugwump!StillHiding,
     Mugwump!FairlyJudged, Mugwump!NumbersTold, Mugwump!NoneThere
<1> QED
  BY <1>1, <1>2, <1>3, <1>4, <1>5, <1>6, <1>7, <1>8 DEF Mugwump!Next

LEMMA MugwumpUnchanged == Mugwump!IInv /\ UNCHANGED Mugwump!vars => Mugwump!IInv'
BY DEF Mugwump!IInv, Mugwump!vars, Mugwump!TypeOK, Mugwump!StillHiding, Mugwump!FairlyJudged,
   Mugwump!NumbersTold, Mugwump!NoneThere

-----------------------------------------------------------------------------
(* bfi: how brackets are counted. Cardinality is defined once more where   *)
(* the module of the language is instantiated.                             *)

LEMMA BfiCardinality ==
  ASSUME NEW S
  PROVE  Bfi!BF!Cardinality(S) = Cardinality(S)
BY DEF Bfi!BF!Cardinality, Cardinality

LEMMA CardinalityNat ==
  ASSUME NEW a \in Int, NEW b \in Int, NEW S \in SUBSET (a..b)
  PROVE  IsFiniteSet(S) /\ Cardinality(S) \in Nat
<1>1. IsFiniteSet(a..b)
  BY FS_Interval
<1> QED
  BY <1>1, FS_Subset, FS_CardinalityType

LEMMA CountAtEnd ==
  ASSUME NEW q, NEW c, NEW a \in Int, NEW b \in Int, a <= b + 1
  PROVE  /\ q[b + 1] = c => Bfi!BF!Count(q, c, a, b + 1) = Bfi!BF!Count(q, c, a, b) + 1
         /\ q[b + 1] # c => Bfi!BF!Count(q, c, a, b + 1) = Bfi!BF!Count(q, c, a, b)
<1> DEFINE S == {m \in a..b : q[m] = c}
           T == {m \in a..b + 1 : q[m] = c}
<1>1. IsFiniteSet(S) /\ Cardinality(S) \in Nat
  <2>1. S \in SUBSET (a..b)
    OBVIOUS
  <2> HIDE DEF S, T
  <2> QED
    BY <2>1, CardinalityNat
<1>2. a..b + 1 = (a..b) \cup {b + 1} /\ b + 1 \notin a..b
  OBVIOUS
<1>3. ASSUME q[b + 1] = c PROVE Cardinality(T) = Cardinality(S) + 1
  <2>1. T = S \cup {b + 1} /\ b + 1 \notin S
    BY <1>2, <1>3
  <2> HIDE DEF S, T
  <2> QED
    BY <1>1, <2>1, FS_AddElement
<1>4. ASSUME q[b + 1] # c PROVE T = S
  BY <1>2, <1>4
<1> QED
  BY <1>3, <1>4, BfiCardinality DEF Bfi!BF!Count

LEMMA CountAtStart ==
  ASSUME NEW q, NEW c, NEW a \in Int, NEW b \in Int, a <= b + 1
  PROVE  /\ q[a - 1] = c => Bfi!BF!Count(q, c, a - 1, b) = Bfi!BF!Count(q, c, a, b) + 1
         /\ q[a - 1] # c => Bfi!BF!Count(q, c, a - 1, b) = Bfi!BF!Count(q, c, a, b)
<1> DEFINE S == {m \in a..b : q[m] = c}
           T == {m \in a - 1..b : q[m] = c}
<1>1. IsFiniteSet(S) /\ Cardinality(S) \in Nat
  <2>1. S \in SUBSET (a..b)
    OBVIOUS
  <2> HIDE DEF S, T
  <2> QED
    BY <2>1, CardinalityNat
<1>2. a - 1..b = (a..b) \cup {a - 1} /\ a - 1 \notin a..b
  OBVIOUS
<1>3. ASSUME q[a - 1] = c PROVE Cardinality(T) = Cardinality(S) + 1
  <2>1. T = S \cup {a - 1} /\ a - 1 \notin S
    BY <1>2, <1>3
  <2> HIDE DEF S, T
  <2> QED
    BY <1>1, <2>1, FS_AddElement
<1>4. ASSUME q[a - 1] # c PROVE T = S
  BY <1>2, <1>4
<1> QED
  BY <1>3, <1>4, BfiCardinality DEF Bfi!BF!Count

LEMMA CountEmpty ==
  ASSUME NEW q, NEW c, NEW a \in Int, NEW b \in Int, a > b
  PROVE  Bfi!BF!Count(q, c, a, b) = 0
<1>1. {m \in a..b : q[m] = c} = {}
  OBVIOUS
<1> QED
  BY <1>1, FS_EmptySet, BfiCardinality DEF Bfi!BF!Count

LEMMA CountNat ==
  ASSUME NEW q, NEW c, NEW a \in Int, NEW b \in Int
  PROVE  Bfi!BF!Count(q, c, a, b) \in Nat
<1> DEFINE S == {m \in a..b : q[m] = c}
<1>1. S \in SUBSET (a..b)
  OBVIOUS
<1>2. Cardinality(S) \in Nat
  <2> HIDE DEF S
  <2> QED
    BY <1>1, CardinalityNat
<1> QED
  BY <1>2, BfiCardinality DEF Bfi!BF!Count

LEMMA CountSplits ==
  ASSUME NEW q, NEW c, NEW a \in Int, NEW b \in Int, NEW d \in Int, a <= b + 1, b <= d
  PROVE  Bfi!BF!Count(q, c, a, d) = Bfi!BF!Count(q, c, a, b) + Bfi!BF!Count(q, c, b + 1, d)
<1> DEFINE S == {m \in a..b : q[m] = c}
           T == {m \in b + 1..d : q[m] = c}
           U == {m \in a..d : q[m] = c}
<1>1. /\ IsFiniteSet(S) /\ Cardinality(S) \in Nat
      /\ IsFiniteSet(T) /\ Cardinality(T) \in Nat
  <2>1. S \in SUBSET (a..b) /\ T \in SUBSET (b + 1..d) /\ b + 1 \in Int
    OBVIOUS
  <2> HIDE DEF S, T
  <2> QED
    BY <2>1, CardinalityNat
<1>2. a..d = (a..b) \cup (b + 1..d) /\ (a..b) \cap (b + 1..d) = {}
  OBVIOUS
<1>3. U = S \cup T /\ S \cap T = {}
  BY <1>2
<1>4. Cardinality(U) = Cardinality(S) + Cardinality(T)
  <2> HIDE DEF S, T, U
  <2>1. Cardinality(S \cup T) = Cardinality(S) + Cardinality(T) - Cardinality(S \cap T)
    BY <1>1, FS_Union
  <2>2. Cardinality(S \cap T) = 0
    BY <1>3, FS_EmptySet
  <2> QED
    BY <1>1, <1>3, <2>1, <2>2
<1> QED
  BY <1>4, BfiCardinality DEF Bfi!BF!Count

LEMMA RiseAtEnd ==
  ASSUME NEW q, NEW a \in Int, NEW b \in Int, a <= b + 1
  PROVE  /\ Bfi!BF!Rise(q, a, b) \in Int /\ Bfi!BF!Rise(q, a, b + 1) \in Int
         /\ q[b + 1] = "[" => Bfi!BF!Rise(q, a, b + 1) = Bfi!BF!Rise(q, a, b) + 1
         /\ q[b + 1] = "]" => Bfi!BF!Rise(q, a, b + 1) = Bfi!BF!Rise(q, a, b) - 1
         /\ q[b + 1] \notin {"[", "]"} => Bfi!BF!Rise(q, a, b + 1) = Bfi!BF!Rise(q, a, b)
<1>1. b + 1 \in Int
  OBVIOUS
<1>2. /\ Bfi!BF!Count(q, "[", a, b) \in Nat /\ Bfi!BF!Count(q, "[", a, b + 1) \in Nat
      /\ Bfi!BF!Count(q, "]", a, b) \in Nat /\ Bfi!BF!Count(q, "]", a, b + 1) \in Nat
  BY <1>1, CountNat
<1>3. /\ q[b + 1] = "[" => Bfi!BF!Count(q, "[", a, b + 1) = Bfi!BF!Count(q, "[", a, b) + 1
      /\ q[b + 1] # "[" => Bfi!BF!Count(q, "[", a, b + 1) = Bfi!BF!Count(q, "[", a, b)
  BY CountAtEnd
<1>4. /\ q[b + 1] = "]" => Bfi!BF!Count(q, "]", a, b + 1) = Bfi!BF!Count(q, "]", a, b) + 1
      /\ q[b + 1] # "]" => Bfi!BF!Count(q, "]", a, b + 1) = Bfi!BF!Count(q, "]", a, b)
  BY CountAtEnd
<1> QED
  BY <1>2, <1>3, <1>4 DEF Bfi!BF!Rise

LEMMA RiseAtStart ==
  ASSUME NEW q, NEW a \in Int, NEW b \in Int, a <= b + 1
  PROVE  /\ Bfi!BF!Rise(q, a, b) \in Int /\ Bfi!BF!Rise(q, a - 1, b) \in Int
         /\ q[a - 1] = "[" => Bfi!BF!Rise(q, a - 1, b) = Bfi!BF!Rise(q, a, b) + 1
         /\ q[a - 1] = "]" => Bfi!BF!Rise(q, a - 1, b) = Bfi!BF!Rise(q, a, b) - 1
         /\ q[a - 1] \notin {"[", "]"} => Bfi!BF!Rise(q, a - 1, b) = Bfi!BF!Rise(q, a, b)
<1>1. a - 1 \in Int
  OBVIOUS
<1>2. /\ Bfi!BF!Count(q, "[", a, b) \in Nat /\ Bfi!BF!Count(q, "[", a - 1, b) \in Nat
      /\ Bfi!BF!Count(q, "]", a, b) \in Nat /\ Bfi!BF!Count(q, "]", a - 1, b) \in Nat
  BY <1>1, CountNat
<1>3. /\ q[a - 1] = "[" => Bfi!BF!Count(q, "[", a - 1, b) = Bfi!BF!Count(q, "[", a, b) + 1
      /\ q[a - 1] # "[" => Bfi!BF!Count(q, "[", a - 1, b) = Bfi!BF!Count(q, "[", a, b)
  BY CountAtStart
<1>4. /\ q[a - 1] = "]" => Bfi!BF!Count(q, "]", a - 1, b) = Bfi!BF!Count(q, "]", a, b) + 1
      /\ q[a - 1] # "]" => Bfi!BF!Count(q, "]", a - 1, b) = Bfi!BF!Count(q, "]", a, b)
  BY CountAtStart
<1> QED
  BY <1>2, <1>3, <1>4 DEF Bfi!BF!Rise

LEMMA RiseEmpty ==
  ASSUME NEW q, NEW a \in Int, NEW b \in Int, a > b
  PROVE  Bfi!BF!Rise(q, a, b) = 0
BY CountEmpty DEF Bfi!BF!Rise

LEMMA RiseSplits ==
  ASSUME NEW q, NEW a \in Int, NEW b \in Int, NEW d \in Int, a <= b + 1, b <= d
  PROVE  /\ Bfi!BF!Rise(q, a, b) \in Int /\ Bfi!BF!Rise(q, b + 1, d) \in Int
         /\ Bfi!BF!Rise(q, a, d) = Bfi!BF!Rise(q, a, b) + Bfi!BF!Rise(q, b + 1, d)
<1>1. b + 1 \in Int
  OBVIOUS
<1>2. /\ Bfi!BF!Count(q, "[", a, b) \in Nat /\ Bfi!BF!Count(q, "[", b + 1, d) \in Nat
      /\ Bfi!BF!Count(q, "]", a, b) \in Nat /\ Bfi!BF!Count(q, "]", b + 1, d) \in Nat
  BY <1>1, CountNat
<1>3. /\ Bfi!BF!Count(q, "[", a, d) = Bfi!BF!Count(q, "[", a, b) + Bfi!BF!Count(q, "[", b + 1, d)
      /\ Bfi!BF!Count(q, "]", a, d) = Bfi!BF!Count(q, "]", a, b) + Bfi!BF!Count(q, "]", b + 1, d)
  BY CountSplits
<1> QED
  BY <1>2, <1>3 DEF Bfi!BF!Rise

LEMMA Remainder == ASSUME NEW v \in Int PROVE v % INTSZ \in 0..INTSZ - 1
BY BfiAssumed DEF Bfi!BfiAssumption

LEMMA BfiSizes ==
  /\ MEMSZ \in Nat \ {0} /\ INTSZ \in Nat \ {0}
  /\ \A q \in Programs : q \in Seq(STRING) /\ Len(q) \in Nat /\ DOMAIN q = 1..Len(q)
BY BfiAssumed, LenProperties DEF Bfi!BfiAssumption

LEMMA BfiInit == Bfi!Init => Bfi!IInv
<1> SUFFICES ASSUME Bfi!Init PROVE Bfi!IInv
  OBVIOUS
<1>1. /\ p \in Programs /\ pc = 1 /\ l = 0 /\ at = 1 /\ xc = 0
      /\ x = [c \in 0..MEMSZ - 1 |-> 0]
      /\ mode = IF p = <<>> THEN "end" ELSE "run"
  BY DEF Bfi!Init
<1>2. Len(p) \in Nat /\ DOMAIN p = 1..Len(p) /\ (p # <<>> => Len(p) > 0)
  BY <1>1, BfiSizes, EmptySeq
<1>3. Bfi!TypeOK
  <2>1. 0 \in 0..INTSZ - 1 /\ pc \in 0..Len(p) + 1
    BY <1>1, <1>2, BfiSizes
  <2> QED
    BY <1>1, <2>1 DEF Bfi!TypeOK
<1>4. Bfi!Running
  <2>1. Len(p) > 0 => pc \in DOMAIN p
    BY <1>1, <1>2
  <2> QED
    BY <1>1, <1>2, <2>1 DEF Bfi!Running
<1>5. mode # "forward" /\ mode # "back" /\ mode # "undefined"
  BY <1>1
<1> QED
  BY <1>3, <1>4, <1>5 DEF Bfi!IInv, Bfi!GoesForward, Bfi!GoesBack

\* Where the for loop goes to the next instruction.
LEMMA BfiGoto ==
  ASSUME Bfi!IInv, NEW k \in 1..Len(p) + 1, Bfi!Goto(k), p' = p,
         l' = 0, x' \in [0..MEMSZ - 1 -> 0..INTSZ - 1]
  PROVE  Bfi!IInv'
<1>1. /\ p \in Programs /\ Len(p) \in Nat /\ DOMAIN p = 1..Len(p)
  BY BfiSizes DEF Bfi!IInv, Bfi!TypeOK
<1>2. pc' = k /\ at' = k /\ mode' = IF k > Len(p) THEN "end" ELSE "run"
  BY DEF Bfi!Goto
<1>3. k \in 0..Len(p) + 1 /\ (k <= Len(p) => k \in DOMAIN p) /\ (k <= Len(p) \/ k > Len(p))
  BY <1>1
<1>4. mode' \in {"run", "end"} /\ (mode' = "run" => k \in DOMAIN p)
  BY <1>2, <1>3
<1>5. 0 \in Nat
  OBVIOUS
<1>6. Bfi!TypeOK'
  BY <1>1, <1>2, <1>3, <1>4, <1>5 DEF Bfi!TypeOK
<1> QED
  BY <1>2, <1>4, <1>6 DEF Bfi!IInv, Bfi!Running, Bfi!GoesForward, Bfi!GoesBack

LEMMA BfiStep == Bfi!IInv /\ Bfi!Step => Bfi!IInv'
<1> SUFFICES ASSUME Bfi!IInv, Bfi!Step PROVE Bfi!IInv'
  OBVIOUS
<1>1. /\ mode = "run" /\ p' = p /\ l' = l /\ Bfi!Goto(pc + 1) /\ Bfi!Plain(p[pc])
      /\ Bfi!Touches => Bfi!InMemory
  BY DEF Bfi!Step
<1>2. l = 0 /\ pc \in 1..Len(p) /\ Len(p) \in Nat /\ x \in [0..MEMSZ - 1 -> 0..INTSZ - 1]
  BY <1>1, BfiSizes DEF Bfi!IInv, Bfi!TypeOK, Bfi!Running
<1>3. pc + 1 \in 1..Len(p) + 1
  BY <1>2
<1>4. x' \in [0..MEMSZ - 1 -> 0..INTSZ - 1]
  <2>1. ASSUME NEW v \in Int, Bfi!Set(v), Bfi!InMemory PROVE x' \in [0..MEMSZ - 1 -> 0..INTSZ - 1]
    <3>1. v % INTSZ \in 0..INTSZ - 1
      BY Remainder
    <3> QED
      BY <1>2, <2>1, <3>1 DEF Bfi!Set
  <2>2. Bfi!InMemory => x[xc] + 1 \in Int /\ x[xc] - 1 \in Int
    BY <1>2 DEF Bfi!InMemory
  <2>3. CASE p[pc] = "+"
    <3>1. Bfi!Set(x[xc] + 1) /\ Bfi!InMemory
      BY <1>1, <2>3 DEF Bfi!Plain, Bfi!Plus, Bfi!Touches
    <3> QED
      BY <2>1, <2>2, <3>1
  <2>4. CASE p[pc] = "-"
    <3>1. Bfi!Set(x[xc] - 1) /\ Bfi!InMemory
      BY <1>1, <2>4 DEF Bfi!Plain, Bfi!Minus, Bfi!Touches
    <3> QED
      BY <2>1, <2>2, <3>1
  <2>5. CASE p[pc] = ","
    <3>1. Bfi!InMemory /\ \E c \in 0..INTSZ - 1 : Bfi!Set(c)
      BY <1>1, <2>5 DEF Bfi!Plain, Bfi!Comma, Bfi!Touches
    <3>2. PICK c \in 0..INTSZ - 1 : Bfi!Set(c)
      BY <3>1
    <3>3. c \in Int
      BY <3>2
    <3> QED
      BY <2>1, <3>1, <3>2, <3>3
  <2>6. CASE p[pc] \notin {"+", "-", ","}
    <3>1. x' = x
      BY <1>1, <2>6 DEF Bfi!Plain, Bfi!Dot, Bfi!Right, Bfi!Left
    <3> QED
      BY <1>2, <3>1
  <2> QED
    BY <2>3, <2>4, <2>5, <2>6
<1> QED
  BY <1>1, <1>2, <1>3, <1>4, BfiGoto

LEMMA BfiUndefined == Bfi!IInv /\ Bfi!Undefined => Bfi!IInv'
<1> SUFFICES ASSUME Bfi!IInv, Bfi!Undefined PROVE Bfi!IInv'
  OBVIOUS
<1>1. /\ mode = "run" /\ ~Bfi!InMemory /\ mode' = "undefined" /\ p' = p /\ pc' = pc /\ l' = l /\ xc' = xc
      /\ x' = x /\ at' = at
  BY DEF Bfi!Undefined, Bfi!Touches
<1>2. Bfi!TypeOK'
  BY <1>1 DEF Bfi!IInv, Bfi!TypeOK
<1>3. ~Bfi!InMemory'
  BY <1>1 DEF Bfi!InMemory
<1> QED
  BY <1>1, <1>2, <1>3 DEF Bfi!IInv, Bfi!Running, Bfi!GoesForward, Bfi!GoesBack

LEMMA BfiOpen == Bfi!IInv /\ Bfi!Open => Bfi!IInv'
<1> SUFFICES ASSUME Bfi!IInv, Bfi!Open PROVE Bfi!IInv'
  OBVIOUS
<1>1. /\ mode = "run" /\ p[pc] = "[" /\ xc \in 0..MEMSZ - 1
      /\ p' = p /\ l' = l /\ xc' = xc /\ x' = x
  BY DEF Bfi!Open, Bfi!InMemory
<1>2. /\ p \in Programs /\ l = 0 /\ pc \in 1..Len(p) /\ DOMAIN p = 1..Len(p) /\ Len(p) \in Nat
      /\ x \in [0..MEMSZ - 1 -> 0..INTSZ - 1] /\ at = pc
  BY <1>1, BfiSizes DEF Bfi!IInv, Bfi!TypeOK, Bfi!Running
<1>3. CASE x[xc] = 0
  <2>1. pc' = pc + 1 /\ mode' = "forward" /\ at' = at
    BY <1>1, <1>3 DEF Bfi!Open
  <2>2. Bfi!TypeOK'
    <3>1. pc + 1 \in 0..Len(p) + 1
      BY <1>2
    <3> QED
      BY <1>1, <1>2, <2>1, <3>1 DEF Bfi!IInv, Bfi!TypeOK
  <2>3. Bfi!BF!Rise(p, pc, pc) = 1
    <3> DEFINE k == pc - 1
    <3>1. k \in Int /\ k + 1 = pc /\ pc \in Int /\ pc <= k + 1 /\ pc > k
      BY <1>2
    <3>2. p[k + 1] = "["
      BY <1>1, <3>1
    <3> HIDE DEF k
    <3>3. Bfi!BF!Rise(p, pc, k + 1) = Bfi!BF!Rise(p, pc, k) + 1
      BY <3>1, <3>2, RiseAtEnd
    <3>4. Bfi!BF!Rise(p, pc, k) = 0
      BY <3>1, RiseEmpty
    <3> QED
      BY <3>1, <3>3, <3>4
  <2>4. Bfi!GoesForward'
    <3>1. /\ (pc + 1) - 1 = pc /\ pc + 1 > pc /\ l' + 1 = 1
          /\ \A k \in pc..((pc + 1) - 1) : k = pc
      BY <1>1, <1>2
    <3>2. \A k \in pc..((pc + 1) - 1) : Bfi!BF!Rise(p, pc, k) > 0
      BY <2>3, <3>1
    <3> QED
      BY <1>1, <1>2, <1>3, <2>1, <2>3, <3>1, <3>2 DEF Bfi!GoesForward
  <2> QED
    BY <2>1, <2>2, <2>4 DEF Bfi!IInv, Bfi!Running, Bfi!GoesBack
<1>4. CASE x[xc] # 0
  <2>1. Bfi!Goto(pc + 1)
    BY <1>1, <1>4 DEF Bfi!Open
  <2>2. pc + 1 \in 1..Len(p) + 1
    BY <1>2
  <2> QED
    BY <1>1, <1>2, <2>1, <2>2, BfiGoto
<1> QED
  BY <1>3, <1>4

LEMMA BfiClose == Bfi!IInv /\ Bfi!Close => Bfi!IInv'
<1> SUFFICES ASSUME Bfi!IInv, Bfi!Close PROVE Bfi!IInv'
  OBVIOUS
<1>1. /\ mode = "run" /\ p[pc] = "]" /\ pc' = pc - 1 /\ mode' = "back"
      /\ p' = p /\ l' = l /\ xc' = xc /\ x' = x /\ at' = at
  BY DEF Bfi!Close
<1>2. /\ p \in Programs /\ l = 0 /\ pc \in 1..Len(p) /\ DOMAIN p = 1..Len(p) /\ Len(p) \in Nat
      /\ x \in [0..MEMSZ - 1 -> 0..INTSZ - 1] /\ at = pc
  BY <1>1, BfiSizes DEF Bfi!IInv, Bfi!TypeOK, Bfi!Running
<1>3. Bfi!TypeOK'
  <2>1. pc - 1 \in 0..Len(p) + 1
    BY <1>2
  <2> QED
    BY <1>1, <1>2, <2>1 DEF Bfi!IInv, Bfi!TypeOK
<1>4. Bfi!BF!Rise(p, pc, pc) = -1
  <2> DEFINE k == pc + 1
  <2>1. k \in Int /\ k - 1 = pc /\ pc \in Int /\ k <= pc + 1 /\ k > pc
    BY <1>2
  <2>2. p[k - 1] = "]"
    BY <1>1, <2>1
  <2> HIDE DEF k
  <2>3. Bfi!BF!Rise(p, k - 1, pc) = Bfi!BF!Rise(p, k, pc) - 1
    BY <2>1, <2>2, RiseAtStart
  <2>4. Bfi!BF!Rise(p, k, pc) = 0
    BY <2>1, RiseEmpty
  <2> QED
    BY <2>1, <2>3, <2>4
<1>5. Bfi!GoesBack'
  <2>1. /\ (pc - 1) + 1 = pc /\ pc - 1 < pc /\ -(l' + 1) = -1
        /\ \A k \in ((pc - 1) + 1)..pc : k = pc
    BY <1>1, <1>2
  <2>2. \A k \in ((pc - 1) + 1)..pc : Bfi!BF!Rise(p, k, pc) < 0
    BY <1>4, <2>1
  <2> QED
    BY <1>1, <1>2, <1>4, <2>1, <2>2 DEF Bfi!GoesBack
<1> QED
  BY <1>1, <1>3, <1>5 DEF Bfi!IInv, Bfi!Running, Bfi!GoesForward

LEMMA BfiForward == Bfi!IInv /\ Bfi!Forward => Bfi!IInv'
<1> SUFFICES ASSUME Bfi!IInv, Bfi!Forward PROVE Bfi!IInv'
  OBVIOUS
<1>1. mode = "forward" /\ pc \in DOMAIN p /\ p' = p /\ xc' = xc /\ x' = x
  BY DEF Bfi!Forward
<1>2. /\ p \in Programs /\ l \in Nat /\ pc \in 1..Len(p) /\ DOMAIN p = 1..Len(p) /\ Len(p) \in Nat
      /\ x \in [0..MEMSZ - 1 -> 0..INTSZ - 1]
  BY <1>1, BfiSizes DEF Bfi!IInv, Bfi!TypeOK
<1>3. /\ at \in DOMAIN p /\ p[at] = "[" /\ xc \in 0..MEMSZ - 1 /\ x[xc] = 0
      /\ pc > at /\ Bfi!BF!Rise(p, at, pc - 1) = l + 1
      /\ \A k \in at..pc - 1 : Bfi!BF!Rise(p, at, k) > 0
  BY <1>1 DEF Bfi!IInv, Bfi!GoesForward
<1>4. pc + 1 \in 1..Len(p) + 1 /\ at \in 1..Len(p)
  BY <1>2, <1>3
<1>5. CASE Bfi!Found("]")
  <2>1. Bfi!Goto(pc + 1) /\ l' = l /\ l = 0
    BY <1>5 DEF Bfi!Forward, Bfi!Found
  <2> QED
    BY <1>1, <1>2, <1>4, <2>1, BfiGoto
<1>6. CASE ~Bfi!Found("]")
  <2>1. l' = Bfi!Counted(p[pc], "[", "]") /\ pc' = pc + 1 /\ mode' = mode /\ at' = at
    BY <1>6 DEF Bfi!Forward, Bfi!Walk
  <2>2. Bfi!BF!Rise(p, at, pc) = l' + 1 /\ l' \in Nat
    <3> DEFINE k == pc - 1
    <3>1. k \in Int /\ k + 1 = pc /\ at \in Int /\ at <= k + 1
      BY <1>2, <1>3, <1>4
    <3> HIDE DEF k
    <3>2. /\ p[pc] = "[" => Bfi!BF!Rise(p, at, pc) = Bfi!BF!Rise(p, at, k) + 1
          /\ p[pc] = "]" => Bfi!BF!Rise(p, at, pc) = Bfi!BF!Rise(p, at, k) - 1
          /\ p[pc] \notin {"[", "]"} => Bfi!BF!Rise(p, at, pc) = Bfi!BF!Rise(p, at, k)
      BY <3>1, RiseAtEnd
    <3>3. Bfi!BF!Rise(p, at, k) = l + 1
      BY <1>3 DEF k
    <3>4. CASE p[pc] = "["
      <4>1. l' = l + 1
        BY <2>1, <3>4 DEF Bfi!Counted
      <4> QED
        BY <1>2, <3>2, <3>3, <3>4, <4>1
    <3>5. CASE p[pc] = "]"
      <4>1. l' = l - 1
        BY <2>1, <3>5 DEF Bfi!Counted
      <4>2. l # 0
        BY <1>6, <3>5 DEF Bfi!Found
      <4> QED
        BY <1>2, <3>2, <3>3, <3>5, <4>1, <4>2
    <3>6. CASE p[pc] \notin {"[", "]"}
      <4>1. l' = l
        BY <2>1, <3>6 DEF Bfi!Counted
      <4> QED
        BY <1>2, <3>2, <3>3, <3>6, <4>1
    <3> QED
      BY <3>4, <3>5, <3>6
  <2>3. Bfi!TypeOK'
    <3>1. pc + 1 \in 0..Len(p) + 1
      BY <1>4
    <3> QED
      BY <1>1, <1>2, <2>1, <2>2, <3>1 DEF Bfi!TypeOK
  <2>4. Bfi!GoesForward'
    <3>1. (pc + 1) - 1 = pc /\ pc + 1 > at
      BY <1>2, <1>3, <1>4
    <3>2. \A k \in at..pc : k \in at..pc - 1 \/ k = pc
      BY <1>2, <1>4
    <3>3. Bfi!BF!Rise(p, at, pc) > 0
      <4>1. \A v \in Nat : v + 1 > 0
        OBVIOUS
      <4>2. l' + 1 > 0
        BY <2>2, <4>1
      <4> QED
        BY <2>2, <4>2
    <3>4. \A k \in at..pc : Bfi!BF!Rise(p, at, k) > 0
      BY <1>3, <3>2, <3>3
    <3> QED
      BY <1>1, <1>3, <2>1, <2>2, <3>1, <3>4 DEF Bfi!GoesForward
  <2> QED
    BY <1>1, <2>1, <2>3, <2>4 DEF Bfi!IInv, Bfi!Running, Bfi!GoesBack
<1> QED
  BY <1>5, <1>6

LEMMA BfiBack == Bfi!IInv /\ Bfi!Back => Bfi!IInv'
<1> SUFFICES ASSUME Bfi!IInv, Bfi!Back PROVE Bfi!IInv'
  OBVIOUS
<1>1. mode = "back" /\ pc \in DOMAIN p /\ p' = p /\ xc' = xc /\ x' = x
  BY DEF Bfi!Back
<1>2. /\ p \in Programs /\ l \in Nat /\ pc \in 1..Len(p) /\ DOMAIN p = 1..Len(p) /\ Len(p) \in Nat
      /\ x \in [0..MEMSZ - 1 -> 0..INTSZ - 1]
  BY <1>1, BfiSizes DEF Bfi!IInv, Bfi!TypeOK
<1>3. /\ at \in DOMAIN p /\ p[at] = "]"
      /\ pc < at /\ Bfi!BF!Rise(p, pc + 1, at) = -(l + 1)
      /\ \A k \in pc + 1..at : Bfi!BF!Rise(p, k, at) < 0
  BY <1>1 DEF Bfi!IInv, Bfi!GoesBack
<1>4. pc \in 1..Len(p) + 1 /\ at \in 1..Len(p) /\ pc - 1 \in 0..Len(p) + 1
  BY <1>2, <1>3
<1>5. CASE Bfi!Found("[")
  <2>1. Bfi!Goto(pc) /\ l' = l /\ l = 0
    BY <1>5 DEF Bfi!Back, Bfi!Found
  <2> QED
    BY <1>1, <1>2, <1>4, <2>1, BfiGoto
<1>6. CASE ~Bfi!Found("[")
  <2>1. l' = Bfi!Counted(p[pc], "]", "[") /\ pc' = pc + (-1) /\ mode' = mode /\ at' = at
    BY <1>6 DEF Bfi!Back, Bfi!Walk
  <2>2. pc' = pc - 1
    BY <1>2, <2>1
  <2>3. Bfi!BF!Rise(p, pc, at) = -(l' + 1) /\ l' \in Nat
    <3> DEFINE k == pc + 1
    <3>1. k \in Int /\ k - 1 = pc /\ at \in Int /\ k <= at + 1
      BY <1>2, <1>3, <1>4
    <3> HIDE DEF k
    <3>2. /\ p[pc] = "[" => Bfi!BF!Rise(p, pc, at) = Bfi!BF!Rise(p, k, at) + 1
          /\ p[pc] = "]" => Bfi!BF!Rise(p, pc, at) = Bfi!BF!Rise(p, k, at) - 1
          /\ p[pc] \notin {"[", "]"} => Bfi!BF!Rise(p, pc, at) = Bfi!BF!Rise(p, k, at)
      BY <3>1, RiseAtStart
    <3>3. Bfi!BF!Rise(p, k, at) = -(l + 1)
      BY <1>3 DEF k
    <3>4. CASE p[pc] = "["
      <4>1. l' = l - 1
        BY <2>1, <3>4 DEF Bfi!Counted
      <4>2. l # 0
        BY <1>6, <3>4 DEF Bfi!Found
      <4> QED
        BY <1>2, <3>2, <3>3, <3>4, <4>1, <4>2
    <3>5. CASE p[pc] = "]"
      <4>1. l' = l + 1
        BY <2>1, <3>5 DEF Bfi!Counted
      <4> QED
        BY <1>2, <3>2, <3>3, <3>5, <4>1
    <3>6. CASE p[pc] \notin {"[", "]"}
      <4>1. l' = l
        BY <2>1, <3>6 DEF Bfi!Counted
      <4> QED
        BY <1>2, <3>2, <3>3, <3>6, <4>1
    <3> QED
      BY <3>4, <3>5, <3>6
  <2>4. Bfi!TypeOK'
    BY <1>1, <1>2, <1>4, <2>1, <2>2, <2>3 DEF Bfi!TypeOK
  <2>5. Bfi!GoesBack'
    <3>1. (pc - 1) + 1 = pc /\ pc - 1 < at
      BY <1>2, <1>3, <1>4
    <3>2. \A k \in pc..at : k \in pc + 1..at \/ k = pc
      BY <1>2, <1>4
    <3>3. Bfi!BF!Rise(p, pc, at) < 0
      <4>1. \A v \in Nat : -(v + 1) < 0
        OBVIOUS
      <4>2. -(l' + 1) < 0
        BY <2>3, <4>1
      <4> QED
        BY <2>3, <4>2
    <3>4. \A k \in pc..at : Bfi!BF!Rise(p, k, at) < 0
      BY <1>3, <3>2, <3>3
    <3> QED
      BY <1>1, <1>3, <2>1, <2>2, <2>3, <3>1, <3>4 DEF Bfi!GoesBack
  <2> QED
    BY <1>1, <2>1, <2>4, <2>5 DEF Bfi!IInv, Bfi!Running, Bfi!GoesForward
<1> QED
  BY <1>5, <1>6

\* A search for a bracket that is not there has met more of one kind than of
\* the other.
LEMMA BfiFinds == Bfi!IInv => Bfi!FindsBracket
<1> SUFFICES ASSUME Bfi!IInv, Bfi!WellFormed
             PROVE  mode \in {"forward", "back"} => pc \in DOMAIN p
  BY DEF Bfi!IInv, Bfi!FindsBracket
<1>1. /\ l \in Nat /\ pc \in 0..Len(p) + 1 /\ DOMAIN p = 1..Len(p) /\ Len(p) \in Nat
  BY BfiSizes DEF Bfi!IInv, Bfi!TypeOK
<1>2. Bfi!BF!Rise(p, 1, Len(p)) = 0 /\ \A k \in 0..Len(p) : Bfi!BF!Rise(p, 1, k) >= 0
  BY DEF Bfi!WellFormed, Bfi!Depth
<1>3. ASSUME mode = "forward" PROVE pc # Len(p) + 1 /\ pc # 0
  <2>1. at \in 1..Len(p) /\ pc > at /\ Bfi!BF!Rise(p, at, pc - 1) = l + 1
    BY <1>1, <1>3 DEF Bfi!IInv, Bfi!GoesForward
  <2>2. SUFFICES ASSUME pc = Len(p) + 1 PROVE FALSE
    BY <1>1, <2>1
  <2> DEFINE k == at - 1
  <2>3. k \in 0..Len(p) /\ k \in Int /\ k + 1 = at /\ 1 <= k + 1 /\ k <= Len(p) /\ pc - 1 = Len(p)
    BY <1>1, <2>1, <2>2
  <2> HIDE DEF k
  <2>4. /\ Bfi!BF!Rise(p, 1, k) \in Int
        /\ Bfi!BF!Rise(p, 1, Len(p)) = Bfi!BF!Rise(p, 1, k) + Bfi!BF!Rise(p, k + 1, Len(p))
    BY <1>1, <2>3, RiseSplits
  <2>5. Bfi!BF!Rise(p, k + 1, Len(p)) = l + 1 /\ Bfi!BF!Rise(p, 1, k) >= 0
    BY <1>2, <2>1, <2>3
  <2> QED
    BY <1>1, <1>2, <2>4, <2>5
<1>4. ASSUME mode = "back" PROVE pc # Len(p) + 1 /\ pc # 0
  <2>1. at \in 1..Len(p) /\ pc < at /\ Bfi!BF!Rise(p, pc + 1, at) = -(l + 1)
    BY <1>1, <1>4 DEF Bfi!IInv, Bfi!GoesBack
  <2>2. SUFFICES ASSUME pc = 0 PROVE FALSE
    BY <1>1, <2>1
  <2>3. pc + 1 = 1 /\ at \in 0..Len(p)
    BY <1>1, <2>1, <2>2
  <2>4. Bfi!BF!Rise(p, 1, at) = -(l + 1) /\ Bfi!BF!Rise(p, 1, at) >= 0
    BY <1>2, <2>1, <2>3
  <2> QED
    BY <1>1, <2>4
<1> QED
  BY <1>1, <1>3, <1>4

LEMMA BfiAstray == Bfi!IInv /\ Bfi!Astray => Bfi!IInv'
<1> SUFFICES ASSUME Bfi!IInv, Bfi!Astray PROVE Bfi!IInv'
  OBVIOUS
<1>1. /\ mode \in {"forward", "back"} /\ pc \notin DOMAIN p /\ mode' = "undefined"
      /\ p' = p /\ pc' = pc /\ l' = l /\ xc' = xc /\ x' = x /\ at' = at
  BY DEF Bfi!Astray
<1>2. Bfi!TypeOK'
  BY <1>1 DEF Bfi!IInv, Bfi!TypeOK
<1>3. ~Bfi!WellFormed
  BY <1>1, BfiFinds DEF Bfi!FindsBracket
<1>4. ~Bfi!WellFormed'
  BY <1>1, <1>3 DEF Bfi!WellFormed, Bfi!Depth
<1> QED
  BY <1>1, <1>2, <1>4 DEF Bfi!IInv, Bfi!Running, Bfi!GoesForward, Bfi!GoesBack

LEMMA BfiUnchanged == Bfi!IInv /\ UNCHANGED Bfi!vars => Bfi!IInv'
BY DEF Bfi!IInv, Bfi!TypeOK, Bfi!Running, Bfi!GoesForward, Bfi!GoesBack, Bfi!WellFormed, Bfi!Depth,
       Bfi!InMemory, Bfi!vars

LEMMA BfiNext == Bfi!IInv /\ Bfi!Next => Bfi!IInv'
BY BfiStep, BfiUndefined, BfiOpen, BfiClose, BfiForward, BfiBack, BfiAstray, BfiUnchanged
   DEF Bfi!Next, Bfi!Done

\* A step of the interpreter is the step of the language of that instruction.
LEMMA BfiStepIsInstruction == Bfi!IInv /\ Bfi!Step => Bfi!BF!Next
<1> SUFFICES ASSUME Bfi!IInv, Bfi!Step PROVE Bfi!BF!Next
  OBVIOUS
<1>1. /\ mode = "run" /\ p' = p /\ at' = pc + 1 /\ p[pc] \notin {"[", "]"}
      /\ Bfi!Plain(p[pc]) /\ (Bfi!Touches => Bfi!InMemory)
  BY DEF Bfi!Step, Bfi!Goto
<1>2. /\ pc \in DOMAIN p /\ at = pc /\ DOMAIN x = 0..MEMSZ - 1
  BY <1>1 DEF Bfi!IInv, Bfi!TypeOK, Bfi!Running
<1>3. ASSUME NEW c, p[pc] = c PROVE Bfi!BF!Op(c) /\ at' = at + 1
  BY <1>1, <1>2, <1>3 DEF Bfi!BF!Op
<1>4. ASSUME NEW c \in {"+", "-", ".", ","}, p[pc] = c PROVE Bfi!BF!OnCell(c) /\ at' = at + 1
  <2>1. Bfi!Touches
    BY <1>1, <1>4 DEF Bfi!Touches
  <2>2. xc \in DOMAIN x
    BY <1>1, <1>2, <2>1 DEF Bfi!InMemory
  <2> QED
    BY <1>3, <1>4, <2>2 DEF Bfi!BF!OnCell
<1>5. CASE p[pc] = "+"
  <2>1. Bfi!Plus
    BY <1>1, <1>5 DEF Bfi!Plain
  <2>2. Bfi!BF!OnCell("+") /\ at' = at + 1
    BY <1>4, <1>5
  <2>3. Bfi!BF!Add
    BY <2>1, <2>2 DEF Bfi!Plus, Bfi!Set, Bfi!BF!Add
  <2> QED
    BY <2>3 DEF Bfi!BF!Next
<1>6. CASE p[pc] = "-"
  <2>1. Bfi!Minus
    BY <1>1, <1>6 DEF Bfi!Plain
  <2>2. Bfi!BF!OnCell("-") /\ at' = at + 1
    BY <1>4, <1>6
  <2>3. Bfi!BF!Sub
    BY <2>1, <2>2 DEF Bfi!Minus, Bfi!Set, Bfi!BF!Sub
  <2> QED
    BY <2>3 DEF Bfi!BF!Next
<1>7. CASE p[pc] = "."
  <2>1. Bfi!Dot
    BY <1>1, <1>7 DEF Bfi!Plain
  <2>2. Bfi!BF!OnCell(".") /\ at' = at + 1
    BY <1>4, <1>7
  <2>3. Bfi!BF!Put
    BY <2>1, <2>2 DEF Bfi!Dot, Bfi!BF!Put, Bfi!BF!Cell
  <2> QED
    BY <2>3 DEF Bfi!BF!Next
<1>8. CASE p[pc] = ","
  <2>1. Bfi!Comma
    BY <1>1, <1>8 DEF Bfi!Plain
  <2>2. Bfi!BF!OnCell(",") /\ at' = at + 1
    BY <1>4, <1>8
  <2>3. PICK c \in 0..INTSZ - 1 : io' = c /\ Bfi!Set(c) /\ xc' = xc
    BY <2>1 DEF Bfi!Comma
  <2>4. c % INTSZ = c
    <3>1. \A v, k \in Nat : v < k => v % k = v
      OBVIOUS
    <3>2. c \in Nat /\ INTSZ \in Nat /\ c < INTSZ
      BY BfiSizes
    <3> QED
      BY <3>1, <3>2
  <2>5. Bfi!BF!Get
    BY <2>2, <2>3, <2>4 DEF Bfi!Set, Bfi!BF!Get
  <2> QED
    BY <2>5 DEF Bfi!BF!Next
<1>9. CASE p[pc] = ">"
  <2>1. Bfi!Right
    BY <1>1, <1>9 DEF Bfi!Plain
  <2>2. Bfi!BF!Right
    BY <1>3, <1>9, <2>1 DEF Bfi!Right, Bfi!BF!Right
  <2> QED
    BY <2>2 DEF Bfi!BF!Next
<1>10. CASE p[pc] = "<"
  <2>1. Bfi!Left
    BY <1>1, <1>10 DEF Bfi!Plain
  <2>2. Bfi!BF!Left
    BY <1>3, <1>10, <2>1 DEF Bfi!Left, Bfi!BF!Left
  <2> QED
    BY <2>2 DEF Bfi!BF!Next
<1>11. CASE p[pc] \notin {"+", "-", ".", ",", ">", "<"}
  <2>1. xc' = xc /\ x' = x /\ io' = io
    BY <1>1, <1>11 DEF Bfi!Plain
  <2>2. at \in DOMAIN p /\ p[at] \notin Bfi!BF!Instructions
    BY <1>1, <1>2, <1>11 DEF Bfi!BF!Instructions
  <2>3. Bfi!BF!Comment
    BY <1>1, <1>2, <2>1, <2>2 DEF Bfi!BF!Comment
  <2> QED
    BY <2>3 DEF Bfi!BF!Next
<1> QED
  BY <1>5, <1>6, <1>7, <1>8, <1>9, <1>10, <1>11

\* What the search for the end of a loop finds closes that loop, and no other.
LEMMA BfiClosing ==
  ASSUME Bfi!IInv, mode = "forward", pc \in DOMAIN p, Bfi!Found("]")
  PROVE  pc = Bfi!BF!Closing(at)
<1>1. /\ pc \in 1..Len(p) /\ Len(p) \in Nat /\ l = 0 /\ p[pc] = "]"
  BY BfiSizes DEF Bfi!IInv, Bfi!TypeOK, Bfi!Found
<1>2. /\ at \in 1..Len(p) /\ pc > at /\ Bfi!BF!Rise(p, at, pc - 1) = l + 1
      /\ \A k \in at..pc - 1 : Bfi!BF!Rise(p, at, k) > 0
  BY BfiSizes DEF Bfi!IInv, Bfi!TypeOK, Bfi!GoesForward
<1>3. Bfi!BF!Rise(p, at, pc) = 0
  <2> DEFINE k == pc - 1
  <2>1. k \in Int /\ k + 1 = pc /\ at \in Int /\ at <= k + 1
    BY <1>1, <1>2
  <2> HIDE DEF k
  <2>2. p[pc] = "]" => Bfi!BF!Rise(p, at, pc) = Bfi!BF!Rise(p, at, k) - 1
    BY <2>1, RiseAtEnd
  <2>3. Bfi!BF!Rise(p, at, k) = 1
    BY <1>1, <1>2 DEF k
  <2> QED
    BY <1>1, <2>2, <2>3
<1> DEFINE Closes(k) == /\ Bfi!BF!Rise(p, at, k) = 0
                        /\ \A m \in at..k - 1 : ~(Bfi!BF!Rise(p, at, m) = 0)
<1>4. pc \in at..Len(p) /\ Closes(pc)
  <2>1. pc \in at..Len(p)
    BY <1>1, <1>2
  <2>2. \A m \in at..pc - 1 : ~(Bfi!BF!Rise(p, at, m) = 0)
    <3>1. \A v : v > 0 => v # 0
      OBVIOUS
    <3> QED
      BY <1>2, <3>1
  <2> QED
    BY <1>3, <2>1, <2>2
<1>5. ASSUME NEW k \in at..Len(p), Closes(k) PROVE k = pc
  <2>1. k < pc => k \in at..pc - 1
    BY <1>1, <1>2
  <2>2. k > pc => pc \in at..k - 1
    BY <1>1, <1>2
  <2>3. ~(k < pc) /\ ~(k > pc)
    BY <1>3, <1>4, <1>5, <2>1, <2>2
  <2> QED
    BY <1>1, <1>2, <2>3
<1>6. Bfi!BF!Closing(at) = CHOOSE k \in at..Len(p) : Closes(k)
  BY DEF Bfi!BF!Closing, Bfi!BF!Balanced
<1> HIDE DEF Closes
<1> QED
  BY <1>4, <1>5, <1>6

LEMMA BfiOpening ==
  ASSUME Bfi!IInv, mode = "back", pc \in DOMAIN p, Bfi!Found("[")
  PROVE  pc = Bfi!BF!Opening(at)
<1>1. /\ pc \in 1..Len(p) /\ Len(p) \in Nat /\ l = 0 /\ p[pc] = "["
  BY BfiSizes DEF Bfi!IInv, Bfi!TypeOK, Bfi!Found
<1>2. /\ at \in 1..Len(p) /\ pc < at /\ Bfi!BF!Rise(p, pc + 1, at) = -(l + 1)
      /\ \A k \in pc + 1..at : Bfi!BF!Rise(p, k, at) < 0
  BY BfiSizes DEF Bfi!IInv, Bfi!TypeOK, Bfi!GoesBack
<1>3. Bfi!BF!Rise(p, pc, at) = 0
  <2> DEFINE k == pc + 1
  <2>1. k \in Int /\ k - 1 = pc /\ at \in Int /\ k <= at + 1
    BY <1>1, <1>2
  <2> HIDE DEF k
  <2>2. p[pc] = "[" => Bfi!BF!Rise(p, pc, at) = Bfi!BF!Rise(p, k, at) + 1
    BY <2>1, RiseAtStart
  <2>3. Bfi!BF!Rise(p, k, at) = -1
    BY <1>1, <1>2 DEF k
  <2> QED
    BY <1>1, <2>2, <2>3
<1> DEFINE Begins(k) == /\ Bfi!BF!Rise(p, k, at) = 0
                        /\ \A m \in k + 1..at : ~(Bfi!BF!Rise(p, m, at) = 0)
<1>4. pc \in 1..at /\ Begins(pc)
  <2>1. pc \in 1..at
    BY <1>1, <1>2
  <2>2. \A m \in pc + 1..at : ~(Bfi!BF!Rise(p, m, at) = 0)
    <3>1. \A v : v < 0 => v # 0
      OBVIOUS
    <3> QED
      BY <1>2, <3>1
  <2> QED
    BY <1>3, <2>1, <2>2
<1>5. ASSUME NEW k \in 1..at, Begins(k) PROVE k = pc
  <2>1. k < pc => pc \in k + 1..at
    BY <1>1, <1>2
  <2>2. k > pc => k \in pc + 1..at
    BY <1>1, <1>2
  <2>3. ~(k < pc) /\ ~(k > pc)
    BY <1>3, <1>4, <1>5, <2>1, <2>2
  <2> QED
    BY <1>1, <1>2, <2>3
<1>6. Bfi!BF!Opening(at) = CHOOSE k \in 1..at : Begins(k)
  BY DEF Bfi!BF!Opening, Bfi!BF!Balanced
<1> HIDE DEF Begins
<1> QED
  BY <1>4, <1>5, <1>6

LEMMA BfiLanguageStep == Bfi!IInv /\ Bfi!Next => [Bfi!BF!Next]_(Bfi!BF!vars)
<1> SUFFICES ASSUME Bfi!IInv, Bfi!Next PROVE Bfi!BF!Next \/ UNCHANGED Bfi!BF!vars
  OBVIOUS
<1>1. CASE Bfi!Step
  BY <1>1, BfiStepIsInstruction
<1>2. CASE Bfi!Open
  <2>1. /\ mode = "run" /\ p[pc] = "[" /\ xc \in 0..MEMSZ - 1
        /\ p' = p /\ l' = l /\ xc' = xc /\ x' = x /\ io' = io
    BY <1>2 DEF Bfi!Open, Bfi!InMemory
  <2>2. pc \in DOMAIN p /\ at = pc /\ DOMAIN x = 0..MEMSZ - 1
    BY <2>1 DEF Bfi!IInv, Bfi!TypeOK, Bfi!Running
  <2>3. CASE x[xc] = 0
    <3>1. at' = at
      BY <1>2, <2>3 DEF Bfi!Open
    <3> QED
      BY <2>1, <3>1 DEF Bfi!BF!vars
  <2>4. CASE x[xc] # 0
    <3>1. at' = at + 1
      BY <1>2, <2>2, <2>4 DEF Bfi!Open, Bfi!Goto
    <3>2. Bfi!BF!Open
      BY <2>1, <2>2, <2>4, <3>1 DEF Bfi!BF!Open, Bfi!BF!OnCell, Bfi!BF!Op, Bfi!BF!Cell
    <3> QED
      BY <3>2 DEF Bfi!BF!Next
  <2> QED
    BY <2>3, <2>4
<1>3. CASE Bfi!Forward
  <2>1. mode = "forward" /\ pc \in DOMAIN p /\ p' = p /\ xc' = xc /\ x' = x /\ io' = io
    BY <1>3 DEF Bfi!Forward
  <2>2. CASE Bfi!Found("]")
    <3>1. at' = pc + 1
      BY <1>3, <2>2 DEF Bfi!Forward, Bfi!Goto
    <3>2. /\ at \in DOMAIN p /\ p[at] = "[" /\ xc \in DOMAIN x /\ x[xc] = 0
      BY <2>1 DEF Bfi!IInv, Bfi!TypeOK, Bfi!GoesForward
    <3>3. pc = Bfi!BF!Closing(at)
      BY <2>1, <2>2, BfiClosing
    <3>4. Bfi!BF!Open
      BY <2>1, <3>1, <3>2, <3>3 DEF Bfi!BF!Open, Bfi!BF!OnCell, Bfi!BF!Op, Bfi!BF!Cell
    <3> QED
      BY <3>4 DEF Bfi!BF!Next
  <2>3. CASE ~Bfi!Found("]")
    <3>1. at' = at
      BY <1>3, <2>3 DEF Bfi!Forward
    <3> QED
      BY <2>1, <3>1 DEF Bfi!BF!vars
  <2> QED
    BY <2>2, <2>3
<1>4. CASE Bfi!Back
  <2>1. mode = "back" /\ pc \in DOMAIN p /\ p' = p /\ xc' = xc /\ x' = x /\ io' = io
    BY <1>4 DEF Bfi!Back
  <2>2. CASE Bfi!Found("[")
    <3>1. at' = pc
      BY <1>4, <2>2 DEF Bfi!Back, Bfi!Goto
    <3>2. at \in DOMAIN p /\ p[at] = "]"
      BY <2>1 DEF Bfi!IInv, Bfi!GoesBack
    <3>3. pc = Bfi!BF!Opening(at)
      BY <2>1, <2>2, BfiOpening
    <3>4. Bfi!BF!Close
      BY <2>1, <3>1, <3>2, <3>3 DEF Bfi!BF!Close, Bfi!BF!Op
    <3> QED
      BY <3>4 DEF Bfi!BF!Next
  <2>3. CASE ~Bfi!Found("[")
    <3>1. at' = at
      BY <1>4, <2>3 DEF Bfi!Back
    <3> QED
      BY <2>1, <3>1 DEF Bfi!BF!vars
  <2> QED
    BY <2>2, <2>3
<1>5. CASE Bfi!Undefined \/ Bfi!Close \/ Bfi!Astray \/ Bfi!Done
  <2>1. p' = p /\ at' = at /\ xc' = xc /\ x' = x /\ io' = io
    BY <1>5 DEF Bfi!Undefined, Bfi!Close, Bfi!Astray, Bfi!Done, Bfi!vars
  <2> QED
    BY <2>1 DEF Bfi!BF!vars
<1> QED
  BY <1>1, <1>2, <1>3, <1>4, <1>5 DEF Bfi!Next

-----------------------------------------------------------------------------
(* dc: its values, its stack *)

LEMMA DcSizes == /\ STSZ \in Nat \ {0} /\ LONG_MAX \in Nat /\ MAXDIGITS \in Nat \ {0} /\ DigitKeys \subseteq 0..9
                 /\ Dc!MinValue = -LONG_MAX - 1 /\ Dc!Values = Dc!MinValue..LONG_MAX
                 /\ 0 \in Dc!Values /\ LONG_MAX \in Dc!Values /\ Dc!Values \subseteq Int
BY DcAssumed DEF Dc!DcAssumption, Dc!Values, Dc!MinValue

\* Whatever is calculated is a value again.
LEMMA DcWrap == ASSUME NEW v \in Int PROVE Dc!Wrap(v) \in Dc!Values
<1> DEFINE m == 2 * LONG_MAX + 2
           w == v - Dc!MinValue
<1>1. m \in Nat \ {0} /\ w \in Int
  BY DcSizes
<1>2. w % m \in 0..m - 1
  <2> HIDE DEF m, w
  <2> QED
    BY <1>1
<1>3. \A r \in 0..(2 * LONG_MAX + 2) - 1 : r + (-LONG_MAX - 1) \in (-LONG_MAX - 1)..LONG_MAX
  BY DcSizes
<1>4. Dc!Wrap(v) = (w % m) + Dc!MinValue
  BY DEF Dc!Wrap
<1> HIDE DEF w
<1> QED
  BY <1>2, <1>3, <1>4, DcSizes

LEMMA Divides ==
  ASSUME NEW a \in Nat, NEW b \in Nat \ {0}
  PROVE  /\ a \div b \in 0..a /\ b * (a \div b) \in Nat
         /\ b * (a \div b) <= a /\ a < b * (a \div b) + b
         /\ (b # 1 /\ a # 0 => a \div b < a)
OBVIOUS

LEMMA DcQuot ==
  ASSUME NEW a \in Dc!Values, NEW b \in Dc!Values, b # 0, ~(a = Dc!MinValue /\ b = -1)
  PROVE  Dc!Quot(a, b) \in Dc!Values
<1> DEFINE u == IF a < 0 THEN -a ELSE a
           v == IF b < 0 THEN -b ELSE b
           q == u \div v
<1>1. u \in Nat /\ v \in Nat \ {0} /\ u <= LONG_MAX + 1
  BY DcSizes
<1>2. q \in 0..u /\ (v # 1 /\ u # 0 => q < u)
  <2> HIDE DEF u, v
  <2> QED
    BY <1>1, Divides
<1>3. Dc!Quot(a, b) = IF (a < 0) = (b < 0) THEN q ELSE -q
  BY DEF Dc!Quot
<1>4. q \in Nat /\ q <= LONG_MAX + 1
  <2> HIDE DEF q, u
  <2> QED
    BY <1>1, <1>2, DcSizes
<1>5. CASE (a < 0) # (b < 0)
  <2> HIDE DEF q
  <2> QED
    BY <1>3, <1>4, <1>5, DcSizes
<1>6. CASE (a < 0) = (b < 0)
  <2>1. q <= LONG_MAX
    <3>1. CASE a = Dc!MinValue
      <4>1. u = LONG_MAX + 1 /\ v # 1
        BY <1>6, <3>1, DcSizes
      <4> HIDE DEF q, u, v
      <4> QED
        BY <1>1, <1>2, <4>1, DcSizes
    <3>2. CASE a # Dc!MinValue
      <4>1. u <= LONG_MAX
        BY <3>2, DcSizes
      <4> HIDE DEF q, u, v
      <4> QED
        BY <1>1, <1>2, <4>1, DcSizes
    <3> QED
      BY <3>1, <3>2
  <2> HIDE DEF q
  <2> QED
    BY <1>3, <1>4, <1>6, <2>1, DcSizes
<1> QED
  BY <1>5, <1>6

LEMMA DcRem ==
  ASSUME NEW a \in Dc!Values, NEW b \in Dc!Values, b # 0
  PROVE  Dc!Rem(a, b) \in Dc!Values
<1> DEFINE u == IF a < 0 THEN -a ELSE a
           v == IF b < 0 THEN -b ELSE b
           q == u \div v
           w == v * q
<1>1. u \in Nat /\ v \in Nat \ {0} /\ u <= LONG_MAX + 1 /\ v <= LONG_MAX + 1
  BY DcSizes
<1>2. q \in Nat /\ w \in Nat /\ w <= u /\ u < w + v
  <2> HIDE DEF u, v
  <2> QED
    BY <1>1, Divides
<1>3. Dc!Rem(a, b) = a - b * (IF (a < 0) = (b < 0) THEN q ELSE -q)
  BY DEF Dc!Rem, Dc!Quot
<1>4. b * (IF (a < 0) = (b < 0) THEN q ELSE -q) = IF a < 0 THEN -w ELSE w
  <2>1. \A x_, y_ \in Int : (-x_) * y_ = -(x_ * y_) /\ x_ * (-y_) = -(x_ * y_)
    OBVIOUS
  <2>2. b \in Int /\ a \in Int /\ q \in Int
    BY <1>2, DcSizes
  <2>3. w = IF b < 0 THEN -(b * q) ELSE b * q
    <3> HIDE DEF q
    <3> QED
      BY <2>1, <2>2
  <2>4. b * (-q) = -(b * q) /\ b * q \in Int
    <3> HIDE DEF q
    <3> QED
      BY <2>1, <2>2
  <2> DEFINE t == b * q
  <2>5. t \in Int /\ w = (IF b < 0 THEN -t ELSE t) /\ b * (-q) = -t
    BY <2>3, <2>4
  <2>6. b * (IF (a < 0) = (b < 0) THEN q ELSE -q) = IF (a < 0) = (b < 0) THEN t ELSE -t
    BY <2>5
  <2> HIDE DEF t, w, q
  <2> QED
    BY <2>2, <2>5, <2>6
<1>5. Dc!Rem(a, b) = IF a < 0 THEN a + w ELSE a - w
  <2>1. a \in Int
    BY DcSizes
  <2> HIDE DEF w, q
  <2> QED
    BY <1>2, <1>3, <1>4, <2>1
<1>6. a \in Int /\ (a < 0 => u = -a) /\ (~(a < 0) => u = a) /\ -LONG_MAX - 1 <= a /\ a <= LONG_MAX
  BY DcSizes
<1> HIDE DEF w, u, v
<1> QED
  BY <1>1, <1>2, <1>5, <1>6, DcSizes

LEMMA DcPushed ==
  ASSUME NEW s \in Seq(Dc!Values), Len(s) <= STSZ, NEW v \in Dc!Values
  PROVE  /\ Dc!Pushed(s, v) \in Seq(Dc!Values) /\ Len(Dc!Pushed(s, v)) <= STSZ
         /\ Len(s) = STSZ => Dc!Pushed(s, v) = s
         /\ Len(s) < STSZ => /\ Len(Dc!Pushed(s, v)) = Len(s) + 1
                             /\ Dc!Pushed(s, v)[Len(s) + 1] = v
                             /\ \A k \in 1..Len(s) : Dc!Pushed(s, v)[k] = s[k]
<1>1. Len(s) \in Nat /\ STSZ \in Nat
  BY LenProperties, DcSizes
<1>2. CASE Len(s) = STSZ
  <2>1. Dc!Pushed(s, v) = s
    BY <1>2 DEF Dc!Pushed
  <2>2. ~(Len(s) < STSZ)
    BY <1>1, <1>2
  <2> QED
    BY <2>1, <2>2
<1>3. CASE Len(s) # STSZ
  <2>1. Dc!Pushed(s, v) = Append(s, v)
    BY <1>3 DEF Dc!Pushed
  <2> DEFINE t == Append(s, v)
  <2>2. /\ t \in Seq(Dc!Values) /\ Len(t) = Len(s) + 1 /\ t[Len(s) + 1] = v
        /\ \A k \in 1..Len(s) : t[k] = s[k]
    BY AppendProperties
  <2> HIDE DEF t
  <2>3. Len(t) <= STSZ
    BY <1>1, <1>3, <2>2
  <2> QED
    BY <1>3, <2>1, <2>2, <2>3 DEF t
<1> QED
  BY <1>2, <1>3

LEMMA DcPopped ==
  ASSUME NEW s \in Seq(Dc!Values), Len(s) <= STSZ
  PROVE  /\ Dc!Popped(s) \in Seq(Dc!Values) /\ Len(Dc!Popped(s)) <= STSZ
         /\ Len(Dc!Popped(s)) = IF Len(s) = 0 THEN 0 ELSE Len(s) - 1
         /\ \A k \in 1..Len(Dc!Popped(s)) : Dc!Popped(s)[k] = s[k]
         /\ Dc!Peek(s) \in Dc!Values
<1>1. Len(s) \in Nat /\ STSZ \in Nat
  BY LenProperties, DcSizes
<1>2. CASE s = <<>>
  <2>1. Len(s) = 0 /\ Dc!Popped(s) = s /\ Dc!Peek(s) = 0
    BY <1>2, EmptySeq DEF Dc!Popped, Dc!Peek
  <2> QED
    BY <2>1, DcSizes
<1>3. CASE s # <<>>
  <2>1. Len(s) > 0 /\ Len(s) \in 1..Len(s)
    BY <1>1, <1>3, EmptySeq
  <2> DEFINE n_ == Len(s) - 1
             t == SubSeq(s, 1, n_)
  <2>2. n_ \in Nat /\ (\A k \in 1..n_ : k \in 1..Len(s)) /\ n_ - 1 + 1 = n_ /\ (1 <= n_ \/ n_ = 0)
    <3>1. \A m \in Nat : m > 0 => /\ m - 1 \in Nat /\ (m - 1) - 1 + 1 = m - 1 /\ (1 <= m - 1 \/ m - 1 = 0)
                                 /\ \A k \in 1..m - 1 : k \in 1..m
      OBVIOUS
    <3> QED
      BY <1>1, <2>1, <3>1
  <2>3. \A k \in 1..n_ : s[k] \in Dc!Values
    BY <2>2, ElementOfSeq
  <2>4. t \in Seq(Dc!Values) /\ Len(t) = n_ /\ \A k \in 1..n_ : t[k] = s[k]
    <3> HIDE DEF n_
    <3>1. /\ SubSeq(s, 1, n_) \in Seq(Dc!Values)
          /\ Len(SubSeq(s, 1, n_)) = IF 1 <= n_ THEN n_ - 1 + 1 ELSE 0
          /\ \A k \in 1..n_ - 1 + 1 : SubSeq(s, 1, n_)[k] = s[1 + k - 1]
      BY <2>2, <2>3, SubSeqProperties
    <3>2. \A k \in 1..n_ : 1 + k - 1 = k
      BY <2>2
    <3> QED
      BY <2>2, <3>1, <3>2
  <2>5. Dc!Popped(s) = t /\ Dc!Peek(s) = s[Len(s)]
    BY <1>3 DEF Dc!Popped, Dc!Peek
  <2>6. s[Len(s)] \in Dc!Values
    BY <2>1, ElementOfSeq
  <2> HIDE DEF t
  <2>7. Len(t) <= STSZ /\ Len(t) = IF Len(s) = 0 THEN 0 ELSE Len(s) - 1
    BY <1>1, <2>1, <2>4
  <2> QED
    BY <2>4, <2>5, <2>6, <2>7
<1> QED
  BY <1>2, <1>3

LEMMA DcOperands ==
  ASSUME Dc!TypeOK, NEW o \in Dc!Operands
  PROVE  /\ o[1] \in Dc!Values /\ o[2] \in Dc!Values
         /\ Dc!Rest \in Seq(Dc!Values) /\ Len(Dc!Rest) <= STSZ
         /\ Len(Dc!Rest) = IF Len(stack) < 2 THEN 0 ELSE Len(stack) - 2
         /\ \A k \in 1..Len(Dc!Rest) : Dc!Rest[k] = stack[k]
<1>1. stack \in Seq(Dc!Values) /\ Len(stack) <= STSZ /\ Len(stack) \in Nat
  BY LenProperties DEF Dc!TypeOK
<1> DEFINE s == Dc!Popped(stack)
           t == Dc!Popped(s)
<1>2. /\ s \in Seq(Dc!Values) /\ Len(s) <= STSZ
      /\ Len(s) = IF Len(stack) = 0 THEN 0 ELSE Len(stack) - 1
      /\ \A k \in 1..Len(s) : s[k] = stack[k]
      /\ Dc!Peek(stack) \in Dc!Values
  BY <1>1, DcPopped
<1> HIDE DEF s
<1>3. /\ t \in Seq(Dc!Values) /\ Len(t) <= STSZ
      /\ Len(t) = IF Len(s) = 0 THEN 0 ELSE Len(s) - 1
      /\ \A k \in 1..Len(t) : t[k] = s[k]
      /\ Dc!Peek(s) \in Dc!Values
  BY <1>2, DcPopped
<1>4. Dc!Rest = t
  BY DEF Dc!Rest, s
<1> HIDE DEF t
<1>5. Len(s) \in Nat /\ Len(t) \in Nat
  BY <1>2, <1>3, LenProperties
<1>6. Len(t) = IF Len(stack) < 2 THEN 0 ELSE Len(stack) - 2
  BY <1>1, <1>2, <1>3, <1>5
<1>7. \A k \in 1..Len(t) : k \in 1..Len(s)
  BY <1>3, <1>5
<1>8. o[1] \in Dc!Values /\ o[2] \in Dc!Values
  BY <1>2, <1>3 DEF Dc!Operands, s
<1> QED
  BY <1>2, <1>3, <1>4, <1>6, <1>7, <1>8

LEMMA DcStrtol == ASSUME NEW d PROVE Dc!Strtol(d) \in Dc!Values
BY DcSizes DEF Dc!Strtol

\* What is pushed after two values were taken is a value.
LEMMA DcResult ==
  ASSUME Dc!TypeOK, Dc!Arithmetic \/ (Dc!Division /\ pc' # "trap")
  PROVE  \E v \in Dc!Values : stack' = Dc!Pushed(Dc!Rest, v) /\ UNCHANGED <<pc, reg, n, feof>>
<1>1. ASSUME Dc!Arithmetic PROVE \E v \in Dc!Values : stack' = Dc!Pushed(Dc!Rest, v) /\ UNCHANGED <<pc, reg, n, feof>>
  <2>1. PICK o \in Dc!Operands, op \in {"+", "-", "*"} :
          LET a == o[1]  b == o[2]
              v == CASE op = "+" -> a + b [] op = "-" -> a - b [] op = "*" -> a * b
          IN  /\ stack' = Dc!Pushed(Dc!Rest, Dc!Wrap(v))
              /\ UNCHANGED <<pc, reg, n, feof>>
    BY <1>1 DEF Dc!Arithmetic
  <2> DEFINE a == o[1]
             b == o[2]
  <2>2. a \in Int /\ b \in Int
    BY DcOperands, DcSizes
  <2>3. a + b \in Int /\ a - b \in Int /\ a * b \in Int
    <3> HIDE DEF a, b
    <3> QED
      BY <2>2
  <2>4. Dc!Wrap(a + b) \in Dc!Values /\ Dc!Wrap(a - b) \in Dc!Values /\ Dc!Wrap(a * b) \in Dc!Values
    <3> HIDE DEF a, b
    <3> QED
      BY <2>3, DcWrap
  <2>5. /\ UNCHANGED <<pc, reg, n, feof>>
        /\ \/ stack' = Dc!Pushed(Dc!Rest, Dc!Wrap(a + b))
           \/ stack' = Dc!Pushed(Dc!Rest, Dc!Wrap(a - b))
           \/ stack' = Dc!Pushed(Dc!Rest, Dc!Wrap(a * b))
    BY <2>1
  <2> HIDE DEF a, b
  <2> QED
    BY <2>4, <2>5
<1>2. ASSUME Dc!Division, pc' # "trap"
      PROVE \E v \in Dc!Values : stack' = Dc!Pushed(Dc!Rest, v) /\ UNCHANGED <<pc, reg, n, feof>>
  <2>1. PICK o \in Dc!Operands, op \in {"/", "%"} :
          LET a == o[1]  b == o[2]
          IN  /\ IF b = 0 \/ (a = Dc!MinValue /\ b = -1) THEN pc' = "trap" /\ stack' = Dc!Rest
                 ELSE stack' = Dc!Pushed(Dc!Rest, IF op = "/" THEN Dc!Quot(a, b) ELSE Dc!Rem(a, b)) /\ UNCHANGED pc
              /\ UNCHANGED <<reg, n, feof>>
    BY <1>2 DEF Dc!Division
  <2> DEFINE a == o[1]
             b == o[2]
  <2>2. /\ ~(b = 0 \/ (a = Dc!MinValue /\ b = -1)) /\ UNCHANGED <<pc, reg, n, feof>>
        /\ stack' = Dc!Pushed(Dc!Rest, Dc!Quot(a, b)) \/ stack' = Dc!Pushed(Dc!Rest, Dc!Rem(a, b))
    BY <1>2, <2>1
  <2>3. a \in Dc!Values /\ b \in Dc!Values
    BY DcOperands
  <2> HIDE DEF a, b
  <2>4. Dc!Quot(a, b) \in Dc!Values /\ Dc!Rem(a, b) \in Dc!Values
    BY <2>2, <2>3, DcQuot, DcRem
  <2> QED
    BY <2>2, <2>4
<1> QED
  BY <1>1, <1>2

LEMMA DcInit == Dc!Init => Dc!TypeOK
<1> SUFFICES ASSUME Dc!Init PROVE Dc!TypeOK
  OBVIOUS
<1>1. /\ pc = "command" /\ stack = <<>> /\ reg = [c \in Names \cup {Dc!EOF} |-> 0] /\ n = <<>> /\ feof = FALSE
  BY DEF Dc!Init
<1>2. reg \in [Names \cup {Dc!EOF} -> Dc!Values]
  BY <1>1, DcSizes
<1>3. stack \in Seq(Dc!Values) /\ Len(stack) <= STSZ /\ n \in Seq(DigitKeys) /\ Len(n) <= MAXDIGITS
  <2>1. 0 <= STSZ /\ 0 <= MAXDIGITS
    BY DcSizes
  <2> QED
    BY <1>1, <2>1, EmptySeq
<1> QED
  BY <1>1, <1>2, <1>3 DEF Dc!TypeOK

LEMMA DcNext == Dc!TypeOK /\ Dc!Next => Dc!TypeOK'
<1> SUFFICES ASSUME Dc!TypeOK, Dc!Next PROVE Dc!TypeOK'
  OBVIOUS
<1>1. /\ pc \in {"command", "number", "load", "store", "done", "trap"}
      /\ stack \in Seq(Dc!Values) /\ Len(stack) <= STSZ
      /\ reg \in [Names \cup {Dc!EOF} -> Dc!Values]
      /\ n \in Seq(DigitKeys) /\ Len(n) <= MAXDIGITS /\ (pc = "number" <=> n # <<>>)
      /\ feof \in BOOLEAN
  BY DEF Dc!TypeOK
<1>2. Dc!Peek(stack) \in Dc!Values /\ Dc!Popped(stack) \in Seq(Dc!Values) /\ Len(Dc!Popped(stack)) <= STSZ
  BY <1>1, DcPopped
<1>3. \A v \in Dc!Values : Dc!Pushed(stack, v) \in Seq(Dc!Values) /\ Len(Dc!Pushed(stack, v)) <= STSZ
  BY <1>1, DcPushed
<1>4. <<>> \in Seq(Dc!Values) /\ Len(<<>>) <= STSZ /\ <<>> \in Seq(DigitKeys) /\ Len(<<>>) <= MAXDIGITS
  <2>1. 0 <= STSZ /\ 0 <= MAXDIGITS
    BY DcSizes
  <2> QED
    BY <2>1, EmptySeq
<1>5. CASE Dc!Digit
  <2>1. PICK d \in DigitKeys :
          /\ pc \in {"command", "number"} /\ (pc = "number" => Len(n) < MAXDIGITS)
          /\ n' = (IF pc = "command" THEN <<d>> ELSE Append(n, d)) /\ pc' = "number"
          /\ UNCHANGED <<stack, reg, feof>>
    BY <1>5 DEF Dc!Digit
  <2>2. CASE pc = "command"
    <3>1. n' = <<d>> /\ <<d>> \in Seq(DigitKeys) /\ Len(<<d>>) = 1 /\ <<d>> # <<>>
      BY <2>1, <2>2
    <3>2. 1 <= MAXDIGITS
      BY DcSizes
    <3> QED
      BY <1>1, <2>1, <3>1, <3>2 DEF Dc!TypeOK
  <2>3. CASE pc = "number"
    <3>1. n' = Append(n, d) /\ Len(n) < MAXDIGITS /\ Len(n) \in Nat
      BY <1>1, <2>1, <2>3, LenProperties
    <3>2. Append(n, d) \in Seq(DigitKeys) /\ Len(Append(n, d)) = Len(n) + 1 /\ Append(n, d) # <<>>
      BY <1>1, AppendProperties
    <3>3. Len(n) + 1 <= MAXDIGITS
      BY <3>1, DcSizes
    <3>4. n' \in Seq(DigitKeys) /\ Len(n') <= MAXDIGITS /\ n' # <<>>
      BY <3>1, <3>2, <3>3
    <3> QED
      BY <1>1, <2>1, <3>4 DEF Dc!TypeOK
  <2> QED
    BY <2>1, <2>2, <2>3
<1>6. CASE Dc!NumberEnds
  <2>1. /\ stack' = Dc!Pushed(stack, Dc!Strtol(n)) /\ n' = <<>> /\ feof' \in BOOLEAN /\ reg' = reg
        /\ pc' \in {"done", "command"}
    BY <1>6 DEF Dc!NumberEnds, Dc!Loop
  <2>2. stack' \in Seq(Dc!Values) /\ Len(stack') <= STSZ
    BY <1>3, <2>1, DcStrtol
  <2> QED
    BY <1>1, <1>4, <2>1, <2>2 DEF Dc!TypeOK
<1>7. CASE Dc!Arithmetic \/ (Dc!Division /\ pc' # "trap")
  <2>1. PICK v \in Dc!Values : stack' = Dc!Pushed(Dc!Rest, v) /\ UNCHANGED <<pc, reg, n, feof>>
    BY <1>7, DcResult
  <2>2. Dc!Rest \in Seq(Dc!Values) /\ Len(Dc!Rest) <= STSZ
    <3>1. \E o : o \in Dc!Operands
      BY DEF Dc!Operands
    <3> QED
      BY <3>1, DcOperands
  <2>3. stack' \in Seq(Dc!Values) /\ Len(stack') <= STSZ
    BY <2>1, <2>2, DcPushed
  <2> QED
    BY <1>1, <2>1, <2>3 DEF Dc!TypeOK
<1>8. CASE Dc!Division /\ pc' = "trap"
  <2>1. /\ pc = "command" /\ UNCHANGED <<reg, n, feof>>
        /\ stack' = Dc!Rest
    BY <1>8 DEF Dc!Division, Dc!Command
  <2>2. Dc!Rest \in Seq(Dc!Values) /\ Len(Dc!Rest) <= STSZ
    <3>1. \E o : o \in Dc!Operands
      BY DEF Dc!Operands
    <3> QED
      BY <3>1, DcOperands
  <2> QED
    BY <1>1, <1>8, <2>1, <2>2 DEF Dc!TypeOK
<1>9. CASE Dc!Duplicate
  <2>1. pc = "command" /\ stack' = Dc!Pushed(stack, Dc!Peek(stack)) /\ UNCHANGED <<pc, reg, n, feof>>
    BY <1>9 DEF Dc!Duplicate, Dc!Command
  <2>2. stack' \in Seq(Dc!Values) /\ Len(stack') <= STSZ
    BY <1>2, <1>3, <2>1
  <2> QED
    BY <1>1, <2>1, <2>2 DEF Dc!TypeOK
<1>10. CASE Dc!PrintAll
  BY <1>1, <1>4, <1>10 DEF Dc!PrintAll, Dc!TypeOK
<1>11. CASE Dc!Name
  BY <1>1, <1>11 DEF Dc!Name, Dc!Command, Dc!TypeOK
<1>12. CASE Dc!Load
  <2>1. PICK c \in Names \cup {Dc!EOF} :
          /\ pc = "load" /\ stack' = Dc!Pushed(stack, reg[c])
          /\ feof' = (c = Dc!EOF) /\ Dc!Loop /\ UNCHANGED <<reg, n>>
    BY <1>12 DEF Dc!Load
  <2>2. reg[c] \in Dc!Values
    BY <1>1
  <2>3. stack' \in Seq(Dc!Values) /\ Len(stack') <= STSZ
    BY <1>3, <2>1, <2>2
  <2>4. pc' \in {"done", "command"} /\ feof' \in BOOLEAN
    BY <2>1 DEF Dc!Loop
  <2> QED
    BY <1>1, <2>1, <2>3, <2>4 DEF Dc!TypeOK
<1>13. CASE Dc!Store
  <2>1. PICK c \in Names \cup {Dc!EOF} :
          /\ pc = "store" /\ reg' = [reg EXCEPT ![c] = Dc!Peek(stack)] /\ stack' = Dc!Popped(stack)
          /\ feof' = (c = Dc!EOF) /\ Dc!Loop /\ n' = n
    BY <1>13 DEF Dc!Store
  <2>2. reg' \in [Names \cup {Dc!EOF} -> Dc!Values]
    BY <1>1, <1>2, <2>1
  <2>3. stack' \in Seq(Dc!Values) /\ Len(stack') <= STSZ
    BY <1>2, <2>1
  <2>4. pc' \in {"done", "command"} /\ feof' \in BOOLEAN
    BY <2>1 DEF Dc!Loop
  <2> QED
    BY <1>1, <2>1, <2>2, <2>3, <2>4 DEF Dc!TypeOK
<1>14. CASE Dc!Quit
  BY <1>1, <1>14 DEF Dc!Quit, Dc!Command, Dc!TypeOK
<1>15. CASE Dc!Done
  BY <1>1, <1>15 DEF Dc!Done, Dc!vars, Dc!TypeOK
<1> QED
  BY <1>5, <1>6, <1>7, <1>8, <1>9, <1>10, <1>11, <1>12, <1>13, <1>14, <1>15 DEF Dc!Next

LEMMA DcUnchanged == Dc!TypeOK /\ UNCHANGED Dc!vars => Dc!TypeOK'
BY DEF Dc!TypeOK, Dc!vars

-----------------------------------------------------------------------------
(* dc is a desk calculator *)

\* The values from the top down, and zeros below.
FromTop(s) == [k \in 1..STSZ |-> IF k <= Len(s) THEN s[Len(s) + 1 - k] ELSE 0]
BelowIn(v, k) == IF k <= STSZ THEN v[k] ELSE 0

\* A push moves all of them one place down.
LEMMA DcPushMoves ==
  ASSUME NEW s, NEW t, Len(s) \in Nat, Len(s) < STSZ, Len(t) = Len(s) + 1,
         NEW v, t[Len(s) + 1] = v, \A k \in 1..Len(s) : t[k] = s[k]
  PROVE  FromTop(t) = [j_ \in 1..STSZ |-> IF j_ = 1 THEN v ELSE BelowIn(FromTop(s), j_ - 1)]
<1> SUFFICES ASSUME NEW j_ \in 1..STSZ
             PROVE  FromTop(t)[j_] = IF j_ = 1 THEN v ELSE BelowIn(FromTop(s), j_ - 1)
  BY DEF FromTop
<1>1. FromTop(t)[j_] = IF j_ <= Len(t) THEN t[Len(t) + 1 - j_] ELSE 0
  BY DEF FromTop
<1>2. STSZ \in Nat
  BY DcSizes
<1>3. CASE j_ = 1
  <2>1. j_ <= Len(t) /\ Len(t) + 1 - j_ = Len(s) + 1
    BY <1>3
  <2> QED
    BY <1>1, <1>3, <2>1
<1>4. CASE j_ # 1
  <2>1. j_ - 1 \in 1..STSZ /\ j_ - 1 <= STSZ
    BY <1>2, <1>4
  <2>2. BelowIn(FromTop(s), j_ - 1) = IF j_ - 1 <= Len(s) THEN s[Len(s) + 1 - (j_ - 1)] ELSE 0
    BY <2>1 DEF FromTop, BelowIn
  <2>3. (j_ <= Len(t) <=> j_ - 1 <= Len(s)) /\ Len(t) + 1 - j_ = Len(s) + 1 - (j_ - 1)
    BY <1>2
  <2>4. j_ - 1 <= Len(s) => Len(s) + 1 - (j_ - 1) \in 1..Len(s)
    BY <1>2, <1>4
  <2>5. j_ - 1 <= Len(s) => t[Len(s) + 1 - (j_ - 1)] = s[Len(s) + 1 - (j_ - 1)]
    BY <2>4
  <2> QED
    BY <1>1, <1>4, <2>2, <2>3, <2>5
<1> QED
  BY <1>3, <1>4

\* Where values are taken, what was below them comes up.
LEMMA DcPopMoves ==
  ASSUME NEW s, NEW t, Len(s) \in Nat, Len(t) \in Nat, NEW m \in Nat, Len(s) <= STSZ,
         Len(t) = IF Len(s) < m THEN 0 ELSE Len(s) - m,
         \A k \in 1..Len(t) : t[k] = s[k]
  PROVE  FromTop(t) = [j_ \in 1..STSZ |-> BelowIn(FromTop(s), j_ + m)]
<1> SUFFICES ASSUME NEW j_ \in 1..STSZ
             PROVE  FromTop(t)[j_] = BelowIn(FromTop(s), j_ + m)
  BY DEF FromTop
<1>1. FromTop(t)[j_] = IF j_ <= Len(t) THEN t[Len(t) + 1 - j_] ELSE 0
  BY DEF FromTop
<1>2. STSZ \in Nat
  BY DcSizes
<1>3. CASE j_ <= Len(t) /\ j_ + m <= STSZ
  <2>1. /\ Len(t) + 1 - j_ \in 1..Len(t) /\ j_ + m \in 1..STSZ /\ j_ + m <= Len(s)
        /\ Len(s) + 1 - (j_ + m) = Len(t) + 1 - j_
    BY <1>2, <1>3
  <2>2. BelowIn(FromTop(s), j_ + m) = s[Len(s) + 1 - (j_ + m)]
    BY <1>3, <2>1 DEF FromTop, BelowIn
  <2>3. t[Len(t) + 1 - j_] = s[Len(t) + 1 - j_]
    BY <2>1
  <2> QED
    BY <1>1, <1>3, <2>1, <2>2, <2>3
<1>4. CASE ~(j_ <= Len(t)) /\ j_ + m <= STSZ
  <2>1. j_ + m \in 1..STSZ /\ ~(j_ + m <= Len(s))
    BY <1>2, <1>4
  <2>2. BelowIn(FromTop(s), j_ + m) = 0
    BY <1>4, <2>1 DEF FromTop, BelowIn
  <2> QED
    BY <1>1, <1>4, <2>2
<1>5. CASE ~(j_ + m <= STSZ)
  <2>1. BelowIn(FromTop(s), j_ + m) = 0
    BY <1>5 DEF BelowIn
  <2>2. Len(s) <= STSZ => ~(j_ <= Len(t))
    BY <1>2, <1>5
  <2> QED
    BY <1>1, <2>1, <2>2
<1> QED
  BY <1>3, <1>4, <1>5

LEMMA DcValueAt == Dc!ValueAt = FromTop(stack)
BY DEF Dc!ValueAt, FromTop

LEMMA DcValueAtNext == Dc!ValueAt' = FromTop(stack')
BY DEF Dc!ValueAt, FromTop

LEMMA DcDeskInit == Dc!Init => Dc!DeskInit
<1> SUFFICES ASSUME Dc!Init PROVE Dc!DeskInit
  OBVIOUS
<1>1. stack = <<>> /\ Len(stack) = 0
  BY DEF Dc!Init
<1>2. \A k \in 1..STSZ : ~(k <= 0)
  BY DcSizes
<1>3. Dc!ValueAt = [k \in 1..STSZ |-> 0]
  BY <1>1, <1>2 DEF Dc!ValueAt
<1> QED
  BY <1>1, <1>3 DEF Dc!DeskInit, Dc!Calculator!DInit

\* A value is pushed onto the stack as it is, or there is no room.
LEMMA DcPushIsReplace ==
  ASSUME Dc!TypeOK, NEW v \in Dc!Values, stack' = Dc!Pushed(stack, v)
  PROVE  Dc!Calculator!DNext \/ UNCHANGED <<Dc!ValueAt, Len(stack)>>
<1>1. stack \in Seq(Dc!Values) /\ Len(stack) <= STSZ /\ Len(stack) \in Nat /\ STSZ \in Nat
  BY LenProperties, DcSizes DEF Dc!TypeOK
<1>2. CASE Len(stack) = STSZ
  <2>1. stack' = stack
    BY <1>1, <1>2, DcPushed
  <2>2. Dc!ValueAt' = Dc!ValueAt
    BY <2>1, DcValueAt, DcValueAtNext
  <2> QED
    BY <2>1, <2>2
<1>3. CASE Len(stack) # STSZ
  <2>1. Len(stack) < STSZ
    BY <1>1, <1>3
  <2>2. /\ Len(stack') = Len(stack) + 1 /\ stack'[Len(stack) + 1] = v
        /\ \A k \in 1..Len(stack) : stack'[k] = stack[k]
    BY <1>1, <2>1, DcPushed
  <2>3. FromTop(stack') = [j_ \in 1..STSZ |-> IF j_ = 1 THEN v ELSE BelowIn(FromTop(stack), j_ - 1)]
    BY <1>1, <2>1, <2>2, DcPushMoves
  <2>4. Dc!ValueAt' = [j_ \in 1..STSZ |-> IF j_ = 1 THEN v ELSE Dc!Calculator!Below(j_ - 1 + 0)]
    <3>1. \A j_ \in 1..STSZ : j_ - 1 + 0 = j_ - 1
      OBVIOUS
    <3>2. \A j_ \in 1..STSZ : Dc!Calculator!Below(j_ - 1 + 0) = BelowIn(FromTop(stack), j_ - 1)
      BY <3>1, DcValueAt DEF Dc!Calculator!Below, BelowIn
    <3> QED
      BY <2>3, <3>2, DcValueAtNext
  <2>5. Len(stack)' = Dc!Calculator!Less(Len(stack), 0) + 1 /\ Len(stack)' <= STSZ
    <3>1. Dc!Calculator!Less(Len(stack), 0) = Len(stack)
      BY <1>1 DEF Dc!Calculator!Less
    <3> QED
      BY <1>1, <2>1, <2>2, <3>1
  <2>6. Dc!Calculator!Replace(0, v)
    BY <2>4, <2>5 DEF Dc!Calculator!Replace
  <2> QED
    BY <2>6 DEF Dc!Calculator!DNext
<1> QED
  BY <1>2, <1>3

\* A value takes the place of the two it is calculated from, and there is room.
LEMMA DcResultIsReplace ==
  ASSUME Dc!TypeOK, NEW v \in Dc!Values, stack' = Dc!Pushed(Dc!Rest, v)
  PROVE  /\ Dc!Calculator!DNext
         /\ Len(stack') = IF Len(stack) < 2 THEN 1 ELSE Len(stack) - 1
<1>1. stack \in Seq(Dc!Values) /\ Len(stack) <= STSZ /\ Len(stack) \in Nat /\ STSZ \in Nat \ {0}
  BY LenProperties, DcSizes DEF Dc!TypeOK
<1> DEFINE t == Dc!Rest
<1>2. /\ t \in Seq(Dc!Values) /\ Len(t) <= STSZ
      /\ Len(t) = IF Len(stack) < 2 THEN 0 ELSE Len(stack) - 2
      /\ \A k \in 1..Len(t) : t[k] = stack[k]
  <2>1. \E o : o \in Dc!Operands
    BY DEF Dc!Operands
  <2> QED
    BY <2>1, DcOperands
<1>3. stack' = Dc!Pushed(t, v)
  OBVIOUS
<1> HIDE DEF t
<1>4. Len(t) \in Nat /\ Len(t) < STSZ
  BY <1>1, <1>2, LenProperties
<1>5. /\ Len(stack') = Len(t) + 1 /\ stack'[Len(t) + 1] = v
      /\ \A k \in 1..Len(t) : stack'[k] = t[k]
  <2> DEFINE u == Dc!Pushed(t, v)
  <2>1. Len(u) = Len(t) + 1 /\ u[Len(t) + 1] = v /\ \A k \in 1..Len(t) : u[k] = t[k]
    BY <1>2, <1>4, DcPushed
  <2> HIDE DEF u
  <2>2. stack' = u
    BY <1>3 DEF u
  <2> QED
    BY <2>1, <2>2
<1>6. FromTop(stack') = [j_ \in 1..STSZ |-> IF j_ = 1 THEN v ELSE BelowIn(FromTop(t), j_ - 1)]
  BY <1>4, <1>5, DcPushMoves
<1>7. FromTop(t) = [j_ \in 1..STSZ |-> BelowIn(FromTop(stack), j_ + 2)]
  <2>1. 2 \in Nat /\ Len(stack) \in Nat /\ Len(stack) <= STSZ /\ Len(t) \in Nat
    BY <1>1, <1>4
  <2>2. Len(t) = (IF Len(stack) < 2 THEN 0 ELSE Len(stack) - 2) /\ \A k \in 1..Len(t) : t[k] = stack[k]
    BY <1>2
  <2> QED
    BY ONLY <2>1, <2>2, DcPopMoves
<1>8. ASSUME NEW j_ \in 1..STSZ, j_ # 1
      PROVE  BelowIn(FromTop(t), j_ - 1) = Dc!Calculator!Below(j_ - 1 + 2)
  <2>1. j_ - 1 \in 1..STSZ /\ j_ - 1 <= STSZ
    BY <1>1, <1>8
  <2>2. BelowIn(FromTop(t), j_ - 1) = BelowIn(FromTop(stack), j_ - 1 + 2)
    BY <1>7, <2>1 DEF BelowIn
  <2> QED
    BY <2>2, DcValueAt DEF Dc!Calculator!Below, BelowIn
<1>9. Dc!ValueAt' = [j_ \in 1..STSZ |-> IF j_ = 1 THEN v ELSE Dc!Calculator!Below(j_ - 1 + 2)]
  BY <1>6, <1>8, DcValueAtNext
<1>10. Len(stack)' = Dc!Calculator!Less(Len(stack), 2) + 1 /\ Len(stack)' <= STSZ
  <2>1. Dc!Calculator!Less(Len(stack), 2) = Len(t)
    BY <1>2 DEF Dc!Calculator!Less
  <2> QED
    BY <1>1, <1>4, <1>5, <2>1
<1>11. Dc!Calculator!Replace(2, v)
  BY <1>9, <1>10 DEF Dc!Calculator!Replace
<1>12. Len(stack') = IF Len(stack) < 2 THEN 1 ELSE Len(stack) - 1
  BY <1>1, <1>2, <1>5
<1> QED
  BY <1>11, <1>12 DEF Dc!Calculator!DNext

LEMMA DcResultKept == Dc!TypeOK => Dc!ResultKept
<1> SUFFICES ASSUME Dc!TypeOK, Dc!Arithmetic \/ Dc!Division, pc' # "trap"
             PROVE  Len(stack') = IF Len(stack) < 2 THEN 1 ELSE Len(stack) - 1
  BY DEF Dc!ResultKept
<1>1. PICK v \in Dc!Values : stack' = Dc!Pushed(Dc!Rest, v)
  BY DcResult
<1> QED
  BY <1>1, DcResultIsReplace

LEMMA DcDeskStep == Dc!TypeOK /\ Dc!Next => Dc!DeskStep
<1> SUFFICES ASSUME Dc!TypeOK, Dc!Next, pc' # "trap"
             PROVE  Dc!Calculator!DNext \/ UNCHANGED <<Dc!ValueAt, Len(stack)>>
  BY DEF Dc!DeskStep
<1>1. /\ stack \in Seq(Dc!Values) /\ Len(stack) <= STSZ /\ Len(stack) \in Nat /\ STSZ \in Nat \ {0}
      /\ reg \in [Names \cup {Dc!EOF} -> Dc!Values]
      /\ Dc!Peek(stack) \in Dc!Values
  BY LenProperties, DcSizes, DcPopped DEF Dc!TypeOK
<1>2. CASE Dc!NumberEnds
  BY <1>2, DcStrtol, DcPushIsReplace DEF Dc!NumberEnds
<1>3. CASE Dc!Arithmetic \/ Dc!Division
  <2>1. PICK v \in Dc!Values : stack' = Dc!Pushed(Dc!Rest, v)
    BY <1>3, DcResult
  <2> QED
    BY <2>1, DcResultIsReplace
<1>4. CASE Dc!Duplicate
  BY <1>1, <1>4, DcPushIsReplace DEF Dc!Duplicate
<1>5. CASE Dc!PrintAll
  <2>1. stack' = <<>> /\ Len(stack') = 0
    BY <1>5 DEF Dc!PrintAll
  <2>2. \A k \in 1..STSZ : ~(k <= 0)
    BY <1>1
  <2>3. Dc!ValueAt' = [k \in 1..STSZ |-> 0]
    BY <2>1, <2>2, DcValueAtNext DEF FromTop
  <2>4. Dc!Calculator!Clear
    BY <2>1, <2>3 DEF Dc!Calculator!Clear
  <2> QED
    BY <2>4 DEF Dc!Calculator!DNext
<1>6. CASE Dc!Load
  <2>1. PICK c \in Names \cup {Dc!EOF} : stack' = Dc!Pushed(stack, reg[c])
    BY <1>6 DEF Dc!Load
  <2>2. reg[c] \in Dc!Values
    BY <1>1
  <2> QED
    BY <2>1, <2>2, DcPushIsReplace
<1>7. CASE Dc!Store
  <2>1. stack' = Dc!Popped(stack)
    BY <1>7 DEF Dc!Store
  <2>2. /\ stack' \in Seq(Dc!Values) /\ Len(stack') = IF Len(stack) = 0 THEN 0 ELSE Len(stack) - 1
        /\ \A k \in 1..Len(stack') : stack'[k] = stack[k]
    BY <1>1, <2>1, DcPopped
  <2>3. Len(stack') \in Nat /\ Len(stack') = IF Len(stack) < 1 THEN 0 ELSE Len(stack) - 1
    BY <1>1, <2>2
  <2>4. FromTop(stack') = [j_ \in 1..STSZ |-> BelowIn(FromTop(stack), j_ + 1)]
    BY <1>1, <2>2, <2>3, DcPopMoves
  <2>5. Dc!ValueAt' = [j_ \in 1..STSZ |-> Dc!Calculator!Below(j_ + 1)]
    BY <2>4, DcValueAt, DcValueAtNext DEF Dc!Calculator!Below, BelowIn
  <2>6. Len(stack)' = Dc!Calculator!Less(Len(stack), 1)
    BY <2>3 DEF Dc!Calculator!Less
  <2>7. Dc!Calculator!Drop
    BY <2>5, <2>6 DEF Dc!Calculator!Drop
  <2> QED
    BY <2>7 DEF Dc!Calculator!DNext
<1>8. CASE Dc!Digit \/ Dc!Name \/ Dc!Quit \/ Dc!Done
  <2>1. stack' = stack
    BY <1>8 DEF Dc!Digit, Dc!Name, Dc!Quit, Dc!Done, Dc!vars
  <2>2. Dc!ValueAt' = Dc!ValueAt
    BY <2>1, DcValueAt, DcValueAtNext
  <2> QED
    BY <2>1, <2>2
<1> QED
  BY <1>2, <1>3, <1>4, <1>5, <1>6, <1>7, <1>8 DEF Dc!Next

-----------------------------------------------------------------------------
(* xkcdpass, d6, uuidgen *)

LEMMA DrawsMin ==
  ASSUME NEW T \in SUBSET Nat, T # {}
  PROVE  Draws!Min(T) \in T /\ \A k \in T : Draws!Min(T) <= k
<1>1. \E m \in T : \A k \in T : m <= k
  BY Smallest
<1> QED
  BY <1>1 DEF Draws!Min

LEMMA DrawsSizes ==
  /\ WordLists \subseteq Seq(STRING) /\ Acrostics \ {None} \subseteq Seq(STRING)
  /\ NWords \in Nat /\ Phrases \in Nat /\ BYTES \in Nat /\ DIGIT \in Nat \ {0} /\ Times \subseteq Nat
BY DrawsAssumed DEF Draws!DrawsAssumption

LEMMA DrawsTypes ==
  ASSUME Draws!TypeOK
  PROVE  /\ dict \in Seq(STRING) /\ Len(dict) \in Nat /\ DOMAIN dict = 1..Len(dict)
         /\ Draws!n \in Nat
         /\ words \in Seq(0..Len(dict)) /\ Len(words) \in Nat /\ DOMAIN words = 1..Len(words)
         /\ at \in 0..(Len(dict) + BYTES) /\ i \in 0..Phrases /\ j \in 0..Draws!n
<1>1. dict \in Seq(STRING)
  BY DrawsSizes, EmptySeq DEF Draws!TypeOK
<1>2. Draws!n \in Nat
  <2>1. acrostic # None => acrostic \in Seq(STRING)
    BY DrawsSizes DEF Draws!TypeOK
  <2> QED
    BY <2>1, DrawsSizes, LenProperties DEF Draws!n
<1> QED
  BY <1>1, <1>2, LenProperties DEF Draws!TypeOK

\* A line is never empty, nor does it reach behind the end.
LEMMA DrawsLineAt ==
  ASSUME Draws!TypeOK, NEW o \in 0..Len(dict), o < Len(dict)
  PROVE  LET e == o + Len(Draws!LineAt(o)) IN
         /\ e \in o + 1..Len(dict)
         /\ Draws!LineAt(o) = SubSeq(dict, o + 1, e)
         /\ e = Len(dict) \/ dict[e] = "\n"
         /\ \A k \in o + 1..e - 1 : dict[k] # "\n"
<1> DEFINE ends == {k \in (o + 1)..Len(dict) : dict[k] = "\n"}
           e == IF ends = {} THEN Len(dict) ELSE Draws!Min(ends)
<1>1. Len(dict) \in Nat /\ dict \in Seq(STRING)
  BY DrawsTypes
<1>2. /\ e \in o + 1..Len(dict)
      /\ e = Len(dict) \/ dict[e] = "\n"
      /\ \A k \in o + 1..e - 1 : dict[k] # "\n"
  <2>1. CASE ends = {}
    <3>1. e = Len(dict) /\ e \in o + 1..Len(dict)
      BY <1>1, <2>1
    <3>2. \A k \in o + 1..Len(dict) - 1 : k \in o + 1..Len(dict)
      BY <1>1
    <3> QED
      BY <2>1, <3>1, <3>2
  <2>2. CASE ends # {}
    <3>1. ends \in SUBSET Nat
      BY <1>1
    <3>2. e \in ends /\ \A k \in ends : e <= k
      <4> HIDE DEF ends
      <4> QED
        BY <2>2, <3>1, DrawsMin
    <3>3. e \in o + 1..Len(dict) /\ dict[e] = "\n"
      BY <3>2
    <3>4. ASSUME NEW k \in o + 1..e - 1 PROVE dict[k] # "\n"
      <4>1. k \in o + 1..Len(dict) /\ ~(e <= k)
        BY <1>1, <3>3
      <4> QED
        BY <3>2, <4>1
    <3> QED
      BY <3>3, <3>4
  <2> QED
    BY <2>1, <2>2
<1>3. Draws!LineAt(o) = SubSeq(dict, o + 1, e)
  BY DEF Draws!LineAt
<1> HIDE DEF e
<1>4. \A k \in o + 1..e : dict[k] \in STRING
  <2>1. \A k \in o + 1..e : k \in 1..Len(dict)
    BY <1>1, <1>2
  <2> QED
    BY <1>1, <2>1, ElementOfSeq
<1>5. Len(Draws!LineAt(o)) = e - o
  <2>1. o + 1 \in Int /\ e \in Int /\ o + 1 <= e /\ e - (o + 1) + 1 = e - o
    BY <1>1, <1>2
  <2> DEFINE a == o + 1
  <2> HIDE DEF a
  <2>2. Len(SubSeq(dict, a, e)) = e - a + 1
    <3>1. a \in Int /\ e \in Int /\ a <= e /\ \A k \in a..e : dict[k] \in STRING
      BY <1>4, <2>1 DEF a
    <3> QED
      BY <3>1, SubSeqProperties
  <2> QED
    BY <1>3, <2>1, <2>2 DEF a
<1>6. o + Len(Draws!LineAt(o)) = e
  BY <1>1, <1>2, <1>5
<1> QED
  BY <1>2, <1>3, <1>6

LEMMA FirstOf ==
  ASSUME NEW s \in Seq(STRING), NEW m \in 0..Len(s)
  PROVE  /\ SubSeq(s, 1, m) \in Seq(STRING) /\ Len(SubSeq(s, 1, m)) = m
         /\ \A k \in 1..m : SubSeq(s, 1, m)[k] = s[k]
<1>1. m \in Nat /\ \A k \in 1..m : k \in 1..Len(s)
  BY LenProperties
<1>2. \A k \in 1..m : s[k] \in STRING
  BY <1>1, ElementOfSeq
<1>3. /\ SubSeq(s, 1, m) \in Seq(STRING)
      /\ Len(SubSeq(s, 1, m)) = IF 1 <= m THEN m - 1 + 1 ELSE 0
      /\ \A k \in 1..m - 1 + 1 : SubSeq(s, 1, m)[k] = s[1 + k - 1]
  BY <1>1, <1>2, SubSeqProperties
<1>4. m - 1 + 1 = m /\ (IF 1 <= m THEN m - 1 + 1 ELSE 0) = m /\ \A k \in 1..m : 1 + k - 1 = k
  BY <1>1
<1> QED
  BY <1>3, <1>4

\* A sequence that begins as another one does.
BeginOf(w, s) == /\ w \in Seq(STRING) /\ Len(w) \in 0..Len(s)
                 /\ \A k \in 1..Len(w) : w[k] = s[k]

LEMMA BeginIsPrefix ==
  ASSUME NEW s \in Seq(STRING), NEW w, BeginOf(w, s)
  PROVE  Draws!IsPrefix(w, s)
<1>1. w \in Seq(STRING) /\ Len(w) \in 0..Len(s) /\ Len(w) \in 0..Len(w) /\ \A k \in 1..Len(w) : w[k] = s[k]
  BY LenProperties DEF BeginOf
<1> DEFINE u == SubSeq(w, 1, Len(w))
           v == SubSeq(s, 1, Len(w))
<1>2. u \in Seq(STRING) /\ Len(u) = Len(w) /\ \A k \in 1..Len(w) : u[k] = w[k]
  BY <1>1, FirstOf
<1>3. v \in Seq(STRING) /\ Len(v) = Len(w) /\ \A k \in 1..Len(w) : v[k] = s[k]
  BY <1>1, FirstOf
<1>4. u = v
  <2> HIDE DEF u, v
  <2>1. Len(u) = Len(v) /\ \A k \in 1..Len(u) : u[k] = v[k]
    BY <1>1, <1>2, <1>3
  <2> QED
    BY <1>2, <1>3, <2>1, SeqEqual
<1>5. Len(w) <= Len(s)
  BY <1>1, LenProperties
<1> QED
  BY <1>4, <1>5 DEF Draws!IsPrefix

LEMMA DrawsWithoutLast ==
  ASSUME NEW s \in Seq(STRING), NEW c
  PROVE  LET w == Draws!WithoutLast(s, c) IN
         BeginOf(w, s) /\ (Len(w) = Len(s) \/ (s[Len(w) + 1] = c /\ Len(w) + 1 = Len(s)))
<1>1. Len(s) \in Nat /\ (s # <<>> => Len(s) > 0)
  BY LenProperties, EmptySeq
<1>2. CASE s # <<>> /\ s[Len(s)] = c
  <2> DEFINE m == Len(s) - 1
  <2>1. m \in 0..Len(s) /\ m + 1 = Len(s)
    BY <1>1, <1>2
  <2>2. Draws!WithoutLast(s, c) = SubSeq(s, 1, m)
    BY <1>2 DEF Draws!WithoutLast, Draws!Last, Draws!Front
  <2> HIDE DEF m
  <2>3. /\ SubSeq(s, 1, m) \in Seq(STRING) /\ Len(SubSeq(s, 1, m)) = m
        /\ \A k \in 1..m : SubSeq(s, 1, m)[k] = s[k]
    BY <2>1, FirstOf
  <2> QED
    BY <1>2, <2>1, <2>2, <2>3 DEF BeginOf
<1>3. CASE ~(s # <<>> /\ s[Len(s)] = c)
  <2>1. Draws!WithoutLast(s, c) = s
    BY <1>3 DEF Draws!WithoutLast, Draws!Last
  <2>2. Len(s) \in 0..Len(s)
    BY <1>1
  <2> QED
    BY <2>1, <2>2 DEF BeginOf
<1> QED
  BY <1>2, <1>3

\* All of a line is printed but for its end and what an apostrophe begins.
LEMMA DrawsStripped ==
  ASSUME NEW s \in Seq(STRING)
  PROVE  LET w == Draws!Stripped(s) IN
         /\ BeginOf(w, s)
         /\ \A k \in 1..Len(w) : w[k] # "'"
         /\ Len(w) = Len(s) \/ s[Len(w) + 1] \in {"'", "\n", "\r"}
<1> DEFINE t == Draws!WithoutLast(s, "\n")
           u == Draws!WithoutLast(t, "\r")
           cuts == {k \in DOMAIN u : u[k] = "'"}
<1>1. BeginOf(t, s) /\ (Len(t) = Len(s) \/ s[Len(t) + 1] = "\n")
  BY DrawsWithoutLast
<1> HIDE DEF t
<1>2. BeginOf(u, t) /\ (Len(u) = Len(t) \/ (t[Len(u) + 1] = "\r" /\ Len(u) + 1 = Len(t)))
  BY <1>1, DrawsWithoutLast DEF BeginOf
<1> HIDE DEF u
<1>3. /\ u \in Seq(STRING) /\ Len(u) \in Nat /\ Len(s) \in Nat /\ Len(t) \in Nat
      /\ Len(u) <= Len(t) /\ Len(t) <= Len(s)
      /\ DOMAIN u = 1..Len(u)
  BY <1>1, <1>2, LenProperties DEF BeginOf
<1>4. \A k \in 1..Len(u) : u[k] = s[k]
  <2>1. \A k \in 1..Len(u) : k \in 1..Len(t)
    BY <1>3
  <2> QED
    BY <1>1, <1>2, <2>1 DEF BeginOf
<1>5. Len(u) = Len(s) \/ s[Len(u) + 1] \in {"\n", "\r"}
  <2>1. CASE Len(u) = Len(t)
    BY <1>1, <2>1
  <2>2. CASE t[Len(u) + 1] = "\r" /\ Len(u) + 1 = Len(t)
    <3>1. Len(u) + 1 \in 1..Len(t)
      BY <1>3, <2>2
    <3> QED
      BY <1>1, <2>2, <3>1 DEF BeginOf
  <2> QED
    BY <1>2, <2>1, <2>2
<1>6. Draws!Stripped(s) = IF cuts = {} THEN u ELSE SubSeq(u, 1, Draws!Min(cuts) - 1)
  BY DEF Draws!Stripped, t, u
<1>7. CASE cuts = {}
  <2>1. Draws!Stripped(s) = u /\ \A k \in 1..Len(u) : u[k] # "'"
    BY <1>3, <1>6, <1>7
  <2>2. Len(u) \in 0..Len(s)
    BY <1>3
  <2> QED
    BY <1>3, <1>4, <1>5, <2>1, <2>2 DEF BeginOf
<1>8. CASE cuts # {}
  <2> DEFINE e == Draws!Min(cuts)
             m == e - 1
  <2>1. cuts \in SUBSET Nat /\ cuts \in SUBSET (1..Len(u)) /\ \A k \in cuts : u[k] = "'"
    BY <1>3
  <2>2. e \in cuts /\ \A k \in cuts : e <= k
    <3> HIDE DEF cuts
    <3> QED
      BY <1>8, <2>1, DrawsMin
  <2>3. e \in 1..Len(u) /\ u[e] = "'"
    BY <2>1, <2>2
  <2>4. \A k \in 1..e - 1 : u[k] # "'"
    <3>1. \A k \in 1..e - 1 : k \in 1..Len(u) /\ ~(e <= k)
      <4> HIDE DEF e
      <4> QED
        BY <1>3, <2>3
    <3> QED
      BY <1>3, <2>2, <3>1
  <2> HIDE DEF e, cuts
  <2>5. m \in 0..Len(u) /\ m + 1 = e /\ m \in 0..Len(s) /\ \A k \in 1..m : k \in 1..Len(u)
    BY <1>3, <2>3
  <2>6. Draws!Stripped(s) = SubSeq(u, 1, m)
    BY <1>6, <1>8 DEF e
  <2> HIDE DEF m
  <2>7. /\ SubSeq(u, 1, m) \in Seq(STRING) /\ Len(SubSeq(u, 1, m)) = m
        /\ \A k \in 1..m : SubSeq(u, 1, m)[k] = u[k]
    BY <1>3, <2>5, FirstOf
  <2>8. \A k \in 1..m : u[k] # "'"
    BY <2>4 DEF m
  <2>9. s[m + 1] = "'"
    BY <1>4, <2>3, <2>5
  <2> QED
    BY <1>4, <2>5, <2>6, <2>7, <2>8, <2>9 DEF BeginOf
<1> QED
  BY <1>7, <1>8

LEMMA DrawsInList ==
  ASSUME Draws!TypeOK, NEW o \in 0..Len(dict), o < Len(dict), Draws!Begins(o)
  PROVE  /\ Draws!LineAt(o) \in Seq(STRING) /\ Draws!LineAt(o) # <<>>
         /\ Draws!Stripped(Draws!LineAt(o)) \in Seq(STRING)
         /\ Draws!InList(dict, Draws!Stripped(Draws!LineAt(o)))
         /\ Draws!Stripped(Draws!LineAt(o)) # <<>> =>
              Draws!Stripped(Draws!LineAt(o))[1] = Draws!LineAt(o)[1]
<1> DEFINE s == Draws!LineAt(o)
           e == o + Len(s)
           a == o + 1
           w == Draws!Stripped(s)
<1>1. Len(dict) \in Nat /\ dict \in Seq(STRING) /\ DOMAIN dict = 1..Len(dict)
  BY DrawsTypes
<1>2. /\ e \in a..Len(dict) /\ s = SubSeq(dict, a, e)
      /\ e = Len(dict) \/ dict[e] = "\n"
      /\ \A k \in a..e - 1 : dict[k] # "\n"
  BY DrawsLineAt
<1>3. a \in 1..Len(dict) /\ a - 1 = o /\ a \in Int
  BY <1>1
<1> HIDE DEF s
<1>4. e \in 1..Len(dict) /\ e \in Int /\ a <= e
  <2>1. e \in a..Len(dict)
    BY <1>2
  <2> HIDE DEF e, a
  <2> QED
    BY <1>1, <1>3, <2>1
<1>5. s \in Seq(STRING)
  <2> HIDE DEF e, a
  <2>1. \A k \in a..e : k \in 1..Len(dict)
    BY <1>1, <1>3, <1>4
  <2>2. \A k \in a..e : dict[k] \in STRING
    BY <1>1, <2>1, ElementOfSeq
  <2> QED
    BY <1>2, <1>3, <1>4, <2>2, SubSeqProperties
<1>6. Len(s) > 0 /\ s # <<>>
  <2>1. Len(s) > 0
    BY <1>4, <1>5, LenProperties
  <2> QED
    BY <2>1, EmptySeq
<1>7. s \in Draws!ListLines(dict)
  <2> HIDE DEF e, a
  <2>1. a = 1 \/ dict[a - 1] = "\n"
    <3>1. o = 0 \/ dict[o] = "\n"
      <4>1. \A u_, v_ \in Int : u_ < v_ => ~(u_ = v_)
        OBVIOUS
      <4>2. o \in Int /\ Len(dict) \in Int
        BY <1>1
      <4>3. ~(o = Len(dict))
        BY <4>1, <4>2, Zenon
      <4> QED
        BY <4>3, Zenon DEF Draws!Begins
    <3>2. o = 0 => a = 1
      BY DEF a
    <3> QED
      BY <1>3, <3>1, <3>2
  <2> DEFINE q == <<a, e>>
  <2>2. q \in (DOMAIN dict) \X (DOMAIN dict) /\ q[1] = a /\ q[2] = e
    BY <1>1, <1>3, <1>4
  <2> HIDE DEF q
  <2> QED
    BY <1>2, <1>4, <2>1, <2>2 DEF Draws!ListLines
<1>8. /\ BeginOf(w, s) /\ (\A k \in 1..Len(w) : w[k] # "'")
      /\ Len(w) = Len(s) \/ s[Len(w) + 1] \in {"'", "\n", "\r"}
  BY <1>5, DrawsStripped
<1> HIDE DEF w
<1>9. w \in Seq(STRING) /\ DOMAIN w = 1..Len(w) /\ Draws!IsPrefix(w, s)
  BY <1>5, <1>8, BeginIsPrefix, LenProperties DEF BeginOf
<1>10. Draws!InList(dict, w)
  BY <1>7, <1>8, <1>9 DEF Draws!InList
<1>11. w # <<>> => w[1] = s[1]
  <2>1. w # <<>> => 1 \in 1..Len(w)
    BY <1>9, EmptySeq, LenProperties
  <2> QED
    BY <1>8, <2>1 DEF BeginOf
<1> QED
  BY <1>5, <1>6, <1>9, <1>10, <1>11 DEF s, w

\* The base of the digits, and that of the bytes.
LEMMA DrawsBase ==
  /\ DIGIT \in Nat \ {0} /\ Draws!BASE \in Nat \ {0} /\ Draws!BASE = DIGIT * DIGIT
  /\ \A k \in Nat : Draws!Power(Draws!BASE, k) \in Nat \ {0}
<1>1. DIGIT \in Nat \ {0} /\ Draws!BASE = DIGIT * DIGIT
  BY DrawsSizes DEF Draws!BASE
<1>2. Draws!BASE \in Nat \ {0}
  BY <1>1
<1> QED
  BY <1>1, <1>2, Draws!PowerPositive

LEMMA DrawsDatedInit == Draws!Init => Draws!Dated
<1> SUFFICES ASSUME Draws!Init, game = "uuidgen" PROVE Draws!Dated
  BY DEF Draws!Dated
<1>1. ts \in Nat /\ at = 0 /\ outcome = "none" /\ drawn = <<>>
  BY DrawsSizes DEF Draws!Init
<1> DEFINE early == Draws!Power(Draws!BASE, BYTES - at)
           o == Draws!Power(Draws!BASE, at)
<1>2. o = 1
  BY <1>1, DrawsBase, Draws!PowerZero
<1>3. early \in Nat \ {0}
  <2>1. BYTES - at \in Nat
    BY <1>1, DrawsSizes
  <2> QED
    BY <2>1, DrawsBase
<1>4. (ts \div early) % o = 0
  <2> HIDE DEF early, o
  <2>1. ts \div early \in Nat
    BY <1>1, <1>3, Divided
  <2> QED
    BY <1>2, <2>1
<1>5. Draws!Value(DIGIT, drawn) = 0
  BY <1>1, DrawsBase, Draws!ValueEmpty
<1>6. drawn \in Seq(Nat) /\ Len(drawn) = 2 * at
  BY <1>1
<1> QED
  BY <1>1, <1>4, <1>5, <1>6, DrawsSizes DEF Draws!Dated

LEMMA DrawsInit == Draws!Init => Draws!IInv
<1> SUFFICES ASSUME Draws!Init PROVE Draws!IInv
  OBVIOUS
<1>1. /\ game \in {"xkcdpass", "d6", "uuidgen"} /\ dict \in WordLists \cup {<<>>}
      /\ acrostic \in Acrostics \cup {None} /\ words = <<0>> /\ at = 0 /\ i = 0 /\ j = 0 /\ outcome = "none"
      /\ drawn = IF game = "xkcdpass" /\ Phrases > 0 THEN <<<<>>>> ELSE <<>>
  BY DEF Draws!Init
<1>2. dict \in Seq(STRING) /\ Len(dict) \in Nat /\ Draws!n \in Nat
  <2>1. dict \in Seq(STRING)
    BY <1>1, DrawsSizes, EmptySeq
  <2>2. acrostic # None => acrostic \in Seq(STRING)
    BY <1>1, DrawsSizes
  <2> QED
    BY <2>1, <2>2, DrawsSizes, LenProperties DEF Draws!n
<1>3. Draws!TypeOK
  <2>1. 0 \in 0..(Len(dict) + BYTES) /\ 0 \in 0..Phrases /\ 0 \in 0..Draws!n /\ 0 \in 0..Len(dict)
    BY <1>2, DrawsSizes
  <2>2. words \in Seq(0..Len(dict))
    BY <1>1, <2>1
  <2> QED
    BY <1>1, <2>1, <2>2 DEF Draws!TypeOK
<1>4. Draws!Loaded
  <2>1. Len(words) = 1 /\ words[1] = 0 /\ at <= Len(dict) /\ 1 > 0
    BY <1>1, <1>2
  <2>2. (\A k \in 1..1 : k = 1) /\ (\A k \in 1..1 - 1 : FALSE)
    OBVIOUS
  <2> QED
    BY <1>1, <2>1, <2>2 DEF Draws!Loaded, Draws!Begins
<1>5. Draws!Whole
  <2>1. CASE Phrases > 0
    <3>1. 0 < Phrases /\ (\A k \in 1..1 : k = 0 + 1) /\ (\A k \in 1..0 : FALSE) /\ 0 + 1 = 1
      BY <2>1
    <3>2. game = "xkcdpass" => drawn = <<<<>>>>
      BY <1>1, <2>1
    <3>3. <<<<>>>> \in Seq(Seq(Seq(STRING))) /\ Len(<<<<>>>>) = 1 /\ <<<<>>>>[1] = <<>> /\ Len(<<>>) = 0
      OBVIOUS
    <3> QED
      BY <1>1, <3>1, <3>2, <3>3 DEF Draws!Whole
  <2>2. CASE ~(Phrases > 0)
    <3>1. Phrases = 0 /\ ~(0 < Phrases) /\ (\A k \in 1..0 : FALSE)
      BY <2>2, DrawsSizes
    <3>2. drawn = <<>> /\ <<>> \in Seq(Seq(Seq(STRING))) /\ Len(<<>>) = 0
      BY <1>1, <2>2
    <3> QED
      BY <1>1, <3>1, <3>2 DEF Draws!Whole
  <2> QED
    BY <2>1, <2>2
<1> QED
  BY <1>1, <1>3, <1>4, <1>5, DrawsDatedInit DEF Draws!IInv, Draws!OneOfSix

\* What does not change the list of lines keeps what is known of it.
LEMMA DrawsLoadedKept ==
  ASSUME Draws!Loaded, UNCHANGED <<game, dict, words>>, game = "xkcdpass" => at' = at
  PROVE  Draws!Loaded'
BY DEF Draws!Loaded, Draws!Begins

LEMMA DrawsWholeKept ==
  ASSUME Draws!Whole, UNCHANGED <<game, dict, acrostic>>,
         game = "xkcdpass" => UNCHANGED <<drawn, i, j>> /\ (outcome' = outcome \/ outcome' = "failure")
  PROVE  Draws!Whole'
<1>1. Draws!n' = Draws!n
  BY DEF Draws!n
<1> QED
  BY <1>1 DEF Draws!Whole

LEMMA DrawsDatedKept ==
  ASSUME Draws!Dated, UNCHANGED <<game, ts>>,
         game = "uuidgen" => UNCHANGED <<drawn, at>> /\ (outcome' = outcome \/ outcome' = "failure" \/ at = BYTES)
  PROVE  Draws!Dated'
BY DEF Draws!Dated, Draws!BASE

LEMMA DrawsLoad == Draws!IInv /\ Draws!Load => Draws!IInv'
<1> SUFFICES ASSUME Draws!IInv, Draws!Load PROVE Draws!IInv'
  OBVIOUS
<1> DEFINE e == at + Len(Draws!LineAt(at))
<1>1. /\ game = "xkcdpass" /\ outcome = "none" /\ at < Len(dict)
      /\ at' = e /\ words' = Append(words, e)
      /\ UNCHANGED <<game, dict, acrostic, i, j, drawn, outcome>>
  BY DEF Draws!Load, Draws!Loading, Draws!given
<1>2. Draws!TypeOK /\ Draws!Loaded /\ Draws!Whole /\ Draws!OneOfSix
  BY DEF Draws!IInv
<1>3. /\ Len(dict) \in Nat /\ words \in Seq(0..Len(dict)) /\ Len(words) \in Nat /\ at \in 0..(Len(dict) + BYTES)
      /\ i \in 0..Phrases /\ j \in 0..Draws!n
  BY <1>2, DrawsTypes
<1>4. at \in 0..Len(dict)
  BY <1>1, <1>3
<1>5. e \in at + 1..Len(dict) /\ (e = Len(dict) \/ dict[e] = "\n")
  BY <1>1, <1>2, <1>4, DrawsLineAt
<1> HIDE DEF e
<1>6. e \in 0..Len(dict) /\ e \in 0..(Len(dict) + BYTES) /\ e <= Len(dict)
  BY <1>3, <1>4, <1>5, DrawsSizes
<1>7. /\ words' \in Seq(0..Len(dict)) /\ Len(words') = Len(words) + 1
      /\ \A k \in 1..Len(words) : words'[k] = words[k]
      /\ words'[Len(words) + 1] = e
  BY <1>1, <1>3, <1>6, AppendProperties
<1>8. Draws!TypeOK'
  <2>1. Draws!n' = Draws!n
    BY <1>1 DEF Draws!n
  <2> QED
    BY <1>1, <1>2, <1>6, <1>7, <2>1 DEF Draws!TypeOK
<1>9. Draws!Loaded'
  <2>1. /\ Len(words) > 0 /\ words[1] = 0 /\ words[Len(words)] = at
        /\ \A k \in 1..Len(words) : Draws!Begins(words[k])
        /\ \A k \in 1..Len(words) - 1 : words[k] < Len(dict)
    BY <1>1, <1>2 DEF Draws!Loaded
  <2>2. /\ 1 \in 1..Len(words) /\ Len(words) \in 1..Len(words) /\ Len(words) + 1 > 0
        /\ (\A k \in 1..Len(words) + 1 : k \in 1..Len(words) \/ k = Len(words) + 1)
        /\ (\A k \in 1..(Len(words) + 1) - 1 : k \in 1..Len(words) /\ (k \in 1..Len(words) - 1 \/ k = Len(words)))
    BY <1>3, <2>1
  <2>3. \A k \in 1..Len(words) + 1 : Draws!Begins(words'[k])
    BY <1>5, <1>7, <2>1, <2>2 DEF Draws!Begins
  <2>4. \A k \in 1..(Len(words) + 1) - 1 : words'[k] < Len(dict)
    <3>1. ASSUME NEW k \in 1..(Len(words) + 1) - 1 PROVE words'[k] < Len(dict)
      <4>1. words'[k] = words[k] /\ (k \in 1..Len(words) - 1 \/ k = Len(words))
        BY <1>7, <2>2
      <4> QED
        BY <1>1, <2>1, <4>1
    <3> QED
      BY <3>1
  <2> QED
    BY <1>1, <1>6, <1>7, <2>1, <2>2, <2>3, <2>4 DEF Draws!Loaded, Draws!Begins
<1>10. Draws!Whole'
  BY <1>1, <1>2, DrawsWholeKept
<1> QED
  BY <1>1, <1>2, <1>8, <1>9, <1>10 DEF Draws!IInv, Draws!OneOfSix, Draws!Dated

\* The word that is drawn is one of the list, and begins with the letter that
\* the acrostic has at its place.
LEMMA DrawsWordTaken ==
  ASSUME Draws!IInv, NEW r, Draws!Take(r)
  PROVE  /\ Draws!Line(r) # <<>>
         /\ Draws!Stripped(Draws!Line(r)) \in Seq(STRING)
         /\ Draws!WordFor(dict, acrostic, j + 1, Draws!Stripped(Draws!Line(r)))
<1>1. /\ game = "xkcdpass" /\ at = Len(dict) /\ r \in 0..(Len(words) - 2)
      /\ acrostic # None /\ Draws!Line(r) # <<>> => Draws!Line(r)[1] = TcTolower[acrostic[j + 1]]
  BY DEF Draws!Take, Draws!Drawing, Draws!Offsets, Draws!Suits
<1>2. /\ Draws!TypeOK /\ Len(dict) \in Nat /\ words \in Seq(0..Len(dict)) /\ Len(words) \in Nat
  BY DrawsTypes DEF Draws!IInv
<1> DEFINE o == words[r + 1]
<1>3. r + 1 \in 1..Len(words) - 1 /\ r + 1 \in 1..Len(words)
  BY <1>1, <1>2
<1>4. o \in 0..Len(dict) /\ o < Len(dict) /\ Draws!Begins(o)
  <2>1. o \in 0..Len(dict)
    BY <1>2, <1>3, ElementOfSeq
  <2> QED
    BY <1>1, <1>3, <2>1 DEF Draws!IInv, Draws!Loaded
<1>5. Draws!Line(r) = Draws!LineAt(o)
  BY DEF Draws!Line
<1> HIDE DEF o
<1> DEFINE s == Draws!LineAt(o)
           w == Draws!Stripped(s)
<1>6. s # <<>> /\ w \in Seq(STRING) /\ Draws!InList(dict, w) /\ (w # <<>> => w[1] = s[1])
  BY <1>2, <1>4, DrawsInList
<1>7. acrostic # None => s[1] = TcTolower[acrostic[j + 1]]
  BY <1>1, <1>5, <1>6
<1> HIDE DEF s, w
<1>8. Draws!WordFor(dict, acrostic, j + 1, w)
  BY <1>6, <1>7 DEF Draws!WordFor
<1> QED
  BY <1>5, <1>6, <1>8 DEF s, w

LEMMA DrawsTake == ASSUME Draws!IInv, NEW r, Draws!Take(r) PROVE Draws!IInv'
<1> DEFINE w == Draws!Stripped(Draws!Line(r))
<1>1. /\ Draws!Line(r) # <<>> /\ w \in Seq(STRING) /\ Draws!WordFor(dict, acrostic, j + 1, w)
  BY DrawsWordTaken
<1>2. /\ game = "xkcdpass" /\ outcome = "none" /\ i < Phrases /\ j < Draws!n
      /\ j' = j + 1 /\ drawn' = [drawn EXCEPT ![i + 1] = Append(@, w)]
      /\ UNCHANGED <<game, dict, acrostic, words, at, i, outcome>>
  BY <1>1 DEF Draws!Take, Draws!Drawing, Draws!given
<1> HIDE DEF w
<1>3. Draws!TypeOK /\ Draws!Loaded /\ Draws!Whole
  BY DEF Draws!IInv
<1>4. i \in 0..Phrases /\ j \in 0..Draws!n /\ Draws!n \in Nat /\ Phrases \in Nat
  BY <1>3, DrawsTypes, DrawsSizes
<1>5. Draws!n' = Draws!n
  BY <1>2 DEF Draws!n
<1>6. Draws!TypeOK'
  <2>1. j + 1 \in 0..Draws!n
    BY <1>2, <1>4
  <2> QED
    BY <1>2, <1>3, <1>5, <2>1 DEF Draws!TypeOK
<1>7. Draws!Loaded'
  BY <1>2, <1>3, DrawsLoadedKept
<1> DEFINE q == i + 1
           words_ == drawn[q]
           more == Append(words_, w)
<1>8. /\ drawn \in Seq(Seq(Seq(STRING))) /\ Len(drawn) = i + 1
      /\ \A k \in 1..Len(drawn) : Len(drawn[k]) = IF k = i + 1 THEN j ELSE Draws!n
      /\ \A k \in 1..Len(drawn) : \A m \in 1..Len(drawn[k]) : Draws!WordFor(dict, acrostic, m, drawn[k][m])
  BY <1>2, <1>3 DEF Draws!Whole
<1>9. q \in 1..Len(drawn) /\ words_ \in Seq(Seq(STRING)) /\ Len(words_) = j
  <2>1. q \in 1..Len(drawn)
    BY <1>4, <1>8
  <2> QED
    BY <1>8, <2>1, ElementOfSeq
<1>10. /\ more \in Seq(Seq(STRING)) /\ Len(more) = j + 1 /\ more[j + 1] = w
       /\ \A m \in 1..j : more[m] = words_[m]
  BY <1>1, <1>9, AppendProperties
<1>11. drawn' = [drawn EXCEPT ![q] = more]
  BY <1>2
<1> HIDE DEF q, more
<1>12. /\ drawn' \in Seq(Seq(Seq(STRING))) /\ Len(drawn') = Len(drawn)
       /\ \A k \in 1..Len(drawn) : drawn'[k] = IF k = q THEN more ELSE drawn[k]
  BY <1>8, <1>9, <1>10, <1>11, ExceptSeq
<1>13. \A k \in 1..Len(drawn) : Len(drawn'[k]) = IF k = i + 1 THEN j + 1 ELSE Draws!n
  BY <1>8, <1>10, <1>12 DEF q
<1>14. \A m \in 1..j + 1 : Draws!WordFor(dict, acrostic, m, more[m])
  <2>1. \A m \in 1..j + 1 : m \in 1..j \/ m = j + 1
    BY <1>4
  <2>2. \A m \in 1..j : Draws!WordFor(dict, acrostic, m, words_[m])
    BY <1>8, <1>9
  <2> QED
    BY <1>1, <1>10, <2>1, <2>2
<1>15. \A k \in 1..Len(drawn) : \A m \in 1..Len(drawn'[k]) : Draws!WordFor(dict, acrostic, m, drawn'[k][m])
  BY <1>8, <1>10, <1>12, <1>14
<1>16. Draws!Whole'
  BY <1>2, <1>5, <1>8, <1>12, <1>13, <1>15 DEF Draws!Whole
<1> QED
  BY <1>2, <1>6, <1>7, <1>16 DEF Draws!IInv, Draws!OneOfSix, Draws!Dated

LEMMA DrawsNextPhrase == Draws!IInv /\ Draws!NextPhrase => Draws!IInv'
<1> SUFFICES ASSUME Draws!IInv, Draws!NextPhrase PROVE Draws!IInv'
  OBVIOUS
<1>1. /\ game = "xkcdpass" /\ outcome = "none" /\ i < Phrases /\ j = Draws!n
      /\ i' = i + 1 /\ j' = 0
      /\ drawn' = IF i + 1 < Phrases THEN Append(drawn, <<>>) ELSE drawn
      /\ UNCHANGED <<game, dict, acrostic, words, at, outcome>>
  BY DEF Draws!NextPhrase, Draws!Drawing, Draws!given
<1>2. Draws!TypeOK /\ Draws!Loaded /\ Draws!Whole
  BY DEF Draws!IInv
<1>3. i \in 0..Phrases /\ j \in 0..Draws!n /\ Draws!n \in Nat /\ Phrases \in Nat
  BY <1>2, DrawsTypes, DrawsSizes
<1>4. Draws!n' = Draws!n
  BY <1>1 DEF Draws!n
<1>5. Draws!TypeOK'
  <2>1. i + 1 \in 0..Phrases /\ 0 \in 0..Draws!n
    BY <1>1, <1>3
  <2> QED
    BY <1>1, <1>2, <1>4, <2>1 DEF Draws!TypeOK
<1>6. Draws!Loaded'
  BY <1>1, <1>2, DrawsLoadedKept
<1>7. /\ drawn \in Seq(Seq(Seq(STRING))) /\ Len(drawn) = i + 1
      /\ \A k \in 1..Len(drawn) : Len(drawn[k]) = IF k = i + 1 THEN j ELSE Draws!n
      /\ \A k \in 1..Len(drawn) : \A m \in 1..Len(drawn[k]) : Draws!WordFor(dict, acrostic, m, drawn[k][m])
  BY <1>1, <1>2 DEF Draws!Whole
<1>8. \A k \in 1..Len(drawn) : Len(drawn[k]) = Draws!n
  BY <1>1, <1>7
<1>9. Draws!Whole'
  <2>1. CASE i + 1 < Phrases
    <3>1. drawn' = Append(drawn, <<>>) /\ <<>> \in Seq(Seq(STRING))
      BY <1>1, <2>1
    <3>2. /\ drawn' \in Seq(Seq(Seq(STRING))) /\ Len(drawn') = Len(drawn) + 1
          /\ \A k \in 1..Len(drawn) : drawn'[k] = drawn[k]
          /\ drawn'[Len(drawn) + 1] = <<>>
      BY <1>7, <3>1, AppendProperties
    <3>3. /\ Len(drawn') = (i + 1) + 1
          /\ \A k \in 1..Len(drawn') : (k \in 1..Len(drawn) /\ k # (i + 1) + 1) \/ (k = Len(drawn) + 1 /\ k = (i + 1) + 1)
      BY <1>3, <1>7, <3>2
    <3>4. \A k \in 1..Len(drawn') : Len(drawn'[k]) = IF k = (i + 1) + 1 THEN 0 ELSE Draws!n
      BY <1>8, <3>2, <3>3
    <3>5. \A k \in 1..Len(drawn') : \A m \in 1..Len(drawn'[k]) : Draws!WordFor(dict, acrostic, m, drawn'[k][m])
      <4>1. \A m \in 1..Len(<<>>) : FALSE
        OBVIOUS
      <4> SUFFICES ASSUME NEW k \in 1..Len(drawn')
                   PROVE  \A m \in 1..Len(drawn'[k]) : Draws!WordFor(dict, acrostic, m, drawn'[k][m])
        OBVIOUS
      <4>2. CASE k \in 1..Len(drawn)
        <5>1. drawn'[k] = drawn[k]
          BY <3>2, <4>2
        <5> QED
          BY <1>7, <4>2, <5>1
      <4>3. CASE k = Len(drawn) + 1
        <5>1. drawn'[k] = <<>>
          BY <3>2, <4>3
        <5> QED
          BY <4>1, <5>1
      <4> QED
        BY <3>3, <4>2, <4>3
    <3> QED
      BY <1>1, <1>4, <2>1, <3>2, <3>3, <3>4, <3>5 DEF Draws!Whole
  <2>2. CASE ~(i + 1 < Phrases)
    <3>1. drawn' = drawn /\ i + 1 = Phrases
      BY <1>1, <1>3, <2>2
    <3>2. \A k \in 1..Len(drawn) : k # (i + 1) + 1
      BY <1>3, <1>7
    <3>3. \A k \in 1..Len(drawn) : Len(drawn[k]) = IF k = (i + 1) + 1 THEN 0 ELSE Draws!n
      BY <1>8, <3>2
    <3> QED
      BY <1>1, <1>4, <1>7, <2>2, <3>1, <3>3 DEF Draws!Whole
  <2> QED
    BY <2>1, <2>2
<1> QED
  BY <1>1, <1>5, <1>6, <1>9 DEF Draws!IInv, Draws!OneOfSix, Draws!Dated

LEMMA DrawsEnds ==
  ASSUME Draws!IInv, Draws!Trap \/ Draws!AllSaid \/ Draws!NoRandom \/ Draws!TheRest
  PROVE  Draws!IInv'
<1>1. UNCHANGED <<game, dict, acrostic, words, at, i, j, drawn>> /\ outcome' \in {"trap", "success", "failure"}
  BY DEF Draws!Trap, Draws!AllSaid, Draws!NoRandom, Draws!TheRest, Draws!given
<1>2. Draws!TypeOK /\ Draws!Loaded /\ Draws!Whole
  BY DEF Draws!IInv
<1>3. Draws!n' = Draws!n
  BY <1>1 DEF Draws!n
<1>4. Draws!TypeOK' /\ Draws!Loaded'
  BY <1>1, <1>2, <1>3, DrawsLoadedKept DEF Draws!TypeOK
<1>5. Draws!OneOfSix'
  <2>1. game = "d6" => FALSE
    BY DEF Draws!Trap, Draws!AllSaid, Draws!NoRandom, Draws!TheRest, Draws!Drawing
  <2> QED
    BY <1>1, <2>1 DEF Draws!OneOfSix
<1>6. Draws!Whole'
  <2>1. CASE Draws!NoRandom \/ Draws!TheRest
    BY <1>1, <1>2, <2>1, DrawsWholeKept DEF Draws!NoRandom, Draws!TheRest
  <2>2. CASE Draws!AllSaid
    <3>1. i = Phrases /\ outcome' = "success"
      BY <2>2 DEF Draws!AllSaid
    <3> QED
      BY <1>1, <1>2, <1>3, <3>1 DEF Draws!Whole
  <2>3. CASE Draws!Trap
    <3>1. game = "xkcdpass" /\ at = Len(dict) /\ Len(words) = 1 /\ outcome' = "trap"
      BY <2>3 DEF Draws!Trap, Draws!Drawing
    <3>2. Len(dict) = 0
      BY <1>2, <3>1 DEF Draws!Loaded
    <3>3. dict = <<>>
      <4>1. dict \in Seq(STRING)
        BY <1>2, DrawsTypes
      <4> QED
        BY <3>2, <4>1, EmptySeq
    <3> QED
      BY <1>1, <1>2, <1>3, <3>1, <3>3 DEF Draws!Whole
  <2> QED
    BY <2>1, <2>2, <2>3
<1>7. Draws!Dated'
  <2>1. Draws!Dated
    BY DEF Draws!IInv
  <2>2. ts' = ts /\ (game = "uuidgen" => outcome' = "failure" \/ at = BYTES)
    BY DEF Draws!Trap, Draws!AllSaid, Draws!NoRandom, Draws!TheRest, Draws!Drawing, Draws!given
  <2> QED
    BY <1>1, <2>1, <2>2, DrawsDatedKept
<1> QED
  BY <1>4, <1>5, <1>6, <1>7 DEF Draws!IInv

LEMMA DrawsThrow == ASSUME Draws!IInv, NEW roll \in 0..7, Draws!Throw(roll) PROVE Draws!IInv'
<1>1. /\ game = "d6" /\ roll < 6 /\ drawn' = <<roll + 1>> /\ outcome' = "success"
      /\ UNCHANGED <<game, dict, acrostic, words, at, i, j>>
  BY DEF Draws!Throw, Draws!given
<1>2. Draws!TypeOK /\ Draws!Loaded /\ Draws!Whole
  BY DEF Draws!IInv
<1>3. Draws!n' = Draws!n
  BY <1>1 DEF Draws!n
<1>4. Draws!TypeOK' /\ Draws!Loaded' /\ Draws!Whole'
  BY <1>1, <1>2, <1>3, DrawsLoadedKept, DrawsWholeKept DEF Draws!TypeOK
<1>5. roll + 1 \in 1..6
  BY <1>1
<1> QED
  BY <1>1, <1>4, <1>5 DEF Draws!IInv, Draws!OneOfSix, Draws!Dated

\* The digits of one more byte of the time.
LEMMA DrawsDatedOn == ASSUME Draws!IInv, Draws!TimeByte PROVE Draws!Dated'
<1> DEFINE b == Draws!Byte(at)
           hi == b \div DIGIT
           lo == b % DIGIT
           early == Draws!Power(Draws!BASE, BYTES - at - 1)
           q == Draws!Power(Draws!BASE, at)
           B == Draws!BASE
           u == ts \div early
           v == Draws!Value(DIGIT, drawn)
<1>1. /\ game = "uuidgen" /\ outcome = "none" /\ at < BYTES /\ at' = at + 1
      /\ drawn' = drawn \o <<hi, lo>> /\ UNCHANGED <<game, outcome, ts>>
  BY DEF Draws!TimeByte, Draws!given, Draws!Digits
<1>2. /\ ts \in Nat /\ at \in Nat /\ drawn \in Seq(Nat) /\ Len(drawn) = 2 * at
      /\ v = (ts \div Draws!Power(B, BYTES - at)) % q
  BY <1>1, DrawsTypes, DrawsSizes DEF Draws!IInv, Draws!Dated
<1>3. /\ BYTES - at - 1 \in Nat /\ BYTES - at = (BYTES - at - 1) + 1 /\ BYTES - 1 - at = BYTES - at - 1
      /\ BYTES - (at + 1) = BYTES - at - 1 /\ at + 1 <= BYTES
  BY <1>1, <1>2, DrawsSizes
<1>4. early \in Nat \ {0} /\ q \in Nat \ {0} /\ B \in Nat \ {0} /\ DIGIT \in Nat \ {0} /\ B = DIGIT * DIGIT
  BY <1>2, <1>3, DrawsBase
<1>5. Draws!Power(B, BYTES - at) = early * B /\ Draws!Power(B, at + 1) = q * B
  BY <1>2, <1>3, <1>4, Draws!PowerStep
<1>6. b = u % B
  BY <1>3 DEF Draws!Byte
<1> HIDE DEF early, q, B
<1>7. u \in Nat
  BY <1>2, <1>4, Divided
<1> HIDE DEF u
<1>8. v = (u \div B) % q
  <2>1. ts \in Nat /\ early \in Nat \ {0} /\ B \in Nat \ {0}
    BY <1>2, <1>4
  <2>2. (ts \div early) \div B = ts \div (early * B)
    BY ONLY <2>1, DividedTwice, ZenonT(60)
  <2> QED
    BY <1>2, <1>5, <2>2 DEF u
<1>9. u % (q * B) = B * v + b
  <2>1. u % (B * q) = B * ((u \div B) % q) + (u % B)
    BY <1>4, <1>7, DividedTwice
  <2>2. B * q = q * B
    BY <1>4
  <2> QED
    BY <1>6, <1>8, <2>1, <2>2
<1>10. b \in Nat
  BY <1>4, <1>6, <1>7, Divided
<1> HIDE DEF b
<1>11. hi \in Nat /\ lo \in Nat /\ b = DIGIT * hi + lo
  BY <1>4, <1>10, Divided
<1> HIDE DEF hi, lo, v
<1> DEFINE s == Append(drawn, hi)
<1>12. v \in Nat /\ Draws!Value(DIGIT, s) = v * DIGIT + hi /\ s \in Seq(Nat)
  <2>1. s \in Seq(Nat)
    BY <1>2, <1>11
  <2>2. Draws!Value(DIGIT, drawn) \in Nat /\ Draws!Value(DIGIT, s) = Draws!Value(DIGIT, drawn) * DIGIT + hi
    <3>1. DIGIT \in Nat
      BY <1>4
    <3> QED
      BY <1>2, <1>11, <3>1, Draws!ValueAppend
  <2> QED
    BY <2>1, <2>2 DEF v
<1>13. drawn' = Append(s, lo)
  BY <1>1, <1>2, <1>11
<1>14. Len(drawn') = 2 * (at + 1) /\ drawn' \in Seq(Nat)
  <2>1. Len(s) = Len(drawn) + 1 /\ s \in Seq(Nat)
    BY <1>2, <1>11
  <2> HIDE DEF s
  <2>2. Len(drawn') = Len(s) + 1 /\ drawn' \in Seq(Nat)
    BY <1>11, <1>13, <2>1
  <2> QED
    BY <1>2, <2>1, <2>2
<1> HIDE DEF s
<1>15. Draws!Value(DIGIT, drawn') = (v * DIGIT + hi) * DIGIT + lo
  <2>1. DIGIT \in Nat /\ s \in Seq(Nat) /\ lo \in Nat
    BY <1>4, <1>11, <1>12
  <2>2. Draws!Value(DIGIT, Append(s, lo)) = Draws!Value(DIGIT, s) * DIGIT + lo
    BY <2>1, Draws!ValueAppend
  <2> QED
    BY <1>12, <1>13, <2>2
<1>16. (v * DIGIT + hi) * DIGIT + lo = B * v + b
  <2>1. (v * DIGIT + hi) * DIGIT = (DIGIT * DIGIT) * v + DIGIT * hi
    BY <1>4, <1>11, <1>12
  <2>2. (DIGIT * DIGIT) * v \in Nat /\ DIGIT * hi \in Nat
    BY <1>4, <1>11, <1>12
  <2> QED
    BY <1>4, <1>11, <2>1, <2>2
<1>17. Draws!Value(DIGIT, drawn') = u % (q * B)
  BY <1>9, <1>15, <1>16
<1>18. ts' \div Draws!Power(B, BYTES - at') = u
  <2>1. ts' = ts /\ BYTES - at' = BYTES - at - 1
    BY <1>1, <1>3
  <2>2. Draws!Power(B, BYTES - at') = early
    BY <2>1, Zenon DEF early, B
  <2> QED
    BY <2>1, <2>2, Zenon DEF u
<1>19. Draws!Power(B, at') = q * B
  BY <1>1, <1>5
<1> QED
  BY <1>1, <1>2, <1>3, <1>14, <1>17, <1>18, <1>19 DEF Draws!Dated, B, Draws!BASE

LEMMA DrawsTimeByte == Draws!IInv /\ Draws!TimeByte => Draws!IInv'
<1> SUFFICES ASSUME Draws!IInv, Draws!TimeByte PROVE Draws!IInv'
  OBVIOUS
<1>1. /\ game = "uuidgen" /\ at < BYTES /\ at' = at + 1
      /\ UNCHANGED <<game, dict, acrostic, words, i, j, outcome>>
  BY DEF Draws!TimeByte, Draws!given
<1>2. Draws!TypeOK /\ Draws!Loaded /\ Draws!Whole
  BY DEF Draws!IInv
<1>3. Draws!n' = Draws!n
  BY <1>1 DEF Draws!n
<1>4. at + 1 \in 0..(Len(dict) + BYTES)
  BY <1>1, <1>2, DrawsTypes, DrawsSizes
<1>5. Draws!Dated'
  BY DrawsDatedOn
<1> QED
  BY <1>1, <1>2, <1>3, <1>4, <1>5, DrawsLoadedKept, DrawsWholeKept DEF Draws!TypeOK, Draws!IInv, Draws!OneOfSix

LEMMA DrawsUnchanged == Draws!IInv /\ UNCHANGED Draws!vars => Draws!IInv'
<1> SUFFICES ASSUME Draws!IInv, UNCHANGED Draws!vars PROVE Draws!IInv'
  OBVIOUS
<1>1. UNCHANGED <<game, dict, acrostic, words, at, i, j, drawn, ts, outcome>>
  BY DEF Draws!vars
<1>2. Draws!TypeOK /\ Draws!Loaded /\ Draws!Whole /\ Draws!OneOfSix /\ Draws!Dated
  BY DEF Draws!IInv
<1>3. Draws!n' = Draws!n
  BY <1>1 DEF Draws!n
<1> QED
  BY <1>1, <1>2, <1>3, DrawsLoadedKept, DrawsWholeKept, DrawsDatedKept DEF Draws!TypeOK, Draws!IInv, Draws!OneOfSix

LEMMA DrawsNext == Draws!IInv /\ Draws!Next => Draws!IInv'
<1> SUFFICES ASSUME Draws!IInv, Draws!Next PROVE Draws!IInv'
  OBVIOUS
<1>1. CASE Draws!TakeAny
  BY <1>1, DrawsTake DEF Draws!TakeAny
<1>2. CASE Draws!ThrowAny
  BY <1>2, DrawsThrow DEF Draws!ThrowAny
<1>3. CASE (\E r \in 0..Len(dict) : Draws!Reject(r)) \/ (\E roll \in 0..7 : Draws!ThrowAgain(roll)) \/ Draws!Done
  <2>1. UNCHANGED Draws!vars
    BY <1>3 DEF Draws!Reject, Draws!ThrowAgain, Draws!Done
  <2> QED
    BY <2>1, DrawsUnchanged
<1> QED
  BY <1>1, <1>2, <1>3, DrawsLoad, DrawsNextPhrase, DrawsEnds, DrawsTimeByte
     DEF Draws!Next, Draws!Program, Draws!Draws

LEMMA DrawsInOrder == Draws!IInv => Draws!InOrderOfTime
<1> SUFFICES ASSUME Draws!IInv, game = "uuidgen", outcome = "success" PROVE Draws!InOrderOfTime
  BY DEF Draws!InOrderOfTime
<1>1. /\ ts \in Nat /\ at = BYTES /\ Len(drawn) = 2 * at
      /\ Draws!Value(DIGIT, drawn) = (ts \div Draws!Power(Draws!BASE, BYTES - at)) % Draws!Power(Draws!BASE, at)
  BY DEF Draws!IInv, Draws!Dated
<1>2. Draws!Power(Draws!BASE, BYTES - at) = 1
  <2>1. BYTES - at = 0
    BY <1>1, DrawsSizes
  <2> QED
    BY <2>1, DrawsBase, Draws!PowerZero
<1>3. ts \div 1 = ts
  BY <1>1
<1> QED
  BY <1>1, <1>2, <1>3 DEF Draws!InOrderOfTime

LEMMA DrawsAsAsked == Draws!IInv => Draws!PhrasesOfWords /\ Draws!OneOfSix
<1> SUFFICES ASSUME Draws!IInv, game = "xkcdpass" PROVE Draws!PhrasesOfWords
  BY DEF Draws!IInv, Draws!PhrasesOfWords
<1>1. /\ drawn \in Seq(Seq(Seq(STRING)))
      /\ Len(drawn) = IF i < Phrases THEN i + 1 ELSE Phrases
      /\ \A k \in 1..Len(drawn) : Len(drawn[k]) = IF k = i + 1 THEN j ELSE Draws!n
      /\ \A k \in 1..Len(drawn) : \A m \in 1..Len(drawn[k]) : Draws!WordFor(dict, acrostic, m, drawn[k][m])
      /\ outcome = "success" => i = Phrases
      /\ outcome = "trap" => dict = <<>>
  BY DEF Draws!IInv, Draws!Whole
<1>2. DOMAIN drawn = 1..Len(drawn) /\ \A k \in 1..Len(drawn) : DOMAIN drawn[k] = 1..Len(drawn[k])
  <2>1. \A k \in 1..Len(drawn) : drawn[k] \in Seq(Seq(STRING))
    BY <1>1, ElementOfSeq
  <2> QED
    BY <1>1, <2>1, LenProperties
<1>3. ASSUME i = Phrases PROVE Len(drawn) = Phrases /\ \A k \in 1..Len(drawn) : Len(drawn[k]) = Draws!n
  <2>1. Phrases \in Nat /\ ~(i < Phrases) /\ \A k \in 1..Phrases : k # i + 1
    BY <1>3, DrawsSizes
  <2> QED
    BY <1>1, <2>1
<1> QED
  BY <1>1, <1>2, <1>3 DEF Draws!PhrasesOfWords

-----------------------------------------------------------------------------
(* moo *)

LEMMA MooCardinality == ASSUME NEW S PROVE Moo!Cardinality(S) = Cardinality(S)
BY DEF Moo!Cardinality, Cardinality

\* Bulls and cows are counted at different places.
LEMMA MooCounts ==
  ASSUME NEW g
  PROVE  /\ Moo!Bulls(g) \in Nat /\ Moo!Cows(g) \in Nat /\ Moo!Bulls(g) + Moo!Cows(g) <= SECRET
         /\ Moo!Bulls(g) = SECRET => \A k \in Moo!Places : g[k] = farm[k]
<1> DEFINE B == {k \in Moo!Places : g[k] = farm[k]}
           C == {k \in Moo!Places : g[k] # farm[k] /\ \E m \in Moo!Places : g[k] = farm[m]}
<1>1. IsFiniteSet(Moo!Places) /\ Cardinality(Moo!Places) = SECRET
  BY FS_Interval, MooAssumed DEF Moo!MooAssumption, Moo!Places
<1>2. IsFiniteSet(B) /\ Cardinality(B) \in Nat /\ (Cardinality(B) = SECRET => B = Moo!Places)
  BY <1>1, FS_Subset, FS_CardinalityType
<1>3. IsFiniteSet(C) /\ Cardinality(C) \in Nat
  BY <1>1, FS_Subset, FS_CardinalityType
<1>4. B \cap C = {} /\ B \cup C \subseteq Moo!Places
  OBVIOUS
<1>5. Cardinality(B \cup C) = Cardinality(B) + Cardinality(C) - Cardinality(B \cap C)
  BY <1>2, <1>3, FS_Union
<1>6. Cardinality(B \cap C) = 0
  BY <1>4, FS_EmptySet
<1>7. Cardinality(B \cup C) <= SECRET
  BY <1>1, <1>4, FS_Subset
<1>8. Cardinality(B) + Cardinality(C) <= SECRET
  BY <1>2, <1>3, <1>5, <1>6, <1>7
<1>9. B = Moo!Places => \A k \in Moo!Places : g[k] = farm[k]
  OBVIOUS
<1>10. QED
  <2>1. Moo!Bulls(g) = Cardinality(B) /\ Moo!Cows(g) = Cardinality(C)
    BY MooCardinality DEF Moo!Bulls, Moo!Cows
  <2> HIDE DEF B, C
  <2> QED
    BY <1>2, <1>3, <1>8, <1>9, <2>1

LEMMA MooInit == Moo!Init => Moo!IInv
<1> SUFFICES ASSUME Moo!Init PROVE Moo!IInv
  OBVIOUS
<1> USE MooAssumed DEF Moo!MooAssumption
<1>1. Moo!TypeOK
  <2>1. 0 \in Moo!Digits /\ MooN - 1 \in Moo!Digits /\ SECRET \in Nat
    BY DEF Moo!Digits
  <2>2. 0 + 0 <= SECRET /\ -1 \in -1..SECRET
    BY <2>1
  <2>3. farm \in [Moo!Digits -> Moo!Digits] /\ line \in [Moo!Places -> Moo!Digits \cup {Moo!NEWLINE, Moo!NUL}]
    BY DEF Moo!Init
  <2> QED
    BY <2>1, <2>2, <2>3 DEF Moo!Init, Moo!TypeOK
<1>2. Moo!FarmPermuted
  BY DEF Moo!Init, Moo!FarmPermuted, Moo!Digits
<1>3. Moo!ZeroAhead
  BY DEF Moo!Init, Moo!ZeroAhead, Moo!Digits
<1>4. Moo!WonBySecret
  BY DEF Moo!Init, Moo!WonBySecret
<1> QED
  BY <1>1, <1>2, <1>3, <1>4 DEF Moo!IInv

\* A turn of the loop: a swap of two digits that keeps the zero in front of
\* or behind the place the loop has reached.
LEMMA MooShuffle ==
  ASSUME Moo!IInv, Moo!Shuffle
  PROVE  Moo!IInv'
<1> USE MooAssumed DEF Moo!MooAssumption
<1>1. PICK r \in Moo!Unshuffled : /\ pc = "shuffle" /\ i >= 1
                              /\ IF r = 0 /\ farm[i] = 0 THEN UNCHANGED <<farm, i>>
                                 ELSE farm' = Moo!Swap(r) /\ i' = i - 1
                              /\ UNCHANGED <<pc, line, typed, feof, bulls, cows>>
  BY DEF Moo!Shuffle
<1>2. r \in Moo!Digits /\ i \in Moo!Digits /\ r \in Int /\ i \in Int /\ 0 \in Moo!Digits /\ farm \in [Moo!Digits -> Moo!Digits]
  <2>1. i \in Moo!Digits /\ farm \in [Moo!Digits -> Moo!Digits]
    BY DEF Moo!IInv, Moo!TypeOK
  <2>2. i \in 0..MooN - 1 /\ r \in 0..i
    BY <2>1 DEF Moo!Digits, Moo!Unshuffled
  <2> QED
    BY <2>1, <2>2 DEF Moo!Digits
<1>3. CASE r = 0 /\ farm[i] = 0
  <2>1. farm' = farm /\ i' = i
    BY <1>1, <1>3
  <2>2. UNCHANGED <<pc, line, typed, feof, bulls, cows>>
    BY DEF Moo!Shuffle
  <2> QED
    BY <2>1, <2>2 DEF Moo!IInv, Moo!TypeOK, Moo!FarmPermuted, Moo!ZeroAhead, Moo!WonBySecret
<1>4. CASE ~(r = 0 /\ farm[i] = 0)
  <2>1. /\ farm' = Moo!Swap(r) /\ i' = i - 1
        /\ UNCHANGED <<pc, line, typed, feof, bulls, cows>>
    BY <1>1, <1>4
  <2>2. \A k \in Moo!Digits : farm'[k] = IF k = r THEN farm[i] ELSE IF k = i THEN farm[r] ELSE farm[k]
    BY <2>1, <1>2 DEF Moo!Swap
  <2>3. farm' \in [Moo!Digits -> Moo!Digits]
    BY <2>1, <1>2 DEF Moo!Swap
  <2>4. Moo!TypeOK'
    <3>1. i' \in Moo!Digits
      BY <2>1, <1>1, <1>2 DEF Moo!Digits
    <3> QED
      BY <2>1, <2>3, <3>1, <1>1 DEF Moo!IInv, Moo!TypeOK
  <2>5. Moo!FarmPermuted'
    BY <2>2, <1>2 DEF Moo!IInv, Moo!FarmPermuted
  <2>6. Moo!ZeroAhead'
    <3>1. CASE \E k \in i + 1..MooN - 1 : farm[k] = 0
      <4>1. PICK k \in i + 1..MooN - 1 : farm[k] = 0
        BY <3>1
      <4>2. k \in Moo!Digits /\ k # r /\ k # i /\ k \in i..MooN - 1
        <5>1. r \in 0..i /\ i \in 0..MooN - 1 /\ i >= 1
          BY <1>1, <1>2 DEF Moo!Unshuffled, Moo!Digits
        <5> QED
          BY <5>1 DEF Moo!Digits
      <4> QED
        BY <4>1, <4>2, <2>1, <2>2, <1>2 DEF Moo!ZeroAhead
    <3>2. CASE farm[0] = 0
      <4>1. CASE r = 0
        <5>1. farm'[i] = 0 /\ i \in i'+ 1..MooN - 1
          BY <4>1, <3>2, <2>1, <2>2, <1>1, <1>2 DEF Moo!Digits
        <5> QED
          BY <5>1 DEF Moo!ZeroAhead
      <4>2. CASE r # 0
        BY <4>2, <3>2, <2>2, <1>1, <1>2 DEF Moo!ZeroAhead
      <4> QED
        BY <4>1, <4>2
    <3> QED
      BY <3>1, <3>2, <1>1 DEF Moo!IInv, Moo!ZeroAhead
  <2>7. Moo!WonBySecret'
    BY <2>1, <1>1 DEF Moo!WonBySecret
  <2> QED
    BY <2>4, <2>5, <2>6, <2>7 DEF Moo!IInv
<1> QED
  BY <1>3, <1>4

\* An answer leaves the farm alone and ends the game by the secret or the
\* end of the input only.
LEMMA MooAnswer ==
  ASSUME Moo!IInv, pc = "guess", Moo!Answer,
         line' \in [Moo!Places -> Moo!Digits \cup {Moo!NEWLINE, Moo!NUL}], typed' \in -1..SECRET, feof' \in BOOLEAN,
         feof' \/ typed' = SECRET \/ \E k \in Moo!Places : line'[k] \notin Moo!Digits
  PROVE  Moo!IInv'
<1> USE MooAssumed DEF Moo!MooAssumption
<1>1. Moo!Bulls(line') \in Nat /\ Moo!Cows(line') \in Nat /\ Moo!Bulls(line') + Moo!Cows(line') <= SECRET
  BY MooCounts
<1>2. Moo!TypeOK'
  BY <1>1 DEF Moo!IInv, Moo!TypeOK, Moo!Answer
<1>3. Moo!FarmPermuted'
  BY DEF Moo!IInv, Moo!FarmPermuted, Moo!Answer
<1>4. pc' # "shuffle"
  BY DEF Moo!Answer
<1>5. ASSUME pc' = "done", ~feof'
      PROVE  typed' = SECRET /\ \A k \in Moo!Places : line'[k] = farm'[k]
  <2>1. Moo!Bulls(line') = SECRET
    BY <1>5 DEF Moo!Answer
  <2>2. \A k \in Moo!Places : line'[k] = farm[k]
    BY <2>1, MooCounts
  <2>3. \A k \in Moo!Places : line'[k] \in Moo!Digits
    <3>1. Moo!Places \subseteq Moo!Digits /\ farm \in [Moo!Digits -> Moo!Digits]
      BY DEF Moo!IInv, Moo!TypeOK, Moo!Places, Moo!Digits
    <3> QED
      BY <2>2, <3>1
  <2> QED
    BY <2>2, <2>3, <1>5 DEF Moo!Answer
<1> QED
  BY <1>2, <1>3, <1>4, <1>5 DEF Moo!IInv, Moo!ZeroAhead, Moo!WonBySecret

LEMMA MooGuess ==
  ASSUME Moo!IInv, Moo!Guess
  PROVE  Moo!IInv'
<1> USE MooAssumed DEF Moo!MooAssumption
<1>1. PICK g \in [Moo!Places -> Moo!Digits], len \in 0..SECRET, newline \in BOOLEAN :
        /\ pc = "guess" /\ (newline \/ len > 0)
        /\ line' = Moo!Typed(g, len, newline) /\ typed' = len
        /\ feof' = ~newline
        /\ Moo!Answer
  BY DEF Moo!Guess
<1>2. line' \in [Moo!Places -> Moo!Digits \cup {Moo!NEWLINE, Moo!NUL}]
  BY <1>1 DEF Moo!Typed, Moo!IInv, Moo!TypeOK
<1>3. ASSUME ~feof', typed' # SECRET
      PROVE  \E k \in Moo!Places : line'[k] \notin Moo!Digits
  <2>1. len \in Moo!Places /\ newline
    <3>1. len \in 0..SECRET /\ len # SECRET /\ SECRET \in Nat
      BY <1>1, <1>3
    <3>2. newline
      BY <1>1, <1>3, Zenon
    <3>3. len \in Moo!Places
      BY <3>1 DEF Moo!Places
    <3> QED
      BY <3>2, <3>3
  <2>2. line'[len] = Moo!NEWLINE
    BY <2>1, <1>1 DEF Moo!Typed, Moo!Places
  <2> QED
    BY <2>1, <2>2 DEF Moo!NEWLINE, Moo!Digits
<1> QED
  BY <1>1, <1>2, <1>3, MooAnswer

LEMMA MooUnchanged == Moo!IInv /\ UNCHANGED Moo!vars => Moo!IInv'
BY DEF Moo!IInv, Moo!TypeOK, Moo!FarmPermuted, Moo!ZeroAhead, Moo!WonBySecret, Moo!vars

LEMMA MooNext == Moo!IInv /\ Moo!Next => Moo!IInv'
<1> SUFFICES ASSUME Moo!IInv, Moo!Next PROVE Moo!IInv'
  OBVIOUS
<1>1. CASE Moo!Shuffle
  BY <1>1, MooShuffle
<1>2. CASE Moo!Shuffled
  BY <1>2 DEF Moo!IInv, Moo!TypeOK, Moo!FarmPermuted, Moo!ZeroAhead, Moo!WonBySecret, Moo!Shuffled
<1>3. CASE Moo!Guess
  BY <1>3, MooGuess
<1>4. CASE Moo!EndOfInput
  <2>1. pc = "guess" /\ feof' = TRUE /\ line' = line /\ typed' = typed /\ Moo!Answer
    BY <1>4 DEF Moo!EndOfInput
  <2> QED
    BY <2>1, MooAnswer DEF Moo!IInv, Moo!TypeOK
<1>5. CASE Moo!Done
  BY <1>5, MooUnchanged DEF Moo!Done
<1> QED
  BY <1>1, <1>2, <1>3, <1>4, <1>5 DEF Moo!Next

\* The test of moo.c:80 for a leading zero is dead code.
LEMMA MooZeroMoved == Moo!IInv => Moo!NeverRetried
<1> SUFFICES ASSUME Moo!IInv, pc = "shuffle", i >= 1, farm[i] = 0 PROVE FALSE
  BY DEF Moo!NeverRetried
<1>1. i \in Moo!Digits /\ 0 \in Moo!Digits /\ i # 0
  BY MooAssumed DEF Moo!MooAssumption, Moo!IInv, Moo!TypeOK, Moo!Digits
<1>2. farm[0] # 0
  BY <1>1 DEF Moo!IInv, Moo!FarmPermuted
<1>3. PICK k \in i + 1..MooN - 1 : farm[k] = 0
  BY <1>2 DEF Moo!IInv, Moo!ZeroAhead
<1>4. k \in Moo!Digits /\ k # i
  BY <1>1, MooAssumed DEF Moo!MooAssumption, Moo!Digits
<1> QED
  BY <1>1, <1>3, <1>4 DEF Moo!IInv, Moo!FarmPermuted

-----------------------------------------------------------------------------
(* snek *)

LEMMA SnekGeometry ==
  /\ Snek!Inside \subseteq Snek!Cells /\ Snek!Corner \in Snek!Cells /\ Snek!Corner \notin Snek!Inside
  /\ IsFiniteSet(Snek!Inside) /\ Cardinality(Snek!Inside) = (ROWS - 2) * (COLS - 2)
<1> USE SnekAssumed DEF Snek!ScreenAssumption
<1>1. Snek!Inside \subseteq Snek!Cells /\ Snek!Corner \in Snek!Cells /\ Snek!Corner \notin Snek!Inside
  BY DEF Snek!Inside, Snek!Cells, Snek!Corner
<1>2. IsFiniteSet(1..ROWS - 2) /\ Cardinality(1..ROWS - 2) = ROWS - 2
  BY FS_Interval
<1>3. IsFiniteSet(1..COLS - 2) /\ Cardinality(1..COLS - 2) = COLS - 2
  BY FS_Interval
<1>4. IsFiniteSet(Snek!Inside) /\ Cardinality(Snek!Inside) = Cardinality(1..ROWS - 2) * Cardinality(1..COLS - 2)
  BY <1>2, <1>3, FS_Product DEF Snek!Inside
<1> QED
  BY <1>1, <1>2, <1>3, <1>4

\* A step from a cell inside leads to one next to it on the screen.
LEMMA SnekMovedNextTo ==
  ASSUME NEW c \in Snek!Inside, direction \in 0..3
  PROVE  Snek!Moved(c) \in Snek!Cells /\ Snek!NextTo(Snek!Moved(c), c)
<1>1. PICK y \in 1..ROWS - 2, x_ \in 1..COLS - 2 : c = <<y, x_>>
  BY DEF Snek!Inside
<1>2. CASE direction = 0
  BY <1>1, <1>2, SnekAssumed DEF Snek!ScreenAssumption, Snek!Moved, Snek!Cells, Snek!NextTo
<1>3. CASE direction = 1
  BY <1>1, <1>3, SnekAssumed DEF Snek!ScreenAssumption, Snek!Moved, Snek!Cells, Snek!NextTo
<1>4. CASE direction = 2
  BY <1>1, <1>4, SnekAssumed DEF Snek!ScreenAssumption, Snek!Moved, Snek!Cells, Snek!NextTo
<1>5. CASE direction = 3
  BY <1>1, <1>5, SnekAssumed DEF Snek!ScreenAssumption, Snek!Moved, Snek!Cells, Snek!NextTo
<1> QED
  BY <1>2, <1>3, <1>4, <1>5

\* The shift puts every segment in the place of the one before it.
LEMMA SnekShiftedSegments ==
  ASSUME Snek!TypeOK, Snek!Connected, ~gameover
  PROVE  /\ Snek!Shifted \in Seq(Snek!Cells) /\ Len(Snek!Shifted) = length + 1
         /\ Snek!Shifted[1] = Snek!Moved(sk[1])
         /\ \A k \in 2..length + 1 : Snek!Shifted[k] = sk[k - 1]
<1> DEFINE tail == SubSeq(sk, 1, length)
<1>1. length \in Nat \ {0} /\ sk \in Seq(Snek!Cells) /\ Len(sk) = length + 1 /\ direction \in 0..3
  BY DEF Snek!TypeOK
<1>2. \A k \in 1..length : sk[k] \in Snek!Cells
  BY <1>1, ElementOfSeq
<1>3. tail \in Seq(Snek!Cells) /\ Len(tail) = length /\ \A k \in 1..length : tail[k] = sk[k]
  BY <1>1, <1>2, SubSeqProperties
<1>4. Snek!Moved(sk[1]) \in Snek!Cells
  BY <1>1, SnekMovedNextTo DEF Snek!Connected
<1>5. <<Snek!Moved(sk[1])>> \in Seq(Snek!Cells) /\ Len(<<Snek!Moved(sk[1])>>) = 1 /\ <<Snek!Moved(sk[1])>>[1] = Snek!Moved(sk[1])
  BY <1>4
<1> HIDE DEF tail
<1>6. /\ <<Snek!Moved(sk[1])>> \o tail \in Seq(Snek!Cells)
      /\ Len(<<Snek!Moved(sk[1])>> \o tail) = 1 + length
      /\ \A k \in 1..1 + length : (<<Snek!Moved(sk[1])>> \o tail)[k] =
           IF k <= 1 THEN <<Snek!Moved(sk[1])>>[k] ELSE tail[k - 1]
  BY <1>3, <1>5, ConcatProperties
<1>7. Snek!Shifted = <<Snek!Moved(sk[1])>> \o tail
  BY DEF Snek!Shifted, tail
<1> QED
  BY <1>1, <1>3, <1>5, <1>6, <1>7

\* Different cells inside the walls are at most as many as there are.
LEMMA SnekPigeonhole ==
  ASSUME NEW n_ \in Nat, NEW s, \A k \in 1..n_ : s[k] \in Snek!Inside,
         \A j_, k \in 1..n_ : s[j_] = s[k] => j_ = k
  PROVE  n_ <= (ROWS - 2) * (COLS - 2)
<1> DEFINE f == [k \in 1..n_ |-> s[k]]
<1>1. f \in Injection(1..n_, Snek!Inside)
  BY DEF Injection, IsInjective
<1>2. Cardinality(1..n_) <= Cardinality(Snek!Inside)
  BY <1>1, SnekGeometry, FS_Injection
<1>3. Cardinality(1..n_) = n_
  BY FS_Interval
<1> QED
  BY <1>2, <1>3, SnekGeometry

SnekSafe == Snek!TypeOK /\ Snek!Connected /\ Snek!SelfAvoiding /\ Snek!NeverTooLong

LEMMA SnekInitInv == Snek!Init => SnekSafe
<1> SUFFICES ASSUME Snek!Init PROVE SnekSafe
  OBVIOUS
<1> USE SnekAssumed DEF Snek!ScreenAssumption
<1> DEFINE middle == <<ROWS \div 2, COLS \div 2>>
<1>1. middle \in Snek!Inside
  BY DEF Snek!Inside
<1>2. sk = <<middle, Snek!Corner>> /\ length = 1 /\ direction = 2 /\ apple \in Snek!Inside /\ gameover = FALSE
  BY DEF Snek!Init
<1> HIDE DEF middle
<1>3. sk \in Seq(Snek!Cells) /\ Len(sk) = length + 1 /\ sk[1] \in Snek!Inside
  BY <1>1, <1>2, SnekGeometry
<1>4. screen \in [Snek!Cells -> {"#", " ", "+", "@"}]
  BY DEF Snek!Init
<1>5. Snek!TypeOK
  <2>1. length \in Nat \ {0} /\ direction \in 0..3
    BY <1>2
  <2>2. gameover \in BOOLEAN
    BY <1>2, Zenon
  <2> QED
    BY <1>2, <1>3, <1>4, <2>1, <2>2 DEF Snek!TypeOK
<1>6. Snek!Connected /\ Snek!SelfAvoiding
  BY <1>3, <1>2 DEF Snek!Connected, Snek!SelfAvoiding
<1>7. Snek!NeverTooLong
  <2>1. (ROWS - 2) * (COLS - 2) \in Nat
    BY SnekGeometry, FS_CardinalityType
  <2> QED
    BY <1>2, <2>1 DEF Snek!NeverTooLong
<1> QED
  BY <1>5, <1>6, <1>7 DEF SnekSafe

\* A turn that ends in a wall or in the snake changes nothing but the places
\* of the segments.
LEMMA SnekHitInv ==
  ASSUME SnekSafe, ~gameover, UNCHANGED <<direction, length, apple>>, Snek!GameOver, sk' = Snek!Shifted
  PROVE  SnekSafe'
<1>1. sk' \in Seq(Snek!Cells) /\ Len(sk') = length + 1
  BY SnekShiftedSegments DEF SnekSafe
<1>2. screen' \in [Snek!Cells -> {"#", " ", "+", "@"}] /\ gameover' = TRUE
  BY DEF Snek!GameOver
<1>3. Snek!TypeOK'
  BY <1>1, <1>2 DEF SnekSafe, Snek!TypeOK
<1> QED
  BY <1>2, <1>3 DEF SnekSafe, Snek!Connected, Snek!SelfAvoiding, Snek!NeverTooLong

\* A turn that goes on, with an apple or without.
LEMMA SnekMoveInv ==
  ASSUME SnekSafe, ~gameover, ~Snek!Hits(Snek!Shifted), UNCHANGED <<direction, gameover>>, screen' = Snek!Draw(Snek!Shifted),
         \/ apple' \in Snek!Inside /\ length' = length + 1 /\ sk' = Append(Snek!Shifted, Snek!Corner)
         \/ sk' = Snek!Shifted /\ UNCHANGED <<length, apple>>
  PROVE  SnekSafe'
<1> DEFINE s == Snek!Shifted
<1>1. /\ s \in Seq(Snek!Cells) /\ Len(s) = length + 1 /\ s[1] = Snek!Moved(sk[1])
      /\ \A k \in 2..length + 1 : s[k] = sk[k - 1]
  BY SnekShiftedSegments DEF SnekSafe
<1>2. s[1] \in Snek!Inside /\ \A k \in 2..length : s[1] # s[k]
  BY DEF Snek!Hits
<1> HIDE DEF s
<1>3. length \in Nat \ {0} /\ direction \in 0..3 /\ apple \in Snek!Inside
  BY DEF SnekSafe, Snek!TypeOK
<1>4. \A k \in 1..length : sk[k] \in Snek!Inside
  BY DEF SnekSafe, Snek!Connected
<1>5. \A k \in 1..length + 1 : s[k] \in Snek!Inside
  BY <1>1, <1>2, <1>3, <1>4
<1>6. \A k \in 1..length : Snek!NextTo(s[k], s[k + 1])
  <2>1. Snek!NextTo(s[1], s[2])
    BY <1>1, <1>3, <1>4, SnekMovedNextTo
  <2>2. ASSUME NEW k \in 2..length PROVE Snek!NextTo(s[k], s[k + 1])
    <3>1. Snek!NextTo(sk[k - 1], sk[(k - 1) + 1])
      BY <1>3 DEF SnekSafe, Snek!Connected
    <3>2. s[k] = sk[k - 1] /\ s[k + 1] = sk[k] /\ (k - 1) + 1 = k
      BY <1>1, <1>3
    <3> QED
      BY <3>1, <3>2
  <2> QED
    BY <2>1, <2>2, <1>3
<1>7. \A j_, k \in 1..length : s[j_] = s[k] => j_ = k
  <2>1. ASSUME NEW j_ \in 2..length, NEW k \in 2..length, s[j_] = s[k] PROVE j_ = k
    <3>1. sk[j_ - 1] = sk[k - 1]
      BY <2>1, <1>1, <1>3
    <3>2. j_ - 1 = k - 1
      BY <3>1, <1>3 DEF SnekSafe, Snek!SelfAvoiding
    <3> QED
      BY <3>2
  <2> QED
    BY <2>1, <1>2, <1>3
<1>8. screen' \in [Snek!Cells -> {"#", " ", "+", "@"}]
  BY DEF SnekSafe, Snek!TypeOK, Snek!Draw, Snek!Wiped
<1>9. length <= (ROWS - 2) * (COLS - 2)
  BY <1>3, <1>5, <1>7, SnekPigeonhole
<1>10. (ROWS - 2) * (COLS - 2) \in Nat
  BY SnekGeometry, FS_CardinalityType
<1>11. CASE apple' \in Snek!Inside /\ length' = length + 1 /\ sk' = Append(s, Snek!Corner)
  <2>1. /\ sk' \in Seq(Snek!Cells) /\ Len(sk') = length' + 1
        /\ \A k \in 1..length' : sk'[k] = s[k]
        /\ sk'[length' + 1] = Snek!Corner
    BY <1>1, <1>11, SnekGeometry, AppendProperties
  <2>2. Snek!TypeOK'
    <3>1. gameover' \in BOOLEAN /\ direction' \in 0..3
      BY Zenon DEF SnekSafe, Snek!TypeOK
    <3>2. length' \in Nat \ {0} /\ apple' \in Snek!Inside
      BY <1>3, <1>11
    <3> QED
      BY <1>8, <2>1, <3>1, <3>2 DEF Snek!TypeOK
  <2>3. Snek!Connected'
    <3>1. \A k \in 1..length' : sk'[k] \in Snek!Inside
      BY <1>5, <1>11, <2>1
    <3>2. \A k \in 1..length' - 1 : Snek!NextTo(sk'[k], sk'[k + 1])
      BY <1>3, <1>6, <1>11, <2>1
    <3> QED
      BY <3>1, <3>2 DEF Snek!Connected
  <2>4. Snek!SelfAvoiding'
    BY <1>3, <1>7, <1>11, <2>1 DEF Snek!SelfAvoiding, Snek!Grown
  <2>5. Snek!NeverTooLong'
    BY <1>3, <1>9, <1>10, <1>11 DEF Snek!NeverTooLong
  <2> QED
    BY <2>2, <2>3, <2>4, <2>5 DEF SnekSafe
<1>12. CASE sk' = s /\ UNCHANGED <<length, apple>>
  <2>1. Snek!TypeOK'
    BY <1>1, <1>3, <1>8, <1>12 DEF SnekSafe, Snek!TypeOK
  <2>2. Snek!Connected'
    BY <1>3, <1>5, <1>6, <1>12 DEF Snek!Connected
  <2>3. Snek!SelfAvoiding'
    BY <1>3, <1>7, <1>12 DEF Snek!SelfAvoiding
  <2>4. Snek!NeverTooLong'
    BY <1>12 DEF SnekSafe, Snek!NeverTooLong
  <2> QED
    BY <2>1, <2>2, <2>3, <2>4 DEF SnekSafe
<1> QED
  BY <1>11, <1>12 DEF s

LEMMA SnekStepInv == SnekSafe /\ (Snek!Next \/ UNCHANGED Snek!vars) => SnekSafe'
<1> SUFFICES ASSUME SnekSafe, Snek!Next \/ UNCHANGED Snek!vars PROVE SnekSafe'
  OBVIOUS
<1>1. CASE Snek!Key
  BY <1>1 DEF SnekSafe, Snek!TypeOK, Snek!Connected, Snek!SelfAvoiding, Snek!Grown, Snek!NeverTooLong, Snek!Key
<1>2. CASE Snek!Quit
  BY <1>2 DEF SnekSafe, Snek!TypeOK, Snek!Connected, Snek!SelfAvoiding, Snek!NeverTooLong, Snek!Quit, Snek!GameOver
<1>3. CASE Snek!Turn
  <2>1. CASE Snek!Hits(Snek!Shifted)
    BY <1>3, <2>1, SnekHitInv DEF Snek!Turn
  <2>2. CASE ~Snek!Hits(Snek!Shifted)
    <3>1. /\ ~gameover /\ UNCHANGED <<direction, gameover>> /\ screen' = Snek!Draw(Snek!Shifted)
          /\ \/ apple' \in Snek!Inside /\ length' = length + 1 /\ sk' = Append(Snek!Shifted, Snek!Corner)
             \/ sk' = Snek!Shifted /\ UNCHANGED <<length, apple>>
      BY <1>3, <2>2 DEF Snek!Turn
    <3> QED
      BY <2>2, <3>1, SnekMoveInv
  <2> QED
    BY <2>1, <2>2
<1>4. CASE UNCHANGED Snek!vars
  BY <1>4 DEF SnekSafe, Snek!TypeOK, Snek!Connected, Snek!SelfAvoiding, Snek!Grown, Snek!NeverTooLong, Snek!vars
<1> QED
  BY <1>1, <1>2, <1>3, <1>4 DEF Snek!Next, Snek!Done

\* What a turn draws over a screen that shows the snake shows the snake that
\* has moved: the place the tail leaves is wiped, and nothing else is.
LEMMA SnekDrawnScreen ==
  ASSUME SnekSafe, Snek!ScreenShows, ~gameover, ~Snek!Hits(Snek!Shifted), NEW shown, shown = Snek!Draw(Snek!Shifted)
  PROVE  /\ {c \in Snek!Cells : shown[c] = "@"} = {Snek!Shifted[k] : k \in 1..length}
         /\ \A c \in Snek!Cells : shown[c] = "+" => c = apple /\ c # Snek!Shifted[1]
         /\ {c \in Snek!Cells : shown[c] = "#"} = {c \in Snek!Cells : Snek!Wall(c)}
<1> DEFINE s == Snek!Shifted
<1>1. /\ s \in Seq(Snek!Cells) /\ Len(s) = length + 1
      /\ \A k \in 2..length + 1 : s[k] = sk[k - 1]
  BY SnekShiftedSegments DEF SnekSafe
<1>2. s[1] \in Snek!Inside
  BY DEF Snek!Hits
<1> HIDE DEF s
<1>3. length \in Nat \ {0} /\ apple \in Snek!Inside
  BY DEF SnekSafe, Snek!TypeOK
<1>0. DOMAIN screen = Snek!Cells
  BY DEF SnekSafe, Snek!TypeOK
<1>4. \A k \in 1..length + 1 : s[k] \in Snek!Inside
  <2>1. \A k \in 1..length : sk[k] \in Snek!Inside
    BY DEF SnekSafe, Snek!Connected
  <2> QED
    BY <1>1, <1>2, <1>3, <2>1
<1>5. /\ \A c \in Snek!Cells : screen[c] = "@" => \E k \in 1..length : c = sk[k]
      /\ \A c \in Snek!Cells : screen[c] = "+" => c = apple
      /\ \A c \in Snek!Cells : screen[c] = "#" <=> Snek!Wall(c)
  BY DEF Snek!ScreenShows
<1>6. \A c \in Snek!Cells : shown[c] = IF \E k \in 1..length : c = s[k] THEN "@"
                                  ELSE IF c = apple THEN "+"
                                  ELSE IF c = s[length + 1] THEN " " ELSE screen[c]
  BY <1>0 DEF Snek!Draw, Snek!Wiped, s
<1>7. \A c \in Snek!Cells : shown[c] = "@" => \E k \in 1..length : c = s[k]
  <2> SUFFICES ASSUME NEW c \in Snek!Cells, shown[c] = "@", ~ \E k \in 1..length : c = s[k]
               PROVE  FALSE
    OBVIOUS
  <2>1. screen[c] = "@" /\ c # s[length + 1]
    BY <1>6
  <2>2. PICK k \in 1..length : c = sk[k]
    BY <1>5, <2>1
  <2>3. s[k + 1] = sk[k] /\ k + 1 \in 2..length + 1
    BY <1>1, <1>3
  <2> QED
    BY <1>3, <2>1, <2>2, <2>3
<1>8. ASSUME NEW k \in 1..length PROVE s[k] \in Snek!Cells /\ shown[s[k]] = "@"
  <2>1. s[k] \in Snek!Cells
    BY <1>3, <1>4, SnekGeometry
  <2> QED
    BY <2>1, <1>6
<1>9. ASSUME NEW c \in Snek!Cells, shown[c] = "+" PROVE c = apple /\ c # s[1]
  <2>1. ~ \E k \in 1..length : c = s[k]
    BY <1>6, <1>9
  <2>2. 1 \in 1..length
    BY <1>3
  <2> QED
    BY <2>1, <2>2, <1>5, <1>6, <1>9
<1>10. ASSUME NEW c \in Snek!Cells PROVE shown[c] = "#" <=> Snek!Wall(c)
  <2>1. CASE Snek!Wall(c)
    <3>1. c \notin Snek!Inside /\ screen[c] = "#"
      BY <1>5, <2>1 DEF Snek!Wall
    <3>2. c # apple /\ \A k \in 1..length + 1 : c # s[k]
      BY <1>3, <1>4, <3>1
    <3>3. c # s[length + 1] /\ ~ \E k \in 1..length : c = s[k]
      BY <1>3, <3>2
    <3> QED
      BY <1>6, <2>1, <3>1, <3>2, <3>3
  <2>2. CASE ~Snek!Wall(c)
    BY <1>5, <1>6, <2>2
  <2> QED
    BY <2>1, <2>2
<1> QED
  BY <1>7, <1>8, <1>9, <1>10 DEF s

LEMMA SnekScreenInit == Snek!Init => Snek!ScreenShows
<1> SUFFICES ASSUME Snek!Init PROVE Snek!ScreenShows
  OBVIOUS
<1>1. screen = [c \in Snek!Cells |-> IF Snek!Wall(c) THEN "#" ELSE " "]
  BY DEF Snek!Init
<1>2. length = 1
  BY DEF Snek!Init
<1>3. 1..length - 1 = {}
  BY <1>2
<1> QED
  BY <1>1, <1>3 DEF Snek!ScreenShows

LEMMA SnekScreenStep == SnekSafe /\ Snek!ScreenShows /\ (Snek!Next \/ UNCHANGED Snek!vars) => Snek!ScreenShows'
<1> SUFFICES ASSUME SnekSafe, Snek!ScreenShows, Snek!Next \/ UNCHANGED Snek!vars PROVE Snek!ScreenShows'
  OBVIOUS
<1>1. CASE Snek!Turn /\ ~Snek!Hits(Snek!Shifted)
  <2> DEFINE s == Snek!Shifted
  <2>1. ~gameover /\ screen' = Snek!Draw(s)
    BY <1>1 DEF Snek!Turn
  <2>2. /\ {c \in Snek!Cells : screen'[c] = "@"} = {s[k] : k \in 1..length}
        /\ \A c \in Snek!Cells : screen'[c] = "+" => c = apple /\ c # s[1]
        /\ {c \in Snek!Cells : screen'[c] = "#"} = {c \in Snek!Cells : Snek!Wall(c)}
    BY <1>1, <2>1, SnekDrawnScreen
  <2>3. length \in Nat \ {0} /\ s \in Seq(Snek!Cells) /\ Len(s) = length + 1
    BY <2>1, SnekShiftedSegments DEF SnekSafe, Snek!TypeOK
  <2>4. \/ s[1] = apple /\ length' = length + 1 /\ sk' = Append(s, Snek!Corner)
        \/ sk' = s /\ UNCHANGED <<length, apple>>
    BY <1>1 DEF Snek!Turn
  <2> HIDE DEF s
  <2>5. CASE s[1] = apple /\ length' = length + 1 /\ sk' = Append(s, Snek!Corner)
    <3>1. \A k \in 1..length : sk'[k] = s[k]
      BY <2>3, <2>5, AppendProperties, SnekGeometry
    <3>2. {s[k] : k \in 1..length} = {sk'[k] : k \in 1..length' - 1}
      BY <2>3, <2>5, <3>1
    <3>3. {sk'[k] : k \in 1..length' - 1} \subseteq {sk'[k] : k \in 1..length'}
      BY <2>3, <2>5
    <3> QED
      BY <2>2, <2>5, <3>2, <3>3 DEF Snek!ScreenShows
  <2>6. CASE sk' = s /\ UNCHANGED <<length, apple>>
    <3>1. {sk'[k] : k \in 1..length' - 1} \subseteq {s[k] : k \in 1..length}
      BY <2>3, <2>6
    <3> QED
      BY <2>2, <2>6, <3>1 DEF Snek!ScreenShows
  <2> QED
    BY <2>4, <2>5, <2>6
<1>2. CASE Snek!Quit \/ (Snek!Turn /\ Snek!Hits(Snek!Shifted))
  BY <1>2 DEF Snek!Quit, Snek!Turn, Snek!GameOver, Snek!ScreenShows
<1>3. CASE Snek!Key
  BY <1>3 DEF Snek!Key, Snek!ScreenShows
<1>4. CASE UNCHANGED Snek!vars
  BY <1>4 DEF Snek!vars, Snek!ScreenShows
<1> QED
  BY <1>1, <1>2, <1>3, <1>4 DEF Snek!Next, Snek!Done

LEMMA SnekInit == Snek!Init => Snek!IInv
BY SnekInitInv, SnekScreenInit DEF SnekSafe, Snek!IInv

LEMMA SnekNext == Snek!IInv /\ (Snek!Next \/ UNCHANGED Snek!vars) => Snek!IInv'
<1> SUFFICES ASSUME Snek!IInv, Snek!Next \/ UNCHANGED Snek!vars PROVE Snek!IInv'
  OBVIOUS
<1>1. SnekSafe /\ Snek!ScreenShows
  BY DEF SnekSafe, Snek!IInv
<1>2. SnekSafe' /\ Snek!ScreenShows'
  BY <1>1, SnekStepInv, SnekScreenStep
<1> QED
  BY <1>2 DEF SnekSafe, Snek!IInv

-----------------------------------------------------------------------------
(* All programs *)

\* Which program runs is chosen once.
LEMMA TerminalStep ==
  ASSUME [Next]_vars
  PROVE  /\ program' = program
         /\ program = "leave" => Leave!Next \/ UNCHANGED Leave!vars
         /\ program = "mugwump" => Mugwump!Next \/ UNCHANGED Mugwump!vars
         /\ program = "dc" => Dc!Next \/ UNCHANGED Dc!vars
         /\ program = "bfi" => Bfi!Next \/ UNCHANGED Bfi!vars
         /\ program = "moo" => Moo!Next \/ UNCHANGED Moo!vars
         /\ program = "draws" => Draws!Next \/ UNCHANGED Draws!vars
         /\ program = "snek" => Snek!Next \/ UNCHANGED Snek!vars
<1>1. CASE Next
  BY <1>1 DEF Next, OnlyLeave, OnlyMugwump, OnlyDc, OnlyBfi, OnlyMoo, OnlyDraws, OnlySnek
<1>2. CASE UNCHANGED vars
  BY <1>2 DEF vars, leaveVars, mugwumpVars, dcVars, bfiVars, mooVars, drawVars, snekVars, Snek!vars,
     Leave!vars, Mugwump!vars, Dc!vars, Bfi!vars, Moo!vars, Draws!vars
<1> QED
  BY <1>1, <1>2

TerminalInv ==
  /\ program = "leave" => Leave!IInv
  /\ program = "mugwump" => Mugwump!IInv
  /\ program = "dc" => Dc!TypeOK
  /\ program = "bfi" => Bfi!IInv
  /\ program = "moo" => Moo!IInv
  /\ program = "draws" => Draws!IInv
  /\ program = "snek" => Snek!IInv

LEMMA TerminalInit == Init => TerminalInv
BY LeaveInit, MugwumpInit, DcInit, BfiInit, MooInit, DrawsInit, SnekInit DEF Init, TerminalInv

LEMMA TerminalNext == TerminalInv /\ [Next]_vars => TerminalInv'
<1> SUFFICES ASSUME TerminalInv, [Next]_vars PROVE TerminalInv'
  OBVIOUS
<1>1. program' = program
  BY TerminalStep
<1>2. program = "leave" => Leave!IInv'
  BY TerminalStep, LeaveNext, LeaveUnchanged DEF TerminalInv
<1>3. program = "mugwump" => Mugwump!IInv'
  BY TerminalStep, MugwumpNext, MugwumpUnchanged DEF TerminalInv
<1>4. program = "dc" => Dc!TypeOK'
  BY TerminalStep, DcNext, DcUnchanged DEF TerminalInv
<1>5. program = "bfi" => Bfi!IInv'
  BY TerminalStep, BfiNext, BfiUnchanged DEF TerminalInv
<1>6. program = "draws" => Draws!IInv'
  BY TerminalStep, DrawsNext, DrawsUnchanged DEF TerminalInv
<1>7. program = "moo" => Moo!IInv'
  BY TerminalStep, MooNext, MooUnchanged DEF TerminalInv
<1>8. program = "snek" => Snek!IInv'
  BY TerminalStep, SnekNext DEF TerminalInv
<1> QED
  BY <1>1, <1>2, <1>3, <1>4, <1>5, <1>6, <1>7, <1>8 DEF TerminalInv

\* The invariants of all seven kinds of programs.
THEOREM TerminalInvariant == Spec => []TerminalInv
BY TerminalInit, TerminalNext, PTL DEF Spec

\* dc.c, bfi.c and the others: the stack stays inside its array, a search for a
\* bracket inside a well-formed program, and no counter leaves its range.
THEOREM TerminalTypeCorrect == Spec => []TypeOK
<1>1. TerminalInv => TypeOK
  BY BfiFinds DEF TerminalInv, TypeOK, Leave!IInv, Mugwump!IInv, Bfi!IInv, Moo!IInv, Draws!IInv, Snek!IInv
<1> QED
  BY <1>1, TerminalInvariant, PTL

\* leave.c: each reminder comes when it is due but for what was slept too long,
\* none is left out, and they stop when the user has gone, whenever that is.
THEOREM LeaveRemindersInTime == Spec => []RemindersInTime
<1>1. TerminalInv => RemindersInTime
  BY DEF TerminalInv, RemindersInTime, Leave!IInv
<1> QED
  BY <1>1, TerminalInvariant, PTL

\* mugwump.c: a game is won exactly when all mugwumps are found and lost only
\* with no guess left, and once one has been made the distances told are those
\* of the mugwumps not found, and numbers. xkcdpass.c, d6.c: a passphrase is of
\* words of the list that begin with the letters of the acrostic, as many as
\* were asked for; a die shows one to six. uuidgen.c: the digits are those of
\* the time, however many there are.
THEOREM ChanceJudgedFairly == Spec => []JudgedFairly
<1>1. TerminalInv => JudgedFairly
  BY DrawsAsAsked, DrawsInOrder DEF TerminalInv, JudgedFairly, Mugwump!IInv, Draws!IInv
<1> QED
  BY <1>1, TerminalInvariant, PTL

\* moo.c: however the random numbers fall and however many digits there are,
\* the test of line 80 for a leading zero is never true.
THEOREM MooNeverRetried == Spec => []NeverRetried
<1>1. TerminalInv => NeverRetried
  BY MooZeroMoved DEF TerminalInv, NeverRetried
<1> QED
  BY <1>1, TerminalInvariant, PTL

\* moo.c: a game that did not run out of input was won by a complete and
\* right guess.
THEOREM MooWonBySecret == Spec => []WonBySecret
<1>1. TerminalInv => WonBySecret
  BY DEF TerminalInv, WonBySecret, Moo!IInv
<1> QED
  BY <1>1, TerminalInvariant, PTL

\* On every screen the snake is connected and between the walls.
THEOREM SnekConnected == Spec => []Connected
<1>1. TerminalInv => Connected
  BY DEF TerminalInv, Connected, Snek!IInv
<1> QED
  BY <1>1, TerminalInvariant, PTL

\* However long it has become, the snake crosses itself in its last segment
\* at most, and there only right after an apple.
THEOREM SnekSelfAvoiding == Spec => []SelfAvoiding
<1>1. TerminalInv => SelfAvoiding
  BY DEF TerminalInv, SelfAvoiding, Snek!IInv
<1> QED
  BY <1>1, TerminalInvariant, PTL

\* The length is at most the number of cells between the walls, and one: what
\* the fixed array of snek.c:44 has to hold.
THEOREM SnekNeverTooLong == Spec => []NeverTooLong
<1>1. TerminalInv => NeverTooLong
  BY DEF TerminalInv, NeverTooLong, Snek!IInv
<1> QED
  BY <1>1, TerminalInvariant, PTL

\* On every screen, of any size, the cells with "@" are those of the snake,
\* but for the segment an apple has just added; no apple eaten is left on it,
\* and the walls stand.
THEOREM SnekScreenShows == Spec => []ScreenShows
<1>1. TerminalInv => ScreenShows
  BY DEF TerminalInv, ScreenShows, Snek!IInv
<1> QED
  BY <1>1, TerminalInvariant, PTL

\* bfi.c, dc.c: what the interpreters do is what their languages say, whatever
\* are the program, the size of the memory and of the stack, and the keys.
THEOREM InterpretersImplementTheirLanguages == Spec => ImplementsLanguage
<1>1. Init => (program = "bfi" => Bfi!LanguageInit)
  BY DEF Init, Bfi!Init, Bfi!LanguageInit, Bfi!BF!Init
<1>2. Init => (program = "dc" => Dc!DeskInit)
  BY DcDeskInit DEF Init
<1>3. ASSUME TerminalInv, [Next]_vars
      PROVE  [/\ program = "bfi" => Bfi!LanguageStep
              /\ program = "dc" => Dc!DeskStep /\ Dc!ResultKept]_vars
  <2> SUFFICES ASSUME Next
               PROVE  /\ program = "bfi" => Bfi!LanguageStep
                      /\ program = "dc" => Dc!DeskStep /\ Dc!ResultKept
    BY <1>3
  <2>1. /\ program = "bfi" => Bfi!Next /\ Bfi!IInv
        /\ program = "dc" => Dc!Next /\ Dc!TypeOK
    BY <1>3 DEF Next, OnlyLeave, OnlyMugwump, OnlyDc, OnlyBfi, OnlyMoo, OnlyDraws, OnlySnek, TerminalInv
  <2>2. program = "bfi" => Bfi!LanguageStep
    BY <2>1, BfiLanguageStep DEF Bfi!LanguageStep
  <2>3. program = "dc" => Dc!DeskStep /\ Dc!ResultKept
    BY <2>1, DcDeskStep, DcResultKept
  <2> QED
    BY <2>2, <2>3
<1> QED
  BY <1>1, <1>2, <1>3, TerminalInvariant, PTL DEF Spec, ImplementsLanguage
=============================================================================
