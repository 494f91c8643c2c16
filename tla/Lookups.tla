------------------------------ MODULE Lookups ------------------------------
(***************************************************************************)
(* The programs that go once through a table which others change: who and  *)
(* uptime through the records of logins, which through the directories of  *)
(* PATH. An entry of a table is what is in it now.                         *)
(***************************************************************************)
EXTENDS Integers, Sequences, FiniteSets, SequencesExt

CONSTANTS Size,       \* entries of the table
          Elapsed,    \* seconds since the boot, by the clock of the program
          MaxChanges  \* what others do to the table

LookupsAssumption == Size \in Nat \ {0} /\ Elapsed \subseteq Int /\ MaxChanges \in Nat

Slots == 1..Size
LoginTypes == {"USER_PROCESS", "DEAD_PROCESS", "BOOT_TIME"}
DirTypes == {"X_OK", "none"}   \* a directory has the program, or has not

VARIABLES lookup, table, slot, pass, since, seen, nusers, always, ever, changes, shown, result
vars == <<lookup, table, slot, pass, since, seen, nusers, always, ever, changes, shown, result>>

Hits(t) == {k \in Slots : t[k] \in {"USER_PROCESS", "X_OK"}}

Init == /\ lookup \in {"who", "uptime", "which"}
        /\ table \in [Slots -> IF lookup = "which" THEN DirTypes ELSE LoginTypes]
        /\ Cardinality({k \in Slots : table[k] = "BOOT_TIME"}) <= 1
        /\ since \in IF lookup = "uptime" THEN Elapsed ELSE {0}
        /\ slot = 1 /\ pass = IF lookup = "uptime" THEN 1 ELSE 2
        /\ seen = <<>> /\ nusers = 0 /\ changes = 0 /\ shown = <<>> /\ result = "none"
        /\ always = Hits(table) /\ ever = Hits(table)

-----------------------------------------------------------------------------
\* uptime.c: division of C, which rounds towards zero.
Quot(a, b) == IF a >= 0 THEN a \div b ELSE -((-a) \div b)
Rem(a, b) == a - b * Quot(a, b)
\* Mutant: the hours are not taken modulo a day.
AllHours(s) == Quot(s, 3600)

Hours(s) == Rem(Quot(Quot(s, 60), 60), 24)
Days(s) == Quot(Quot(Quot(s, 60), 60), 24)
Parts(s) == <<Days(s), Hours(s), Rem(Quot(s, 60), 60), Rem(s, 60)>>
\* Parts that are not positive are left out.
Shown(s) == [k \in 1..4 |-> IF Parts(s)[k] > 0 THEN Parts(s)[k] ELSE 0]

\* endutxent and the first getutxent of the second pass begin anew.
Rewind == /\ slot' = 1 /\ pass' = 2
          /\ always' = Hits(table) /\ ever' = Hits(table)
LookForBoot ==
  /\ pass = 1 /\ result = "none"
  /\ IF slot > Size THEN Rewind /\ UNCHANGED shown
     ELSE IF table[slot] = "BOOT_TIME" THEN Rewind /\ shown' = Shown(since)
     ELSE slot' = slot + 1 /\ UNCHANGED <<pass, always, ever, shown>>
  /\ UNCHANGED <<lookup, table, since, seen, nusers, changes, result>>

\* who.c shows each user, uptime.c counts them, which.c stops at the first
\* directory that has the program.
Look ==
  /\ pass = 2 /\ result = "none" /\ slot <= Size
  /\ slot' = slot + 1
  /\ IF table[slot] \in {"USER_PROCESS", "X_OK"}
     THEN /\ seen' = Append(seen, slot)
          /\ nusers' = IF lookup = "uptime" THEN nusers + 1 ELSE nusers
          /\ result' = IF lookup = "which" THEN "success" ELSE "none"
     ELSE UNCHANGED <<seen, nusers, result>>
  /\ UNCHANGED <<lookup, table, pass, since, always, ever, changes, shown>>
\* getloadavg may fail, after all else has been printed.
End == /\ pass = 2 /\ result = "none" /\ slot > Size
       /\ result' \in CASE lookup = "who" -> {"success"} [] lookup = "which" -> {"failure"}
                        [] OTHER -> {"success", "failure"}
       /\ UNCHANGED <<lookup, table, slot, pass, since, seen, nusers, always, ever, changes, shown>>

\* A user logs in where another has logged out; a program is installed or
\* removed.
Change(k) ==
  /\ result = "none" /\ changes < MaxChanges /\ table[k] # "BOOT_TIME"
  /\ changes' = changes + 1
  /\ table' = [table EXCEPT ![k] = CASE @ = "USER_PROCESS" -> "DEAD_PROCESS" [] @ = "DEAD_PROCESS" -> "USER_PROCESS"
                                     [] @ = "X_OK" -> "none" [] OTHER -> "X_OK"]
  /\ always' = always \cap Hits(table') /\ ever' = ever \cup Hits(table')
  /\ UNCHANGED <<lookup, slot, pass, since, seen, nusers, shown, result>>

Done == result # "none" /\ UNCHANGED vars
Next == LookForBoot \/ Look \/ End \/ Done \/ \E k \in Slots : Change(k)

-----------------------------------------------------------------------------
TypeOK == /\ lookup \in {"who", "uptime", "which"} /\ slot \in 1..(Size + 1) /\ pass \in {1, 2}
          /\ always \subseteq ever /\ ever \subseteq Slots
          /\ result \in {"none", "success", "failure"}
          /\ lookup = "uptime" /\ pass = 2 => nusers = Len(seen)

\* who.c, uptime.c: whoever is logged in from the beginning of the pass to its
\* end is shown or counted once, and nobody who never was; the number may be
\* that of no moment.
UsersMet ==
  lookup # "which" /\ result # "none" =>
    /\ IsInjective(seen) /\ always \subseteq ToSet(seen) /\ ToSet(seen) \subseteq ever

\* which.c: the directory that is shown is not behind one that has had the
\* program all the time, and there is none such when the search fails.
FirstFound ==
  lookup = "which" =>
    /\ result = "success" => ToSet(seen) \subseteq ever /\ \A k \in always : Last(seen) <= k
    /\ result = "failure" => always = {}

\* uptime.c: days, hours, minutes and seconds add up to the time since the
\* boot, unless the clock has been set back to before it.
TimeAddsUp ==
  shown # <<>> /\ since >= 0 =>
    /\ ((shown[1] * 24 + shown[2]) * 60 + shown[3]) * 60 + shown[4] = since
    /\ shown[2] < 24 /\ shown[3] < 60 /\ shown[4] < 60

-----------------------------------------------------------------------------
\* For the proof: who is logged in all the time is now, and those that the
\* pass has gone by have been seen, in their order.
Entries == /\ table \in [Slots -> LoginTypes \cup DirTypes] /\ since \in Int
           /\ seen \in Seq(Slots) /\ nusers \in Nat
           /\ always \subseteq Hits(table) /\ Hits(table) \subseteq ever
GoneBy == /\ pass = 1 => seen = <<>> /\ nusers = 0
          /\ \A k \in DOMAIN seen : seen[k] < slot /\ seen[k] \in ever
          /\ \A j, k \in DOMAIN seen : j < k => seen[j] < seen[k]
          /\ pass = 2 => \A k \in always : k < slot => k \in ToSet(seen)
Ending == /\ lookup = "which" /\ result # "success" => seen = <<>>
          /\ lookup = "which" /\ result = "success" => Len(seen) = 1
          /\ result # "none" => pass = 2 /\ (slot > Size \/ (lookup = "which" /\ result = "success"))
Time == shown = <<>> \/ shown = Shown(since)
IInv == TypeOK /\ Entries /\ GoneBy /\ Ending /\ Time
=============================================================================
