------------------------------ MODULE Request ------------------------------
(***************************************************************************)
(* rest.c and up.c: one request by libcurl, and what the program holds     *)
(* meanwhile: the library, a handle, a list of headers that the handle     *)
(* refers to, and the input that it reads the body from.                   *)
(***************************************************************************)
EXTENDS Integers, Sequences, FiniteSets

CONSTANT MaxHeaders   \* options -H
RequestAssumption == MaxHeaders \in Nat

Methods == {"GET", "PUT", "POST", "HEAD", "DELETE", "PATCH"}
Uploads == {"PUT", "POST"}

VARIABLES client,    \* rest or up
          argc, method, scheme, opts,
          library,   \* curl_global_init and curl_global_cleanup
          curl,      \* the handle: "none", "easy", "set" or "cleaned"
          headers,   \* -1 for TC_NULL, else the length of the list
          input,     \* "none", "open" or "closed"
          sent,      \* what the server has seen, and whether the request failed
          step, rc
vars == <<client, argc, method, scheme, opts, library, curl, headers, input, sent, step, rc>>
given == <<client, argc, method, scheme>>

Init == /\ client \in {"rest", "up"}
        /\ argc \in 0..4 /\ method \in (IF client = "rest" /\ argc \in {2, 3} THEN Methods ELSE {"GET"})
        /\ scheme \in IF client = "up" THEN {"http", "smtp", "imap", "ftp"} ELSE {"http"}
        /\ opts = 0 /\ library = "none" /\ curl = "none" /\ headers = -1 /\ input = "none"
        /\ sent = <<>> /\ step = "start" /\ rc = "none"

Added(n) == IF headers = -1 THEN n ELSE headers + n
Go(s) == step' = s /\ UNCHANGED given
Exit(status) == Go("exit") /\ rc' = status
\* All that can be given back before there is a handle.
GiveUp == /\ headers' = -1 /\ library' = "cleaned"
          /\ input' = IF input = "open" THEN "closed" ELSE input

-----------------------------------------------------------------------------
\* rest initialises the library before it looks at its options, up after.
Start == /\ step = "start"
         /\ library' = IF client = "rest" THEN "init" ELSE library
         /\ Go("options")
         /\ UNCHANGED <<opts, curl, headers, input, sent, rc>>
Header == /\ step = "options" /\ client = "rest" /\ opts < MaxHeaders
          /\ opts' = opts + 1 /\ headers' = Added(1)
          /\ UNCHANGED <<given, library, curl, input, sent, step, rc>>
\* -h, -V, and options that do not exist.
LeaveEarly == /\ step = "options"
              /\ \E status \in {"success", "failure"} : Exit(status)
              /\ IF client = "rest" THEN GiveUp ELSE UNCHANGED <<headers, library, input>>
              /\ UNCHANGED <<opts, curl, sent>>

Usage == IF client = "up" THEN argc # 1 ELSE argc \notin 1..3
WrongUsage == /\ step = "options" /\ Usage
              /\ Exit("failure")
              /\ IF client = "rest" THEN GiveUp ELSE UNCHANGED <<headers, library, input>>
              /\ UNCHANGED <<opts, curl, sent>>
\* Standard input, or with three operands a file or the text itself.
OpenInput ==
  /\ step = "options" /\ ~Usage
  /\ IF client = "up" THEN Go("easy") /\ library' = "init" /\ UNCHANGED <<headers, input, rc>>
     ELSE \/ Go("easy") /\ input' = "open" /\ UNCHANGED <<headers, library, rc>>
          \/ argc = 3 /\ Exit("failure") /\ GiveUp
  /\ UNCHANGED <<opts, curl, sent>>

\* Without a handle up leaves at once, and rest gives back what it has.
EasyInit ==
  /\ step = "easy"
  /\ \/ Go("set") /\ curl' = "easy" /\ UNCHANGED <<library, headers, input, rc>>
     \/ /\ Exit("failure") /\ UNCHANGED curl
        /\ IF client = "rest" THEN GiveUp ELSE UNCHANGED <<library, headers, input>>
  /\ UNCHANGED <<opts, sent>>

NewHeaders == IF client = "rest" THEN (IF method \in Uploads THEN 6 ELSE 4)
              ELSE IF scheme = "http" THEN 3 ELSE 0
SetOptions == /\ step = "set"
              /\ headers' = IF NewHeaders = 0 THEN headers ELSE Added(NewHeaders)
              /\ curl' = "set" /\ Go("perform")
              /\ UNCHANGED <<opts, library, input, sent, rc>>

\* Methods that are not known stay the default, GET.
Verb == CASE client = "up" -> (CASE scheme = "http" -> "HEAD" [] scheme = "smtp" -> "NOOP"
                                 [] scheme = "imap" -> "EXAMINE INBOX" [] OTHER -> "none")
          [] method \in Uploads \cup {"HEAD", "DELETE"} -> method
          [] OTHER -> "GET"
Body == client = "rest" /\ method \in Uploads

\* Mutant: a request that fails leaves the status a success.
StatusForgotten(ok) == "success"
Status(ok) == IF client = "rest" /\ ~ok THEN "failure" ELSE "success"
\* It returns some time: neither program sets a timeout.
Perform == /\ step = "perform"
           /\ \E ok \in BOOLEAN : sent' = <<[verb |-> Verb, body |-> Body, ok |-> ok]>> /\ rc' = Status(ok)
           /\ Go("cleanup")
           /\ UNCHANGED <<opts, library, curl, headers, input>>

EasyCleanup == /\ step = "cleanup" /\ curl' = "cleaned" /\ Go("free")
               /\ UNCHANGED <<opts, library, headers, input, sent, rc>>
FreeHeaders == /\ step = "free" /\ headers' = -1 /\ Go("global")
               /\ UNCHANGED <<opts, library, curl, input, sent, rc>>
GlobalCleanup == /\ step = "global" /\ library' = "cleaned"
                 /\ Go(IF client = "rest" THEN "close" ELSE "exit")
                 /\ UNCHANGED <<opts, curl, headers, input, sent, rc>>
CloseInput == /\ step = "close" /\ input' = "closed" /\ Go("exit")
              /\ UNCHANGED <<opts, library, curl, headers, sent, rc>>

Done == step = "exit" /\ UNCHANGED vars
Next == \/ Start \/ Header \/ LeaveEarly \/ WrongUsage \/ OpenInput \/ EasyInit \/ SetOptions
        \/ Perform \/ EasyCleanup \/ FreeHeaders \/ GlobalCleanup \/ CloseInput \/ Done

-----------------------------------------------------------------------------
TypeOK == /\ library \in {"none", "init", "cleaned"} /\ curl \in {"none", "easy", "set", "cleaned"}
          /\ headers \in -1..(MaxHeaders + 6) /\ headers # 0 /\ input \in {"none", "open", "closed"}
          /\ Len(sent) <= 1 /\ rc \in {"none", "success", "failure"}

\* rest.c, up.c: nothing is given back while the handle still refers to it,
\* and the handle not after the library.
NothingGoneTooSoon ==
  curl \in {"easy", "set"} =>
    /\ library = "init"
    /\ curl = "set" /\ NewHeaders > 0 => headers >= NewHeaders
    /\ client = "rest" => input = "open"

\* On every way out all is given back, but for the library when up gets no
\* handle.
AllGivenBack ==
  step = "exit" =>
    /\ headers = -1 /\ input # "open" /\ curl \in {"none", "cleaned"}
    /\ library = "init" => client = "up" /\ curl = "none"

\* rest.c: a success says that the server took the request, but for the
\* option -h or -V, and nothing is sent after a mistake on the command line;
\* up.c reports a failure in words only. A body is sent by PUT and POST alone,
\* and a method that is not known becomes GET.
StatusTells ==
  step = "exit" /\ sent # <<>> =>
    /\ client = "rest" => (rc = "success") = sent[1].ok
    /\ client = "up" => rc = "success"
RequestAsAsked ==
  sent # <<>> => /\ ~Usage
                 /\ client = "rest" => /\ sent[1].verb = IF method = "PATCH" THEN "GET" ELSE method
                                       /\ sent[1].body = (method \in {"PUT", "POST"})

-----------------------------------------------------------------------------
\* For the proof: what is held at each step, and what has been sent.
List(n) == IF n = 0 THEN -1 ELSE n
OpenOf == IF client = "rest" THEN "open" ELSE "none"
Steps == {"start", "options", "easy", "set", "perform", "cleanup", "free", "global", "close", "exit"}
Asked == /\ client \in {"rest", "up"} /\ method \in Methods
         /\ opts \in 0..MaxHeaders /\ (client = "up" => opts = 0)
         /\ step \in Steps /\ rc \in {"none", "success", "failure"}
         /\ library \in {"none", "init", "cleaned"} /\ input \in {"none", "open", "closed"}
Before ==
  /\ step = "start" => library = "none" /\ headers = -1 /\ opts = 0
  /\ step = "options" => library = (IF client = "rest" THEN "init" ELSE "none")
  /\ step \in {"start", "options"} => curl = "none" /\ input = "none"
  /\ step \in {"options", "easy", "set"} => headers = List(opts)
  /\ step \in {"start", "options", "easy", "set", "perform"} => sent = <<>>
During ==
  /\ step \in {"easy", "set", "perform", "cleanup", "free", "global"} =>
       ~Usage /\ library = "init" /\ input = OpenOf
  /\ step = "easy" => curl = "none"
  /\ step = "set" => curl = "easy"
  /\ step \in {"perform", "cleanup"} => curl = "set"
  /\ step \in {"perform", "cleanup", "free"} => headers = List(opts + NewHeaders)
After ==
  /\ step \in {"free", "global", "close"} => curl = "cleaned"
  /\ step \in {"global", "close"} => headers = -1
  /\ step = "close" => client = "rest" /\ library = "cleaned" /\ input = "open"
Sent == sent = <<>> \/ \E ok \in BOOLEAN : /\ ~Usage /\ rc = Status(ok)
                                           /\ sent = <<[verb |-> Verb, body |-> Body, ok |-> ok]>>
IInv == Asked /\ Before /\ During /\ After /\ Sent /\ AllGivenBack
=============================================================================
