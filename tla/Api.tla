-------------------------------- MODULE Api --------------------------------
(***************************************************************************)
(* frontend/lib/api.ts as the dashboard uses it: a page sends a call,      *)
(* the server handles it once at some later moment, and the page goes on   *)
(* where it awaited the call, or in its catch block when the call throws.  *)
(* A page may have several calls open, and they end in any order.          *)
(*                                                                         *)
(* Every page is a document of its own.  Its React state is the record ui, *)
(* what the server stores of the things it shows is the record server, and *)
(* one handler of the page is an action that starts with a click, or one   *)
(* that goes on with an answer.  The name in the field "then" of a call is *)
(* the place in the code that awaits it.                                   *)
(***************************************************************************)
EXTENDS Naturals, FiniteSets

CONSTANT Slots      \* a page has at most one call open per slot

VARIABLES ui,       \* the React state of the page that is open
          server,   \* what the server stores of what the page deals with
          calls,    \* slot -> the call in it
          trust     \* thing of the page -> what is known of its copy (see Trusts)

apiVars == <<ui, server, calls, trust>>

\* Calls are about things that the server stores and the page has a copy of, and
\* about the flags that the page sets while an operation is under way.
Flags == {"busy", "ruleBusy", "frameworkBusy"}

(***************************************************************************)
(* The page's copy of a thing is "clean" when its latest read was open     *)
(* together with no write and no read of something else; it is "raced"     *)
(* after such an overlap or a change by somebody else, and "failed" after  *)
(* a call that threw.  A flag is "raced" when two operations that set it   *)
(* overlap.                                                                *)
(***************************************************************************)
Trusts == {"clean", "raced", "failed"}

Free == [st |-> "free", do |-> "none", on |-> {}, arg |-> "", then |-> "", ans |-> ""]

\* rawFetch: the request as it leaves
Call(do, on, arg, then) ==
  [st |-> "out", do |-> do, on |-> on, arg |-> arg, then |-> then, ans |-> ""]

\* rawFetch: the answer as it arrives.
Back(c, ans) == [c EXCEPT !.st = "back", !.ans = ans]

\* The page gives up on the call: a write that may be on its way goes on, and keeps no
\* button of the page disabled.
GivenUp(c) ==
  IF c.st \in {"out", "late"} /\ c.do = "write" THEN [c EXCEPT !.st = "late", !.on = c.on \ Flags] ELSE Free

Vacant(s)  == calls[s].st = "free"
Open(s)    == calls[s].st \in {"out", "back", "refused"}
Quiet(r)   == \A s \in Slots : Vacant(s) \/ r \notin calls[s].on

Competes(c, d, r) ==
  /\ r \in c.on \cap d.on
  /\ r \in Flags \/ c.do = "write" \/ d.do = "write" \/ c.arg # d.arg

(***************************************************************************)
(* Sending the calls new, a function on some slots; base is what is known  *)
(* of the copies just before.  An operation that starts alone makes its    *)
(* flag clean, and a read sent alone its copy, unless it goes on with the  *)
(* read that was in its slot.                                              *)
(***************************************************************************)
SendFrom(base, new) ==
  LET rest     == {o \in Slots \ DOMAIN new : ~ Vacant(o)}
      raced    == {r \in DOMAIN trust : \E s \in DOMAIN new, o \in rest : Competes(new[s], calls[o], r)}
      had(s,r) == r \in calls[s].on /\ (r \in Flags \/ calls[s].do = "read")
      fresh    == {r \in DOMAIN trust : /\ \A o \in rest : r \notin calls[o].on
                                        /\ \A s \in DOMAIN new : ~ had(s, r)
                                        /\ \E s \in DOMAIN new : /\ r \in new[s].on
                                                                 /\ new[s].do = "read" \/ r \in Flags}
  IN /\ calls' = [s \in Slots |-> IF s \in DOMAIN new THEN new[s] ELSE calls[s]]
     /\ trust' = [r \in DOMAIN trust |-> IF r \in raced THEN "raced"
                                         ELSE IF r \in fresh THEN "clean" ELSE base[r]]

Send(new) == SendFrom(trust, new)

\* The call c, to be sent in slot s.
At(s, c) == [o \in {s} |-> c]

\* A handler that starts: its first call goes out.
Start(c) ==
  /\ \E s \in Slots : Vacant(s)
  /\ Send(At(CHOOSE s \in Slots : Vacant(s), c))

(***************************************************************************)
(* The server handles a call: new is what it stores from now on, ans what  *)
(* it answers.  The page may have given up on the call already.            *)
(***************************************************************************)
Serve(s, new, ans) ==
  /\ calls[s].st \in {"out", "late"}
  /\ server' = new
  /\ calls' = [calls EXCEPT ![s] = IF @.st = "late" THEN Free ELSE Back(@, ans)]
  /\ UNCHANGED <<ui, trust>>

\* A 4xx answer: nothing is stored.
Refuse(s) ==
  /\ calls[s].st \in {"out", "late"}
  /\ calls' = [calls EXCEPT ![s] = IF @.st = "late" THEN Free ELSE [calls[s] EXCEPT !.st = "refused"]]
  /\ UNCHANGED <<ui, server, trust>>

\* The request of a call that the page gave up on never reaches the server.
Lose(s) ==
  /\ calls[s].st = "late"
  /\ calls' = [calls EXCEPT ![s] = Free]
  /\ UNCHANGED <<ui, server, trust>>

\* apiFetch returns to the place called then.
Answered(s, then) == calls[s].st = "back" /\ calls[s].then = then

Finish(s) ==
  /\ calls' = [calls EXCEPT ![s] = Free]
  /\ UNCHANGED trust

(***************************************************************************)
(* apiFetch throws: a status that is not ok, a network error, or the abort *)
(* after DEFAULT_TIMEOUT_MS, which says nothing of what the server does.   *)
(* (A read that throws may as well throw before it was handled.)           *)
(***************************************************************************)
Doubts(s) == [r \in DOMAIN trust |-> IF r \in calls[s].on \ Flags THEN "failed" ELSE trust[r]]

\* Defect: a call that is given up still counts as one of the operation.
ThrowKeepingFlags(s) ==
  /\ Open(s) /\ ~ (calls[s].st = "back" /\ calls[s].do = "read")
  /\ calls' = [calls EXCEPT ![s] = IF @.st = "out" /\ @.do = "write" THEN [calls[s] EXCEPT !.st = "late"] ELSE Free]
  /\ trust' = Doubts(s)

Throw(s) ==
  /\ Open(s) /\ ~ (calls[s].st = "back" /\ calls[s].do = "read")
  /\ calls' = [calls EXCEPT ![s] = GivenUp(@)]
  /\ trust' = Doubts(s)

\* Somebody else changes what the page has a copy of.
Elsewhere(r, new) ==
  /\ server' = new
  /\ trust' = [trust EXCEPT ![r] = "raced"]
  /\ UNCHANGED <<ui, calls>>

\* Another document of the site takes the place of this one; what is on its way to
\* the server goes on.
NewDocument(card) ==
  /\ ui' = card
  /\ calls' = [s \in Slots |-> GivenUp(calls[s])]
  /\ trust' = [r \in DOMAIN trust |-> IF r \in Flags THEN "clean" ELSE "raced"]
  /\ UNCHANGED server

ApiTypeOK ==
  /\ trust \in [DOMAIN trust -> Trusts]
  /\ DOMAIN calls = Slots
  /\ \A s \in Slots : /\ calls[s].st \in {"free", "out", "back", "refused", "late"}
                      /\ calls[s].on \subseteq DOMAIN trust
                      /\ Vacant(s) <=> calls[s].do = "none"
                      /\ calls[s].st = "late" => calls[s].do = "write" /\ calls[s].on \cap Flags = {}
=============================================================================
