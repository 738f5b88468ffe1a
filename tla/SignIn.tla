------------------------------- MODULE SignIn -------------------------------
(***************************************************************************)
(* The pages that deal with Supabase: frontend/lib/useSession.ts, which    *)
(* every page of the dashboard uses, the login page, and the two pages     *)
(* that the links in Supabase's mails lead to.  The scene "session" is the *)
(* hook alone.                                                             *)
(*                                                                         *)
(* Supabase is external: it holds the session of the browser and tells of  *)
(* every change, it signs in or refuses, and it sends mails.               *)
(***************************************************************************)
EXTENDS Api

CONSTANT Users      \* who signs in; a user is an email address

ASSUME SignInAssumption == "none" \notin Users

Modes == {"login", "signup", "reset"}

SessionHook  == [page |-> "session", token |-> "none", loading |-> TRUE, unsure |-> {}]
LoginForm(u) == [page |-> "login", mode |-> "login", email |-> u, busy |-> FALSE, err |-> FALSE,
                 sent |-> FALSE, left |-> FALSE, edited |-> FALSE]
ResetForm(l) == [page |-> "reset", link |-> l, ready |-> FALSE, busy |-> FALSE, err |-> FALSE, done |-> FALSE]
Callback(l)  == [page |-> "callback", link |-> l, waits |-> FALSE, msg |-> "confirming", left |-> FALSE]

SignInInit ==
  \/ ui = SessionHook /\ server \in [session : {"none"} \cup Users, orgs : SUBSET Users]
  \/ ui \in {LoginForm(u) : u \in Users} /\ server = [mails |-> {}]
  \/ ui \in {ResetForm(l) : l \in {"code", "plain"}} /\ server \in [session : {"none"} \cup Users, changed : {FALSE}]
  \/ ui \in {Callback(l) : l \in {"code", "plain"}} /\ server \in [session : {"none"} \cup Users]

-----------------------------------------------------------------------------
(* useSession.  apply(null) sets the token at once; apply(t) first awaits  *)
(* ensureOrg, which never throws.  POST /orgs is idempotent: two of them   *)
(* for one user are no race, so it passes for a read.                      *)
\* Defect: the token is exposed before the workspace is there.
ApplyAtOnce(u) ==
  IF u = "none"
    THEN /\ ui' = [ui EXCEPT !.token = "none", !.loading = FALSE]
         /\ trust' = [trust EXCEPT !["session"] = IF Quiet("session") THEN "clean" ELSE "raced"]
         /\ UNCHANGED calls
    ELSE Start(Call("read", {"session"}, u, "ensureOrg")) /\ ui' = [ui EXCEPT !.token = u, !.loading = FALSE]

Apply(u) ==
  IF u = "none"
    THEN /\ ui' = [ui EXCEPT !.token = "none", !.loading = FALSE]
         /\ trust' = [trust EXCEPT !["session"] = IF Quiet("session") THEN "clean" ELSE "raced"]
         /\ UNCHANGED calls
    ELSE Start(Call("read", {"session"}, u, "ensureOrg")) /\ UNCHANGED ui

\* getSession at the mount, and the event that a new subscriber gets.
SessionMount == ui.page = "session" /\ Apply(server.session) /\ UNCHANGED server

\* Supabase tells of a session that begins, is renewed or ends, in any tab;
\* logout of TopNav is one way for it to end.
AuthEvent ==
  /\ ui.page = "session"
  /\ \E u \in Users \cup {"none"} : server' = [server EXCEPT !.session = u] /\ Apply(u)

OrgEnsured(s) ==
  /\ calls[s].then = "ensureOrg" /\ Open(s)
  /\ ui' = [ui EXCEPT !.token = calls[s].arg, !.loading = FALSE,
                      !.unsure = IF calls[s].st = "back" THEN @ ELSE @ \cup {calls[s].arg}]
  /\ Finish(s)

\* POST /orgs may be handled after the page gave up on it.
OrgMadeLate ==
  /\ ui.page = "session"
  /\ \E u \in ui.unsure : server' = [server EXCEPT !.orgs = @ \cup {u}]
  /\ UNCHANGED <<ui, calls, trust>>

-----------------------------------------------------------------------------
(* The login page.  All but the button stays usable while a call is open;  *)
(* edited tells whether the form has changed since the latest submit.      *)
Submit ==
  /\ ~ ui.busy
  /\ Start(Call("write", {"busy"}, <<ui.mode, ui.email>>, "submit"))
  /\ ui' = [ui EXCEPT !.err = FALSE, !.busy = TRUE, !.edited = FALSE]

SetEmail(u) == u # ui.email /\ ui' = [ui EXCEPT !.email = u, !.edited = TRUE] /\ UNCHANGED <<calls, trust>>

SetMode(m) ==
  /\ \/ ui.mode = "login" /\ m \in {"signup", "reset"}
     \/ ui.mode \in {"signup", "reset"} /\ m = "login"
  /\ ui' = [ui EXCEPT !.mode = m, !.err = FALSE, !.edited = TRUE]
  /\ UNCHANGED <<calls, trust>>

LoginOffers ==
  /\ ui.page = "login" /\ ~ ui.left
  /\ IF ui.sent THEN /\ ui' = [ui EXCEPT !.sent = FALSE, !.mode = "login", !.edited = TRUE]
                     /\ UNCHANGED <<calls, trust>>
     ELSE Submit \/ (\E u \in Users : SetEmail(u)) \/ (\E m \in Modes : SetMode(m))
  /\ UNCHANGED server

\* The mode is that of the submit.  A sign-up answers with a session only where
\* no confirmation is required.
Submitted(s) ==
  /\ Answered(s, "submit")
  /\ ui' = IF calls[s].ans = "session" THEN [ui EXCEPT !.busy = FALSE, !.left = TRUE]
           ELSE [ui EXCEPT !.busy = FALSE, !.sent = TRUE]
  /\ Finish(s)

\* Defect: an error is not told from a mail that is sent.
LoginCatchNothing(s) ==
  /\ Throw(s) /\ calls[s].then = "submit"
  /\ ui' = [ui EXCEPT !.busy = FALSE, !.sent = TRUE]

LoginCatch(s) ==
  /\ Throw(s) /\ calls[s].then = "submit"
  /\ ui' = [ui EXCEPT !.busy = FALSE, !.err = TRUE]

BackToLogin ==
  /\ ui.page = "login" /\ ui.left
  /\ \E u \in Users : NewDocument(LoginForm(u))

-----------------------------------------------------------------------------
(* The link of a mail: the code in it is exchanged for a session, whose    *)
(* error is swallowed, and what counts is whether there is a session then. *)
Exchange == Call("read", {}, "", "exchange")

AfterGetSession(card, signedIn) ==
  IF card.page = "reset" THEN [card EXCEPT !.ready = signedIn]
  ELSE IF signedIn THEN [card EXCEPT !.left = TRUE] ELSE [card EXCEPT !.waits = TRUE]

LinkMount ==
  /\ ui.page \in {"reset", "callback"}
  /\ LET read == [ui EXCEPT !.link = "read"]
     IN \/ ui.link = "code" /\ Start(Exchange) /\ ui' = read
        \/ /\ ui.link = "plain"
           /\ ui' = AfterGetSession(read, server.session # "none")
           /\ UNCHANGED <<calls, trust>>
  /\ UNCHANGED server

Exchanged(s) ==
  /\ calls[s].then = "exchange" /\ Open(s)
  /\ ui' = AfterGetSession(ui, server.session # "none")
  /\ Finish(s)

\* The callback page subscribes, and gives up its message after 5 s, but not its wait.
CallbackTimeout ==
  /\ ui.page = "callback" /\ ui.waits
  /\ ui' = [ui EXCEPT !.msg = "failed"]
  /\ UNCHANGED <<server, calls, trust>>

LinkSession ==
  /\ ui.page \in {"reset", "callback"}
  /\ \E u \in (Users \cup {"none"}) \ {server.session} :
       /\ server' = [server EXCEPT !.session = u]
       /\ ui' = IF ui.page = "callback" /\ ui.waits /\ u # "none" THEN [ui EXCEPT !.left = TRUE] ELSE ui
  /\ UNCHANGED <<calls, trust>>

NewPassword ==
  /\ ui.page = "reset" /\ ui.ready /\ ~ ui.busy /\ ~ ui.done
  /\ Start(Call("write", {"busy"}, "", "updateUser"))
  /\ ui' = [ui EXCEPT !.err = FALSE, !.busy = TRUE]
  /\ UNCHANGED server

PasswordUpdated(s) ==
  /\ Answered(s, "updateUser")
  /\ ui' = [ui EXCEPT !.done = TRUE, !.busy = FALSE]
  /\ Finish(s)

ResetCatch(s) ==
  /\ Throw(s) /\ calls[s].then = "updateUser"
  /\ ui' = [ui EXCEPT !.err = TRUE, !.busy = FALSE]

-----------------------------------------------------------------------------
SignInServe(s) ==
  LET c == calls[s]
  IN \/ c.then = "ensureOrg" /\ Serve(s, [server EXCEPT !.orgs = @ \cup {c.arg}], "")
     \/ c.then = "submit" /\ c.arg[1] # "reset" /\ Serve(s, server, "session")
     \/ c.then = "submit" /\ c.arg[1] # "login" /\ Serve(s, [server EXCEPT !.mails = @ \cup {c.arg}], "mail")
     \/ /\ c.then = "exchange"
        /\ \E u \in Users : Serve(s, [server EXCEPT !.session = u], "")
     \/ /\ c.then = "updateUser" /\ server.session # "none"
        /\ Serve(s, [server EXCEPT !.changed = TRUE], "")

SignInContinue(s) ==
  /\ OrgEnsured(s) \/ Submitted(s) \/ LoginCatch(s) \/ Exchanged(s) \/ PasswordUpdated(s) \/ ResetCatch(s)
  /\ UNCHANGED server

SignInNext ==
  \/ SessionMount \/ AuthEvent \/ OrgMadeLate
  \/ LoginOffers \/ BackToLogin
  \/ LinkMount \/ CallbackTimeout \/ LinkSession \/ NewPassword
  \/ \E s \in Slots : SignInServe(s) \/ SignInContinue(s)

-----------------------------------------------------------------------------
(***************************************************************************)
(* A page gets the token of a user only when the user has a workspace, so  *)
(* that its first requests are not refused: useSession.ts:11-15.  ensureOrg*)
(* swallows its error, so a bootstrap that failed is the exception.        *)
(***************************************************************************)
TokenHasWorkspace ==
  ui.page = "session" =>
    \A u \in Users : ui.token = u => u \in server.orgs \cup ui.unsure

(***************************************************************************)
(* The page says "check your inbox" of a mail that was asked for, as long  *)
(* as the form was left alone meanwhile (login/page.tsx:53-66 names the    *)
(* mode and the address of the moment), and "password updated" only when   *)
(* it is (auth/reset/page.tsx:34-35).                                      *)
(***************************************************************************)
SaysWhatHappened ==
  /\ ui.page = "login" /\ ui.sent /\ ~ ui.edited => <<ui.mode, ui.email>> \in server.mails
  /\ ui.page = "reset" /\ ui.done => server.changed
=============================================================================
