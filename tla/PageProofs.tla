------------------------------ MODULE PageProofs ------------------------------
(***************************************************************************)
(* What single pages of the dashboard promise: the keys page with the      *)
(* agent that records with a key, the session hook, and the forms of the   *)
(* sign-in.  Each promise has an invariant of its page, which says what    *)
(* the calls that are under way may still change.                          *)
(***************************************************************************)
EXTENDS ConsoleProofs

(***************************************************************************)
(* Keys.  A list of keys never says "revoked" before the server does,      *)
(* neither on the page nor in an answer that is on its way to it.          *)
(***************************************************************************)
KeyTable == [KeyIds -> KeyStates]

\* What the table says is revoked is.
NoneTooEarly(table) == table \in KeyTable /\ \A k \in KeyIds : table[k] = "revoked" => server.keys[k] = "revoked"

KeysInv ==
  ui.page = "keys" =>
    /\ {"keys", "loading", "err"} \subseteq DOMAIN ui
    /\ "keys" \in DOMAIN server /\ server.keys \in KeyTable
    /\ NoneTooEarly(ui.keys)
    /\ \A s \in Slots : calls[s].st = "back" /\ calls[s].then = "refreshKeys" => NoneTooEarly(calls[s].ans)

\* The agent: an emit that was late is refused, wherever it is.
AgentInv ==
  /\ agent \in [at : {"ended", "sent", "known", "stored", "refused"}, said : {"", "waiting", "ok", "threw"},
                late : BOOLEAN, kept : BOOLEAN]
  /\ agent.at = "stored" \/ agent.said = "ok" => agent.kept
  /\ agent.late => /\ ui.page = "keys" /\ server.keys[ApiKey] = "revoked"
                   /\ agent.at \notin {"known", "stored"} /\ ~ agent.kept

(***************************************************************************)
(* The session hook: an answer of ensureOrg is a workspace that exists.    *)
(***************************************************************************)
SessionInv ==
  ui.page = "session" =>
    /\ {"token", "loading", "unsure"} \subseteq DOMAIN ui
    /\ {"session", "orgs"} \subseteq DOMAIN server
    /\ \A u \in Users : ui.token = u => u \in server.orgs \cup ui.unsure
    /\ \A s \in Slots : calls[s].st = "back" => calls[s].arg \in server.orgs

(***************************************************************************)
(* The login form: the submit that is open is the only one, and it asks    *)
(* for what the form shows as long as the form is left alone.              *)
(***************************************************************************)
LoginInv ==
  ui.page = "login" =>
    /\ {"mode", "email", "busy", "err", "sent", "left", "edited"} \subseteq DOMAIN ui
    /\ "mails" \in DOMAIN server
    /\ ui.sent /\ ~ ui.edited => <<ui.mode, ui.email>> \in server.mails
    /\ \A s \in Slots : Open(s) =>
         /\ ui.busy /\ ~ ui.sent
         /\ ~ ui.edited => calls[s].arg = <<ui.mode, ui.email>>
         /\ \A o \in Slots \ {s} : ~ Open(o)
    /\ \A s \in Slots : calls[s].st = "back" =>
         calls[s].ans = "session" \/ (calls[s].ans = "mail" /\ calls[s].arg \in server.mails)

\* The form for a new password: an answer of updateUser is a password that is changed.
ResetInv ==
  ui.page = "reset" =>
    /\ {"link", "ready", "busy", "err", "done"} \subseteq DOMAIN ui
    /\ {"session", "changed"} \subseteq DOMAIN server
    /\ ui.done => server.changed
    /\ \A s \in Slots : calls[s].st = "back" /\ calls[s].then = "updateUser" => server.changed

PageInv == KeysInv /\ AgentInv /\ SessionInv /\ LoginInv /\ ResetInv

------------------------------------------------------------------------------
\* Which steps bring an answer: those of the server alone.
NoNewAnswer == \A s \in Slots : calls'[s].st = "back" => calls'[s] = calls[s]

LEMMA GivenUpIsNoAnswer ==
  ASSUME NEW page, NEW c, CallOf(page, c)
  PROVE  GivenUp(c).st \in {"free", "late"}
<1>1. IsCall(c)
  BY DEF CallOf
<1>2. Free.st = "free"
  BY DEF Free
<1>3. [c EXCEPT !.st = "late", !.on = c.on \ Flags].st = "late"
  BY <1>1 DEF IsCall, Fields
<1> QED
  BY <1>2, <1>3 DEF GivenUp

LEMMA SendNoAnswer ==
  ASSUME SceneInv, NEW base, NEW s \in Slots, NEW do, NEW on, NEW arg, NEW then,
         SendFrom(base, At(s, Call(do, on, arg, then)))
  PROVE  NoNewAnswer
<1>1. calls' = [o \in Slots |-> IF o \in DOMAIN At(s, Call(do, on, arg, then))
                               THEN At(s, Call(do, on, arg, then))[o] ELSE calls[o]]
  BY DEF SendFrom
<1>2. \A o \in Slots : calls'[o] = calls[o] \/ calls'[o] = Call(do, on, arg, then)
  BY <1>1 DEF At
<1>3. Call(do, on, arg, then).st = "out"
  BY DEF Call
<1> QED
  BY <1>2, <1>3 DEF NoNewAnswer

LEMMA StartNoAnswer ==
  ASSUME SceneInv, NEW do, NEW on, NEW arg, NEW then, Start(Call(do, on, arg, then))
  PROVE  NoNewAnswer
<1>1. PICK s \in Slots : SendFrom(trust, At(s, Call(do, on, arg, then)))
  BY DEF Start, Send
<1> QED
  BY <1>1, SendNoAnswer

LEMMA EndNoAnswer ==
  ASSUME SceneInv, NEW s \in Slots, Finish(s) \/ Throw(s) \/ Lose(s)
  PROVE  NoNewAnswer
<1>1. \A o \in Slots : \/ calls'[o] = calls[o] \/ calls'[o] = Free \/ calls'[o] = GivenUp(calls[o])
  BY DEF Finish, Throw, Lose, SceneInv
<1>2. Free.st = "free"
  BY DEF Free
<1>3. \A o \in Slots : GivenUp(calls[o]).st \in {"free", "late"}
  BY GivenUpIsNoAnswer DEF SceneInv
<1> QED
  BY <1>1, <1>2, <1>3 DEF NoNewAnswer

LEMMA SameNoAnswer ==
  ASSUME UNCHANGED calls
  PROVE  NoNewAnswer
BY DEF NoNewAnswer

LEMMA ServedAnswer ==
  ASSUME SceneInv, NEW s \in Slots, NEW new, NEW ans, Serve(s, new, ans)
  PROVE  \A o \in Slots : calls'[o].st = "back" =>
           \/ calls'[o] = calls[o]
           \/ /\ o = s /\ calls[s].st = "out"
              /\ calls'[s].do = calls[s].do /\ calls'[s].on = calls[s].on /\ calls'[s].then = calls[s].then
              /\ calls'[s].arg = calls[s].arg /\ calls'[s].ans = ans
<1>1. calls' = [calls EXCEPT ![s] = IF @.st = "late" THEN Free ELSE Back(@, ans)]
  BY DEF Serve
<1>2. calls[s].st \in {"out", "late"}
  BY DEF Serve
<1>3. Free.st = "free"
  BY DEF Free
<1>4. IsCall(calls[s])
  BY DEF SceneInv, CallOf
<1> DEFINE b == Back(calls[s], ans)
<1>5. /\ b.do = calls[s].do /\ b.on = calls[s].on /\ b.then = calls[s].then
      /\ b.arg = calls[s].arg /\ b.ans = ans
  BY <1>4 DEF IsCall, Fields, Back
<1> HIDE DEF b
<1>6. \A o \in Slots : \/ calls'[o] = calls[o]
                       \/ o = s /\ calls'[o] = Free
                       \/ o = s /\ calls[s].st = "out" /\ calls'[o] = b
  BY <1>1, <1>2 DEF b, SceneInv
<1> QED
  BY <1>3, <1>5, <1>6

------------------------------------------------------------------------------
\* Keys.
LEMMA KeysKeep ==
  ASSUME KeysInv, ui.page = "keys", DOMAIN ui' = DOMAIN ui,
         "keys" \in DOMAIN server', server'.keys \in KeyTable,
         \A k \in KeyIds : server.keys[k] = "revoked" => server'.keys[k] = "revoked",
         NoneTooEarly(ui'.keys),
         \A s \in Slots : calls'[s].st = "back" /\ calls'[s].then = "refreshKeys" =>
           calls'[s] = calls[s] \/ NoneTooEarly(calls'[s].ans)
  PROVE  KeysInv'
<1>1. \A table : NoneTooEarly(table) => NoneTooEarly(table)'
  BY DEF NoneTooEarly
<1>2. NoneTooEarly(ui.keys)'
  BY DEF NoneTooEarly
<1>3. \A s \in Slots : calls'[s].st = "back" /\ calls'[s].then = "refreshKeys" => NoneTooEarly(calls'[s].ans)
  BY DEF KeysInv
<1>4. \A s \in Slots : (calls[s].st = "back" /\ calls[s].then = "refreshKeys" => NoneTooEarly(calls[s].ans))'
  BY <1>3 DEF NoneTooEarly
<1> QED
  BY <1>2, <1>4 DEF KeysInv

\* A step of the page that leaves the table alone.
LEMMA KeysSame ==
  ASSUME KeysInv, ui.page = "keys", DOMAIN ui' = DOMAIN ui, ui'.keys = ui.keys, UNCHANGED server, NoNewAnswer
  PROVE  KeysInv'
BY KeysKeep DEF KeysInv, NoNewAnswer

LEMMA KeysPageStep ==
  ASSUME SceneInv, KeysInv, ui.page = "keys",
         \/ KeysMount \/ KeysOffers
         \/ \E s \in Slots : KeysContinue(s)
  PROVE  KeysInv' /\ UNCHANGED server
<1>1. CASE KeysMount
  <2>1. NoNewAnswer
    BY <1>1, StartNoAnswer DEF KeysMount, RefreshKeys
  <2> QED
    BY <1>1, <2>1, KeysSame DEF KeysMount
<1>2. CASE KeysOffers
  <2>1. NoNewAnswer
    BY <1>2, StartNoAnswer DEF KeysOffers, CreateKey, RevokeKey
  <2>2. DOMAIN ui' = DOMAIN ui /\ ui'.keys = ui.keys /\ UNCHANGED server
    BY <1>2 DEF KeysOffers, CreateKey, RevokeKey, KeysInv
  <2> QED
    BY <2>1, <2>2, KeysSame
<1>3. ASSUME NEW s \in Slots, KeysRefreshed(s), UNCHANGED server
      PROVE  KeysInv'
  <2>1. NoNewAnswer
    BY <1>3, EndNoAnswer DEF KeysRefreshed
  <2>2. DOMAIN ui' = DOMAIN ui /\ ui'.keys = calls[s].ans
    BY <1>3 DEF KeysRefreshed, KeysInv
  <2>3. NoneTooEarly(calls[s].ans)
    BY <1>3 DEF KeysRefreshed, Answered, KeysInv
  <2> QED
    BY <1>3, <2>1, <2>2, <2>3, KeysKeep DEF KeysInv, NoNewAnswer
<1>4. ASSUME NEW s \in Slots, KeyCreated(s) \/ KeyRevoked(s), UNCHANGED server
      PROVE  KeysInv'
  <2>1. NoNewAnswer
    BY <1>4, SendNoAnswer DEF KeyCreated, KeyRevoked, RefreshKeys, Send
  <2> QED
    BY <1>4, <2>1, KeysSame DEF KeyCreated, KeyRevoked
<1>5. ASSUME NEW s \in Slots, KeysCatch(s), UNCHANGED server
      PROVE  KeysInv'
  <2>1. NoNewAnswer
    BY <1>5, EndNoAnswer DEF KeysCatch
  <2>2. DOMAIN ui' = DOMAIN ui /\ ui'.keys = ui.keys
    BY <1>5 DEF KeysCatch, KeysInv
  <2> QED
    BY <1>5, <2>1, <2>2, KeysSame
<1>6. UNCHANGED server
  BY DEF KeysMount, KeysOffers, KeysContinue
<1> QED
  BY <1>1, <1>2, <1>3, <1>4, <1>5, <1>6 DEF KeysContinue

\* The server revokes for good.
LEMMA KeysServeStep ==
  ASSUME SceneInv, KeysInv, ui.page = "keys", NEW s \in Slots, KeysServe(s)
  PROVE  KeysInv' /\ (server.keys[ApiKey] = "revoked" => server'.keys[ApiKey] = "revoked") /\ UNCHANGED ui
<1>1. PICK new, ans : /\ Serve(s, new, ans)
                      /\ \/ /\ \E k \in KeyIds : server.keys[k] = "none" /\ new = [server EXCEPT !.keys[k] = "live"]
                            /\ calls[s].then # "refreshKeys"
                         \/ new = server /\ ans = server.keys
                         \/ /\ new = [server EXCEPT !.keys[calls[s].arg] = "revoked"]
                            /\ calls[s].then # "refreshKeys"
  BY DEF KeysServe, CreateApiKey, ListApiKeys, RevokeApiKey
<1>2. server' = new /\ UNCHANGED ui
  BY <1>1, ServeIs
<1>3. /\ "keys" \in DOMAIN server' /\ server'.keys \in KeyTable
      /\ \A k \in KeyIds : server.keys[k] = "revoked" => server'.keys[k] = "revoked"
  BY <1>1, <1>2 DEF KeysInv, KeyTable, KeyStates
<1>4. \A o \in Slots : calls'[o].st = "back" /\ calls'[o].then = "refreshKeys" =>
        calls'[o] = calls[o] \/ calls'[o].ans = server.keys
  BY <1>1, ServedAnswer
<1>5. NoneTooEarly(server.keys) /\ NoneTooEarly(ui.keys)
  BY DEF KeysInv, NoneTooEarly
<1>6. KeysInv'
  BY <1>2, <1>3, <1>4, <1>5, KeysKeep
<1> QED
  BY <1>2, <1>3, <1>6, KeysAssumption

LEMMA AgentStep ==
  ASSUME SceneInv, KeysInv, AgentInv, AgentNext
  PROVE  AgentInv'
<1>1. UNCHANGED <<ui, server>> /\ ui.page = "keys"
  BY DEF AgentNext, apiVars
<1>2. CASE RecordStep
  <2>1. (ui.keys[ApiKey] = "revoked") \in BOOLEAN
    OBVIOUS
  <2>2. ui.keys[ApiKey] = "revoked" => server.keys[ApiKey] = "revoked"
    BY <1>1, KeysAssumption DEF KeysInv, NoneTooEarly
  <2> QED
    BY <1>1, <1>2, <2>1, <2>2 DEF RecordStep, Emit, AgentInv
<1>3. CASE OrgFromApiKey
  BY <1>1, <1>3 DEF OrgFromApiKey, ResolveApiKey, AgentInv
<1>4. CASE IngestEvent
  BY <1>1, <1>4 DEF IngestEvent, AgentInv
<1>5. CASE EmitAnswered
  BY <1>1, <1>5 DEF EmitAnswered, AgentInv
<1>6. CASE EmitBreaks
  BY <1>1, <1>6 DEF EmitBreaks, AgentInv
<1> QED
  BY <1>2, <1>3, <1>4, <1>5, <1>6 DEF AgentNext

------------------------------------------------------------------------------
\* The session hook.
LEMMA SessionKeep ==
  ASSUME SessionInv, ui.page = "session", DOMAIN ui' = DOMAIN ui,
         {"session", "orgs"} \subseteq DOMAIN server', server.orgs \subseteq server'.orgs,
         \A u \in Users : ui'.token = u => u \in server'.orgs \cup ui'.unsure,
         \A s \in Slots : calls'[s].st = "back" => calls'[s] = calls[s] \/ calls'[s].arg \in server'.orgs
  PROVE  SessionInv'
BY DEF SessionInv

LEMMA ApplyStep ==
  ASSUME SceneInv, SessionInv, ui.page = "session", NEW u, Apply(u)
  PROVE  /\ NoNewAnswer /\ DOMAIN ui' = DOMAIN ui /\ ui'.unsure = ui.unsure
         /\ ui'.token = ui.token \/ ui'.token = "none"
<1>1. CASE u = "none"
  BY <1>1, SameNoAnswer DEF Apply, SessionInv
<1>2. CASE u # "none"
  BY <1>2, StartNoAnswer DEF Apply
<1> QED
  BY <1>1, <1>2

LEMMA SessionStep ==
  ASSUME SceneInv, SessionInv, ui.page = "session", SignInNext
  PROVE  SessionInv'
<1>1. ASSUME NEW u, Apply(u), \/ UNCHANGED server
                             \/ server' = [server EXCEPT !.session = u]
      PROVE  SessionInv'
  <2>1. {"session", "orgs"} \subseteq DOMAIN server' /\ server'.orgs = server.orgs
    BY <1>1 DEF SessionInv
  <2>2. \A v \in Users : ui'.token = v => v \in server'.orgs \cup ui'.unsure
    BY <1>1, <2>1, ApplyStep, SignInAssumption DEF SessionInv
  <2>3. NoNewAnswer /\ DOMAIN ui' = DOMAIN ui
    BY <1>1, ApplyStep
  <2> QED
    BY <2>1, <2>2, <2>3, SessionKeep DEF NoNewAnswer
<1>2. CASE OrgMadeLate
  <2>1. PICK u \in ui.unsure : server' = [server EXCEPT !.orgs = @ \cup {u}]
    BY <1>2 DEF OrgMadeLate
  <2>2. {"session", "orgs"} \subseteq DOMAIN server' /\ server.orgs \subseteq server'.orgs
    BY <2>1 DEF SessionInv
  <2> QED
    BY <1>2, <2>2, SessionKeep DEF OrgMadeLate, SessionInv
<1>3. ASSUME NEW s \in Slots, SignInServe(s)
      PROVE  SessionInv'
  <2>1. PICK new, ans : Serve(s, new, ans) /\ new = [server EXCEPT !.orgs = @ \cup {calls[s].arg}]
    BY <1>3, ServeIs, PageOf DEF SignInServe
  <2>2. server' = new /\ UNCHANGED ui
    BY <2>1, ServeIs
  <2>3. /\ {"session", "orgs"} \subseteq DOMAIN server' /\ server.orgs \subseteq server'.orgs
        /\ calls[s].arg \in server'.orgs
    BY <2>1, <2>2 DEF SessionInv
  <2>4. \A o \in Slots : calls'[o].st = "back" => calls'[o] = calls[o] \/ calls'[o].arg = calls[s].arg
    BY <2>1, ServedAnswer
  <2> QED
    BY <2>2, <2>3, <2>4, SessionKeep DEF SessionInv
<1>4. ASSUME NEW s \in Slots, SignInContinue(s)
      PROVE  SessionInv'
  <2>1. OrgEnsured(s) /\ UNCHANGED server
    BY <1>4, AnsweredIs, OpenIs, ThrowIs, PageOf
       DEF SignInContinue, Submitted, LoginCatch, Exchanged, PasswordUpdated, ResetCatch
  <2>2. NoNewAnswer
    BY <2>1, EndNoAnswer DEF OrgEnsured
  <2>3. /\ DOMAIN ui' = DOMAIN ui /\ ui'.token = calls[s].arg
        /\ ui'.unsure = IF calls[s].st = "back" THEN ui.unsure ELSE ui.unsure \cup {calls[s].arg}
    BY <2>1 DEF OrgEnsured, SessionInv
  <2>4. calls[s].st = "back" => calls[s].arg \in server.orgs
    BY DEF SessionInv
  <2> QED
    BY <2>1, <2>2, <2>3, <2>4, SessionKeep DEF SessionInv, NoNewAnswer
<1> QED
  BY <1>1, <1>2, <1>3, <1>4
     DEF SignInNext, SessionMount, AuthEvent, LoginOffers, BackToLogin, LinkMount, CallbackTimeout, LinkSession,
         NewPassword

------------------------------------------------------------------------------
\* The login form.
LEMMA LoginKeep ==
  ASSUME LoginInv, ui.page = "login", DOMAIN ui' = DOMAIN ui,
         "mails" \in DOMAIN server', server.mails \subseteq server'.mails,
         ui'.sent /\ ~ ui'.edited => <<ui'.mode, ui'.email>> \in server'.mails,
         \A s \in Slots : Open(s)' =>
           /\ Open(s) /\ calls'[s].arg = calls[s].arg
           /\ ui'.busy /\ ~ ui'.sent
           /\ ~ ui'.edited => ~ ui.edited /\ ui'.mode = ui.mode /\ ui'.email = ui.email,
         \A s \in Slots : calls'[s].st = "back" =>
           \/ calls'[s] = calls[s]
           \/ calls'[s].ans = "session" \/ (calls'[s].ans = "mail" /\ calls'[s].arg \in server'.mails)
  PROVE  LoginInv'
<1>1. ui'.sent /\ ~ ui'.edited => <<ui'.mode, ui'.email>> \in server'.mails
  OBVIOUS
<1>2. \A s \in Slots : Open(s)' =>
         /\ ui'.busy /\ ~ ui'.sent
         /\ ~ ui'.edited => calls'[s].arg = <<ui'.mode, ui'.email>>
         /\ \A o \in Slots \ {s} : ~ Open(o)'
  BY DEF LoginInv
<1>3. \A s \in Slots : calls'[s].st = "back" =>
         calls'[s].ans = "session" \/ (calls'[s].ans = "mail" /\ calls'[s].arg \in server'.mails)
  BY DEF LoginInv
<1> QED
  BY <1>1, <1>2, <1>3 DEF LoginInv

LEMMA LoginOffersStep ==
  ASSUME SceneInv, LoginInv, LoginOffers
  PROVE  LoginInv'
<1>1. ui.page = "login" /\ UNCHANGED server
  BY DEF LoginOffers
<1>2. CASE UNCHANGED calls /\ DOMAIN ui' = DOMAIN ui /\ ui'.busy = ui.busy /\ ~ ui'.sent /\ ui'.edited
  BY <1>1, <1>2, LoginKeep DEF LoginInv, Open
<1>3. CASE Submit /\ ~ ui.sent
  <2> DEFINE c == Call("write", {"busy"}, <<ui.mode, ui.email>>, "submit")
  <2>1. /\ DOMAIN ui' = DOMAIN ui /\ ui'.busy /\ ~ ui'.sent
        /\ ui'.mode = ui.mode /\ ui'.email = ui.email /\ ~ ui.busy
    BY <1>3 DEF Submit, LoginInv
  <2>2. SamePage
    BY <1>3 DEF Submit, SceneInv, SamePage
  <2>3. PICK s \in Slots : Vacant(s) /\ calls' = [calls EXCEPT ![s] = c]
    BY <1>1, <1>3, <2>2, StartScene DEF Submit, Sends, SignInSends
  <2>4. c.st = "out" /\ c.arg = <<ui.mode, ui.email>>
    BY DEF Call
  <2> HIDE DEF c
  <2>5. calls'[s] = c /\ \A o \in Slots \ {s} : calls'[o] = calls[o]
    BY <2>3 DEF SceneInv
  <2>6. \A o \in Slots : ~ Open(o)
    BY <1>1, <2>1 DEF LoginInv
  <2>7. \A o \in Slots : Open(o)' => o = s
    BY <2>5, <2>6 DEF Open
  <2>8. \A o \in Slots : calls'[o].st # "back"
    BY <2>4, <2>5, <2>6 DEF Open
  <2>9. \A o \in Slots : Open(o)' =>
          /\ ui'.busy /\ ~ ui'.sent
          /\ ~ ui'.edited => calls'[o].arg = <<ui'.mode, ui'.email>>
          /\ \A q \in Slots \ {o} : ~ Open(q)'
    BY <2>1, <2>4, <2>5, <2>7
  <2> QED
    BY <1>1, <2>1, <2>8, <2>9 DEF LoginInv
<1>4. CASE ui.sent
  <2>1. UNCHANGED calls /\ ui' = [ui EXCEPT !.sent = FALSE, !.mode = "login", !.edited = TRUE]
    BY <1>4 DEF LoginOffers
  <2> QED
    BY <1>1, <1>2, <2>1 DEF LoginInv
<1>5. CASE ~ ui.sent /\ ~ Submit
  <2>1. PICK u, m : /\ UNCHANGED calls
                    /\ \/ ui' = [ui EXCEPT !.email = u, !.edited = TRUE]
                       \/ ui' = [ui EXCEPT !.mode = m, !.err = FALSE, !.edited = TRUE]
    BY <1>5 DEF LoginOffers, SetEmail, SetMode
  <2> QED
    BY <1>1, <1>2, <1>5, <2>1 DEF LoginInv
<1> QED
  BY <1>3, <1>4, <1>5

LEMMA BackToLoginStep ==
  ASSUME SceneInv, LoginInv, BackToLogin
  PROVE  LoginInv'
<1>1. PICK u \in Users : ui' = LoginForm(u) /\ NewDocument(LoginForm(u))
  BY DEF BackToLogin, NewDocument
<1>2. /\ {"mode", "email", "busy", "err", "sent", "left", "edited"} \subseteq DOMAIN ui'
      /\ ~ ui'.sent
  BY <1>1 DEF LoginForm
<1>3. \A s \in Slots : calls'[s].st \in {"free", "late"}
  BY <1>1, GivenUpIsNoAnswer DEF NewDocument, SceneInv
<1> QED
  BY <1>1, <1>2, <1>3 DEF LoginInv, NewDocument, BackToLogin, Open

LEMMA SubmitServeStep ==
  ASSUME SceneInv, LoginInv, ui.page = "login", NEW s \in Slots, SignInServe(s)
  PROVE  LoginInv'
<1>1. PICK new, ans : /\ Serve(s, new, ans)
                      /\ \/ new = server /\ ans = "session"
                         \/ new = [server EXCEPT !.mails = @ \cup {calls[s].arg}] /\ ans = "mail"
  BY ServeIs, PageOf DEF SignInServe
<1>2. server' = new /\ UNCHANGED ui
  BY <1>1, ServeIs
<1>3. /\ "mails" \in DOMAIN server' /\ server.mails \subseteq server'.mails
      /\ ans = "session" \/ (ans = "mail" /\ calls[s].arg \in server'.mails)
  BY <1>1, <1>2 DEF LoginInv
<1>4. \A o \in Slots : calls'[o].st = "back" =>
        \/ calls'[o] = calls[o]
        \/ o = s /\ calls[s].st = "out" /\ calls'[o].arg = calls[s].arg /\ calls'[o].ans = ans
  BY <1>1, ServedAnswer
<1>5. \A o \in Slots : Open(o)' => Open(o) /\ calls'[o].arg = calls[o].arg
  <2>1. \A o \in Slots : calls'[o].st \in {"out", "refused"} => calls'[o] = calls[o]
    <3>1. \A o \in Slots \ {s} : calls'[o] = calls[o]
      BY <1>1 DEF Serve, SceneInv
    <3>2. IsCall(calls[s])
      BY DEF SceneInv, CallOf
    <3>3. Free.st = "free" /\ Back(calls[s], ans).st = "back"
      BY <3>2 DEF Free, Back, IsCall, Fields
    <3>4. calls'[s] = Free \/ calls'[s] = Back(calls[s], ans)
      BY <1>1 DEF Serve, SceneInv
    <3> QED
      BY <3>1, <3>3, <3>4
  <2> QED
    BY <1>4, <2>1 DEF Open
<1> QED
  BY <1>2, <1>3, <1>4, <1>5, LoginKeep DEF LoginInv

LEMMA SubmittedStep ==
  ASSUME SceneInv, LoginInv, ui.page = "login", NEW s \in Slots, Submitted(s) \/ LoginCatch(s), UNCHANGED server
  PROVE  LoginInv'
<1>1. NoNewAnswer
  BY EndNoAnswer DEF Submitted, LoginCatch
<1>2. Open(s)
  BY DEF Submitted, LoginCatch, Answered, Open, Throw
<1>3. \A o \in Slots : ~ Open(o)'
  <2>1. \A o \in Slots \ {s} : calls'[o] = calls[o]
    BY DEF Submitted, LoginCatch, Finish, Throw, SceneInv
  <2>2. calls'[s] = Free \/ calls'[s] = GivenUp(calls[s])
    BY DEF Submitted, LoginCatch, Finish, Throw, SceneInv
  <2>3. calls'[s].st \in {"free", "late"}
    <3>1. GivenUp(calls[s]).st \in {"free", "late"}
      BY GivenUpIsNoAnswer DEF SceneInv
    <3>2. Free.st = "free"
      BY DEF Free
    <3> QED
      BY <2>2, <3>1, <3>2
  <2>4. \A o \in Slots \ {s} : ~ Open(o)
    BY <1>2 DEF LoginInv
  <2> QED
    BY <2>1, <2>3, <2>4 DEF Open
<1>4. DOMAIN ui' = DOMAIN ui /\ ui'.edited = ui.edited /\ ui'.mode = ui.mode /\ ui'.email = ui.email
  BY DEF Submitted, LoginCatch, LoginInv
<1>5. ui'.sent /\ ~ ui'.edited => <<ui'.mode, ui'.email>> \in server'.mails
  <2>1. CASE Submitted(s)
    <3>1. CASE calls[s].ans = "session"
      BY <1>2, <2>1, <3>1 DEF Submitted, LoginInv
    <3>2. CASE calls[s].ans # "session"
      <4>1. calls[s].ans = "mail" /\ calls[s].arg \in server.mails
        BY <2>1, <3>2 DEF Submitted, Answered, LoginInv
      <4>2. ~ ui.edited => calls[s].arg = <<ui.mode, ui.email>>
        BY <1>2 DEF LoginInv
      <4> QED
        BY <1>4, <4>1, <4>2
    <3> QED
      BY <3>1, <3>2
  <2>2. CASE LoginCatch(s)
    BY <1>2, <2>2 DEF LoginCatch, LoginInv
  <2> QED
    BY <2>1, <2>2
<1> QED
  BY <1>1, <1>3, <1>4, <1>5, LoginKeep DEF LoginInv, NoNewAnswer

LEMMA LoginStep ==
  ASSUME SceneInv, LoginInv, ui.page = "login", SignInNext
  PROVE  LoginInv'
<1>1. ASSUME NEW s \in Slots, SignInContinue(s)
      PROVE  LoginInv'
  <2>1. (Submitted(s) \/ LoginCatch(s)) /\ UNCHANGED server
    BY <1>1, AnsweredIs, OpenIs, ThrowIs, PageOf
       DEF SignInContinue, OrgEnsured, Exchanged, PasswordUpdated, ResetCatch
  <2> QED
    BY <2>1, SubmittedStep
<1> QED
  BY <1>1, LoginOffersStep, BackToLoginStep, SubmitServeStep
     DEF SignInNext, SessionMount, AuthEvent, OrgMadeLate, LinkMount, CallbackTimeout, LinkSession, NewPassword

------------------------------------------------------------------------------
\* The form for a new password.
LEMMA ResetKeep ==
  ASSUME ResetInv, ui.page = "reset", DOMAIN ui' = DOMAIN ui,
         {"session", "changed"} \subseteq DOMAIN server', server.changed => server'.changed,
         ui'.done => ui.done \/ server'.changed,
         \A s \in Slots : calls'[s].st = "back" /\ calls'[s].then = "updateUser" =>
           calls'[s] = calls[s] \/ server'.changed
  PROVE  ResetInv'
BY DEF ResetInv

LEMMA ResetServeStep ==
  ASSUME SceneInv, ResetInv, ui.page = "reset", NEW s \in Slots, SignInServe(s)
  PROVE  ResetInv'
<1>1. PICK new, ans : /\ Serve(s, new, ans)
                      /\ \/ /\ calls[s].then = "exchange"
                            /\ \E u \in Users : new = [server EXCEPT !.session = u]
                         \/ new = [server EXCEPT !.changed = TRUE]
  BY ServeIs, PageOf DEF SignInServe
<1>2. server' = new /\ UNCHANGED ui
  BY <1>1, ServeIs
<1>3. CASE calls[s].then = "exchange" /\ \E u \in Users : new = [server EXCEPT !.session = u]
  <2>1. {"session", "changed"} \subseteq DOMAIN server' /\ server'.changed = server.changed
    BY <1>2, <1>3 DEF ResetInv
  <2>2. \A o \in Slots : calls'[o].st = "back" /\ calls'[o].then = "updateUser" => calls'[o] = calls[o]
    BY <1>1, <1>3, ServedAnswer
  <2> QED
    BY <1>2, <2>1, <2>2, ResetKeep
<1>4. CASE new = [server EXCEPT !.changed = TRUE]
  <2>1. {"session", "changed"} \subseteq DOMAIN server' /\ server'.changed
    BY <1>2, <1>4 DEF ResetInv
  <2> QED
    BY <1>2, <2>1, ResetKeep
<1> QED
  BY <1>1, <1>3, <1>4

LEMMA ResetContinueStep ==
  ASSUME SceneInv, ResetInv, ui.page = "reset", NEW s \in Slots, SignInContinue(s)
  PROVE  ResetInv'
<1>1. (Exchanged(s) \/ PasswordUpdated(s) \/ ResetCatch(s)) /\ UNCHANGED server
  BY AnsweredIs, OpenIs, ThrowIs, PageOf DEF SignInContinue, OrgEnsured, Submitted, LoginCatch
<1>2. NoNewAnswer
  BY <1>1, EndNoAnswer DEF Exchanged, PasswordUpdated, ResetCatch
<1>3. DOMAIN ui' = DOMAIN ui
  BY <1>1 DEF Exchanged, PasswordUpdated, ResetCatch, AfterGetSession, ResetInv
<1>4. ui'.done => ui.done \/ server.changed
  <2>1. CASE PasswordUpdated(s)
    BY <2>1 DEF PasswordUpdated, Answered, ResetInv
  <2>2. CASE Exchanged(s)
    BY <2>2 DEF Exchanged, AfterGetSession, ResetInv
  <2>3. CASE ResetCatch(s)
    BY <2>3 DEF ResetCatch, ResetInv
  <2> QED
    BY <1>1, <2>1, <2>2, <2>3
<1> QED
  BY <1>1, <1>2, <1>3, <1>4, ResetKeep DEF ResetInv, NoNewAnswer

LEMMA ResetStep ==
  ASSUME SceneInv, ResetInv, ui.page = "reset", SignInNext
  PROVE  ResetInv'
<1>1. CASE LinkMount
  <2>1. NoNewAnswer
    BY <1>1, StartNoAnswer, SameNoAnswer DEF LinkMount, Exchange
  <2>2. DOMAIN ui' = DOMAIN ui /\ ui'.done = ui.done /\ UNCHANGED server
    BY <1>1 DEF LinkMount, AfterGetSession, ResetInv
  <2> QED
    BY <2>1, <2>2, ResetKeep DEF ResetInv, NoNewAnswer
<1>2. CASE LinkSession
  <2>1. PICK u : server' = [server EXCEPT !.session = u]
    BY <1>2 DEF LinkSession
  <2>2. {"session", "changed"} \subseteq DOMAIN server' /\ server'.changed = server.changed
    BY <2>1 DEF ResetInv
  <2> QED
    BY <1>2, <2>2, ResetKeep DEF LinkSession
<1>3. CASE NewPassword
  <2>1. NoNewAnswer
    BY <1>3, StartNoAnswer DEF NewPassword
  <2>2. DOMAIN ui' = DOMAIN ui /\ ui'.done = ui.done /\ UNCHANGED server
    BY <1>3 DEF NewPassword, ResetInv
  <2> QED
    BY <2>1, <2>2, ResetKeep DEF ResetInv, NoNewAnswer
<1> QED
  BY <1>1, <1>2, <1>3, ResetServeStep, ResetContinueStep
     DEF SignInNext, SessionMount, AuthEvent, OrgMadeLate, LoginOffers, BackToLogin, CallbackTimeout

------------------------------------------------------------------------------
\* All pages.
LEMMA CardNames ==
  /\ SessionHook.page = "session" /\ KeysPage.page = "keys"
  /\ \A u : LoginForm(u).page = "login" /\ ResetForm(u).page = "reset" /\ Callback(u).page = "callback"
  /\ \A card \in {ListHalf, ViewHalf, DemoHalf, KeyCard, PolicyCard, ScheduleCard, HookCard, TeamCard, TrendCard} :
       card.page \notin {"session", "keys", "login", "reset"}
  /\ \A upgraded : BillingCard(upgraded).page = "billing"
<1>1. /\ SessionHook.page = "session" /\ KeysPage.page = "keys"
      /\ \A u : LoginForm(u).page = "login" /\ ResetForm(u).page = "reset" /\ Callback(u).page = "callback"
      /\ \A upgraded : BillingCard(upgraded).page = "billing"
  BY DEF SessionHook, KeysPage, LoginForm, ResetForm, Callback, BillingCard
<1>2. /\ ListHalf.page = "list" /\ ViewHalf.page = "view" /\ DemoHalf.page = "demo" /\ KeyCard.page = "byok"
      /\ PolicyCard.page = "policy" /\ ScheduleCard.page = "schedule" /\ HookCard.page = "webhook"
      /\ TeamCard.page = "team" /\ TrendCard.page = "insights"
  BY DEF ListHalf, ViewHalf, DemoHalf, KeyCard, PolicyCard, ScheduleCard, HookCard, TeamCard, TrendCard
<1> QED
  BY <1>1, <1>2

LEMMA InitCard ==
  ASSUME Init
  PROVE  \/ KeysInit
         \/ SignInInit
         \/ ui.page \notin {"session", "keys", "login", "reset"}
BY CardNames DEF Init, WorkspaceInit, SettingsInit, TeamPageInit, BillingInit, InsightsInit

LEMMA SignInInitPage ==
  ASSUME SignInInit, \A s \in Slots : calls[s].st = "free"
  PROVE  KeysInv /\ SessionInv /\ LoginInv /\ ResetInv
<1>1. ASSUME ui = SessionHook, server \in [session : {"none"} \cup Users, orgs : SUBSET Users]
      PROVE  KeysInv /\ SessionInv /\ LoginInv /\ ResetInv
  <2>1. {"token", "loading", "unsure"} \subseteq DOMAIN ui /\ ui.token = "none"
    BY <1>1 DEF SessionHook
  <2>2. {"session", "orgs"} \subseteq DOMAIN server
    BY <1>1
  <2> QED
    BY <1>1, <2>1, <2>2, CardNames, SignInAssumption DEF KeysInv, SessionInv, LoginInv, ResetInv
<1>2. ASSUME NEW u \in Users, ui = LoginForm(u), server = [mails |-> {}]
      PROVE  KeysInv /\ SessionInv /\ LoginInv /\ ResetInv
  <2>1. {"mode", "email", "busy", "err", "sent", "left", "edited"} \subseteq DOMAIN ui /\ ~ ui.sent
    BY <1>2 DEF LoginForm
  <2>2. "mails" \in DOMAIN server
    BY <1>2
  <2> QED
    BY <1>2, <2>1, <2>2, CardNames DEF KeysInv, SessionInv, LoginInv, ResetInv, Open
<1>3. ASSUME NEW l, ui = ResetForm(l), server \in [session : {"none"} \cup Users, changed : {FALSE}]
      PROVE  KeysInv /\ SessionInv /\ LoginInv /\ ResetInv
  <2>1. {"link", "ready", "busy", "err", "done"} \subseteq DOMAIN ui /\ ~ ui.done
    BY <1>3 DEF ResetForm
  <2>2. {"session", "changed"} \subseteq DOMAIN server
    BY <1>3
  <2> QED
    BY <1>3, <2>1, <2>2, CardNames DEF KeysInv, SessionInv, LoginInv, ResetInv
<1>4. ASSUME NEW l, ui = Callback(l)
      PROVE  KeysInv /\ SessionInv /\ LoginInv /\ ResetInv
  BY <1>4, CardNames DEF KeysInv, SessionInv, LoginInv, ResetInv
<1> QED
  BY <1>1, <1>2, <1>3, <1>4 DEF SignInInit

LEMMA InitPage ==
  ASSUME Init
  PROVE  PageInv
<1>1. \A s \in Slots : calls[s].st = "free"
  BY DEF Init, Free
<1>2. AgentInv
  BY DEF Init, AgentInv, NoEmit
<1>3. ASSUME KeysInit
      PROVE  KeysInv /\ SessionInv /\ LoginInv /\ ResetInv
  <2>1. KeysInv
    BY <1>1, <1>3 DEF KeysInit, KeysInv, KeysPage, NoneTooEarly, KeyTable, KeyStates
  <2> QED
    BY <1>3, <2>1, CardNames DEF KeysInit, SessionInv, LoginInv, ResetInv
<1>4. ASSUME ui.page \notin {"session", "keys", "login", "reset"}
      PROVE  KeysInv /\ SessionInv /\ LoginInv /\ ResetInv
  BY <1>4 DEF KeysInv, SessionInv, LoginInv, ResetInv
<1> QED
  BY <1>1, <1>2, <1>3, <1>4, InitCard, SignInInitPage DEF PageInv

\* A call that the page gave up on is lost.
LEMMA LoseStep ==
  ASSUME SceneInv, PageInv, NEW s \in Slots, Lose(s), UNCHANGED agent
  PROVE  PageInv'
<1>1. NoNewAnswer
  BY EndNoAnswer
<1>2. UNCHANGED <<ui, server>>
  BY DEF Lose
<1>3. \A o \in Slots : Open(o)' => calls'[o] = calls[o]
  BY DEF Lose, Open, SceneInv, Free
<1>4. KeysInv'
  BY <1>1, <1>2, KeysSame DEF PageInv, KeysInv
<1>5. AgentInv'
  BY <1>2 DEF PageInv, AgentInv
<1>6. SessionInv' /\ ResetInv'
  BY <1>1, <1>2 DEF PageInv, SessionInv, ResetInv, NoNewAnswer
<1>7. LoginInv'
  <2>1. \A o \in Slots : Open(o)' => Open(o) /\ calls'[o].arg = calls[o].arg
    BY <1>3 DEF Open
  <2>2. CASE ui.page = "login"
    BY <1>1, <1>2, <2>1, <2>2, LoginKeep DEF PageInv, LoginInv, NoNewAnswer
  <2>3. CASE ui.page # "login"
    BY <1>2, <2>3 DEF LoginInv
  <2> QED
    BY <2>2, <2>3
<1> QED
  BY <1>4, <1>5, <1>6, <1>7 DEF PageInv

LEMMA NextPage ==
  ASSUME SceneInv, PageInv, [Next]_vars
  PROVE  PageInv'
<1>1. SamePage
  BY NextScene DEF SceneStep
<1>2. CASE UNCHANGED vars
  <2>1. KeysInv' /\ AgentInv'
    BY <1>2 DEF vars, apiVars, PageInv, KeysInv, AgentInv, NoneTooEarly
  <2>2. SessionInv' /\ ResetInv'
    BY <1>2 DEF vars, apiVars, PageInv, SessionInv, ResetInv
  <2>3. LoginInv'
    BY <1>2 DEF vars, apiVars, PageInv, LoginInv, Open
  <2> QED
    BY <2>1, <2>2, <2>3 DEF PageInv
<1>3. CASE KeysNext
  <2>1. ui.page = "keys" /\ ui'.page = "keys"
    BY <1>1, <1>3, KeysPageOnly DEF SamePage
  <2>2. CASE AgentNext
    <3>1. KeysInv'
      BY <2>2 DEF AgentNext, apiVars, PageInv, KeysInv, NoneTooEarly
    <3> QED
      BY <2>1, <2>2, <3>1, AgentStep DEF PageInv, SessionInv, LoginInv, ResetInv
  <2>3. CASE ~ AgentNext
    <3>1. KeysInv' /\ (server.keys[ApiKey] = "revoked" => server'.keys[ApiKey] = "revoked")
      BY <1>3, <2>1, <2>3, KeysPageStep, KeysServeStep DEF KeysNext, PageInv
    <3>2. UNCHANGED agent
      BY <1>3, <2>3 DEF KeysNext
    <3> QED
      BY <2>1, <3>1, <3>2 DEF PageInv, AgentInv, SessionInv, LoginInv, ResetInv
  <2> QED
    BY <2>2, <2>3
<1>4. CASE SignInNext /\ UNCHANGED agent
  <2>1. ui.page \in {"session", "login", "reset", "callback"} /\ ui'.page = ui.page
    BY <1>1, <1>4, SignInPage DEF SamePage
  <2>2. KeysInv' /\ AgentInv'
    BY <1>4, <2>1 DEF PageInv, KeysInv, AgentInv
  <2>3. SessionInv'
    BY <1>4, <2>1, SessionStep DEF PageInv, SessionInv
  <2>4. LoginInv'
    BY <1>4, <2>1, LoginStep DEF PageInv, LoginInv
  <2>5. ResetInv'
    BY <1>4, <2>1, ResetStep DEF PageInv, ResetInv
  <2> QED
    BY <2>2, <2>3, <2>4, <2>5 DEF PageInv
<1>5. CASE /\ WorkspaceNext \/ SettingsNext \/ TeamPageNext \/ BillingNext \/ InsightsNext
           /\ UNCHANGED agent
  <2>1. ui'.page \notin {"keys", "session", "login", "reset"} /\ ui.page # "keys"
    BY <1>1, <1>5, WorkspacePage, SettingsPage, TeamPageOnly, BillingPage, InsightsPage DEF SamePage
  <2> QED
    BY <1>5, <2>1 DEF PageInv, KeysInv, AgentInv, SessionInv, LoginInv, ResetInv
<1> QED
  BY <1>2, <1>3, <1>4, <1>5, LoseStep DEF Next

(***************************************************************************)
(* What the calls that are under way may still change, on every page.      *)
(***************************************************************************)
THEOREM PageInvariant == Spec => []PageInv
<1>1. Init => PageInv
  BY InitPage
<1>2. SceneInv /\ PageInv /\ [Next]_vars => PageInv'
  BY NextPage
<1> QED
  BY <1>1, <1>2, SceneInvariant, PTL DEF Spec

(***************************************************************************)
(* Whatever is sent with a key after the page showed it as revoked is not  *)
(* recorded.                                                               *)
(***************************************************************************)
THEOREM RevokedKeysAreSilent == Spec => []RevokedIsSilent
<1>1. PageInv => RevokedIsSilent
  BY DEF PageInv, AgentInv, RevokedIsSilent
<1> QED
  BY <1>1, PageInvariant, PTL

(***************************************************************************)
(* An emit that resolves is an event on record.                            *)
(***************************************************************************)
THEOREM AcksAreRecords == Spec => []AckMeansRecorded
<1>1. PageInv => AckMeansRecorded
  BY DEF PageInv, AgentInv, AckMeansRecorded
<1> QED
  BY <1>1, PageInvariant, PTL

(***************************************************************************)
(* A token that a page gets is of a user with a workspace, or of one whose *)
(* bootstrap failed.                                                       *)
(***************************************************************************)
THEOREM TokensHaveWorkspaces == Spec => []TokenHasWorkspace
<1>1. PageInv => TokenHasWorkspace
  BY DEF PageInv, SessionInv, TokenHasWorkspace
<1> QED
  BY <1>1, PageInvariant, PTL

(***************************************************************************)
(* The sign-in pages report a mail, or a new password, that there is.      *)
(***************************************************************************)
THEOREM FormsSayWhatHappened == Spec => []SaysWhatHappened
<1>1. PageInv => SaysWhatHappened
  BY DEF PageInv, LoginInv, ResetInv, SaysWhatHappened
<1> QED
  BY <1>1, PageInvariant, PTL

==============================================================================
