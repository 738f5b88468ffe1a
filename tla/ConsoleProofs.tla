----------------------------- MODULE ConsoleProofs -----------------------------
(***************************************************************************)
(* Proofs about the dashboard, for any number of calls open at a time, any *)
(* keys, users, members, rules and sessions.                               *)
(*                                                                         *)
(* What every handler relies on comes first: whatever is under way was     *)
(* sent by a handler of the page that is open (SceneInv).                  *)
(***************************************************************************)
EXTENDS Console, TLAPS

Pages ==
  {"list", "view", "demo", "keys", "byok", "policy", "schedule", "webhook", "team", "billing",
   "insights", "session", "login", "reset", "callback"}

Kind(page, do, on, then) == [page |-> page, do |-> do, on |-> on, then |-> then]

\* Every call that the handlers of a page send, by the place that awaits it.
WorkspaceSends ==
  { Kind("list", "read", {"list"}, "loadSessions"),
    Kind("demo", "read", {"list"}, "loadSessions"),
    Kind("demo", "write", {"list", "busy"}, "seedDemo"),
    Kind("demo", "read", {"list", "busy"}, "listDemo"),
    Kind("demo", "read", {"view", "busy"}, "loadEvents"),
    Kind("demo", "read", {"view", "busy"}, "loadChain"),
    Kind("view", "read", {"view", "busy"}, "loadEvents"),
    Kind("view", "read", {"view", "busy"}, "loadChain"),
    Kind("view", "write", {"view", "busy"}, "audit"),
    Kind("view", "read", {}, "openEvidence"),
    Kind("view", "read", {"busy"}, "downloadEvidencePdf") }

KeysSends ==
  { Kind("keys", "read", {"keys"}, "refreshKeys"),
    Kind("keys", "write", {"keys"}, "createKey"),
    Kind("keys", "write", {"keys"}, "revokeKey") }

ByokSends ==
  { Kind("byok", "read", {"byok"}, "refresh"),
    Kind("byok", "write", {"byok"}, "save"),
    Kind("byok", "write", {"byok"}, "clear") }

PolicySends ==
  { Kind("policy", "read", {"rules"}, "refreshRules"),
    Kind("policy", "read", {"framework"}, "refreshFramework"),
    Kind("policy", "write", {"framework", "rules", "frameworkBusy"}, "changeFramework"),
    Kind("policy", "read", {"framework", "frameworkBusy"}, "allFramework"),
    Kind("policy", "read", {"rules", "frameworkBusy"}, "allRules"),
    Kind("policy", "write", {"rules", "ruleBusy"}, "addRule"),
    Kind("policy", "read", {"rules", "ruleBusy"}, "readRules"),
    Kind("policy", "write", {"rules"}, "removeRule") }

ScheduleSends ==
  { Kind("schedule", "read", {"schedule"}, "refreshSchedule"),
    Kind("schedule", "write", {"schedule", "busy"}, "saveSchedule"),
    Kind("schedule", "read", {"schedule", "busy"}, "readSchedule") }

WebhookSends ==
  { Kind("webhook", "read", {"webhook"}, "refreshWebhook"),
    Kind("webhook", "write", {"webhook", "busy"}, "saveWebhook"),
    Kind("webhook", "read", {"webhook", "busy"}, "readWebhook"),
    Kind("webhook", "write", {"webhook"}, "clearWebhook") }

TeamSends ==
  { Kind("team", "read", {"team"}, "refreshTeam"),
    Kind("team", "write", {"team", "busy"}, "invite"),
    Kind("team", "read", {"team", "busy"}, "readTeam"),
    Kind("team", "write", {"team"}, "revokeInvite"),
    Kind("team", "write", {"team"}, "changeRole"),
    Kind("team", "write", {"team"}, "removeMember") }

BillingSends ==
  { Kind("billing", "read", {"plan"}, "refreshPlan"),
    Kind("billing", "write", {"busy"}, "upgrade"),
    Kind("billing", "write", {"busy"}, "manage"),
    Kind("insights", "read", {"trend"}, "refreshTrend") }

SignInSends ==
  { Kind("session", "read", {"session"}, "ensureOrg"),
    Kind("login", "write", {"busy"}, "submit"),
    Kind("reset", "read", {}, "exchange"),
    Kind("reset", "write", {"busy"}, "updateUser"),
    Kind("callback", "read", {}, "exchange") }

Sends ==
  WorkspaceSends \cup KeysSends \cup ByokSends \cup PolicySends \cup ScheduleSends \cup WebhookSends
    \cup TeamSends \cup BillingSends \cup SignInSends

\* The call c is one that page sends, without the flags once the page gave up on it.
SentBy(page, c) ==
  \E k \in Sends : /\ k.page = page /\ k.do = c.do /\ k.then = c.then
                   /\ c.on = IF c.st = "late" THEN k.on \ Flags ELSE k.on

Fields    == {"st", "do", "on", "arg", "then", "ans"}
IsCall(c) == c = [f \in Fields |-> c[f]]

CallOf(page, c) ==
  /\ IsCall(c)
  /\ \/ c.st = "free" /\ c.do = "none" /\ c.on = {} /\ c.then = ""
     \/ /\ c.st \in {"out", "back", "refused", "late"}
        /\ SentBy(page, c)
        /\ c.st = "late" => c.do = "write"

TrustTyped(page, t) ==
  /\ t \in [Things(page) -> Trusts]
  /\ \A r \in Flags \cap Things(page) : t[r] # "failed"

\* The page that is open stays the one that is open.
SamePage == ui'.page = ui.page /\ "page" \in DOMAIN ui'

SceneInv ==
  /\ ui.page \in Pages /\ "page" \in DOMAIN ui
  /\ DOMAIN calls = Slots
  /\ \A s \in Slots : CallOf(ui.page, calls[s])
  /\ TrustTyped(ui.page, trust)

SceneStep == SceneInv' /\ SamePage

------------------------------------------------------------------------------
\* The operators of Api, whatever page uses them.

\* A page sends calls about its own things only.
LEMMA SendsOwn ==
  ASSUME NEW k \in Sends
  PROVE  k.page \in Pages /\ k.do \in {"read", "write"} /\ k.on \subseteq Things(k.page)
<1>1. k.page \in Pages /\ k.do \in {"read", "write"}
  BY DEF Sends, WorkspaceSends, KeysSends, ByokSends, PolicySends, ScheduleSends, WebhookSends,
       TeamSends, BillingSends, SignInSends, Kind, Pages
<1>2. k.on \subseteq Things(k.page)
  <2>1. CASE k.page \in {"list", "demo", "view", "keys"}
    BY <2>1 DEF Sends, WorkspaceSends, KeysSends, ByokSends, PolicySends, ScheduleSends, WebhookSends,
       TeamSends, BillingSends, SignInSends, Kind, Things
  <2>2. CASE k.page \in {"byok", "policy"}
    BY <2>2 DEF Sends, WorkspaceSends, KeysSends, ByokSends, PolicySends, ScheduleSends, WebhookSends,
       TeamSends, BillingSends, SignInSends, Kind, Things
  <2>3. CASE k.page \in {"schedule", "webhook", "team"}
    BY <2>3 DEF Sends, WorkspaceSends, KeysSends, ByokSends, PolicySends, ScheduleSends, WebhookSends,
       TeamSends, BillingSends, SignInSends, Kind, Things
  <2>4. CASE k.page \in {"billing", "insights", "session", "login", "reset", "callback"}
    BY <2>4 DEF Sends, WorkspaceSends, KeysSends, ByokSends, PolicySends, ScheduleSends, WebhookSends,
       TeamSends, BillingSends, SignInSends, Kind, Things
  <2> QED
    BY <1>1, <2>1, <2>2, <2>3, <2>4 DEF Pages
<1> QED
  BY <1>1, <1>2

\* A call that is not free awaits in a place of the page that is open.
LEMMA PageOfCall ==
  ASSUME SceneInv, NEW s \in Slots, ~ Vacant(s)
  PROVE  \E k \in Sends : k.page = ui.page /\ k.do = calls[s].do /\ k.then = calls[s].then
BY DEF SceneInv, CallOf, SentBy, Vacant

\* What becomes of a call leaves it one of the page's.
LEMMA FreeOf ==
  ASSUME NEW page
  PROVE  CallOf(page, Free)
<1>1. IsCall(Free)
  BY DEF IsCall, Fields, Free
<1>2. Free.st = "free" /\ Free.do = "none" /\ Free.on = {} /\ Free.then = ""
  BY DEF Free
<1> QED
  BY <1>1, <1>2 DEF CallOf

LEMMA BackOf ==
  ASSUME NEW page, NEW c, CallOf(page, c), c.st = "out", NEW ans
  PROVE  CallOf(page, Back(c, ans))
BY DEF CallOf, IsCall, Fields, SentBy, Back

LEMMA RefusedOf ==
  ASSUME NEW page, NEW c, CallOf(page, c), c.st = "out"
  PROVE  CallOf(page, [c EXCEPT !.st = "refused"])
BY DEF CallOf, IsCall, Fields, SentBy

LEMMA GivenUpOf ==
  ASSUME NEW page, NEW c, CallOf(page, c)
  PROVE  CallOf(page, GivenUp(c))
<1>1. CASE ~ (c.st \in {"out", "late"} /\ c.do = "write")
  BY <1>1, FreeOf DEF GivenUp
<1>2. CASE c.st \in {"out", "late"} /\ c.do = "write"
  <2> DEFINE d == [c EXCEPT !.st = "late", !.on = c.on \ Flags]
  <2>1. IsCall(c)
    BY <1>2 DEF CallOf
  <2>2. /\ IsCall(d) /\ d.st = "late" /\ d.do = "write" /\ d.then = c.then
        /\ d.on = c.on \ Flags
    BY <1>2, <2>1 DEF IsCall, Fields
  <2>3. PICK k \in Sends : /\ k.page = page /\ k.do = c.do /\ k.then = c.then
                           /\ c.on = IF c.st = "late" THEN k.on \ Flags ELSE k.on
    BY <1>2 DEF CallOf, SentBy
  <2>4. d.on = k.on \ Flags
    BY <2>2, <2>3
  <2> HIDE DEF d
  <2>5. SentBy(page, d)
    BY <1>2, <2>2, <2>3, <2>4 DEF SentBy
  <2>6. CallOf(page, d)
    BY <2>2, <2>5 DEF CallOf
  <2> QED
    BY <1>2, <2>6 DEF GivenUp, d
<1> QED
  BY <1>1, <1>2

LEMMA SendTyped ==
  ASSUME SceneInv, NEW base, TrustTyped(ui.page, base), NEW new, SendFrom(base, new),
         SamePage
  PROVE  /\ TrustTyped(ui.page, trust)'
         /\ calls' = [s \in Slots |-> IF s \in DOMAIN new THEN new[s] ELSE calls[s]]
<1>1. DOMAIN trust = Things(ui.page)
  BY DEF SceneInv, TrustTyped
<1>2. /\ trust' \in [Things(ui.page) -> Trusts]
      /\ \A r \in Flags \cap Things(ui.page) : trust'[r] # "failed"
  BY <1>1 DEF SendFrom, TrustTyped, Trusts
<1> QED
  BY <1>2 DEF SendFrom, TrustTyped, SamePage

LEMMA SentTyped ==
  ASSUME NEW page, NEW do, NEW on, NEW arg, NEW then, Kind(page, do, on, then) \in Sends
  PROVE  CallOf(page, Call(do, on, arg, then))
<1>1. LET k == Kind(page, do, on, then)
      IN  k.page = page /\ k.do = do /\ k.on = on /\ k.then = then
  BY DEF Kind
<1> QED
  BY <1>1 DEF CallOf, IsCall, Fields, SentBy, Call

LEMMA SendFromScene ==
  ASSUME SceneInv, SamePage, NEW base, TrustTyped(ui.page, base), NEW s \in Slots,
         NEW do, NEW on, NEW arg, NEW then,
         Kind(ui.page, do, on, then) \in Sends, SendFrom(base, At(s, Call(do, on, arg, then)))
  PROVE  SceneStep /\ calls' = [calls EXCEPT ![s] = Call(do, on, arg, then)]
<1> DEFINE c == Call(do, on, arg, then)
<1>1. TrustTyped(ui.page, trust)' /\ calls' = [o \in Slots |-> IF o \in DOMAIN At(s, c) THEN At(s, c)[o] ELSE calls[o]]
  BY SendTyped
<1>2. CallOf(ui.page, c)
  BY SentTyped
<1> HIDE DEF c
<1>3. calls' = [calls EXCEPT ![s] = c]
  BY <1>1 DEF At, SceneInv
<1>4. \A o \in Slots : calls'[o] = c \/ calls'[o] = calls[o]
  BY <1>3 DEF SceneInv
<1>5. \A o \in Slots : CallOf(ui.page, calls[o])'
  BY <1>2, <1>4 DEF SceneInv, SamePage
<1> QED
  BY <1>1, <1>3, <1>5 DEF SceneInv, SamePage, c, SceneStep

LEMMA SendScene ==
  ASSUME SceneInv, SamePage, NEW s \in Slots,
         NEW do, NEW on, NEW arg, NEW then,
         Kind(ui.page, do, on, then) \in Sends, Send(At(s, Call(do, on, arg, then)))
  PROVE  SceneStep /\ calls' = [calls EXCEPT ![s] = Call(do, on, arg, then)]
<1>1. TrustTyped(ui.page, trust)
  BY DEF SceneInv
<1> QED
  BY <1>1, SendFromScene DEF Send

LEMMA StartScene ==
  ASSUME SceneInv, SamePage, NEW do, NEW on, NEW arg, NEW then,
         Kind(ui.page, do, on, then) \in Sends, Start(Call(do, on, arg, then))
  PROVE  SceneStep /\ \E s \in Slots : /\ Vacant(s)
                                       /\ calls' = [calls EXCEPT ![s] = Call(do, on, arg, then)]
<1>1. PICK s \in Slots : Vacant(s) /\ Send(At(s, Call(do, on, arg, then)))
  BY DEF Start
<1> QED
  BY <1>1, SendScene

LEMMA ServeScene ==
  ASSUME SceneInv, NEW s \in Slots, NEW new, NEW ans, Serve(s, new, ans)
  PROVE  SceneStep
<1>1. \A o \in Slots : \/ calls'[o] = calls[o] \/ calls'[o] = Free
                       \/ calls[o].st = "out" /\ calls'[o] = Back(calls[o], ans)
  BY DEF Serve, SceneInv
<1>2. ui' = ui /\ trust' = trust /\ DOMAIN calls' = Slots
  BY DEF Serve, SceneInv
<1>3. \A o \in Slots : CallOf(ui.page, calls[o]')
  BY <1>1, BackOf, FreeOf DEF SceneInv
<1> QED
  BY <1>2, <1>3 DEF SceneInv, SamePage, SceneStep

LEMMA RefuseScene ==
  ASSUME SceneInv, NEW s \in Slots, Refuse(s)
  PROVE  SceneStep
<1>1. \A o \in Slots : \/ calls'[o] = calls[o] \/ calls'[o] = Free
                       \/ calls[o].st = "out" /\ calls'[o] = [calls[o] EXCEPT !.st = "refused"]
  BY DEF Refuse, SceneInv
<1>2. ui' = ui /\ trust' = trust /\ DOMAIN calls' = Slots
  BY DEF Refuse, SceneInv
<1>3. \A o \in Slots : CallOf(ui.page, calls[o]')
  <2> SUFFICES ASSUME NEW o \in Slots
               PROVE  CallOf(ui.page, calls'[o])
    OBVIOUS
  <2>1. CallOf(ui.page, calls[o])
    BY DEF SceneInv
  <2>2. CASE calls[o].st = "out" /\ calls'[o] = [calls[o] EXCEPT !.st = "refused"]
    BY <2>1, <2>2, RefusedOf
  <2> QED
    BY <1>1, <2>1, <2>2, FreeOf
<1> QED
  BY <1>2, <1>3 DEF SceneInv, SamePage, SceneStep

LEMMA LoseScene ==
  ASSUME SceneInv, NEW s \in Slots, Lose(s)
  PROVE  SceneStep
<1>1. \A o \in Slots : calls'[o] = calls[o] \/ calls'[o] = Free
  BY DEF Lose, SceneInv
<1> QED
  BY <1>1, FreeOf DEF Lose, SceneInv, SamePage, SceneStep

LEMMA FinishScene ==
  ASSUME SceneInv, SamePage, NEW s \in Slots, Finish(s)
  PROVE  SceneStep
<1>1. \A o \in Slots : calls'[o] = calls[o] \/ calls'[o] = Free
  BY DEF Finish, SceneInv
<1> QED
  BY <1>1, FreeOf DEF Finish, SceneInv, SamePage, SceneStep

LEMMA DoubtsTyped ==
  ASSUME SceneInv, NEW s \in Slots
  PROVE  TrustTyped(ui.page, Doubts(s))
BY DEF SceneInv, TrustTyped, Doubts, Trusts

LEMMA ThrowScene ==
  ASSUME SceneInv, SamePage, NEW s \in Slots, Throw(s)
  PROVE  SceneStep
<1>1. \A o \in Slots : calls'[o] = calls[o] \/ calls'[o] = GivenUp(calls[o])
  BY DEF Throw, SceneInv
<1>2. \A o \in Slots : CallOf(ui.page, calls[o]')
  BY <1>1, GivenUpOf DEF SceneInv
<1>3. trust' = Doubts(s) /\ DOMAIN calls' = Slots
  BY DEF Throw, SceneInv
<1>4. TrustTyped(ui.page, trust')
  BY <1>3, DoubtsTyped
<1> QED
  BY <1>2, <1>3, <1>4 DEF SceneInv, SamePage, SceneStep

LEMMA ElsewhereScene ==
  ASSUME SceneInv, NEW r, NEW new, Elsewhere(r, new)
  PROVE  SceneStep
BY DEF SceneInv, CallOf, Elsewhere, TrustTyped, Trusts, SamePage, SceneStep

LEMMA DocumentScene ==
  ASSUME SceneInv, NEW card, card.page = ui.page, "page" \in DOMAIN card, NewDocument(card)
  PROVE  SceneStep
<1>1. \A s \in Slots : calls'[s] = GivenUp(calls[s])
  BY DEF NewDocument
<1>2. SamePage /\ DOMAIN calls' = Slots
  BY DEF NewDocument, SamePage
<1>3. \A s \in Slots : CallOf(ui.page, calls[s]')
  BY <1>1, GivenUpOf DEF SceneInv
<1>4. TrustTyped(ui.page, trust')
  BY DEF NewDocument, SceneInv, TrustTyped, Trusts
<1> QED
  BY <1>2, <1>3, <1>4 DEF SceneInv, SamePage, SceneStep

\* A step within the page that sends, answers and ends no call.
LEMMA LocalScene ==
  ASSUME SceneInv, SamePage, UNCHANGED <<calls, trust>>
  PROVE  SceneStep
BY DEF SceneInv, SamePage, SceneStep

\* A thing of the page is changed by somebody else, or is known not to be the one shown.
LEMMA DoubtScene ==
  ASSUME SceneInv, SamePage, UNCHANGED calls, NEW r, NEW known \in {"clean", "raced"},
         trust' = [trust EXCEPT ![r] = known]
  PROVE  SceneStep
BY DEF SceneInv, SamePage, TrustTyped, Trusts, SceneStep

\* A change of a field of the card other than its page.
LEMMA EditPage ==
  ASSUME SceneInv, NEW f, NEW v, f # "page", ui' = [ui EXCEPT ![f] = v]
  PROVE  SamePage
BY DEF SceneInv, SamePage

LEMMA StayOnPage ==
  ASSUME SceneInv, UNCHANGED ui
  PROVE  SamePage
BY DEF SceneInv, SamePage

\* The page from the place that awaits a call.
LEMMA PageOf ==
  ASSUME SceneInv, NEW s \in Slots, ~ Vacant(s)
  PROVE  LET then == calls[s].then
         IN  /\ then = "loadSessions" => ui.page \in {"list", "demo"}
             /\ then \in {"seedDemo", "listDemo"} => ui.page = "demo"
             /\ then \in {"loadEvents", "loadChain"} => ui.page \in {"view", "demo"}
             /\ then \in {"audit", "openEvidence", "downloadEvidencePdf"} => ui.page = "view"
             /\ then \in {"refreshKeys", "createKey", "revokeKey"} => ui.page = "keys"
             /\ then \in {"refresh", "save", "clear"} => ui.page = "byok"
             /\ then \in {"refreshRules", "refreshFramework", "changeFramework", "allFramework", "allRules",
                          "addRule", "readRules", "removeRule"} => ui.page = "policy"
             /\ then \in {"refreshSchedule", "saveSchedule", "readSchedule"} => ui.page = "schedule"
             /\ then \in {"refreshWebhook", "saveWebhook", "readWebhook", "clearWebhook"} => ui.page = "webhook"
             /\ then \in {"refreshTeam", "invite", "readTeam", "revokeInvite", "changeRole", "removeMember"} =>
                  ui.page = "team"
             /\ then \in {"refreshPlan", "upgrade", "manage"} => ui.page = "billing"
             /\ then = "refreshTrend" => ui.page = "insights"
             /\ then = "ensureOrg" => ui.page = "session"
             /\ then = "submit" => ui.page = "login"
             /\ then = "updateUser" => ui.page = "reset"
             /\ then = "exchange" => ui.page \in {"reset", "callback"}
<1>1. PICK k \in Sends : k.page = ui.page /\ k.then = calls[s].then
  BY PageOfCall
<1> DEFINE then == calls[s].then
           page == ui.page
<1>2. k.page = page /\ k.then = then
  BY <1>1
<1> HIDE DEF then, page
<1> QED
  BY <1>2 DEF Sends, WorkspaceSends, KeysSends, ByokSends, PolicySends, ScheduleSends, WebhookSends,
       TeamSends, BillingSends, SignInSends, Kind, then, page

\* A call that ends is not vacant.
LEMMA AnsweredIs ==
  ASSUME NEW s, NEW then, Answered(s, then)
  PROVE  ~ Vacant(s) /\ calls[s].then = then
BY DEF Answered, Vacant

LEMMA OpenIs ==
  ASSUME NEW s, Open(s)
  PROVE  ~ Vacant(s)
BY DEF Open, Vacant

LEMMA ThrowIs ==
  ASSUME NEW s, Throw(s)
  PROVE  ~ Vacant(s)
BY DEF Throw, Open, Vacant

------------------------------------------------------------------------------
\* Keys.
LEMMA KeysScene ==
  ASSUME SceneInv, KeysNext
  PROVE  SceneStep
<1>1. CASE KeysMount
  BY <1>1, StayOnPage, StartScene DEF KeysMount, RefreshKeys, Sends, KeysSends
<1>2. CASE ui.page = "keys" /\ CreateKey
  <2>1. SamePage
    BY <1>2, EditPage DEF CreateKey
  <2> QED
    BY <1>2, <2>1, StartScene DEF CreateKey, Sends, KeysSends
<1>3. ASSUME NEW k \in KeyIds, ui.page = "keys" /\ RevokeKey(k)
      PROVE  SceneStep
  BY <1>3, StayOnPage, StartScene DEF RevokeKey, Sends, KeysSends
<1>4. ASSUME NEW s \in Slots, KeysServe(s)
      PROVE  SceneStep
  BY <1>4, ServeScene DEF KeysServe, CreateApiKey, ListApiKeys, RevokeApiKey
<1>5. ASSUME NEW s \in Slots, KeysContinue(s)
      PROVE  SceneStep
  <2>1. CASE KeysRefreshed(s)
    BY <2>1, FinishScene DEF KeysRefreshed, SceneInv, SamePage
  <2>2. CASE KeyCreated(s) \/ KeyRevoked(s)
    BY <2>2, AnsweredIs, PageOf, StayOnPage, SendScene DEF KeyCreated, KeyRevoked, RefreshKeys, Sends, KeysSends
  <2>3. CASE KeysCatch(s)
    <3>1. SamePage
      BY <2>3 DEF KeysCatch, SceneInv, SamePage
    <3> QED
      BY <2>3, <3>1, ThrowScene DEF KeysCatch
  <2> QED
    BY <1>5, <2>1, <2>2, <2>3 DEF KeysContinue
<1>6. CASE AgentNext
  BY <1>6, StayOnPage, LocalScene DEF AgentNext, apiVars
<1> QED
  BY <1>1, <1>2, <1>3, <1>4, <1>5, <1>6 DEF KeysNext, KeysOffers

------------------------------------------------------------------------------
\* Sign-in.
LEMMA AfterGetSessionPage ==
  ASSUME NEW card, "page" \in DOMAIN card, NEW signedIn
  PROVE  AfterGetSession(card, signedIn).page = card.page /\ "page" \in DOMAIN AfterGetSession(card, signedIn)
BY DEF AfterGetSession

LEMMA ApplyScene ==
  ASSUME SceneInv, ui.page = "session", NEW u, Apply(u)
  PROVE  SceneStep
<1>1. CASE u = "none"
  <2>1. SamePage
    BY <1>1 DEF Apply, SceneInv, SamePage
  <2> QED
    BY <1>1, <2>1, DoubtScene DEF Apply
<1>2. CASE u # "none"
  BY <1>2, StayOnPage, StartScene DEF Apply, Sends, SignInSends
<1> QED
  BY <1>1, <1>2

LEMMA SignInServeScene ==
  ASSUME SceneInv, NEW s \in Slots, SignInServe(s)
  PROVE  SceneStep
BY ServeScene DEF SignInServe

LEMMA SignInContinueScene ==
  ASSUME SceneInv, NEW s \in Slots, SignInContinue(s)
  PROVE  SceneStep
<1>1. CASE OrgEnsured(s) \/ Submitted(s) \/ PasswordUpdated(s)
  <2>1. SamePage
    BY <1>1 DEF OrgEnsured, Submitted, PasswordUpdated, SceneInv, SamePage
  <2> QED
    BY <1>1, <2>1, FinishScene DEF OrgEnsured, Submitted, PasswordUpdated
<1>2. CASE LoginCatch(s) \/ ResetCatch(s)
  <2>1. SamePage
    BY <1>2 DEF LoginCatch, ResetCatch, SceneInv, SamePage
  <2> QED
    BY <1>2, <2>1, ThrowScene DEF LoginCatch, ResetCatch
<1>3. CASE Exchanged(s)
  <2>1. SamePage
    BY <1>3, AfterGetSessionPage DEF Exchanged, SceneInv, SamePage
  <2> QED
    BY <1>3, <2>1, FinishScene DEF Exchanged
<1> QED
  BY <1>1, <1>2, <1>3 DEF SignInContinue

LEMMA LoginScene ==
  ASSUME SceneInv, LoginOffers \/ BackToLogin
  PROVE  SceneStep
<1>1. CASE LoginOffers /\ Submit
  <2>1. SamePage
    BY <1>1 DEF Submit, SceneInv, SamePage
  <2> QED
    BY <1>1, <2>1, StartScene DEF LoginOffers, Submit, Sends, SignInSends
<1>2. CASE BackToLogin
  <2>1. PICK u \in Users : NewDocument(LoginForm(u))
    BY <1>2 DEF BackToLogin
  <2>2. LoginForm(u).page = "login" /\ "page" \in DOMAIN LoginForm(u)
    BY DEF LoginForm
  <2> QED
    BY <1>2, <2>1, <2>2, DocumentScene DEF BackToLogin
<1>3. CASE LoginOffers /\ ~ Submit
  <2>1. SamePage /\ UNCHANGED <<calls, trust>>
    BY <1>3 DEF LoginOffers, SetEmail, SetMode, SceneInv, SamePage
  <2> QED
    BY <2>1, LocalScene
<1> QED
  BY <1>1, <1>2, <1>3

LEMMA LinkScene ==
  ASSUME SceneInv, LinkMount \/ CallbackTimeout \/ LinkSession \/ NewPassword
  PROVE  SceneStep
<1>1. CASE LinkMount
  <2> DEFINE read == [ui EXCEPT !.link = "read"]
  <2>1. read.page = ui.page /\ "page" \in DOMAIN read
    BY DEF SceneInv
  <2>2. CASE Start(Exchange) /\ ui' = read
    <3>1. SamePage
      BY <2>1, <2>2 DEF SamePage
    <3> QED
      BY <1>1, <2>2, <3>1, StartScene DEF LinkMount, Exchange, Sends, SignInSends
  <2>3. CASE ui' = AfterGetSession(read, server.session # "none") /\ UNCHANGED <<calls, trust>>
    <3>1. SamePage
      BY <2>1, <2>3, AfterGetSessionPage DEF SamePage
    <3> QED
      BY <2>3, <3>1, LocalScene
  <2> QED
    BY <1>1, <2>2, <2>3 DEF LinkMount
<1>2. CASE CallbackTimeout \/ LinkSession
  <2>1. SamePage /\ UNCHANGED <<calls, trust>>
    BY <1>2 DEF CallbackTimeout, LinkSession, SceneInv, SamePage
  <2> QED
    BY <2>1, LocalScene
<1>3. CASE NewPassword
  <2>1. SamePage
    BY <1>3 DEF NewPassword, SceneInv, SamePage
  <2> QED
    BY <1>3, <2>1, StartScene DEF NewPassword, Sends, SignInSends
<1> QED
  BY <1>1, <1>2, <1>3

LEMMA SignInScene ==
  ASSUME SceneInv, SignInNext
  PROVE  SceneStep
<1>1. CASE SessionMount
  BY <1>1, ApplyScene DEF SessionMount
<1>2. CASE AuthEvent
  BY <1>2, ApplyScene DEF AuthEvent
<1>3. CASE OrgMadeLate
  BY <1>3, StayOnPage, LocalScene DEF OrgMadeLate
<1> QED
  BY <1>1, <1>2, <1>3, LoginScene, LinkScene, SignInServeScene, SignInContinueScene DEF SignInNext

------------------------------------------------------------------------------
\* The workspace.
LEMMA ListScene ==
  ASSUME SceneInv, ListMount \/ ListOffers \/ NewSession
  PROVE  SceneStep
<1>1. CASE ListMount
  BY <1>1, StayOnPage, StartScene DEF ListMount, LoadSessions, Sends, WorkspaceSends
<1>2. ASSUME NEW q \in Searches, Search(q)
      PROVE  SceneStep
  <2>1. SamePage
    BY <1>2 DEF Search, SceneInv, SamePage
  <2> QED
    BY <1>2, <2>1, LocalScene DEF Search
<1>3. CASE ui.page \in {"list", "demo"} /\ Debounce
  <2>1. SamePage
    BY <1>3 DEF Debounce, SceneInv, SamePage
  <2>2. CASE UNCHANGED <<calls, trust>>
    BY <2>1, <2>2, LocalScene
  <2>3. CASE Start(LoadSessions(ui.search, PageSize))
    BY <1>3, <2>1, <2>3, StartScene DEF LoadSessions, Sends, WorkspaceSends
  <2> QED
    BY <1>3, <2>2, <2>3 DEF Debounce
<1>4. CASE ui.page \in {"list", "demo"} /\ LoadMore
  <2>1. SamePage
    BY <1>4 DEF LoadMore, SceneInv, SamePage
  <2>2. Start(LoadSessions(ui.debounced, ui.limit + PageSize))
    BY <1>4 DEF LoadMore
  <2> QED
    BY <1>4, <2>1, <2>2, StartScene DEF LoadSessions, Sends, WorkspaceSends
<1>5. CASE NewSession
  BY <1>5, ElsewhereScene DEF NewSession
<1> QED
  BY <1>1, <1>2, <1>3, <1>4, <1>5 DEF ListOffers

LEMMA SelectedPage ==
  ASSUME SceneInv, NEW id
  PROVE  Selected(id).page = ui.page /\ "page" \in DOMAIN Selected(id)
BY DEF Selected, SceneInv

LEMMA PickScene ==
  ASSUME SceneInv, SeedDemo \/ PickOffers \/ SessionOffers
  PROVE  SceneStep
<1>1. CASE SeedDemo
  <2>1. SamePage
    BY <1>1 DEF SeedDemo, SceneInv, SamePage
  <2> QED
    BY <1>1, <2>1, StartScene DEF SeedDemo, Sends, WorkspaceSends
<1>2. ASSUME NEW id, ui.page = "view", Load(id)
      PROVE  SceneStep
  <2>1. SamePage
    BY <1>2, SelectedPage DEF Load, SamePage
  <2> QED
    BY <1>2, <2>1, StartScene DEF Load, LoadEvents, Sends, WorkspaceSends
<1>3. ASSUME NEW id, Paste(id)
      PROVE  SceneStep
  <2>1. SamePage
    BY <1>3 DEF Paste, SceneInv, SamePage
  <2> QED
    BY <1>3, <2>1, DoubtScene DEF Paste
<1>4. CASE ui.page = "view" /\ (Audit \/ OpenEvidence \/ DownloadEvidencePdf)
  <2>1. SamePage
    BY <1>4 DEF Audit, OpenEvidence, DownloadEvidencePdf, SceneInv, SamePage
  <2> QED
    BY <1>4, <2>1, StartScene DEF Audit, OpenEvidence, DownloadEvidencePdf, Sends, WorkspaceSends
<1> QED
  BY <1>1, <1>2, <1>3, <1>4 DEF PickOffers, SessionOffers

LEMMA DemoListedScene ==
  ASSUME SceneInv, NEW s \in Slots, DemoListed(s)
  PROVE  SceneStep
<1>1. ui.page = "demo"
  BY AnsweredIs, PageOf DEF DemoListed, Vacant
<1>2. SamePage
  BY SelectedPage DEF DemoListed, SamePage
<1>3. TrustTyped(ui.page, Overtaken(s)) /\ TrustTyped(ui.page, Doubts(s))
  BY DoubtsTyped DEF SceneInv, TrustTyped, Overtaken, Trusts, Flags
<1>4. Kind(ui.page, "read", {"view", "busy"}, "loadEvents") \in Sends
  BY <1>1 DEF Sends, WorkspaceSends
<1>5. \/ SendFrom(Overtaken(s), At(s, LoadEvents("demo")))
      \/ SendFrom(Doubts(s), At(s, LoadEvents("demo")))
  BY DEF DemoListed
<1> QED
  BY <1>2, <1>3, <1>4, <1>5, SendFromScene DEF LoadEvents

LEMMA WorkspaceContinueScene ==
  ASSUME SceneInv, NEW s \in Slots, WorkspaceContinue(s)
  PROVE  SceneStep
<1>1. CASE SessionsLoaded(s)
  <2>1. SamePage
    BY <1>1 DEF SessionsLoaded, Listed, SceneInv, SamePage
  <2> QED
    BY <1>1, <2>1, FinishScene DEF SessionsLoaded
<1>2. CASE DemoSeeded(s)
  BY <1>2, AnsweredIs, PageOf, StayOnPage, SendScene DEF DemoSeeded, Sends, WorkspaceSends
<1>3. CASE EventsLoaded(s)
  <2>1. SamePage
    BY <1>3 DEF EventsLoaded, SceneInv, SamePage
  <2>2. ui.page \in {"view", "demo"}
    BY <1>3, AnsweredIs, PageOf DEF EventsLoaded
  <2>3. Kind(ui.page, "read", {"view", "busy"}, "loadChain") \in Sends
    BY <2>2 DEF Sends, WorkspaceSends
  <2> QED
    BY <1>3, <2>1, <2>3, SendScene DEF EventsLoaded
<1>4. CASE ChainLoaded(s) \/ Audited(s) \/ EvidenceOpened(s) \/ PdfDownloaded(s)
  <2>1. SamePage
    BY <1>4 DEF ChainLoaded, Audited, EvidenceOpened, PdfDownloaded, SceneInv, SamePage
  <2> QED
    BY <1>4, <2>1, FinishScene DEF ChainLoaded, Audited, EvidenceOpened, PdfDownloaded
<1>5. CASE WorkspaceCatch(s)
  <2>1. SamePage
    BY <1>5 DEF WorkspaceCatch, SceneInv, SamePage
  <2> QED
    BY <1>5, <2>1, ThrowScene DEF WorkspaceCatch
<1> QED
  BY <1>1, <1>2, <1>3, <1>4, <1>5, DemoListedScene DEF WorkspaceContinue

LEMMA WorkspaceScene ==
  ASSUME SceneInv, WorkspaceNext
  PROVE  SceneStep
<1>1. ASSUME NEW s \in Slots, WorkspaceServe(s)
      PROVE  SceneStep
  BY <1>1, ServeScene DEF WorkspaceServe
<1> QED
  BY <1>1, ListScene, PickScene, WorkspaceContinueScene DEF WorkspaceNext

------------------------------------------------------------------------------
\* The settings.
LEMMA SettingsMountScene ==
  ASSUME SceneInv, SettingsMount
  PROVE  SceneStep
BY StayOnPage, StartScene
   DEF SettingsMount, Refresh, RefreshRules, RefreshFramework, RefreshSchedule, RefreshWebhook,
       Sends, ByokSends, PolicySends, ScheduleSends, WebhookSends

LEMMA KeyCardScene ==
  ASSUME SceneInv, KeyCardOffers
  PROVE  SceneStep
<1>1. SamePage
  BY DEF KeyCardOffers, SceneInv, SamePage
<1>2. ui.page = "byok"
  BY DEF KeyCardOffers
<1>3. \/ UNCHANGED <<calls, trust>>
      \/ Start(Call("write", {"byok"}, "", "save"))
      \/ Start(Call("write", {"byok"}, "", "clear"))
  BY DEF KeyCardOffers
<1> QED
  BY <1>1, <1>2, <1>3, LocalScene, StartScene DEF Sends, ByokSends

LEMMA PolicyScene ==
  ASSUME SceneInv, FrameworkCardOffers \/ RulesCardOffers
  PROVE  SceneStep
<1>1. ui.page = "policy"
  BY DEF FrameworkCardOffers, RulesCardOffers
<1>2. ASSUME NEW f, ChangeFramework(f)
      PROVE  SceneStep
  <2>1. SamePage
    BY <1>2 DEF ChangeFramework, SceneInv, SamePage
  <2> QED
    BY <1>1, <1>2, <2>1, StartScene DEF ChangeFramework, Sends, PolicySends
<1>3. ASSUME NEW r, AddRule(r)
      PROVE  SceneStep
  <2>1. SamePage
    BY <1>3 DEF AddRule, SceneInv, SamePage
  <2> QED
    BY <1>1, <1>3, <2>1, StartScene DEF AddRule, Sends, PolicySends
<1>4. ASSUME NEW r, RemoveRule(r)
      PROVE  SceneStep
  BY <1>1, <1>4, StayOnPage, StartScene DEF RemoveRule, Sends, PolicySends
<1> QED
  BY <1>2, <1>3, <1>4 DEF FrameworkCardOffers, RulesCardOffers

LEMMA ScheduleScene ==
  ASSUME SceneInv, ScheduleCardOffers
  PROVE  SceneStep
<1>1. SamePage
  BY DEF ScheduleCardOffers, SaveSchedule, SceneInv, SamePage
<1>2. ASSUME NEW enabled, SaveSchedule(enabled)
      PROVE  SceneStep
  BY <1>1, <1>2, StartScene DEF ScheduleCardOffers, SaveSchedule, Sends, ScheduleSends
<1> QED
  BY <1>1, <1>2, LocalScene DEF ScheduleCardOffers

LEMMA HookScene ==
  ASSUME SceneInv, HookCardOffers
  PROVE  SceneStep
<1>1. SamePage
  BY DEF HookCardOffers, SaveWebhook, ClearWebhook, SceneInv, SamePage
<1>2. CASE SaveWebhook \/ ClearWebhook
  BY <1>1, <1>2, StartScene DEF HookCardOffers, SaveWebhook, ClearWebhook, Sends, WebhookSends
<1> QED
  BY <1>1, <1>2, LocalScene DEF HookCardOffers

(***************************************************************************)
(* changeFramework goes on with two reads at once.                         *)
(***************************************************************************)
LEMMA FrameworkChangedScene ==
  ASSUME SceneInv, NEW s \in Slots, FrameworkChanged(s)
  PROVE  SceneStep
<1> DEFINE one == Call("read", {"framework", "frameworkBusy"}, "", "allFramework")
           two == Call("read", {"rules", "frameworkBusy"}, "", "allRules")
<1>1. ui.page = "policy"
  <2>1. Answered(s, "changeFramework")
    BY DEF FrameworkChanged
  <2> QED
    BY <2>1, AnsweredIs, PageOf
<1>2. SamePage
  BY StayOnPage DEF FrameworkChanged
<1>3. CallOf(ui.page, one) /\ CallOf(ui.page, two)
  BY <1>1, SentTyped DEF Sends, PolicySends
<1>4. PICK t \in Slots \ {s} : Send([o \in {s, t} |-> IF o = s THEN one ELSE two])
  BY DEF FrameworkChanged
<1> HIDE DEF one, two
<1> DEFINE new == [o \in {s, t} |-> IF o = s THEN one ELSE two]
<1>5. \A o \in DOMAIN new : CallOf(ui.page, new[o])
  BY <1>3
<1> HIDE DEF new
<1>6. TrustTyped(ui.page, trust)
  BY DEF SceneInv
<1>7. TrustTyped(ui.page, trust)' /\ calls' = [o \in Slots |-> IF o \in DOMAIN new THEN new[o] ELSE calls[o]]
  BY <1>2, <1>4, <1>6, SendTyped DEF Send, new
<1>8. \A o \in Slots : CallOf(ui.page, calls'[o])
  BY <1>5, <1>7 DEF SceneInv
<1> QED
  BY <1>2, <1>7, <1>8 DEF SceneInv, SamePage, SceneStep

LEMMA SettingsCatchScene ==
  ASSUME SceneInv, NEW s \in Slots, SettingsCatch(s)
  PROVE  SceneStep
<1>1. SamePage
  BY DEF SettingsCatch, KeyCatch, FrameworkCatch, RulesCatch, ScheduleCatch, WebhookCatch, SceneInv, SamePage
<1> QED
  BY <1>1, ThrowScene DEF SettingsCatch

LEMMA SettingsContinueScene ==
  ASSUME SceneInv, NEW s \in Slots, SettingsContinue(s)
  PROVE  SceneStep
<1>1. CASE Refreshed(s) \/ FrameworkRefreshed(s) \/ RulesRefreshed(s) \/ ScheduleRefreshed(s) \/ WebhookRefreshed(s)
  <2>1. SamePage
    BY <1>1 DEF Refreshed, FrameworkRefreshed, RulesRefreshed, ScheduleRefreshed, WebhookRefreshed,
                SceneInv, SamePage
  <2> QED
    BY <1>1, <2>1, FinishScene
       DEF Refreshed, FrameworkRefreshed, RulesRefreshed, ScheduleRefreshed, WebhookRefreshed
<1>2. CASE Saved(s) \/ Cleared(s)
  <2>1. SamePage
    BY <1>2 DEF Saved, Cleared, SceneInv, SamePage
  <2> QED
    BY <1>2, <2>1, AnsweredIs, PageOf, SendScene DEF Saved, Cleared, Refresh, Sends, ByokSends
<1>3. CASE RuleAdded(s) \/ RuleRemoved(s)
  BY <1>3, StayOnPage, AnsweredIs, PageOf, SendScene DEF RuleAdded, RuleRemoved, RefreshRules, Sends, PolicySends
<1>4. CASE ScheduleSaved(s)
  BY <1>4, StayOnPage, AnsweredIs, PageOf, SendScene DEF ScheduleSaved, Sends, ScheduleSends
<1>5. CASE WebhookSaved(s) \/ WebhookCleared(s)
  <2>1. SamePage
    BY <1>5 DEF WebhookSaved, WebhookCleared, SceneInv, SamePage
  <2> QED
    BY <1>5, <2>1, AnsweredIs, PageOf, SendScene
       DEF WebhookSaved, WebhookCleared, RefreshWebhook, Sends, WebhookSends
<1> QED
  BY <1>1, <1>2, <1>3, <1>4, <1>5, FrameworkChangedScene, SettingsCatchScene DEF SettingsContinue

LEMMA SettingsScene ==
  ASSUME SceneInv, SettingsNext
  PROVE  SceneStep
<1>1. ASSUME NEW s \in Slots, SettingsServe(s)
      PROVE  SceneStep
  BY <1>1, ServeScene DEF SettingsServe
<1> QED
  BY <1>1, SettingsMountScene, KeyCardScene, PolicyScene, ScheduleScene, HookScene, SettingsContinueScene
     DEF SettingsNext

------------------------------------------------------------------------------
\* The team, billing and insights.
LEMMA TeamScene ==
  ASSUME SceneInv, TeamPageNext
  PROVE  SceneStep
<1>1. CASE TeamMount
  BY <1>1, StayOnPage, StartScene DEF TeamMount, RefreshTeam, Sends, TeamSends
<1>2. ASSUME NEW u \in Members, ui.page = "team", ChangeRole(u) \/ RemoveFromTeam(u)
      PROVE  SceneStep
  BY <1>2, StayOnPage, StartScene DEF ChangeRole, RemoveFromTeam, Sends, TeamSends
<1>3. ASSUME NEW e \in Emails, ui.page = "team", InviteMember(e) \/ WithdrawInvite(e)
      PROVE  SceneStep
  <2>1. SamePage
    BY <1>3 DEF InviteMember, WithdrawInvite, SceneInv, SamePage
  <2> QED
    BY <1>3, <2>1, StartScene DEF InviteMember, WithdrawInvite, Sends, TeamSends
<1>4. CASE TeamElsewhere
  BY <1>4, ElsewhereScene DEF TeamElsewhere
<1>5. ASSUME NEW s \in Slots, TeamServe(s)
      PROVE  SceneStep
  BY <1>5, ServeScene, RefuseScene DEF TeamServe
<1>6. ASSUME NEW s \in Slots, TeamPageContinue(s)
      PROVE  SceneStep
  <2>1. CASE TeamRefreshed(s)
    <3>1. SamePage
      BY <2>1 DEF TeamRefreshed, SceneInv, SamePage
    <3> QED
      BY <2>1, <3>1, FinishScene DEF TeamRefreshed
  <2>2. CASE Invited(s) \/ TeamChanged(s)
    BY <2>2, StayOnPage, AnsweredIs, PageOf, SendScene DEF Invited, TeamChanged, RefreshTeam, Sends, TeamSends
  <2>3. CASE TeamCatch(s)
    <3>1. SamePage
      BY <2>3 DEF TeamCatch, SceneInv, SamePage
    <3> QED
      BY <2>3, <3>1, ThrowScene DEF TeamCatch
  <2> QED
    BY <1>6, <2>1, <2>2, <2>3 DEF TeamPageContinue
<1> QED
  BY <1>1, <1>2, <1>3, <1>4, <1>5, <1>6 DEF TeamPageNext, MembersOffer, InvitesOffer

LEMMA BillingScene ==
  ASSUME SceneInv, BillingNext
  PROVE  SceneStep
<1>1. CASE BillingMount
  BY <1>1, StayOnPage, StartScene DEF BillingMount, RefreshPlan, Sends, BillingSends
<1>2. CASE BillingOffers
  <2>1. SamePage
    BY <1>2 DEF BillingOffers, Upgrade, Manage, SceneInv, SamePage
  <2> QED
    BY <1>2, <2>1, StartScene DEF BillingOffers, Upgrade, Manage, Sends, BillingSends
<1>3. CASE ComeBack
  <2>1. \A upgraded : BillingCard(upgraded).page = "billing" /\ "page" \in DOMAIN BillingCard(upgraded)
    BY DEF BillingCard
  <2> QED
    BY <1>3, <2>1, DocumentScene DEF ComeBack
<1>4. CASE SubscriptionChanges
  BY <1>4, ElsewhereScene DEF SubscriptionChanges
<1>5. ASSUME NEW s \in Slots, BillingServe(s)
      PROVE  SceneStep
  BY <1>5, ServeScene DEF BillingServe
<1>6. ASSUME NEW s \in Slots, BillingContinue(s)
      PROVE  SceneStep
  <2>1. SamePage
    BY <1>6 DEF BillingContinue, PlanRefreshed, SentAway, BillingCatch, SceneInv, SamePage
  <2> QED
    BY <1>6, <2>1, FinishScene, ThrowScene DEF BillingContinue, PlanRefreshed, SentAway, BillingCatch
<1> QED
  BY <1>1, <1>2, <1>3, <1>4, <1>5, <1>6 DEF BillingNext

LEMMA InsightsScene ==
  ASSUME SceneInv, InsightsNext
  PROVE  SceneStep
<1>1. CASE InsightsMount
  BY <1>1, StayOnPage, StartScene DEF InsightsMount, RefreshTrend, Sends, BillingSends
<1>2. CASE InsightsOffers
  <2>1. SamePage
    BY <1>2 DEF InsightsOffers, ChooseRange, Hover, SceneInv, SamePage
  <2>2. ASSUME NEW d, ChooseRange(d)
        PROVE  SceneStep
    BY <1>2, <2>1, <2>2, StartScene DEF InsightsOffers, ChooseRange, RefreshTrend, Sends, BillingSends
  <2> QED
    BY <1>2, <2>1, <2>2, LocalScene DEF InsightsOffers, Hover
<1>3. CASE Reload
  <2>1. TrendCard.page = "insights" /\ "page" \in DOMAIN TrendCard
    BY DEF TrendCard
  <2> QED
    BY <1>3, <2>1, DocumentScene DEF Reload
<1>4. ASSUME NEW s \in Slots, InsightsServe(s)
      PROVE  SceneStep
  BY <1>4, ServeScene DEF InsightsServe
<1>5. ASSUME NEW s \in Slots, InsightsContinue(s)
      PROVE  SceneStep
  <2>1. SamePage
    BY <1>5 DEF InsightsContinue, TrendRefreshed, InsightsCatch, SceneInv, SamePage
  <2> QED
    BY <1>5, <2>1, FinishScene, ThrowScene DEF InsightsContinue, TrendRefreshed, InsightsCatch
<1> QED
  BY <1>1, <1>2, <1>3, <1>4, <1>5 DEF InsightsNext

------------------------------------------------------------------------------
\* The dashboard.
IsCard(card) == card.page \in Pages /\ "page" \in DOMAIN card

LEMMA Cards ==
  /\ IsCard(SessionHook) /\ \A u : IsCard(LoginForm(u)) /\ IsCard(ResetForm(u)) /\ IsCard(Callback(u))
  /\ IsCard(ListHalf) /\ IsCard(ViewHalf) /\ IsCard(DemoHalf) /\ IsCard(KeysPage)
  /\ IsCard(KeyCard) /\ IsCard(PolicyCard) /\ IsCard(ScheduleCard) /\ IsCard(HookCard)
  /\ IsCard(TeamCard) /\ IsCard(TrendCard) /\ \A upgraded : IsCard(BillingCard(upgraded))
<1>1. /\ IsCard(SessionHook) /\ \A u : IsCard(LoginForm(u)) /\ IsCard(ResetForm(u)) /\ IsCard(Callback(u))
      /\ IsCard(ListHalf) /\ IsCard(ViewHalf) /\ IsCard(DemoHalf) /\ IsCard(KeysPage)
  BY DEF IsCard, Pages, SessionHook, LoginForm, ResetForm, Callback, ListHalf, ViewHalf, DemoHalf, KeysPage
<1>2. /\ IsCard(KeyCard) /\ IsCard(PolicyCard) /\ IsCard(ScheduleCard) /\ IsCard(HookCard)
      /\ IsCard(TeamCard) /\ IsCard(TrendCard) /\ \A upgraded : IsCard(BillingCard(upgraded))
  BY DEF IsCard, Pages, KeyCard, PolicyCard, ScheduleCard, HookCard, TeamCard, TrendCard, BillingCard
<1> QED
  BY <1>1, <1>2

LEMMA InitScene ==
  ASSUME Init
  PROVE  SceneInv
<1>1. IsCard(ui)
  <2>1. CASE SignInInit
    <3>1. \/ ui = SessionHook
          \/ \E u : ui = LoginForm(u) \/ ui = ResetForm(u) \/ ui = Callback(u)
      BY <2>1 DEF SignInInit
    <3> QED
      BY <3>1, Cards
  <2>2. CASE WorkspaceInit
    BY <2>2, Cards DEF WorkspaceInit
  <2>3. CASE KeysInit \/ TeamPageInit \/ BillingInit \/ InsightsInit
    BY <2>3, Cards DEF KeysInit, TeamPageInit, BillingInit, InsightsInit
  <2>4. CASE SettingsInit
    BY <2>4, Cards DEF SettingsInit
  <2> QED
    BY <2>1, <2>2, <2>3, <2>4 DEF Init
<1>2. calls = [s \in Slots |-> Free]
  BY DEF Init
<1>3. \A s \in Slots : CallOf(ui.page, calls[s])
  BY <1>2, FreeOf
<1>4. TrustTyped(ui.page, trust)
  BY DEF Init, TrustTyped, Trusts
<1> QED
  BY <1>1, <1>2, <1>3, <1>4 DEF SceneInv, IsCard

LEMMA NextScene ==
  ASSUME SceneInv, [Next]_vars
  PROVE  SceneStep
<1>1. CASE UNCHANGED vars
  BY <1>1, StayOnPage, LocalScene DEF vars, apiVars
<1>2. ASSUME NEW s \in Slots, Lose(s)
      PROVE  SceneStep
  BY <1>2, LoseScene
<1> QED
  BY <1>1, <1>2, KeysScene, SignInScene, WorkspaceScene, SettingsScene, TeamScene, BillingScene, InsightsScene
     DEF Next

(***************************************************************************)
(* Whatever is under way was sent by a handler of the page that is open.   *)
(***************************************************************************)
THEOREM SceneInvariant == Spec => []SceneInv
<1>1. Init => SceneInv
  BY InitScene
<1>2. SceneInv /\ [Next]_vars => SceneInv'
  BY NextScene DEF SceneStep
<1> QED
  BY <1>1, <1>2, PTL DEF Spec

LEMMA SceneTyped ==
  ASSUME SceneInv
  PROVE  ConsoleTypeOK
<1>1. DOMAIN trust = Things(ui.page) /\ trust \in [DOMAIN trust -> Trusts]
  BY DEF SceneInv, TrustTyped
<1>2. \A flag \in Flags \cap DOMAIN trust : trust[flag] # "failed"
  BY <1>1 DEF SceneInv, TrustTyped
<1>3. ASSUME NEW s \in Slots
      PROVE  /\ calls[s].st \in {"free", "out", "back", "refused", "late"}
             /\ calls[s].on \subseteq DOMAIN trust
             /\ Vacant(s) <=> calls[s].do = "none"
             /\ calls[s].st = "late" => calls[s].do = "write" /\ calls[s].on \cap Flags = {}
  <2> DEFINE c == calls[s]
  <2>1. CallOf(ui.page, c)
    BY DEF SceneInv
  <2>2. CASE c.st = "free" /\ c.do = "none" /\ c.on = {}
    BY <2>2 DEF Vacant
  <2>3. CASE c.st # "free"
    <3>1. PICK k \in Sends : /\ k.page = ui.page /\ k.do = c.do
                             /\ c.on = IF c.st = "late" THEN k.on \ Flags ELSE k.on
      BY <2>1, <2>3 DEF CallOf, SentBy
    <3>2. k.do \in {"read", "write"} /\ k.on \subseteq Things(ui.page)
      BY <3>1, SendsOwn
    <3>3. c.st \in {"out", "back", "refused", "late"} /\ (c.st = "late" => c.do = "write")
      BY <2>1, <2>3 DEF CallOf
    <3> QED
      BY <1>1, <3>1, <3>2, <3>3 DEF Vacant
  <2> QED
    BY <2>1, <2>2, <2>3 DEF CallOf
<1> QED
  BY <1>1, <1>2, <1>3 DEF ConsoleTypeOK, ApiTypeOK, SceneInv

(***************************************************************************)
(* The calls and the copies of a page are what they are meant to be.       *)
(***************************************************************************)
THEOREM ConsoleTyped == Spec => []ConsoleTypeOK
BY SceneInvariant, SceneTyped, PTL

------------------------------------------------------------------------------
\* The steps of a page are of the page that is open.
LEMMA ServeIs ==
  ASSUME NEW s, NEW new, NEW ans, Serve(s, new, ans)
  PROVE  ~ Vacant(s) /\ server' = new /\ UNCHANGED ui
BY DEF Serve, Vacant

LEMMA SignInPage ==
  ASSUME SceneInv, SignInNext
  PROVE  ui.page \in {"session", "login", "reset", "callback"}
<1>1. ASSUME NEW s \in Slots, SignInServe(s)
      PROVE  ui.page \in {"session", "login", "reset", "callback"}
  BY <1>1, ServeIs, PageOf DEF SignInServe
<1>2. ASSUME NEW s \in Slots, SignInContinue(s)
      PROVE  ui.page \in {"session", "login", "reset", "callback"}
  <2>1. ~ Vacant(s) /\ calls[s].then \in {"ensureOrg", "submit", "exchange", "updateUser"}
    BY <1>2, AnsweredIs, OpenIs, ThrowIs
       DEF SignInContinue, OrgEnsured, Submitted, LoginCatch, Exchanged, PasswordUpdated, ResetCatch
  <2> QED
    BY <2>1, PageOf
<1> QED
  BY <1>1, <1>2 DEF SignInNext, SessionMount, AuthEvent, OrgMadeLate, LoginOffers, BackToLogin, LinkMount,
                    CallbackTimeout, LinkSession, NewPassword

LEMMA WorkspacePage ==
  ASSUME SceneInv, WorkspaceNext
  PROVE  ui.page \in {"list", "view", "demo"}
<1>1. ASSUME NEW s \in Slots, WorkspaceServe(s)
      PROVE  ui.page \in {"list", "view", "demo"}
  BY <1>1, ServeIs, PageOf DEF WorkspaceServe
<1>2. ASSUME NEW s \in Slots, WorkspaceContinue(s)
      PROVE  ui.page \in {"list", "view", "demo"}
  <2>1. ~ Vacant(s) /\ calls[s].then \in {"loadSessions", "seedDemo", "listDemo", "loadEvents", "loadChain",
                                          "audit", "openEvidence", "downloadEvidencePdf"}
    BY <1>2, AnsweredIs, ThrowIs
       DEF WorkspaceContinue, SessionsLoaded, DemoSeeded, DemoListed, EventsLoaded, ChainLoaded, Audited,
           EvidenceOpened, PdfDownloaded, WorkspaceCatch, Vacant
  <2> QED
    BY <2>1, PageOf
<1> QED
  BY <1>1, <1>2 DEF WorkspaceNext, ListMount, ListOffers, NewSession, SeedDemo, PickOffers, SessionOffers

LEMMA KeysPageOnly ==
  ASSUME SceneInv, KeysNext
  PROVE  ui.page = "keys"
<1>1. ASSUME NEW s \in Slots, KeysServe(s)
      PROVE  ui.page = "keys"
  BY <1>1, ServeIs, PageOf DEF KeysServe, CreateApiKey, ListApiKeys, RevokeApiKey
<1>2. ASSUME NEW s \in Slots, KeysContinue(s)
      PROVE  ui.page = "keys"
  <2>1. ~ Vacant(s) /\ calls[s].then \in {"refreshKeys", "createKey", "revokeKey"}
    BY <1>2, AnsweredIs, ThrowIs DEF KeysContinue, KeysRefreshed, KeyCreated, KeyRevoked, KeysCatch
  <2> QED
    BY <2>1, PageOf
<1> QED
  BY <1>1, <1>2 DEF KeysNext, KeysMount, KeysOffers, AgentNext

LEMMA SettingsPage ==
  ASSUME SceneInv, SettingsNext
  PROVE  ui.page \in {"byok", "policy", "schedule", "webhook"}
<1>1. ASSUME NEW s \in Slots, SettingsServe(s)
      PROVE  ui.page \in {"byok", "policy", "schedule", "webhook"}
  BY <1>1, ServeIs, PageOf DEF SettingsServe
<1>2. ASSUME NEW s \in Slots, SettingsContinue(s)
      PROVE  ui.page \in {"byok", "policy", "schedule", "webhook"}
  <2>1. ~ Vacant(s) /\ \/ calls[s].then \in {"refresh", "save", "clear"}
                       \/ calls[s].then \in {"refreshRules", "refreshFramework", "changeFramework", "allFramework",
                                             "allRules", "addRule", "readRules", "removeRule"}
                       \/ calls[s].then \in {"refreshSchedule", "saveSchedule", "readSchedule"}
                       \/ calls[s].then \in {"refreshWebhook", "saveWebhook", "readWebhook", "clearWebhook"}
    <3>1. CASE SettingsCatch(s)
      BY <3>1, ThrowIs DEF SettingsCatch, KeyCatch, FrameworkCatch, RulesCatch, ScheduleCatch, WebhookCatch
    <3>2. CASE ~ SettingsCatch(s)
      BY <1>2, <3>2, AnsweredIs
         DEF SettingsContinue, Refreshed, Saved, Cleared, FrameworkChanged, FrameworkRefreshed, RuleAdded,
             RuleRemoved, RulesRefreshed, ScheduleSaved, ScheduleRefreshed, WebhookSaved, WebhookCleared,
             WebhookRefreshed
    <3> QED
      BY <3>1, <3>2
  <2> QED
    BY <2>1, PageOf
<1> QED
  BY <1>1, <1>2 DEF SettingsNext, SettingsMount, KeyCardOffers, FrameworkCardOffers, RulesCardOffers,
                    ScheduleCardOffers, HookCardOffers

LEMMA TeamPageOnly ==
  ASSUME SceneInv, TeamPageNext
  PROVE  ui.page = "team"
<1>1. ASSUME NEW s \in Slots, TeamPageContinue(s)
      PROVE  ui.page = "team"
  <2>1. ~ Vacant(s) /\ calls[s].then \in {"refreshTeam", "invite", "readTeam", "revokeInvite", "changeRole",
                                          "removeMember"}
    BY <1>1, AnsweredIs, ThrowIs DEF TeamPageContinue, TeamRefreshed, Invited, TeamChanged, TeamCatch
  <2> QED
    BY <2>1, PageOf
<1> QED
  BY <1>1 DEF TeamPageNext, TeamMount, MembersOffer, InvitesOffer, TeamElsewhere, TeamServe

LEMMA BillingPage ==
  ASSUME SceneInv, BillingNext
  PROVE  ui.page = "billing"
<1>1. ASSUME NEW s \in Slots, BillingServe(s)
      PROVE  ui.page = "billing"
  BY <1>1, ServeIs, PageOf DEF BillingServe
<1>2. ASSUME NEW s \in Slots, BillingContinue(s)
      PROVE  ui.page = "billing"
  <2>1. ~ Vacant(s) /\ calls[s].then \in {"refreshPlan", "upgrade", "manage"}
    BY <1>2, AnsweredIs, ThrowIs DEF BillingContinue, PlanRefreshed, SentAway, BillingCatch
  <2> QED
    BY <2>1, PageOf
<1> QED
  BY <1>1, <1>2 DEF BillingNext, BillingMount, BillingOffers, ComeBack, SubscriptionChanges

LEMMA InsightsPage ==
  ASSUME SceneInv, InsightsNext
  PROVE  ui.page = "insights"
<1>1. ASSUME NEW s \in Slots, InsightsServe(s)
      PROVE  ui.page = "insights"
  BY <1>1, ServeIs, PageOf DEF InsightsServe
<1>2. ASSUME NEW s \in Slots, InsightsContinue(s)
      PROVE  ui.page = "insights"
  <2>1. ~ Vacant(s) /\ calls[s].then = "refreshTrend"
    BY <1>2, AnsweredIs, ThrowIs DEF InsightsContinue, TrendRefreshed, InsightsCatch
  <2> QED
    BY <2>1, PageOf
<1> QED
  BY <1>1, <1>2 DEF InsightsNext, InsightsMount, InsightsOffers, Reload

------------------------------------------------------------------------------
(***************************************************************************)
(* What a clean copy means for the calls that are about it: the page gave  *)
(* up on none of them, and no two of them compete.                         *)
(***************************************************************************)
Orderly ==
  \A r \in DOMAIN trust \ Flags : trust[r] = "clean" =>
    /\ \A s \in Slots : r \in calls[s].on => calls[s].st # "late"
    /\ \A s, o \in Slots : s # o => ~ Competes(calls[s], calls[o], r)

LEMMA VacantIsNowhere ==
  ASSUME SceneInv, NEW s \in Slots, Vacant(s)
  PROVE  calls[s].on = {} /\ calls[s].do = "none" /\ calls[s].then = ""
BY DEF SceneInv, CallOf, Vacant

LEMMA LateIsAWrite ==
  ASSUME SceneInv, NEW s \in Slots, calls[s].st = "late"
  PROVE  calls[s].on \cap Flags = {} /\ calls[s].do = "write"
<1>1. SentBy(ui.page, calls[s]) /\ calls[s].do = "write"
  BY DEF SceneInv, CallOf
<1> QED
  BY <1>1 DEF SentBy

\* After calls went out, what a clean copy was before, or how it became clean.
LEMMA SendKnown ==
  ASSUME SceneInv, NEW base, NEW new, SendFrom(base, new), NEW r \in DOMAIN trust, trust'[r] = "clean"
  PROVE  /\ \A s \in DOMAIN new, o \in Slots \ DOMAIN new : ~ Competes(new[s], calls[o], r)
         /\ \/ base[r] = "clean"
            \/ /\ \A o \in Slots \ DOMAIN new : r \notin calls[o].on
               /\ \A s \in DOMAIN new : ~ (r \in calls[s].on /\ (r \in Flags \/ calls[s].do = "read"))
               /\ \E s \in DOMAIN new : r \in new[s].on /\ (new[s].do = "read" \/ r \in Flags)
<1> DEFINE rest  == {o \in Slots \ DOMAIN new : ~ Vacant(o)}
           raced == \E s \in DOMAIN new, o \in rest : Competes(new[s], calls[o], r)
           fresh == /\ \A o \in rest : r \notin calls[o].on
                    /\ \A s \in DOMAIN new : ~ (r \in calls[s].on /\ (r \in Flags \/ calls[s].do = "read"))
                    /\ \E s \in DOMAIN new : r \in new[s].on /\ (new[s].do = "read" \/ r \in Flags)
<1>1. ~ raced /\ (fresh \/ base[r] = "clean")
  BY DEF SendFrom
<1>2. \A o \in Slots \ DOMAIN new : o \in rest \/ calls[o].on = {}
  BY VacantIsNowhere
<1> HIDE DEF rest
<1>3. \A s \in DOMAIN new, o \in Slots \ DOMAIN new : ~ Competes(new[s], calls[o], r)
  BY <1>1, <1>2 DEF Competes
<1>4. (\A o \in rest : r \notin calls[o].on) => \A o \in Slots \ DOMAIN new : r \notin calls[o].on
  BY <1>2
<1> QED
  BY <1>1, <1>3, <1>4

\* The same for one call.
LEMMA SendOneKnown ==
  ASSUME SceneInv, NEW base, NEW s \in Slots, NEW c, SendFrom(base, At(s, c)), NEW r \in DOMAIN trust,
         trust'[r] = "clean"
  PROVE  /\ \A o \in Slots \ {s} : ~ Competes(c, calls[o], r)
         /\ \/ base[r] = "clean"
            \/ /\ \A o \in Slots \ {s} : r \notin calls[o].on
               /\ ~ (r \in calls[s].on /\ (r \in Flags \/ calls[s].do = "read"))
               /\ r \in c.on /\ (c.do = "read" \/ r \in Flags)
<1>1. DOMAIN At(s, c) = {s} /\ At(s, c)[s] = c
  BY DEF At
<1> QED
  BY <1>1, SendKnown

LEMMA SendSeveralOrderly ==
  ASSUME SceneInv, Orderly, NEW base, NEW new, SendFrom(base, new), DOMAIN new \subseteq Slots,
         \A r \in DOMAIN trust : base[r] = "clean" => trust[r] = "clean",
         \A s \in DOMAIN new : new[s].st = "out",
         \A s, o \in DOMAIN new : s # o => \A r \in DOMAIN trust \ Flags : ~ Competes(new[s], new[o], r)
  PROVE  Orderly'
<1>1. DOMAIN trust' = DOMAIN trust
  BY DEF SendFrom
<1>2. calls' = [s \in Slots |-> IF s \in DOMAIN new THEN new[s] ELSE calls[s]]
  BY DEF SendFrom
<1>3. SUFFICES ASSUME NEW r \in DOMAIN trust \ Flags, trust'[r] = "clean"
               PROVE  /\ \A s \in Slots : r \in calls'[s].on => calls'[s].st # "late"
                      /\ \A s, o \in Slots : s # o => ~ Competes(calls'[s], calls'[o], r)
  BY <1>1 DEF Orderly, Competes
<1>4. \A s \in DOMAIN new, o \in Slots \ DOMAIN new : ~ Competes(new[s], calls[o], r)
  BY <1>3, SendKnown
<1>5. ASSUME NEW o \in Slots \ DOMAIN new
      PROVE  /\ r \in calls[o].on => calls[o].st # "late"
             /\ \A q \in Slots \ DOMAIN new : o # q => ~ Competes(calls[o], calls[q], r)
  <2>1. CASE trust[r] = "clean"
    BY <2>1 DEF Orderly
  <2>2. CASE trust[r] # "clean"
    <3>1. r \notin calls[o].on
      BY <1>3, <2>2, SendKnown
    <3> QED
      BY <3>1 DEF Competes
  <2> QED
    BY <2>1, <2>2
<1>6. \A s \in DOMAIN new, o \in Slots \ DOMAIN new : ~ Competes(calls[o], new[s], r)
  BY <1>4 DEF Competes
<1>7. \A s \in Slots : calls'[s] = IF s \in DOMAIN new THEN new[s] ELSE calls[s]
  BY <1>2
<1>8. ASSUME NEW s \in Slots, r \in calls'[s].on
      PROVE  calls'[s].st # "late"
  <2>1. CASE s \in DOMAIN new
    BY <1>7, <2>1
  <2>2. CASE s \notin DOMAIN new
    <3>1. calls'[s] = calls[s]
      BY <1>7, <2>2
    <3> QED
      BY <1>5, <1>8, <2>2, <3>1
  <2> QED
    BY <2>1, <2>2
<1>9. ASSUME NEW s \in Slots, NEW o \in Slots, s # o
      PROVE  ~ Competes(calls'[s], calls'[o], r)
  <2>1. CASE s \in DOMAIN new /\ o \in DOMAIN new
    BY <1>7, <1>9, <2>1
  <2>2. CASE s \in DOMAIN new /\ o \notin DOMAIN new
    BY <1>4, <1>7, <2>2
  <2>3. CASE s \notin DOMAIN new /\ o \in DOMAIN new
    BY <1>6, <1>7, <2>3
  <2>4. CASE s \notin DOMAIN new /\ o \notin DOMAIN new
    <3>1. calls'[s] = calls[s] /\ calls'[o] = calls[o]
      BY <1>7, <2>4
    <3> QED
      BY <1>5, <1>9, <2>4, <3>1
  <2> QED
    BY <2>1, <2>2, <2>3, <2>4
<1> QED
  BY <1>8, <1>9

LEMMA SendFromOrderly ==
  ASSUME SceneInv, Orderly, NEW base, \A r \in DOMAIN trust : base[r] = "clean" => trust[r] = "clean",
         NEW s \in Slots, NEW do, NEW on, NEW arg, NEW then, SendFrom(base, At(s, Call(do, on, arg, then)))
  PROVE  Orderly'
<1> DEFINE new == At(s, Call(do, on, arg, then))
<1>1. DOMAIN new = {s} /\ new[s].st = "out"
  BY DEF At, Call
<1> HIDE DEF new
<1> QED
  BY <1>1, SendSeveralOrderly DEF new

LEMMA SendOrderly ==
  ASSUME SceneInv, Orderly, NEW s \in Slots, NEW do, NEW on, NEW arg, NEW then,
         Send(At(s, Call(do, on, arg, then)))
  PROVE  Orderly'
BY SendFromOrderly DEF Send

LEMMA StartOrderly ==
  ASSUME SceneInv, Orderly, NEW do, NEW on, NEW arg, NEW then, Start(Call(do, on, arg, then))
  PROVE  Orderly'
BY SendOrderly DEF Start

\* Any other step: a call about a clean copy was one before.
LEMMA OrderlyKeep ==
  ASSUME Orderly, DOMAIN trust' = DOMAIN trust,
         \A r \in DOMAIN trust \ Flags : trust'[r] = "clean" =>
           \/ \A s \in Slots : r \notin calls'[s].on
           \/ /\ trust[r] = "clean"
              /\ \A s \in Slots : r \in calls'[s].on =>
                   /\ r \in calls[s].on /\ calls'[s].do = calls[s].do /\ calls'[s].arg = calls[s].arg
                   /\ calls'[s].st = "late" => calls[s].st = "late"
  PROVE  Orderly'
BY DEF Orderly, Competes

LEMMA BackFields ==
  ASSUME SceneInv, NEW s \in Slots, NEW ans
  PROVE  LET b == Back(calls[s], ans)
         IN  /\ b.st = "back" /\ b.ans = ans
             /\ b.do = calls[s].do /\ b.on = calls[s].on /\ b.arg = calls[s].arg /\ b.then = calls[s].then
<1>1. IsCall(calls[s])
  BY DEF SceneInv, CallOf
<1> QED
  BY <1>1 DEF Back, IsCall, Fields

LEMMA RefusedFields ==
  ASSUME SceneInv, NEW s \in Slots
  PROVE  LET b == [calls[s] EXCEPT !.st = "refused"]
         IN  /\ b.st = "refused"
             /\ b.do = calls[s].do /\ b.on = calls[s].on /\ b.arg = calls[s].arg /\ b.then = calls[s].then
<1>1. IsCall(calls[s])
  BY DEF SceneInv, CallOf
<1> QED
  BY <1>1 DEF IsCall, Fields

LEMMA GivenUpFields ==
  ASSUME SceneInv, NEW s \in Slots
  PROVE  LET b == GivenUp(calls[s])
         IN  \/ b = Free
             \/ /\ b.st = "late" /\ b.do = "write" /\ calls[s].do = "write"
                /\ b.on = calls[s].on \ Flags /\ b.arg = calls[s].arg /\ b.then = calls[s].then
<1>1. IsCall(calls[s])
  BY DEF SceneInv, CallOf
<1> QED
  BY <1>1 DEF GivenUp, IsCall, Fields

LEMMA FreeFields ==
  Free.st = "free" /\ Free.on = {} /\ Free.do = "none" /\ Free.then = ""
BY DEF Free

\* What an answer of the server changes of the calls.
LEMMA ServeCalls ==
  ASSUME SceneInv, NEW s \in Slots, NEW new, NEW ans, Serve(s, new, ans)
  PROVE  /\ \A o \in Slots \ {s} : calls'[o] = calls[o]
         /\ \/ calls[s].st = "late" /\ calls'[s] = Free
            \/ /\ calls[s].st = "out" /\ calls'[s].st = "back" /\ calls'[s].ans = ans
               /\ calls'[s].do = calls[s].do /\ calls'[s].on = calls[s].on
               /\ calls'[s].arg = calls[s].arg /\ calls'[s].then = calls[s].then
         /\ server' = new /\ UNCHANGED <<ui, trust>>
<1>1. calls' = [calls EXCEPT ![s] = IF @.st = "late" THEN Free ELSE Back(@, ans)]
  BY DEF Serve
<1>2. calls[s].st \in {"out", "late"} /\ server' = new /\ UNCHANGED <<ui, trust>>
  BY DEF Serve
<1>3. \/ calls[s].st = "late" /\ calls'[s] = Free
      \/ calls[s].st = "out" /\ calls'[s] = Back(calls[s], ans)
  BY <1>1, <1>2 DEF SceneInv
<1>4. \A o \in Slots \ {s} : calls'[o] = calls[o]
  BY <1>1 DEF SceneInv
<1> QED
  BY <1>2, <1>3, <1>4, BackFields

LEMMA ServeOrderly ==
  ASSUME SceneInv, Orderly, NEW s \in Slots, NEW new, NEW ans, Serve(s, new, ans)
  PROVE  Orderly'
<1>1. \A o \in Slots : \A r : r \in calls'[o].on =>
        /\ r \in calls[o].on /\ calls'[o].do = calls[o].do /\ calls'[o].arg = calls[o].arg
        /\ calls'[o].st = "late" => calls[o].st = "late"
  BY ServeCalls, FreeFields
<1>2. UNCHANGED trust
  BY ServeCalls
<1> QED
  BY <1>1, <1>2 DEF Orderly, Competes

LEMMA RefuseCalls ==
  ASSUME SceneInv, NEW s \in Slots, Refuse(s)
  PROVE  /\ \A o \in Slots \ {s} : calls'[o] = calls[o]
         /\ \/ calls[s].st = "late" /\ calls'[s] = Free
            \/ /\ calls[s].st = "out" /\ calls'[s].st = "refused"
               /\ calls'[s].do = calls[s].do /\ calls'[s].on = calls[s].on
               /\ calls'[s].arg = calls[s].arg /\ calls'[s].then = calls[s].then
         /\ UNCHANGED <<ui, server, trust>>
<1>1. calls' = [calls EXCEPT ![s] = IF @.st = "late" THEN Free ELSE [calls[s] EXCEPT !.st = "refused"]]
  BY DEF Refuse
<1>2. calls[s].st \in {"out", "late"} /\ UNCHANGED <<ui, server, trust>>
  BY DEF Refuse
<1>3. \/ calls[s].st = "late" /\ calls'[s] = Free
      \/ calls[s].st = "out" /\ calls'[s] = [calls[s] EXCEPT !.st = "refused"]
  BY <1>1, <1>2 DEF SceneInv
<1>4. \A o \in Slots \ {s} : calls'[o] = calls[o]
  BY <1>1 DEF SceneInv
<1> QED
  BY <1>2, <1>3, <1>4, RefusedFields

LEMMA RefuseOrderly ==
  ASSUME SceneInv, Orderly, NEW s \in Slots, Refuse(s)
  PROVE  Orderly'
<1>1. \A o \in Slots : \A r : r \in calls'[o].on =>
        /\ r \in calls[o].on /\ calls'[o].do = calls[o].do /\ calls'[o].arg = calls[o].arg
        /\ calls'[o].st = "late" => calls[o].st = "late"
  BY RefuseCalls, FreeFields
<1>2. UNCHANGED trust
  BY RefuseCalls
<1> QED
  BY <1>1, <1>2 DEF Orderly, Competes

LEMMA FinishCalls ==
  ASSUME SceneInv, NEW s \in Slots, Finish(s) \/ Lose(s)
  PROVE  (\A o \in Slots \ {s} : calls'[o] = calls[o]) /\ calls'[s] = Free /\ UNCHANGED trust
BY DEF Finish, Lose, SceneInv

LEMMA FinishOrderly ==
  ASSUME SceneInv, Orderly, NEW s \in Slots, Finish(s) \/ Lose(s)
  PROVE  Orderly'
BY FinishCalls, OrderlyKeep, FreeFields

LEMMA ThrowCalls ==
  ASSUME SceneInv, NEW s \in Slots, Throw(s)
  PROVE  /\ \A o \in Slots \ {s} : calls'[o] = calls[o]
         /\ \/ calls'[s] = Free
            \/ /\ calls'[s].st = "late" /\ calls'[s].do = "write" /\ calls[s].do = "write"
               /\ calls'[s].on = calls[s].on \ Flags /\ calls'[s].arg = calls[s].arg
               /\ calls'[s].then = calls[s].then
         /\ DOMAIN trust' = DOMAIN trust
         /\ \A r \in DOMAIN trust : trust'[r] = IF r \in calls[s].on \ Flags THEN "failed" ELSE trust[r]
<1>1. calls' = [calls EXCEPT ![s] = GivenUp(@)] /\ trust' = Doubts(s)
  BY DEF Throw
<1>2. (\A o \in Slots \ {s} : calls'[o] = calls[o]) /\ calls'[s] = GivenUp(calls[s])
  BY <1>1 DEF SceneInv
<1>3. /\ DOMAIN trust' = DOMAIN trust
      /\ \A r \in DOMAIN trust : trust'[r] = IF r \in calls[s].on \ Flags THEN "failed" ELSE trust[r]
  BY <1>1 DEF Doubts
<1> QED
  BY <1>2, <1>3, GivenUpFields

LEMMA ThrowOrderly ==
  ASSUME SceneInv, Orderly, NEW s \in Slots, Throw(s)
  PROVE  Orderly'
<1>1. \A r \in DOMAIN trust \ Flags : trust'[r] = "clean" =>
        trust[r] = "clean" /\ \A o \in Slots : r \in calls'[o].on => calls'[o] = calls[o]
  BY ThrowCalls, FreeFields
<1> QED
  BY <1>1, ThrowCalls, OrderlyKeep

LEMMA ElsewhereOrderly ==
  ASSUME SceneInv, Orderly, NEW r, NEW new, Elsewhere(r, new)
  PROVE  Orderly'
<1>1. UNCHANGED calls /\ trust' = [trust EXCEPT ![r] = "raced"]
  BY DEF Elsewhere
<1>2. DOMAIN trust' = DOMAIN trust /\ \A q \in DOMAIN trust : trust'[q] = "clean" => trust[q] = "clean"
  BY <1>1 DEF SceneInv, TrustTyped
<1> QED
  BY <1>1, <1>2, OrderlyKeep

LEMMA DocumentTrust ==
  ASSUME SceneInv, NEW card, NewDocument(card)
  PROVE  /\ DOMAIN trust' = DOMAIN trust
         /\ \A r \in DOMAIN trust : trust'[r] = IF r \in Flags THEN "clean" ELSE "raced"
BY DEF NewDocument

LEMMA DocumentOrderly ==
  ASSUME SceneInv, Orderly, NEW card, NewDocument(card)
  PROVE  Orderly'
BY DocumentTrust, OrderlyKeep

LEMMA LocalOrderly ==
  ASSUME Orderly, UNCHANGED <<calls, trust>>
  PROVE  Orderly'
BY OrderlyKeep

------------------------------------------------------------------------------
(***************************************************************************)
(* What every page keeps of a thing r that it has a copy of, in the calls  *)
(* cs and with tr known of it: a clean copy is what is stored as soon as   *)
(* its calls have ended, and so is an answer that is on its way to it.     *)
(***************************************************************************)
Mirrors(cs, tr, r, shown, stored) ==
  tr[r] = "clean" =>
    /\ (\A s \in Slots : r \notin cs[s].on) => shown = stored
    /\ \A s \in Slots : r \in cs[s].on /\ cs[s].do = "read" /\ cs[s].st = "back" => cs[s].ans = stored

\* The write of an operation that took the message away when it started.
SoleWrite(cs, s, r) ==
  /\ r \in cs[s].on /\ cs[s].do = "write" /\ cs[s].st \in {"out", "back", "refused"}
  /\ \A o \in Slots \ {s} : r \notin cs[o].on

\* The copy is out of date after an error, and no such operation is under way.
Adrift(cs, tr, r) == tr[r] = "failed" /\ ~ \E s \in Slots : SoleWrite(cs, s, r)

(***************************************************************************)
(* A flag is held by the calls of the operation that set it.  The only     *)
(* operation with two calls open is the change of the framework.           *)
(***************************************************************************)
Held(cs, flag) == \E s \in Slots : flag \in cs[s].on

Both(c, d) == {c.then, d.then} = {"allFramework", "allRules"}

OneOperation(cs, tr, flag) ==
  tr[flag] = "clean" =>
    \A s, o \in Slots : s # o /\ flag \in cs[s].on \cap cs[o].on => Both(cs[s], cs[o])

\* Sending c in the slot s.
LEMMA SentIs ==
  ASSUME SceneInv, NEW base, NEW s \in Slots, NEW do, NEW on, NEW arg, NEW then,
         SendFrom(base, At(s, Call(do, on, arg, then)))
  PROVE  /\ \A o \in Slots \ {s} : calls'[o] = calls[o]
         /\ calls'[s].st = "out" /\ calls'[s].do = do /\ calls'[s].on = on
         /\ calls'[s].arg = arg /\ calls'[s].then = then
         /\ DOMAIN trust' = DOMAIN trust
<1> DEFINE c == Call(do, on, arg, then)
<1>1. c.st = "out" /\ c.do = do /\ c.on = on /\ c.arg = arg /\ c.then = then
  BY DEF Call
<1> HIDE DEF c
<1>2. DOMAIN At(s, c) = {s} /\ At(s, c)[s] = c
  BY DEF At
<1>3. /\ calls' = [o \in Slots |-> IF o \in DOMAIN At(s, c) THEN At(s, c)[o] ELSE calls[o]]
      /\ DOMAIN trust' = DOMAIN trust
  BY DEF SendFrom, c
<1> QED
  BY <1>1, <1>2, <1>3

\* What is known of r after the call went out, by what was known before.
LEMMA SentTrust ==
  ASSUME SceneInv, NEW base, NEW s \in Slots, NEW do, NEW on, NEW arg, NEW then,
         SendFrom(base, At(s, Call(do, on, arg, then))), NEW r \in DOMAIN trust
  PROVE  /\ trust'[r] = "clean" =>
              \/ base[r] = "clean"
              \/ /\ \A o \in Slots \ {s} : r \notin calls[o].on
                 /\ ~ (r \in calls[s].on /\ (r \in Flags \/ calls[s].do = "read"))
                 /\ r \in on /\ (do = "read" \/ r \in Flags)
         /\ trust'[r] = "clean" => \A o \in Slots \ {s} : ~ Competes(Call(do, on, arg, then), calls[o], r)
         /\ trust'[r] = "failed" =>
              /\ base[r] = "failed"
              /\ \A o \in Slots \ {s} : ~ Competes(Call(do, on, arg, then), calls[o], r)
              /\ ~ /\ \A o \in Slots \ {s} : r \notin calls[o].on
                   /\ ~ (r \in calls[s].on /\ (r \in Flags \/ calls[s].do = "read"))
                   /\ r \in on /\ (do = "read" \/ r \in Flags)
<1> DEFINE c == Call(do, on, arg, then)
           rest  == {o \in Slots \ {s} : ~ Vacant(o)}
           raced == \E o \in rest : Competes(c, calls[o], r)
           had   == r \in calls[s].on /\ (r \in Flags \/ calls[s].do = "read")
           fresh == /\ \A o \in rest : r \notin calls[o].on
                    /\ ~ had
                    /\ r \in c.on /\ (c.do = "read" \/ r \in Flags)
<1>1. c.do = do /\ c.on = on
  BY DEF Call
<1> HIDE DEF c
<1>2. DOMAIN At(s, c) = {s} /\ At(s, c)[s] = c
  BY DEF At
<1>3. trust'[r] = IF raced THEN "raced" ELSE IF fresh THEN "clean" ELSE base[r]
  BY <1>2 DEF SendFrom, c
<1>4. \A o \in Slots \ {s} : o \in rest \/ calls[o].on = {}
  BY VacantIsNowhere
<1> HIDE DEF rest
<1>5. (\A o \in rest : r \notin calls[o].on) => \A o \in Slots \ {s} : r \notin calls[o].on
  BY <1>4
<1>6. raced <=> \E o \in Slots \ {s} : Competes(c, calls[o], r)
  BY <1>4 DEF Competes, rest
<1>7. fresh => \A o \in Slots \ {s} : r \notin calls[o].on
  BY <1>5
<1>8. (\A o \in Slots \ {s} : r \notin calls[o].on) => \A o \in rest : r \notin calls[o].on
  BY DEF rest
<1> DEFINE apart == \A o \in Slots \ {s} : r \notin calls[o].on
           rival == \E o \in Slots \ {s} : Competes(c, calls[o], r)
<1>9. fresh <=> (apart /\ ~ had /\ r \in on /\ (do = "read" \/ r \in Flags))
  BY <1>1, <1>7, <1>8
<1>10. trust'[r] = IF rival THEN "raced" ELSE IF apart /\ ~ had /\ r \in on /\ (do = "read" \/ r \in Flags)
                                              THEN "clean" ELSE base[r]
  BY <1>3, <1>6, <1>9
<1> QED
  BY <1>10 DEF c

\* A call goes out, in a new slot or where the call before it ended.
LEMMA SentMirrors ==
  ASSUME SceneInv, Orderly, NEW base, NEW s \in Slots, NEW do, NEW on, NEW arg, NEW then,
         SendFrom(base, At(s, Call(do, on, arg, then))),
         NEW r \in DOMAIN trust, base[r] = trust[r],
         NEW shown, NEW stored, Mirrors(calls, trust, r, shown, stored),
         r \in calls[s].on => r \in on
  PROVE  Mirrors(calls', trust', r, shown, stored)
<1>1. CASE trust[r] = "clean"
  <2>1. /\ (\A o \in Slots : r \notin calls[o].on) => shown = stored
        /\ \A o \in Slots : r \in calls[o].on /\ calls[o].do = "read" /\ calls[o].st = "back" => calls[o].ans = stored
    BY <1>1 DEF Mirrors
  <2>2. (\A o \in Slots : r \notin calls'[o].on) => \A o \in Slots : r \notin calls[o].on
    BY SentIs
  <2>3. \A o \in Slots : calls'[o].st = "back" => calls'[o] = calls[o]
    BY SentIs
  <2> QED
    BY <2>1, <2>2, <2>3 DEF Mirrors
<1>2. CASE trust[r] # "clean" /\ trust'[r] = "clean"
  <2>1. r \in on /\ \A o \in Slots \ {s} : r \notin calls[o].on
    BY <1>2, SentTrust
  <2>2. r \in calls'[s].on /\ calls'[s].st = "out" /\ \A o \in Slots \ {s} : r \notin calls'[o].on
    BY <2>1, SentIs
  <2> QED
    BY <2>2 DEF Mirrors
<1> QED
  BY <1>1, <1>2 DEF Mirrors

LEMMA SentAdrift ==
  ASSUME SceneInv, NEW base, NEW s \in Slots, NEW do, NEW on, NEW arg, NEW then,
         SendFrom(base, At(s, Call(do, on, arg, then))),
         NEW r \in DOMAIN trust \ Flags, base[r] = trust[r],
         r \in calls[s].on => r \in on /\ (calls[s].do = "write" => do = "read"),
         Adrift(calls', trust', r)
  PROVE  Adrift(calls, trust, r) /\ ~ (do = "write" /\ r \in on)
<1> DEFINE c == Call(do, on, arg, then)
<1>1. c.do = do /\ c.on = on /\ c.arg = arg
  BY DEF Call
<1>2. /\ trust[r] = "failed" /\ \A o \in Slots \ {s} : ~ Competes(c, calls[o], r)
      /\ ~ /\ \A o \in Slots \ {s} : r \notin calls[o].on
           /\ ~ (r \in calls[s].on /\ calls[s].do = "read")
           /\ r \in on /\ do = "read"
  BY SentTrust DEF Adrift
<1> HIDE DEF c
<1>3. \A o \in Slots \ {s} : ~ (r \in on /\ r \in calls[o].on /\ (do = "write" \/ calls[o].do = "write"))
  BY <1>1, <1>2 DEF Competes
<1>4. ~ (do = "write" /\ r \in on)
  <2> SUFFICES ASSUME do = "write", r \in on
               PROVE  FALSE
    OBVIOUS
  <2>1. \A o \in Slots \ {s} : r \notin calls'[o].on
    BY <1>3, SentIs
  <2>2. SoleWrite(calls', s, r)
    BY <2>1, SentIs DEF SoleWrite
  <2> QED
    BY <2>2 DEF Adrift
<1>5. ASSUME NEW q \in Slots, SoleWrite(calls, q, r)
      PROVE  FALSE
  <2>1. q # s
    BY <1>2, <1>5 DEF SoleWrite
  <2>2. r \notin on
    BY <1>3, <1>5, <2>1 DEF SoleWrite
  <2>3. SoleWrite(calls', q, r)
    BY <1>5, <2>1, <2>2, SentIs DEF SoleWrite
  <2> QED
    BY <2>3 DEF Adrift
<1> QED
  BY <1>2, <1>4, <1>5 DEF Adrift

LEMMA SentHeld ==
  ASSUME SceneInv, NEW base, NEW s \in Slots, NEW do, NEW on, NEW arg, NEW then,
         SendFrom(base, At(s, Call(do, on, arg, then))),
         NEW f \in DOMAIN trust \cap Flags, base[f] = trust[f], OneOperation(calls, trust, f),
         f \in calls[s].on => f \in on
  PROVE  /\ OneOperation(calls', trust', f)
         /\ f \in on => Held(calls', f)
         /\ f \notin on => (Held(calls', f) <=> Held(calls, f))
         /\ trust'[f] = "clean" /\ (f \notin on \/ f \in calls[s].on) => trust[f] = "clean"
<1> DEFINE c == Call(do, on, arg, then)
<1>1. c.do = do /\ c.on = on
  BY DEF Call
<1>2. trust'[f] = "clean" =>
        /\ \A o \in Slots \ {s} : ~ Competes(c, calls[o], f)
        /\ \/ trust[f] = "clean"
           \/ f \in on /\ f \notin calls[s].on
  BY SentTrust
<1> HIDE DEF c
<1>3. f \notin on => \A o \in Slots : /\ f \in calls'[o].on <=> f \in calls[o].on
                                      /\ f \in calls[o].on => calls'[o] = calls[o]
  BY SentIs
<1>4. ASSUME trust'[f] = "clean", f \in on
      PROVE  OneOperation(calls', trust', f)
  <2>1. \A o \in Slots \ {s} : f \notin calls[o].on
    BY <1>1, <1>2, <1>4 DEF Competes
  <2>2. \A o \in Slots \ {s} : f \notin calls'[o].on
    BY <2>1, SentIs
  <2> QED
    BY <2>2 DEF OneOperation
<1>5. ASSUME trust'[f] = "clean", f \notin on
      PROVE  OneOperation(calls', trust', f)
  BY <1>2, <1>3, <1>5 DEF OneOperation
<1>6. f \in on => Held(calls', f)
  BY SentIs DEF Held
<1>7. f \notin on => (Held(calls', f) <=> Held(calls, f))
  BY <1>3 DEF Held
<1>8. OneOperation(calls', trust', f)
  BY <1>4, <1>5 DEF OneOperation
<1> QED
  BY <1>2, <1>6, <1>7, <1>8

\* A handler that starts sends its call in a slot that is free.
LEMMA StartMirrors ==
  ASSUME SceneInv, Orderly, NEW do, NEW on, NEW arg, NEW then, Start(Call(do, on, arg, then)),
         NEW r \in DOMAIN trust, NEW shown, NEW stored, Mirrors(calls, trust, r, shown, stored)
  PROVE  Mirrors(calls', trust', r, shown, stored)
<1>1. PICK s \in Slots : Vacant(s) /\ SendFrom(trust, At(s, Call(do, on, arg, then)))
  BY DEF Start, Send
<1>2. r \notin calls[s].on
  BY <1>1, VacantIsNowhere
<1> QED
  BY <1>1, <1>2, SentMirrors

LEMMA StartAdrift ==
  ASSUME SceneInv, NEW do, NEW on, NEW arg, NEW then, Start(Call(do, on, arg, then)),
         NEW r \in DOMAIN trust \ Flags, Adrift(calls', trust', r)
  PROVE  Adrift(calls, trust, r) /\ ~ (do = "write" /\ r \in on)
<1>1. PICK s \in Slots : Vacant(s) /\ SendFrom(trust, At(s, Call(do, on, arg, then)))
  BY DEF Start, Send
<1>2. r \notin calls[s].on
  BY <1>1, VacantIsNowhere
<1> QED
  BY <1>1, <1>2, SentAdrift

LEMMA StartHeld ==
  ASSUME SceneInv, NEW do, NEW on, NEW arg, NEW then, Start(Call(do, on, arg, then)),
         NEW f \in DOMAIN trust \cap Flags, OneOperation(calls, trust, f)
  PROVE  /\ OneOperation(calls', trust', f)
         /\ f \in on => Held(calls', f)
         /\ f \notin on => (Held(calls', f) <=> Held(calls, f))
         /\ trust'[f] = "clean" /\ f \notin on => trust[f] = "clean"
<1>1. PICK s \in Slots : Vacant(s) /\ SendFrom(trust, At(s, Call(do, on, arg, then)))
  BY DEF Start, Send
<1>2. f \notin calls[s].on
  BY <1>1, VacantIsNowhere
<1> QED
  BY <1>1, <1>2, SentHeld

\* The server answers or refuses: a write may change what is stored of its things.
LEMMA ServeMirrors ==
  ASSUME SceneInv, Orderly, NEW s \in Slots, NEW new, NEW ans, Serve(s, new, ans),
         NEW r \in DOMAIN trust \ Flags, NEW shown, NEW stored, NEW stored2,
         Mirrors(calls, trust, r, shown, stored),
         r \in calls[s].on /\ calls[s].do = "read" => ans = stored,
         stored2 = stored \/ (r \in calls[s].on /\ calls[s].do = "write")
  PROVE  Mirrors(calls', trust', r, shown, stored2)
<1> SUFFICES ASSUME trust[r] = "clean"
             PROVE  Mirrors(calls', trust', r, shown, stored2)
  BY ServeCalls DEF Mirrors
<1>1. CASE r \notin calls[s].on
  <2>1. r \notin calls'[s].on
    BY <1>1, ServeCalls, FreeFields
  <2>2. \A o \in Slots : /\ r \in calls'[o].on <=> r \in calls[o].on
                         /\ r \in calls[o].on => calls'[o] = calls[o]
    BY <1>1, <2>1, ServeCalls
  <2> QED
    BY <1>1, <2>2, ServeCalls DEF Mirrors
<1>2. CASE r \in calls[s].on
  <2>1. /\ calls'[s].on = calls[s].on /\ calls'[s].do = calls[s].do /\ calls'[s].ans = ans
        /\ \A o \in Slots \ {s} : calls'[o] = calls[o]
        /\ trust' = trust
    BY <1>2, ServeCalls DEF Orderly
  <2>2. CASE calls[s].do = "write"
    <3>1. \A o \in Slots \ {s} : r \notin calls[o].on
      BY <1>2, <2>2 DEF Orderly, Competes
    <3> QED
      BY <1>2, <2>1, <2>2, <3>1 DEF Mirrors
  <2>3. CASE calls[s].do # "write"
    <3>1. stored2 = stored
      BY <2>3
    <3>2. calls[s].do = "read"
      <4>1. PICK k \in Sends : k.do = calls[s].do
        BY PageOfCall, ServeIs
      <4> QED
        BY <2>3, <4>1, SendsOwn
    <3>3. ans = stored
      BY <1>2, <3>2
    <3> QED
      BY <1>2, <2>1, <3>1, <3>3 DEF Mirrors
  <2> QED
    BY <2>2, <2>3
<1> QED
  BY <1>1, <1>2

LEMMA ServeAdrift ==
  ASSUME SceneInv, NEW s \in Slots, NEW new, NEW ans, Serve(s, new, ans) \/ Refuse(s),
         NEW r, Adrift(calls', trust', r)
  PROVE  Adrift(calls, trust, r)
<1>1. /\ trust' = trust
      /\ \A o \in Slots \ {s} : calls'[o] = calls[o]
      /\ \/ calls[s].st = "late" /\ calls'[s].on = {}
         \/ /\ calls'[s].st \in {"back", "refused"}
            /\ calls'[s].do = calls[s].do /\ calls'[s].on = calls[s].on
  BY ServeCalls, RefuseCalls, FreeFields
<1>2. \A q \in Slots : SoleWrite(calls, q, r) => SoleWrite(calls', q, r)
  BY <1>1 DEF SoleWrite
<1> QED
  BY <1>1, <1>2 DEF Adrift

LEMMA ServeHeld ==
  ASSUME SceneInv, NEW s \in Slots, NEW new, NEW ans, Serve(s, new, ans) \/ Refuse(s),
         NEW f \in Flags
  PROVE  /\ OneOperation(calls, trust, f) => OneOperation(calls', trust', f)
         /\ Held(calls', f) <=> Held(calls, f)
         /\ UNCHANGED trust
<1>1. /\ trust' = trust
      /\ \A o \in Slots \ {s} : calls'[o] = calls[o]
      /\ \/ calls[s].st = "late" /\ calls'[s].on = {}
         \/ calls'[s].on = calls[s].on /\ calls'[s].then = calls[s].then
  BY ServeCalls, RefuseCalls, FreeFields
<1>2. calls[s].st = "late" => f \notin calls[s].on
  BY LateIsAWrite
<1>3. \A o \in Slots : /\ f \in calls'[o].on <=> f \in calls[o].on
                       /\ f \in calls[o].on => calls'[o].then = calls[o].then
  BY <1>1, <1>2
<1>4. OneOperation(calls, trust, f) => OneOperation(calls', trust', f)
  BY <1>1, <1>3 DEF OneOperation, Both
<1>5. Held(calls', f) <=> Held(calls, f)
  BY <1>3 DEF Held
<1> QED
  BY <1>1, <1>4, <1>5

LEMMA RefuseMirrors ==
  ASSUME SceneInv, Orderly, NEW s \in Slots, Refuse(s),
         NEW r \in DOMAIN trust \ Flags, NEW shown, NEW stored, Mirrors(calls, trust, r, shown, stored)
  PROVE  Mirrors(calls', trust', r, shown, stored)
<1> SUFFICES ASSUME trust[r] = "clean"
             PROVE  Mirrors(calls', trust', r, shown, stored)
  BY RefuseCalls DEF Mirrors
<1>1. \A o \in Slots : r \in calls[o].on => r \in calls'[o].on
  BY RefuseCalls DEF Orderly
<1>2. \A o \in Slots : calls'[o].st = "back" => calls'[o] = calls[o]
  BY RefuseCalls, FreeFields
<1> QED
  BY <1>1, <1>2, RefuseCalls DEF Mirrors

\* A read ends: the page shows its answer.
LEMMA FinishMirrors ==
  ASSUME SceneInv, Orderly, NEW s \in Slots, Finish(s) \/ Lose(s),
         NEW r \in DOMAIN trust \ Flags, NEW shown, NEW shown2, NEW stored, Mirrors(calls, trust, r, shown, stored),
         IF r \in calls[s].on
         THEN \/ calls[s].do = "read" /\ calls[s].st = "back" /\ shown2 = calls[s].ans
              \/ calls[s].st = "late"
         ELSE shown2 = shown
  PROVE  Mirrors(calls', trust', r, shown2, stored)
<1> SUFFICES ASSUME trust[r] = "clean"
             PROVE  Mirrors(calls', trust', r, shown2, stored)
  BY FinishCalls DEF Mirrors
<1>1. r \in calls[s].on => calls[s].do = "read" /\ calls[s].st = "back" /\ shown2 = calls[s].ans
  BY DEF Orderly
<1>2. \A o \in Slots \ {s} : calls'[o] = calls[o]
  BY FinishCalls
<1>3. calls'[s].st = "free" /\ calls'[s].on = {}
  BY FinishCalls, FreeFields
<1>4. UNCHANGED trust
  BY FinishCalls
<1> QED
  BY <1>1, <1>2, <1>3, <1>4 DEF Mirrors

LEMMA FinishAdrift ==
  ASSUME SceneInv, NEW s \in Slots, Finish(s) \/ Lose(s), NEW r, Adrift(calls', trust', r),
         r \in calls[s].on => calls[s].do = "read" \/ calls[s].st = "late"
  PROVE  Adrift(calls, trust, r)
<1>1. \A q \in Slots : SoleWrite(calls, q, r) => SoleWrite(calls', q, r)
  BY FinishCalls, FreeFields DEF SoleWrite
<1> QED
  BY <1>1, FinishCalls DEF Adrift

\* The call that ends holds the flag no longer, nor does any other but the other of two.
LEMMA EndedHeld ==
  ASSUME NEW s \in Slots, NEW f, f \notin calls'[s].on, \A o \in Slots \ {s} : calls'[o] = calls[o],
         trust'[f] = trust[f], OneOperation(calls, trust, f)
  PROVE  /\ OneOperation(calls', trust', f)
         /\ f \notin calls[s].on => (Held(calls', f) <=> Held(calls, f))
         /\ Held(calls', f) <=> \E o \in Slots \ {s} : f \in calls[o].on
         /\ /\ trust[f] = "clean" /\ f \in calls[s].on /\ calls[s].then \notin {"allFramework", "allRules"}
            => ~ Held(calls', f)
<1>1. Held(calls', f) <=> \E o \in Slots \ {s} : f \in calls[o].on
  BY DEF Held
<1>2. f \notin calls[s].on => (Held(calls, f) <=> \E o \in Slots \ {s} : f \in calls[o].on)
  BY DEF Held
<1>3. OneOperation(calls', trust', f)
  BY DEF OneOperation
<1>4. trust[f] = "clean" /\ f \in calls[s].on /\ calls[s].then \notin {"allFramework", "allRules"} =>
        \A o \in Slots \ {s} : f \notin calls[o].on
  BY DEF OneOperation, Both
<1> QED
  BY <1>1, <1>2, <1>3, <1>4

LEMMA FinishHeld ==
  ASSUME SceneInv, NEW s \in Slots, Finish(s), NEW f \in Flags, OneOperation(calls, trust, f)
  PROVE  /\ OneOperation(calls', trust', f) /\ UNCHANGED trust
         /\ f \notin calls[s].on => (Held(calls', f) <=> Held(calls, f))
         /\ Held(calls', f) <=> \E o \in Slots \ {s} : f \in calls[o].on
         /\ /\ trust[f] = "clean" /\ f \in calls[s].on /\ calls[s].then \notin {"allFramework", "allRules"}
            => ~ Held(calls', f)
<1>1. calls'[s].on = {} /\ (\A o \in Slots \ {s} : calls'[o] = calls[o]) /\ UNCHANGED trust
  BY FinishCalls, FreeFields
<1> QED
  BY <1>1, EndedHeld

LEMMA LoseHeld ==
  ASSUME SceneInv, NEW s \in Slots, Lose(s), NEW f \in Flags, OneOperation(calls, trust, f)
  PROVE  OneOperation(calls', trust', f) /\ UNCHANGED trust /\ (Held(calls', f) <=> Held(calls, f))
<1>1. calls'[s].on = {} /\ (\A o \in Slots \ {s} : calls'[o] = calls[o]) /\ UNCHANGED trust
  BY FinishCalls, FreeFields
<1>2. f \notin calls[s].on
  BY LateIsAWrite DEF Lose
<1> QED
  BY <1>1, <1>2, EndedHeld

\* A call throws: its things are out of date from now on, and the catch block says so.
LEMMA ThrowMirrors ==
  ASSUME SceneInv, Orderly, NEW s \in Slots, Throw(s),
         NEW r \in DOMAIN trust \ Flags, NEW shown, NEW stored, Mirrors(calls, trust, r, shown, stored)
  PROVE  Mirrors(calls', trust', r, shown, stored)
<1> SUFFICES ASSUME trust'[r] = "clean"
             PROVE  Mirrors(calls', trust', r, shown, stored)
  BY DEF Mirrors
<1>1. r \notin calls[s].on /\ trust[r] = "clean"
  BY ThrowCalls
<1>2. r \notin calls'[s].on /\ \A o \in Slots \ {s} : calls'[o] = calls[o]
  BY <1>1, ThrowCalls, FreeFields
<1> QED
  BY <1>1, <1>2 DEF Mirrors

LEMMA ThrowAdrift ==
  ASSUME SceneInv, NEW s \in Slots, Throw(s), NEW r \in DOMAIN trust \ Flags, Adrift(calls', trust', r)
  PROVE  r \in calls[s].on \/ Adrift(calls, trust, r)
<1> SUFFICES ASSUME r \notin calls[s].on
             PROVE  Adrift(calls, trust, r)
  OBVIOUS
<1>1. r \notin calls'[s].on /\ \A o \in Slots \ {s} : calls'[o] = calls[o]
  BY ThrowCalls, FreeFields
<1>2. \A q \in Slots : SoleWrite(calls, q, r) => SoleWrite(calls', q, r)
  BY <1>1 DEF SoleWrite
<1>3. trust'[r] = trust[r]
  BY ThrowCalls
<1> QED
  BY <1>2, <1>3 DEF Adrift

LEMMA ThrowHeld ==
  ASSUME SceneInv, NEW s \in Slots, Throw(s), NEW f \in DOMAIN trust \cap Flags, OneOperation(calls, trust, f)
  PROVE  /\ OneOperation(calls', trust', f) /\ trust'[f] = trust[f]
         /\ f \notin calls[s].on => (Held(calls', f) <=> Held(calls, f))
         /\ Held(calls', f) <=> \E o \in Slots \ {s} : f \in calls[o].on
         /\ /\ trust[f] = "clean" /\ f \in calls[s].on /\ calls[s].then \notin {"allFramework", "allRules"}
            => ~ Held(calls', f)
<1>1. f \notin calls'[s].on /\ (\A o \in Slots \ {s} : calls'[o] = calls[o]) /\ trust'[f] = trust[f]
  BY ThrowCalls, FreeFields
<1> QED
  BY <1>1, EndedHeld

\* Somebody else changes a thing, or another document takes the page's place.
LEMMA ElsewhereCopies ==
  ASSUME SceneInv, NEW q \in DOMAIN trust \ Flags, NEW new, Elsewhere(q, new)
  PROVE  /\ UNCHANGED <<ui, calls>> /\ server' = new /\ DOMAIN trust' = DOMAIN trust
         /\ \A r \in DOMAIN trust : trust'[r] = IF r = q THEN "raced" ELSE trust[r]
BY DEF Elsewhere, SceneInv, TrustTyped

LEMMA DocumentCalls ==
  ASSUME SceneInv, NEW card, NewDocument(card)
  PROVE  /\ ui' = card /\ UNCHANGED server
         /\ \A s \in Slots : calls'[s].on \cap Flags = {}
<1>1. \A s \in Slots : calls'[s] = GivenUp(calls[s])
  BY DEF NewDocument
<1> QED
  BY <1>1, GivenUpFields, FreeFields DEF NewDocument
------------------------------------------------------------------------------
\* Every handler keeps the calls about clean copies in order.
LEMMA KeysOrderly ==
  ASSUME SceneInv, Orderly, KeysNext
  PROVE  Orderly'
<1>1. CASE KeysMount \/ KeysOffers
  BY <1>1, StartOrderly DEF KeysMount, KeysOffers, CreateKey, RevokeKey, RefreshKeys
<1>2. ASSUME NEW s \in Slots, KeysServe(s)
      PROVE  Orderly'
  BY <1>2, ServeOrderly DEF KeysServe, CreateApiKey, ListApiKeys, RevokeApiKey
<1>3. ASSUME NEW s \in Slots, KeysContinue(s)
      PROVE  Orderly'
  BY <1>3, SendOrderly, FinishOrderly, ThrowOrderly
     DEF KeysContinue, KeysRefreshed, KeyCreated, KeyRevoked, KeysCatch, RefreshKeys
<1>4. CASE AgentNext
  BY <1>4, LocalOrderly DEF AgentNext, apiVars
<1> QED
  BY <1>1, <1>2, <1>3, <1>4 DEF KeysNext

LEMMA SignInOrderly ==
  ASSUME SceneInv, Orderly, SignInNext
  PROVE  Orderly'
<1>1. ASSUME NEW u, Apply(u), ui.page = "session"
      PROVE  Orderly'
  <2>1. CASE u = "none"
    <3>1. calls' = calls /\ trust' = [trust EXCEPT !["session"] = IF Quiet("session") THEN "clean" ELSE "raced"]
      BY <1>1, <2>1 DEF Apply
    <3>2. DOMAIN trust' = DOMAIN trust /\ \A r \in DOMAIN trust \ {"session"} : trust'[r] = trust[r]
      BY <3>1
    <3>3. trust'["session"] = "clean" => Quiet("session")
      BY <1>1, <3>1 DEF SceneInv, TrustTyped, Things
    <3>4. Quiet("session") => \A s \in Slots : "session" \notin calls'[s].on
      BY <3>1, VacantIsNowhere DEF Quiet
    <3> QED
      BY <3>1, <3>2, <3>3, <3>4, OrderlyKeep
  <2> QED
    BY <1>1, <2>1, StartOrderly DEF Apply
<1>2. CASE SessionMount \/ AuthEvent
  BY <1>1, <1>2 DEF SessionMount, AuthEvent
<1>3. CASE OrgMadeLate \/ CallbackTimeout \/ LinkSession
  BY <1>3, LocalOrderly DEF OrgMadeLate, CallbackTimeout, LinkSession
<1>4. CASE LoginOffers \/ LinkMount \/ NewPassword
  BY <1>4, StartOrderly, LocalOrderly
     DEF LoginOffers, Submit, SetEmail, SetMode, LinkMount, Exchange, NewPassword
<1>5. CASE BackToLogin
  BY <1>5, DocumentOrderly DEF BackToLogin
<1>6. ASSUME NEW s \in Slots, SignInServe(s)
      PROVE  Orderly'
  BY <1>6, ServeOrderly DEF SignInServe
<1>7. ASSUME NEW s \in Slots, SignInContinue(s)
      PROVE  Orderly'
  BY <1>7, FinishOrderly, ThrowOrderly
     DEF SignInContinue, OrgEnsured, Submitted, LoginCatch, Exchanged, PasswordUpdated, ResetCatch
<1> QED
  BY <1>2, <1>3, <1>4, <1>5, <1>6, <1>7 DEF SignInNext

LEMMA WorkspaceOrderly ==
  ASSUME SceneInv, Orderly, WorkspaceNext
  PROVE  Orderly'
<1>1. CASE ListMount \/ ListOffers \/ SeedDemo
  BY <1>1, StartOrderly, LocalOrderly
     DEF ListMount, ListOffers, Search, Debounce, LoadMore, LoadSessions, SeedDemo
<1>2. CASE NewSession
  BY <1>2, ElsewhereOrderly DEF NewSession
<1>3. ASSUME NEW id, Paste(id)
      PROVE  Orderly'
  <2>1. UNCHANGED calls /\ trust' = [trust EXCEPT !["view"] = "raced"]
    BY <1>3 DEF Paste
  <2>2. DOMAIN trust' = DOMAIN trust /\ \A q \in DOMAIN trust : trust'[q] = "clean" => trust[q] = "clean"
    BY <2>1 DEF SceneInv, TrustTyped
  <2> QED
    BY <2>1, <2>2, OrderlyKeep
<1>4. CASE PickOffers \/ SessionOffers
  BY <1>3, <1>4, StartOrderly
     DEF PickOffers, Load, LoadEvents, SessionOffers, Audit, OpenEvidence, DownloadEvidencePdf
<1>5. ASSUME NEW s \in Slots, WorkspaceServe(s)
      PROVE  Orderly'
  BY <1>5, ServeOrderly DEF WorkspaceServe
<1>6. ASSUME NEW s \in Slots, DemoListed(s)
      PROVE  Orderly'
  <2>1. PICK base \in {Overtaken(s), Doubts(s)} : SendFrom(base, At(s, LoadEvents("demo")))
    BY <1>6 DEF DemoListed
  <2>2. \A r \in DOMAIN trust : base[r] = "clean" => trust[r] = "clean"
    BY <2>1 DEF Overtaken, Doubts
  <2> QED
    BY <2>1, <2>2, SendFromOrderly DEF LoadEvents
<1>7. ASSUME NEW s \in Slots, WorkspaceContinue(s)
      PROVE  Orderly'
  <2>1. CASE SessionsLoaded(s) \/ ChainLoaded(s) \/ Audited(s) \/ EvidenceOpened(s) \/ PdfDownloaded(s)
    BY <2>1, FinishOrderly DEF SessionsLoaded, ChainLoaded, Audited, EvidenceOpened, PdfDownloaded
  <2>2. CASE DemoSeeded(s) \/ EventsLoaded(s)
    BY <2>2, SendOrderly DEF DemoSeeded, EventsLoaded
  <2>3. CASE WorkspaceCatch(s)
    BY <2>3, ThrowOrderly DEF WorkspaceCatch
  <2> QED
    BY <1>6, <1>7, <2>1, <2>2, <2>3 DEF WorkspaceContinue
<1> QED
  BY <1>1, <1>2, <1>4, <1>5, <1>7 DEF WorkspaceNext

\* The two reads after a change of the framework are about different things.
LEMMA FrameworkOrderly ==
  ASSUME SceneInv, Orderly, NEW s \in Slots, FrameworkChanged(s)
  PROVE  Orderly'
<1> DEFINE c == Call("read", {"framework", "frameworkBusy"}, "", "allFramework")
           d == Call("read", {"rules", "frameworkBusy"}, "", "allRules")
<1>1. PICK t \in Slots \ {s} : Send([o \in {s, t} |-> IF o = s THEN c ELSE d])
  BY DEF FrameworkChanged
<1>2. c.st = "out" /\ d.st = "out" /\ c.on = {"framework", "frameworkBusy"} /\ d.on = {"rules", "frameworkBusy"}
  BY DEF Call
<1> HIDE DEF c, d
<1> DEFINE new == [o \in {s, t} |-> IF o = s THEN c ELSE d]
<1>3. DOMAIN new = {s, t} /\ new[s] = c /\ new[t] = d /\ SendFrom(trust, new)
  BY <1>1 DEF Send
<1> HIDE DEF new
<1>4. \A r \in DOMAIN trust \ Flags : ~ Competes(c, d, r) /\ ~ Competes(d, c, r)
  BY <1>2 DEF Competes, Flags
<1>5. \A o, q \in DOMAIN new : o # q => \A r \in DOMAIN trust \ Flags : ~ Competes(new[o], new[q], r)
  BY <1>3, <1>4
<1>6. \A o \in DOMAIN new : new[o].st = "out"
  BY <1>2, <1>3
<1>7. DOMAIN new \subseteq Slots
  BY <1>3
<1> QED
  BY <1>3, <1>5, <1>6, <1>7, SendSeveralOrderly

LEMMA SettingsOrderly ==
  ASSUME SceneInv, Orderly, SettingsNext
  PROVE  Orderly'
<1>1. CASE SettingsMount
  BY <1>1, StartOrderly
     DEF SettingsMount, Refresh, RefreshRules, RefreshFramework, RefreshSchedule, RefreshWebhook
<1>2. CASE KeyCardOffers \/ FrameworkCardOffers \/ RulesCardOffers
  BY <1>2, StartOrderly, LocalOrderly
     DEF KeyCardOffers, FrameworkCardOffers, RulesCardOffers, ChangeFramework, AddRule, RemoveRule
<1>3. CASE ScheduleCardOffers \/ HookCardOffers
  BY <1>3, StartOrderly, LocalOrderly
     DEF ScheduleCardOffers, HookCardOffers, SaveSchedule, SaveWebhook, ClearWebhook
<1>4. ASSUME NEW s \in Slots, SettingsServe(s)
      PROVE  Orderly'
  BY <1>4, ServeOrderly DEF SettingsServe
<1>5. ASSUME NEW s \in Slots, SettingsContinue(s)
      PROVE  Orderly'
  <2>1. CASE Refreshed(s) \/ FrameworkRefreshed(s) \/ RulesRefreshed(s) \/ ScheduleRefreshed(s) \/ WebhookRefreshed(s)
    BY <2>1, FinishOrderly
       DEF Refreshed, FrameworkRefreshed, RulesRefreshed, ScheduleRefreshed, WebhookRefreshed
  <2>2. CASE Saved(s) \/ Cleared(s) \/ RuleAdded(s) \/ RuleRemoved(s) \/ ScheduleSaved(s) \/ WebhookSaved(s)
             \/ WebhookCleared(s)
    BY <2>2, SendOrderly
       DEF Saved, Cleared, RuleAdded, RuleRemoved, ScheduleSaved, WebhookSaved, WebhookCleared,
           Refresh, RefreshRules, RefreshWebhook
  <2>3. CASE SettingsCatch(s)
    BY <2>3, ThrowOrderly DEF SettingsCatch
  <2> QED
    BY <1>5, <2>1, <2>2, <2>3, FrameworkOrderly DEF SettingsContinue
<1> QED
  BY <1>1, <1>2, <1>3, <1>4, <1>5 DEF SettingsNext

LEMMA TeamOrderly ==
  ASSUME SceneInv, Orderly, TeamPageNext
  PROVE  Orderly'
<1>1. CASE TeamMount \/ MembersOffer \/ InvitesOffer
  BY <1>1, StartOrderly
     DEF TeamMount, MembersOffer, InvitesOffer, RefreshTeam, ChangeRole, RemoveFromTeam, InviteMember, WithdrawInvite
<1>2. CASE TeamElsewhere
  BY <1>2, ElsewhereOrderly DEF TeamElsewhere
<1>3. ASSUME NEW s \in Slots, TeamServe(s)
      PROVE  Orderly'
  BY <1>3, ServeOrderly, RefuseOrderly DEF TeamServe
<1>4. ASSUME NEW s \in Slots, TeamPageContinue(s)
      PROVE  Orderly'
  BY <1>4, SendOrderly, FinishOrderly, ThrowOrderly
     DEF TeamPageContinue, TeamRefreshed, Invited, TeamChanged, TeamCatch, RefreshTeam
<1> QED
  BY <1>1, <1>2, <1>3, <1>4 DEF TeamPageNext

LEMMA BillingOrderly ==
  ASSUME SceneInv, Orderly, BillingNext
  PROVE  Orderly'
<1>1. CASE BillingMount \/ BillingOffers
  BY <1>1, StartOrderly DEF BillingMount, BillingOffers, RefreshPlan, Upgrade, Manage
<1>2. CASE ComeBack \/ SubscriptionChanges
  BY <1>2, DocumentOrderly, ElsewhereOrderly DEF ComeBack, SubscriptionChanges
<1>3. ASSUME NEW s \in Slots, BillingServe(s)
      PROVE  Orderly'
  BY <1>3, ServeOrderly DEF BillingServe
<1>4. ASSUME NEW s \in Slots, BillingContinue(s)
      PROVE  Orderly'
  BY <1>4, FinishOrderly, ThrowOrderly DEF BillingContinue, PlanRefreshed, SentAway, BillingCatch
<1> QED
  BY <1>1, <1>2, <1>3, <1>4 DEF BillingNext

LEMMA InsightsOrderly ==
  ASSUME SceneInv, Orderly, InsightsNext
  PROVE  Orderly'
<1>1. CASE InsightsMount \/ InsightsOffers
  BY <1>1, StartOrderly, LocalOrderly DEF InsightsMount, InsightsOffers, RefreshTrend, ChooseRange, Hover
<1>2. CASE Reload
  BY <1>2, DocumentOrderly DEF Reload
<1>3. ASSUME NEW s \in Slots, InsightsServe(s)
      PROVE  Orderly'
  BY <1>3, ServeOrderly DEF InsightsServe
<1>4. ASSUME NEW s \in Slots, InsightsContinue(s)
      PROVE  Orderly'
  BY <1>4, FinishOrderly, ThrowOrderly DEF InsightsContinue, TrendRefreshed, InsightsCatch
<1> QED
  BY <1>1, <1>2, <1>3, <1>4 DEF InsightsNext

LEMMA InitOrderly ==
  ASSUME Init
  PROVE  Orderly
BY FreeFields DEF Init, Orderly, Competes

LEMMA NextOrderly ==
  ASSUME SceneInv, Orderly, [Next]_vars
  PROVE  Orderly'
<1>1. ASSUME NEW s \in Slots, Lose(s)
      PROVE  Orderly'
  BY <1>1, FinishOrderly
<1>2. CASE UNCHANGED vars
  BY <1>2, LocalOrderly DEF vars, apiVars
<1> QED
  BY <1>1, <1>2, KeysOrderly, SignInOrderly, WorkspaceOrderly, SettingsOrderly, TeamOrderly, BillingOrderly,
     InsightsOrderly DEF Next
------------------------------------------------------------------------------
\* What a call of a page is about, by the place that awaits it.
LEMMA CallAbout ==
  ASSUME SceneInv, NEW s \in Slots, ~ Vacant(s)
  PROVE  \E k \in Sends : /\ k.page = ui.page /\ k.do = calls[s].do /\ k.then = calls[s].then
                          /\ calls[s].on = IF calls[s].st = "late" THEN k.on \ Flags ELSE k.on
BY DEF SceneInv, CallOf, SentBy, Vacant

LEMMA ByokCalls ==
  ASSUME SceneInv, ui.page = "byok", NEW s \in Slots, ~ Vacant(s)
  PROVE  /\ calls[s].on = {"byok"}
         /\ \/ calls[s].then = "refresh" /\ calls[s].do = "read"
            \/ calls[s].then \in {"save", "clear"} /\ calls[s].do = "write"
<1>1. PICK k \in Sends : /\ k.page = "byok" /\ k.do = calls[s].do /\ k.then = calls[s].then
                         /\ calls[s].on = IF calls[s].st = "late" THEN k.on \ Flags ELSE k.on
  BY CallAbout
<1>2. k \in ByokSends
  BY <1>1 DEF Sends, WorkspaceSends, KeysSends, PolicySends, ScheduleSends, WebhookSends,
       TeamSends, BillingSends, SignInSends, Kind
<1>3. k.on = {"byok"} /\ \/ k.then = "refresh" /\ k.do = "read"
                         \/ k.then \in {"save", "clear"} /\ k.do = "write"
  BY <1>2 DEF ByokSends, Kind
<1>4. {"byok"} \ Flags = {"byok"}
  BY DEF Flags
<1> QED
  BY <1>1, <1>3, <1>4

LEMMA KeysCalls ==
  ASSUME SceneInv, ui.page = "keys", NEW s \in Slots, ~ Vacant(s)
  PROVE  /\ calls[s].on = {"keys"}
         /\ \/ calls[s].then = "refreshKeys" /\ calls[s].do = "read"
            \/ calls[s].then \in {"createKey", "revokeKey"} /\ calls[s].do = "write"
<1>1. PICK k \in Sends : /\ k.page = "keys" /\ k.do = calls[s].do /\ k.then = calls[s].then
                         /\ calls[s].on = IF calls[s].st = "late" THEN k.on \ Flags ELSE k.on
  BY CallAbout
<1>2. k \in KeysSends
  BY <1>1 DEF Sends, WorkspaceSends, ByokSends, PolicySends, ScheduleSends, WebhookSends,
       TeamSends, BillingSends, SignInSends, Kind
<1>3. k.on = {"keys"} /\ \/ k.then = "refreshKeys" /\ k.do = "read"
                         \/ k.then \in {"createKey", "revokeKey"} /\ k.do = "write"
  BY <1>2 DEF KeysSends, Kind
<1>4. {"keys"} \ Flags = {"keys"}
  BY DEF Flags
<1> QED
  BY <1>1, <1>3, <1>4

LEMMA ScheduleCalls ==
  ASSUME SceneInv, ui.page = "schedule", NEW s \in Slots, ~ Vacant(s)
  PROVE  /\ "schedule" \in calls[s].on
         /\ \/ calls[s].then = "refreshSchedule" /\ calls[s].do = "read" /\ "busy" \notin calls[s].on
            \/ /\ calls[s].then = "saveSchedule" /\ calls[s].do = "write"
               /\ "busy" \in calls[s].on <=> calls[s].st # "late"
            \/ /\ calls[s].then = "readSchedule" /\ calls[s].do = "read"
               /\ "busy" \in calls[s].on <=> calls[s].st # "late"
<1>1. PICK k \in Sends : /\ k.page = "schedule" /\ k.do = calls[s].do /\ k.then = calls[s].then
                         /\ calls[s].on = IF calls[s].st = "late" THEN k.on \ Flags ELSE k.on
  BY CallAbout
<1>2. k \in ScheduleSends
  BY <1>1 DEF Sends, WorkspaceSends, KeysSends, ByokSends, PolicySends, WebhookSends,
       TeamSends, BillingSends, SignInSends, Kind
<1>3. \/ k.then = "refreshSchedule" /\ k.do = "read" /\ k.on = {"schedule"}
      \/ k.then = "saveSchedule" /\ k.do = "write" /\ k.on = {"schedule", "busy"}
      \/ k.then = "readSchedule" /\ k.do = "read" /\ k.on = {"schedule", "busy"}
  BY <1>2 DEF ScheduleSends, Kind
<1>4. "busy" \in Flags /\ "schedule" \notin Flags
  BY DEF Flags
<1> QED
  BY <1>1, <1>3, <1>4

LEMMA WebhookCalls ==
  ASSUME SceneInv, ui.page = "webhook", NEW s \in Slots, ~ Vacant(s)
  PROVE  /\ "webhook" \in calls[s].on
         /\ \/ calls[s].then = "refreshWebhook" /\ calls[s].do = "read" /\ "busy" \notin calls[s].on
            \/ calls[s].then = "clearWebhook" /\ calls[s].do = "write" /\ "busy" \notin calls[s].on
            \/ /\ calls[s].then = "saveWebhook" /\ calls[s].do = "write"
               /\ "busy" \in calls[s].on <=> calls[s].st # "late"
            \/ /\ calls[s].then = "readWebhook" /\ calls[s].do = "read"
               /\ "busy" \in calls[s].on <=> calls[s].st # "late"
<1>1. PICK k \in Sends : /\ k.page = "webhook" /\ k.do = calls[s].do /\ k.then = calls[s].then
                         /\ calls[s].on = IF calls[s].st = "late" THEN k.on \ Flags ELSE k.on
  BY CallAbout
<1>2. k \in WebhookSends
  BY <1>1 DEF Sends, WorkspaceSends, KeysSends, ByokSends, PolicySends, ScheduleSends,
       TeamSends, BillingSends, SignInSends, Kind
<1>3. \/ k.then = "refreshWebhook" /\ k.do = "read" /\ k.on = {"webhook"}
      \/ k.then = "clearWebhook" /\ k.do = "write" /\ k.on = {"webhook"}
      \/ k.then = "saveWebhook" /\ k.do = "write" /\ k.on = {"webhook", "busy"}
      \/ k.then = "readWebhook" /\ k.do = "read" /\ k.on = {"webhook", "busy"}
  BY <1>2 DEF WebhookSends, Kind
<1>4. "busy" \in Flags /\ "webhook" \notin Flags
  BY DEF Flags
<1> QED
  BY <1>1, <1>3, <1>4

LEMMA TeamCalls ==
  ASSUME SceneInv, ui.page = "team", NEW s \in Slots, ~ Vacant(s)
  PROVE  /\ "team" \in calls[s].on
         /\ \/ calls[s].then = "refreshTeam" /\ calls[s].do = "read" /\ "busy" \notin calls[s].on
            \/ /\ calls[s].then \in {"revokeInvite", "changeRole", "removeMember"}
               /\ calls[s].do = "write" /\ "busy" \notin calls[s].on
            \/ /\ calls[s].then = "invite" /\ calls[s].do = "write"
               /\ "busy" \in calls[s].on <=> calls[s].st # "late"
            \/ /\ calls[s].then = "readTeam" /\ calls[s].do = "read"
               /\ "busy" \in calls[s].on <=> calls[s].st # "late"
<1>1. PICK k \in Sends : /\ k.page = "team" /\ k.do = calls[s].do /\ k.then = calls[s].then
                         /\ calls[s].on = IF calls[s].st = "late" THEN k.on \ Flags ELSE k.on
  BY CallAbout
<1>2. k \in TeamSends
  BY <1>1 DEF Sends, WorkspaceSends, KeysSends, ByokSends, PolicySends, ScheduleSends, WebhookSends,
       BillingSends, SignInSends, Kind
<1>3. \/ k.then = "refreshTeam" /\ k.do = "read" /\ k.on = {"team"}
      \/ k.then \in {"revokeInvite", "changeRole", "removeMember"} /\ k.do = "write" /\ k.on = {"team"}
      \/ k.then = "invite" /\ k.do = "write" /\ k.on = {"team", "busy"}
      \/ k.then = "readTeam" /\ k.do = "read" /\ k.on = {"team", "busy"}
  BY <1>2 DEF TeamSends, Kind
<1>4. "busy" \in Flags /\ "team" \notin Flags
  BY DEF Flags
<1> QED
  BY <1>1, <1>3, <1>4

LEMMA PolicyCalls ==
  ASSUME SceneInv, ui.page = "policy", NEW s \in Slots, ~ Vacant(s)
  PROVE  LET c == calls[s]
             kept == c.st # "late"
         IN  \/ c.then = "refreshRules" /\ c.do = "read" /\ c.on = {"rules"}
             \/ c.then = "refreshFramework" /\ c.do = "read" /\ c.on = {"framework"}
             \/ c.then = "removeRule" /\ c.do = "write" /\ c.on = {"rules"}
             \/ /\ c.then = "changeFramework" /\ c.do = "write"
                /\ c.on = IF kept THEN {"framework", "rules", "frameworkBusy"} ELSE {"framework", "rules"}
             \/ c.then = "allFramework" /\ c.do = "read" /\ c.on = {"framework", "frameworkBusy"} /\ kept
             \/ c.then = "allRules" /\ c.do = "read" /\ c.on = {"rules", "frameworkBusy"} /\ kept
             \/ c.then = "addRule" /\ c.do = "write" /\ c.on = IF kept THEN {"rules", "ruleBusy"} ELSE {"rules"}
             \/ c.then = "readRules" /\ c.do = "read" /\ c.on = {"rules", "ruleBusy"} /\ kept
<1>1. PICK k \in Sends : /\ k.page = "policy" /\ k.do = calls[s].do /\ k.then = calls[s].then
                         /\ calls[s].on = IF calls[s].st = "late" THEN k.on \ Flags ELSE k.on
  BY CallAbout
<1>2. k \in PolicySends
  BY <1>1 DEF Sends, WorkspaceSends, KeysSends, ByokSends, ScheduleSends, WebhookSends, TeamSends,
       BillingSends, SignInSends, Kind
<1>3. \/ k.then = "refreshRules" /\ k.do = "read" /\ k.on = {"rules"}
      \/ k.then = "refreshFramework" /\ k.do = "read" /\ k.on = {"framework"}
      \/ k.then = "removeRule" /\ k.do = "write" /\ k.on = {"rules"}
      \/ k.then = "changeFramework" /\ k.do = "write" /\ k.on = {"framework", "rules", "frameworkBusy"}
      \/ k.then = "allFramework" /\ k.do = "read" /\ k.on = {"framework", "frameworkBusy"}
      \/ k.then = "allRules" /\ k.do = "read" /\ k.on = {"rules", "frameworkBusy"}
      \/ k.then = "addRule" /\ k.do = "write" /\ k.on = {"rules", "ruleBusy"}
      \/ k.then = "readRules" /\ k.do = "read" /\ k.on = {"rules", "ruleBusy"}
  BY <1>2 DEF PolicySends, Kind
<1>4. /\ {"rules"} \ Flags = {"rules"} /\ {"framework"} \ Flags = {"framework"}
      /\ {"framework", "rules", "frameworkBusy"} \ Flags = {"framework", "rules"}
      /\ {"rules", "ruleBusy"} \ Flags = {"rules"}
  BY DEF Flags
<1>5. calls[s].st = "late" => calls[s].do = "write"
  BY LateIsAWrite
<1> QED
  BY <1>1, <1>3, <1>4, <1>5

LEMMA BillingCalls ==
  ASSUME SceneInv, ui.page = "billing", NEW s \in Slots, ~ Vacant(s)
  PROVE  \/ calls[s].then = "refreshPlan" /\ calls[s].do = "read" /\ calls[s].on = {"plan"}
         \/ /\ calls[s].then \in {"upgrade", "manage"} /\ calls[s].do = "write"
            /\ calls[s].on = IF calls[s].st = "late" THEN {} ELSE {"busy"}
<1>1. PICK k \in Sends : /\ k.page = "billing" /\ k.do = calls[s].do /\ k.then = calls[s].then
                         /\ calls[s].on = IF calls[s].st = "late" THEN k.on \ Flags ELSE k.on
  BY CallAbout
<1>2. k \in BillingSends
  BY <1>1 DEF Sends, WorkspaceSends, KeysSends, ByokSends, PolicySends, ScheduleSends, WebhookSends,
       TeamSends, SignInSends, Kind
<1>3. \/ k.then = "refreshPlan" /\ k.do = "read" /\ k.on = {"plan"}
      \/ k.then \in {"upgrade", "manage"} /\ k.do = "write" /\ k.on = {"busy"}
  BY <1>1, <1>2 DEF BillingSends, Kind
<1>4. {"plan"} \ Flags = {"plan"} /\ {"busy"} \ Flags = {}
  BY DEF Flags
<1> QED
  BY <1>1, <1>3, <1>4

LEMMA InsightsCalls ==
  ASSUME SceneInv, ui.page = "insights", NEW s \in Slots, ~ Vacant(s)
  PROVE  calls[s].then = "refreshTrend" /\ calls[s].do = "read" /\ calls[s].on = {"trend"}
<1>1. PICK k \in Sends : /\ k.page = "insights" /\ k.do = calls[s].do /\ k.then = calls[s].then
                         /\ calls[s].on = IF calls[s].st = "late" THEN k.on \ Flags ELSE k.on
  BY CallAbout
<1>2. k \in BillingSends
  BY <1>1 DEF Sends, WorkspaceSends, KeysSends, ByokSends, PolicySends, ScheduleSends, WebhookSends,
       TeamSends, SignInSends, Kind
<1>3. k.then = "refreshTrend" /\ k.do = "read" /\ k.on = {"trend"}
  BY <1>1, <1>2 DEF BillingSends, Kind
<1>4. {"trend"} \ Flags = {"trend"}
  BY DEF Flags
<1> QED
  BY <1>1, <1>3, <1>4

LEMMA SignInCalls ==
  ASSUME SceneInv, NEW s \in Slots, ~ Vacant(s)
  PROVE  /\ ui.page = "session" =>
              calls[s].then = "ensureOrg" /\ calls[s].do = "read" /\ calls[s].on = {"session"}
         /\ ui.page = "login" =>
              /\ calls[s].then = "submit" /\ calls[s].do = "write"
              /\ calls[s].on = IF calls[s].st = "late" THEN {} ELSE {"busy"}
         /\ ui.page = "reset" =>
              \/ calls[s].then = "exchange" /\ calls[s].do = "read" /\ calls[s].on = {}
              \/ /\ calls[s].then = "updateUser" /\ calls[s].do = "write"
                 /\ calls[s].on = IF calls[s].st = "late" THEN {} ELSE {"busy"}
<1> SUFFICES ASSUME ui.page \in {"session", "login", "reset"}
             PROVE  /\ ui.page = "session" =>
                         calls[s].then = "ensureOrg" /\ calls[s].do = "read" /\ calls[s].on = {"session"}
                    /\ ui.page = "login" =>
                         /\ calls[s].then = "submit" /\ calls[s].do = "write"
                         /\ calls[s].on = IF calls[s].st = "late" THEN {} ELSE {"busy"}
                    /\ ui.page = "reset" =>
                         \/ calls[s].then = "exchange" /\ calls[s].do = "read" /\ calls[s].on = {}
                         \/ /\ calls[s].then = "updateUser" /\ calls[s].do = "write"
                            /\ calls[s].on = IF calls[s].st = "late" THEN {} ELSE {"busy"}
  OBVIOUS
<1>1. PICK k \in Sends : /\ k.page = ui.page /\ k.do = calls[s].do /\ k.then = calls[s].then
                         /\ calls[s].on = IF calls[s].st = "late" THEN k.on \ Flags ELSE k.on
  BY CallAbout
<1>2. k \in SignInSends
  BY <1>1 DEF Sends, WorkspaceSends, KeysSends, ByokSends, PolicySends, ScheduleSends, WebhookSends,
       TeamSends, BillingSends, Kind
<1>3. \/ k.page = "session" /\ k.then = "ensureOrg" /\ k.do = "read" /\ k.on = {"session"}
      \/ k.page = "login" /\ k.then = "submit" /\ k.do = "write" /\ k.on = {"busy"}
      \/ k.page = "reset" /\ k.then = "exchange" /\ k.do = "read" /\ k.on = {}
      \/ k.page = "reset" /\ k.then = "updateUser" /\ k.do = "write" /\ k.on = {"busy"}
      \/ k.page = "callback"
  BY <1>2 DEF SignInSends, Kind
<1>4. {"session"} \ Flags = {"session"} /\ {} \ Flags = {} /\ {"busy"} \ Flags = {}
  BY DEF Flags
<1> QED
  BY <1>1, <1>3, <1>4

LEMMA WorkspaceCalls ==
  ASSUME SceneInv, ui.page \in {"list", "view", "demo"}, NEW s \in Slots, ~ Vacant(s)
  PROVE  LET c == calls[s]
             kept == c.st # "late"
         IN  \/ c.then = "loadSessions" /\ c.do = "read" /\ c.on = {"list"} /\ kept /\ ui.page # "view"
             \/ /\ c.then = "seedDemo" /\ c.do = "write" /\ ui.page = "demo"
                /\ c.on = IF kept THEN {"list", "busy"} ELSE {"list"}
             \/ c.then = "listDemo" /\ c.do = "read" /\ c.on = {"list", "busy"} /\ kept /\ ui.page = "demo"
             \/ /\ c.then \in {"loadEvents", "loadChain"} /\ c.do = "read" /\ c.on = {"view", "busy"} /\ kept
                /\ ui.page # "list"
             \/ /\ c.then = "audit" /\ c.do = "write" /\ ui.page = "view"
                /\ c.on = IF kept THEN {"view", "busy"} ELSE {"view"}
             \/ c.then = "openEvidence" /\ c.do = "read" /\ c.on = {} /\ kept /\ ui.page = "view"
             \/ c.then = "downloadEvidencePdf" /\ c.do = "read" /\ c.on = {"busy"} /\ kept /\ ui.page = "view"
<1>1. PICK k \in Sends : /\ k.page = ui.page /\ k.do = calls[s].do /\ k.then = calls[s].then
                         /\ calls[s].on = IF calls[s].st = "late" THEN k.on \ Flags ELSE k.on
  BY CallAbout
<1>2. k \in WorkspaceSends
  BY <1>1 DEF Sends, KeysSends, ByokSends, PolicySends, ScheduleSends, WebhookSends,
       TeamSends, BillingSends, SignInSends, Kind
<1>3. \/ k.then = "loadSessions" /\ k.do = "read" /\ k.on = {"list"} /\ k.page # "view"
      \/ k.then = "seedDemo" /\ k.do = "write" /\ k.on = {"list", "busy"} /\ k.page = "demo"
      \/ k.then = "listDemo" /\ k.do = "read" /\ k.on = {"list", "busy"} /\ k.page = "demo"
      \/ k.then \in {"loadEvents", "loadChain"} /\ k.do = "read" /\ k.on = {"view", "busy"} /\ k.page # "list"
      \/ k.then = "audit" /\ k.do = "write" /\ k.on = {"view", "busy"} /\ k.page = "view"
      \/ k.then = "openEvidence" /\ k.do = "read" /\ k.on = {} /\ k.page = "view"
      \/ k.then = "downloadEvidencePdf" /\ k.do = "read" /\ k.on = {"busy"} /\ k.page = "view"
  BY <1>2 DEF WorkspaceSends, Kind
<1>4. {"list", "busy"} \ Flags = {"list"} /\ {"view", "busy"} \ Flags = {"view"}
  BY DEF Flags
<1>5. calls[s].st = "late" => calls[s].do = "write"
  BY LateIsAWrite
<1> QED
  BY <1>1, <1>3, <1>4, <1>5
------------------------------------------------------------------------------
(***************************************************************************)
(* Reads of what the page itself chooses: a session, a range of days, a    *)
(* search.  While its copy is clean, every call about r is about what is   *)
(* wanted, whatever the page showed before.                                *)
(***************************************************************************)
Follows(cs, tr, r, shown, wanted) ==
  tr[r] = "clean" =>
    /\ (\A s \in Slots : r \notin cs[s].on) => shown = wanted
    /\ \A s \in Slots : r \in cs[s].on => cs[s].arg = wanted

Echoes(cs, r) == \A s \in Slots : r \in cs[s].on /\ cs[s].st = "back" => cs[s].ans = cs[s].arg

LEMMA SentFollows ==
  ASSUME SceneInv, NEW base, NEW s \in Slots, NEW do, NEW on, NEW arg, NEW then,
         SendFrom(base, At(s, Call(do, on, arg, then))),
         NEW r \in DOMAIN trust \ Flags, r \in on, NEW shown
  PROVE  Follows(calls', trust', r, shown, arg)
<1> DEFINE c == Call(do, on, arg, then)
<1>1. c.do = do /\ c.on = on /\ c.arg = arg
  BY DEF Call
<1>2. trust'[r] = "clean" => \A o \in Slots \ {s} : ~ Competes(c, calls[o], r)
  BY SentTrust
<1> HIDE DEF c
<1>3. trust'[r] = "clean" => \A o \in Slots \ {s} : r \in calls[o].on => calls[o].arg = arg
  BY <1>1, <1>2 DEF Competes
<1>4. /\ \A o \in Slots \ {s} : calls'[o] = calls[o]
      /\ r \in calls'[s].on /\ calls'[s].arg = arg
  BY SentIs
<1> QED
  BY <1>3, <1>4 DEF Follows

\* A call about something else.
LEMMA SentStillFollows ==
  ASSUME SceneInv, NEW base, NEW s \in Slots, NEW do, NEW on, NEW arg, NEW then,
         SendFrom(base, At(s, Call(do, on, arg, then))),
         NEW r \in DOMAIN trust \ Flags, r \notin on, r \notin calls[s].on,
         base[r] = "clean" => trust[r] = "clean",
         NEW shown, NEW wanted, Follows(calls, trust, r, shown, wanted)
  PROVE  Follows(calls', trust', r, shown, wanted)
<1>1. trust'[r] = "clean" => trust[r] = "clean"
  BY SentTrust
<1>2. \A o \in Slots : /\ r \in calls'[o].on <=> r \in calls[o].on
                       /\ r \in calls[o].on => calls'[o] = calls[o]
  BY SentIs
<1> QED
  BY <1>1, <1>2 DEF Follows

LEMMA StartFollows ==
  ASSUME SceneInv, NEW do, NEW on, NEW arg, NEW then, Start(Call(do, on, arg, then)),
         NEW r \in DOMAIN trust \ Flags, r \in on, NEW shown
  PROVE  Follows(calls', trust', r, shown, arg)
<1>1. PICK s \in Slots : SendFrom(trust, At(s, Call(do, on, arg, then)))
  BY DEF Start, Send
<1> QED
  BY <1>1, SentFollows

LEMMA ServeFollows ==
  ASSUME SceneInv, Orderly, NEW s \in Slots, NEW new, NEW ans, Serve(s, new, ans) \/ Refuse(s),
         NEW r \in DOMAIN trust \ Flags, NEW shown, NEW wanted, Follows(calls, trust, r, shown, wanted)
  PROVE  Follows(calls', trust', r, shown, wanted)
<1> SUFFICES ASSUME trust[r] = "clean"
             PROVE  Follows(calls', trust', r, shown, wanted)
  BY ServeCalls, RefuseCalls DEF Follows
<1>1. r \in calls[s].on => calls[s].st # "late"
  BY DEF Orderly
<1>2. \A o \in Slots : /\ r \in calls'[o].on <=> r \in calls[o].on
                       /\ r \in calls[o].on => calls'[o].arg = calls[o].arg
  BY <1>1, ServeCalls, RefuseCalls, FreeFields
<1> QED
  BY <1>2 DEF Follows

\* A call ends.
LEMMA FinishFollows ==
  ASSUME SceneInv, Orderly, NEW s \in Slots, Finish(s) \/ Lose(s),
         NEW r \in DOMAIN trust \ Flags, NEW shown, NEW shown2, NEW wanted, Follows(calls, trust, r, shown, wanted),
         IF r \in calls[s].on THEN shown2 = calls[s].arg \/ calls[s].st = "late" ELSE shown2 = shown
  PROVE  Follows(calls', trust', r, shown2, wanted)
<1> SUFFICES ASSUME trust[r] = "clean"
             PROVE  Follows(calls', trust', r, shown2, wanted)
  BY FinishCalls DEF Follows
<1>1. r \in calls[s].on => shown2 = wanted
  BY DEF Orderly, Follows
<1>2. /\ \A o \in Slots \ {s} : calls'[o] = calls[o]
      /\ calls'[s].on = {} /\ UNCHANGED trust
  BY FinishCalls, FreeFields
<1> QED
  BY <1>1, <1>2 DEF Follows

LEMMA ThrowFollows ==
  ASSUME SceneInv, NEW s \in Slots, Throw(s),
         NEW r \in DOMAIN trust \ Flags, NEW shown, NEW wanted, Follows(calls, trust, r, shown, wanted)
  PROVE  Follows(calls', trust', r, shown, wanted)
<1> SUFFICES ASSUME trust'[r] = "clean"
             PROVE  Follows(calls', trust', r, shown, wanted)
  BY DEF Follows
<1>1. r \notin calls[s].on /\ trust[r] = "clean"
  BY ThrowCalls
<1>2. r \notin calls'[s].on /\ \A o \in Slots \ {s} : calls'[o] = calls[o]
  BY <1>1, ThrowCalls, FreeFields
<1> QED
  BY <1>1, <1>2 DEF Follows

\* Answers that are back stay what they are.
LEMMA SentEchoes ==
  ASSUME SceneInv, NEW base, NEW s \in Slots, NEW do, NEW on, NEW arg, NEW then,
         SendFrom(base, At(s, Call(do, on, arg, then))), NEW r, Echoes(calls, r)
  PROVE  Echoes(calls', r)
<1>1. \A o \in Slots : calls'[o].st = "back" => calls'[o] = calls[o]
  BY SentIs
<1> QED
  BY <1>1 DEF Echoes

LEMMA StartEchoes ==
  ASSUME SceneInv, NEW do, NEW on, NEW arg, NEW then, Start(Call(do, on, arg, then)), NEW r, Echoes(calls, r)
  PROVE  Echoes(calls', r)
<1>1. PICK s \in Slots : SendFrom(trust, At(s, Call(do, on, arg, then)))
  BY DEF Start, Send
<1> QED
  BY <1>1, SentEchoes

LEMMA ServeEchoes ==
  ASSUME SceneInv, NEW s \in Slots, NEW new, NEW ans, Serve(s, new, ans),
         NEW r, Echoes(calls, r), r \in calls[s].on => ans = calls[s].arg
  PROVE  Echoes(calls', r)
<1>1. \A o \in Slots \ {s} : calls'[o] = calls[o]
  BY ServeCalls
<1>2. \/ calls'[s] = Free
      \/ calls'[s].ans = ans /\ calls'[s].on = calls[s].on /\ calls'[s].arg = calls[s].arg
  BY ServeCalls
<1>3. Free.st # "back"
  BY FreeFields
<1> QED
  BY <1>1, <1>2, <1>3 DEF Echoes

LEMMA EndEchoes ==
  ASSUME SceneInv, NEW s \in Slots, Finish(s) \/ Lose(s) \/ Throw(s), NEW r, Echoes(calls, r)
  PROVE  Echoes(calls', r)
<1>1. \A o \in Slots : calls'[o].st = "back" => calls'[o] = calls[o]
  BY FinishCalls, ThrowCalls, FreeFields
<1> QED
  BY <1>1 DEF Echoes
==============================================================================
