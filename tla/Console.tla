------------------------------- MODULE Console -------------------------------
(***************************************************************************)
(* The dashboard (frontend/), one page at a time.  The pages share how     *)
(* they call the server (Api) and no state: every page, and of the pages   *)
(* with independent parts every part, is a document of its own here, a     *)
(* scene, and the specification is that of all scenes.                     *)
(***************************************************************************)
EXTENDS SignIn, Workspace, Keys, Settings, TeamPage, Billing, Insights

vars == <<apiVars, agent>>

\* What a scene deals with: things that it has a copy of, and its flags.
Things(page) ==
  CASE page = "list"     -> {"list"}
    [] page = "view"     -> {"view", "busy"}
    [] page = "demo"     -> {"list", "view", "busy"}
    [] page = "keys"     -> {"keys"}
    [] page = "byok"     -> {"byok"}
    [] page = "policy"   -> {"framework", "rules", "frameworkBusy", "ruleBusy"}
    [] page = "schedule" -> {"schedule", "busy"}
    [] page = "webhook"  -> {"webhook", "busy"}
    [] page = "team"     -> {"team", "busy"}
    [] page = "billing"  -> {"plan", "busy"}
    [] page = "insights" -> {"trend"}
    [] page = "session"  -> {"session"}
    [] page \in {"login", "reset"} -> {"busy"}
    [] page = "callback" -> {}

Init ==
  /\ \/ SignInInit \/ WorkspaceInit \/ KeysInit \/ SettingsInit
     \/ TeamPageInit \/ BillingInit \/ InsightsInit
  /\ agent = NoEmit
  /\ calls = [s \in Slots |-> Free]
  /\ trust = [r \in Things(ui.page) |-> IF r \in Flags THEN "clean" ELSE "raced"]

Next ==
  \/ KeysNext
  \/ /\ \/ SignInNext \/ WorkspaceNext \/ SettingsNext \/ TeamPageNext \/ BillingNext \/ InsightsNext
        \/ \E s \in Slots : Lose(s)
     /\ UNCHANGED agent

\* An awaited call of lib/api.ts ends, and the handler goes on.
Continue(s) ==
  /\ Open(s)
  /\ \/ WorkspaceContinue(s) \/ KeysContinue(s) \/ SettingsContinue(s)
     \/ TeamPageContinue(s) \/ BillingContinue(s) \/ InsightsContinue(s)
  /\ UNCHANGED agent

\* The abort after DEFAULT_TIMEOUT_MS ends every call that no answer ended.
Fairness == \A s \in Slots : WF_vars(Continue(s))

Spec == Init /\ [][Next]_vars /\ Fairness

-----------------------------------------------------------------------------
\* A flag that is set; on these pages to the name of the operation.
Set(flag) == flag \in DOMAIN trust /\ IF ui.page \in {"view", "demo", "billing"} THEN ui.busy # "" ELSE ui[flag]

ConsoleTypeOK ==
  /\ ApiTypeOK
  /\ DOMAIN trust = Things(ui.page)
  /\ \A flag \in Flags \cap DOMAIN trust : trust[flag] # "failed"

\* Of the copies on the page: what it shows, and what is stored.
Shown ==
  CASE ui.page \in {"byok", "policy", "schedule", "webhook"} -> SettingsShown
    [] ui.page = "keys"     -> [keys |-> ui.keys]
    [] ui.page = "team"     -> [team |-> ui.team]
    [] ui.page = "billing"  -> [plan |-> ui.plan]
    [] ui.page = "insights" -> [trend |-> ui.data]
    [] ui.page = "session"  -> [session |-> ui.token]
    [] OTHER                -> << >>

Stored ==
  CASE ui.page \in {"byok", "policy", "schedule", "webhook"} -> SettingsStored
    [] ui.page = "keys"     -> [keys |-> server.keys]
    [] ui.page = "team"     -> [team |-> server.team]
    [] ui.page = "billing"  -> [plan |-> server.plan]
    [] ui.page = "insights" -> [trend |-> ui.days]
    [] ui.page = "session"  -> [session |-> server.session]
    [] OTHER                -> << >>

(***************************************************************************)
(* When a thing's calls have ended, the page shows what is stored, unless  *)
(* a write or a read of something else overlapped the read, somebody else  *)
(* changed it, or a call threw.  Each handler ends by reading again, e.g.  *)
(* settings/page.tsx:66-77, 87-88, 97-99, 119-120, 144-151.                *)
(***************************************************************************)
ShownIsStored ==
  \A r \in DOMAIN Shown : trust[r] = "clean" /\ Quiet(r) => Shown[r] = Stored[r]

(***************************************************************************)
(* A call that threw leaves a message, until a later operation takes it    *)
(* away or a read succeeds alone: no copy is out of date after an error    *)
(* without a word.  (On the workspace page and the billing page another    *)
(* operation removes it, page.tsx:64 and billing/page.tsx:54; the team     *)
(* page shows messages to an owner only, team/page.tsx:103-136.)           *)
(***************************************************************************)
FailureIsShown ==
  ui.page \in {"byok", "policy", "schedule", "webhook", "keys", "team", "insights"} =>
    \A r \in DOMAIN trust :
      trust[r] = "failed" /\ Quiet(r) =>
        CASE ui.page = "policy" -> ui.ruleErr \/ ui.frameworkErr
          [] ui.page = "team"   -> IsOwner => ui.err
          [] OTHER              -> ui.err

(***************************************************************************)
(* A flag is set exactly while a call of the operation is open, unless two *)
(* operations that set it overlapped, as the one busy of the workspace     *)
(* page allows (page.tsx:27, 53-103).  A button that a flag disables comes *)
(* back, and not too early, after every error and timeout.                 *)
(***************************************************************************)
BusyIsHonest ==
  ~ (ui.page = "billing" /\ ui.away) =>
    \A flag \in Flags \cap DOMAIN trust :
      trust[flag] = "clean" => (Set(flag) <=> ~ Quiet(flag))

=============================================================================
