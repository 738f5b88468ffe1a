------------------------------ MODULE Settings ------------------------------
(***************************************************************************)
(* frontend/app/app/settings/page.tsx: the own Anthropic key, the policy   *)
(* framework with the custom rules, the schedule and the webhook.  The     *)
(* four cards share no state (the framework and the rules do, and are one  *)
(* here), so each is a scene of its own.                                   *)
(***************************************************************************)
EXTENDS Api

CONSTANTS Frameworks, RuleIds, Urls, Minutes

Floor == 15

ASSUME SettingsAssumption == "unread" \notin Frameworks /\ Minutes \subseteq Nat

KeyCard      == [page |-> "byok", configured |-> "checking", key |-> "", err |-> FALSE]
PolicyCard   == [page |-> "policy", framework |-> "unread", rules |-> [pack |-> "none", custom |-> {}],
                 ruleBusy |-> FALSE, ruleErr |-> FALSE, frameworkBusy |-> FALSE, frameworkErr |-> FALSE]
ScheduleCard == [page |-> "schedule", schedule |-> [enabled |-> FALSE, every |-> 0], interval |-> 60,
                 busy |-> FALSE, err |-> FALSE]
HookCard     == [page |-> "webhook", webhook |-> "none", url |-> "", busy |-> FALSE, err |-> FALSE]

SettingsInit ==
  \/ ui = KeyCard      /\ server \in [byok : {"set", "unset"}]
  \/ ui = PolicyCard   /\ server \in [framework : Frameworks, custom : SUBSET RuleIds]
  \/ ui = ScheduleCard /\ server = [schedule |-> [enabled |-> FALSE, every |-> 60]]
  \/ ui = HookCard     /\ server \in [webhook : {"none"} \cup Urls]

-----------------------------------------------------------------------------
(* What the page reads, at its mount and whenever the token is renewed.    *)
Refresh          == Call("read", {"byok"}, "", "refresh")
RefreshRules     == Call("read", {"rules"}, "", "refreshRules")
RefreshFramework == Call("read", {"framework"}, "", "refreshFramework")
RefreshSchedule  == Call("read", {"schedule"}, "", "refreshSchedule")
RefreshWebhook   == Call("read", {"webhook"}, "", "refreshWebhook")

SettingsMount ==
  /\ \/ ui.page = "byok"     /\ Start(Refresh)
     \/ ui.page = "policy"   /\ Start(RefreshRules)
     \/ ui.page = "policy"   /\ Start(RefreshFramework)
     \/ ui.page = "schedule" /\ Start(RefreshSchedule)
     \/ ui.page = "webhook"  /\ Start(RefreshWebhook)
  /\ UNCHANGED <<ui, server>>

\* GET /policy/rules: the pack of the framework, and the custom rules on top of it.
GetRules == [pack |-> server.framework, custom |-> server.custom]

SetSchedule(c) == [c EXCEPT !.every = IF @ < Floor THEN Floor ELSE @]

SettingsServe(s) ==
  LET c == calls[s]
  IN \/ c.then = "refresh" /\ Serve(s, server, server.byok)
     \/ c.then = "save"    /\ Serve(s, [server EXCEPT !.byok = "set"], "")
     \/ c.then = "clear"   /\ Serve(s, [server EXCEPT !.byok = "unset"], "")
     \/ c.then \in {"refreshRules", "readRules", "allRules"} /\ Serve(s, server, GetRules)
     \/ c.then \in {"refreshFramework", "allFramework"}      /\ Serve(s, server, server.framework)
     \/ c.then = "changeFramework" /\ Serve(s, [server EXCEPT !.framework = c.arg], "")
     \/ c.then = "addRule"         /\ Serve(s, [server EXCEPT !.custom = @ \cup {c.arg}], "")
     \/ c.then = "removeRule"      /\ Serve(s, [server EXCEPT !.custom = @ \ {c.arg}], "")
     \/ c.then \in {"refreshSchedule", "readSchedule"} /\ Serve(s, server, server.schedule)
     \/ c.then = "saveSchedule"    /\ Serve(s, [server EXCEPT !.schedule = SetSchedule(c.arg)], "")
     \/ c.then \in {"refreshWebhook", "readWebhook"}   /\ Serve(s, server, server.webhook)
     \/ c.then = "saveWebhook"     /\ Serve(s, [server EXCEPT !.webhook = c.arg], "")
     \/ c.then = "clearWebhook"    /\ Serve(s, [server EXCEPT !.webhook = "none"], "")

-----------------------------------------------------------------------------
(* The key card.                                                           *)
KeyCardOffers ==
  /\ ui.page = "byok"
  /\ \/ \E k \in {"", "key"} \ {ui.key} :
          ui' = [ui EXCEPT !.key = k] /\ UNCHANGED <<server, calls, trust>>
     \/ /\ ui.key # ""
        /\ Start(Call("write", {"byok"}, "", "save"))
        /\ ui' = [ui EXCEPT !.err = FALSE]
        /\ UNCHANGED server
     \/ /\ ui.configured = "set"
        /\ Start(Call("write", {"byok"}, "", "clear"))
        /\ UNCHANGED <<ui, server>>

\* Defect: the page does not read the status again after it cleared the key.
ClearedOnly(s) == Answered(s, "clear") /\ UNCHANGED ui /\ Finish(s)

Refreshed(s) == Answered(s, "refresh") /\ ui' = [ui EXCEPT !.configured = calls[s].ans] /\ Finish(s)
Saved(s)     == Answered(s, "save") /\ ui' = [ui EXCEPT !.key = ""] /\ Send(At(s, Refresh))
Cleared(s)   == Answered(s, "clear") /\ UNCHANGED ui /\ Send(At(s, Refresh))

-----------------------------------------------------------------------------
(* The framework and the custom rules.  What is in the form is what the    *)
(* user last typed there: AddRule takes it as its parameter.  Before the   *)
(* framework is read, "eu_ai_act" is shown and the only choice.            *)
ChangeFramework(f) ==
  /\ ~ ui.frameworkBusy /\ ui.framework \notin {"unread", f}
  /\ Start(Call("write", {"framework", "rules", "frameworkBusy"}, f, "changeFramework"))
  /\ ui' = [ui EXCEPT !.frameworkErr = FALSE, !.frameworkBusy = TRUE]

AddRule(r) ==
  /\ ~ ui.ruleBusy
  /\ Start(Call("write", {"rules", "ruleBusy"}, r, "addRule"))
  /\ ui' = [ui EXCEPT !.ruleErr = FALSE, !.ruleBusy = TRUE]

RemoveRule(r) ==
  /\ r \in ui.rules.custom
  /\ Start(Call("write", {"rules"}, r, "removeRule"))
  /\ UNCHANGED ui

FrameworkCardOffers ==
  /\ ui.page = "policy"
  /\ \E f \in Frameworks : ChangeFramework(f)
  /\ UNCHANGED server

RulesCardOffers ==
  /\ ui.page = "policy"
  /\ \E r \in RuleIds : AddRule(r) \/ RemoveRule(r)
  /\ UNCHANGED server

\* Promise.all: changeFramework goes on when its two reads have both ended.
BothRead(s) == \A o \in Slots \ {s} : calls[o].then \notin {"allRules", "allFramework"}

FrameworkChanged(s) ==
  /\ Answered(s, "changeFramework")
  /\ \E t \in Slots \ {s} :
       /\ Vacant(t) /\ \A o \in Slots \ {s} : Vacant(o) => t <= o
       /\ Send([o \in {s, t} |-> IF o = s THEN Call("read", {"framework", "frameworkBusy"}, "", "allFramework")
                               ELSE Call("read", {"rules", "frameworkBusy"}, "", "allRules")])
  /\ UNCHANGED ui

FrameworkRefreshed(s) ==
  /\ \/ Answered(s, "refreshFramework") /\ ui' = [ui EXCEPT !.framework = calls[s].ans]
     \/ /\ Answered(s, "allFramework")
        /\ ui' = [ui EXCEPT !.framework = calls[s].ans, !.frameworkBusy = ~ BothRead(s)]
  /\ Finish(s)

RuleAdded(s)   == Answered(s, "addRule") /\ UNCHANGED ui
                  /\ Send(At(s, Call("read", {"rules", "ruleBusy"}, "", "readRules")))
RuleRemoved(s) == Answered(s, "removeRule") /\ UNCHANGED ui /\ Send(At(s, RefreshRules))

RulesRefreshed(s) ==
  /\ \/ Answered(s, "refreshRules") /\ ui' = [ui EXCEPT !.rules = calls[s].ans]
     \/ Answered(s, "readRules")    /\ ui' = [ui EXCEPT !.rules = calls[s].ans, !.ruleBusy = FALSE]
     \/ /\ Answered(s, "allRules")
        /\ ui' = [ui EXCEPT !.rules = calls[s].ans, !.frameworkBusy = ~ BothRead(s)]
  /\ Finish(s)

-----------------------------------------------------------------------------
(* The schedule: the number in the input is floored before it is kept.     *)
SaveSchedule(enabled) ==
  /\ ~ ui.busy
  /\ enabled \/ ui.schedule.enabled
  /\ Start(Call("write", {"schedule", "busy"}, [enabled |-> enabled, every |-> ui.interval], "saveSchedule"))
  /\ ui' = [ui EXCEPT !.err = FALSE, !.busy = TRUE]

ScheduleCardOffers ==
  /\ ui.page = "schedule"
  /\ \/ \E m \in Minutes : /\ ui' = [ui EXCEPT !.interval = IF m < Floor THEN Floor ELSE m]
                           /\ UNCHANGED <<calls, trust>>
     \/ \E enabled \in BOOLEAN : SaveSchedule(enabled)
  /\ UNCHANGED server

ScheduleSaved(s) ==
  /\ Answered(s, "saveSchedule") /\ UNCHANGED ui
  /\ Send(At(s, Call("read", {"schedule", "busy"}, "", "readSchedule")))

ScheduleRefreshed(s) ==
  /\ \/ Answered(s, "refreshSchedule") /\ ui' = [ui EXCEPT !.schedule = calls[s].ans, !.interval = calls[s].ans.every]
     \/ /\ Answered(s, "readSchedule")
        /\ ui' = [ui EXCEPT !.schedule = calls[s].ans, !.interval = calls[s].ans.every, !.busy = FALSE]
  /\ Finish(s)

-----------------------------------------------------------------------------
(* The webhook: every read overwrites what is typed in the input.          *)
SaveWebhook ==
  /\ ui.url # "" /\ ~ ui.busy
  /\ Start(Call("write", {"webhook", "busy"}, ui.url, "saveWebhook"))
  /\ ui' = [ui EXCEPT !.err = FALSE, !.busy = TRUE]

ClearWebhook ==
  /\ ui.webhook # "none"
  /\ Start(Call("write", {"webhook"}, "", "clearWebhook"))
  /\ UNCHANGED ui

HookCardOffers ==
  /\ ui.page = "webhook"
  /\ \/ \E u \in (Urls \cup {""}) \ {ui.url} : ui' = [ui EXCEPT !.url = u] /\ UNCHANGED <<calls, trust>>
     \/ SaveWebhook
     \/ ClearWebhook
  /\ UNCHANGED server

WebhookSaved(s)   == Answered(s, "saveWebhook") /\ UNCHANGED ui
                     /\ Send(At(s, Call("read", {"webhook", "busy"}, "", "readWebhook")))
WebhookCleared(s) == Answered(s, "clearWebhook") /\ ui' = [ui EXCEPT !.url = ""] /\ Send(At(s, RefreshWebhook))

WebhookRefreshed(s) ==
  LET url == IF calls[s].ans = "none" THEN "" ELSE calls[s].ans
  IN /\ \/ Answered(s, "refreshWebhook") /\ ui' = [ui EXCEPT !.webhook = calls[s].ans, !.url = url]
        \/ Answered(s, "readWebhook") /\ ui' = [ui EXCEPT !.webhook = calls[s].ans, !.url = url, !.busy = FALSE]
     /\ Finish(s)
-----------------------------------------------------------------------------
(* The catch and finally blocks.                                           *)
KeyCatch(s) ==
  /\ calls[s].then \in {"refresh", "save", "clear"}
  /\ ui' = [ui EXCEPT !.err = TRUE]

FrameworkCatch(s) ==
  \/ calls[s].then = "refreshFramework" /\ ui' = [ui EXCEPT !.frameworkErr = TRUE]
  \/ calls[s].then = "changeFramework" /\ ui' = [ui EXCEPT !.frameworkErr = TRUE, !.frameworkBusy = FALSE]
  \/ calls[s].then = "allFramework" /\ ui' = [ui EXCEPT !.frameworkErr = TRUE, !.frameworkBusy = ~ BothRead(s)]

RulesCatch(s) ==
  \/ calls[s].then \in {"refreshRules", "removeRule"} /\ ui' = [ui EXCEPT !.ruleErr = TRUE]
  \/ calls[s].then \in {"addRule", "readRules"} /\ ui' = [ui EXCEPT !.ruleErr = TRUE, !.ruleBusy = FALSE]
  \/ calls[s].then = "allRules" /\ ui' = [ui EXCEPT !.ruleErr = TRUE, !.frameworkBusy = ~ BothRead(s)]

\* Defect: no finally, the button stays disabled after an error.
ScheduleCatchOnly(s) ==
  /\ calls[s].then \in {"refreshSchedule", "saveSchedule", "readSchedule"}
  /\ ui' = [ui EXCEPT !.err = TRUE]

ScheduleCatch(s) ==
  \/ calls[s].then = "refreshSchedule" /\ ui' = [ui EXCEPT !.err = TRUE]
  \/ calls[s].then \in {"saveSchedule", "readSchedule"} /\ ui' = [ui EXCEPT !.err = TRUE, !.busy = FALSE]

WebhookCatch(s) ==
  \/ calls[s].then \in {"refreshWebhook", "clearWebhook"} /\ ui' = [ui EXCEPT !.err = TRUE]
  \/ calls[s].then \in {"saveWebhook", "readWebhook"} /\ ui' = [ui EXCEPT !.err = TRUE, !.busy = FALSE]

SettingsCatch(s) ==
  /\ Throw(s)
  /\ \/ KeyCatch(s)
     \/ FrameworkCatch(s)
     \/ RulesCatch(s)
     \/ ScheduleCatch(s)
     \/ WebhookCatch(s)
  /\ UNCHANGED server

\* An awaited call of the page ends, and the handler goes on.
SettingsContinue(s) ==
  \/ /\ \/ Refreshed(s) \/ Saved(s) \/ Cleared(s)
        \/ FrameworkChanged(s) \/ FrameworkRefreshed(s)
        \/ RuleAdded(s) \/ RuleRemoved(s) \/ RulesRefreshed(s)
        \/ ScheduleSaved(s) \/ ScheduleRefreshed(s)
        \/ WebhookSaved(s) \/ WebhookCleared(s) \/ WebhookRefreshed(s)
     /\ UNCHANGED server
  \/ SettingsCatch(s)

SettingsNext ==
  \/ SettingsMount
  \/ KeyCardOffers \/ FrameworkCardOffers \/ RulesCardOffers \/ ScheduleCardOffers \/ HookCardOffers
  \/ \E s \in Slots : SettingsServe(s) \/ SettingsContinue(s)

-----------------------------------------------------------------------------
\* Of the things on the card: what the page shows, and what is stored.
SettingsShown ==
  CASE ui.page = "byok"     -> [byok |-> ui.configured]
    [] ui.page = "policy"   -> [framework |-> ui.framework, rules |-> ui.rules]
    [] ui.page = "schedule" -> [schedule |-> ui.schedule]
    [] ui.page = "webhook"  -> [webhook |-> ui.webhook]

SettingsStored ==
  CASE ui.page = "byok"     -> [byok |-> server.byok]
    [] ui.page = "policy"   -> [framework |-> server.framework, rules |-> GetRules]
    [] ui.page = "schedule" -> [schedule |-> server.schedule]
    [] ui.page = "webhook"  -> [webhook |-> server.webhook]
=============================================================================
