------------------------------ MODULE CopyProofs ------------------------------
(***************************************************************************)
(* What the dashboard shows is what is stored, and its buttons come back:  *)
(* for each page an invariant about the copies it has of what the server   *)
(* stores and about the calls that are under way for them, kept by every   *)
(* handler of the page.  At the end, the properties of Console from it.    *)
(***************************************************************************)
EXTENDS ConsoleProofs

------------------------------------------------------------------------------
(***************************************************************************)
(* The cards of the settings page.                                         *)
(***************************************************************************)
ByokCard ==
  ui.page = "byok" =>
    /\ {"configured", "key", "err"} \subseteq DOMAIN ui /\ "byok" \in DOMAIN server
    /\ Mirrors(calls, trust, "byok", ui.configured, server.byok)
    /\ Adrift(calls, trust, "byok") => ui.err

ScheduleCopy ==
  ui.page = "schedule" =>
    /\ {"schedule", "interval", "busy", "err"} \subseteq DOMAIN ui /\ "schedule" \in DOMAIN server
    /\ Mirrors(calls, trust, "schedule", ui.schedule, server.schedule)
    /\ Adrift(calls, trust, "schedule") => ui.err
    /\ OneOperation(calls, trust, "busy") /\ (trust["busy"] = "clean" => (ui.busy <=> Held(calls, "busy")))

WebhookCopy ==
  ui.page = "webhook" =>
    /\ {"webhook", "url", "busy", "err"} \subseteq DOMAIN ui /\ "webhook" \in DOMAIN server
    /\ Mirrors(calls, trust, "webhook", ui.webhook, server.webhook)
    /\ Adrift(calls, trust, "webhook") => ui.err
    /\ OneOperation(calls, trust, "busy") /\ (trust["busy"] = "clean" => (ui.busy <=> Held(calls, "busy")))

\* What is known of the thing and the flag of a page.
LEMMA ThingsKnown ==
  ASSUME SceneInv
  PROVE  /\ ui.page = "byok" => "byok" \in DOMAIN trust \ Flags
         /\ ui.page = "keys" => "keys" \in DOMAIN trust \ Flags
         /\ ui.page = "schedule" => "schedule" \in DOMAIN trust \ Flags /\ "busy" \in DOMAIN trust \cap Flags
         /\ ui.page = "webhook" => "webhook" \in DOMAIN trust \ Flags /\ "busy" \in DOMAIN trust \cap Flags
         /\ ui.page = "team" => "team" \in DOMAIN trust \ Flags /\ "busy" \in DOMAIN trust \cap Flags
         /\ ui.page = "billing" => "plan" \in DOMAIN trust \ Flags /\ "busy" \in DOMAIN trust \cap Flags
         /\ ui.page = "policy" => {"framework", "rules"} \subseteq DOMAIN trust \ Flags
         /\ ui.page = "policy" => {"frameworkBusy", "ruleBusy"} \subseteq DOMAIN trust \cap Flags
         /\ ui.page = "insights" => "trend" \in DOMAIN trust \ Flags
         /\ ui.page = "session" => "session" \in DOMAIN trust \ Flags
         /\ ui.page \in {"list", "demo"} => "list" \in DOMAIN trust \ Flags
         /\ ui.page \in {"view", "demo"} => "view" \in DOMAIN trust \ Flags /\ "busy" \in DOMAIN trust \cap Flags
         /\ ui.page \in {"login", "reset"} => "busy" \in DOMAIN trust \cap Flags
<1>1. DOMAIN trust = Things(ui.page)
  BY DEF SceneInv, TrustTyped
<1> QED
  BY <1>1 DEF Things, Flags

\* Which handlers of the settings page go on with a call, by the card.
LEMMA SettingsGoesOn ==
  ASSUME SceneInv, NEW s \in Slots, SettingsContinue(s)
  PROVE  /\ UNCHANGED server
         /\ ui.page = "byok" => Refreshed(s) \/ Saved(s) \/ Cleared(s) \/ (Throw(s) /\ KeyCatch(s))
         /\ ui.page = "policy" =>
              \/ FrameworkChanged(s) \/ FrameworkRefreshed(s) \/ RuleAdded(s) \/ RuleRemoved(s) \/ RulesRefreshed(s)
              \/ Throw(s) /\ (FrameworkCatch(s) \/ RulesCatch(s))
         /\ ui.page = "schedule" => ScheduleSaved(s) \/ ScheduleRefreshed(s) \/ (Throw(s) /\ ScheduleCatch(s))
         /\ ui.page = "webhook" =>
              WebhookSaved(s) \/ WebhookCleared(s) \/ WebhookRefreshed(s) \/ (Throw(s) /\ WebhookCatch(s))
<1>1. Refreshed(s) \/ Saved(s) \/ Cleared(s) \/ (Throw(s) /\ KeyCatch(s)) => ui.page = "byok"
  BY AnsweredIs, ThrowIs, PageOf DEF Refreshed, Saved, Cleared, KeyCatch
<1>2. FrameworkChanged(s) \/ FrameworkRefreshed(s) \/ RuleAdded(s) \/ RuleRemoved(s) \/ RulesRefreshed(s) =>
        ui.page = "policy"
  BY AnsweredIs, PageOf DEF FrameworkChanged, FrameworkRefreshed, RuleAdded, RuleRemoved, RulesRefreshed
<1>3. Throw(s) /\ (FrameworkCatch(s) \/ RulesCatch(s)) => ui.page = "policy"
  BY ThrowIs, PageOf DEF FrameworkCatch, RulesCatch
<1>4. ScheduleSaved(s) \/ ScheduleRefreshed(s) \/ (Throw(s) /\ ScheduleCatch(s)) => ui.page = "schedule"
  BY AnsweredIs, ThrowIs, PageOf DEF ScheduleSaved, ScheduleRefreshed, ScheduleCatch
<1>5. WebhookSaved(s) \/ WebhookCleared(s) \/ WebhookRefreshed(s) \/ (Throw(s) /\ WebhookCatch(s)) =>
        ui.page = "webhook"
  BY AnsweredIs, ThrowIs, PageOf DEF WebhookSaved, WebhookCleared, WebhookRefreshed, WebhookCatch
<1>6. UNCHANGED server
  BY DEF SettingsContinue, SettingsCatch
<1>7. SettingsCatch(s) => Throw(s) /\ (KeyCatch(s) \/ FrameworkCatch(s) \/ RulesCatch(s) \/ ScheduleCatch(s)
                                      \/ WebhookCatch(s))
  BY DEF SettingsCatch
<1> QED
  BY <1>1, <1>2, <1>3, <1>4, <1>5, <1>6, <1>7 DEF SettingsContinue

LEMMA ByokStep ==
  ASSUME SceneInv, Orderly, ByokCard, ui.page = "byok", SettingsNext
  PROVE  ByokCard'
<1> "byok" \in DOMAIN trust \ Flags
  BY ThingsKnown
<1>1. /\ {"configured", "key", "err"} \subseteq DOMAIN ui /\ "byok" \in DOMAIN server
      /\ Mirrors(calls, trust, "byok", ui.configured, server.byok)
      /\ Adrift(calls, trust, "byok") => ui.err
  BY DEF ByokCard
<1>2. CASE SettingsMount
  <2>1. Start(Call("read", {"byok"}, "", "refresh")) /\ ui' = ui /\ server' = server
    BY <1>2 DEF SettingsMount, Refresh
  <2> QED
    BY <1>1, <2>1, StartMirrors, StartAdrift DEF ByokCard
<1>3. CASE KeyCardOffers
  <2>1. CASE UNCHANGED <<calls, trust>> /\ \E k : ui' = [ui EXCEPT !.key = k]
    <3>1. ui'.configured = ui.configured /\ ui'.err = ui.err /\ DOMAIN ui' = DOMAIN ui
      BY <1>1, <2>1
    <3> QED
      BY <1>1, <1>3, <2>1, <3>1 DEF KeyCardOffers, ByokCard
  <2>2. CASE Start(Call("write", {"byok"}, "", "save")) /\ ui' = [ui EXCEPT !.err = FALSE]
    <3>1. ui'.configured = ui.configured /\ DOMAIN ui' = DOMAIN ui
      BY <1>1, <2>2
    <3> QED
      BY <1>1, <1>3, <2>2, <3>1, StartMirrors, StartAdrift DEF KeyCardOffers, ByokCard
  <2>3. CASE Start(Call("write", {"byok"}, "", "clear")) /\ UNCHANGED ui
    BY <1>1, <1>3, <2>3, StartMirrors, StartAdrift DEF KeyCardOffers, ByokCard
  <2> QED
    BY <1>3, <2>1, <2>2, <2>3 DEF KeyCardOffers
<1>4. ASSUME NEW s \in Slots, SettingsServe(s)
      PROVE  ByokCard'
  <2>1. PICK new, ans : /\ Serve(s, new, ans)
                        /\ \/ calls[s].do = "read" /\ new = server /\ ans = server.byok
                           \/ /\ calls[s].do = "write"
                              /\ new \in {[server EXCEPT !.byok = "set"], [server EXCEPT !.byok = "unset"]}
    BY <1>4, ByokCalls, ServeIs DEF SettingsServe
  <2>2. UNCHANGED ui /\ server' = new /\ calls[s].on = {"byok"}
    BY <2>1, ServeIs, ByokCalls
  <2>3. "byok" \in DOMAIN server'
    BY <1>1, <2>1, <2>2
  <2>4. Mirrors(calls', trust', "byok", ui.configured, server'.byok)
    BY <1>1, <2>1, <2>2, ServeMirrors
  <2> QED
    BY <1>1, <2>1, <2>2, <2>3, <2>4, ServeAdrift DEF ByokCard
<1>5. ASSUME NEW s \in Slots, SettingsContinue(s)
      PROVE  ByokCard'
  <2>0. UNCHANGED server
    BY <1>5, SettingsGoesOn
  <2>1. CASE Refreshed(s)
    <3>1. ui'.configured = calls[s].ans /\ ui'.err = ui.err /\ DOMAIN ui' = DOMAIN ui
      BY <1>1, <2>1 DEF Refreshed
    <3>2. calls[s].do = "read" /\ calls[s].st = "back" /\ calls[s].on = {"byok"}
      BY <2>1, ByokCalls, AnsweredIs DEF Refreshed, Answered
    <3>3. Finish(s)
      BY <2>1 DEF Refreshed
    <3> QED
      BY <1>1, <2>0, <3>1, <3>2, <3>3, FinishMirrors, FinishAdrift DEF ByokCard
  <2>2. CASE Saved(s) \/ Cleared(s)
    <3>1. ui'.configured = ui.configured /\ ui'.err = ui.err /\ DOMAIN ui' = DOMAIN ui
      BY <1>1, <2>2 DEF Saved, Cleared
    <3>2. SendFrom(trust, At(s, Call("read", {"byok"}, "", "refresh")))
      BY <2>2 DEF Saved, Cleared, Send, Refresh
    <3> QED
      BY <1>1, <2>0, <3>1, <3>2, SentMirrors, SentAdrift DEF ByokCard
  <2>3. CASE Throw(s) /\ KeyCatch(s)
    <3>1. ui'.configured = ui.configured /\ ui'.err = TRUE /\ DOMAIN ui' = DOMAIN ui
      BY <1>1, <2>3 DEF KeyCatch
    <3> QED
      BY <1>1, <2>0, <2>3, <3>1, ThrowMirrors, ThrowAdrift DEF ByokCard
  <2> QED
    BY <1>5, <2>1, <2>2, <2>3, SettingsGoesOn
<1> QED
  BY <1>2, <1>3, <1>4, <1>5
     DEF SettingsNext, FrameworkCardOffers, RulesCardOffers, ScheduleCardOffers, HookCardOffers

LEMMA ScheduleStep ==
  ASSUME SceneInv, Orderly, ScheduleCopy, ui.page = "schedule", SettingsNext
  PROVE  ScheduleCopy'
<1> "schedule" \in DOMAIN trust \ Flags /\ "busy" \in DOMAIN trust \cap Flags
  BY ThingsKnown
<1>1. /\ {"schedule", "interval", "busy", "err"} \subseteq DOMAIN ui /\ "schedule" \in DOMAIN server
      /\ Mirrors(calls, trust, "schedule", ui.schedule, server.schedule)
      /\ Adrift(calls, trust, "schedule") => ui.err
      /\ OneOperation(calls, trust, "busy") /\ (trust["busy"] = "clean" => (ui.busy <=> Held(calls, "busy")))
  BY DEF ScheduleCopy
<1>2. CASE SettingsMount
  <2>1. Start(Call("read", {"schedule"}, "", "refreshSchedule")) /\ ui' = ui /\ server' = server
    BY <1>2 DEF SettingsMount, RefreshSchedule
  <2> QED
    BY <1>1, <2>1, StartMirrors, StartAdrift, StartHeld DEF ScheduleCopy
<1>3. CASE ScheduleCardOffers
  <2>1. CASE UNCHANGED <<calls, trust>> /\ \E m : ui' = [ui EXCEPT !.interval = m]
    <3>1. ui'.schedule = ui.schedule /\ ui'.err = ui.err /\ ui'.busy = ui.busy /\ DOMAIN ui' = DOMAIN ui
      BY <1>1, <2>1
    <3> QED
      BY <1>1, <1>3, <2>1, <3>1 DEF ScheduleCardOffers, ScheduleCopy
  <2>2. ASSUME NEW enabled, SaveSchedule(enabled)
        PROVE  ScheduleCopy'
    <3>1. PICK arg : Start(Call("write", {"schedule", "busy"}, arg, "saveSchedule"))
      BY <2>2 DEF SaveSchedule
    <3>2. ui'.schedule = ui.schedule /\ ui'.busy = TRUE /\ DOMAIN ui' = DOMAIN ui
      BY <1>1, <2>2 DEF SaveSchedule
    <3>3. UNCHANGED server
      BY <1>3 DEF ScheduleCardOffers
    <3> QED
      BY <1>1, <3>1, <3>2, <3>3, StartMirrors, StartAdrift, StartHeld DEF ScheduleCopy
  <2> QED
    BY <1>3, <2>1, <2>2 DEF ScheduleCardOffers
<1>4. ASSUME NEW s \in Slots, SettingsServe(s)
      PROVE  ScheduleCopy'
  <2>1. PICK new, ans : /\ Serve(s, new, ans)
                        /\ \/ calls[s].do = "read" /\ new = server /\ ans = server.schedule
                           \/ /\ calls[s].do = "write"
                              /\ new = [server EXCEPT !.schedule = SetSchedule(calls[s].arg)]
    BY <1>4, ScheduleCalls, ServeIs DEF SettingsServe
  <2>2. UNCHANGED ui /\ server' = new /\ "schedule" \in calls[s].on
    BY <2>1, ServeIs, ScheduleCalls
  <2>3. "schedule" \in DOMAIN server'
    BY <1>1, <2>1, <2>2
  <2>4. Mirrors(calls', trust', "schedule", ui.schedule, server'.schedule)
    BY <1>1, <2>1, <2>2, ServeMirrors
  <2> QED
    BY <1>1, <2>1, <2>2, <2>3, <2>4, ServeAdrift, ServeHeld DEF ScheduleCopy
<1>5. ASSUME NEW s \in Slots, SettingsContinue(s)
      PROVE  ScheduleCopy'
  <2>1. UNCHANGED server
    BY <1>5, SettingsGoesOn
  <2>2. CASE ScheduleRefreshed(s)
    <3>1. ui'.schedule = calls[s].ans /\ ui'.err = ui.err /\ DOMAIN ui' = DOMAIN ui
      BY <1>1, <2>2 DEF ScheduleRefreshed
    <3>2. /\ calls[s].do = "read" /\ calls[s].st = "back" /\ "schedule" \in calls[s].on
          /\ calls[s].then \notin {"allFramework", "allRules"}
          /\ ui'.busy = IF "busy" \in calls[s].on THEN FALSE ELSE ui.busy
      BY <1>1, <2>2, ScheduleCalls, AnsweredIs DEF ScheduleRefreshed, Answered
    <3>3. Finish(s)
      BY <2>2 DEF ScheduleRefreshed
    <3> QED
      BY <1>1, <2>1, <3>1, <3>2, <3>3, FinishMirrors, FinishAdrift, FinishHeld DEF ScheduleCopy
  <2>3. CASE ScheduleSaved(s)
    <3>1. PICK on : /\ SendFrom(trust, At(s, Call("read", on, "", "readSchedule")))
                    /\ "schedule" \in on /\ "busy" \in on
      BY <2>3 DEF ScheduleSaved, Send
    <3>2. UNCHANGED ui /\ "busy" \in calls[s].on /\ Held(calls, "busy")
      BY <2>3, ScheduleCalls, AnsweredIs DEF ScheduleSaved, Answered, Held
    <3>3. Mirrors(calls', trust', "schedule", ui.schedule, server.schedule)
      BY <1>1, <3>1, SentMirrors
    <3>4. Adrift(calls', trust', "schedule") => ui.err
      BY <1>1, <3>1, SentAdrift
    <3>5. OneOperation(calls', trust', "busy") /\ (trust'["busy"] = "clean" => (ui.busy <=> Held(calls', "busy")))
      BY <1>1, <3>1, <3>2, SentHeld
    <3> QED
      BY <1>1, <2>1, <3>2, <3>3, <3>4, <3>5 DEF ScheduleCopy
  <2>4. CASE Throw(s) /\ ScheduleCatch(s)
    <3>1. ui'.schedule = ui.schedule /\ ui'.err = TRUE /\ DOMAIN ui' = DOMAIN ui
      BY <1>1, <2>4 DEF ScheduleCatch
    <3>2. /\ calls[s].then \notin {"allFramework", "allRules"}
          /\ ui'.busy = IF "busy" \in calls[s].on THEN FALSE ELSE ui.busy
      BY <1>1, <2>4, ScheduleCalls, ThrowIs DEF ScheduleCatch, Throw, Open
    <3> QED
      BY <1>1, <2>1, <2>4, <3>1, <3>2, ThrowMirrors, ThrowAdrift, ThrowHeld DEF ScheduleCopy
  <2> QED
    BY <1>5, <2>2, <2>3, <2>4, SettingsGoesOn
<1> QED
  BY <1>2, <1>3, <1>4, <1>5
     DEF SettingsNext, KeyCardOffers, FrameworkCardOffers, RulesCardOffers, HookCardOffers

LEMMA WebhookStep ==
  ASSUME SceneInv, Orderly, WebhookCopy, ui.page = "webhook", SettingsNext
  PROVE  WebhookCopy'
<1> "webhook" \in DOMAIN trust \ Flags /\ "busy" \in DOMAIN trust \cap Flags
  BY ThingsKnown
<1>1. /\ {"webhook", "url", "busy", "err"} \subseteq DOMAIN ui /\ "webhook" \in DOMAIN server
      /\ Mirrors(calls, trust, "webhook", ui.webhook, server.webhook)
      /\ Adrift(calls, trust, "webhook") => ui.err
      /\ OneOperation(calls, trust, "busy") /\ (trust["busy"] = "clean" => (ui.busy <=> Held(calls, "busy")))
  BY DEF WebhookCopy
<1>2. CASE SettingsMount
  <2>1. Start(Call("read", {"webhook"}, "", "refreshWebhook")) /\ ui' = ui /\ server' = server
    BY <1>2 DEF SettingsMount, RefreshWebhook
  <2> QED
    BY <1>1, <2>1, StartMirrors, StartAdrift, StartHeld DEF WebhookCopy
<1>3. CASE HookCardOffers
  <2>1. UNCHANGED server
    BY <1>3 DEF HookCardOffers
  <2>2. CASE UNCHANGED <<calls, trust>> /\ \E u : ui' = [ui EXCEPT !.url = u]
    <3>1. ui'.webhook = ui.webhook /\ ui'.err = ui.err /\ ui'.busy = ui.busy /\ DOMAIN ui' = DOMAIN ui
      BY <1>1, <2>2
    <3> QED
      BY <1>1, <2>1, <2>2, <3>1 DEF WebhookCopy
  <2>3. CASE SaveWebhook
    <3>1. PICK arg : Start(Call("write", {"webhook", "busy"}, arg, "saveWebhook"))
      BY <2>3 DEF SaveWebhook
    <3>2. ui'.webhook = ui.webhook /\ ui'.busy = TRUE /\ DOMAIN ui' = DOMAIN ui
      BY <1>1, <2>3 DEF SaveWebhook
    <3> QED
      BY <1>1, <2>1, <3>1, <3>2, StartMirrors, StartAdrift, StartHeld DEF WebhookCopy
  <2>4. CASE ClearWebhook
    <3>1. Start(Call("write", {"webhook"}, "", "clearWebhook")) /\ ui' = ui
      BY <2>4 DEF ClearWebhook
    <3> QED
      BY <1>1, <2>1, <3>1, StartMirrors, StartAdrift, StartHeld DEF WebhookCopy
  <2> QED
    BY <1>3, <2>2, <2>3, <2>4 DEF HookCardOffers
<1>4. ASSUME NEW s \in Slots, SettingsServe(s)
      PROVE  WebhookCopy'
  <2>1. PICK new, ans : /\ Serve(s, new, ans)
                        /\ \/ calls[s].do = "read" /\ new = server /\ ans = server.webhook
                           \/ calls[s].do = "write" /\ \E w : new = [server EXCEPT !.webhook = w]
    BY <1>4, WebhookCalls, ServeIs DEF SettingsServe
  <2>2. UNCHANGED ui /\ server' = new /\ "webhook" \in calls[s].on
    BY <2>1, ServeIs, WebhookCalls
  <2>3. "webhook" \in DOMAIN server'
    BY <1>1, <2>1, <2>2
  <2>4. Mirrors(calls', trust', "webhook", ui.webhook, server'.webhook)
    BY <1>1, <2>1, <2>2, ServeMirrors
  <2> QED
    BY <1>1, <2>1, <2>2, <2>3, <2>4, ServeAdrift, ServeHeld DEF WebhookCopy
<1>5. ASSUME NEW s \in Slots, SettingsContinue(s)
      PROVE  WebhookCopy'
  <2>1. UNCHANGED server
    BY <1>5, SettingsGoesOn
  <2>2. CASE WebhookRefreshed(s)
    <3>1. ui'.webhook = calls[s].ans /\ ui'.err = ui.err /\ DOMAIN ui' = DOMAIN ui
      BY <1>1, <2>2 DEF WebhookRefreshed
    <3>2. /\ calls[s].do = "read" /\ calls[s].st = "back" /\ "webhook" \in calls[s].on
          /\ calls[s].then \notin {"allFramework", "allRules"}
          /\ ui'.busy = IF "busy" \in calls[s].on THEN FALSE ELSE ui.busy
      BY <1>1, <2>2, WebhookCalls, AnsweredIs DEF WebhookRefreshed, Answered
    <3>3. Finish(s)
      BY <2>2 DEF WebhookRefreshed
    <3> QED
      BY <1>1, <2>1, <3>1, <3>2, <3>3, FinishMirrors, FinishAdrift, FinishHeld DEF WebhookCopy
  <2>3. CASE WebhookSaved(s)
    <3>1. PICK on : /\ SendFrom(trust, At(s, Call("read", on, "", "readWebhook")))
                    /\ "webhook" \in on /\ "busy" \in on
      BY <2>3 DEF WebhookSaved, Send
    <3>2. UNCHANGED ui /\ "busy" \in calls[s].on /\ Held(calls, "busy")
      BY <2>3, WebhookCalls, AnsweredIs DEF WebhookSaved, Answered, Held
    <3>3. Mirrors(calls', trust', "webhook", ui.webhook, server.webhook)
      BY <1>1, <3>1, SentMirrors
    <3>4. Adrift(calls', trust', "webhook") => ui.err
      BY <1>1, <3>1, SentAdrift
    <3>5. OneOperation(calls', trust', "busy") /\ (trust'["busy"] = "clean" => (ui.busy <=> Held(calls', "busy")))
      BY <1>1, <3>1, <3>2, SentHeld
    <3> QED
      BY <1>1, <2>1, <3>2, <3>3, <3>4, <3>5 DEF WebhookCopy
  <2>4. CASE WebhookCleared(s)
    <3>1. PICK on : /\ SendFrom(trust, At(s, Call("read", on, "", "refreshWebhook")))
                    /\ "webhook" \in on /\ "busy" \notin on
      BY <2>4 DEF WebhookCleared, RefreshWebhook, Send
    <3>2. ui'.webhook = ui.webhook /\ ui'.err = ui.err /\ ui'.busy = ui.busy /\ DOMAIN ui' = DOMAIN ui
      BY <1>1, <2>4 DEF WebhookCleared
    <3>6. "busy" \notin calls[s].on
      BY <2>4, WebhookCalls, AnsweredIs DEF WebhookCleared, Answered
    <3>3. Mirrors(calls', trust', "webhook", ui.webhook, server.webhook)
      BY <1>1, <3>1, SentMirrors
    <3>4. Adrift(calls', trust', "webhook") => ui.err
      BY <1>1, <3>1, SentAdrift
    <3>5. OneOperation(calls', trust', "busy") /\ (trust'["busy"] = "clean" => (ui.busy <=> Held(calls', "busy")))
      BY <1>1, <3>1, <3>2, <3>6, SentHeld
    <3> QED
      BY <1>1, <2>1, <3>2, <3>3, <3>4, <3>5 DEF WebhookCopy
  <2>5. CASE Throw(s) /\ WebhookCatch(s)
    <3>1. ui'.webhook = ui.webhook /\ ui'.err = TRUE /\ DOMAIN ui' = DOMAIN ui
      BY <1>1, <2>5 DEF WebhookCatch
    <3>2. /\ calls[s].then \notin {"allFramework", "allRules"}
          /\ ui'.busy = IF "busy" \in calls[s].on THEN FALSE ELSE ui.busy
      BY <1>1, <2>5, WebhookCalls, ThrowIs DEF WebhookCatch, Throw, Open
    <3> QED
      BY <1>1, <2>1, <2>5, <3>1, <3>2, ThrowMirrors, ThrowAdrift, ThrowHeld DEF WebhookCopy
  <2> QED
    BY <1>5, <2>2, <2>3, <2>4, <2>5, SettingsGoesOn
<1> QED
  BY <1>2, <1>3, <1>4, <1>5
     DEF SettingsNext, KeyCardOffers, FrameworkCardOffers, RulesCardOffers, ScheduleCardOffers
------------------------------------------------------------------------------
(***************************************************************************)
(* The pages of the keys, the team and the plan.                           *)
(***************************************************************************)
KeysCopy ==
  ui.page = "keys" =>
    /\ {"keys", "loading", "err"} \subseteq DOMAIN ui /\ "keys" \in DOMAIN server
    /\ Mirrors(calls, trust, "keys", ui.keys, server.keys)
    /\ Adrift(calls, trust, "keys") => ui.err

TeamCopy ==
  ui.page = "team" =>
    /\ {"team", "busy", "err"} \subseteq DOMAIN ui /\ "team" \in DOMAIN server
    /\ Mirrors(calls, trust, "team", ui.team, server.team)
    /\ Adrift(calls, trust, "team") => ui.err
    /\ OneOperation(calls, trust, "busy") /\ (trust["busy"] = "clean" => (ui.busy <=> Held(calls, "busy")))

PlanCopy ==
  ui.page = "billing" =>
    /\ {"plan", "busy", "away", "loading", "err"} \subseteq DOMAIN ui /\ "plan" \in DOMAIN server
    /\ Mirrors(calls, trust, "plan", ui.plan, server.plan)
    /\ OneOperation(calls, trust, "busy")
    /\ trust["busy"] = "clean" /\ ~ ui.away => (ui.busy # "" <=> Held(calls, "busy"))

LEMMA KeysStep ==
  ASSUME SceneInv, Orderly, KeysCopy, ui.page = "keys", KeysNext
  PROVE  KeysCopy'
<1> "keys" \in DOMAIN trust \ Flags
  BY ThingsKnown
<1>1. /\ {"keys", "loading", "err"} \subseteq DOMAIN ui /\ "keys" \in DOMAIN server
      /\ Mirrors(calls, trust, "keys", ui.keys, server.keys)
      /\ Adrift(calls, trust, "keys") => ui.err
  BY DEF KeysCopy
<1>2. CASE KeysMount
  <2>1. Start(Call("read", {"keys"}, "", "refreshKeys")) /\ ui' = ui /\ server' = server
    BY <1>2 DEF KeysMount, RefreshKeys
  <2> QED
    BY <1>1, <2>1, StartMirrors, StartAdrift DEF KeysCopy
<1>3. CASE KeysOffers
  <2>1. CASE CreateKey
    <3>1. Start(Call("write", {"keys"}, "", "createKey")) /\ server' = server
      BY <1>3, <2>1 DEF CreateKey, KeysOffers
    <3>2. ui'.keys = ui.keys /\ DOMAIN ui' = DOMAIN ui
      BY <1>1, <2>1 DEF CreateKey
    <3> QED
      BY <1>1, <3>1, <3>2, StartMirrors, StartAdrift DEF KeysCopy
  <2>2. ASSUME NEW k \in KeyIds, RevokeKey(k)
        PROVE  KeysCopy'
    <3>1. Start(Call("write", {"keys"}, k, "revokeKey")) /\ ui' = ui /\ server' = server
      BY <1>3, <2>2 DEF RevokeKey, KeysOffers
    <3> QED
      BY <1>1, <3>1, StartMirrors, StartAdrift DEF KeysCopy
  <2> QED
    BY <1>3, <2>1, <2>2 DEF KeysOffers
<1>4. ASSUME NEW s \in Slots, KeysServe(s)
      PROVE  KeysCopy'
  <2>1. PICK new, ans : /\ Serve(s, new, ans)
                        /\ \/ calls[s].do = "read" /\ new = server /\ ans = server.keys
                           \/ calls[s].do = "write" /\ \E keys : new = [server EXCEPT !.keys = keys]
    <3>1. CASE ListApiKeys(s)
      <4>1. Serve(s, server, server.keys) /\ calls[s].do = "read"
        BY <3>1, KeysCalls, ServeIs DEF ListApiKeys
      <4> QED
        BY <4>1
    <3>2. CASE RevokeApiKey(s)
      <4>1. Serve(s, [server EXCEPT !.keys[calls[s].arg] = "revoked"], "") /\ calls[s].do = "write"
        BY <3>2, KeysCalls, ServeIs DEF RevokeApiKey
      <4> QED
        BY <4>1
    <3>3. CASE CreateApiKey(s)
      <4>1. PICK k : Serve(s, [server EXCEPT !.keys[k] = "live"], "")
        BY <3>3 DEF CreateApiKey
      <4>2. calls[s].do = "write"
        BY <3>3, <4>1, KeysCalls, ServeIs DEF CreateApiKey
      <4> QED
        BY <4>1, <4>2
    <3> QED
      BY <1>4, <3>1, <3>2, <3>3 DEF KeysServe
  <2>2. UNCHANGED ui /\ server' = new /\ calls[s].on = {"keys"}
    BY <2>1, ServeIs, KeysCalls
  <2>3. "keys" \in DOMAIN server'
    BY <1>1, <2>1, <2>2
  <2>4. Mirrors(calls', trust', "keys", ui.keys, server'.keys)
    BY <1>1, <2>1, <2>2, ServeMirrors
  <2> QED
    BY <1>1, <2>1, <2>2, <2>3, <2>4, ServeAdrift DEF KeysCopy
<1>5. ASSUME NEW s \in Slots, KeysContinue(s)
      PROVE  KeysCopy'
  <2>1. UNCHANGED server
    BY <1>5 DEF KeysContinue
  <2>2. CASE KeysRefreshed(s)
    <3>1. ui'.keys = calls[s].ans /\ ui'.err = ui.err /\ DOMAIN ui' = DOMAIN ui
      BY <1>1, <2>2 DEF KeysRefreshed
    <3>2. calls[s].do = "read" /\ calls[s].st = "back" /\ calls[s].on = {"keys"}
      BY <2>2, KeysCalls, AnsweredIs DEF KeysRefreshed, Answered
    <3>3. Finish(s)
      BY <2>2 DEF KeysRefreshed
    <3> QED
      BY <1>1, <2>1, <3>1, <3>2, <3>3, FinishMirrors, FinishAdrift DEF KeysCopy
  <2>3. CASE KeyCreated(s) \/ KeyRevoked(s)
    <3>1. SendFrom(trust, At(s, Call("read", {"keys"}, "", "refreshKeys"))) /\ ui' = ui
      BY <2>3 DEF KeyCreated, KeyRevoked, Send, RefreshKeys
    <3> QED
      BY <1>1, <2>1, <3>1, SentMirrors, SentAdrift DEF KeysCopy
  <2>4. CASE KeysCatch(s)
    <3>1. ui'.keys = ui.keys /\ ui'.err = TRUE /\ DOMAIN ui' = DOMAIN ui
      BY <1>1, <2>4 DEF KeysCatch
    <3>2. Throw(s)
      BY <2>4 DEF KeysCatch
    <3> QED
      BY <1>1, <2>1, <3>1, <3>2, ThrowMirrors, ThrowAdrift DEF KeysCopy
  <2> QED
    BY <1>5, <2>2, <2>3, <2>4 DEF KeysContinue
<1>6. CASE AgentNext
  BY <1>1, <1>6 DEF AgentNext, apiVars, KeysCopy
<1> QED
  BY <1>2, <1>3, <1>4, <1>5, <1>6 DEF KeysNext

LEMMA TeamStep ==
  ASSUME SceneInv, Orderly, TeamCopy, ui.page = "team", TeamPageNext
  PROVE  TeamCopy'
<1> "team" \in DOMAIN trust \ Flags /\ "busy" \in DOMAIN trust \cap Flags
  BY ThingsKnown
<1>1. /\ {"team", "busy", "err"} \subseteq DOMAIN ui /\ "team" \in DOMAIN server
      /\ Mirrors(calls, trust, "team", ui.team, server.team)
      /\ Adrift(calls, trust, "team") => ui.err
      /\ OneOperation(calls, trust, "busy") /\ (trust["busy"] = "clean" => (ui.busy <=> Held(calls, "busy")))
  BY DEF TeamCopy
<1>2. CASE TeamMount
  <2>1. Start(Call("read", {"team"}, "", "refreshTeam")) /\ ui' = ui /\ server' = server
    BY <1>2 DEF TeamMount, RefreshTeam
  <2> QED
    BY <1>1, <2>1, StartMirrors, StartAdrift, StartHeld DEF TeamCopy
<1>3. CASE MembersOffer
  <2>1. PICK arg, then : Start(Call("write", {"team"}, arg, then)) /\ ui' = ui /\ server' = server
    BY <1>3 DEF MembersOffer, ChangeRole, RemoveFromTeam
  <2> QED
    BY <1>1, <2>1, StartMirrors, StartAdrift, StartHeld DEF TeamCopy
<1>4. CASE InvitesOffer
  <2>1. UNCHANGED server
    BY <1>4 DEF InvitesOffer
  <2>2. ASSUME NEW e \in Emails, InviteMember(e)
        PROVE  TeamCopy'
    <3>1. PICK on : Start(Call("write", on, e, "invite")) /\ "team" \in on /\ "busy" \in on
      BY <2>2 DEF InviteMember
    <3>2. ui'.team = ui.team /\ ui'.busy = TRUE /\ DOMAIN ui' = DOMAIN ui
      BY <1>1, <2>2 DEF InviteMember
    <3> QED
      BY <1>1, <2>1, <3>1, <3>2, StartMirrors, StartAdrift, StartHeld DEF TeamCopy
  <2>3. ASSUME NEW e \in Emails, WithdrawInvite(e)
        PROVE  TeamCopy'
    <3>1. Start(Call("write", {"team"}, e, "revokeInvite")) /\ ui' = ui
      BY <2>3 DEF WithdrawInvite
    <3> QED
      BY <1>1, <2>1, <3>1, StartMirrors, StartAdrift, StartHeld DEF TeamCopy
  <2> QED
    BY <1>4, <2>2, <2>3 DEF InvitesOffer
<1>5. CASE TeamElsewhere
  <2>1. PICK team : Elsewhere("team", [server EXCEPT !.team = team])
    BY <1>5 DEF TeamElsewhere
  <2>2. /\ UNCHANGED <<ui, calls>> /\ trust'["team"] = "raced" /\ trust'["busy"] = trust["busy"]
        /\ server' = [server EXCEPT !.team = team]
    BY <2>1, ElsewhereCopies
  <2>3. Mirrors(calls', trust', "team", ui'.team, server'.team)
    BY <2>2 DEF Mirrors
  <2>4. ~ Adrift(calls', trust', "team")
    BY <2>2 DEF Adrift
  <2>5. OneOperation(calls', trust', "busy")
    BY <1>1, <2>2 DEF OneOperation
  <2>6. "team" \in DOMAIN server'
    BY <1>1, <2>2
  <2> QED
    BY <1>1, <2>2, <2>3, <2>4, <2>5, <2>6 DEF TeamCopy
<1>6. ASSUME NEW s \in Slots, TeamServe(s)
      PROVE  TeamCopy'
  <2>1. "team" \in calls[s].on /\ calls[s].do \in {"read", "write"}
    BY <1>6, TeamCalls DEF TeamServe
  <2>2. CASE Refuse(s)
    <3>1. UNCHANGED <<ui, server>>
      BY <2>2 DEF Refuse
    <3> QED
      BY <1>1, <2>2, <3>1, RefuseMirrors, ServeAdrift, ServeHeld DEF TeamCopy
  <2>3. CASE \E ans : Serve(s, Teamed(calls[s]), ans) /\ (calls[s].do = "read" => ans = server.team)
    <3>1. PICK ans : Serve(s, Teamed(calls[s]), ans) /\ (calls[s].do = "read" => ans = server.team)
      BY <2>3
    <3>2. UNCHANGED ui /\ server' = Teamed(calls[s])
      BY <3>1, ServeIs
    <3>3. "team" \in DOMAIN server'
      BY <1>1, <3>2 DEF Teamed
    <3>4. calls[s].do = "read" => server' = server
      BY <1>6, <3>2, TeamCalls DEF Teamed, TeamServe
    <3>5. Mirrors(calls', trust', "team", ui.team, server'.team)
      BY <1>1, <2>1, <3>1, <3>4, ServeMirrors
    <3> QED
      BY <1>1, <3>1, <3>2, <3>3, <3>5, ServeAdrift, ServeHeld DEF TeamCopy
  <2>4. \/ Refuse(s)
        \/ \E ans : Serve(s, Teamed(calls[s]), ans) /\ (calls[s].do = "read" => ans = server.team)
    BY <1>6 DEF TeamServe
  <2> QED
    BY <2>2, <2>3, <2>4
<1>7. ASSUME NEW s \in Slots, TeamPageContinue(s)
      PROVE  TeamCopy'
  <2>1. UNCHANGED server
    BY <1>7 DEF TeamPageContinue
  <2>2. CASE TeamRefreshed(s)
    <3>1. ui'.team = calls[s].ans /\ ui'.err = ui.err /\ DOMAIN ui' = DOMAIN ui
      BY <1>1, <2>2 DEF TeamRefreshed
    <3>2. /\ calls[s].do = "read" /\ calls[s].st = "back" /\ "team" \in calls[s].on
          /\ calls[s].then \notin {"allFramework", "allRules"}
          /\ ui'.busy = IF "busy" \in calls[s].on THEN FALSE ELSE ui.busy
      BY <1>1, <2>2, TeamCalls, AnsweredIs DEF TeamRefreshed, Answered
    <3>3. Finish(s)
      BY <2>2 DEF TeamRefreshed
    <3> QED
      BY <1>1, <2>1, <3>1, <3>2, <3>3, FinishMirrors, FinishAdrift, FinishHeld DEF TeamCopy
  <2>3. CASE Invited(s)
    <3>1. PICK on : /\ SendFrom(trust, At(s, Call("read", on, "", "readTeam")))
                    /\ "team" \in on /\ "busy" \in on
      BY <2>3 DEF Invited, Send
    <3>2. UNCHANGED ui /\ "busy" \in calls[s].on /\ Held(calls, "busy")
      BY <2>3, TeamCalls, AnsweredIs DEF Invited, Answered, Held
    <3>3. Mirrors(calls', trust', "team", ui.team, server.team)
      BY <1>1, <3>1, SentMirrors
    <3>4. Adrift(calls', trust', "team") => ui.err
      BY <1>1, <3>1, SentAdrift
    <3>5. OneOperation(calls', trust', "busy") /\ (trust'["busy"] = "clean" => (ui.busy <=> Held(calls', "busy")))
      BY <1>1, <3>1, <3>2, SentHeld
    <3> QED
      BY <1>1, <2>1, <3>2, <3>3, <3>4, <3>5 DEF TeamCopy
  <2>4. CASE TeamChanged(s)
    <3>1. PICK on : /\ SendFrom(trust, At(s, Call("read", on, "", "refreshTeam")))
                    /\ "team" \in on /\ "busy" \notin on
      BY <2>4 DEF TeamChanged, RefreshTeam, Send
    <3>2. UNCHANGED ui /\ "busy" \notin calls[s].on
      BY <2>4, TeamCalls, AnsweredIs DEF TeamChanged, Answered
    <3>3. Mirrors(calls', trust', "team", ui.team, server.team)
      BY <1>1, <3>1, SentMirrors
    <3>4. Adrift(calls', trust', "team") => ui.err
      BY <1>1, <3>1, SentAdrift
    <3>5. OneOperation(calls', trust', "busy") /\ (trust'["busy"] = "clean" => (ui.busy <=> Held(calls', "busy")))
      BY <1>1, <3>1, <3>2, SentHeld
    <3> QED
      BY <1>1, <2>1, <3>2, <3>3, <3>4, <3>5 DEF TeamCopy
  <2>5. CASE TeamCatch(s)
    <3>1. ui'.team = ui.team /\ ui'.err = TRUE /\ DOMAIN ui' = DOMAIN ui
      BY <1>1, <2>5 DEF TeamCatch
    <3>2. Throw(s)
      BY <2>5 DEF TeamCatch
    <3>3. /\ calls[s].then \notin {"allFramework", "allRules"}
          /\ ui'.busy = IF "busy" \in calls[s].on THEN FALSE ELSE ui.busy
      BY <1>1, <2>5, <3>2, TeamCalls, ThrowIs DEF TeamCatch, Throw, Open
    <3> QED
      BY <1>1, <2>1, <3>1, <3>2, <3>3, ThrowMirrors, ThrowAdrift, ThrowHeld DEF TeamCopy
  <2> QED
    BY <1>7, <2>2, <2>3, <2>4, <2>5 DEF TeamPageContinue
<1> QED
  BY <1>2, <1>3, <1>4, <1>5, <1>6, <1>7 DEF TeamPageNext

LEMMA PlanStep ==
  ASSUME SceneInv, Orderly, PlanCopy, ui.page = "billing", BillingNext
  PROVE  PlanCopy'
<1> "plan" \in DOMAIN trust \ Flags /\ "busy" \in DOMAIN trust \cap Flags
  BY ThingsKnown
<1>1. /\ {"plan", "busy", "away", "loading", "err"} \subseteq DOMAIN ui /\ "plan" \in DOMAIN server
      /\ Mirrors(calls, trust, "plan", ui.plan, server.plan)
      /\ OneOperation(calls, trust, "busy")
      /\ trust["busy"] = "clean" /\ ~ ui.away => (ui.busy # "" <=> Held(calls, "busy"))
  BY DEF PlanCopy
<1>2. CASE BillingMount
  <2>1. Start(Call("read", {"plan"}, "", "refreshPlan")) /\ ui' = ui /\ server' = server
    BY <1>2 DEF BillingMount, RefreshPlan
  <2>2. Mirrors(calls', trust', "plan", ui.plan, server.plan)
    BY <1>1, <2>1, StartMirrors
  <2>3. /\ OneOperation(calls', trust', "busy")
        /\ Held(calls', "busy") <=> Held(calls, "busy")
        /\ trust'["busy"] = "clean" => trust["busy"] = "clean"
    <3> DEFINE on == {"plan"}
    <3>1. Start(Call("read", on, "", "refreshPlan"))
      BY <2>1
    <3>2. "busy" \notin on
      OBVIOUS
    <3> HIDE DEF on
    <3>3. OneOperation(calls, trust, "busy")
      BY <1>1
    <3> QED
      BY <3>1, <3>2, <3>3, StartHeld
  <2> QED
    BY <1>1, <2>1, <2>2, <2>3 DEF PlanCopy
<1>3. CASE BillingOffers
  <2>1. PICK then : Start(Call("write", {"busy"}, "", then))
    BY <1>3 DEF BillingOffers, Upgrade, Manage
  <2>2. server' = server /\ ui'.plan = ui.plan /\ ui'.busy \in {"checkout", "portal"} /\ DOMAIN ui' = DOMAIN ui
    BY <1>1, <1>3 DEF BillingOffers, Upgrade, Manage
  <2>3. Mirrors(calls', trust', "plan", ui'.plan, server'.plan)
    BY <1>1, <2>1, <2>2, StartMirrors
  <2>4. OneOperation(calls', trust', "busy") /\ Held(calls', "busy")
    BY <1>1, <2>1, StartHeld
  <2> QED
    BY <1>1, <2>2, <2>3, <2>4 DEF PlanCopy
<1>4. CASE ComeBack
  <2> DEFINE card == BillingCard(ui.busy = "checkout")
  <2>1. /\ NewDocument(card)
        /\ {"plan", "busy", "away", "loading", "err"} \subseteq DOMAIN card /\ card.busy = ""
    BY <1>4 DEF ComeBack, BillingCard
  <2> HIDE DEF card
  <2>2. /\ ui' = card /\ UNCHANGED server
        /\ \A s \in Slots : "busy" \notin calls'[s].on
    BY <2>1, DocumentCalls
  <2>3. trust'["plan"] = "raced"
    BY <2>1 DEF NewDocument
  <2>4. ~ Held(calls', "busy") /\ OneOperation(calls', trust', "busy")
    BY <2>2 DEF Held, OneOperation
  <2> QED
    BY <1>1, <2>1, <2>2, <2>3, <2>4 DEF PlanCopy, Mirrors
<1>5. CASE SubscriptionChanges
  <2>1. PICK plan : Elsewhere("plan", [plan |-> plan])
    BY <1>5 DEF SubscriptionChanges
  <2>2. /\ UNCHANGED <<ui, calls>> /\ trust'["plan"] = "raced" /\ trust'["busy"] = trust["busy"]
        /\ server' = [plan |-> plan]
    BY <2>1, ElsewhereCopies
  <2>3. Mirrors(calls', trust', "plan", ui'.plan, server'.plan)
    BY <2>2 DEF Mirrors
  <2>4. OneOperation(calls', trust', "busy")
    BY <1>1, <2>2 DEF OneOperation
  <2>5. "plan" \in DOMAIN server'
    BY <2>2
  <2> QED
    BY <1>1, <2>2, <2>3, <2>4, <2>5 DEF PlanCopy
<1>6. ASSUME NEW s \in Slots, BillingServe(s)
      PROVE  PlanCopy'
  <2>1. PICK ans : Serve(s, server, ans) /\ ("plan" \in calls[s].on => ans = server.plan)
    BY <1>6, BillingCalls, ServeIs DEF BillingServe
  <2>2. UNCHANGED <<ui, server>>
    BY <2>1, ServeIs
  <2> QED
    BY <1>1, <2>1, <2>2, ServeMirrors, ServeHeld DEF PlanCopy
<1>7. ASSUME NEW s \in Slots, BillingContinue(s)
      PROVE  PlanCopy'
  <2>1. UNCHANGED server
    BY <1>7 DEF BillingContinue
  <2>2. CASE PlanRefreshed(s)
    <3>1. ui'.plan = calls[s].ans /\ ui'.busy = ui.busy /\ ui'.away = ui.away /\ DOMAIN ui' = DOMAIN ui
      BY <1>1, <2>2 DEF PlanRefreshed
    <3>2. calls[s].do = "read" /\ calls[s].st = "back" /\ calls[s].on = {"plan"}
      BY <2>2, BillingCalls, AnsweredIs DEF PlanRefreshed, Answered
    <3>3. Finish(s)
      BY <2>2 DEF PlanRefreshed
    <3>4. Mirrors(calls', trust', "plan", ui'.plan, server'.plan)
      BY <1>1, <2>1, <3>1, <3>2, <3>3, FinishMirrors
    <3>5. /\ OneOperation(calls', trust', "busy") /\ trust'["busy"] = trust["busy"]
          /\ Held(calls', "busy") <=> Held(calls, "busy")
      BY <1>1, <3>2, <3>3, FinishHeld
    <3> QED
      BY <1>1, <2>1, <3>1, <3>4, <3>5 DEF PlanCopy
  <2>3. CASE SentAway(s)
    <3>1. ui'.plan = ui.plan /\ ui'.away = TRUE /\ DOMAIN ui' = DOMAIN ui
      BY <1>1, <2>3 DEF SentAway
    <3>2. "plan" \notin calls[s].on /\ Finish(s)
      BY <2>3, BillingCalls, AnsweredIs DEF SentAway
    <3>3. Mirrors(calls', trust', "plan", ui'.plan, server'.plan)
      BY <1>1, <2>1, <3>1, <3>2, FinishMirrors
    <3>4. OneOperation(calls', trust', "busy")
      BY <1>1, <3>2, FinishHeld
    <3> QED
      BY <1>1, <2>1, <3>1, <3>3, <3>4 DEF PlanCopy
  <2>4. CASE BillingCatch(s)
    <3>1. ui'.plan = ui.plan /\ ui'.away = ui.away /\ DOMAIN ui' = DOMAIN ui
      BY <1>1, <2>4 DEF BillingCatch
    <3>2. Throw(s)
      BY <2>4 DEF BillingCatch
    <3>3. calls[s].then \in {"refreshPlan", "upgrade", "manage"} /\ calls[s].st # "late"
      BY <2>4 DEF BillingCatch, Throw, Open
    <3>4. "busy" \in calls[s].on <=> calls[s].then # "refreshPlan"
      BY <3>2, <3>3, BillingCalls, ThrowIs
    <3>5. ui'.busy = IF "busy" \in calls[s].on THEN "" ELSE ui.busy
      BY <1>1, <2>4, <3>4 DEF BillingCatch
    <3>6. Mirrors(calls', trust', "plan", ui'.plan, server'.plan)
      BY <1>1, <2>1, <3>1, <3>2, ThrowMirrors
    <3>7. /\ OneOperation(calls', trust', "busy") /\ trust'["busy"] = trust["busy"]
          /\ "busy" \notin calls[s].on => (Held(calls', "busy") <=> Held(calls, "busy"))
          /\ trust["busy"] = "clean" /\ "busy" \in calls[s].on => ~ Held(calls', "busy")
      BY <1>1, <3>2, <3>3, ThrowHeld
    <3> QED
      BY <1>1, <2>1, <3>1, <3>5, <3>6, <3>7 DEF PlanCopy
  <2> QED
    BY <1>7, <2>2, <2>3, <2>4 DEF BillingContinue
<1> QED
  BY <1>2, <1>3, <1>4, <1>5, <1>6, <1>7 DEF BillingNext
------------------------------------------------------------------------------
(***************************************************************************)
(* The trend, the session of the browser, and the forms of the sign-in.    *)
(***************************************************************************)
TrendCopy ==
  ui.page = "insights" =>
    /\ {"days", "data", "hover", "err"} \subseteq DOMAIN ui
    /\ Follows(calls, trust, "trend", ui.data, ui.days)
    /\ Echoes(calls, "trend")
    /\ Adrift(calls, trust, "trend") => ui.err

SessionCopy ==
  ui.page = "session" =>
    /\ {"token", "loading", "unsure"} \subseteq DOMAIN ui /\ {"session", "orgs"} \subseteq DOMAIN server
    /\ Follows(calls, trust, "session", ui.token, server.session)

FormBusy ==
  ui.page \in {"login", "reset"} =>
    /\ {"busy", "err"} \subseteq DOMAIN ui
    /\ OneOperation(calls, trust, "busy") /\ (trust["busy"] = "clean" => (ui.busy <=> Held(calls, "busy")))

LEMMA TrendStep ==
  ASSUME SceneInv, Orderly, TrendCopy, ui.page = "insights", InsightsNext
  PROVE  TrendCopy'
<1> "trend" \in DOMAIN trust \ Flags
  BY ThingsKnown
<1>1. /\ {"days", "data", "hover", "err"} \subseteq DOMAIN ui
      /\ Follows(calls, trust, "trend", ui.data, ui.days)
      /\ Echoes(calls, "trend")
      /\ Adrift(calls, trust, "trend") => ui.err
  BY DEF TrendCopy
<1>2. CASE InsightsMount
  <2>1. Start(Call("read", {"trend"}, ui.days, "refreshTrend")) /\ ui' = ui
    BY <1>2 DEF InsightsMount, RefreshTrend
  <2> QED
    BY <1>1, <2>1, StartFollows, StartEchoes, StartAdrift DEF TrendCopy
<1>3. CASE InsightsOffers
  <2>1. ASSUME NEW d \in Ranges, ChooseRange(d)
        PROVE  TrendCopy'
    <3>1. Start(Call("read", {"trend"}, d, "refreshTrend"))
      BY <2>1 DEF ChooseRange, RefreshTrend
    <3>2. ui'.days = d /\ ui'.err = ui.err /\ DOMAIN ui' = DOMAIN ui
      BY <1>1, <2>1 DEF ChooseRange
    <3> QED
      BY <1>1, <3>1, <3>2, StartFollows, StartEchoes, StartAdrift DEF TrendCopy
  <2>2. ASSUME NEW i, Hover(i)
        PROVE  TrendCopy'
    <3>1. /\ ui'.days = ui.days /\ ui'.data = ui.data /\ ui'.err = ui.err /\ DOMAIN ui' = DOMAIN ui
          /\ UNCHANGED <<calls, trust>>
      BY <1>1, <2>2 DEF Hover
    <3> QED
      BY <1>1, <3>1 DEF TrendCopy
  <2> QED
    BY <1>3, <2>1, <2>2 DEF InsightsOffers
<1>4. CASE Reload
  <2> DEFINE card == TrendCard
  <2>1. NewDocument(card) /\ {"days", "data", "hover", "err"} \subseteq DOMAIN card
    BY <1>4 DEF Reload, TrendCard
  <2> HIDE DEF card
  <2>2. /\ ui' = card /\ trust'["trend"] = "raced"
        /\ \A s \in Slots : calls'[s] = GivenUp(calls[s])
    BY <2>1 DEF NewDocument
  <2>3. \A s \in Slots : calls'[s].st # "back"
    BY <2>2, GivenUpFields, FreeFields
  <2> QED
    BY <2>1, <2>2, <2>3 DEF TrendCopy, Follows, Echoes, Adrift
<1>5. ASSUME NEW s \in Slots, InsightsServe(s)
      PROVE  TrendCopy'
  <2>1. Serve(s, server, calls[s].arg)
    BY <1>5 DEF InsightsServe
  <2>2. UNCHANGED ui
    BY <2>1, ServeIs
  <2>3. Echoes(calls', "trend")
    BY <1>1, <2>1, ServeEchoes
  <2>4. Follows(calls', trust', "trend", ui.data, ui.days)
    BY <1>1, <2>1, ServeFollows
  <2> QED
    BY <1>1, <2>1, <2>2, <2>3, <2>4, ServeAdrift DEF TrendCopy
<1>6. ASSUME NEW s \in Slots, InsightsContinue(s)
      PROVE  TrendCopy'
  <2>1. CASE TrendRefreshed(s)
    <3>1. /\ ui'.data = calls[s].ans /\ ui'.days = ui.days /\ ui'.err = ui.err /\ DOMAIN ui' = DOMAIN ui
          /\ Finish(s)
      BY <1>1, <2>1 DEF TrendRefreshed
    <3>2. calls[s].do = "read" /\ calls[s].st = "back" /\ calls[s].on = {"trend"}
      BY <2>1, InsightsCalls, AnsweredIs DEF TrendRefreshed, Answered
    <3>3. calls[s].ans = calls[s].arg
      BY <1>1, <3>2 DEF Echoes
    <3>4. Follows(calls', trust', "trend", ui'.data, ui.days)
      BY <1>1, <3>1, <3>2, <3>3, FinishFollows
    <3> QED
      BY <1>1, <3>1, <3>2, <3>4, FinishAdrift, EndEchoes DEF TrendCopy
  <2>2. CASE InsightsCatch(s)
    <3>1. /\ ui'.data = ui.data /\ ui'.days = ui.days /\ ui'.err = TRUE /\ DOMAIN ui' = DOMAIN ui
          /\ Throw(s)
      BY <1>1, <2>2 DEF InsightsCatch
    <3> QED
      BY <1>1, <3>1, ThrowFollows, EndEchoes DEF TrendCopy
  <2> QED
    BY <1>6, <2>1, <2>2 DEF InsightsContinue
<1> QED
  BY <1>2, <1>3, <1>4, <1>5, <1>6 DEF InsightsNext

LEMMA SessionStep ==
  ASSUME SceneInv, Orderly, SessionCopy, ui.page = "session", SignInNext
  PROVE  SessionCopy'
<1> "session" \in DOMAIN trust \ Flags
  BY ThingsKnown
<1>1. /\ {"token", "loading", "unsure"} \subseteq DOMAIN ui /\ {"session", "orgs"} \subseteq DOMAIN server
      /\ Follows(calls, trust, "session", ui.token, server.session)
  BY DEF SessionCopy
<1>2. ASSUME NEW u, Apply(u)
      PROVE  /\ {"token", "loading", "unsure"} \subseteq DOMAIN ui'
             /\ Follows(calls', trust', "session", ui'.token, u)
  <2>1. CASE u = "none"
    <3>1. calls' = calls /\ trust' = [trust EXCEPT !["session"] = IF Quiet("session") THEN "clean" ELSE "raced"]
      BY <1>2, <2>1 DEF Apply
    <3>2. ui'.token = "none" /\ DOMAIN ui' = DOMAIN ui
      BY <1>1, <1>2, <2>1 DEF Apply
    <3>3. trust'["session"] = "clean" => Quiet("session")
      BY <3>1
    <3>4. Quiet("session") => \A s \in Slots : "session" \notin calls'[s].on
      BY <3>1, VacantIsNowhere DEF Quiet
    <3> QED
      BY <1>1, <2>1, <3>2, <3>3, <3>4 DEF Follows
  <2>2. CASE u # "none"
    <3>1. Start(Call("read", {"session"}, u, "ensureOrg")) /\ UNCHANGED ui
      BY <1>2, <2>2 DEF Apply
    <3> QED
      BY <1>1, <3>1, StartFollows
  <2> QED
    BY <2>1, <2>2
<1>3. CASE SessionMount
  <2>1. Apply(server.session) /\ server' = server
    BY <1>3 DEF SessionMount
  <2> QED
    BY <1>1, <1>2, <2>1 DEF SessionCopy
<1>4. CASE AuthEvent
  <2>1. PICK u : server' = [server EXCEPT !.session = u] /\ Apply(u)
    BY <1>4 DEF AuthEvent
  <2>2. server'.session = u /\ DOMAIN server' = DOMAIN server
    BY <1>1, <2>1
  <2> QED
    BY <1>1, <1>2, <2>1, <2>2 DEF SessionCopy
<1>5. CASE OrgMadeLate
  <2>1. UNCHANGED <<ui, calls, trust>> /\ server'.session = server.session /\ DOMAIN server' = DOMAIN server
    BY <1>1, <1>5 DEF OrgMadeLate
  <2> QED
    BY <1>1, <2>1 DEF SessionCopy
<1>6. ASSUME NEW s \in Slots, SignInServe(s)
      PROVE  SessionCopy'
  <2>1. Serve(s, [server EXCEPT !.orgs = @ \cup {calls[s].arg}], "")
    BY <1>6, SignInCalls, ServeIs DEF SignInServe
  <2>2. UNCHANGED ui /\ server'.session = server.session /\ DOMAIN server' = DOMAIN server
    <3>1. UNCHANGED ui /\ server' = [server EXCEPT !.orgs = @ \cup {calls[s].arg}]
      BY <2>1 DEF Serve
    <3> QED
      BY <1>1, <3>1
  <2>3. Follows(calls', trust', "session", ui.token, server.session)
    BY <1>1, <2>1, ServeFollows
  <2> QED
    BY <1>1, <2>2, <2>3 DEF SessionCopy
<1>7. ASSUME NEW s \in Slots, SignInContinue(s)
      PROVE  SessionCopy'
  <2>1. OrgEnsured(s) /\ UNCHANGED server
    BY <1>7, SignInCalls, AnsweredIs, OpenIs, ThrowIs
       DEF SignInContinue, Submitted, LoginCatch, Exchanged, PasswordUpdated, ResetCatch
  <2>2. ui'.token = calls[s].arg /\ DOMAIN ui' = DOMAIN ui /\ Finish(s)
    BY <1>1, <2>1 DEF OrgEnsured
  <2>3. "session" \in calls[s].on
    BY <2>1, SignInCalls, OpenIs DEF OrgEnsured
  <2>4. Follows(calls', trust', "session", ui'.token, server.session)
    BY <1>1, <2>2, <2>3, FinishFollows
  <2> QED
    BY <1>1, <2>1, <2>2, <2>4 DEF SessionCopy
<1> QED
  BY <1>3, <1>4, <1>5, <1>6, <1>7
     DEF SignInNext, LoginOffers, BackToLogin, LinkMount, CallbackTimeout, LinkSession, NewPassword

LEMMA FormStep ==
  ASSUME SceneInv, FormBusy, ui.page \in {"login", "reset"}, SignInNext
  PROVE  FormBusy'
<1> "busy" \in DOMAIN trust \cap Flags
  BY ThingsKnown
<1>1. /\ {"busy", "err"} \subseteq DOMAIN ui
      /\ OneOperation(calls, trust, "busy") /\ (trust["busy"] = "clean" => (ui.busy <=> Held(calls, "busy")))
  BY DEF FormBusy
<1>2. ASSUME ui'.busy = ui.busy, DOMAIN ui' = DOMAIN ui, UNCHANGED <<calls, trust>>
      PROVE  FormBusy'
  BY <1>1, <1>2 DEF FormBusy
<1>3. ASSUME ui'.busy = TRUE, DOMAIN ui' = DOMAIN ui, NEW arg, NEW then, Start(Call("write", {"busy"}, arg, then))
      PROVE  FormBusy'
  BY <1>1, <1>3, StartHeld DEF FormBusy
<1>4. CASE LoginOffers
  <2>1. CASE ui.sent
    <3>1. ui'.busy = ui.busy /\ DOMAIN ui' = DOMAIN ui /\ UNCHANGED <<calls, trust>>
      BY <1>1, <1>4, <2>1 DEF LoginOffers
    <3> QED
      BY <1>2, <3>1
  <2>2. CASE Submit
    <3>1. PICK arg : Start(Call("write", {"busy"}, arg, "submit"))
      BY <2>2 DEF Submit
    <3>2. ui'.busy = TRUE /\ DOMAIN ui' = DOMAIN ui
      BY <1>1, <2>2 DEF Submit
    <3> QED
      BY <1>3, <3>1, <3>2
  <2>3. ASSUME NEW u, SetEmail(u)
        PROVE  FormBusy'
    <3>1. ui'.busy = ui.busy /\ DOMAIN ui' = DOMAIN ui /\ UNCHANGED <<calls, trust>>
      BY <1>1, <2>3 DEF SetEmail
    <3> QED
      BY <1>2, <3>1
  <2>4. ASSUME NEW m, SetMode(m)
        PROVE  FormBusy'
    <3>1. ui'.busy = ui.busy /\ DOMAIN ui' = DOMAIN ui /\ UNCHANGED <<calls, trust>>
      BY <1>1, <2>4 DEF SetMode
    <3> QED
      BY <1>2, <3>1
  <2> QED
    BY <1>4, <2>1, <2>2, <2>3, <2>4 DEF LoginOffers
<1>5. CASE BackToLogin
  <2>1. PICK u : NewDocument(LoginForm(u))
    BY <1>5 DEF BackToLogin
  <2> DEFINE card == LoginForm(u)
  <2>2. {"busy", "err"} \subseteq DOMAIN card /\ card.busy = FALSE
    BY DEF LoginForm
  <2>3. NewDocument(card)
    BY <2>1
  <2> HIDE DEF card
  <2>4. ui' = card /\ \A s \in Slots : "busy" \notin calls'[s].on
    BY <2>3, DocumentCalls
  <2>5. ~ Held(calls', "busy") /\ OneOperation(calls', trust', "busy")
    BY <2>4 DEF Held, OneOperation
  <2> QED
    BY <2>2, <2>4, <2>5 DEF FormBusy
<1>6. CASE LinkMount
  <2>1. CASE Start(Exchange) /\ ui' = [ui EXCEPT !.link = "read"]
    <3>1. Start(Call("read", {}, "", "exchange"))
      BY <2>1 DEF Exchange
    <3>2. ui'.busy = ui.busy /\ DOMAIN ui' = DOMAIN ui
      BY <1>1, <2>1
    <3>3. /\ OneOperation(calls', trust', "busy")
          /\ Held(calls', "busy") <=> Held(calls, "busy")
          /\ trust'["busy"] = "clean" => trust["busy"] = "clean"
      <4> DEFINE on == {}
      <4>1. Start(Call("read", on, "", "exchange")) /\ "busy" \notin on
        BY <3>1
      <4> HIDE DEF on
      <4>2. OneOperation(calls, trust, "busy")
        BY <1>1
      <4> QED
        BY <4>1, <4>2, StartHeld
    <3> QED
      BY <1>1, <3>2, <3>3 DEF FormBusy
  <2>2. CASE /\ ui' = AfterGetSession([ui EXCEPT !.link = "read"], server.session # "none")
             /\ UNCHANGED <<calls, trust>>
    <3>1. ui'.busy = ui.busy /\ DOMAIN ui' = DOMAIN ui
      BY <1>1, <2>2 DEF AfterGetSession
    <3> QED
      BY <1>2, <2>2, <3>1
  <2> QED
    BY <1>6, <2>1, <2>2 DEF LinkMount
<1>7. CASE LinkSession
  <2>1. ui'.busy = ui.busy /\ DOMAIN ui' = DOMAIN ui /\ UNCHANGED <<calls, trust>>
    BY <1>1, <1>7 DEF LinkSession
  <2> QED
    BY <1>2, <2>1
<1>8. CASE NewPassword
  <2>1. Start(Call("write", {"busy"}, "", "updateUser"))
    BY <1>8 DEF NewPassword
  <2>2. ui'.busy = TRUE /\ DOMAIN ui' = DOMAIN ui
    BY <1>1, <1>8 DEF NewPassword
  <2> QED
    BY <1>3, <2>1, <2>2
<1>9. ASSUME NEW s \in Slots, SignInServe(s)
      PROVE  FormBusy'
  <2>1. PICK new, ans : Serve(s, new, ans)
    BY <1>9 DEF SignInServe
  <2>2. UNCHANGED ui
    BY <2>1, ServeIs
  <2> QED
    BY <1>1, <2>1, <2>2, ServeHeld DEF FormBusy
<1>10. ASSUME NEW s \in Slots, SignInContinue(s)
       PROVE  FormBusy'
  <2>1. CASE Submitted(s) \/ PasswordUpdated(s)
    <3>1. ui'.busy = FALSE /\ DOMAIN ui' = DOMAIN ui /\ Finish(s)
      BY <1>1, <2>1 DEF Submitted, PasswordUpdated
    <3>2. "busy" \in calls[s].on /\ calls[s].then \notin {"allFramework", "allRules"}
      BY <2>1, SignInCalls, AnsweredIs DEF Submitted, PasswordUpdated, Answered
    <3> QED
      BY <1>1, <3>1, <3>2, FinishHeld DEF FormBusy
  <2>2. CASE LoginCatch(s) \/ ResetCatch(s)
    <3>1. ui'.busy = FALSE /\ DOMAIN ui' = DOMAIN ui /\ Throw(s)
      BY <1>1, <2>2 DEF LoginCatch, ResetCatch
    <3>2. "busy" \in calls[s].on /\ calls[s].then \notin {"allFramework", "allRules"}
      BY <2>2, <3>1, SignInCalls, ThrowIs DEF LoginCatch, ResetCatch, Throw, Open
    <3> QED
      BY <1>1, <3>1, <3>2, ThrowHeld DEF FormBusy
  <2>3. CASE Exchanged(s)
    <3>1. ui'.busy = ui.busy /\ DOMAIN ui' = DOMAIN ui /\ Finish(s)
      BY <1>1, <2>3 DEF Exchanged, AfterGetSession
    <3>2. "busy" \notin calls[s].on
      BY <2>3, SignInCalls, OpenIs DEF Exchanged
    <3> QED
      BY <1>1, <3>1, <3>2, FinishHeld DEF FormBusy
  <2>4. ~ OrgEnsured(s)
    BY SignInCalls, OpenIs DEF OrgEnsured
  <2> QED
    BY <1>10, <2>1, <2>2, <2>3, <2>4 DEF SignInContinue
<1> QED
  BY <1>4, <1>5, <1>6, <1>7, <1>8, <1>9, <1>10
     DEF SignInNext, SessionMount, AuthEvent, OrgMadeLate, CallbackTimeout
------------------------------------------------------------------------------
(***************************************************************************)
(* The policy card.  Its rules are read with the framework and without it, *)
(* and the change of the framework ends with two reads at once.            *)
(***************************************************************************)
FrameworkKept ==
  /\ Mirrors(calls, trust, "framework", ui.framework, server.framework)
  /\ Adrift(calls, trust, "framework") => ui.frameworkErr

RulesKept ==
  /\ Mirrors(calls, trust, "rules", ui.rules, GetRules)
  /\ Adrift(calls, trust, "rules") => ui.ruleErr \/ ui.frameworkErr

FrameworkFlag ==
  /\ OneOperation(calls, trust, "frameworkBusy")
  /\ trust["frameworkBusy"] = "clean" => (ui.frameworkBusy <=> Held(calls, "frameworkBusy"))

RuleFlag ==
  /\ OneOperation(calls, trust, "ruleBusy")
  /\ trust["ruleBusy"] = "clean" => (ui.ruleBusy <=> Held(calls, "ruleBusy"))

PolicyParts ==
  /\ {"framework", "rules", "ruleBusy", "ruleErr", "frameworkBusy", "frameworkErr"} \subseteq DOMAIN ui
  /\ {"framework", "custom"} \subseteq DOMAIN server
  /\ FrameworkKept /\ RulesKept /\ FrameworkFlag /\ RuleFlag

PolicyCopy == ui.page = "policy" => PolicyParts

LEMMA PolicyThings ==
  ASSUME SceneInv, ui.page = "policy"
  PROVE  /\ "framework" \in DOMAIN trust \ Flags /\ "rules" \in DOMAIN trust \ Flags
         /\ "frameworkBusy" \in DOMAIN trust \cap Flags /\ "ruleBusy" \in DOMAIN trust \cap Flags
BY ThingsKnown

\* A handler starts: it takes a message away only with a write to what the message is about.
LEMMA PolicyStart ==
  ASSUME SceneInv, Orderly, PolicyParts, ui.page = "policy",
         NEW do, NEW on, NEW arg, NEW then, Start(Call(do, on, arg, then)), UNCHANGED server,
         DOMAIN ui' = DOMAIN ui, ui'.framework = ui.framework, ui'.rules = ui.rules,
         ui'.frameworkErr = ui.frameworkErr \/ (do = "write" /\ {"framework", "rules"} \subseteq on),
         ui'.ruleErr = ui.ruleErr \/ (do = "write" /\ "rules" \in on),
         IF "frameworkBusy" \in on THEN ui'.frameworkBusy = TRUE ELSE ui'.frameworkBusy = ui.frameworkBusy,
         IF "ruleBusy" \in on THEN ui'.ruleBusy = TRUE ELSE ui'.ruleBusy = ui.ruleBusy
  PROVE  PolicyParts'
<1> /\ "framework" \in DOMAIN trust \ Flags /\ "rules" \in DOMAIN trust \ Flags
    /\ "frameworkBusy" \in DOMAIN trust \cap Flags /\ "ruleBusy" \in DOMAIN trust \cap Flags
  BY PolicyThings
<1>1. Mirrors(calls', trust', "framework", ui.framework, server.framework)
  BY StartMirrors DEF PolicyParts, FrameworkKept
<1>2. Mirrors(calls', trust', "rules", ui.rules, GetRules)
  BY StartMirrors DEF PolicyParts, RulesKept
<1>3. Adrift(calls', trust', "framework") => ui'.frameworkErr
  <2>1. Adrift(calls', trust', "framework") =>
          Adrift(calls, trust, "framework") /\ ~ (do = "write" /\ "framework" \in on)
    BY StartAdrift
  <2> QED
    BY <2>1 DEF PolicyParts, FrameworkKept
<1>4. Adrift(calls', trust', "rules") => ui'.ruleErr \/ ui'.frameworkErr
  <2>1. Adrift(calls', trust', "rules") =>
          Adrift(calls, trust, "rules") /\ ~ (do = "write" /\ "rules" \in on)
    BY StartAdrift
  <2> QED
    BY <2>1 DEF PolicyParts, RulesKept
<1>5. FrameworkFlag'
  <2>1. /\ OneOperation(calls', trust', "frameworkBusy")
        /\ "frameworkBusy" \in on => Held(calls', "frameworkBusy")
        /\ "frameworkBusy" \notin on => (Held(calls', "frameworkBusy") <=> Held(calls, "frameworkBusy"))
        /\ trust'["frameworkBusy"] = "clean" /\ "frameworkBusy" \notin on => trust["frameworkBusy"] = "clean"
    BY StartHeld DEF PolicyParts, FrameworkFlag
  <2> QED
    BY <2>1 DEF PolicyParts, FrameworkFlag
<1>6. RuleFlag'
  <2>1. /\ OneOperation(calls', trust', "ruleBusy")
        /\ "ruleBusy" \in on => Held(calls', "ruleBusy")
        /\ "ruleBusy" \notin on => (Held(calls', "ruleBusy") <=> Held(calls, "ruleBusy"))
        /\ trust'["ruleBusy"] = "clean" /\ "ruleBusy" \notin on => trust["ruleBusy"] = "clean"
    BY StartHeld DEF PolicyParts, RuleFlag
  <2> QED
    BY <2>1 DEF PolicyParts, RuleFlag
<1>7. GetRules' = GetRules
  BY DEF GetRules
<1> QED
  BY <1>1, <1>2, <1>3, <1>4, <1>5, <1>6, <1>7 DEF PolicyParts, FrameworkKept, RulesKept

\* A write is answered, and the page reads what it is about.
LEMMA PolicySent ==
  ASSUME SceneInv, Orderly, PolicyParts, ui.page = "policy", NEW s \in Slots, ~ Vacant(s),
         NEW on, NEW arg, NEW then, SendFrom(trust, At(s, Call("read", on, arg, then))), UNCHANGED <<ui, server>>,
         on = calls[s].on
  PROVE  PolicyParts'
<1> /\ "framework" \in DOMAIN trust \ Flags /\ "rules" \in DOMAIN trust \ Flags
    /\ "frameworkBusy" \in DOMAIN trust \cap Flags /\ "ruleBusy" \in DOMAIN trust \cap Flags
  BY PolicyThings
<1>1. Mirrors(calls', trust', "framework", ui.framework, server.framework)
  BY SentMirrors DEF PolicyParts, FrameworkKept
<1>2. Mirrors(calls', trust', "rules", ui.rules, GetRules)
  BY SentMirrors DEF PolicyParts, RulesKept
<1>3. Adrift(calls', trust', "framework") => ui.frameworkErr
  BY SentAdrift DEF PolicyParts, FrameworkKept
<1>4. Adrift(calls', trust', "rules") => ui.ruleErr \/ ui.frameworkErr
  BY SentAdrift DEF PolicyParts, RulesKept
<1>5. FrameworkFlag'
  <2>1. /\ OneOperation(calls', trust', "frameworkBusy")
        /\ "frameworkBusy" \in on => Held(calls', "frameworkBusy")
        /\ "frameworkBusy" \notin on => (Held(calls', "frameworkBusy") <=> Held(calls, "frameworkBusy"))
        /\ trust'["frameworkBusy"] = "clean" => trust["frameworkBusy"] = "clean"
    BY SentHeld DEF PolicyParts, FrameworkFlag
  <2>2. "frameworkBusy" \in on => Held(calls, "frameworkBusy")
    BY DEF Held
  <2> QED
    BY <2>1, <2>2 DEF PolicyParts, FrameworkFlag
<1>6. RuleFlag'
  <2>1. /\ OneOperation(calls', trust', "ruleBusy")
        /\ "ruleBusy" \in on => Held(calls', "ruleBusy")
        /\ "ruleBusy" \notin on => (Held(calls', "ruleBusy") <=> Held(calls, "ruleBusy"))
        /\ trust'["ruleBusy"] = "clean" => trust["ruleBusy"] = "clean"
    BY SentHeld DEF PolicyParts, RuleFlag
  <2>2. "ruleBusy" \in on => Held(calls, "ruleBusy")
    BY DEF Held
  <2> QED
    BY <2>1, <2>2 DEF PolicyParts, RuleFlag
<1>7. GetRules' = GetRules
  BY DEF GetRules
<1> QED
  BY <1>1, <1>2, <1>3, <1>4, <1>5, <1>6, <1>7 DEF PolicyParts, FrameworkKept, RulesKept
------------------------------------------------------------------------------
\* The change of the framework is stored: both are read, in two calls at once.
LEMMA FrameworkChangedParts ==
  ASSUME SceneInv, Orderly, PolicyParts, ui.page = "policy", NEW s \in Slots, FrameworkChanged(s), UNCHANGED server
  PROVE  PolicyParts'
<1> /\ "framework" \in DOMAIN trust \ Flags /\ "rules" \in DOMAIN trust \ Flags
    /\ "frameworkBusy" \in DOMAIN trust \cap Flags /\ "ruleBusy" \in DOMAIN trust \cap Flags
  BY PolicyThings
<1> DEFINE one == Call("read", {"framework", "frameworkBusy"}, "", "allFramework")
           two == Call("read", {"rules", "frameworkBusy"}, "", "allRules")
<1>1. PICK t \in Slots \ {s} : Vacant(t) /\ Send([o \in {s, t} |-> IF o = s THEN one ELSE two])
  BY DEF FrameworkChanged
<1> DEFINE new == [o \in {s, t} |-> IF o = s THEN one ELSE two]
<1>2. /\ one.st = "out" /\ one.do = "read" /\ one.then = "allFramework"
      /\ two.st = "out" /\ two.do = "read" /\ two.then = "allRules"
  BY DEF Call
<1>3. /\ "framework" \in one.on /\ "rules" \notin one.on /\ "frameworkBusy" \in one.on /\ "ruleBusy" \notin one.on
      /\ "framework" \notin two.on /\ "rules" \in two.on /\ "frameworkBusy" \in two.on /\ "ruleBusy" \notin two.on
  BY DEF Call
<1>4. /\ calls[s].do = "write" /\ "framework" \in calls[s].on /\ "rules" \in calls[s].on
      /\ "frameworkBusy" \in calls[s].on /\ "ruleBusy" \notin calls[s].on
  <2>1. calls[s].then = "changeFramework" /\ calls[s].st = "back"
    BY DEF FrameworkChanged, Answered
  <2>2. calls[s].do = "write" /\ calls[s].on = {"framework", "rules", "frameworkBusy"}
    BY <2>1, PolicyCalls DEF Vacant
  <2> QED
    BY <2>2
<1>5. calls[t].on = {} /\ calls[t].do = "none"
  BY <1>1, VacantIsNowhere
<1> HIDE DEF one, two
<1>6. DOMAIN new = {s, t} /\ new[s] = one /\ new[t] = two
  BY <1>1
<1>7. SendFrom(trust, new)
  BY <1>1 DEF Send
<1> HIDE DEF new
<1>8. /\ \A o \in Slots \ {s, t} : calls'[o] = calls[o]
      /\ calls'[s] = one /\ calls'[t] = two
  BY <1>6, <1>7 DEF SendFrom
<1>9. ASSUME NEW r \in DOMAIN trust, trust'[r] = "clean"
      PROVE  /\ \A q \in {s, t}, o \in Slots \ {s, t} : ~ Competes(new[q], calls[o], r)
             /\ \/ trust[r] = "clean"
                \/ /\ \A o \in Slots \ {s, t} : r \notin calls[o].on
                   /\ \A q \in {s, t} : ~ (r \in calls[q].on /\ (r \in Flags \/ calls[q].do = "read"))
                   /\ \E q \in {s, t} : r \in new[q].on
  BY <1>6, <1>7, <1>9, SendKnown
<1>10. ASSUME NEW r \in {"framework", "rules"}, trust'[r] = "failed"
       PROVE  trust[r] = "failed" /\ \E o \in Slots \ {s, t} : r \in calls[o].on
  <2>1. ~ /\ \A o \in Slots \ {s, t} : r \notin calls[o].on
          /\ \A q \in {s, t} : ~ (r \in calls[q].on /\ (r \in Flags \/ calls[q].do = "read"))
          /\ \E q \in {s, t} : r \in new[q].on /\ (new[q].do = "read" \/ r \in Flags)
    BY <1>6, <1>7, <1>10, VacantIsNowhere DEF SendFrom
  <2>2. trust[r] = "failed"
    BY <1>7, <1>10 DEF SendFrom
  <2> QED
    BY <1>2, <1>3, <1>4, <1>5, <1>6, <2>1, <2>2
<1>11. UNCHANGED ui /\ GetRules' = GetRules
  BY DEF FrameworkChanged, GetRules
<1>12. ASSUME NEW r \in {"framework", "rules"}, NEW shown, NEW stored, Mirrors(calls, trust, r, shown, stored)
       PROVE  Mirrors(calls', trust', r, shown, stored)
  <2>1. \E q \in Slots : r \in calls'[q].on
    BY <1>3, <1>8
  <2>2. ASSUME trust'[r] = "clean", NEW o \in Slots, r \in calls'[o].on, calls'[o].do = "read", calls'[o].st = "back"
        PROVE  calls'[o].ans = stored
    <3>1. o \in Slots \ {s, t} /\ calls'[o] = calls[o]
      BY <1>2, <1>8, <2>2
    <3>2. trust[r] = "clean"
      BY <1>9, <2>2, <3>1
    <3> QED
      BY <1>12, <2>2, <3>1, <3>2 DEF Mirrors
  <2> QED
    BY <2>1, <2>2 DEF Mirrors
<1>13. ASSUME NEW r \in {"framework", "rules"}, Adrift(calls', trust', r)
       PROVE  Adrift(calls, trust, r)
  <2>1. trust[r] = "failed" /\ \E o \in Slots \ {s, t} : r \in calls[o].on
    BY <1>10, <1>13 DEF Adrift
  <2>2. \A q \in Slots : ~ SoleWrite(calls, q, r)
    BY <1>4, <1>5, <2>1 DEF SoleWrite
  <2> QED
    BY <2>1, <2>2 DEF Adrift
<1>14. FrameworkKept'
  BY <1>11, <1>12, <1>13 DEF PolicyParts, FrameworkKept
<1>15. RulesKept'
  BY <1>11, <1>12, <1>13 DEF PolicyParts, RulesKept
<1>16. FrameworkFlag'
  <2>1. trust'["frameworkBusy"] = "clean" =>
          /\ \A o \in Slots \ {s, t} : "frameworkBusy" \notin calls[o].on
          /\ trust["frameworkBusy"] = "clean"
    BY <1>3, <1>4, <1>6, <1>9 DEF Competes
  <2>2. Held(calls', "frameworkBusy") /\ Held(calls, "frameworkBusy")
    BY <1>3, <1>4, <1>8 DEF Held
  <2>3. OneOperation(calls', trust', "frameworkBusy")
    BY <1>2, <1>8, <2>1 DEF OneOperation, Both
  <2> QED
    BY <1>11, <2>1, <2>2, <2>3 DEF PolicyParts, FrameworkFlag
<1>17. RuleFlag'
  <2>1. trust'["ruleBusy"] = "clean" => trust["ruleBusy"] = "clean"
    BY <1>3, <1>6, <1>9
  <2>2. \A o \in Slots : /\ "ruleBusy" \in calls'[o].on <=> "ruleBusy" \in calls[o].on
                         /\ "ruleBusy" \in calls[o].on => calls'[o] = calls[o]
    BY <1>3, <1>4, <1>5, <1>8
  <2>3. Held(calls', "ruleBusy") <=> Held(calls, "ruleBusy")
    BY <2>2 DEF Held
  <2>4. OneOperation(calls', trust', "ruleBusy")
    BY <2>1, <2>2 DEF OneOperation, PolicyParts, RuleFlag
  <2> QED
    BY <1>11, <2>1, <2>3, <2>4 DEF PolicyParts, RuleFlag
<1> QED
  BY <1>11, <1>14, <1>15, <1>16, <1>17 DEF PolicyParts

\* The server's part.
LEMMA PolicyServeParts ==
  ASSUME SceneInv, Orderly, PolicyParts, ui.page = "policy", NEW s \in Slots, SettingsServe(s)
  PROVE  PolicyParts'
<1> /\ "framework" \in DOMAIN trust \ Flags /\ "rules" \in DOMAIN trust \ Flags
    /\ "frameworkBusy" \in DOMAIN trust \cap Flags /\ "ruleBusy" \in DOMAIN trust \cap Flags
  BY PolicyThings
<1>1. ~ Vacant(s)
  BY ServeIs DEF SettingsServe
<1>2. PICK new, ans :
        /\ Serve(s, new, ans)
        /\ \/ /\ new = server
              /\ "framework" \in calls[s].on /\ calls[s].do = "read" => ans = server.framework
              /\ "rules" \in calls[s].on /\ calls[s].do = "read" => ans = GetRules
           \/ /\ new = [server EXCEPT !.framework = calls[s].arg]
              /\ calls[s].do = "write" /\ "framework" \in calls[s].on /\ "rules" \in calls[s].on
           \/ /\ \E custom : new = [server EXCEPT !.custom = custom]
              /\ calls[s].do = "write" /\ "rules" \in calls[s].on
  <2>1. CASE calls[s].then \in {"refreshRules", "readRules", "allRules"}
    <3>1. Serve(s, server, GetRules)
      BY <2>1 DEF SettingsServe
    <3>2. "framework" \notin calls[s].on
      BY <1>1, <2>1, PolicyCalls
    <3> QED
      BY <3>1, <3>2
  <2>2. CASE calls[s].then \in {"refreshFramework", "allFramework"}
    <3>1. Serve(s, server, server.framework)
      BY <2>2 DEF SettingsServe
    <3>2. "rules" \notin calls[s].on
      BY <1>1, <2>2, PolicyCalls
    <3> QED
      BY <3>1, <3>2
  <2>3. CASE calls[s].then = "changeFramework"
    <3>1. Serve(s, [server EXCEPT !.framework = calls[s].arg], "")
      BY <2>3 DEF SettingsServe
    <3>2. calls[s].do = "write" /\ "framework" \in calls[s].on /\ "rules" \in calls[s].on
      BY <1>1, <2>3, PolicyCalls
    <3> QED
      BY <3>1, <3>2
  <2>4. CASE calls[s].then \in {"addRule", "removeRule"}
    <3>1. \E custom : Serve(s, [server EXCEPT !.custom = custom], "")
      BY <2>4 DEF SettingsServe
    <3>2. calls[s].do = "write" /\ "rules" \in calls[s].on
      BY <1>1, <2>4, PolicyCalls
    <3> QED
      BY <3>1, <3>2
  <2> QED
    BY <1>1, <2>1, <2>2, <2>3, <2>4, PolicyCalls
<1>3. UNCHANGED ui /\ server' = new
  BY <1>2, ServeIs
<1>4. {"framework", "custom"} \subseteq DOMAIN server'
  BY <1>2, <1>3 DEF PolicyParts
<1>5. Mirrors(calls', trust', "framework", ui.framework, server'.framework)
  <2>1. "framework" \in calls[s].on /\ calls[s].do = "read" => ans = server.framework
    BY <1>2
  <2>2. server'.framework = server.framework \/ ("framework" \in calls[s].on /\ calls[s].do = "write")
    BY <1>2, <1>3 DEF PolicyParts
  <2> QED
    BY <1>2, <2>1, <2>2, ServeMirrors DEF PolicyParts, FrameworkKept
<1>6. Mirrors(calls', trust', "rules", ui.rules, GetRules')
  <2>1. "rules" \in calls[s].on /\ calls[s].do = "read" => ans = GetRules
    BY <1>2
  <2>2. GetRules' = GetRules \/ ("rules" \in calls[s].on /\ calls[s].do = "write")
    BY <1>2, <1>3 DEF GetRules
  <2> QED
    BY <1>2, <2>1, <2>2, ServeMirrors DEF PolicyParts, RulesKept
<1>7. FrameworkKept' /\ RulesKept'
  BY <1>2, <1>3, <1>5, <1>6, ServeAdrift DEF PolicyParts, FrameworkKept, RulesKept
<1>8. FrameworkFlag' /\ RuleFlag'
  BY <1>2, <1>3, ServeHeld DEF PolicyParts, FrameworkFlag, RuleFlag
<1> QED
  BY <1>3, <1>4, <1>7, <1>8 DEF PolicyParts

\* Promise.all ends with the later of its two reads.
LEMMA BothReadIs ==
  ASSUME SceneInv, ui.page = "policy", trust["frameworkBusy"] = "clean",
         OneOperation(calls, trust, "frameworkBusy"), NEW s \in Slots, "frameworkBusy" \in calls[s].on,
         calls[s].then \in {"allFramework", "allRules"}
  PROVE  BothRead(s) <=> ~ \E o \in Slots \ {s} : "frameworkBusy" \in calls[o].on
<1>1. ASSUME NEW o \in Slots \ {s}, "frameworkBusy" \in calls[o].on
      PROVE  calls[o].then \in {"allRules", "allFramework"}
  BY <1>1 DEF OneOperation, Both
<1>2. ASSUME NEW o \in Slots \ {s}, calls[o].then \in {"allRules", "allFramework"}
      PROVE  "frameworkBusy" \in calls[o].on
  <2>1. ~ Vacant(o)
    BY <1>2, VacantIsNowhere
  <2> QED
    BY <1>2, <2>1, PolicyCalls
<1> QED
  BY <1>1, <1>2 DEF BothRead

LEMMA PolicyFlagsEnd ==
  ASSUME SceneInv, PolicyParts, ui.page = "policy", NEW s \in Slots, Finish(s) \/ Throw(s),
         IF "frameworkBusy" \in calls[s].on
         THEN ui'.frameworkBusy = IF calls[s].then \in {"allFramework", "allRules"} THEN ~ BothRead(s) ELSE FALSE
         ELSE ui'.frameworkBusy = ui.frameworkBusy,
         IF "ruleBusy" \in calls[s].on
         THEN ui'.ruleBusy = FALSE /\ calls[s].then \notin {"allFramework", "allRules"}
         ELSE ui'.ruleBusy = ui.ruleBusy
  PROVE  FrameworkFlag' /\ RuleFlag'
<1> "frameworkBusy" \in DOMAIN trust \cap Flags /\ "ruleBusy" \in DOMAIN trust \cap Flags
  BY PolicyThings
<1>1. ASSUME NEW f \in {"frameworkBusy", "ruleBusy"}, OneOperation(calls, trust, f)
      PROVE  /\ OneOperation(calls', trust', f) /\ trust'[f] = trust[f]
             /\ f \notin calls[s].on => (Held(calls', f) <=> Held(calls, f))
             /\ Held(calls', f) <=> \E o \in Slots \ {s} : f \in calls[o].on
             /\ /\ trust[f] = "clean" /\ f \in calls[s].on /\ calls[s].then \notin {"allFramework", "allRules"}
                => ~ Held(calls', f)
  <2>1. CASE Finish(s)
    BY <1>1, <2>1, FinishHeld
  <2>2. CASE Throw(s)
    BY <1>1, <2>2, ThrowHeld
  <2> QED
    BY <2>1, <2>2
<1>2. FrameworkFlag'
  <2>1. OneOperation(calls, trust, "frameworkBusy")
    BY DEF PolicyParts, FrameworkFlag
  <2>2. CASE "frameworkBusy" \notin calls[s].on
    BY <1>1, <2>1, <2>2 DEF PolicyParts, FrameworkFlag
  <2>3. CASE "frameworkBusy" \in calls[s].on /\ calls[s].then \notin {"allFramework", "allRules"}
    <3>1. ui'.frameworkBusy = FALSE
      BY <2>3
    <3> QED
      BY <1>1, <2>1, <2>3, <3>1 DEF FrameworkFlag
  <2>4. CASE "frameworkBusy" \in calls[s].on /\ calls[s].then \in {"allFramework", "allRules"}
    <3>1. ui'.frameworkBusy = ~ BothRead(s)
      BY <2>4
    <3>2. trust["frameworkBusy"] = "clean" =>
            (BothRead(s) <=> ~ \E o \in Slots \ {s} : "frameworkBusy" \in calls[o].on)
      BY <2>1, <2>4, BothReadIs
    <3>3. /\ OneOperation(calls', trust', "frameworkBusy") /\ trust'["frameworkBusy"] = trust["frameworkBusy"]
          /\ Held(calls', "frameworkBusy") <=> \E o \in Slots \ {s} : "frameworkBusy" \in calls[o].on
      BY <1>1, <2>1
    <3> QED
      BY <3>1, <3>2, <3>3 DEF FrameworkFlag
  <2> QED
    BY <2>2, <2>3, <2>4
<1>3. RuleFlag'
  <2>1. OneOperation(calls, trust, "ruleBusy")
    BY DEF PolicyParts, RuleFlag
  <2> QED
    BY <1>1, <2>1 DEF PolicyParts, RuleFlag
<1> QED
  BY <1>2, <1>3
------------------------------------------------------------------------------
\* A read of the card ends, and a call throws.
LEMMA FrameworkRefreshedParts ==
  ASSUME SceneInv, Orderly, PolicyParts, ui.page = "policy", NEW s \in Slots, FrameworkRefreshed(s), UNCHANGED server
  PROVE  PolicyParts'
<1> "framework" \in DOMAIN trust \ Flags /\ "rules" \in DOMAIN trust \ Flags
  BY PolicyThings
<1>1. /\ ui'.framework = calls[s].ans /\ ui'.rules = ui.rules /\ ui'.ruleBusy = ui.ruleBusy
      /\ ui'.ruleErr = ui.ruleErr /\ ui'.frameworkErr = ui.frameworkErr /\ DOMAIN ui' = DOMAIN ui
  BY DEF FrameworkRefreshed, PolicyParts
<1>2. /\ calls[s].do = "read" /\ calls[s].st = "back"
      /\ "framework" \in calls[s].on /\ "rules" \notin calls[s].on /\ "ruleBusy" \notin calls[s].on
      /\ \/ calls[s].then = "refreshFramework" /\ "frameworkBusy" \notin calls[s].on
         \/ calls[s].then = "allFramework" /\ "frameworkBusy" \in calls[s].on
  BY PolicyCalls, AnsweredIs DEF FrameworkRefreshed, Answered
<1>3. IF "frameworkBusy" \in calls[s].on THEN ui'.frameworkBusy = ~ BothRead(s)
      ELSE ui'.frameworkBusy = ui.frameworkBusy
  BY <1>2 DEF FrameworkRefreshed, PolicyParts, Answered
<1>4. Finish(s)
  BY DEF FrameworkRefreshed
<1>5. Mirrors(calls', trust', "framework", ui'.framework, server.framework)
  BY <1>1, <1>2, <1>4, FinishMirrors DEF PolicyParts, FrameworkKept
<1>6. Mirrors(calls', trust', "rules", ui'.rules, GetRules)
  BY <1>1, <1>2, <1>4, FinishMirrors DEF PolicyParts, RulesKept
<1>7. /\ Adrift(calls', trust', "framework") => Adrift(calls, trust, "framework")
      /\ Adrift(calls', trust', "rules") => Adrift(calls, trust, "rules")
  BY <1>2, <1>4, FinishAdrift
<1>8. FrameworkFlag' /\ RuleFlag'
  BY <1>1, <1>2, <1>3, <1>4, PolicyFlagsEnd
<1>9. GetRules' = GetRules
  BY DEF GetRules
<1>10. FrameworkKept' /\ RulesKept'
  BY <1>1, <1>5, <1>6, <1>7, <1>9 DEF PolicyParts, FrameworkKept, RulesKept
<1> QED
  BY <1>1, <1>8, <1>10 DEF PolicyParts

LEMMA RulesRefreshedParts ==
  ASSUME SceneInv, Orderly, PolicyParts, ui.page = "policy", NEW s \in Slots, RulesRefreshed(s), UNCHANGED server
  PROVE  PolicyParts'
<1> "framework" \in DOMAIN trust \ Flags /\ "rules" \in DOMAIN trust \ Flags
  BY PolicyThings
<1>1. /\ ui'.rules = calls[s].ans /\ ui'.framework = ui.framework
      /\ ui'.ruleErr = ui.ruleErr /\ ui'.frameworkErr = ui.frameworkErr /\ DOMAIN ui' = DOMAIN ui
  BY DEF RulesRefreshed, PolicyParts
<1>2. /\ calls[s].do = "read" /\ calls[s].st = "back"
      /\ "framework" \notin calls[s].on /\ "rules" \in calls[s].on
      /\ \/ /\ calls[s].then = "refreshRules"
            /\ "frameworkBusy" \notin calls[s].on /\ "ruleBusy" \notin calls[s].on
         \/ calls[s].then = "allRules" /\ "frameworkBusy" \in calls[s].on /\ "ruleBusy" \notin calls[s].on
         \/ calls[s].then = "readRules" /\ "frameworkBusy" \notin calls[s].on /\ "ruleBusy" \in calls[s].on
  BY PolicyCalls, AnsweredIs DEF RulesRefreshed, Answered
<1>3. /\ IF "frameworkBusy" \in calls[s].on THEN ui'.frameworkBusy = ~ BothRead(s)
         ELSE ui'.frameworkBusy = ui.frameworkBusy
      /\ IF "ruleBusy" \in calls[s].on THEN ui'.ruleBusy = FALSE ELSE ui'.ruleBusy = ui.ruleBusy
  BY <1>2 DEF RulesRefreshed, PolicyParts, Answered
<1>4. Finish(s)
  BY DEF RulesRefreshed
<1>5. Mirrors(calls', trust', "framework", ui'.framework, server.framework)
  BY <1>1, <1>2, <1>4, FinishMirrors DEF PolicyParts, FrameworkKept
<1>6. Mirrors(calls', trust', "rules", ui'.rules, GetRules)
  BY <1>1, <1>2, <1>4, FinishMirrors DEF PolicyParts, RulesKept
<1>7. /\ Adrift(calls', trust', "framework") => Adrift(calls, trust, "framework")
      /\ Adrift(calls', trust', "rules") => Adrift(calls, trust, "rules")
  BY <1>2, <1>4, FinishAdrift
<1>8. FrameworkFlag' /\ RuleFlag'
  BY <1>1, <1>2, <1>3, <1>4, PolicyFlagsEnd
<1>9. GetRules' = GetRules
  BY DEF GetRules
<1>10. FrameworkKept' /\ RulesKept'
  BY <1>1, <1>5, <1>6, <1>7, <1>9 DEF PolicyParts, FrameworkKept, RulesKept
<1> QED
  BY <1>1, <1>8, <1>10 DEF PolicyParts

LEMMA PolicyCatchParts ==
  ASSUME SceneInv, Orderly, PolicyParts, ui.page = "policy", NEW s \in Slots, Throw(s),
         FrameworkCatch(s) \/ RulesCatch(s), UNCHANGED server
  PROVE  PolicyParts'
<1> "framework" \in DOMAIN trust \ Flags /\ "rules" \in DOMAIN trust \ Flags
  BY PolicyThings
<1>1. ui'.rules = ui.rules /\ ui'.framework = ui.framework /\ DOMAIN ui' = DOMAIN ui
  BY DEF FrameworkCatch, RulesCatch, PolicyParts
<1>2. calls[s].st # "late" /\ ~ Vacant(s)
  BY DEF Throw, Open, Vacant
<1>3. \/ /\ FrameworkCatch(s) /\ "ruleBusy" \notin calls[s].on
         /\ \/ calls[s].then = "refreshFramework" /\ "frameworkBusy" \notin calls[s].on
            \/ calls[s].then \in {"changeFramework", "allFramework"} /\ "frameworkBusy" \in calls[s].on
      \/ /\ RulesCatch(s) /\ "framework" \notin calls[s].on
         /\ \/ /\ calls[s].then \in {"refreshRules", "removeRule"}
               /\ "frameworkBusy" \notin calls[s].on /\ "ruleBusy" \notin calls[s].on
            \/ calls[s].then = "allRules" /\ "frameworkBusy" \in calls[s].on /\ "ruleBusy" \notin calls[s].on
            \/ /\ calls[s].then \in {"addRule", "readRules"}
               /\ "frameworkBusy" \notin calls[s].on /\ "ruleBusy" \in calls[s].on
  <2>1. CASE FrameworkCatch(s)
    <3>1. calls[s].then \in {"refreshFramework", "changeFramework", "allFramework"}
      BY <2>1 DEF FrameworkCatch
    <3> QED
      BY <1>2, <2>1, <3>1, PolicyCalls
  <2>2. CASE RulesCatch(s)
    <3>1. calls[s].then \in {"refreshRules", "removeRule", "addRule", "readRules", "allRules"}
      BY <2>2 DEF RulesCatch
    <3> QED
      BY <1>2, <2>2, <3>1, PolicyCalls
  <2> QED
    BY <2>1, <2>2
<1>4. /\ IF "frameworkBusy" \in calls[s].on
         THEN ui'.frameworkBusy = IF calls[s].then \in {"allFramework", "allRules"} THEN ~ BothRead(s) ELSE FALSE
         ELSE ui'.frameworkBusy = ui.frameworkBusy
      /\ IF "ruleBusy" \in calls[s].on
         THEN ui'.ruleBusy = FALSE /\ calls[s].then \notin {"allFramework", "allRules"}
         ELSE ui'.ruleBusy = ui.ruleBusy
  BY <1>3 DEF FrameworkCatch, RulesCatch, PolicyParts
<1>5. /\ ui.frameworkErr => ui'.frameworkErr
      /\ ui.ruleErr => ui'.ruleErr
      /\ "framework" \in calls[s].on => ui'.frameworkErr
      /\ "rules" \in calls[s].on => ui'.ruleErr \/ ui'.frameworkErr
  BY <1>3 DEF FrameworkCatch, RulesCatch, PolicyParts
<1>6. Mirrors(calls', trust', "framework", ui'.framework, server.framework)
  BY <1>1, ThrowMirrors DEF PolicyParts, FrameworkKept
<1>7. Mirrors(calls', trust', "rules", ui'.rules, GetRules)
  BY <1>1, ThrowMirrors DEF PolicyParts, RulesKept
<1>8. /\ Adrift(calls', trust', "framework") => "framework" \in calls[s].on \/ Adrift(calls, trust, "framework")
      /\ Adrift(calls', trust', "rules") => "rules" \in calls[s].on \/ Adrift(calls, trust, "rules")
  BY ThrowAdrift
<1>9. FrameworkFlag' /\ RuleFlag'
  BY <1>4, PolicyFlagsEnd
<1>10. GetRules' = GetRules
  BY DEF GetRules
<1>11. FrameworkKept' /\ RulesKept'
  BY <1>1, <1>5, <1>6, <1>7, <1>8, <1>10 DEF PolicyParts, FrameworkKept, RulesKept
<1> QED
  BY <1>1, <1>9, <1>11 DEF PolicyParts

LEMMA PolicyStep ==
  ASSUME SceneInv, Orderly, PolicyCopy, ui.page = "policy", SettingsNext
  PROVE  PolicyCopy'
<1> PolicyParts
  BY DEF PolicyCopy
<1>1. CASE SettingsMount
  <2>1. CASE Start(RefreshRules)
    <3> DEFINE on == {"rules"}
    <3>1. Start(Call("read", on, "", "refreshRules")) /\ UNCHANGED <<ui, server>>
      BY <1>1, <2>1 DEF SettingsMount, RefreshRules
    <3>2. "frameworkBusy" \notin on /\ "ruleBusy" \notin on
      OBVIOUS
    <3> HIDE DEF on
    <3> QED
      BY <3>1, <3>2, PolicyStart DEF PolicyCopy
  <2>2. CASE Start(RefreshFramework)
    <3> DEFINE on == {"framework"}
    <3>1. Start(Call("read", on, "", "refreshFramework")) /\ UNCHANGED <<ui, server>>
      BY <1>1, <2>2 DEF SettingsMount, RefreshFramework
    <3>2. "frameworkBusy" \notin on /\ "ruleBusy" \notin on
      OBVIOUS
    <3> HIDE DEF on
    <3> QED
      BY <3>1, <3>2, PolicyStart DEF PolicyCopy
  <2> QED
    BY <1>1, <2>1, <2>2 DEF SettingsMount
<1>2. CASE FrameworkCardOffers
  <2>1. PICK f : ChangeFramework(f) /\ UNCHANGED server
    BY <1>2 DEF FrameworkCardOffers
  <2> DEFINE on == {"framework", "rules", "frameworkBusy"}
  <2>2. Start(Call("write", on, f, "changeFramework"))
    BY <2>1 DEF ChangeFramework
  <2>3. /\ ui'.framework = ui.framework /\ ui'.rules = ui.rules /\ ui'.ruleBusy = ui.ruleBusy
        /\ ui'.ruleErr = ui.ruleErr /\ ui'.frameworkBusy = TRUE /\ DOMAIN ui' = DOMAIN ui
    BY <2>1 DEF ChangeFramework, PolicyParts
  <2>4. {"framework", "rules"} \subseteq on /\ "frameworkBusy" \in on /\ "ruleBusy" \notin on
    OBVIOUS
  <2> HIDE DEF on
  <2> QED
    BY <2>1, <2>2, <2>3, <2>4, PolicyStart DEF PolicyCopy
<1>3. CASE RulesCardOffers
  <2>1. ASSUME NEW r, AddRule(r)
        PROVE  PolicyCopy'
    <3> DEFINE on == {"rules", "ruleBusy"}
    <3>1. Start(Call("write", on, r, "addRule"))
      BY <2>1 DEF AddRule
    <3>2. /\ ui'.framework = ui.framework /\ ui'.rules = ui.rules /\ ui'.ruleBusy = TRUE
          /\ ui'.frameworkErr = ui.frameworkErr /\ ui'.frameworkBusy = ui.frameworkBusy /\ DOMAIN ui' = DOMAIN ui
      BY <2>1 DEF AddRule, PolicyParts
    <3>3. "rules" \in on /\ "ruleBusy" \in on /\ "frameworkBusy" \notin on
      OBVIOUS
    <3>4. UNCHANGED server
      BY <1>3 DEF RulesCardOffers
    <3> HIDE DEF on
    <3> QED
      BY <3>1, <3>2, <3>3, <3>4, PolicyStart DEF PolicyCopy
  <2>2. ASSUME NEW r, RemoveRule(r)
        PROVE  PolicyCopy'
    <3> DEFINE on == {"rules"}
    <3>1. Start(Call("write", on, r, "removeRule")) /\ UNCHANGED <<ui, server>>
      BY <1>3, <2>2 DEF RemoveRule, RulesCardOffers
    <3>2. "frameworkBusy" \notin on /\ "ruleBusy" \notin on
      OBVIOUS
    <3> HIDE DEF on
    <3> QED
      BY <3>1, <3>2, PolicyStart DEF PolicyCopy
  <2> QED
    BY <1>3, <2>1, <2>2 DEF RulesCardOffers
<1>4. ASSUME NEW s \in Slots, SettingsServe(s)
      PROVE  PolicyCopy'
  BY <1>4, PolicyServeParts DEF PolicyCopy
<1>5. ASSUME NEW s \in Slots, SettingsContinue(s)
      PROVE  PolicyCopy'
  <2>1. UNCHANGED server
    BY <1>5, SettingsGoesOn
  <2>2. CASE FrameworkChanged(s)
    BY <2>1, <2>2, FrameworkChangedParts DEF PolicyCopy
  <2>3. CASE FrameworkRefreshed(s)
    BY <2>1, <2>3, FrameworkRefreshedParts DEF PolicyCopy
  <2>4. CASE RulesRefreshed(s)
    BY <2>1, <2>4, RulesRefreshedParts DEF PolicyCopy
  <2>5. CASE RuleAdded(s)
    <3> DEFINE on == {"rules", "ruleBusy"}
    <3>1. SendFrom(trust, At(s, Call("read", on, "", "readRules"))) /\ UNCHANGED ui
      BY <2>5 DEF RuleAdded, Send
    <3>2. ~ Vacant(s) /\ on = calls[s].on
      BY <2>5, PolicyCalls, AnsweredIs DEF RuleAdded, Answered
    <3> HIDE DEF on
    <3> QED
      BY <2>1, <3>1, <3>2, PolicySent DEF PolicyCopy
  <2>6. CASE RuleRemoved(s)
    <3> DEFINE on == {"rules"}
    <3>1. SendFrom(trust, At(s, Call("read", on, "", "refreshRules"))) /\ UNCHANGED ui
      BY <2>6 DEF RuleRemoved, Send, RefreshRules
    <3>2. ~ Vacant(s) /\ on = calls[s].on
      BY <2>6, PolicyCalls, AnsweredIs DEF RuleRemoved, Answered
    <3> HIDE DEF on
    <3> QED
      BY <2>1, <3>1, <3>2, PolicySent DEF PolicyCopy
  <2>7. CASE Throw(s) /\ (FrameworkCatch(s) \/ RulesCatch(s))
    BY <2>1, <2>7, PolicyCatchParts DEF PolicyCopy
  <2> QED
    BY <1>5, <2>2, <2>3, <2>4, <2>5, <2>6, <2>7, SettingsGoesOn
<1> QED
  BY <1>1, <1>2, <1>3, <1>4, <1>5
     DEF SettingsNext, KeyCardOffers, ScheduleCardOffers, HookCardOffers
------------------------------------------------------------------------------
(***************************************************************************)
(* The list of the workspace page: what is asked of the server, what it    *)
(* answers, and what the page shows of it.                                 *)
(***************************************************************************)
Rows(matching, q, n) == [q |-> q, n |-> Least({n, Clamp, matching[q]})]

ListFields ==
  /\ {"search", "timer", "debounced", "limit", "rows", "hasMore"} \subseteq DOMAIN ui
  /\ "matching" \in DOMAIN server /\ server.matching \in [Searches -> Nat]
  /\ ui.search \in Searches /\ ui.debounced \in Searches /\ ui.limit \in Nat

\* With the calls cs and the rows that are stored, and with tr known of the list.
Wanted(cs, tr, q, n) ==
  tr["list"] = "clean" => \A s \in Slots : cs[s].then = "loadSessions" => cs[s].arg = <<q, n>>

OnItsWay(cs, tr, matching) ==
  tr["list"] = "clean" =>
    \A s \in Slots : "list" \in cs[s].on /\ cs[s].do = "read" /\ cs[s].st = "back" =>
      cs[s].ans = Rows(matching, cs[s].arg[1], cs[s].arg[2])

Listing(cs, tr, rows, more, q, n, matching) ==
  tr["list"] = "clean" /\ (\A s \in Slots : "list" \notin cs[s].on) =>
    rows = Rows(matching, q, n) /\ (more <=> rows.n = n)

ListCopy ==
  ui.page \in {"list", "demo"} =>
    /\ ListFields
    /\ Wanted(calls, trust, ui.debounced, ui.limit)
    /\ OnItsWay(calls, trust, server.matching)
    /\ Listing(calls, trust, ui.rows, ui.hasMore, ui.debounced, ui.limit, server.matching)

\* The list is read with q and n.
LEMMA StartList ==
  ASSUME SceneInv, ui.page \in {"list", "demo"}, NEW q, NEW n, Start(LoadSessions(q, n)),
         NEW matching, OnItsWay(calls, trust, matching), NEW rows, NEW more
  PROVE  /\ Wanted(calls', trust', q, n) /\ OnItsWay(calls', trust', matching)
         /\ Listing(calls', trust', rows, more, q, n, matching)
<1> "list" \in DOMAIN trust \ Flags
  BY ThingsKnown
<1> DEFINE on == {"list"}
           arg == <<q, n>>
<1>1. PICK s \in Slots : SendFrom(trust, At(s, Call("read", on, arg, "loadSessions")))
  BY DEF Start, Send, LoadSessions
<1>2. "list" \in on
  OBVIOUS
<1>3. "loadSessions" # "" /\ \A o \in Slots : calls[o].then = "loadSessions" => "list" \in calls[o].on
  BY WorkspaceCalls, VacantIsNowhere
<1> HIDE DEF on, arg
<1>4. Follows(calls', trust', "list", rows, arg)
  BY <1>1, <1>2, SentFollows
<1>5. /\ \A o \in Slots \ {s} : calls'[o] = calls[o]
      /\ calls'[s].st = "out" /\ "list" \in calls'[s].on
  BY <1>1, <1>2, SentIs
<1>6. trust'["list"] = "clean" => trust["list"] = "clean" \/ \A o \in Slots \ {s} : "list" \notin calls[o].on
  BY <1>1, SentTrust
<1>7. Wanted(calls', trust', q, n)
  BY <1>3, <1>4, <1>5 DEF Follows, Wanted, arg
<1>8. OnItsWay(calls', trust', matching)
  BY <1>5, <1>6 DEF OnItsWay
<1>9. Listing(calls', trust', rows, more, q, n, matching)
  BY <1>5 DEF Listing
<1> QED
  BY <1>7, <1>8, <1>9

\* A call about the list ends, goes on, or is answered.
LEMMA ListKeeps ==
  ASSUME SceneInv, ui.page \in {"list", "demo"}, NEW s \in Slots,
         \A o \in Slots \ {s} : calls'[o] = calls[o],
         trust'["list"] = "clean" => trust["list"] = "clean",
         "list" \notin calls[s].on, "list" \notin calls'[s].on, calls'[s].then # "loadSessions",
         NEW rows, NEW more, NEW q, NEW n, NEW matching,
         Wanted(calls, trust, q, n), OnItsWay(calls, trust, matching), Listing(calls, trust, rows, more, q, n, matching)
  PROVE  /\ Wanted(calls', trust', q, n) /\ OnItsWay(calls', trust', matching)
         /\ Listing(calls', trust', rows, more, q, n, matching)
BY DEF Wanted, OnItsWay, Listing

LEMMA OneMore ==
  ASSUME NEW S, NEW f \in [S -> Nat], NEW x \in S
  PROVE  [f EXCEPT ![x] = f[x] + 1] \in [S -> Nat]
OBVIOUS

LEMMA ListServe ==
  ASSUME SceneInv, Orderly, ListCopy, ui.page \in {"list", "demo"}, NEW s \in Slots, WorkspaceServe(s)
  PROVE  ListCopy'
<1> "list" \in DOMAIN trust \ Flags
  BY ThingsKnown
<1>1. /\ ListFields
      /\ Wanted(calls, trust, ui.debounced, ui.limit)
      /\ OnItsWay(calls, trust, server.matching)
      /\ Listing(calls, trust, ui.rows, ui.hasMore, ui.debounced, ui.limit, server.matching)
  BY DEF ListCopy
<1> DEFINE asked == Rows(server.matching, calls[s].arg[1], calls[s].arg[2])
           more  == [server EXCEPT !.matching[""] = @ + 1]
<1>2. \/ calls[s].then \in {"loadSessions", "listDemo"} /\ Serve(s, server, asked)
      \/ calls[s].then = "seedDemo" /\ Serve(s, more, "")
      \/ /\ calls[s].then \in {"loadEvents", "loadChain", "audit", "openEvidence", "downloadEvidencePdf"}
         /\ Serve(s, server, calls[s].arg)
  BY DEF WorkspaceServe, ListSessions, Rows
<1>3. more.matching \in [Searches -> Nat] /\ DOMAIN more = DOMAIN server
  <2>1. server.matching \in [Searches -> Nat] /\ "" \in Searches /\ "matching" \in DOMAIN server
    BY <1>1 DEF ListFields, Searches
  <2>2. DOMAIN more = DOMAIN server
    OBVIOUS
  <2>3. more.matching = [server.matching EXCEPT ![""] = server.matching[""] + 1]
    BY <2>1
  <2>4. [server.matching EXCEPT ![""] = server.matching[""] + 1] \in [Searches -> Nat]
    BY <2>1, OneMore
  <2> QED
    BY <2>1, <2>2, <2>3, <2>4
<1> HIDE DEF more, asked
<1>4. CASE calls[s].then \in {"loadEvents", "loadChain", "audit", "openEvidence", "downloadEvidencePdf"}
  <2>1. Serve(s, server, calls[s].arg)
    BY <1>2, <1>4
  <2>2. /\ \A o \in Slots \ {s} : calls'[o] = calls[o]
        /\ UNCHANGED <<ui, server, trust>>
        /\ calls'[s] = Free \/ (calls'[s].on = calls[s].on /\ calls'[s].then = calls[s].then)
    BY <2>1, ServeCalls
  <2>3. "list" \notin calls[s].on
    BY <1>4, <2>1, ServeIs, WorkspaceCalls
  <2>4. "list" \notin calls'[s].on /\ calls'[s].then # "loadSessions"
    BY <1>4, <2>2, <2>3, FreeFields
  <2>5. /\ Wanted(calls', trust', ui.debounced, ui.limit) /\ OnItsWay(calls', trust', server.matching)
        /\ Listing(calls', trust', ui.rows, ui.hasMore, ui.debounced, ui.limit, server.matching)
    BY <1>1, <2>2, <2>3, <2>4, ListKeeps
  <2> QED
    BY <1>1, <2>2, <2>5 DEF ListCopy, ListFields
<1>5. CASE calls[s].then = "seedDemo"
  <2>1. Serve(s, more, "")
    BY <1>2, <1>5
  <2>2. /\ \A o \in Slots \ {s} : calls'[o] = calls[o]
        /\ UNCHANGED <<ui, trust>> /\ server' = more
        /\ \/ calls'[s] = Free /\ calls[s].st = "late"
           \/ calls'[s].on = calls[s].on /\ calls'[s].then = calls[s].then /\ calls'[s].do = calls[s].do
    BY <2>1, ServeCalls
  <2>3. "list" \in calls[s].on /\ calls[s].do = "write"
    BY <1>5, <2>1, ServeIs, WorkspaceCalls
  <2>4. trust["list"] = "clean" => calls[s].st # "late" /\ \A o \in Slots \ {s} : "list" \notin calls[o].on
    BY <2>3 DEF Orderly, Competes
  <2>5. calls'[s].then # "loadSessions"
    BY <1>5, <2>2, FreeFields
  <2>6. Wanted(calls', trust', ui.debounced, ui.limit)
    BY <1>1, <2>2, <2>5 DEF Wanted
  <2>7. OnItsWay(calls', trust', more.matching)
    BY <2>2, <2>3, <2>4 DEF OnItsWay
  <2>8. Listing(calls', trust', ui.rows, ui.hasMore, ui.debounced, ui.limit, more.matching)
    BY <2>2, <2>3, <2>4 DEF Listing
  <2> QED
    BY <1>1, <1>3, <2>2, <2>6, <2>7, <2>8 DEF ListCopy, ListFields
<1>6. CASE calls[s].then \in {"loadSessions", "listDemo"}
  <2>1. Serve(s, server, asked)
    BY <1>2, <1>6
  <2>2. "list" \in calls[s].on /\ calls[s].do = "read" /\ calls[s].st # "late"
    BY <1>6, <2>1, ServeIs, WorkspaceCalls
  <2>3. /\ \A o \in Slots \ {s} : calls'[o] = calls[o]
        /\ UNCHANGED <<ui, server, trust>>
        /\ calls'[s].on = calls[s].on /\ calls'[s].then = calls[s].then /\ calls'[s].ans = asked
        /\ calls'[s].arg = calls[s].arg
    BY <2>1, <2>2, ServeCalls
  <2>4. Wanted(calls', trust', ui.debounced, ui.limit)
    BY <1>1, <2>3 DEF Wanted
  <2>5. OnItsWay(calls', trust', server.matching)
    BY <1>1, <2>3 DEF OnItsWay, asked
  <2>6. Listing(calls', trust', ui.rows, ui.hasMore, ui.debounced, ui.limit, server.matching)
    BY <2>2, <2>3 DEF Listing
  <2> QED
    BY <1>1, <2>3, <2>4, <2>5, <2>6 DEF ListCopy, ListFields
<1> QED
  BY <1>2, <1>4, <1>5, <1>6
------------------------------------------------------------------------------
\* What the page is asked to show: the search, the limit, and what somebody else records.
LEMMA ListOfferStep ==
  ASSUME SceneInv, ListCopy, ui.page \in {"list", "demo"}, ListMount \/ ListOffers \/ NewSession
  PROVE  ListCopy'
<1> "list" \in DOMAIN trust \ Flags
  BY ThingsKnown
<1>1. /\ ListFields
      /\ Wanted(calls, trust, ui.debounced, ui.limit)
      /\ OnItsWay(calls, trust, server.matching)
      /\ Listing(calls, trust, ui.rows, ui.hasMore, ui.debounced, ui.limit, server.matching)
  BY DEF ListCopy
<1>2. CASE ListMount
  <2>1. Start(LoadSessions(ui.debounced, ui.limit)) /\ UNCHANGED <<ui, server>>
    BY <1>2 DEF ListMount
  <2>2. /\ Wanted(calls', trust', ui.debounced, ui.limit) /\ OnItsWay(calls', trust', server.matching)
        /\ Listing(calls', trust', ui.rows, ui.hasMore, ui.debounced, ui.limit, server.matching)
    BY <1>1, <2>1, StartList
  <2> QED
    BY <1>1, <2>1, <2>2 DEF ListCopy, ListFields
<1>3. ASSUME NEW q \in Searches, Search(q)
      PROVE  ListCopy'
  <2>1. /\ ui'.search = q /\ ui'.debounced = ui.debounced /\ ui'.limit = ui.limit
        /\ ui'.rows = ui.rows /\ ui'.hasMore = ui.hasMore /\ DOMAIN ui' = DOMAIN ui
        /\ UNCHANGED <<server, calls, trust>>
    BY <1>1, <1>3 DEF Search, ListFields
  <2> QED
    BY <1>1, <1>3, <2>1 DEF ListCopy, ListFields
<1>4. CASE Debounce
  <2>1. /\ ui'.search = ui.search /\ ui'.debounced = ui.search /\ ui'.limit = PageSize
        /\ ui'.rows = ui.rows /\ ui'.hasMore = ui.hasMore /\ DOMAIN ui' = DOMAIN ui
        /\ UNCHANGED server
    BY <1>1, <1>4 DEF Debounce, ListFields
  <2>2. ListFields'
    BY <1>1, <2>1, WorkspaceAssumption DEF ListFields
  <2>3. CASE UNCHANGED <<calls, trust>> /\ ui.search = ui.debounced /\ PageSize = ui.limit
    BY <1>1, <2>1, <2>2, <2>3 DEF ListCopy
  <2>4. CASE Start(LoadSessions(ui.search, PageSize))
    <3>1. /\ Wanted(calls', trust', ui.search, PageSize) /\ OnItsWay(calls', trust', server.matching)
          /\ Listing(calls', trust', ui.rows, ui.hasMore, ui.search, PageSize, server.matching)
      BY <1>1, <2>4, StartList
    <3> QED
      BY <2>1, <2>2, <3>1 DEF ListCopy
  <2> QED
    BY <1>4, <2>3, <2>4 DEF Debounce
<1>5. CASE LoadMore
  <2> DEFINE n == ui.limit + PageSize
  <2>1. /\ ui'.search = ui.search /\ ui'.debounced = ui.debounced /\ ui'.limit = n
        /\ ui'.rows = ui.rows /\ ui'.hasMore = ui.hasMore /\ DOMAIN ui' = DOMAIN ui
        /\ UNCHANGED server
    BY <1>1, <1>5 DEF LoadMore, ListFields
  <2>2. n \in Nat
    BY <1>1, WorkspaceAssumption DEF ListFields
  <2>3. Start(LoadSessions(ui.debounced, n))
    BY <1>5 DEF LoadMore
  <2> HIDE DEF n
  <2>4. /\ Wanted(calls', trust', ui.debounced, n) /\ OnItsWay(calls', trust', server.matching)
        /\ Listing(calls', trust', ui.rows, ui.hasMore, ui.debounced, n, server.matching)
    BY <1>1, <2>3, StartList
  <2> QED
    BY <1>1, <2>1, <2>2, <2>4 DEF ListCopy, ListFields
<1>6. CASE NewSession
  <2> DEFINE new == [server EXCEPT !.matching[""] = @ + 1]
  <2>1. Elsewhere("list", new)
    BY <1>6 DEF NewSession
  <2>2. new.matching \in [Searches -> Nat] /\ DOMAIN new = DOMAIN server
    <3>1. server.matching \in [Searches -> Nat] /\ "" \in Searches /\ "matching" \in DOMAIN server
      BY <1>1 DEF ListFields, Searches
    <3>2. new.matching = [server.matching EXCEPT ![""] = server.matching[""] + 1] /\ DOMAIN new = DOMAIN server
      BY <3>1
    <3> QED
      BY <3>1, <3>2, OneMore
  <2> HIDE DEF new
  <2>3. UNCHANGED <<ui, calls>> /\ server' = new /\ trust'["list"] = "raced"
    BY <2>1, ElsewhereCopies
  <2> QED
    BY <1>1, <2>2, <2>3 DEF ListCopy, ListFields, Wanted, OnItsWay, Listing
<1> QED
  BY <1>2, <1>3, <1>4, <1>5, <1>6 DEF ListOffers

\* The demo, which writes and then reads the list.
LEMMA DemoStep ==
  ASSUME SceneInv, ListCopy, ui.page \in {"list", "demo"}, NEW s \in Slots, SeedDemo \/ DemoSeeded(s), UNCHANGED server
  PROVE  ListCopy'
<1> "list" \in DOMAIN trust \ Flags
  BY ThingsKnown
<1>1. /\ ListFields
      /\ Wanted(calls, trust, ui.debounced, ui.limit)
      /\ OnItsWay(calls, trust, server.matching)
      /\ Listing(calls, trust, ui.rows, ui.hasMore, ui.debounced, ui.limit, server.matching)
  BY DEF ListCopy
<1>2. \A o \in Slots : calls[o].then = "loadSessions" => "list" \in calls[o].on
  BY WorkspaceCalls, VacantIsNowhere
<1> DEFINE on == {"list", "busy"}
<1>3. "list" \in on
  OBVIOUS
<1> HIDE DEF on
<1>4. ASSUME NEW t \in Slots, NEW do, NEW arg, NEW then, SendFrom(trust, At(t, Call(do, on, arg, then))),
             then # "loadSessions"
      PROVE  /\ Wanted(calls', trust', ui.debounced, ui.limit) /\ OnItsWay(calls', trust', server.matching)
             /\ Listing(calls', trust', ui.rows, ui.hasMore, ui.debounced, ui.limit, server.matching)
  <2>1. /\ \A o \in Slots \ {t} : calls'[o] = calls[o]
        /\ calls'[t].st = "out" /\ calls'[t].on = on /\ calls'[t].then = then
    BY <1>4, SentIs
  <2>2. trust'["list"] = "clean" => trust["list"] = "clean" \/ \A o \in Slots \ {t} : "list" \notin calls[o].on
    BY <1>4, SentTrust
  <2>3. Wanted(calls', trust', ui.debounced, ui.limit)
    BY <1>1, <1>2, <1>4, <2>1, <2>2 DEF Wanted
  <2>4. OnItsWay(calls', trust', server.matching)
    BY <1>1, <2>1, <2>2 DEF OnItsWay
  <2>5. Listing(calls', trust', ui.rows, ui.hasMore, ui.debounced, ui.limit, server.matching)
    BY <1>3, <2>1 DEF Listing
  <2> QED
    BY <2>3, <2>4, <2>5
<1>5. /\ Wanted(calls', trust', ui.debounced, ui.limit) /\ OnItsWay(calls', trust', server.matching)
      /\ Listing(calls', trust', ui.rows, ui.hasMore, ui.debounced, ui.limit, server.matching)
  <2>1. CASE SeedDemo
    <3>1. Start(Call("write", on, <<ui.debounced, ui.limit>>, "seedDemo"))
      BY <2>1 DEF SeedDemo, on
    <3>2. PICK t \in Slots : SendFrom(trust, At(t, Call("write", on, <<ui.debounced, ui.limit>>, "seedDemo")))
      BY <3>1 DEF Start, Send
    <3> QED
      BY <1>4, <3>2
  <2>2. CASE DemoSeeded(s)
    <3>1. SendFrom(trust, At(s, Call("read", on, calls[s].arg, "listDemo")))
      BY <2>2 DEF DemoSeeded, Send, on
    <3> QED
      BY <1>4, <3>1
  <2> QED
    BY <2>1, <2>2
<1>6. /\ ui'.search = ui.search /\ ui'.debounced = ui.debounced /\ ui'.limit = ui.limit
      /\ ui'.rows = ui.rows /\ ui'.hasMore = ui.hasMore /\ DOMAIN ui' = DOMAIN ui
  BY <1>1 DEF SeedDemo, DemoSeeded, ListFields
<1> QED
  BY <1>1, <1>5, <1>6 DEF ListCopy, ListFields

\* The list arrives, by itself or after the demo.
LEMMA ListArrives ==
  ASSUME SceneInv, ListCopy, ui.page \in {"list", "demo"}, NEW s \in Slots, SessionsLoaded(s), UNCHANGED server
  PROVE  ListCopy'
<1>1. /\ ListFields
      /\ Wanted(calls, trust, ui.debounced, ui.limit)
      /\ OnItsWay(calls, trust, server.matching)
  BY DEF ListCopy
<1>2. /\ ui'.search = ui.search /\ ui'.debounced = ui.debounced /\ ui'.limit = ui.limit /\ DOMAIN ui' = DOMAIN ui
      /\ ui'.rows = calls[s].ans /\ ui'.hasMore = (calls[s].ans.n = calls[s].arg[2])
  BY <1>1 DEF SessionsLoaded, Listed, ListFields
<1>3. calls[s].then = "loadSessions" /\ calls[s].st = "back" /\ ~ Vacant(s) /\ Finish(s)
  BY AnsweredIs DEF SessionsLoaded, Answered
<1>4. "list" \in calls[s].on /\ calls[s].do = "read"
  BY <1>3, WorkspaceCalls
<1>5. (\A o \in Slots \ {s} : calls'[o] = calls[o]) /\ calls'[s] = Free /\ UNCHANGED trust
  BY <1>3, FinishCalls
<1>6. trust["list"] = "clean" =>
        /\ calls[s].arg = <<ui.debounced, ui.limit>>
        /\ calls[s].ans = Rows(server.matching, calls[s].arg[1], calls[s].arg[2])
  BY <1>1, <1>3, <1>4 DEF Wanted, OnItsWay
<1>7. trust["list"] = "clean" =>
        calls[s].ans = Rows(server.matching, ui.debounced, ui.limit) /\ calls[s].arg[2] = ui.limit
  BY <1>6
<1>8. Wanted(calls', trust', ui.debounced, ui.limit) /\ OnItsWay(calls', trust', server.matching)
  BY <1>1, <1>5, FreeFields DEF Wanted, OnItsWay
<1>9. Listing(calls', trust', ui'.rows, ui'.hasMore, ui.debounced, ui.limit, server.matching)
  BY <1>2, <1>5, <1>7 DEF Listing
<1> QED
  BY <1>1, <1>2, <1>8, <1>9 DEF ListCopy, ListFields

LEMMA DemoArrives ==
  ASSUME SceneInv, ListCopy, ui.page \in {"list", "demo"}, NEW s \in Slots, DemoListed(s), UNCHANGED server
  PROVE  ListCopy'
<1> "list" \in DOMAIN trust \ Flags
  BY ThingsKnown
<1>1. /\ ListFields
      /\ Wanted(calls, trust, ui.debounced, ui.limit)
      /\ OnItsWay(calls, trust, server.matching)
  BY DEF ListCopy
<1>2. calls[s].then = "listDemo" /\ ~ Vacant(s)
  BY DEF DemoListed, Answered, Vacant
<1>3. "list" \in calls[s].on /\ calls[s].do = "read"
  BY <1>2, WorkspaceCalls
<1>4. /\ ui'.search = ui.search /\ ui'.debounced = ui.debounced /\ ui'.limit = ui.limit /\ DOMAIN ui' = DOMAIN ui
  BY <1>1 DEF DemoListed, Selected, ListFields
<1> DEFINE on == {"view", "busy"}
<1>5. "list" \notin on
  OBVIOUS
<1> HIDE DEF on
<1>6. ASSUME NEW base, SendFrom(base, At(s, Call("read", on, "demo", "loadEvents"))),
             base["list"] = "clean" =>
               /\ trust["list"] = "clean"
               /\ ui'.rows = Rows(server.matching, ui.debounced, ui.limit) /\ (ui'.hasMore <=> ui'.rows.n = ui.limit)
      PROVE  ListCopy'
  <2>1. /\ \A o \in Slots \ {s} : calls'[o] = calls[o]
        /\ calls'[s].st = "out" /\ calls'[s].then = "loadEvents"
    BY <1>6, SentIs
  <2>2. trust'["list"] = "clean" => base["list"] = "clean"
    BY <1>5, <1>6, SentTrust
  <2>3. Wanted(calls', trust', ui.debounced, ui.limit) /\ OnItsWay(calls', trust', server.matching)
    BY <1>1, <1>6, <2>1, <2>2 DEF Wanted, OnItsWay
  <2>4. Listing(calls', trust', ui'.rows, ui'.hasMore, ui.debounced, ui.limit, server.matching)
    BY <1>6, <2>2 DEF Listing
  <2> QED
    BY <1>1, <1>4, <2>3, <2>4 DEF ListCopy, ListFields
<1>7. CASE /\ Answered(s, "listDemo")
           /\ ui' = [Selected("demo") EXCEPT !.rows = calls[s].ans, !.hasMore = calls[s].ans.n = calls[s].arg[2]]
           /\ SendFrom(Overtaken(s), At(s, LoadEvents("demo")))
  <2>1. ui'.rows = calls[s].ans /\ ui'.hasMore = (calls[s].ans.n = calls[s].arg[2])
    BY <1>1, <1>7 DEF Selected, ListFields
  <2>2. Overtaken(s)["list"] = "clean" => trust["list"] = "clean" /\ calls[s].arg = <<ui.debounced, ui.limit>>
    BY DEF Overtaken
  <2>3. trust["list"] = "clean" => calls[s].ans = Rows(server.matching, calls[s].arg[1], calls[s].arg[2])
    BY <1>1, <1>3, <1>7 DEF OnItsWay, Answered
  <2>4. Overtaken(s)["list"] = "clean" =>
          /\ trust["list"] = "clean"
          /\ ui'.rows = Rows(server.matching, ui.debounced, ui.limit) /\ (ui'.hasMore <=> ui'.rows.n = ui.limit)
    <3>1. calls[s].arg = <<ui.debounced, ui.limit>> => calls[s].arg[1] = ui.debounced /\ calls[s].arg[2] = ui.limit
      OBVIOUS
    <3> QED
      BY <2>1, <2>2, <2>3, <3>1
  <2>5. SendFrom(Overtaken(s), At(s, Call("read", on, "demo", "loadEvents")))
    BY <1>7 DEF LoadEvents, on
  <2> QED
    BY <1>6, <2>4, <2>5
<1>8. CASE SendFrom(Doubts(s), At(s, LoadEvents("demo")))
  <2>1. Doubts(s)["list"] = "failed"
    BY <1>3 DEF Doubts, Flags
  <2>2. SendFrom(Doubts(s), At(s, Call("read", on, "demo", "loadEvents")))
    BY <1>8 DEF LoadEvents, on
  <2> QED
    BY <1>6, <2>1, <2>2
<1> QED
  BY <1>7, <1>8 DEF DemoListed
------------------------------------------------------------------------------
LEMMA ListCaught ==
  ASSUME SceneInv, ListCopy, ui.page \in {"list", "demo"}, NEW s \in Slots, WorkspaceCatch(s), UNCHANGED server
  PROVE  ListCopy'
<1> "list" \in DOMAIN trust \ Flags
  BY ThingsKnown
<1>1. /\ ListFields
      /\ Wanted(calls, trust, ui.debounced, ui.limit)
      /\ OnItsWay(calls, trust, server.matching)
      /\ Listing(calls, trust, ui.rows, ui.hasMore, ui.debounced, ui.limit, server.matching)
  BY DEF ListCopy
<1>2. /\ ui'.search = ui.search /\ ui'.debounced = ui.debounced /\ ui'.limit = ui.limit
      /\ ui'.rows = ui.rows /\ ui'.hasMore = ui.hasMore /\ DOMAIN ui' = DOMAIN ui
  BY <1>1 DEF WorkspaceCatch, ListFields
<1>3. /\ \A o \in Slots \ {s} : calls'[o] = calls[o]
      /\ calls'[s] = Free \/ (calls'[s].on \subseteq calls[s].on /\ calls'[s].then = calls[s].then)
      /\ trust'["list"] = IF "list" \in calls[s].on THEN "failed" ELSE trust["list"]
  BY ThrowCalls DEF WorkspaceCatch
<1>4. CASE "list" \in calls[s].on
  BY <1>1, <1>2, <1>3, <1>4 DEF ListCopy, ListFields, Wanted, OnItsWay, Listing
<1>5. CASE "list" \notin calls[s].on
  <2>1. calls[s].then # "loadSessions" /\ "list" \notin calls'[s].on
    BY <1>3, <1>5, WorkspaceCalls, VacantIsNowhere, FreeFields
  <2>2. calls'[s].then # "loadSessions"
    BY <1>3, <2>1, FreeFields
  <2>3. /\ Wanted(calls', trust', ui.debounced, ui.limit) /\ OnItsWay(calls', trust', server.matching)
        /\ Listing(calls', trust', ui.rows, ui.hasMore, ui.debounced, ui.limit, server.matching)
    BY <1>1, <1>3, <1>5, <2>1, <2>2, ListKeeps
  <2> QED
    BY <1>1, <1>2, <2>3 DEF ListCopy, ListFields
<1> QED
  BY <1>4, <1>5

\* The handlers of the selected session leave the list as it is.
LEMMA ListElse ==
  ASSUME SceneInv, ListCopy, ui.page \in {"list", "demo"}, NEW s \in Slots,
         EventsLoaded(s) \/ ChainLoaded(s) \/ Audited(s) \/ EvidenceOpened(s) \/ PdfDownloaded(s), UNCHANGED server
  PROVE  ListCopy'
<1> "list" \in DOMAIN trust \ Flags
  BY ThingsKnown
<1>1. /\ ListFields
      /\ Wanted(calls, trust, ui.debounced, ui.limit)
      /\ OnItsWay(calls, trust, server.matching)
      /\ Listing(calls, trust, ui.rows, ui.hasMore, ui.debounced, ui.limit, server.matching)
  BY DEF ListCopy
<1>2. /\ ui'.search = ui.search /\ ui'.debounced = ui.debounced /\ ui'.limit = ui.limit
      /\ ui'.rows = ui.rows /\ ui'.hasMore = ui.hasMore /\ DOMAIN ui' = DOMAIN ui
  BY <1>1 DEF EventsLoaded, ChainLoaded, Audited, EvidenceOpened, PdfDownloaded, ListFields
<1>3. "list" \notin calls[s].on
  <2>1. ~ Vacant(s) /\ calls[s].then \in {"loadEvents", "loadChain", "audit", "openEvidence", "downloadEvidencePdf"}
    BY AnsweredIs DEF EventsLoaded, ChainLoaded, Audited, EvidenceOpened, PdfDownloaded
  <2> QED
    BY <2>1, WorkspaceCalls
<1>4. /\ \A o \in Slots \ {s} : calls'[o] = calls[o]
      /\ "list" \notin calls'[s].on /\ calls'[s].then # "loadSessions"
      /\ trust'["list"] = "clean" => trust["list"] = "clean"
  <2>1. CASE Finish(s)
    BY <2>1, FinishCalls, FreeFields
  <2>2. CASE EventsLoaded(s)
    <3> DEFINE on == {"view", "busy"}
    <3>1. SendFrom(trust, At(s, Call("read", on, calls[s].arg, "loadChain"))) /\ "list" \notin on
      BY <2>2 DEF EventsLoaded, Send
    <3> HIDE DEF on
    <3>2. /\ \A o \in Slots \ {s} : calls'[o] = calls[o]
          /\ calls'[s].on = on /\ calls'[s].then = "loadChain"
      BY <3>1, SentIs
    <3>3. trust'["list"] = "clean" => trust["list"] = "clean"
      BY <3>1, SentTrust
    <3> QED
      BY <3>1, <3>2, <3>3
  <2> QED
    BY <2>1, <2>2 DEF ChainLoaded, Audited, EvidenceOpened, PdfDownloaded
<1>5. /\ Wanted(calls', trust', ui.debounced, ui.limit) /\ OnItsWay(calls', trust', server.matching)
      /\ Listing(calls', trust', ui.rows, ui.hasMore, ui.debounced, ui.limit, server.matching)
  BY <1>1, <1>3, <1>4, ListKeeps
<1> QED
  BY <1>1, <1>2, <1>5 DEF ListCopy, ListFields

LEMMA ListStep ==
  ASSUME SceneInv, Orderly, ListCopy, ui.page \in {"list", "demo"}, WorkspaceNext
  PROVE  ListCopy'
<1>1. CASE ListMount \/ ListOffers \/ NewSession
  BY <1>1, ListOfferStep
<1>2. CASE SeedDemo
  <2>1. PICK s \in Slots : Vacant(s)
    BY <1>2 DEF SeedDemo, Start
  <2> QED
    BY <1>2, <2>1, DemoStep DEF SeedDemo
<1>3. ASSUME NEW s \in Slots, WorkspaceServe(s)
      PROVE  ListCopy'
  BY <1>3, ListServe
<1>4. ASSUME NEW s \in Slots, WorkspaceContinue(s)
      PROVE  ListCopy'
  BY <1>4, DemoStep, ListArrives, DemoArrives, ListElse, ListCaught DEF WorkspaceContinue
<1> QED
  BY <1>1, <1>2, <1>3, <1>4 DEF WorkspaceNext, PickOffers, SessionOffers

------------------------------------------------------------------------------
(***************************************************************************)
(* The selected session: while its copy is clean, every call about it is   *)
(* of that session, its events are there once the chain is asked for, and  *)
(* no verdict is of another.                                               *)
(***************************************************************************)
ViewFields ==
  {"session", "events", "chain", "verdicts", "busy", "err"} \subseteq DOMAIN ui

Viewed(cs, tr, session, events, chain, verdicts) ==
  tr["view"] = "clean" =>
    /\ \A s \in Slots : "view" \in cs[s].on => cs[s].arg = session
    /\ \A s \in Slots : cs[s].then = "loadChain" => events = session
    /\ (\A s \in Slots : "view" \in cs[s].on => cs[s].do = "write") => events = session /\ chain = session
    /\ verdicts \in {"", session}

ViewCopy ==
  ui.page \in {"view", "demo"} =>
    /\ ViewFields
    /\ Echoes(calls, "view")
    /\ Viewed(calls, trust, ui.session, ui.events, ui.chain, ui.verdicts)

ViewBusy ==
  ui.page \in {"view", "demo"} =>
    /\ OneOperation(calls, trust, "busy") /\ (trust["busy"] = "clean" => (ui.busy # "" <=> Held(calls, "busy")))

\* A session is selected: its events are read.
LEMMA SelectedView ==
  ASSUME SceneInv, ViewCopy, ui.page \in {"view", "demo"}, NEW base, NEW s \in Slots, NEW id,
         base["view"] = trust["view"], "view" \notin calls[s].on,
         SendFrom(base, At(s, LoadEvents(id))), NEW events, NEW chain, events = ui.events
  PROVE  Echoes(calls', "view") /\ Viewed(calls', trust', id, events, chain, "")
<1> "view" \in DOMAIN trust \ Flags
  BY ThingsKnown
<1>1. Echoes(calls, "view") /\ Viewed(calls, trust, ui.session, ui.events, ui.chain, ui.verdicts)
  BY DEF ViewCopy
<1> DEFINE on == {"view", "busy"}
<1>2. SendFrom(base, At(s, Call("read", on, id, "loadEvents"))) /\ "view" \in on
  BY DEF LoadEvents
<1>3. \A o \in Slots : calls[o].then = "loadChain" => "view" \in calls[o].on
  BY WorkspaceCalls, VacantIsNowhere
<1> HIDE DEF on
<1>4. Echoes(calls', "view")
  BY <1>1, <1>2, SentEchoes
<1>5. Follows(calls', trust', "view", "", id)
  BY <1>2, SentFollows
<1>6. /\ \A o \in Slots \ {s} : calls'[o] = calls[o]
      /\ "view" \in calls'[s].on /\ calls'[s].do = "read" /\ calls'[s].then = "loadEvents"
  BY <1>2, SentIs
<1>7. trust'["view"] = "clean" => trust["view"] = "clean" \/ \A o \in Slots \ {s} : "view" \notin calls[o].on
  BY <1>2, SentTrust
<1>8. ASSUME trust'["view"] = "clean", NEW o \in Slots, calls'[o].then = "loadChain"
      PROVE  events = id
  <2>1. o # s /\ calls'[o] = calls[o] /\ "view" \in calls[o].on
    BY <1>3, <1>6, <1>8
  <2>2. calls[o].arg = id
    BY <1>5, <1>8, <2>1 DEF Follows
  <2>3. calls[o].arg = ui.session /\ ui.events = ui.session
    BY <1>1, <1>7, <1>8, <2>1 DEF Viewed
  <2> QED
    BY <2>2, <2>3
<1>9. trust'["view"] = "clean" => \A o \in Slots : "view" \in calls'[o].on => calls'[o].arg = id
  BY <1>5 DEF Follows
<1>10. Viewed(calls', trust', id, events, chain, "")
  BY <1>6, <1>8, <1>9 DEF Viewed
<1> QED
  BY <1>4, <1>10

\* A call of the page that is about something else.
LEMMA ViewKeeps ==
  ASSUME SceneInv, ui.page \in {"view", "demo"}, ViewCopy, NEW s \in Slots,
         \A o \in Slots \ {s} : calls'[o] = calls[o],
         trust'["view"] = "clean" => trust["view"] = "clean",
         "view" \notin calls[s].on, "view" \notin calls'[s].on, calls'[s].then # "loadChain",
         ui'.session = ui.session, ui'.events = ui.events, ui'.chain = ui.chain, ui'.verdicts = ui.verdicts,
         DOMAIN ui' = DOMAIN ui
  PROVE  ViewCopy'
<1>1. ViewFields /\ Echoes(calls, "view") /\ Viewed(calls, trust, ui.session, ui.events, ui.chain, ui.verdicts)
  BY DEF ViewCopy
<1>2. Echoes(calls', "view")
  BY <1>1 DEF Echoes
<1>3. Viewed(calls', trust', ui.session, ui.events, ui.chain, ui.verdicts)
  BY <1>1 DEF Viewed
<1> QED
  BY <1>1, <1>2, <1>3 DEF ViewCopy, ViewFields
------------------------------------------------------------------------------
LEMMA ViewOffers ==
  ASSUME SceneInv, ViewCopy, ui.page \in {"view", "demo"},
         ListMount \/ ListOffers \/ NewSession \/ SeedDemo \/ PickOffers \/ SessionOffers
  PROVE  ViewCopy'
<1> "view" \in DOMAIN trust \ Flags
  BY ThingsKnown
<1>1. ViewFields /\ Echoes(calls, "view") /\ Viewed(calls, trust, ui.session, ui.events, ui.chain, ui.verdicts)
  BY DEF ViewCopy
<1>2. ASSUME ui'.session = ui.session, ui'.events = ui.events, ui'.chain = ui.chain, ui'.verdicts = ui.verdicts,
             DOMAIN ui' = DOMAIN ui, UNCHANGED calls, trust'["view"] = "clean" => trust["view"] = "clean"
      PROVE  ViewCopy'
  BY <1>1, <1>2 DEF ViewCopy, ViewFields, Viewed
<1>3. ASSUME ui'.session = ui.session, ui'.events = ui.events, ui'.chain = ui.chain, ui'.verdicts = ui.verdicts,
             DOMAIN ui' = DOMAIN ui, NEW do, NEW on, NEW arg, NEW then, Start(Call(do, on, arg, then)),
             "view" \notin on, then # "loadChain"
      PROVE  ViewCopy'
  <2>1. PICK s \in Slots : Vacant(s) /\ SendFrom(trust, At(s, Call(do, on, arg, then)))
    BY <1>3 DEF Start, Send
  <2>2. "view" \notin calls[s].on
    BY <2>1, VacantIsNowhere
  <2>3. /\ \A o \in Slots \ {s} : calls'[o] = calls[o]
        /\ calls'[s].on = on /\ calls'[s].then = then
    BY <2>1, SentIs
  <2>4. trust'["view"] = "clean" => trust["view"] = "clean"
    BY <1>3, <2>1, SentTrust
  <2> QED
    BY <1>3, <2>2, <2>3, <2>4, ViewKeeps
<1>4. CASE ListMount
  <2> DEFINE on == {"list"}
  <2>1. Start(Call("read", on, <<ui.debounced, ui.limit>>, "loadSessions")) /\ "view" \notin on /\ ui' = ui
    BY <1>4 DEF ListMount, LoadSessions
  <2> HIDE DEF on
  <2> QED
    BY <1>3, <2>1
<1>5. ASSUME NEW q, Search(q)
      PROVE  ViewCopy'
  <2>1. /\ ui'.session = ui.session /\ ui'.events = ui.events /\ ui'.chain = ui.chain /\ ui'.verdicts = ui.verdicts
        /\ DOMAIN ui' = DOMAIN ui /\ UNCHANGED <<calls, trust>>
    BY <1>1, <1>5 DEF Search, ViewFields
  <2> QED
    BY <1>2, <2>1
<1>6. CASE Debounce \/ LoadMore
  <2>1. /\ ui'.session = ui.session /\ ui'.events = ui.events /\ ui'.chain = ui.chain /\ ui'.verdicts = ui.verdicts
        /\ DOMAIN ui' = DOMAIN ui
    BY <1>1, <1>6 DEF Debounce, LoadMore, ViewFields
  <2> DEFINE on == {"list"}
  <2>2. UNCHANGED <<calls, trust>> \/ \E arg : Start(Call("read", on, arg, "loadSessions"))
    BY <1>6 DEF Debounce, LoadMore, LoadSessions
  <2>3. "view" \notin on
    OBVIOUS
  <2> HIDE DEF on
  <2> QED
    BY <1>2, <1>3, <2>1, <2>2, <2>3
<1>7. CASE NewSession
  <2>1. PICK new : Elsewhere("list", new)
    BY <1>7 DEF NewSession
  <2>2. UNCHANGED <<ui, calls>> /\ trust'["view"] = trust["view"]
    BY <2>1 DEF Elsewhere
  <2> QED
    BY <1>2, <2>2
<1>8. CASE SeedDemo
  <2>1. /\ ui'.session = ui.session /\ ui'.events = ui.events /\ ui'.chain = ui.chain /\ ui'.verdicts = ui.verdicts
        /\ DOMAIN ui' = DOMAIN ui
    BY <1>1, <1>8 DEF SeedDemo, ViewFields
  <2> DEFINE on == {"list", "busy"}
  <2>2. Start(Call("write", on, <<ui.debounced, ui.limit>>, "seedDemo")) /\ "view" \notin on
    BY <1>8 DEF SeedDemo
  <2> HIDE DEF on
  <2> QED
    BY <1>3, <2>1, <2>2
<1>9. ASSUME NEW id, Load(id)
      PROVE  ViewCopy'
  <2>1. /\ ui'.session = id /\ ui'.events = ui.events /\ ui'.chain = ui.chain /\ ui'.verdicts = ""
        /\ DOMAIN ui' = DOMAIN ui
    BY <1>1, <1>9 DEF Load, Selected, ViewFields
  <2>2. PICK s \in Slots : Vacant(s) /\ SendFrom(trust, At(s, LoadEvents(id)))
    BY <1>9 DEF Load, Start, Send
  <2>3. "view" \notin calls[s].on
    BY <2>2, VacantIsNowhere
  <2>4. Echoes(calls', "view") /\ Viewed(calls', trust', id, ui'.events, ui'.chain, "")
    BY <2>1, <2>2, <2>3, SelectedView
  <2> QED
    BY <1>1, <2>1, <2>4 DEF ViewCopy, ViewFields
<1>10. ASSUME NEW id, Paste(id)
       PROVE  ViewCopy'
  <2>1. trust'["view"] = "raced" /\ DOMAIN ui' = DOMAIN ui /\ UNCHANGED calls
    BY <1>1, <1>10 DEF Paste, ViewFields
  <2> QED
    BY <1>1, <2>1 DEF ViewCopy, ViewFields, Viewed
<1>11. CASE Audit
  <2>1. /\ ui'.session = ui.session /\ ui'.events = ui.events /\ ui'.chain = ui.chain /\ ui'.verdicts = ui.verdicts
        /\ DOMAIN ui' = DOMAIN ui
    BY <1>1, <1>11 DEF Audit, ViewFields
  <2> DEFINE on == {"view", "busy"}
  <2>2. Start(Call("write", on, ui.session, "audit")) /\ "view" \in on
    BY <1>11 DEF Audit
  <2> HIDE DEF on
  <2>3. PICK s \in Slots : Vacant(s) /\ SendFrom(trust, At(s, Call("write", on, ui.session, "audit")))
    BY <2>2 DEF Start, Send
  <2>4. /\ \A o \in Slots \ {s} : calls'[o] = calls[o]
        /\ calls'[s].on = on /\ calls'[s].then = "audit" /\ calls'[s].arg = ui.session /\ calls'[s].do = "write"
    BY <2>3, SentIs
  <2>5. trust'["view"] = "clean" => trust["view"] = "clean"
    BY <2>3, SentTrust
  <2>6. calls[s].on = {}
    BY <2>3, VacantIsNowhere
  <2>7. Viewed(calls', trust', ui.session, ui.events, ui.chain, ui.verdicts)
    BY <1>1, <2>4, <2>5, <2>6 DEF Viewed
  <2>8. Echoes(calls', "view")
    BY <1>1, <2>3, SentEchoes
  <2> QED
    BY <1>1, <2>1, <2>7, <2>8 DEF ViewCopy, ViewFields
<1>12. CASE OpenEvidence \/ DownloadEvidencePdf
  <2>1. /\ ui'.session = ui.session /\ ui'.events = ui.events /\ ui'.chain = ui.chain /\ ui'.verdicts = ui.verdicts
        /\ DOMAIN ui' = DOMAIN ui
    BY <1>1, <1>12 DEF OpenEvidence, DownloadEvidencePdf, ViewFields
  <2> DEFINE none == {}
             on == {"busy"}
  <2>2. \/ Start(Call("read", none, ui.session, "openEvidence"))
        \/ Start(Call("read", on, ui.session, "downloadEvidencePdf"))
    BY <1>12 DEF OpenEvidence, DownloadEvidencePdf
  <2>3. "view" \notin on /\ "view" \notin none
    OBVIOUS
  <2> HIDE DEF on, none
  <2> QED
    BY <1>3, <2>1, <2>2, <2>3
<1> QED
  BY <1>4, <1>5, <1>6, <1>7, <1>8, <1>9, <1>10, <1>11, <1>12 DEF ListOffers, PickOffers, SessionOffers

LEMMA ViewServe ==
  ASSUME SceneInv, Orderly, ViewCopy, ui.page \in {"view", "demo"}, NEW s \in Slots, WorkspaceServe(s)
  PROVE  ViewCopy'
<1>1. ViewFields /\ Echoes(calls, "view") /\ Viewed(calls, trust, ui.session, ui.events, ui.chain, ui.verdicts)
  BY DEF ViewCopy
<1>2. PICK new, ans : Serve(s, new, ans) /\ ("view" \in calls[s].on => ans = calls[s].arg)
  <2> DEFINE asked == ListSessions(calls[s].arg[1], calls[s].arg[2])
             more  == [server EXCEPT !.matching[""] = @ + 1]
  <2>1. \/ calls[s].then \in {"loadSessions", "listDemo"} /\ Serve(s, server, asked)
        \/ calls[s].then = "seedDemo" /\ Serve(s, more, "")
        \/ Serve(s, server, calls[s].arg)
    BY DEF WorkspaceServe
  <2> HIDE DEF asked, more
  <2>2. ~ Vacant(s)
    BY <2>1, ServeIs
  <2>3. calls[s].then \in {"loadSessions", "listDemo", "seedDemo"} => "view" \notin calls[s].on
    BY <2>2, WorkspaceCalls
  <2> QED
    BY <2>1, <2>3
<1>3. /\ \A o \in Slots \ {s} : calls'[o] = calls[o]
      /\ UNCHANGED <<ui, trust>>
      /\ \/ calls'[s] = Free /\ calls[s].st = "late"
         \/ /\ calls'[s].on = calls[s].on /\ calls'[s].then = calls[s].then
            /\ calls'[s].do = calls[s].do /\ calls'[s].arg = calls[s].arg
  BY <1>2, ServeCalls
<1>4. Echoes(calls', "view")
  BY <1>1, <1>2, ServeEchoes
<1>5. calls[s].st = "late" => calls[s].do = "write" /\ calls[s].then # "loadChain"
  BY WorkspaceCalls, LateIsAWrite DEF Vacant
<1>6. Viewed(calls', trust', ui.session, ui.events, ui.chain, ui.verdicts)
  BY <1>1, <1>3, <1>5, FreeFields DEF Viewed
<1> QED
  BY <1>1, <1>3, <1>4, <1>6 DEF ViewCopy, ViewFields

\* The page goes on with a call about the session.
LEMMA ViewArrives ==
  ASSUME SceneInv, ViewCopy, ui.page \in {"view", "demo"}, NEW s \in Slots,
         EventsLoaded(s) \/ ChainLoaded(s) \/ Audited(s)
  PROVE  ViewCopy'
<1> "view" \in DOMAIN trust \ Flags
  BY ThingsKnown
<1>1. ViewFields /\ Echoes(calls, "view") /\ Viewed(calls, trust, ui.session, ui.events, ui.chain, ui.verdicts)
  BY DEF ViewCopy
<1>2. ~ Vacant(s) /\ calls[s].st = "back" /\ calls[s].then \in {"loadEvents", "loadChain", "audit"}
  BY AnsweredIs DEF EventsLoaded, ChainLoaded, Audited, Answered
<1>3. "view" \in calls[s].on
  BY <1>2, WorkspaceCalls
<1>4. calls[s].ans = calls[s].arg
  BY <1>1, <1>2, <1>3 DEF Echoes
<1>5. trust["view"] = "clean" => calls[s].arg = ui.session
  BY <1>1, <1>3 DEF Viewed
<1>6. CASE EventsLoaded(s)
  <2>1. /\ ui'.session = ui.session /\ ui'.events = calls[s].ans /\ ui'.chain = ui.chain
        /\ ui'.verdicts = ui.verdicts /\ DOMAIN ui' = DOMAIN ui
    BY <1>1, <1>6 DEF EventsLoaded, ViewFields
  <2> DEFINE on == {"view", "busy"}
  <2>2. SendFrom(trust, At(s, Call("read", on, calls[s].arg, "loadChain"))) /\ "view" \in on
    BY <1>6 DEF EventsLoaded, Send
  <2> HIDE DEF on
  <2>3. /\ \A o \in Slots \ {s} : calls'[o] = calls[o]
        /\ calls'[s].on = on /\ calls'[s].do = "read" /\ calls'[s].arg = calls[s].arg
    BY <2>2, SentIs
  <2>4. calls[s].do = "read"
    BY <1>2, <1>6, WorkspaceCalls DEF EventsLoaded, Answered
  <2>5. trust'["view"] = "clean" => trust["view"] = "clean"
    BY <1>3, <2>2, <2>4, SentTrust
  <2>6. Viewed(calls', trust', ui.session, ui'.events, ui.chain, ui.verdicts)
    BY <1>1, <1>4, <1>5, <2>1, <2>2, <2>3, <2>5 DEF Viewed
  <2>7. Echoes(calls', "view")
    BY <1>1, <2>2, SentEchoes
  <2> QED
    BY <1>1, <2>1, <2>6, <2>7 DEF ViewCopy, ViewFields
<1>7. CASE ChainLoaded(s)
  <2>1. /\ ui'.session = ui.session /\ ui'.events = ui.events /\ ui'.chain = calls[s].ans
        /\ ui'.verdicts = ui.verdicts /\ DOMAIN ui' = DOMAIN ui /\ Finish(s)
    BY <1>1, <1>7 DEF ChainLoaded, ViewFields
  <2>2. calls[s].then = "loadChain"
    BY <1>7 DEF ChainLoaded, Answered
  <2>3. (\A o \in Slots \ {s} : calls'[o] = calls[o]) /\ calls'[s] = Free /\ UNCHANGED trust
    BY <2>1, FinishCalls
  <2>4. trust["view"] = "clean" => ui.events = ui.session /\ ui'.chain = ui.session
    BY <1>1, <1>4, <1>5, <2>1, <2>2 DEF Viewed
  <2>5. Viewed(calls', trust', ui.session, ui.events, ui'.chain, ui.verdicts)
    BY <1>1, <2>3, <2>4, FreeFields DEF Viewed
  <2> QED
    BY <1>1, <2>1, <2>5, EndEchoes DEF ViewCopy, ViewFields
<1>8. CASE Audited(s)
  <2>1. /\ ui'.session = ui.session /\ ui'.events = ui.events /\ ui'.chain = ui.chain
        /\ ui'.verdicts = calls[s].ans /\ DOMAIN ui' = DOMAIN ui /\ Finish(s)
    BY <1>1, <1>8 DEF Audited, ViewFields
  <2>2. calls[s].do = "write"
    BY <1>2, <1>8, WorkspaceCalls DEF Audited, Answered
  <2>3. (\A o \in Slots \ {s} : calls'[o] = calls[o]) /\ calls'[s] = Free /\ UNCHANGED trust
    BY <2>1, FinishCalls
  <2>4. Viewed(calls', trust', ui.session, ui.events, ui.chain, ui'.verdicts)
    BY <1>1, <1>4, <1>5, <2>1, <2>2, <2>3, FreeFields DEF Viewed
  <2> QED
    BY <1>1, <2>1, <2>4, EndEchoes DEF ViewCopy, ViewFields
<1> QED
  BY <1>6, <1>7, <1>8

\* The page goes on with any other call.
LEMMA ViewElse ==
  ASSUME SceneInv, ViewCopy, ui.page \in {"view", "demo"}, NEW s \in Slots,
         SessionsLoaded(s) \/ DemoSeeded(s) \/ EvidenceOpened(s) \/ PdfDownloaded(s)
  PROVE  ViewCopy'
<1> "view" \in DOMAIN trust \ Flags
  BY ThingsKnown
<1>1. ViewFields
  BY DEF ViewCopy
<1>2. /\ ui'.session = ui.session /\ ui'.events = ui.events /\ ui'.chain = ui.chain
      /\ ui'.verdicts = ui.verdicts /\ DOMAIN ui' = DOMAIN ui
  BY <1>1 DEF SessionsLoaded, Listed, DemoSeeded, EvidenceOpened, PdfDownloaded, ViewFields
<1>3. "view" \notin calls[s].on
  <2>1. ~ Vacant(s) /\ calls[s].then \in {"loadSessions", "seedDemo", "openEvidence", "downloadEvidencePdf"}
    BY AnsweredIs DEF SessionsLoaded, DemoSeeded, EvidenceOpened, PdfDownloaded
  <2> QED
    BY <2>1, WorkspaceCalls
<1>4. CASE Finish(s)
  BY <1>2, <1>3, <1>4, FinishCalls, FreeFields, ViewKeeps
<1>5. CASE DemoSeeded(s)
  <2> DEFINE on == {"list", "busy"}
  <2>1. SendFrom(trust, At(s, Call("read", on, calls[s].arg, "listDemo"))) /\ "view" \notin on
    BY <1>5 DEF DemoSeeded, Send
  <2> HIDE DEF on
  <2>2. /\ \A o \in Slots \ {s} : calls'[o] = calls[o]
        /\ calls'[s].on = on /\ calls'[s].then = "listDemo"
    BY <2>1, SentIs
  <2>3. trust'["view"] = "clean" => trust["view"] = "clean"
    BY <2>1, SentTrust
  <2> QED
    BY <1>2, <1>3, <2>1, <2>2, <2>3, ViewKeeps
<1> QED
  BY <1>4, <1>5 DEF SessionsLoaded, EvidenceOpened, PdfDownloaded

LEMMA ViewDemo ==
  ASSUME SceneInv, ViewCopy, ui.page \in {"view", "demo"}, NEW s \in Slots, DemoListed(s)
  PROVE  ViewCopy'
<1> "view" \in DOMAIN trust \ Flags
  BY ThingsKnown
<1>1. ViewFields
  BY DEF ViewCopy
<1>2. /\ ui'.session = "demo" /\ ui'.events = ui.events /\ ui'.chain = ui.chain
      /\ ui'.verdicts = "" /\ DOMAIN ui' = DOMAIN ui
  BY <1>1 DEF DemoListed, Selected, ViewFields
<1>3. calls[s].then = "listDemo" /\ ~ Vacant(s)
  BY DEF DemoListed, Answered, Vacant
<1>4. "view" \notin calls[s].on
  BY <1>3, WorkspaceCalls
<1>5. PICK base \in {Overtaken(s), Doubts(s)} : SendFrom(base, At(s, LoadEvents("demo")))
  BY DEF DemoListed
<1>6. base["view"] = trust["view"]
  BY <1>4, <1>5 DEF Overtaken, Doubts
<1>7. Echoes(calls', "view") /\ Viewed(calls', trust', "demo", ui'.events, ui'.chain, "")
  BY <1>2, <1>4, <1>5, <1>6, SelectedView
<1> QED
  BY <1>1, <1>2, <1>7 DEF ViewCopy, ViewFields

LEMMA ViewCaught ==
  ASSUME SceneInv, ViewCopy, ui.page \in {"view", "demo"}, NEW s \in Slots, WorkspaceCatch(s)
  PROVE  ViewCopy'
<1> "view" \in DOMAIN trust \ Flags
  BY ThingsKnown
<1>1. ViewFields /\ Echoes(calls, "view")
  BY DEF ViewCopy
<1>2. /\ ui'.session = ui.session /\ ui'.events = ui.events /\ ui'.chain = ui.chain
      /\ ui'.verdicts = ui.verdicts /\ DOMAIN ui' = DOMAIN ui
  BY <1>1 DEF WorkspaceCatch, ViewFields
<1>3. /\ \A o \in Slots \ {s} : calls'[o] = calls[o]
      /\ calls'[s] = Free \/ (calls'[s].on \subseteq calls[s].on /\ calls'[s].then = calls[s].then)
      /\ trust'["view"] = IF "view" \in calls[s].on THEN "failed" ELSE trust["view"]
  BY ThrowCalls DEF WorkspaceCatch
<1>4. CASE "view" \in calls[s].on
  <2>1. Echoes(calls', "view")
    BY <1>1, EndEchoes DEF WorkspaceCatch
  <2> QED
    BY <1>1, <1>2, <1>3, <1>4, <2>1 DEF ViewCopy, ViewFields, Viewed
<1>5. CASE "view" \notin calls[s].on
  <2>1. calls[s].then # "loadChain" /\ "view" \notin calls'[s].on
    BY <1>3, <1>5, WorkspaceCalls, VacantIsNowhere, FreeFields
  <2>2. calls'[s].then # "loadChain"
    BY <1>3, <2>1, FreeFields
  <2> QED
    BY <1>2, <1>3, <1>5, <2>1, <2>2, ViewKeeps
<1> QED
  BY <1>4, <1>5

LEMMA ViewStep ==
  ASSUME SceneInv, Orderly, ViewCopy, ui.page \in {"view", "demo"}, WorkspaceNext
  PROVE  ViewCopy'
<1>1. ASSUME NEW s \in Slots, WorkspaceServe(s)
      PROVE  ViewCopy'
  BY <1>1, ViewServe
<1>2. ASSUME NEW s \in Slots, WorkspaceContinue(s)
      PROVE  ViewCopy'
  BY <1>2, ViewArrives, ViewElse, ViewDemo, ViewCaught DEF WorkspaceContinue
<1> QED
  BY <1>1, <1>2, ViewOffers DEF WorkspaceNext
------------------------------------------------------------------------------
\* The one flag of the workspace page.
LEMMA BusyOffers ==
  ASSUME SceneInv, ViewCopy, ViewBusy, ui.page \in {"view", "demo"},
         ListMount \/ ListOffers \/ NewSession \/ SeedDemo \/ PickOffers \/ SessionOffers
  PROVE  ViewBusy'
<1> "busy" \in DOMAIN trust \cap Flags
  BY ThingsKnown
<1>1. /\ OneOperation(calls, trust, "busy") /\ (trust["busy"] = "clean" => (ui.busy # "" <=> Held(calls, "busy")))
      /\ "busy" \in DOMAIN ui
  BY DEF ViewCopy, ViewBusy, ViewFields
<1>2. ASSUME ui'.busy = ui.busy, UNCHANGED calls, trust'["busy"] = trust["busy"]
      PROVE  ViewBusy'
  BY <1>1, <1>2 DEF ViewBusy, OneOperation
<1>3. ASSUME NEW do, NEW on, NEW arg, NEW then, Start(Call(do, on, arg, then)),
             IF "busy" \in on THEN ui'.busy # "" ELSE ui'.busy = ui.busy
      PROVE  ViewBusy'
  <2>1. /\ OneOperation(calls', trust', "busy")
        /\ "busy" \in on => Held(calls', "busy")
        /\ "busy" \notin on => (Held(calls', "busy") <=> Held(calls, "busy"))
        /\ trust'["busy"] = "clean" /\ "busy" \notin on => trust["busy"] = "clean"
    BY <1>1, <1>3, StartHeld
  <2> QED
    BY <1>1, <1>3, <2>1 DEF ViewBusy
<1>4. CASE ListMount
  <2> DEFINE on == {"list"}
  <2>1. Start(Call("read", on, <<ui.debounced, ui.limit>>, "loadSessions")) /\ "busy" \notin on /\ ui' = ui
    BY <1>4 DEF ListMount, LoadSessions
  <2> HIDE DEF on
  <2> QED
    BY <1>3, <2>1
<1>5. ASSUME NEW q, Search(q)
      PROVE  ViewBusy'
  <2>1. ui'.busy = ui.busy /\ UNCHANGED <<calls, trust>>
    BY <1>1, <1>5 DEF Search
  <2> QED
    BY <1>2, <2>1
<1>6. CASE Debounce \/ LoadMore
  <2>1. ui'.busy = ui.busy
    BY <1>1, <1>6 DEF Debounce, LoadMore
  <2> DEFINE on == {"list"}
  <2>2. UNCHANGED <<calls, trust>> \/ \E arg : Start(Call("read", on, arg, "loadSessions"))
    BY <1>6 DEF Debounce, LoadMore, LoadSessions
  <2>3. "busy" \notin on
    OBVIOUS
  <2> HIDE DEF on
  <2> QED
    BY <1>2, <1>3, <2>1, <2>2, <2>3
<1>7. CASE NewSession
  <2>1. PICK new : Elsewhere("list", new)
    BY <1>7 DEF NewSession
  <2>2. UNCHANGED <<ui, calls>> /\ trust'["busy"] = trust["busy"]
    BY <2>1 DEF Elsewhere
  <2> QED
    BY <1>2, <2>2
<1>8. CASE SeedDemo
  <2>1. ui'.busy = "demo"
    BY <1>1, <1>8 DEF SeedDemo
  <2> DEFINE on == {"list", "busy"}
  <2>2. Start(Call("write", on, <<ui.debounced, ui.limit>>, "seedDemo")) /\ "busy" \in on
    BY <1>8 DEF SeedDemo
  <2> HIDE DEF on
  <2> QED
    BY <1>3, <2>1, <2>2
<1>9. ASSUME NEW id, Load(id)
      PROVE  ViewBusy'
  <2>1. ui'.busy = "load"
    BY <1>1, <1>9 DEF Load, Selected
  <2> DEFINE on == {"view", "busy"}
  <2>2. Start(Call("read", on, id, "loadEvents")) /\ "busy" \in on
    BY <1>9 DEF Load, LoadEvents
  <2> HIDE DEF on
  <2> QED
    BY <1>3, <2>1, <2>2
<1>10. ASSUME NEW id, Paste(id)
       PROVE  ViewBusy'
  <2>1. trust'["busy"] = trust["busy"] /\ ui'.busy = ui.busy /\ UNCHANGED calls
    BY <1>1, <1>10 DEF Paste
  <2> QED
    BY <1>2, <2>1
<1>11. CASE Audit
  <2>1. ui'.busy = "audit"
    BY <1>1, <1>11 DEF Audit
  <2> DEFINE on == {"view", "busy"}
  <2>2. Start(Call("write", on, ui.session, "audit")) /\ "busy" \in on
    BY <1>11 DEF Audit
  <2> HIDE DEF on
  <2> QED
    BY <1>3, <2>1, <2>2
<1>12. CASE OpenEvidence
  <2> DEFINE on == {}
  <2>1. Start(Call("read", on, ui.session, "openEvidence")) /\ "busy" \notin on /\ ui' = ui
    BY <1>12 DEF OpenEvidence
  <2> HIDE DEF on
  <2> QED
    BY <1>3, <2>1
<1>13. CASE DownloadEvidencePdf
  <2>1. ui'.busy = "pdf"
    BY <1>1, <1>13 DEF DownloadEvidencePdf
  <2> DEFINE on == {"busy"}
  <2>2. Start(Call("read", on, ui.session, "downloadEvidencePdf")) /\ "busy" \in on
    BY <1>13 DEF DownloadEvidencePdf
  <2> HIDE DEF on
  <2> QED
    BY <1>3, <2>1, <2>2
<1> QED
  BY <1>4, <1>5, <1>6, <1>7, <1>8, <1>9, <1>10, <1>11, <1>12, <1>13 DEF ListOffers, PickOffers, SessionOffers

\* The operation goes on, and the flag stays as it is.
LEMMA BusyGoesOn ==
  ASSUME SceneInv, ViewCopy, ViewBusy, ui.page \in {"view", "demo"}, NEW s \in Slots,
         DemoSeeded(s) \/ EventsLoaded(s) \/ DemoListed(s)
  PROVE  ViewBusy'
<1> "busy" \in DOMAIN trust \cap Flags
  BY ThingsKnown
<1>1. /\ OneOperation(calls, trust, "busy") /\ (trust["busy"] = "clean" => (ui.busy # "" <=> Held(calls, "busy")))
      /\ "busy" \in DOMAIN ui
  BY DEF ViewCopy, ViewBusy, ViewFields
<1>2. ~ Vacant(s) /\ calls[s].then \in {"seedDemo", "loadEvents", "listDemo"}
  BY AnsweredIs DEF DemoSeeded, EventsLoaded, DemoListed, Answered, Vacant
<1>3. calls[s].st # "late"
  BY DEF DemoSeeded, EventsLoaded, DemoListed, Answered
<1>4. "busy" \in calls[s].on
  BY <1>2, <1>3, WorkspaceCalls
<1>5. ASSUME NEW base, base["busy"] = trust["busy"], NEW on, "busy" \in on, NEW arg, NEW then,
             SendFrom(base, At(s, Call("read", on, arg, then))),
             ui'.busy # "" \/ ui'.busy = ui.busy
      PROVE  ViewBusy'
  <2>1. /\ OneOperation(calls', trust', "busy") /\ Held(calls', "busy")
        /\ trust'["busy"] = "clean" => trust["busy"] = "clean"
    <3>1. OneOperation(calls, trust, "busy") /\ base["busy"] = trust["busy"]
      BY <1>1, <1>5
    <3>2. "busy" \in on /\ SendFrom(base, At(s, Call("read", on, arg, then)))
      BY <1>5
    <3>3. /\ OneOperation(calls', trust', "busy")
          /\ "busy" \in on => Held(calls', "busy")
          /\ trust'["busy"] = "clean" /\ ("busy" \notin on \/ "busy" \in calls[s].on) => trust["busy"] = "clean"
      BY <3>1, <3>2, SentHeld
    <3> QED
      BY <1>4, <3>2, <3>3
  <2>2. Held(calls, "busy")
    BY <1>4 DEF Held
  <2> QED
    BY <1>1, <1>5, <2>1, <2>2 DEF ViewBusy
<1> DEFINE list == {"list", "busy"}
           view == {"view", "busy"}
<1>6. "busy" \in list /\ "busy" \in view
  OBVIOUS
<1>7. DemoSeeded(s) => SendFrom(trust, At(s, Call("read", list, calls[s].arg, "listDemo"))) /\ ui' = ui
  BY DEF DemoSeeded, Send
<1>8. EventsLoaded(s) =>
        SendFrom(trust, At(s, Call("read", view, calls[s].arg, "loadChain"))) /\ ui'.busy = ui.busy
  BY <1>1 DEF EventsLoaded, Send
<1>9. DemoListed(s) =>
        \E base \in {Overtaken(s), Doubts(s)} : SendFrom(base, At(s, Call("read", view, "demo", "loadEvents")))
  BY DEF DemoListed, LoadEvents
<1>10. DemoListed(s) => ui'.busy = "load"
  BY <1>1 DEF DemoListed, Selected
<1> HIDE DEF list, view
<1>11. CASE DemoSeeded(s)
  BY <1>5, <1>6, <1>7, <1>11
<1>12. CASE EventsLoaded(s)
  BY <1>5, <1>6, <1>8, <1>12
<1>13. CASE DemoListed(s)
  <2>1. PICK base \in {Overtaken(s), Doubts(s)} : SendFrom(base, At(s, Call("read", view, "demo", "loadEvents")))
    BY <1>9, <1>13
  <2>2. base["busy"] = trust["busy"]
    BY <2>1 DEF Overtaken, Doubts
  <2> QED
    BY <1>5, <1>6, <1>10, <1>13, <2>1, <2>2
<1> QED
  BY <1>11, <1>12, <1>13

\* It ends.
LEMMA BusyEnded ==
  ASSUME SceneInv, ViewCopy, ViewBusy, ui.page \in {"view", "demo"}, NEW s \in Slots,
         \/ SessionsLoaded(s) \/ ChainLoaded(s) \/ Audited(s) \/ EvidenceOpened(s) \/ PdfDownloaded(s)
         \/ WorkspaceCatch(s)
  PROVE  ViewBusy'
<1> "busy" \in DOMAIN trust \cap Flags
  BY ThingsKnown
<1>1. /\ OneOperation(calls, trust, "busy") /\ (trust["busy"] = "clean" => (ui.busy # "" <=> Held(calls, "busy")))
      /\ "busy" \in DOMAIN ui
  BY DEF ViewCopy, ViewBusy, ViewFields
<1>2. ~ Vacant(s)
  BY AnsweredIs, ThrowIs
     DEF SessionsLoaded, ChainLoaded, Audited, EvidenceOpened, PdfDownloaded, WorkspaceCatch
<1>3. calls[s].st # "late"
  BY DEF SessionsLoaded, ChainLoaded, Audited, EvidenceOpened, PdfDownloaded, WorkspaceCatch, Answered, Throw, Open
<1>4. \/ /\ ui'.busy = ui.busy
         /\ calls[s].then \in {"loadSessions", "openEvidence"}
      \/ /\ ui'.busy = ""
         /\ calls[s].then \in {"seedDemo", "loadEvents", "loadChain", "audit", "downloadEvidencePdf"}
  <2>1. CASE SessionsLoaded(s) \/ EvidenceOpened(s)
    BY <1>1, <2>1 DEF SessionsLoaded, Listed, EvidenceOpened, Answered
  <2>2. CASE ChainLoaded(s) \/ Audited(s) \/ PdfDownloaded(s)
    BY <1>1, <2>2 DEF ChainLoaded, Audited, PdfDownloaded, Answered
  <2>3. CASE WorkspaceCatch(s)
    BY <1>1, <2>3 DEF WorkspaceCatch
  <2> QED
    BY <2>1, <2>2, <2>3
<1>5. Finish(s) \/ Throw(s)
  BY DEF SessionsLoaded, ChainLoaded, Audited, EvidenceOpened, PdfDownloaded, WorkspaceCatch
<1>6. /\ OneOperation(calls', trust', "busy") /\ trust'["busy"] = trust["busy"]
      /\ "busy" \notin calls[s].on => (Held(calls', "busy") <=> Held(calls, "busy"))
      /\ trust["busy"] = "clean" /\ "busy" \in calls[s].on /\ calls[s].then \notin {"allFramework", "allRules"}
         => ~ Held(calls', "busy")
  <2>1. OneOperation(calls, trust, "busy")
    BY <1>1
  <2>2. CASE Finish(s)
    BY <2>1, <2>2, FinishHeld
  <2>3. CASE Throw(s)
    BY <2>1, <2>3, ThrowHeld
  <2> QED
    BY <1>5, <2>2, <2>3
<1>7. CASE ui'.busy = ui.busy /\ calls[s].then \in {"loadSessions", "openEvidence"}
  <2>1. "busy" \notin calls[s].on
    BY <1>2, <1>7, WorkspaceCalls
  <2> QED
    BY <1>1, <1>6, <1>7, <2>1 DEF ViewBusy
<1>8. CASE ui'.busy = "" /\ calls[s].then \in {"seedDemo", "loadEvents", "loadChain", "audit", "downloadEvidencePdf"}
  <2>1. "busy" \in calls[s].on
    BY <1>2, <1>3, <1>8, WorkspaceCalls
  <2>2. calls[s].then \notin {"allFramework", "allRules"}
    BY <1>8
  <2> QED
    BY <1>6, <1>8, <2>1, <2>2 DEF ViewBusy
<1> QED
  BY <1>4, <1>7, <1>8

LEMMA BusyStep ==
  ASSUME SceneInv, ViewCopy, ViewBusy, ui.page \in {"view", "demo"}, WorkspaceNext
  PROVE  ViewBusy'
<1> "busy" \in DOMAIN trust \cap Flags
  BY ThingsKnown
<1>1. ASSUME NEW s \in Slots, WorkspaceServe(s)
      PROVE  ViewBusy'
  <2>1. PICK new, ans : Serve(s, new, ans)
    BY <1>1 DEF WorkspaceServe
  <2>2. /\ OneOperation(calls, trust, "busy") => OneOperation(calls', trust', "busy")
        /\ (Held(calls', "busy") <=> Held(calls, "busy")) /\ UNCHANGED trust
    BY <2>1, ServeHeld
  <2>3. UNCHANGED ui
    BY <2>1, ServeIs
  <2> QED
    BY <2>2, <2>3 DEF ViewBusy
<1>2. ASSUME NEW s \in Slots, WorkspaceContinue(s)
      PROVE  ViewBusy'
  BY <1>2, BusyGoesOn, BusyEnded DEF WorkspaceContinue
<1> QED
  BY <1>1, <1>2, BusyOffers DEF WorkspaceNext
------------------------------------------------------------------------------
(***************************************************************************)
(* What every page keeps, whatever handlers of it have run.                *)
(***************************************************************************)
CopyInv ==
  /\ SceneInv /\ Orderly
  /\ ByokCard /\ PolicyCopy /\ ScheduleCopy /\ WebhookCopy
  /\ KeysCopy /\ TeamCopy /\ PlanCopy
  /\ TrendCopy /\ SessionCopy /\ FormBusy
  /\ ListCopy /\ ViewCopy /\ ViewBusy

\* On a page that just opened nothing is known of a copy, and nothing is under way.
LEMMA OpenedThings ==
  ASSUME Init
  PROVE  /\ \A r \in DOMAIN trust \ Flags : trust[r] = "raced"
         /\ \A s \in Slots : calls[s].on = {} /\ calls[s].st = "free" /\ calls[s].then = ""
<1>1. calls = [s \in Slots |-> Free]
  BY DEF Init
<1> QED
  BY <1>1, FreeFields DEF Init

LEMMA OpenedCopies ==
  ASSUME Init, NEW r \in DOMAIN trust \ Flags
  PROVE  /\ \A shown, stored : Mirrors(calls, trust, r, shown, stored) /\ Follows(calls, trust, r, shown, stored)
         /\ ~ Adrift(calls, trust, r) /\ Echoes(calls, r)
BY OpenedThings DEF Mirrors, Follows, Adrift, Echoes

LEMMA OpenedFlags ==
  ASSUME Init, NEW f
  PROVE  OneOperation(calls, trust, f) /\ ~ Held(calls, f)
BY OpenedThings DEF OneOperation, Held

\* The first state of every page, as far as its handlers need it.
LEMMA OpenedCards ==
  ASSUME Init
  PROVE  \/ ui.page = "byok" /\ {"configured", "key", "err"} \subseteq DOMAIN ui /\ "byok" \in DOMAIN server
         \/ /\ ui.page = "policy"
            /\ {"framework", "rules", "ruleBusy", "ruleErr", "frameworkBusy", "frameworkErr"} \subseteq DOMAIN ui
            /\ {"framework", "custom"} \subseteq DOMAIN server /\ ui.ruleBusy = FALSE /\ ui.frameworkBusy = FALSE
         \/ /\ ui.page = "schedule" /\ {"schedule", "interval", "busy", "err"} \subseteq DOMAIN ui
            /\ "schedule" \in DOMAIN server /\ ui.busy = FALSE
         \/ /\ ui.page = "webhook" /\ {"webhook", "url", "busy", "err"} \subseteq DOMAIN ui
            /\ "webhook" \in DOMAIN server /\ ui.busy = FALSE
         \/ ui.page = "keys" /\ {"keys", "loading", "err"} \subseteq DOMAIN ui /\ "keys" \in DOMAIN server
         \/ /\ ui.page = "team" /\ {"team", "busy", "err"} \subseteq DOMAIN ui
            /\ "team" \in DOMAIN server /\ ui.busy = FALSE
         \/ /\ ui.page = "billing" /\ {"plan", "busy", "away", "loading", "err"} \subseteq DOMAIN ui
            /\ "plan" \in DOMAIN server /\ ui.busy = ""
         \/ ui.page = "insights" /\ {"days", "data", "hover", "err"} \subseteq DOMAIN ui
         \/ /\ ui.page = "session" /\ {"token", "loading", "unsure"} \subseteq DOMAIN ui
            /\ {"session", "orgs"} \subseteq DOMAIN server
         \/ ui.page \in {"login", "reset"} /\ {"busy", "err"} \subseteq DOMAIN ui /\ ui.busy = FALSE
         \/ ui.page = "callback"
         \/ ui.page = "list" /\ ListFields
         \/ ui.page = "view" /\ ViewFields /\ ui.busy = ""
         \/ ui.page = "demo" /\ ListFields /\ ViewFields /\ ui.busy = ""
<1>1. CASE SettingsInit
  <2>1. CASE ui = KeyCard /\ server \in [byok : {"set", "unset"}]
    BY <2>1 DEF KeyCard
  <2>2. CASE ui = PolicyCard /\ server \in [framework : Frameworks, custom : SUBSET RuleIds]
    BY <2>2 DEF PolicyCard
  <2>3. CASE ui = ScheduleCard /\ server = [schedule |-> [enabled |-> FALSE, every |-> 60]]
    BY <2>3 DEF ScheduleCard
  <2>4. CASE ui = HookCard /\ server \in [webhook : {"none"} \cup Urls]
    BY <2>4 DEF HookCard
  <2> QED
    BY <1>1, <2>1, <2>2, <2>3, <2>4 DEF SettingsInit
<1>2. CASE KeysInit
  BY <1>2 DEF KeysInit, KeysPage
<1>3. CASE TeamPageInit
  <2>1. "team" \in DOMAIN server
    BY <1>3 DEF TeamPageInit
  <2>2. ui = TeamCard
    BY <1>3 DEF TeamPageInit
  <2> QED
    BY <2>1, <2>2 DEF TeamCard
<1>4. CASE BillingInit
  BY <1>4 DEF BillingInit, BillingCard
<1>5. CASE InsightsInit
  BY <1>5 DEF InsightsInit, TrendCard
<1>6. CASE SignInInit
  <2>1. CASE ui = SessionHook /\ server \in [session : {"none"} \cup Users, orgs : SUBSET Users]
    BY <2>1 DEF SessionHook
  <2>2. ASSUME NEW u, ui = LoginForm(u)
        PROVE  ui.page = "login" /\ {"busy", "err"} \subseteq DOMAIN ui /\ ui.busy = FALSE
    BY <2>2 DEF LoginForm
  <2>3. ASSUME NEW l, ui = ResetForm(l)
        PROVE  ui.page = "reset" /\ {"busy", "err"} \subseteq DOMAIN ui /\ ui.busy = FALSE
    BY <2>3 DEF ResetForm
  <2>4. ASSUME NEW l, ui = Callback(l)
        PROVE  ui.page = "callback"
    BY <2>4 DEF Callback
  <2>5. CASE \E u : ui = LoginForm(u)
    BY <2>2, <2>5
  <2>6. CASE \E l : ui = ResetForm(l)
    BY <2>3, <2>6
  <2>7. CASE \E l : ui = Callback(l)
    BY <2>4, <2>7
  <2>8. \/ ui = SessionHook /\ server \in [session : {"none"} \cup Users, orgs : SUBSET Users]
        \/ \E u : ui = LoginForm(u)
        \/ \E l : ui = ResetForm(l)
        \/ \E l : ui = Callback(l)
    BY <1>6 DEF SignInInit
  <2> QED
    BY <2>1, <2>5, <2>6, <2>7, <2>8
<1>7. CASE WorkspaceInit
  <2>1. PageSize \in Nat /\ "" \in Searches
    BY WorkspaceAssumption DEF Searches
  <2>2. ASSUME NEW n \in Nat, server = [matching |-> [q \in Searches |-> n]]
        PROVE  "matching" \in DOMAIN server /\ server.matching \in [Searches -> Nat]
    BY <2>2
  <2>3. CASE ui = ViewHalf
    BY <2>3 DEF ViewHalf, ViewFields
  <2>4. CASE ui = ListHalf /\ \E n \in {0, 1} : server = [matching |-> [q \in Searches |-> n]]
    <3>1. "matching" \in DOMAIN server /\ server.matching \in [Searches -> Nat]
      BY <2>2, <2>4
    <3> QED
      BY <2>1, <2>4, <3>1 DEF ListHalf, ListFields
  <2>5. CASE ui = DemoHalf /\ server = [matching |-> [q \in Searches |-> 0]]
    <3>1. "matching" \in DOMAIN server /\ server.matching \in [Searches -> Nat]
      BY <2>2, <2>5
    <3>2. ui.page = "demo" /\ ui.busy = "" /\ ViewFields
      BY <2>5 DEF DemoHalf, ViewFields
    <3>3. ListFields
      BY <2>1, <2>5, <3>1 DEF DemoHalf, ListFields
    <3> QED
      BY <3>2, <3>3
  <2> QED
    BY <1>7, <2>3, <2>4, <2>5 DEF WorkspaceInit
<1> QED
  BY <1>1, <1>2, <1>3, <1>4, <1>5, <1>6, <1>7 DEF Init

LEMMA InitCopies ==
  ASSUME Init
  PROVE  CopyInv
<1>1. SceneInv /\ Orderly
  BY InitScene, InitOrderly
<1>2. ByokCard /\ PolicyCopy
  BY <1>1, OpenedCards, OpenedCopies, OpenedFlags, ThingsKnown
     DEF ByokCard, PolicyCopy, PolicyParts, FrameworkKept, RulesKept, FrameworkFlag, RuleFlag
<1>3. ScheduleCopy /\ WebhookCopy
  BY <1>1, OpenedCards, OpenedCopies, OpenedFlags, ThingsKnown DEF ScheduleCopy, WebhookCopy
<1>4. KeysCopy /\ TeamCopy /\ PlanCopy
  BY <1>1, OpenedCards, OpenedCopies, OpenedFlags, ThingsKnown DEF KeysCopy, TeamCopy, PlanCopy
<1>5. TrendCopy /\ SessionCopy /\ FormBusy
  BY <1>1, OpenedCards, OpenedCopies, OpenedFlags, ThingsKnown DEF TrendCopy, SessionCopy, FormBusy
<1>6. ListCopy
  <2>1. SUFFICES ASSUME ui.page \in {"list", "demo"}
                 PROVE  ListCopy
    BY DEF ListCopy
  <2>2. trust["list"] = "raced"
    BY <1>1, <2>1, OpenedThings, ThingsKnown
  <2> QED
    BY <2>1, <2>2, OpenedCards DEF ListCopy, Wanted, OnItsWay, Listing
<1>7. ViewCopy /\ ViewBusy
  <2>1. SUFFICES ASSUME ui.page \in {"view", "demo"}
                 PROVE  ViewCopy /\ ViewBusy
    BY DEF ViewCopy, ViewBusy
  <2>2. trust["view"] = "raced" /\ Echoes(calls, "view")
    BY <1>1, <2>1, OpenedThings, OpenedCopies, ThingsKnown
  <2> QED
    BY <2>1, <2>2, OpenedCards, OpenedFlags DEF ViewCopy, ViewBusy, Viewed
<1> QED
  BY <1>1, <1>2, <1>3, <1>4, <1>5, <1>6, <1>7 DEF CopyInv
------------------------------------------------------------------------------
\* A call that the page gave up on is lost on its way: no page notices.
LEMMA LostCopies ==
  ASSUME SceneInv, Orderly, NEW s \in Slots, Lose(s), NEW r \in DOMAIN trust \ Flags
  PROVE  /\ \A shown, stored : Mirrors(calls, trust, r, shown, stored) => Mirrors(calls', trust', r, shown, stored)
         /\ \A shown, wanted : Follows(calls, trust, r, shown, wanted) => Follows(calls', trust', r, shown, wanted)
         /\ Adrift(calls', trust', r) => Adrift(calls, trust, r)
         /\ Echoes(calls, r) => Echoes(calls', r)
<1>1. calls[s].st = "late" /\ UNCHANGED <<ui, server, trust>>
  BY DEF Lose
<1>2. ASSUME NEW shown, NEW stored, Mirrors(calls, trust, r, shown, stored)
      PROVE  Mirrors(calls', trust', r, shown, stored)
  BY <1>1, <1>2, FinishMirrors
<1>3. ASSUME NEW shown, NEW wanted, Follows(calls, trust, r, shown, wanted)
      PROVE  Follows(calls', trust', r, shown, wanted)
  BY <1>1, <1>3, FinishFollows
<1>4. Adrift(calls', trust', r) => Adrift(calls, trust, r)
  BY <1>1, FinishAdrift
<1>5. Echoes(calls, r) => Echoes(calls', r)
  BY EndEchoes
<1> QED
  BY <1>2, <1>3, <1>4, <1>5

LEMMA LostSettings ==
  ASSUME CopyInv, NEW s \in Slots, Lose(s)
  PROVE  ByokCard' /\ PolicyCopy' /\ ScheduleCopy' /\ WebhookCopy'
<1>1. SceneInv /\ Orderly /\ UNCHANGED <<ui, server, trust>>
  BY DEF CopyInv, Lose
<1>2. \A f \in Flags : /\ OneOperation(calls, trust, f) => OneOperation(calls', trust', f)
                       /\ Held(calls', f) <=> Held(calls, f)
  <2> TAKE f \in Flags
  <2>1. OneOperation(calls, trust, f) => OneOperation(calls', trust', f)
    BY <1>1, LoseHeld
  <2>2. Held(calls', f) <=> Held(calls, f)
    <3>1. calls[s].on \cap Flags = {} /\ calls'[s].on = {} /\ \A o \in Slots \ {s} : calls'[o] = calls[o]
      BY <1>1, LateIsAWrite, FinishCalls, FreeFields DEF Lose
    <3> QED
      BY <3>1 DEF Held
  <2> QED
    BY <2>1, <2>2
<1>3. ByokCard'
  BY <1>1, LostCopies, ThingsKnown DEF CopyInv, ByokCard
<1>4. PolicyCopy'
  <2> SUFFICES ASSUME ui.page = "policy"
               PROVE  PolicyParts'
    BY <1>1 DEF PolicyCopy
  <2>1. PolicyParts
    BY DEF CopyInv, PolicyCopy
  <2>2. GetRules' = GetRules
    BY <1>1 DEF GetRules
  <2>3. FrameworkKept' /\ RulesKept'
    BY <1>1, <2>1, <2>2, LostCopies, ThingsKnown DEF PolicyParts, FrameworkKept, RulesKept
  <2>4. FrameworkFlag' /\ RuleFlag'
    BY <1>1, <1>2, <2>1, ThingsKnown DEF PolicyParts, FrameworkFlag, RuleFlag
  <2> QED
    BY <1>1, <2>1, <2>3, <2>4 DEF PolicyParts
<1>5. ScheduleCopy'
  BY <1>1, <1>2, LostCopies, ThingsKnown DEF CopyInv, ScheduleCopy
<1>6. WebhookCopy'
  BY <1>1, <1>2, LostCopies, ThingsKnown DEF CopyInv, WebhookCopy
<1> QED
  BY <1>3, <1>4, <1>5, <1>6

LEMMA LostPages ==
  ASSUME CopyInv, NEW s \in Slots, Lose(s)
  PROVE  KeysCopy' /\ TeamCopy' /\ PlanCopy' /\ TrendCopy' /\ SessionCopy' /\ FormBusy' /\ ViewBusy'
<1>1. SceneInv /\ Orderly /\ UNCHANGED <<ui, server, trust>>
  BY DEF CopyInv, Lose
<1>2. /\ OneOperation(calls, trust, "busy") => OneOperation(calls', trust', "busy")
      /\ Held(calls', "busy") <=> Held(calls, "busy")
  <2>1. calls[s].on \cap Flags = {} /\ calls'[s].on = {} /\ \A o \in Slots \ {s} : calls'[o] = calls[o]
    BY <1>1, LateIsAWrite, FinishCalls, FreeFields DEF Lose
  <2>2. "busy" \in Flags
    BY DEF Flags
  <2>3. Held(calls', "busy") <=> Held(calls, "busy")
    BY <2>1, <2>2 DEF Held
  <2> QED
    BY <1>1, <2>2, <2>3, LoseHeld
<1>3. KeysCopy'
  BY <1>1, LostCopies, ThingsKnown DEF CopyInv, KeysCopy
<1>4. TeamCopy'
  BY <1>1, <1>2, LostCopies, ThingsKnown DEF CopyInv, TeamCopy
<1>5. PlanCopy'
  BY <1>1, <1>2, LostCopies, ThingsKnown DEF CopyInv, PlanCopy
<1>6. TrendCopy' /\ SessionCopy'
  BY <1>1, LostCopies, ThingsKnown DEF CopyInv, TrendCopy, SessionCopy
<1>7. FormBusy' /\ ViewBusy'
  BY <1>1, <1>2 DEF CopyInv, FormBusy, ViewBusy
<1> QED
  BY <1>3, <1>4, <1>5, <1>6, <1>7

LEMMA LostWorkspace ==
  ASSUME CopyInv, NEW s \in Slots, Lose(s)
  PROVE  ListCopy' /\ ViewCopy'
<1>1. SceneInv /\ Orderly /\ UNCHANGED <<ui, server, trust>>
  BY DEF CopyInv, Lose
<1>2. calls[s].st = "late" /\ calls'[s] = Free /\ \A o \in Slots \ {s} : calls'[o] = calls[o]
  BY <1>1, FinishCalls DEF Lose
<1>3. ASSUME ui.page \in {"list", "demo"}
      PROVE  ListCopy'
  <2>1. /\ ListFields
        /\ Wanted(calls, trust, ui.debounced, ui.limit) /\ OnItsWay(calls, trust, server.matching)
        /\ Listing(calls, trust, ui.rows, ui.hasMore, ui.debounced, ui.limit, server.matching)
    BY <1>3 DEF CopyInv, ListCopy
  <2>2. "list" \in DOMAIN trust \ Flags
    BY <1>1, <1>3, ThingsKnown
  <2>3. trust["list"] = "clean" => "list" \notin calls[s].on
    BY <1>1, <1>2, <2>2 DEF Orderly
  <2>4. Wanted(calls', trust', ui.debounced, ui.limit)
    BY <1>1, <1>2, <2>1, FreeFields DEF Wanted
  <2>5. OnItsWay(calls', trust', server.matching)
    BY <1>1, <1>2, <2>1, FreeFields DEF OnItsWay
  <2>6. Listing(calls', trust', ui.rows, ui.hasMore, ui.debounced, ui.limit, server.matching)
    BY <1>1, <1>2, <2>1, <2>3 DEF Listing
  <2> QED
    BY <1>1, <2>1, <2>4, <2>5, <2>6 DEF ListCopy, ListFields
<1>4. ASSUME ui.page \in {"view", "demo"}
      PROVE  ViewCopy'
  <2>1. ViewFields /\ Echoes(calls, "view") /\ Viewed(calls, trust, ui.session, ui.events, ui.chain, ui.verdicts)
    BY <1>4 DEF CopyInv, ViewCopy
  <2>2. "view" \in DOMAIN trust \ Flags
    BY <1>1, <1>4, ThingsKnown
  <2>3. trust["view"] = "clean" => "view" \notin calls[s].on
    BY <1>1, <1>2, <2>2 DEF Orderly
  <2>4. Viewed(calls', trust', ui.session, ui.events, ui.chain, ui.verdicts)
    BY <1>1, <1>2, <2>1, <2>3, FreeFields DEF Viewed
  <2>5. Echoes(calls', "view")
    BY <1>1, <2>1, EndEchoes
  <2> QED
    BY <1>1, <2>1, <2>4, <2>5 DEF ViewCopy, ViewFields
<1> QED
  BY <1>1, <1>3, <1>4 DEF ListCopy, ViewCopy

\* Which handlers a page has.
LEMMA StepOfPage ==
  ASSUME SceneInv, [Next]_vars
  PROVE  \/ UNCHANGED vars
         \/ \E s \in Slots : Lose(s)
         \/ KeysNext /\ ui.page = "keys"
         \/ SignInNext /\ ui.page \in {"session", "login", "reset", "callback"}
         \/ WorkspaceNext /\ ui.page \in {"list", "view", "demo"}
         \/ SettingsNext /\ ui.page \in {"byok", "policy", "schedule", "webhook"}
         \/ TeamPageNext /\ ui.page = "team"
         \/ BillingNext /\ ui.page = "billing"
         \/ InsightsNext /\ ui.page = "insights"
BY KeysPageOnly, SignInPage, WorkspacePage, SettingsPage, TeamPageOnly, BillingPage, InsightsPage DEF Next

LEMMA NextCopies ==
  ASSUME CopyInv, [Next]_vars
  PROVE  CopyInv'
<1>1. SceneInv /\ Orderly
  BY DEF CopyInv
<1>2. SceneInv' /\ SamePage /\ Orderly'
  BY <1>1, NextScene, NextOrderly DEF SceneStep
<1>3. CASE UNCHANGED vars
  <2>1. UNCHANGED <<ui, server, calls, trust>>
    BY <1>3 DEF vars, apiVars
  <2>2. ByokCard' /\ PolicyCopy' /\ ScheduleCopy' /\ WebhookCopy'
    BY <2>1 DEF CopyInv, ByokCard, PolicyCopy, PolicyParts, FrameworkKept, RulesKept, FrameworkFlag, RuleFlag,
                GetRules, ScheduleCopy, WebhookCopy
  <2>3. KeysCopy' /\ TeamCopy' /\ PlanCopy' /\ TrendCopy' /\ SessionCopy' /\ FormBusy'
    BY <2>1 DEF CopyInv, KeysCopy, TeamCopy, PlanCopy, TrendCopy, SessionCopy, FormBusy
  <2>4. ListCopy' /\ ViewCopy' /\ ViewBusy'
    BY <2>1 DEF CopyInv, ListCopy, ListFields, ViewCopy, ViewFields, ViewBusy
  <2> QED
    BY <1>2, <2>2, <2>3, <2>4 DEF CopyInv
<1>4. ASSUME NEW s \in Slots, Lose(s)
      PROVE  CopyInv'
  BY <1>2, <1>4, LostSettings, LostPages, LostWorkspace DEF CopyInv
<1> DEFINE page == ui.page
<1>5. ui'.page = page
  BY <1>2 DEF SamePage
<1>6. /\ page # "byok" => ByokCard'
      /\ page # "policy" => PolicyCopy'
      /\ page # "schedule" => ScheduleCopy'
      /\ page # "webhook" => WebhookCopy'
      /\ page # "keys" => KeysCopy'
      /\ page # "team" => TeamCopy'
      /\ page # "billing" => PlanCopy'
      /\ page # "insights" => TrendCopy'
      /\ page # "session" => SessionCopy'
      /\ page \notin {"login", "reset"} => FormBusy'
      /\ page \notin {"list", "demo"} => ListCopy'
      /\ page \notin {"view", "demo"} => ViewCopy' /\ ViewBusy'
  BY <1>5 DEF ByokCard, PolicyCopy, ScheduleCopy, WebhookCopy, KeysCopy, TeamCopy, PlanCopy, TrendCopy, SessionCopy,
              FormBusy, ListCopy, ViewCopy, ViewBusy
<1>7. CASE KeysNext /\ page = "keys"
  <2>1. KeysCopy'
    BY <1>1, <1>7, KeysStep DEF CopyInv
  <2> QED
    BY <1>2, <1>6, <1>7, <2>1 DEF CopyInv
<1>8. CASE SignInNext /\ page \in {"session", "login", "reset", "callback"}
  <2>1. page = "session" => SessionCopy'
    BY <1>1, <1>8, SessionStep DEF CopyInv
  <2>2. page \in {"login", "reset"} => FormBusy'
    BY <1>1, <1>8, FormStep DEF CopyInv
  <2> QED
    BY <1>2, <1>6, <1>8, <2>1, <2>2 DEF CopyInv
<1>9. CASE WorkspaceNext /\ page \in {"list", "view", "demo"}
  <2>1. page \in {"list", "demo"} => ListCopy'
    BY <1>1, <1>9, ListStep DEF CopyInv
  <2>2. page \in {"view", "demo"} => ViewCopy' /\ ViewBusy'
    BY <1>1, <1>9, ViewStep, BusyStep DEF CopyInv
  <2> QED
    BY <1>2, <1>6, <1>9, <2>1, <2>2 DEF CopyInv
<1>10. CASE SettingsNext /\ page \in {"byok", "policy", "schedule", "webhook"}
  <2>1. /\ page = "byok" => ByokCard'
        /\ page = "policy" => PolicyCopy'
        /\ page = "schedule" => ScheduleCopy'
        /\ page = "webhook" => WebhookCopy'
    BY <1>1, <1>10, ByokStep, PolicyStep, ScheduleStep, WebhookStep DEF CopyInv
  <2> QED
    BY <1>2, <1>6, <1>10, <2>1 DEF CopyInv
<1>11. CASE TeamPageNext /\ page = "team"
  <2>1. TeamCopy'
    BY <1>1, <1>11, TeamStep DEF CopyInv
  <2> QED
    BY <1>2, <1>6, <1>11, <2>1 DEF CopyInv
<1>12. CASE BillingNext /\ page = "billing"
  <2>1. PlanCopy'
    BY <1>1, <1>12, PlanStep DEF CopyInv
  <2> QED
    BY <1>2, <1>6, <1>12, <2>1 DEF CopyInv
<1>13. CASE InsightsNext /\ page = "insights"
  <2>1. TrendCopy'
    BY <1>1, <1>13, TrendStep DEF CopyInv
  <2> QED
    BY <1>2, <1>6, <1>13, <2>1 DEF CopyInv
<1> QED
  BY <1>1, <1>3, <1>4, <1>7, <1>8, <1>9, <1>10, <1>11, <1>12, <1>13, StepOfPage
------------------------------------------------------------------------------
\* Quiet says so of the calls that are open, and free slots hold nothing.
LEMMA QuietIs ==
  ASSUME SceneInv, NEW r
  PROVE  /\ Quiet(r) <=> \A s \in Slots : r \notin calls[s].on
         /\ Quiet(r) <=> ~ Held(calls, r)
<1>1. Quiet(r) <=> \A s \in Slots : r \notin calls[s].on
  BY VacantIsNowhere DEF Quiet
<1> QED
  BY <1>1 DEF Held

LEMMA QuietMirrors ==
  ASSUME SceneInv, NEW r, NEW shown, NEW stored, trust[r] = "clean", Quiet(r),
         Mirrors(calls, trust, r, shown, stored) \/ Follows(calls, trust, r, shown, stored)
  PROVE  shown = stored
BY QuietIs DEF Mirrors, Follows

LEMMA QuietAdrift ==
  ASSUME SceneInv, NEW r, trust[r] = "failed", Quiet(r)
  PROVE  Adrift(calls, trust, r)
BY QuietIs DEF Adrift, SoleWrite

LEMMA CopiesShown ==
  ASSUME CopyInv
  PROVE  ShownIsStored
<1> SUFFICES ASSUME NEW r \in DOMAIN Shown, trust[r] = "clean", Quiet(r)
             PROVE  Shown[r] = Stored[r]
  BY DEF ShownIsStored
<1>1. SceneInv
  BY DEF CopyInv
<1>2. CASE ui.page = "byok"
  <2>1. Shown = [byok |-> ui.configured] /\ Stored = [byok |-> server.byok]
    BY <1>2 DEF Shown, Stored, SettingsShown, SettingsStored
  <2>2. Mirrors(calls, trust, "byok", ui.configured, server.byok)
    BY <1>2 DEF CopyInv, ByokCard
  <2> QED
    BY <1>1, <2>1, <2>2, QuietMirrors
<1>3. CASE ui.page = "policy"
  <2>1. /\ Shown = [framework |-> ui.framework, rules |-> ui.rules]
        /\ Stored = [framework |-> server.framework, rules |-> GetRules]
    BY <1>3 DEF Shown, Stored, SettingsShown, SettingsStored
  <2>2. /\ Mirrors(calls, trust, "framework", ui.framework, server.framework)
        /\ Mirrors(calls, trust, "rules", ui.rules, GetRules)
    BY <1>3 DEF CopyInv, PolicyCopy, PolicyParts, FrameworkKept, RulesKept
  <2>3. CASE r = "framework"
    BY <1>1, <2>1, <2>2, <2>3, QuietMirrors
  <2>4. CASE r = "rules"
    BY <1>1, <2>1, <2>2, <2>4, QuietMirrors
  <2> QED
    BY <2>1, <2>3, <2>4
<1>4. CASE ui.page = "schedule"
  <2>1. Shown = [schedule |-> ui.schedule] /\ Stored = [schedule |-> server.schedule]
    BY <1>4 DEF Shown, Stored, SettingsShown, SettingsStored
  <2>2. Mirrors(calls, trust, "schedule", ui.schedule, server.schedule)
    BY <1>4 DEF CopyInv, ScheduleCopy
  <2> QED
    BY <1>1, <2>1, <2>2, QuietMirrors
<1>5. CASE ui.page = "webhook"
  <2>1. Shown = [webhook |-> ui.webhook] /\ Stored = [webhook |-> server.webhook]
    BY <1>5 DEF Shown, Stored, SettingsShown, SettingsStored
  <2>2. Mirrors(calls, trust, "webhook", ui.webhook, server.webhook)
    BY <1>5 DEF CopyInv, WebhookCopy
  <2> QED
    BY <1>1, <2>1, <2>2, QuietMirrors
<1>6. CASE ui.page = "keys"
  <2>1. Shown = [keys |-> ui.keys] /\ Stored = [keys |-> server.keys]
    BY <1>6 DEF Shown, Stored
  <2>2. Mirrors(calls, trust, "keys", ui.keys, server.keys)
    BY <1>6 DEF CopyInv, KeysCopy
  <2> QED
    BY <1>1, <2>1, <2>2, QuietMirrors
<1>7. CASE ui.page = "team"
  <2>1. Shown = [team |-> ui.team] /\ Stored = [team |-> server.team]
    BY <1>7 DEF Shown, Stored
  <2>2. Mirrors(calls, trust, "team", ui.team, server.team)
    BY <1>7 DEF CopyInv, TeamCopy
  <2> QED
    BY <1>1, <2>1, <2>2, QuietMirrors
<1>8. CASE ui.page = "billing"
  <2>1. Shown = [plan |-> ui.plan] /\ Stored = [plan |-> server.plan]
    BY <1>8 DEF Shown, Stored
  <2>2. Mirrors(calls, trust, "plan", ui.plan, server.plan)
    BY <1>8 DEF CopyInv, PlanCopy
  <2> QED
    BY <1>1, <2>1, <2>2, QuietMirrors
<1>9. CASE ui.page = "insights"
  <2>1. Shown = [trend |-> ui.data] /\ Stored = [trend |-> ui.days]
    BY <1>9 DEF Shown, Stored
  <2>2. Follows(calls, trust, "trend", ui.data, ui.days)
    BY <1>9 DEF CopyInv, TrendCopy
  <2> QED
    BY <1>1, <2>1, <2>2, QuietMirrors
<1>10. CASE ui.page = "session"
  <2>1. Shown = [session |-> ui.token] /\ Stored = [session |-> server.session]
    BY <1>10 DEF Shown, Stored
  <2>2. Follows(calls, trust, "session", ui.token, server.session)
    BY <1>10 DEF CopyInv, SessionCopy
  <2> QED
    BY <1>1, <2>1, <2>2, QuietMirrors
<1>11. CASE ui.page \in {"list", "view", "demo", "login", "reset", "callback"}
  <2>1. Shown = << >>
    BY <1>11 DEF Shown
  <2>2. DOMAIN Shown = {}
    BY <2>1
  <2> QED
    BY <2>2
<1> QED
  BY <1>1, <1>2, <1>3, <1>4, <1>5, <1>6, <1>7, <1>8, <1>9, <1>10, <1>11 DEF SceneInv, Pages

LEMMA FailuresShown ==
  ASSUME CopyInv
  PROVE  FailureIsShown
<1>1. SceneInv
  BY DEF CopyInv
<1>2. ASSUME ui.page \in {"byok", "policy", "schedule", "webhook", "keys", "team", "insights"},
             NEW r \in DOMAIN trust, trust[r] = "failed", Quiet(r)
      PROVE  CASE ui.page = "policy" -> ui.ruleErr \/ ui.frameworkErr
               [] ui.page = "team"   -> (IsOwner => ui.err)
               [] OTHER              -> ui.err
  <2>1. Adrift(calls, trust, r)
    BY <1>1, <1>2, QuietAdrift
  <2>2. r \in Things(ui.page) \ Flags
    BY <1>1, <1>2 DEF SceneInv, TrustTyped
  <2>3. CASE ui.page = "policy"
    <3>1. r \in {"framework", "rules"}
      BY <2>2, <2>3 DEF Things, Flags
    <3>2. ui.ruleErr \/ ui.frameworkErr
      BY <2>1, <2>3, <3>1 DEF CopyInv, PolicyCopy, PolicyParts, FrameworkKept, RulesKept
    <3> QED
      BY <2>3, <3>2
  <2>4. CASE ui.page = "team"
    <3>1. r = "team"
      BY <2>2, <2>4 DEF Things, Flags
    <3>2. ui.err
      BY <2>1, <2>4, <3>1 DEF CopyInv, TeamCopy
    <3> QED
      BY <2>4, <3>2
  <2>5. CASE ui.page \in {"byok", "schedule", "webhook", "keys", "insights"}
    <3>1. /\ ui.page = "byok" => r = "byok"
          /\ ui.page = "schedule" => r = "schedule"
          /\ ui.page = "webhook" => r = "webhook"
          /\ ui.page = "keys" => r = "keys"
          /\ ui.page = "insights" => r = "trend"
      BY <2>2 DEF Things, Flags
    <3>2. ui.err
      BY <2>1, <2>5, <3>1 DEF CopyInv, ByokCard, ScheduleCopy, WebhookCopy, KeysCopy, TrendCopy
    <3> QED
      BY <2>5, <3>2
  <2> QED
    BY <1>2, <2>3, <2>4, <2>5
<1> QED
  BY <1>2 DEF FailureIsShown

LEMMA FlagsHonest ==
  ASSUME CopyInv
  PROVE  BusyIsHonest
<1>1. SceneInv
  BY DEF CopyInv
<1> SUFFICES ASSUME ~ (ui.page = "billing" /\ ui.away), NEW f \in Flags \cap DOMAIN trust, trust[f] = "clean"
             PROVE  Set(f) <=> ~ Quiet(f)
  BY DEF BusyIsHonest
<1>2. f \in Things(ui.page)
  BY <1>1 DEF SceneInv, TrustTyped
<1>3. Quiet(f) <=> ~ Held(calls, f)
  BY <1>1, QuietIs
<1>4. CASE ui.page \in {"view", "demo", "billing"}
  <2>1. f = "busy"
    BY <1>2, <1>4 DEF Things, Flags
  <2>2. Set(f) <=> ui.busy # ""
    BY <1>4 DEF Set
  <2>3. ui.busy # "" <=> Held(calls, "busy")
    BY <1>4, <2>1 DEF CopyInv, ViewBusy, PlanCopy
  <2> QED
    BY <1>3, <2>1, <2>2, <2>3
<1>5. CASE ui.page \in {"schedule", "webhook", "team", "login", "reset"}
  <2>1. f = "busy"
    BY <1>2, <1>5 DEF Things, Flags
  <2>2. Set(f) <=> ui.busy
    BY <1>5, <2>1 DEF Set
  <2>3. ui.busy <=> Held(calls, "busy")
    BY <1>5, <2>1 DEF CopyInv, ScheduleCopy, WebhookCopy, TeamCopy, FormBusy
  <2> QED
    BY <1>3, <2>1, <2>2, <2>3
<1>6. CASE ui.page = "policy"
  <2>1. f \in {"frameworkBusy", "ruleBusy"}
    BY <1>2, <1>6 DEF Things, Flags
  <2>2. Set(f) <=> ui[f]
    BY <1>6 DEF Set
  <2>3. ui[f] <=> Held(calls, f)
    BY <1>6, <2>1 DEF CopyInv, PolicyCopy, PolicyParts, FrameworkFlag, RuleFlag
  <2> QED
    BY <1>3, <2>2, <2>3
<1>7. CASE ui.page \in {"list", "keys", "byok", "insights", "session", "callback"}
  <2>1. FALSE
    BY <1>2, <1>7 DEF Things, Flags
  <2> QED
    BY <2>1
<1> QED
  BY <1>1, <1>4, <1>5, <1>6, <1>7 DEF SceneInv, Pages

LEMMA ViewOfSession ==
  ASSUME CopyInv
  PROVE  ViewIsOfSession
<1> SUFFICES ASSUME ui.page \in {"demo", "view"}, trust["view"] = "clean", Quiet("view")
             PROVE  ui.events = ui.session /\ ui.chain = ui.session /\ ui.verdicts \in {"", ui.session}
  BY DEF ViewIsOfSession
<1>1. Viewed(calls, trust, ui.session, ui.events, ui.chain, ui.verdicts)
  BY DEF CopyInv, ViewCopy
<1>2. \A s \in Slots : "view" \notin calls[s].on
  BY QuietIs DEF CopyInv
<1> QED
  BY <1>1, <1>2 DEF Viewed

LEMMA LeastOfThree ==
  ASSUME NEW a \in Nat, NEW b \in Nat, NEW c \in Nat
  PROVE  Least({a, b, c}) \in {a, b, c} /\ Least({a, b, c}) <= a
<1>1. \E x \in {a, b, c} : \A y \in {a, b, c} : x <= y
  <2>1. CASE a <= b /\ a <= c
    BY <2>1
  <2>2. CASE b <= a /\ b <= c
    BY <2>2
  <2>3. CASE c <= a /\ c <= b
    BY <2>3
  <2> QED
    BY <2>1, <2>2, <2>3
<1> QED
  BY <1>1 DEF Least

LEMMA ListComplete ==
  ASSUME CopyInv
  PROVE  ListIsComplete
<1> SUFFICES ASSUME ui.page \in {"list", "demo"}, trust["list"] = "clean", Quiet("list")
             PROVE  /\ ui.rows = ListSessions(ui.debounced, ui.limit)
                    /\ (ui.limit <= Clamp /\ ~ ui.hasMore) => ui.rows.n = server.matching[ui.debounced]
  BY DEF ListIsComplete
<1>1. ListFields /\ Listing(calls, trust, ui.rows, ui.hasMore, ui.debounced, ui.limit, server.matching)
  BY DEF CopyInv, ListCopy
<1>2. \A s \in Slots : "list" \notin calls[s].on
  BY QuietIs DEF CopyInv
<1>3. ui.rows = Rows(server.matching, ui.debounced, ui.limit) /\ (ui.hasMore <=> ui.rows.n = ui.limit)
  BY <1>1, <1>2 DEF Listing
<1>4. ui.rows = ListSessions(ui.debounced, ui.limit)
  BY <1>3 DEF Rows, ListSessions
<1> DEFINE all == server.matching[ui.debounced]
<1>5. ui.rows.n = Least({ui.limit, Clamp, all})
  BY <1>3 DEF Rows
<1>6. ui.limit \in Nat /\ Clamp \in Nat /\ all \in Nat
  BY <1>1, WorkspaceAssumption DEF ListFields
<1> HIDE DEF all
<1>7. ui.rows.n \in {ui.limit, Clamp, all} /\ ui.rows.n <= ui.limit
  BY <1>5, <1>6, LeastOfThree
<1>8. ui.limit <= Clamp /\ ui.rows.n # ui.limit => ui.rows.n = all
  BY <1>6, <1>7
<1> QED
  BY <1>3, <1>4, <1>8 DEF all

(***************************************************************************)
(* What every page keeps of its copies and flags, whatever handlers run.   *)
(***************************************************************************)
THEOREM CopyInvariant == Spec => []CopyInv
<1>1. Init => CopyInv
  BY InitCopies
<1>2. CopyInv /\ [Next]_vars => CopyInv'
  BY NextCopies
<1> QED
  BY <1>1, <1>2, PTL DEF Spec

(***************************************************************************)
(* Once the calls about a thing have ended, the page shows what is stored: *)
(* every handler ends by reading again (settings/page.tsx:66-77, 87-88,    *)
(* 97-99, 119-120, 144-151), unless reads and writes overlapped, somebody  *)
(* else changed it, or a call threw.                                       *)
(***************************************************************************)
THEOREM PagesShowWhatIsStored == Spec => []ShownIsStored
<1>1. CopyInv => ShownIsStored
  BY CopiesShown
<1> QED
  BY <1>1, CopyInvariant, PTL

(***************************************************************************)
(* A call that threw leaves its message as long as the copy is out of date *)
(* and no later operation took the message away.                           *)
(***************************************************************************)
THEOREM FailuresAreShown == Spec => []FailureIsShown
<1>1. CopyInv => FailureIsShown
  BY FailuresShown
<1> QED
  BY <1>1, CopyInvariant, PTL

(***************************************************************************)
(* A flag is set exactly while a call of its operation is open, through    *)
(* errors and timeouts, unless two operations that set it overlapped       *)
(* (page.tsx:27, 53-103).                                                  *)
(***************************************************************************)
THEOREM FlagsAreHonest == Spec => []BusyIsHonest
<1>1. CopyInv => BusyIsHonest
  BY FlagsHonest
<1> QED
  BY <1>1, CopyInvariant, PTL

(***************************************************************************)
(* Events, chain and verdicts on the page are of the session that is       *)
(* selected, unless its calls overlapped with others (page.tsx:51-70).     *)
(***************************************************************************)
THEOREM ViewsAreOfTheSession == Spec => []ViewIsOfSession
<1>1. CopyInv => ViewIsOfSession
  BY ViewOfSession
<1> QED
  BY <1>1, CopyInvariant, PTL

(***************************************************************************)
(* The list is the answer to the page's search and limit, and complete or  *)
(* offering more up to the server's clamp (page.tsx:39-48).                *)
(***************************************************************************)
THEOREM ListsAreComplete == Spec => []ListIsComplete
<1>1. CopyInv => ListIsComplete
  BY ListComplete
<1> QED
  BY <1>1, CopyInvariant, PTL
==============================================================================
