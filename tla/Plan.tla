--------------------------------- MODULE Plan ---------------------------------
(***************************************************************************)
(* The plan of an org: how the webhooks of the payment provider write it   *)
(* (handle_webhook, teluvane/billing.py), how POST /audit reads it, twice, *)
(* and meters its audits on the hosted key (teluvane/ingest.py,            *)
(* teluvane/usage.py), and how the scheduler spends on the same key        *)
(* (teluvane/scheduler.py), which nothing meters.                          *)
(*                                                                         *)
(* billing_webhook is an async endpoint that calls handle_webhook without  *)
(* a thread, so one process handles one webhook at a time, in two          *)
(* transactions; audits run in threads, and every read and the increment   *)
(* are a transaction each.  The provider is external: it sends an event    *)
(* again until it is answered with success, in no particular order.        *)
(* TELUVANE_HOSTED_ANTHROPIC_KEY is set.                                   *)
(***************************************************************************)
EXTENDS Naturals, Sequences, FiniteSets, FiniteSetsExt

CONSTANTS Orgs,
          Threads,       \* the threads that serve POST /audit
          Limit,         \* HOSTED_AUDIT_MONTHLY_LIMIT
          MaxEvents,     \* bound: subscription events of an org
          MaxAudits,     \* bound: calls of POST /audit, and turns of the scheduler
          MaxPeriods,    \* bound: calendar months
          MaxFaults,     \* bound: restarts, and webhooks that are not applied
          MaxScheduled   \* bound: scheduled audits of an org in a month

ASSUME OrgsAssumption == Orgs # {}
ASSUME LimitAssumption == Limit \in Nat
ASSUME ThreadsAssumption == IsFiniteSet(Threads) /\ Threads # {}
ASSUME BoundsAssumption == {MaxEvents, MaxAudits, MaxPeriods, MaxFaults, MaxScheduled} \subseteq Nat /\ MaxPeriods > 0

Plans == {"free", "pro"}
Periods == 1 .. MaxPeriods

\* The n-th event of an org's subscription says whether it is active.  Two more
\* kinds of webhook have no n: one of a type that handle_webhook does not apply
\* (or without an org_id), and one whose signature does not verify.
Deliveries == [kind : {"subscription", "other", "unsigned"}, org : Orgs, n : Nat, active : BOOLEAN]

VARIABLES
  plan,       \* orgs.plan
  log,        \* billing_events
  used,       \* hosted_audit_usage: the count of each org and period
  sent,       \* what the provider has said of each subscription, in order
  unacked,    \* events it will send again
  hook,       \* the webhooks being handled: none or one
  hookPc,     \* its transaction
  period,     \* current_period()
  pc, org,    \* the transaction each audit runs next, and for which org
  key,        \* the LLM key it will use
  custom,     \* whether it audits against the custom rules too
  audits, faults,
  newest,     \* the newest event applied to each org
  overtaken,  \* orgs to which an older event was applied after a newer one
  outdated,   \* audits whose org had its plan written since they began
  spent,      \* audits that POST /audit sent to the hosted key
  turn,       \* the org whose sessions the scheduler audits with the hosted key
  scheduled   \* audits it sent to that key, of each org and period

tables == <<plan, log, used>>
web == <<sent, unacked, hook, hookPc, newest, overtaken>>
work == <<pc, org, key, custom>>
tick == <<turn, scheduled>>
vars == <<tables, web, work, period, audits, faults, outdated, spent, tick>>

SomeOrg == CHOOSE o \in Orgs : TRUE

Init ==
  /\ plan = [o \in Orgs |-> "free"]
  /\ log = {}
  /\ used = [o \in Orgs |-> [p \in Periods |-> 0]]
  /\ sent = [o \in Orgs |-> << >>]
  /\ unacked = {}
  /\ hook = {} /\ hookPc = "idle"
  /\ period = 1
  /\ pc = [t \in Threads |-> "idle"]
  /\ org = [t \in Threads |-> SomeOrg]
  /\ key = [t \in Threads |-> "none"]
  /\ custom = [t \in Threads |-> FALSE]
  /\ audits = 0 /\ faults = 0
  /\ newest = [o \in Orgs |-> 0]
  /\ overtaken = {} /\ outdated = {}
  /\ spent = [o \in Orgs |-> 0]
  /\ turn = {}
  /\ scheduled = [o \in Orgs |-> [p \in Periods |-> 0]]

------------------------------------------------------------------------------
\* The provider: a subscription changes its status.
Change(o, active) ==
  /\ Len(sent[o]) < MaxEvents
  /\ sent' = [sent EXCEPT ![o] = Append(@, active)]
  /\ unacked' = unacked \cup {[kind |-> "subscription", org |-> o, n |-> Len(sent[o]) + 1,
                            active |-> active]}
  /\ UNCHANGED <<tables, hook, hookPc, newest, overtaken, work, period, audits,
                 faults, outdated, spent, tick>>

\* An event not yet answered with success is sent, for the first time or again.
Deliver(e) ==
  /\ hookPc = "idle"
  /\ e \in unacked
  /\ hook' = {e} /\ hookPc' = "log"
  /\ UNCHANGED <<tables, sent, unacked, newest, overtaken, work, period, audits,
                 faults, outdated, spent, tick>>

DeliverOther(kind, o, active) ==
  /\ hookPc = "idle"
  /\ faults < MaxFaults
  /\ faults' = faults + 1
  /\ hook' = {[kind |-> kind, org |-> o, n |-> 0, active |-> active]} /\ hookPc' = "log"
  /\ UNCHANGED <<tables, sent, unacked, newest, overtaken, work, period, audits,
                 outdated, spent, tick>>

Applies(e) == e.kind = "subscription"

\* Defect: an event that is in the log is taken for handled.
LogEventOnce ==
  /\ hookPc = "log"
  /\ \E e \in hook :
       IF e \in log
       THEN hook' = {} /\ hookPc' = "idle" /\ unacked' = unacked \ {e} /\ UNCHANGED log
       ELSE log' = log \cup {e} /\ hookPc' = "apply" /\ UNCHANGED <<hook, unacked>>
  /\ UNCHANGED <<plan, used, sent, newest, overtaken, work, period, audits,
                 faults, outdated, spent, tick>>

\* Defect: the event is to be logged when it has been applied.
LogLater ==
  /\ hookPc = "log"
  /\ \/ (\A e \in hook : Applies(e)) /\ hookPc' = "apply" /\ UNCHANGED hook
     \/ (\E e \in hook : ~Applies(e)) /\ hookPc' = "idle" /\ hook' = {}
  /\ UNCHANGED <<tables, sent, unacked, newest, overtaken, work, period, audits, faults,
                 outdated, spent, tick>>

\* Defect: the event is applied whatever its signature and type.
LogAnyEvent ==
  /\ hookPc = "log"
  /\ log' = log \cup hook
  /\ hookPc' = "apply"
  /\ UNCHANGED <<plan, used, sent, unacked, hook, newest, overtaken, work,
                 period, audits, faults, outdated, spent, tick>>

\* The first transaction: the event is logged, verified or not.  A bad
\* signature is then answered with 401, an event of another type with 200.
LogEvent ==
  /\ hookPc = "log"
  /\ log' = log \cup hook
  /\ \/ (\A e \in hook : Applies(e)) /\ hookPc' = "apply" /\ UNCHANGED hook
     \/ (\E e \in hook : ~Applies(e)) /\ hookPc' = "idle" /\ hook' = {}
  /\ UNCHANGED <<plan, used, sent, unacked, newest, overtaken, work, period,
                 audits, faults, outdated, spent, tick>>

\* _ACTIVE_STATUSES
PlanOf(active) == IF active THEN "pro" ELSE "free"

\* The second: the event's status becomes the org's plan, whatever is there.
ApplyEvent ==
  /\ hookPc = "apply"
  /\ \E e \in hook :
       /\ plan' = [plan EXCEPT ![e.org] = PlanOf(e.active)]
       /\ newest' = [newest EXCEPT ![e.org] = Max({@, e.n})]
       /\ overtaken' = IF e.n < newest[e.org] THEN overtaken \cup {e.org} ELSE overtaken
       /\ outdated' = outdated \cup {t \in Threads : pc[t] # "idle" /\ org[t] = e.org}
  /\ hookPc' = "answer"
  /\ UNCHANGED <<log, used, sent, unacked, hook, work, period, audits,
                 faults, spent, tick>>

\* 200 reaches the provider, or it does not.
AnswerHook ==
  /\ hookPc = "answer"
  /\ unacked' \in {unacked \ hook, unacked}
  /\ hook' = {} /\ hookPc' = "idle"
  /\ UNCHANGED <<tables, sent, newest, overtaken, work, period, audits, faults,
                 outdated, spent, tick>>

------------------------------------------------------------------------------
NextMonth ==
  /\ period < MaxPeriods
  /\ period' = period + 1
  /\ UNCHANGED <<tables, web, work, audits, faults, outdated, spent, tick>>

GoTo(t, label) == pc' = [pc EXCEPT ![t] = label]

\* POST /audit ends, with success or an error.
Leave(t) ==
  /\ pc' = [pc EXCEPT ![t] = "idle"]
  /\ org' = [org EXCEPT ![t] = SomeOrg]
  /\ key' = [key EXCEPT ![t] = "none"]
  /\ custom' = [custom EXCEPT ![t] = FALSE]
  /\ outdated' = outdated \ {t}

Audit(t, o) ==
  /\ pc[t] = "idle"
  /\ audits < MaxAudits
  /\ audits' = audits + 1
  /\ org' = [org EXCEPT ![t] = o]
  /\ GoTo(t, "byok")
  /\ UNCHANGED <<tables, web, key, custom, period, faults, outdated, spent, tick>>

\* get_byok: owners set and clear the org's own key at any time, so that at this
\* moment it may be there or not.
GetByok(t) ==
  /\ pc[t] = "byok"
  /\ \/ key' = [key EXCEPT ![t] = "own"] /\ GoTo(t, "pack")
     \/ GoTo(t, "plan") /\ UNCHANGED key
  /\ UNCHANGED <<tables, web, org, custom, period, audits, faults, outdated, spent, tick>>

\* Defect: the hosted key is for every org under the limit.
AnyPlan(t) ==
  /\ pc[t] = "plan"
  /\ GoTo(t, "limit")
  /\ UNCHANGED <<tables, web, org, key, custom, period, audits, faults, outdated, spent, tick>>

\* org_plan(org_id) == "pro", for the key
ReadPlan(t) ==
  /\ pc[t] = "plan"
  /\ GoTo(t, IF plan[org[t]] = "pro" THEN "limit" ELSE "pack")
  /\ UNCHANGED <<tables, web, org, key, custom, period, audits, faults, outdated, spent, tick>>

\* Defect: one more than the limit.
AtLimitToo(o) == used[o][period] =< Limit

UnderHostedAuditLimit(o) == used[o][period] < Limit

ReadLimit(t) ==
  /\ pc[t] = "limit"
  /\ GoTo(t, IF UnderHostedAuditLimit(org[t]) THEN "count" ELSE "pack")
  /\ UNCHANGED <<tables, web, org, key, custom, period, audits, faults, outdated, spent, tick>>

\* Defect: an UPDATE, which finds no row in a new month.
CountedOnce(o) == IF used[o][period] = 0 THEN used ELSE [used EXCEPT ![o][period] = @ + 1]

\* The upsert of increment_hosted_audit_usage, in the month it is by now.
Counted(o) == [used EXCEPT ![o][period] = @ + 1]

IncrementUsage(t) ==
  /\ pc[t] = "count"
  /\ used' = Counted(org[t])
  /\ key' = [key EXCEPT ![t] = "hosted"]
  /\ GoTo(t, "pack")
  /\ UNCHANGED <<plan, log, web, org, custom, period, audits, faults, outdated, spent, tick>>

\* org_plan(org_id) == "pro" again, for the rules
ChoosePack(t) ==
  /\ pc[t] = "pack"
  /\ custom' = [custom EXCEPT ![t] = (plan[org[t]] = "pro")]
  /\ GoTo(t, "run")
  /\ UNCHANGED <<tables, web, org, key, period, audits, faults, outdated, spent, tick>>

\* audited_run
Run(t) ==
  /\ pc[t] = "run"
  /\ spent' = IF key[t] = "hosted" THEN [spent EXCEPT ![org[t]] = @ + 1] ELSE spent
  /\ Leave(t)
  /\ UNCHANGED <<tables, web, period, audits, faults, tick>>

\* PoolTimeout, or a statement fails.
Fail(t) ==
  /\ pc[t] # "idle"
  /\ Leave(t)
  /\ UNCHANGED <<tables, web, period, audits, faults, spent, tick>>

\* Threads and the webhook in hand are gone; the provider has no answer.
Crash ==
  /\ faults < MaxFaults
  /\ faults' = faults + 1
  /\ hook' = {} /\ hookPc' = "idle"
  /\ pc' = [t \in Threads |-> "idle"]
  /\ org' = [t \in Threads |-> SomeOrg]
  /\ key' = [t \in Threads |-> "none"]
  /\ custom' = [t \in Threads |-> FALSE]
  /\ outdated' = {}
  /\ turn' = {}
  /\ UNCHANGED <<tables, sent, unacked, newest, overtaken, period, audits, spent, scheduled>>

------------------------------------------------------------------------------
\* run_due_schedules comes to a due org on the paid plan; get_byok then finds no
\* key of its own, and the turn's audits are given the hosted key.  A turn with the
\* org's own key costs the owner of the hosted key nothing and is left out.
BeginTurn(o) ==
  /\ turn = {}
  /\ plan[o] = "pro"
  /\ audits < MaxAudits
  /\ audits' = audits + 1
  /\ turn' = {o}
  /\ UNCHANGED <<tables, web, work, period, faults, outdated, spent, scheduled>>

\* audited_run of one session of the turn that has no violation on record: neither
\* the plan, nor the limit, nor hosted_audit_usage is looked at.
ScheduledAudit(o) ==
  /\ o \in turn
  /\ scheduled[o][period] < MaxScheduled
  /\ scheduled' = [scheduled EXCEPT ![o][period] = @ + 1]
  /\ UNCHANGED <<tables, web, work, period, audits, faults, outdated, spent, turn>>

\* _mark_ran, or an exception
EndTurn ==
  /\ turn # {}
  /\ turn' = {}
  /\ UNCHANGED <<tables, web, work, period, audits, faults, outdated, spent, scheduled>>

Schedule == EndTurn \/ \E o \in Orgs : BeginTurn(o) \/ ScheduledAudit(o)

Webhook ==
  \/ \E o \in Orgs, active \in BOOLEAN : 
       Change(o, active)
  \/ \E o \in Orgs, kind \in {"other", "unsigned"} : DeliverOther(kind, o, TRUE)
  \/ \E e \in unacked : Deliver(e)
  \/ LogEvent \/ ApplyEvent \/ AnswerHook

Step(t) ==
  \/ GetByok(t) \/ ReadPlan(t) \/ ReadLimit(t) \/ IncrementUsage(t) \/ ChoosePack(t)
  \/ Run(t) \/ Fail(t)

Next ==
  \/ Webhook
  \/ \E t \in Threads : Step(t) \/ \E o \in Orgs : Audit(t, o)
  \/ Schedule \/ NextMonth \/ Crash

Spec == Init /\ [][Next]_vars

------------------------------------------------------------------------------
\* Tables and requests keep their types, and only what was logged is applied.
TypeOK ==
  /\ plan \in [Orgs -> Plans]
  /\ log \subseteq Deliveries
  /\ used \in [Orgs -> [Periods -> Nat]]
  /\ sent \in [Orgs -> Seq(BOOLEAN)]
  /\ unacked \subseteq Deliveries
  /\ hook \subseteq Deliveries /\ hookPc \in {"idle", "log", "apply", "answer"}
  /\ period \in Periods
  /\ pc \in [Threads -> {"idle", "byok", "plan", "limit", "count", "pack", "run"}]
  /\ org \in [Threads -> Orgs]
  /\ key \in [Threads -> {"none", "own", "hosted"}]
  /\ custom \in [Threads -> BOOLEAN]
  /\ newest \in [Orgs -> Nat] /\ spent \in [Orgs -> Nat]
  /\ turn \subseteq Orgs /\ scheduled \in [Orgs -> [Periods -> Nat]]
  /\ overtaken \subseteq Orgs /\ outdated \subseteq Threads
  /\ {audits, faults} \subseteq Nat
  /\ hookPc \in {"apply", "answer"} => hook \subseteq log

\* An org is on the paid plan only by an event that the provider signed and
\* that is in billing_events for replay, whatever crashed in between.
PaidPlanIsOnRecord ==
  \A o \in Orgs : plan[o] = "pro" =>
    \E e \in log : /\ e.kind = "subscription" /\ e.org = o /\ e.active
                   /\ e.n \in 1 .. Len(sent[o]) /\ sent[o][e.n]

\* When the provider has an answer to everything it sent of an org, and no event
\* overtook another on the way, the org is on the plan that the last one gives:
\* a crash between the two transactions of a webhook loses nothing.
PlanSettles ==
  \A o \in Orgs :
    /\ o \notin overtaken
    /\ sent[o] # << >>
    /\ \A e \in unacked : e.org # o
    => plan[o] = PlanOf(sent[o][Len(sent[o])])

\* What an audit gets is what its org pays for, in both reads of the plan, if
\* the plan was not written while the audit was being prepared.
PerksMatchPlan ==
  \A t \in Threads \ outdated : pc[t] = "run" =>
    /\ key[t] = "hosted" => plan[org[t]] = "pro"
    /\ custom[t] <=> plan[org[t]] = "pro"

\* POST /audit checks its counter and counts in two transactions, so the counter
\* can pass the limit, but never by more than the other threads, in no month, also
\* not by audits that were checked in one month and counted in the next.  Scheduled
\* audits are outside that counter.
OverLimitByThreadsOnly ==
  \A o \in Orgs, p \in Periods : used[o][p] < Limit + Cardinality(Threads)

\* What POST /audit sends to the hosted key is counted in some month, whatever fails
\* between the count and the audit.  What the scheduler sends there is not.
SpendingIsCounted ==
  \A o \in Orgs : spent[o] =< FoldSet(LAMBDA p, sum : sum + used[o][p], 0, Periods)

\* "How many hosted-key (non-BYOK) tribunal audits a pro org gets per calendar month
\* before falling back to the offline detector" (usage.py:7-8), "so a runaway org
\* can't spend unbounded amounts of our Anthropic budget" (ingest.py:136): of all
\* audits sent to the hosted key, the scheduler's too, those of an org and a month
\* stay below the limit and the threads that may pass it.
HostedSpendingBounded ==
  \A o \in Orgs, p \in Periods : used[o][p] + scheduled[o][p] < Limit + Cardinality(Threads)
===============================================================================
