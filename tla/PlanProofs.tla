------------------------------ MODULE PlanProofs ------------------------------
(***************************************************************************)
(* Proofs about an org's plan, for any orgs, threads and limit: the plan   *)
(* follows the provider's events whatever crashes, audits get what the     *)
(* plan gives, the counter of POST /audit passes the hosted key's limit by *)
(* threads only, and what POST /audit spends on that key is counted.       *)
(***************************************************************************)
EXTENDS Plan, FiniteSetTheorems, WellFoundedInduction, TLAPS

\* The n-th event of a subscription says what the provider said n-th.
Said(e) == e.kind = "subscription" => /\ e.n \in 1 .. Len(sent[e.org])
                                      /\ sent[e.org][e.n] = e.active

EventsAsSaid == \A e \in unacked \cup log \cup hook : Said(e)

OnlySubscriptionsApply ==
  /\ \A e \in unacked : e.kind = "subscription"
  /\ hookPc \in {"apply", "answer"} => \A e \in hook : e.kind = "subscription"

\* A webhook is one delivery.
OneEvent == hookPc # "idle" => \E e \in hook : hook = {e}

\* An event that is about to be answered has been applied, or a later one has.
AnswerApplied == hookPc = "answer" => \A e \in hook : e.n =< newest[e.org]

\* What is later than the newest event applied will be sent again.
LaterUnacked ==
  \A o \in Orgs :
    /\ newest[o] =< Len(sent[o])
    /\ \A n \in newest[o] + 1 .. Len(sent[o]) : \E e \in unacked : e.org = o /\ e.n = n

\* Without an overtaking, the plan is that of the newest event applied.
PlanOfNewest ==
  \A o \in Orgs \ overtaken : newest[o] # 0 => plan[o] = PlanOf(sent[o][newest[o]])

\* What a thread has read of the plan is so still, if the plan was not written.
Entitled ==
  \A t \in Threads :
    /\ pc[t] \in {"idle", "byok", "plan"} => key[t] # "hosted"
    /\ t \notin outdated =>
         /\ pc[t] \in {"limit", "count"} => plan[org[t]] = "pro"
         /\ pc[t] \in {"pack", "run"} /\ key[t] = "hosted" => plan[org[t]] = "pro"
         /\ pc[t] = "run" => (custom[t] <=> plan[org[t]] = "pro")

\* The threads that were under the limit and are yet to count.
Counting(o) == {t \in Threads : pc[t] = "count" /\ org[t] = o}

\* Checked and counted audits together pass the limit by threads only.
CountBound ==
  \A o \in Orgs :
    /\ Counting(o) # {} => Limit > 0
    /\ \A p \in Periods :
         /\ p > period => used[o][p] = 0
         /\ p = period => used[o][p] + Cardinality(Counting(o)) < Limit + Cardinality(Threads)
         /\ p < period => used[o][p] < Limit + Cardinality(Threads)

HookInv == /\ EventsAsSaid /\ OnlySubscriptionsApply /\ OneEvent /\ AnswerApplied
           /\ LaterUnacked /\ PlanOfNewest /\ PaidPlanIsOnRecord

IInv == TypeOK /\ HookInv /\ Entitled /\ CountBound

------------------------------------------------------------------------------
LEMMA SomeOrgTyped == SomeOrg \in Orgs
BY OrgsAssumption DEF SomeOrg

LEMMA MaxOfTwo ==
  ASSUME NEW a \in Nat, NEW b \in Nat
  PROVE  Max({a, b}) = IF a >= b THEN a ELSE b
<1> DEFINE m == IF a >= b THEN a ELSE b
<1>1. m \in {a, b} /\ \A x \in {a, b} : m >= x
  OBVIOUS
<1>2. \A y \in {a, b} : (\A x \in {a, b} : y >= x) => y = m
  OBVIOUS
<1> HIDE DEF m
<1>3. (CHOOSE y \in {a, b} : \A x \in {a, b} : y >= x) = m
  BY <1>1, <1>2
<1> QED
  BY <1>3 DEF Max, m

LEMMA CountingTyped ==
  ASSUME NEW o
  PROVE  /\ IsFiniteSet(Counting(o))
         /\ Cardinality(Counting(o)) \in Nat /\ Cardinality(Threads) \in Nat
         /\ Cardinality(Counting(o)) =< Cardinality(Threads) /\ Cardinality(Threads) > 0
<1>1. Counting(o) \subseteq Threads
  BY DEF Counting
<1>2. Cardinality(Threads) # 0
  BY ThreadsAssumption, FS_EmptySet
<1> QED
  BY <1>1, <1>2, ThreadsAssumption, FS_CardinalityType, FS_Subset

LEMMA PeriodsTyped == 1 \in Periods /\ \A p \in Periods : p \in Nat /\ (p < MaxPeriods => p + 1 \in Periods)
BY BoundsAssumption DEF Periods

LEMMA InitIInv == Init => IInv
<1> SUFFICES ASSUME Init PROVE IInv
  OBVIOUS
<1>1. TypeOK
  BY SomeOrgTyped, PeriodsTyped DEF Init, TypeOK, Plans, Deliveries
<1>2. HookInv
  BY DEF Init, HookInv, EventsAsSaid, OnlySubscriptionsApply, OneEvent, AnswerApplied, LaterUnacked,
         PlanOfNewest, PaidPlanIsOnRecord
<1>3. Entitled
  BY DEF Init, Entitled
<1>4. CountBound
  <2>1. \A o \in Orgs : Counting(o) = {}
    BY DEF Init, Counting
  <2>2. Cardinality({}) = 0 /\ Cardinality(Threads) \in Nat /\ Cardinality(Threads) > 0
    BY CountingTyped, FS_EmptySet
  <2>3. \A o \in Orgs, p \in Periods : used[o][p] = 0
    BY DEF Init
  <2> QED
    BY <2>1, <2>2, <2>3, LimitAssumption DEF CountBound
<1> QED
  BY <1>1, <1>2, <1>3, <1>4 DEF IInv

------------------------------------------------------------------------------
(* Types.                                                                  *)
LEMMA ChangeTyped ==
  ASSUME TypeOK, NEW o \in Orgs, NEW active \in BOOLEAN, Change(o, active)
  PROVE  TypeOK'
<1>1. Append(sent[o], active) \in Seq(BOOLEAN) /\ Len(sent[o]) + 1 \in Nat
  BY DEF TypeOK
<1>2. sent' \in [Orgs -> Seq(BOOLEAN)] /\ unacked' \subseteq Deliveries
  BY <1>1 DEF TypeOK, Change, Deliveries
<1> QED
  BY <1>2 DEF TypeOK, Change, tables, work, tick

LEMMA WebhookTyped ==
  ASSUME TypeOK, Webhook
  PROVE  TypeOK'
<1>1. CASE \E o \in Orgs, active \in BOOLEAN : Change(o, active)
  BY <1>1, ChangeTyped
<1>2. CASE \E o \in Orgs, kind \in {"other", "unsigned"} : DeliverOther(kind, o, TRUE)
  <2>1. PICK o \in Orgs, kind \in {"other", "unsigned"} : DeliverOther(kind, o, TRUE)
    BY <1>2
  <2>2. hook' \subseteq Deliveries /\ faults' \in Nat
    BY <2>1 DEF DeliverOther, TypeOK, Deliveries
  <2> QED
    BY <2>1, <2>2 DEF DeliverOther, TypeOK, tables, work, tick
<1>3. CASE \E e \in unacked : Deliver(e)
  BY <1>3 DEF Deliver, TypeOK, tables, work, tick
<1>4. CASE LogEvent
  BY <1>4 DEF LogEvent, TypeOK, work, tick
<1>5. CASE ApplyEvent
  <2>1. PICK e \in hook :
          /\ plan' = [plan EXCEPT ![e.org] = PlanOf(e.active)]
          /\ newest' = [newest EXCEPT ![e.org] = Max({@, e.n})]
          /\ overtaken' = IF e.n < newest[e.org] THEN overtaken \cup {e.org} ELSE overtaken
          /\ outdated' = outdated \cup {t \in Threads : pc[t] # "idle" /\ org[t] = e.org}
    BY <1>5 DEF ApplyEvent
  <2>2. e.org \in Orgs /\ e.n \in Nat /\ newest[e.org] \in Nat /\ PlanOf(e.active) \in Plans
    BY DEF TypeOK, Deliveries, PlanOf, Plans
  <2>3. Max({newest[e.org], e.n}) \in Nat
    BY <2>2, MaxOfTwo
  <2>4. /\ plan' \in [Orgs -> Plans] /\ newest' \in [Orgs -> Nat]
        /\ overtaken' \subseteq Orgs /\ outdated' \subseteq Threads
    BY <2>1, <2>2, <2>3 DEF TypeOK
  <2> QED
    BY <1>5, <2>4 DEF ApplyEvent, TypeOK, work, tick
<1>6. CASE AnswerHook
  BY <1>6 DEF AnswerHook, TypeOK, tables, work, tick
<1> QED
  BY <1>1, <1>2, <1>3, <1>4, <1>5, <1>6 DEF Webhook

LEMMA CountedTyped ==
  ASSUME TypeOK, NEW o \in Orgs
  PROVE  /\ Counted(o) \in [Orgs -> [Periods -> Nat]]
         /\ \A q \in Orgs, p \in Periods :
              Counted(o)[q][p] = IF q = o /\ p = period THEN used[q][p] + 1 ELSE used[q][p]
<1> DEFINE row == [used[o] EXCEPT ![period] = @ + 1]
<1>1. used \in [Orgs -> [Periods -> Nat]] /\ used[o] \in [Periods -> Nat]
  BY DEF TypeOK
<1>2. /\ row \in [Periods -> Nat]
      /\ \A p \in Periods : row[p] = IF p = period THEN used[o][p] + 1 ELSE used[o][p]
  <2>1. CASE period \in Periods
    <3>1. used[o][period] + 1 \in Nat
      BY <1>1, <2>1
    <3> QED
      BY <1>1, <3>1
  <2>2. CASE period \notin Periods
    BY <1>1, <2>2
  <2> QED
    BY <2>1, <2>2
<1>3. Counted(o) = [used EXCEPT ![o] = row]
  BY DEF Counted
<1> HIDE DEF row
<1> QED
  BY <1>1, <1>2, <1>3

LEMMA LeaveTyped ==
  ASSUME TypeOK, NEW t \in Threads, Leave(t)
  PROVE  /\ pc' \in [Threads -> {"idle", "byok", "plan", "limit", "count", "pack", "run"}]
         /\ org' \in [Threads -> Orgs] /\ key' \in [Threads -> {"none", "own", "hosted"}]
         /\ custom' \in [Threads -> BOOLEAN] /\ outdated' \subseteq Threads
<1>1. pc' \in [Threads -> {"idle", "byok", "plan", "limit", "count", "pack", "run"}]
  BY DEF TypeOK, Leave
<1>2. org' \in [Threads -> Orgs] /\ outdated' \subseteq Threads
  BY SomeOrgTyped DEF TypeOK, Leave
<1>3. key' \in [Threads -> {"none", "own", "hosted"}] /\ custom' \in [Threads -> BOOLEAN]
  BY DEF TypeOK, Leave
<1> QED
  BY <1>1, <1>2, <1>3

LEMMA AuditTyped ==
  ASSUME TypeOK, NEW t \in Threads, Step(t) \/ \E o \in Orgs : Audit(t, o)
  PROVE  TypeOK'
<1> USE DEF TypeOK, web, work, tick, GoTo
<1>1. CASE \E o \in Orgs : Audit(t, o)
  BY <1>1 DEF Audit, tables
<1>2. CASE GetByok(t)
  BY <1>2 DEF GetByok, tables
<1>3. CASE ReadPlan(t) \/ ReadLimit(t)
  BY <1>3 DEF ReadPlan, ReadLimit, tables
<1>4. CASE IncrementUsage(t)
  BY <1>4, CountedTyped DEF IncrementUsage
<1>5. CASE ChoosePack(t)
  BY <1>5 DEF ChoosePack, tables
<1>6. CASE Run(t) \/ Fail(t)
  <2>1. Leave(t) /\ UNCHANGED <<plan, log, used, web, period, audits, faults, turn, scheduled>>
    BY <1>6 DEF Run, Fail, tables
  <2>2. spent' \in [Orgs -> Nat]
    <3>1. spent \in [Orgs -> Nat] /\ org[t] \in Orgs /\ spent[org[t]] + 1 \in Nat
      OBVIOUS
    <3>2. spent' = [spent EXCEPT ![org[t]] = @ + 1] \/ spent' = spent
      BY <1>6 DEF Run, Fail
    <3> QED
      BY <3>1, <3>2
  <2> QED
    BY <2>1, <2>2, LeaveTyped
<1> QED
  BY <1>1, <1>2, <1>3, <1>4, <1>5, <1>6 DEF Step

LEMMA ScheduleTyped ==
  ASSUME TypeOK, Schedule
  PROVE  TypeOK'
<1>1. /\ turn' \subseteq Orgs /\ audits' \in Nat
      /\ UNCHANGED <<tables, web, work, period, faults, outdated, spent>>
  BY DEF Schedule, BeginTurn, ScheduledAudit, EndTurn, TypeOK
<1>2. scheduled' \in [Orgs -> [Periods -> Nat]]
  <2>1. CASE EndTurn \/ \E o \in Orgs : BeginTurn(o)
    BY <2>1 DEF EndTurn, BeginTurn, TypeOK
  <2>2. ASSUME NEW o \in Orgs, ScheduledAudit(o)
        PROVE  scheduled' \in [Orgs -> [Periods -> Nat]]
    <3>1. scheduled[o] \in [Periods -> Nat] /\ scheduled[o][period] + 1 \in Nat
      BY DEF TypeOK
    <3> DEFINE row == [scheduled[o] EXCEPT ![period] = scheduled[o][period] + 1]
    <3>2. row \in [Periods -> Nat]
      BY <3>1
    <3>3. scheduled' = [scheduled EXCEPT ![o] = row]
      BY <2>2 DEF ScheduledAudit
    <3> HIDE DEF row
    <3> QED
      BY <3>2, <3>3 DEF TypeOK
  <2> QED
    BY <2>1, <2>2 DEF Schedule
<1> QED
  BY <1>1, <1>2 DEF TypeOK, tables, web, work

LEMMA OthersTyped ==
  ASSUME TypeOK, NextMonth \/ Crash
  PROVE  TypeOK'
<1>1. CASE NextMonth
  BY <1>1, PeriodsTyped DEF NextMonth, TypeOK, tables, web, work, tick
<1>2. CASE Crash
  BY <1>2, SomeOrgTyped DEF Crash, TypeOK, tables
<1> QED
  BY <1>1, <1>2

------------------------------------------------------------------------------
(* The provider and its webhooks.                                          *)
LEMMA ChangeHook ==
  ASSUME TypeOK, HookInv, NEW o \in Orgs, NEW active \in BOOLEAN, Change(o, active)
  PROVE  HookInv'
<1> USE DEF HookInv
<1> DEFINE last == Len(sent[o]) + 1
           new  == [kind |-> "subscription", org |-> o, n |-> last, active |-> active]
<1>1. /\ unacked' = unacked \cup {new}
      /\ UNCHANGED <<plan, log, hook, hookPc, newest, overtaken>>
  BY DEF Change, tables
<1>2. /\ sent'[o] = Append(sent[o], active) /\ sent'[o][last] = active
      /\ Len(sent'[o]) = last /\ last \in Nat
      /\ \A n \in 1 .. Len(sent[o]) : sent'[o][n] = sent[o][n]
      /\ \A q \in Orgs \ {o} : sent'[q] = sent[q]
  BY DEF Change, TypeOK
<1>3. \A q \in Orgs : Len(sent[q]) \in Nat /\ Len(sent'[q]) \in Nat /\ Len(sent[q]) =< Len(sent'[q])
                      /\ \A n \in 1 .. Len(sent[q]) : sent'[q][n] = sent[q][n]
  <2>1. \A q \in Orgs : Len(sent[q]) \in Nat
    BY DEF TypeOK
  <2> QED
    BY <1>2, <2>1
<1>4. EventsAsSaid'
  <2>1. ASSUME NEW e \in unacked \cup log \cup hook, e.kind = "subscription"
        PROVE  e.n \in 1 .. Len(sent'[e.org]) /\ sent'[e.org][e.n] = e.active
    <3>1. e.org \in Orgs
      BY DEF TypeOK, Deliveries
    <3>2. e.n \in 1 .. Len(sent[e.org]) /\ sent[e.org][e.n] = e.active
      BY <2>1 DEF EventsAsSaid, Said
    <3> QED
      BY <1>3, <3>1, <3>2
  <2>2. new.n \in 1 .. Len(sent'[new.org]) /\ sent'[new.org][new.n] = new.active
    BY <1>2
  <2> HIDE DEF new
  <2>3. \A e \in unacked' \cup log' \cup hook' : e \in unacked \cup log \cup hook \/ e = new
    BY <1>1
  <2> QED
    BY <2>1, <2>2, <2>3 DEF EventsAsSaid, Said
<1>5. OnlySubscriptionsApply' /\ OneEvent' /\ AnswerApplied'
  BY <1>1 DEF OnlySubscriptionsApply, OneEvent, AnswerApplied
<1>6. LaterUnacked'
  <2> SUFFICES ASSUME NEW q \in Orgs
               PROVE  /\ newest[q] =< Len(sent'[q])
                      /\ \A n \in newest[q] + 1 .. Len(sent'[q]) : \E e \in unacked' : e.org = q /\ e.n = n
    BY <1>1 DEF LaterUnacked
  <2>1. newest[q] \in Nat /\ newest[q] =< Len(sent[q])
    BY DEF TypeOK, LaterUnacked
  <2>2. newest[q] =< Len(sent'[q])
    BY <1>3, <2>1
  <2>3. ASSUME NEW n \in newest[q] + 1 .. Len(sent'[q])
        PROVE  n \in newest[q] + 1 .. Len(sent[q]) \/ (q = o /\ n = last)
    BY <1>2, <1>3, <2>1, <2>3
  <2>4. \A n \in newest[q] + 1 .. Len(sent[q]) : \E e \in unacked' : e.org = q /\ e.n = n
    BY <1>1 DEF LaterUnacked
  <2>5. new \in unacked' /\ new.org = o /\ new.n = last
    BY <1>1
  <2> HIDE DEF new, last
  <2> QED
    BY <2>2, <2>3, <2>4, <2>5
<1>7. PlanOfNewest'
  <2> SUFFICES ASSUME NEW q \in Orgs \ overtaken, newest[q] # 0
               PROVE  plan[q] = PlanOf(sent'[q][newest[q]])
    BY <1>1 DEF PlanOfNewest
  <2>1. newest[q] \in Nat /\ newest[q] =< Len(sent[q])
    BY DEF TypeOK, LaterUnacked
  <2>2. newest[q] \in 1 .. Len(sent[q])
    BY <1>3, <2>1
  <2> QED
    BY <1>3, <2>2 DEF PlanOfNewest
<1>8. PaidPlanIsOnRecord'
  <2> SUFFICES ASSUME NEW q \in Orgs, plan[q] = "pro"
               PROVE  \E e \in log : /\ e.kind = "subscription" /\ e.org = q /\ e.active
                                     /\ e.n \in 1 .. Len(sent'[q]) /\ sent'[q][e.n]
    BY <1>1 DEF PaidPlanIsOnRecord
  <2>1. PICK e \in log : /\ e.kind = "subscription" /\ e.org = q /\ e.active
                         /\ e.n \in 1 .. Len(sent[q]) /\ sent[q][e.n]
    BY DEF PaidPlanIsOnRecord
  <2>2. e.n \in 1 .. Len(sent[q])
    BY <2>1, Zenon
  <2>3. e.n \in 1 .. Len(sent'[q]) /\ sent'[q][e.n] = sent[q][e.n]
    BY <1>3, <2>2
  <2> QED
    BY <2>1, <2>3, Zenon
<1> QED
  BY <1>4, <1>5, <1>6, <1>7, <1>8

\* A delivery begins or ends, and what was said and applied stays.
LEMMA TurnHook ==
  ASSUME TypeOK, HookInv,
         UNCHANGED <<plan, sent, newest, overtaken>>, log \subseteq log',
         log' \cup hook' \cup unacked' \subseteq log \cup hook' \cup unacked,
         \A e \in hook' : Said(e),
         OnlySubscriptionsApply', OneEvent', AnswerApplied', LaterUnacked'
  PROVE  HookInv'
<1> USE DEF HookInv
<1>1. EventsAsSaid'
  <2>1. \A e \in log \cup hook' \cup unacked : Said(e)
    BY DEF EventsAsSaid
  <2>2. \A e : Said(e)' <=> Said(e)
    BY DEF Said
  <2> QED
    BY <2>1, <2>2 DEF EventsAsSaid
<1>2. PlanOfNewest' /\ PaidPlanIsOnRecord'
  BY DEF PlanOfNewest, PaidPlanIsOnRecord
<1> QED
  BY <1>1, <1>2

LEMMA DeliverHook ==
  ASSUME TypeOK, HookInv,
         \/ \E o \in Orgs, kind \in {"other", "unsigned"} : DeliverOther(kind, o, TRUE)
         \/ \E e \in unacked : Deliver(e)
  PROVE  HookInv'
<1> USE DEF HookInv
<1>1. PICK e : /\ hook' = {e} /\ hookPc' = "log"
               /\ UNCHANGED <<tables, sent, unacked, newest, overtaken>>
               /\ e.kind \in {"other", "unsigned"} \/ e \in unacked
  BY DEF DeliverOther, Deliver
<1>2. Said(e)
  BY <1>1 DEF Said, EventsAsSaid
<1>3. OnlySubscriptionsApply' /\ OneEvent' /\ AnswerApplied' /\ LaterUnacked'
  BY <1>1 DEF OnlySubscriptionsApply, OneEvent, AnswerApplied, LaterUnacked
<1> QED
  BY <1>1, <1>2, <1>3, TurnHook DEF tables

LEMMA LogEventHook ==
  ASSUME TypeOK, HookInv, LogEvent
  PROVE  HookInv'
<1> USE DEF HookInv
<1>1. /\ hookPc = "log" /\ log' = log \cup hook
      /\ UNCHANGED <<plan, sent, unacked, newest, overtaken>>
      /\ \/ hookPc' = "apply" /\ hook' = hook /\ \A e \in hook : e.kind = "subscription"
         \/ hookPc' = "idle" /\ hook' = {}
  BY DEF LogEvent, Applies
<1>2. OnlySubscriptionsApply' /\ OneEvent' /\ AnswerApplied' /\ LaterUnacked'
  BY <1>1 DEF OnlySubscriptionsApply, OneEvent, AnswerApplied, LaterUnacked
<1>3. \A e \in log \cup hook \cup unacked : Said(e)
  BY DEF EventsAsSaid
<1>4. \A e : Said(e)' <=> Said(e)
  BY <1>1 DEF Said
<1>5. EventsAsSaid'
  BY <1>1, <1>3, <1>4 DEF EventsAsSaid
<1>6. PlanOfNewest' /\ PaidPlanIsOnRecord'
  BY <1>1 DEF PlanOfNewest, PaidPlanIsOnRecord
<1> QED
  BY <1>2, <1>5, <1>6

LEMMA EndHook ==
  ASSUME TypeOK, HookInv, AnswerHook \/ Crash
  PROVE  HookInv'
<1> USE DEF HookInv
<1>1. /\ hook' = {} /\ hookPc' = "idle"
      /\ UNCHANGED <<plan, log, sent, newest, overtaken>>
  BY DEF AnswerHook, Crash, tables
<1>2. unacked' = unacked \/ (hookPc = "answer" /\ unacked' = unacked \ hook)
  BY DEF AnswerHook, Crash
<1>3. LaterUnacked'
  <2>1. CASE unacked' = unacked
    BY <1>1, <2>1 DEF LaterUnacked
  <2>2. CASE hookPc = "answer" /\ unacked' = unacked \ hook
    <3> SUFFICES ASSUME NEW o \in Orgs, NEW n \in newest[o] + 1 .. Len(sent[o])
                 PROVE  \E e \in unacked' : e.org = o /\ e.n = n
      BY <1>1 DEF LaterUnacked
    <3>1. PICK e \in unacked : e.org = o /\ e.n = n
      BY DEF LaterUnacked
    <3>2. newest[o] \in Nat /\ ~(n =< newest[o])
      BY DEF TypeOK
    <3>3. e \notin hook
      BY <2>2, <3>1, <3>2 DEF AnswerApplied
    <3> QED
      BY <2>2, <3>1, <3>3
  <2> QED
    BY <1>2, <2>1, <2>2
<1>4. OnlySubscriptionsApply' /\ OneEvent' /\ AnswerApplied'
  BY <1>1, <1>2 DEF OnlySubscriptionsApply, OneEvent, AnswerApplied
<1> QED
  BY <1>1, <1>2, <1>3, <1>4, TurnHook

LEMMA ApplyHook ==
  ASSUME TypeOK, HookInv, ApplyEvent
  PROVE  HookInv'
<1> USE DEF HookInv
<1>1. PICK e \in hook : hook = {e}
  BY DEF OneEvent, ApplyEvent
<1>2. /\ hookPc = "apply" /\ hookPc' = "answer"
      /\ plan' = [plan EXCEPT ![e.org] = PlanOf(e.active)]
      /\ newest' = [newest EXCEPT ![e.org] = Max({@, e.n})]
      /\ overtaken' = IF e.n < newest[e.org] THEN overtaken \cup {e.org} ELSE overtaken
      /\ UNCHANGED <<log, sent, unacked, hook>>
  BY <1>1 DEF ApplyEvent
<1>3. /\ e.org \in Orgs /\ e.n \in Nat /\ e.active \in BOOLEAN /\ e \in log
      /\ e.kind = "subscription" /\ e.n \in 1 .. Len(sent[e.org]) /\ sent[e.org][e.n] = e.active
  BY <1>1, <1>2 DEF TypeOK, Deliveries, OnlySubscriptionsApply, EventsAsSaid, Said
<1>4. /\ \A q \in Orgs : newest[q] \in Nat /\ newest'[q] \in Nat /\ newest[q] =< newest'[q]
      /\ \A q \in Orgs \ {e.org} : newest'[q] = newest[q] /\ plan'[q] = plan[q]
      /\ newest'[e.org] = IF newest[e.org] >= e.n THEN newest[e.org] ELSE e.n
      /\ plan'[e.org] = PlanOf(e.active)
  <2>1. newest[e.org] \in Nat
    BY <1>3 DEF TypeOK
  <2>2. Max({newest[e.org], e.n}) = IF newest[e.org] >= e.n THEN newest[e.org] ELSE e.n
    BY <1>3, <2>1, MaxOfTwo
  <2>3. Max({newest[e.org], e.n}) \in Nat /\ newest[e.org] =< Max({newest[e.org], e.n})
    BY <1>3, <2>1, <2>2
  <2> DEFINE m == Max({newest[e.org], e.n})
  <2>4. newest' = [newest EXCEPT ![e.org] = m]
    BY <1>2
  <2> HIDE DEF m
  <2>5. newest' = [newest EXCEPT ![e.org] = m] /\ m \in Nat /\ newest[e.org] =< m
        /\ m = IF newest[e.org] >= e.n THEN newest[e.org] ELSE e.n
    BY <2>2, <2>3, <2>4 DEF m
  <2>6. \A q \in Orgs : newest'[q] = IF q = e.org THEN m ELSE newest[q]
    BY <2>5 DEF TypeOK
  <2>7. /\ plan'[e.org] = PlanOf(e.active)
        /\ \A q \in Orgs \ {e.org} : plan'[q] = plan[q]
    BY <1>2, <1>3 DEF TypeOK
  <2>8. \A q \in Orgs : newest[q] \in Nat
    BY DEF TypeOK
  <2> QED
    BY <1>3, <2>5, <2>6, <2>7, <2>8
<1>5. EventsAsSaid' /\ OnlySubscriptionsApply' /\ OneEvent'
  BY <1>1, <1>2 DEF EventsAsSaid, Said, OnlySubscriptionsApply, OneEvent
<1>6. AnswerApplied'
  BY <1>1, <1>2, <1>3, <1>4 DEF AnswerApplied
<1>7. LaterUnacked'
  <2> SUFFICES ASSUME NEW q \in Orgs
               PROVE  /\ newest'[q] =< Len(sent[q])
                      /\ \A n \in newest'[q] + 1 .. Len(sent[q]) : \E d \in unacked : d.org = q /\ d.n = n
    BY <1>2 DEF LaterUnacked
  <2>1. Len(sent[q]) \in Nat /\ newest[q] =< Len(sent[q])
    BY DEF TypeOK, LaterUnacked
  <2>2. newest'[q] =< Len(sent[q])
    BY <1>3, <1>4, <2>1
  <2>3. \A n \in newest'[q] + 1 .. Len(sent[q]) : n \in newest[q] + 1 .. Len(sent[q])
    BY <1>4, <2>1
  <2> QED
    BY <2>2, <2>3 DEF LaterUnacked
<1>8. PlanOfNewest'
  <2> SUFFICES ASSUME NEW q \in Orgs, q \notin overtaken', newest'[q] # 0
               PROVE  plan'[q] = PlanOf(sent[q][newest'[q]])
    BY <1>2 DEF PlanOfNewest
  <2>1. CASE q # e.org
    BY <1>2, <1>4, <2>1 DEF PlanOfNewest
  <2>2. CASE q = e.org
    <3>1. ~(e.n < newest[q])
      BY <1>2, <2>2
    <3>2. newest'[q] = e.n
      BY <1>3, <1>4, <2>2, <3>1
    <3> QED
      BY <1>3, <1>4, <2>2, <3>2
  <2> QED
    BY <2>1, <2>2
<1>9. PaidPlanIsOnRecord'
  <2> SUFFICES ASSUME NEW q \in Orgs, plan'[q] = "pro"
               PROVE  \E d \in log : /\ d.kind = "subscription" /\ d.org = q /\ d.active
                                     /\ d.n \in 1 .. Len(sent[q]) /\ sent[q][d.n]
    BY <1>2, Zenon DEF PaidPlanIsOnRecord
  <2>1. CASE q # e.org
    <3>1. plan[q] = "pro"
      BY <1>4, <2>1
    <3> QED
      BY <3>1, Zenon DEF PaidPlanIsOnRecord
  <2>2. CASE q = e.org
    <3>1. e.active = TRUE
      BY <1>3, <1>4, <2>2 DEF PlanOf
    <3> QED
      BY <1>3, <2>2, <3>1, Zenon
  <2> QED
    BY <2>1, <2>2
<1> QED
  BY <1>5, <1>6, <1>7, <1>8, <1>9

LEMMA WebhookHook ==
  ASSUME TypeOK, HookInv, Webhook
  PROVE  HookInv'
BY ChangeHook, DeliverHook, LogEventHook, ApplyHook, EndHook DEF Webhook

\* What leaves the webhooks' state alone.
LEMMA StillHook ==
  ASSUME HookInv, UNCHANGED <<plan, log, web>>
  PROVE  HookInv'
<1> USE DEF web
<1>1. EventsAsSaid' /\ OnlySubscriptionsApply' /\ OneEvent' /\ AnswerApplied'
  BY DEF HookInv, EventsAsSaid, Said, OnlySubscriptionsApply, OneEvent, AnswerApplied
<1>2. LaterUnacked' /\ PlanOfNewest' /\ PaidPlanIsOnRecord'
  BY DEF HookInv, LaterUnacked, PlanOfNewest, PaidPlanIsOnRecord
<1> QED
  BY <1>1, <1>2 DEF HookInv

------------------------------------------------------------------------------
(* What audits are given.                                                  *)
LEMMA WebhookEntitled ==
  ASSUME TypeOK, Entitled, Webhook
  PROVE  Entitled'
<1>1. CASE UNCHANGED <<plan, pc, org, key, custom, outdated>>
  BY <1>1 DEF Entitled
<1>2. CASE ApplyEvent
  <2>1. PICK e \in hook :
          /\ plan' = [plan EXCEPT ![e.org] = PlanOf(e.active)]
          /\ outdated' = outdated \cup {t \in Threads : pc[t] # "idle" /\ org[t] = e.org}
    BY <1>2 DEF ApplyEvent
  <2>2. UNCHANGED <<pc, org, key, custom>>
    BY <1>2 DEF ApplyEvent, work
  <2>3. ASSUME NEW t \in Threads, t \notin outdated', pc[t] # "idle"
        PROVE  t \notin outdated /\ plan'[org[t]] = plan[org[t]]
    BY <2>1, <2>3 DEF TypeOK
  <2> QED
    BY <2>2, <2>3 DEF Entitled
<1> QED
  BY <1>1, <1>2 DEF Webhook, Change, DeliverOther, Deliver, LogEvent, AnswerHook, tables, work

LEMMA AuditEntitled ==
  ASSUME TypeOK, Entitled, NEW t \in Threads, Step(t) \/ \E o \in Orgs : Audit(t, o)
  PROVE  Entitled'
<1> USE DEF GoTo, tables, work
<1> DEFINE Good(s) ==
      /\ pc[s] \in {"idle", "byok", "plan"} => key[s] # "hosted"
      /\ s \notin outdated =>
           /\ pc[s] \in {"limit", "count"} => plan[org[s]] = "pro"
           /\ pc[s] \in {"pack", "run"} /\ key[s] = "hosted" => plan[org[s]] = "pro"
           /\ pc[s] = "run" => (custom[s] <=> plan[org[s]] = "pro")
<1>1. /\ plan' = plan
      /\ \A s \in Threads \ {t} : /\ pc'[s] = pc[s] /\ org'[s] = org[s] /\ key'[s] = key[s]
                                  /\ custom'[s] = custom[s] /\ (s \in outdated' <=> s \in outdated)
  BY DEF TypeOK, Step, Audit, GetByok, ReadPlan, ReadLimit, IncrementUsage, ChoosePack, Run, Fail, Leave
<1>2. \A s \in Threads \ {t} : Good(s)'
  BY <1>1 DEF Entitled
<1>3. Good(t)'
  <2> USE DEF TypeOK
  <2>1. CASE \E o \in Orgs : Audit(t, o)
    BY <2>1 DEF Audit, Entitled
  <2>2. CASE GetByok(t)
    BY <2>2 DEF GetByok, Entitled
  <2>3. CASE ReadPlan(t)
    BY <2>3 DEF ReadPlan, Entitled
  <2>4. CASE ReadLimit(t)
    BY <2>4 DEF ReadLimit, Entitled
  <2>5. CASE IncrementUsage(t)
    BY <2>5 DEF IncrementUsage, Entitled
  <2>6. CASE ChoosePack(t)
    BY <2>6 DEF ChoosePack, Entitled
  <2>7. CASE Run(t) \/ Fail(t)
    BY <2>7 DEF Run, Fail, Leave
  <2> QED
    BY <2>1, <2>2, <2>3, <2>4, <2>5, <2>6, <2>7 DEF Step
<1> HIDE DEF Good
<1>4. \A s \in Threads : Good(s)'
  BY <1>2, <1>3
<1> QED
  BY <1>4 DEF Good, Entitled

LEMMA OthersEntitled ==
  ASSUME TypeOK, Entitled, NextMonth \/ Crash \/ Schedule
  PROVE  Entitled'
<1>1. CASE NextMonth \/ Crash
  BY <1>1 DEF NextMonth, Crash, Entitled, tables, work
<1>2. CASE Schedule
  BY <1>2 DEF Schedule, BeginTurn, ScheduledAudit, EndTurn, Entitled, tables, work
<1> QED
  BY <1>1, <1>2

------------------------------------------------------------------------------
(* The limit.                                                              *)
LEMMA FewerCounting ==
  ASSUME TypeOK, CountBound, UNCHANGED <<used, period>>,
         \A o \in Orgs : Counting(o)' \subseteq Counting(o)
  PROVE  CountBound'
<1> SUFFICES ASSUME NEW o \in Orgs
             PROVE  /\ Counting(o)' # {} => Limit > 0
                    /\ \A p \in Periods : p = period =>
                         used[o][p] + Cardinality(Counting(o)') < Limit + Cardinality(Threads)
  BY DEF CountBound
<1>1. Cardinality(Counting(o)') =< Cardinality(Counting(o)) /\ Cardinality(Counting(o)') \in Nat
  BY CountingTyped, FS_Subset, FS_CardinalityType
<1>2. /\ Cardinality(Counting(o)) \in Nat /\ Cardinality(Threads) \in Nat
      /\ \A p \in Periods : used[o][p] \in Nat
  BY CountingTyped DEF TypeOK
<1> DEFINE C == Cardinality(Counting(o))  D == Cardinality(Counting(o)')  T == Cardinality(Threads)
<1>3. \A p \in Periods : p = period => used[o][p] + C < Limit + T
  BY DEF CountBound
<1>4. C \in Nat /\ D \in Nat /\ T \in Nat /\ D =< C
  BY <1>1, <1>2
<1> HIDE DEF C, D, T
<1>5. \A p \in Periods : p = period => used[o][p] + D < Limit + T
  BY <1>2, <1>3, <1>4, LimitAssumption
<1> QED
  BY <1>5 DEF CountBound, D, T

LEMMA ReadLimitCount ==
  ASSUME TypeOK, CountBound, NEW t \in Threads, ReadLimit(t), UnderHostedAuditLimit(org[t])
  PROVE  CountBound'
<1>1. /\ UNCHANGED <<used, period, org>> /\ pc' = [pc EXCEPT ![t] = "count"]
  BY DEF ReadLimit, GoTo, tables
<1> SUFFICES ASSUME NEW o \in Orgs
             PROVE  /\ Counting(o)' # {} => Limit > 0
                    /\ \A p \in Periods : p = period =>
                         used[o][p] + Cardinality(Counting(o)') < Limit + Cardinality(Threads)
  BY <1>1 DEF CountBound
<1>2. CASE o # org[t]
  <2>1. Counting(o)' = Counting(o)
    BY <1>1, <1>2 DEF Counting, TypeOK, ReadLimit
  <2> QED
    BY <2>1 DEF CountBound
<1>3. CASE o = org[t]
  <2>1. used[o][period] < Limit
    BY <1>3 DEF UnderHostedAuditLimit
  <2>2. Counting(o)' \subseteq Threads
    BY DEF Counting
  <2> DEFINE D == Cardinality(Counting(o)')  T == Cardinality(Threads)
  <2>3. D \in Nat /\ T \in Nat /\ D =< T
    BY <2>2, ThreadsAssumption, FS_Subset, FS_CardinalityType
  <2> HIDE DEF D, T
  <2>4. \A p \in Periods : p = period => used[o][p] \in Nat /\ used[o][p] < Limit
    BY <2>1 DEF TypeOK
  <2>5. \A p \in Periods : p = period => used[o][p] + D < Limit + T
    BY <2>3, <2>4, LimitAssumption
  <2>6. Limit > 0
    <3>1. used[o][period] \in Nat
      BY DEF TypeOK
    <3> QED
      BY <2>1, <3>1, LimitAssumption
  <2> QED
    BY <2>5, <2>6 DEF D, T
<1> QED
  BY <1>2, <1>3

LEMMA IncrementCount ==
  ASSUME TypeOK, CountBound, NEW t \in Threads, IncrementUsage(t)
  PROVE  CountBound'
<1>0. PICK q \in Orgs : q = org[t]
  BY DEF TypeOK
<1>1. /\ pc[t] = "count" /\ pc' = [pc EXCEPT ![t] = "pack"]
      /\ UNCHANGED <<period, org>> /\ used' = Counted(q)
  BY <1>0 DEF IncrementUsage, GoTo
<1>2. \A o \in Orgs, p \in Periods :
        used'[o][p] = IF o = q /\ p = period THEN used[o][p] + 1 ELSE used[o][p]
  BY <1>1, CountedTyped
<1>3. \A o \in Orgs : o # q => Counting(o)' = Counting(o)
  BY <1>0, <1>1 DEF Counting, TypeOK
<1>4. Counting(q)' = Counting(q) \ {t} /\ t \in Counting(q)
  BY <1>0, <1>1 DEF Counting, TypeOK
<1>5. /\ Cardinality(Counting(q)') = Cardinality(Counting(q)) - 1
      /\ Cardinality(Counting(q)) \in Nat /\ Cardinality(Threads) \in Nat
  BY <1>4, CountingTyped, FS_RemoveElement
<1>6. period' = period
  BY <1>1
<1> SUFFICES ASSUME NEW o \in Orgs
             PROVE  /\ Counting(o)' # {} => Limit > 0
                    /\ \A p \in Periods :
                         /\ p > period => used'[o][p] = 0
                         /\ p = period => used'[o][p] + Cardinality(Counting(o)') < Limit + Cardinality(Threads)
                         /\ p < period => used'[o][p] < Limit + Cardinality(Threads)
  BY <1>6 DEF CountBound
<1>7. CASE o # q
  BY <1>2, <1>3, <1>7 DEF CountBound
<1>8. CASE o = q
  <2>1. Counting(o)' # {} => Limit > 0
    BY <1>4, <1>8 DEF CountBound
  <2>2. ASSUME NEW p \in Periods, p # period
        PROVE  used'[o][p] = used[o][p]
    BY <1>2, <2>2
  <2>3. ASSUME NEW p \in Periods, p = period
        PROVE  used'[o][p] + Cardinality(Counting(o)') < Limit + Cardinality(Threads)
    <3>1. used[o][p] + Cardinality(Counting(q)) < Limit + Cardinality(Threads) /\ used[o][p] \in Nat
      BY <1>8, <2>3 DEF CountBound, TypeOK
    <3>2. used'[o][p] = used[o][p] + 1
      BY <1>2, <1>8, <2>3
    <3> DEFINE C == Cardinality(Counting(q))  D == Cardinality(Counting(q)')
               T == Cardinality(Threads)
    <3>3. D = C - 1 /\ C \in Nat /\ T \in Nat /\ used[o][p] + C < Limit + T
      BY <1>5, <3>1
    <3> HIDE DEF C, D, T
    <3>4. used'[o][p] + D < Limit + T
      BY <3>1, <3>2, <3>3, LimitAssumption
    <3> QED
      BY <1>8, <3>4 DEF D, T
  <2>4. period \in Int /\ \A p \in Periods : p \in Int
    BY DEF TypeOK, Periods
  <2>5. \A p \in Periods : /\ p > period => used'[o][p] = 0
                           /\ p < period => used'[o][p] < Limit + Cardinality(Threads)
    BY <2>2, <2>4 DEF CountBound
  <2> QED
    BY <2>1, <2>3, <2>5
<1> QED
  BY <1>7, <1>8

LEMMA NextMonthCount ==
  ASSUME TypeOK, CountBound, NextMonth
  PROVE  CountBound'
<1>1. /\ period' = period + 1 /\ UNCHANGED <<used, pc, org>>
      /\ \A o : Counting(o)' = Counting(o)
  BY DEF NextMonth, tables, work, Counting
<1>2. period \in Int /\ \A p \in Periods : p \in Int
  BY DEF TypeOK, Periods
<1> SUFFICES ASSUME NEW o \in Orgs
             PROVE  \A p \in Periods :
                         /\ p > period + 1 => used[o][p] = 0
                         /\ p = period + 1 => used[o][p] + Cardinality(Counting(o)) < Limit + Cardinality(Threads)
                         /\ p < period + 1 => used[o][p] < Limit + Cardinality(Threads)
  BY <1>1 DEF CountBound
<1> DEFINE C == Cardinality(Counting(o))  T == Cardinality(Threads)
<1>3. C \in Nat /\ T \in Nat /\ C =< T /\ T > 0
  BY CountingTyped
<1>4. C = 0 \/ Limit > 0
  BY FS_EmptySet DEF CountBound
<1>5. \A p \in Periods : /\ used[o][p] \in Nat
                         /\ p > period => used[o][p] = 0
                         /\ p = period => used[o][p] + C < Limit + T
                         /\ p < period => used[o][p] < Limit + T
  BY DEF CountBound, TypeOK
<1> HIDE DEF C, T
<1>6. \A p \in Periods : /\ p > period + 1 => used[o][p] = 0
                         /\ p = period + 1 => used[o][p] + C < Limit + T
                         /\ p < period + 1 => used[o][p] < Limit + T
  <2> TAKE p \in Periods
  <2>1. CASE p > period
    <3>1. used[o][p] = 0
      BY <1>5, <2>1
    <3>2. C < Limit + T
      BY <1>3, <1>4, LimitAssumption
    <3> QED
      BY <1>2, <1>3, <2>1, <3>1, <3>2
  <2>2. CASE p = period
    BY <1>2, <1>3, <1>5, <2>2, LimitAssumption
  <2>3. CASE p < period
    BY <1>2, <1>5, <2>3
  <2> QED
    BY <1>2, <2>1, <2>2, <2>3
<1> QED
  BY <1>6 DEF C, T

LEMMA NextCount ==
  ASSUME TypeOK, CountBound, Next
  PROVE  CountBound'
<1>1. CASE Webhook
  <2>1. UNCHANGED <<used, period, pc, org>>
    BY <1>1 DEF Webhook, Change, DeliverOther, Deliver, LogEvent, ApplyEvent, AnswerHook, tables, work
  <2> QED
    BY <2>1, FewerCounting DEF Counting
<1>2. ASSUME NEW t \in Threads, Step(t) \/ \E o \in Orgs : Audit(t, o)
      PROVE  CountBound'
  <2>1. CASE ReadLimit(t) /\ UnderHostedAuditLimit(org[t])
    BY <2>1, ReadLimitCount
  <2>2. CASE IncrementUsage(t)
    BY <2>2, IncrementCount
  <2>3. CASE ~(ReadLimit(t) /\ UnderHostedAuditLimit(org[t])) /\ ~IncrementUsage(t)
    <3>1. UNCHANGED <<used, period>>
      BY <1>2, <2>3 DEF Step, Audit, GetByok, ReadPlan, ReadLimit, ChoosePack, Run, Fail, tables
    <3>2. pc'[t] # "count"
      BY <1>2, <2>3 DEF TypeOK, GoTo, Leave, Step, Audit, GetByok, ReadPlan, ReadLimit, ChoosePack,
                        Run, Fail
    <3>3. \A s \in Threads \ {t} : pc'[s] = pc[s] /\ org'[s] = org[s]
      BY <1>2, <2>3 DEF TypeOK, GoTo, Leave, Step, Audit, GetByok, ReadPlan, ReadLimit, ChoosePack,
                        Run, Fail
    <3>4. \A o \in Orgs : Counting(o)' \subseteq Counting(o)
      BY <3>2, <3>3 DEF Counting
    <3> QED
      BY <3>1, <3>4, FewerCounting
  <2> QED
    BY <2>1, <2>2, <2>3
<1>3. CASE NextMonth
  BY <1>3, NextMonthCount
<1>4. CASE Crash
  <2>1. UNCHANGED <<used, period>> /\ \A o \in Orgs : Counting(o)' = {}
    BY <1>4 DEF Crash, Counting, tables
  <2> QED
    BY <2>1, FewerCounting
<1>5. CASE Schedule
  <2>1. UNCHANGED <<used, period, pc, org>>
    BY <1>5 DEF Schedule, BeginTurn, ScheduledAudit, EndTurn, tables, work
  <2> QED
    BY <2>1, FewerCounting DEF Counting
<1> QED
  BY <1>1, <1>2, <1>3, <1>4, <1>5 DEF Next

------------------------------------------------------------------------------
LEMMA NextIInv == IInv /\ [Next]_vars => IInv'
<1> SUFFICES ASSUME IInv, [Next]_vars PROVE IInv'
  OBVIOUS
<1> USE DEF IInv
<1>1. CASE Webhook
  BY <1>1, WebhookTyped, WebhookHook, WebhookEntitled, NextCount DEF Next
<1>2. ASSUME NEW t \in Threads, Step(t) \/ \E o \in Orgs : Audit(t, o)
      PROVE  IInv'
  <2>1. UNCHANGED <<plan, log, web>>
    BY <1>2 DEF Step, Audit, GetByok, ReadPlan, ReadLimit, IncrementUsage, ChoosePack, Run, Fail, tables
  <2> QED
    BY <1>2, <2>1, AuditTyped, StillHook, AuditEntitled, NextCount DEF Next
<1>3. CASE NextMonth
  BY <1>3, OthersTyped, StillHook, OthersEntitled, NextCount DEF Next, NextMonth, tables
<1>4. CASE Crash
  BY <1>4, OthersTyped, EndHook, OthersEntitled, NextCount DEF Next
<1>5. CASE UNCHANGED vars
  <2>1. TypeOK' /\ Entitled' /\ HookInv'
    BY <1>5, StillHook DEF vars, tables, web, work, tick, TypeOK, Entitled
  <2>2. UNCHANGED <<used, period>> /\ \A o \in Orgs : Counting(o)' = Counting(o)
    BY <1>5 DEF vars, tables, work, Counting
  <2> QED
    BY <2>1, <2>2, FewerCounting
<1>6. CASE Schedule
  <2>1. UNCHANGED <<plan, log, web>>
    BY <1>6 DEF Schedule, BeginTurn, ScheduledAudit, EndTurn, tables
  <2> QED
    BY <1>6, <2>1, ScheduleTyped, StillHook, OthersEntitled, NextCount DEF Next
<1> QED
  BY <1>1, <1>2, <1>3, <1>4, <1>5, <1>6 DEF Next

LEMMA Inductive == Spec => []IInv
BY InitIInv, NextIInv, PTL DEF Spec

\* The tables and every request that works on them keep their types.
THEOREM TypeCorrect == Spec => []TypeOK
<1>1. IInv => TypeOK
  BY DEF IInv
<1> QED
  BY <1>1, Inductive, PTL

\* A paid plan is always the effect of an event that handle_webhook verified
\* and has on record.
THEOREM PaidOnRecord == Spec => []PaidPlanIsOnRecord
<1>1. IInv => PaidPlanIsOnRecord
  BY DEF IInv, HookInv
<1> QED
  BY <1>1, Inductive, PTL

\* Once the provider has its answers, handle_webhook has left the plan that the
\* last event gives, however often it crashed or was called, if in order.
THEOREM SettlesOnLast == Spec => []PlanSettles
<1>1. IInv => PlanSettles
  <2> SUFFICES ASSUME IInv, NEW o \in Orgs \ overtaken, sent[o] # << >>,
                      \A e \in unacked : e.org # o
               PROVE  plan[o] = PlanOf(sent[o][Len(sent[o])])
    BY DEF PlanSettles
  <2>1. /\ newest[o] \in Nat /\ Len(sent[o]) \in Nat /\ Len(sent[o]) # 0
        /\ newest[o] =< Len(sent[o])
    BY DEF IInv, TypeOK, HookInv, LaterUnacked
  <2>2. newest[o] = Len(sent[o])
    <3>1. \A n \in newest[o] + 1 .. Len(sent[o]) : FALSE
      BY DEF IInv, HookInv, LaterUnacked
    <3>2. newest[o] < Len(sent[o]) => Len(sent[o]) \in newest[o] + 1 .. Len(sent[o])
      BY <2>1
    <3> QED
      BY <2>1, <3>1, <3>2
  <2> QED
    BY <2>1, <2>2 DEF IInv, HookInv, PlanOfNewest
<1> QED
  BY <1>1, Inductive, PTL

\* POST /audit gives the hosted key and the custom rules to a paid plan, and
\* only to it, unless the plan was written under it.
THEOREM GivesWhatIsPaid == Spec => []PerksMatchPlan
<1>1. IInv => PerksMatchPlan
  BY DEF IInv, Entitled, PerksMatchPlan
<1> QED
  BY <1>1, Inductive, PTL

\* In every month the counter of POST /audit's audits on the hosted key passes
\* HOSTED_AUDIT_MONTHLY_LIMIT by fewer than there are threads.  The scheduler's
\* audits on that key are not in the counter, and nothing bounds them.
THEOREM LimitBounds == Spec => []OverLimitByThreadsOnly
<1>1. IInv => OverLimitByThreadsOnly
  <2> SUFFICES ASSUME IInv, NEW o \in Orgs, NEW p \in Periods
               PROVE  used[o][p] < Limit + Cardinality(Threads)
    BY DEF OverLimitByThreadsOnly
  <2> DEFINE C == Cardinality(Counting(o))  T == Cardinality(Threads)
  <2>1. C \in Nat /\ T \in Nat /\ T > 0
    BY CountingTyped
  <2>2. used[o][p] \in Nat /\ period \in Nat /\ p \in Nat
    BY PeriodsTyped DEF IInv, TypeOK
  <2>3. /\ p > period => used[o][p] = 0
        /\ p = period => used[o][p] + C < Limit + T
        /\ p < period => used[o][p] < Limit + T
    BY DEF IInv, CountBound
  <2> HIDE DEF C, T
  <2>4. used[o][p] < Limit + T
    BY <2>1, <2>2, <2>3, LimitAssumption
  <2> QED
    BY <2>4 DEF T
<1> QED
  BY <1>1, Inductive, PTL
------------------------------------------------------------------------------
(***************************************************************************)
(* Spending.  FoldSet folds over the subsets of Periods: that its function *)
(* exists and what one more hosted audit does to it is shown by a smallest *)
(* set for which it is not so.                                             *)
(***************************************************************************)
\* The element that a fold takes of s.
Taken(s) == CHOOSE p \in s : TRUE

\* f adds up the counts of u over the sets S.
AddsUp(f, u, S) == f = [s \in S |-> IF s = {} THEN 0 ELSE f[s \ {Taken(s)}] + u[Taken(s)]]

Total(u) == FoldSet(LAMBDA p, sum : sum + u[p], 0, Periods)

Sums(u) == CHOOSE f : AddsUp(f, u, SUBSET Periods)

LEMMA TotalIs ==
  ASSUME NEW u
  PROVE  Total(u) = Sums(u)[Periods]
BY DEF Total, FoldSet, MapThenFoldSet, Sums, AddsUp, Taken

LEMMA LeastNatural ==
  ASSUME NEW T, T \subseteq Nat, T # {}
  PROVE  \E n \in T : \A m \in T : n =< m
<1> DEFINE R == OpToRel(<, Nat)
<1>1. IsWellFoundedOn(R, Nat)
  BY NatLessThanWellFounded
<1>2. \A n, m \in Nat : m < n => <<m, n>> \in R
  BY DEF OpToRel
<1> HIDE DEF R
<1>3. PICK n \in T : \A m \in T : <<m, n>> \notin R
  BY <1>1, WFMin
<1>4. \A m \in T : ~ (m < n)
  BY <1>2, <1>3
<1> QED
  BY <1>4

LEMMA TakenOf ==
  ASSUME NEW s, s # {}
  PROVE  Taken(s) \in s
BY DEF Taken

\* The sets of at most n months.
UpTo(n) == {s \in SUBSET Periods : Cardinality(s) =< n}

LEMMA OneLess ==
  ASSUME NEW s \in SUBSET Periods, s # {}
  PROVE  /\ IsFiniteSet(s) /\ Cardinality(s) \in Nat \ {0}
         /\ s \ {Taken(s)} \in SUBSET Periods /\ Cardinality(s \ {Taken(s)}) = Cardinality(s) - 1
<1>1. IsFiniteSet(Periods)
  BY BoundsAssumption, FS_Interval DEF Periods
<1>2. IsFiniteSet(s)
  BY <1>1, FS_Subset
<1> QED
  BY <1>2, TakenOf, FS_CardinalityType, FS_EmptySet, FS_RemoveElement

LEMMA MonthsCounted == \A s \in SUBSET Periods : IsFiniteSet(s) /\ Cardinality(s) \in Nat
<1>1. IsFiniteSet(Periods)
  BY BoundsAssumption, FS_Interval DEF Periods
<1> QED
  BY <1>1, FS_Subset, FS_CardinalityType

LEMMA FoldExists ==
  ASSUME NEW u
  PROVE  AddsUp(Sums(u), u, SUBSET Periods)
<1> DEFINE Missing == {n \in Nat : ~ \E f : AddsUp(f, u, UpTo(n))}
<1>1. Missing = {}
  <2>1. SUFFICES ASSUME Missing # {}
                 PROVE  FALSE
    OBVIOUS
  <2>2. PICK n \in Missing : \A m \in Missing : n =< m
    BY <2>1, LeastNatural
  <2>3. n # 0
    <3>1. UpTo(0) = {{}}
      <4>1. \A s \in SUBSET Periods : s # {} => Cardinality(s) \in Nat \ {0}
        BY OneLess
      <4>2. Cardinality({}) = 0
        BY FS_EmptySet
      <4>3. \A s \in SUBSET Periods : Cardinality(s) =< 0 <=> s = {}
        BY <4>1, <4>2
      <4> QED
        BY <4>3 DEF UpTo
    <3> DEFINE f == [s \in {{}} |-> 0]
    <3>2. AddsUp(f, u, {{}})
      BY DEF AddsUp
    <3> QED
      BY <3>1, <3>2
  <2>4. n - 1 \in Nat /\ n - 1 \notin Missing
    BY <2>2, <2>3
  <2>5. PICK f : AddsUp(f, u, UpTo(n - 1))
    BY <2>4
  <2> DEFINE g == [s \in UpTo(n) |-> IF s = {} THEN 0 ELSE f[s \ {Taken(s)}] + u[Taken(s)]]
  <2>6. \A s \in UpTo(n) : s # {} => s \ {Taken(s)} \in UpTo(n - 1)
    BY <2>4, OneLess DEF UpTo
  <2>7. \A s \in UpTo(n - 1) : s \in UpTo(n) /\ g[s] = f[s]
    <3>1. \A s \in UpTo(n - 1) : s \in UpTo(n)
      <4>1. \A s \in UpTo(n - 1) : Cardinality(s) \in Nat
        BY MonthsCounted DEF UpTo
      <4> QED
        BY <2>2, <2>4, <4>1 DEF UpTo
    <3>2. \A s \in UpTo(n - 1) : f[s] = IF s = {} THEN 0 ELSE f[s \ {Taken(s)}] + u[Taken(s)]
      BY <2>5 DEF AddsUp
    <3> QED
      BY <3>1, <3>2
  <2> DEFINE h == [s \in UpTo(n) |-> IF s = {} THEN 0 ELSE g[s \ {Taken(s)}] + u[Taken(s)]]
  <2>8. \A s \in UpTo(n) : g[s] = h[s]
    <3>1. \A s \in UpTo(n) : s # {} => g[s \ {Taken(s)}] = f[s \ {Taken(s)}]
      BY <2>6, <2>7
    <3> QED
      BY <3>1
  <2>9. g = h
    BY <2>8
  <2>10. AddsUp(g, u, UpTo(n))
    BY <2>9 DEF AddsUp
  <2> QED
    BY <2>2, <2>10
<1>2. UpTo(MaxPeriods) = SUBSET Periods
  <2>1. IsFiniteSet(Periods) /\ Cardinality(Periods) = MaxPeriods
    BY BoundsAssumption, FS_Interval DEF Periods
  <2>2. \A s \in SUBSET Periods : Cardinality(s) =< MaxPeriods
    BY <2>1, FS_Subset
  <2> QED
    BY <2>2 DEF UpTo
<1>3. \E f : AddsUp(f, u, SUBSET Periods)
  <2>1. MaxPeriods \in Nat /\ MaxPeriods \notin Missing
    BY <1>1, BoundsAssumption
  <2> QED
    BY <1>2, <2>1
<1> QED
  BY <1>3 DEF Sums

\* One more audit counted in a month is one more in all.
LEMMA TotalGrows ==
  ASSUME NEW u \in [Periods -> Nat], NEW v \in [Periods -> Nat], NEW p \in Periods,
         v[p] = u[p] + 1, \A q \in Periods \ {p} : v[q] = u[q]
  PROVE  Total(u) \in Nat /\ Total(v) = Total(u) + 1
<1> DEFINE F == Sums(u)
           G == Sums(v)
           Fits(s) == F[s] \in Nat /\ G[s] = F[s] + (IF p \in s THEN 1 ELSE 0)
           Odd == {s \in SUBSET Periods : ~ Fits(s)}
           Sizes == {Cardinality(s) : s \in Odd}
<1>1. /\ \A s \in SUBSET Periods : F[s] = IF s = {} THEN 0 ELSE F[s \ {Taken(s)}] + u[Taken(s)]
      /\ \A s \in SUBSET Periods : G[s] = IF s = {} THEN 0 ELSE G[s \ {Taken(s)}] + v[Taken(s)]
  <2>1. AddsUp(F, u, SUBSET Periods) /\ AddsUp(G, v, SUBSET Periods)
    BY FoldExists
  <2> HIDE DEF F, G
  <2> QED
    BY <2>1 DEF AddsUp
<1> HIDE DEF F, G
<1>2. Odd = {}
  <2>1. SUFFICES ASSUME Odd # {}
                 PROVE  FALSE
    OBVIOUS
  <2>2. Sizes \subseteq Nat /\ Sizes # {}
    BY <2>1, MonthsCounted
  <2>3. PICK s \in Odd : \A r \in Odd : Cardinality(s) =< Cardinality(r)
    <3> HIDE DEF Odd
    <3>1. PICK n \in Sizes : \A m \in Sizes : n =< m
      BY <2>2, LeastNatural
    <3> QED
      BY <3>1
  <2>4. s # {}
    <3>1. F[{}] = 0 /\ G[{}] = 0 /\ p \notin {}
      BY <1>1
    <3>2. Fits({})
      BY <3>1
    <3> QED
      BY <2>3, <3>2
  <2> DEFINE r == s \ {Taken(s)}
  <2>5. /\ r \in SUBSET Periods /\ Taken(s) \in s /\ Taken(s) \in Periods
        /\ Cardinality(r) = Cardinality(s) - 1 /\ Cardinality(s) \in Nat \ {0}
    BY <2>3, <2>4, OneLess, TakenOf
  <2>6. Fits(r)
    BY <2>3, <2>5
  <2>7. F[s] = F[r] + u[Taken(s)] /\ G[s] = G[r] + v[Taken(s)]
    BY <1>1, <2>3, <2>4
  <2>8. u[Taken(s)] \in Nat /\ v[Taken(s)] \in Nat
    BY <2>5
  <2>9. CASE Taken(s) = p
    <3>1. p \notin r /\ p \in s
      BY <2>5, <2>9
    <3>2. Fits(s)
      BY <2>6, <2>7, <2>8, <2>9, <3>1
    <3> QED
      BY <2>3, <3>2
  <2>10. CASE Taken(s) # p
    <3>1. (p \in r <=> p \in s) /\ v[Taken(s)] = u[Taken(s)]
      BY <2>5, <2>10
    <3>2. Fits(s)
      BY <2>6, <2>7, <2>8, <3>1
    <3> QED
      BY <2>3, <3>2
  <2> QED
    BY <2>9, <2>10
<1>3. Fits(Periods)
  BY <1>2
<1> QED
  BY <1>3, TotalIs DEF F, G

LEMMA TotalTyped ==
  ASSUME NEW u \in [Periods -> Nat]
  PROVE  Total(u) \in Nat
<1> DEFINE v == [u EXCEPT ![1] = u[1] + 1]
<1>1. v \in [Periods -> Nat] /\ v[1] = u[1] + 1 /\ \A q \in Periods \ {1} : v[q] = u[q]
  BY PeriodsTyped
<1> HIDE DEF v
<1> QED
  BY <1>1, PeriodsTyped, TotalGrows

------------------------------------------------------------------------------
\* The audits that have been counted and are yet to be sent.
OnHosted(o) == {t \in Threads : key[t] = "hosted" /\ org[t] = o}

SpendingBound == \A o \in Orgs : spent[o] + Cardinality(OnHosted(o)) =< Total(used[o])

LEMMA OnHostedTyped == \A o : IsFiniteSet(OnHosted(o)) /\ Cardinality(OnHosted(o)) \in Nat
<1>1. \A o : OnHosted(o) \subseteq Threads
  BY DEF OnHosted
<1> QED
  BY <1>1, ThreadsAssumption, FS_Subset, FS_CardinalityType

LEMMA OnHostedNext ==
  ASSUME NEW o
  PROVE  IsFiniteSet(OnHosted(o)') /\ Cardinality(OnHosted(o)') \in Nat
<1>1. OnHosted(o)' \subseteq Threads
  BY DEF OnHosted
<1> QED
  BY <1>1, ThreadsAssumption, FS_Subset, FS_CardinalityType

\* Nobody begins to use the hosted key.
LEMMA FewerOnHosted ==
  ASSUME TypeOK, SpendingBound, UNCHANGED <<used, spent>>, \A o \in Orgs : OnHosted(o)' \subseteq OnHosted(o)
  PROVE  SpendingBound'
<1> SUFFICES ASSUME NEW o \in Orgs
             PROVE  (spent[o] + Cardinality(OnHosted(o)) =< Total(used[o]))'
  BY DEF SpendingBound
<1>1. Cardinality(OnHosted(o)') =< Cardinality(OnHosted(o))
  BY OnHostedTyped, FS_Subset
<1>2. spent[o] \in Nat /\ used[o] \in [Periods -> Nat] /\ Total(used[o]) \in Nat
  BY TotalTyped DEF TypeOK
<1>3. Cardinality(OnHosted(o)) \in Nat /\ Cardinality(OnHosted(o)') \in Nat
  BY OnHostedTyped, OnHostedNext
<1>4. spent[o] + Cardinality(OnHosted(o)) =< Total(used[o])
  BY DEF SpendingBound
<1>5. spent[o] + Cardinality(OnHosted(o)') =< Total(used[o])
  BY <1>1, <1>2, <1>3, <1>4
<1> QED
  BY <1>5

LEMMA IncrementSpending ==
  ASSUME TypeOK, SpendingBound, NEW t \in Threads, IncrementUsage(t)
  PROVE  SpendingBound'
<1> SUFFICES ASSUME NEW o \in Orgs
             PROVE  (spent[o] + Cardinality(OnHosted(o)) =< Total(used[o]))'
  BY DEF SpendingBound
<1>1. /\ spent' = spent /\ org' = org /\ org[t] \in Orgs /\ period \in Periods
      /\ used[o] \in [Periods -> Nat] /\ spent[o] \in Nat
      /\ \A q \in Threads \ {t} : key'[q] = key[q]
      /\ \A q \in Orgs \ {org[t]} : used'[q] = used[q]
  BY DEF IncrementUsage, TypeOK, Counted
<1>2. /\ Total(used[o]) \in Nat /\ Cardinality(OnHosted(o)) \in Nat /\ Cardinality(OnHosted(o)') \in Nat
      /\ IsFiniteSet(OnHosted(o)) /\ spent[o] + Cardinality(OnHosted(o)) =< Total(used[o])
  BY <1>1, TotalTyped, OnHostedTyped, OnHostedNext DEF SpendingBound
<1>3. CASE o = org[t]
  <2>1. OnHosted(o)' \subseteq OnHosted(o) \cup {t}
    BY <1>1 DEF OnHosted
  <2>2. Cardinality(OnHosted(o)') =< Cardinality(OnHosted(o)) + 1
    <3>1. IsFiniteSet(OnHosted(o) \cup {t}) /\ Cardinality(OnHosted(o) \cup {t}) =< Cardinality(OnHosted(o)) + 1
          /\ Cardinality(OnHosted(o) \cup {t}) \in Nat
      <4>1. /\ IsFiniteSet(OnHosted(o) \cup {t})
            /\ Cardinality(OnHosted(o) \cup {t}) = IF t \in OnHosted(o) THEN Cardinality(OnHosted(o))
                                                   ELSE Cardinality(OnHosted(o)) + 1
        BY <1>2, FS_AddElement
      <4> QED
        BY <1>2, <4>1
    <3> QED
      BY <1>2, <2>1, <3>1, FS_Subset
  <2>3. /\ used'[o] \in [Periods -> Nat] /\ used'[o][period] = used[o][period] + 1
        /\ \A q \in Periods \ {period} : used'[o][q] = used[o][q]
    <3>1. used' = [used EXCEPT ![o] = [used[o] EXCEPT ![period] = used[o][period] + 1]]
      BY <1>1, <1>3 DEF IncrementUsage, Counted, TypeOK
    <3>2. used'[o] = [used[o] EXCEPT ![period] = used[o][period] + 1]
      BY <1>1, <3>1 DEF TypeOK
    <3>3. used[o][period] \in Nat
      BY <1>1
    <3> QED
      BY <1>1, <3>2, <3>3
  <2>4. Total(used'[o]) = Total(used[o]) + 1
    BY <1>1, <2>3, TotalGrows
  <2>5. spent[o] + Cardinality(OnHosted(o)') =< Total(used'[o])
    BY <1>1, <1>2, <2>2, <2>4
  <2> QED
    BY <1>1, <2>5
<1>4. CASE o # org[t]
  <2>1. OnHosted(o)' = OnHosted(o)
    BY <1>1, <1>4 DEF OnHosted
  <2> QED
    BY <1>1, <1>2, <1>4, <2>1
<1> QED
  BY <1>3, <1>4

LEMMA RunSpending ==
  ASSUME TypeOK, SpendingBound, NEW t \in Threads, Run(t), key[t] = "hosted"
  PROVE  SpendingBound'
<1> SUFFICES ASSUME NEW o \in Orgs
             PROVE  (spent[o] + Cardinality(OnHosted(o)) =< Total(used[o]))'
  BY DEF SpendingBound
<1>1. /\ used' = used /\ org[t] \in Orgs /\ used[o] \in [Periods -> Nat] /\ spent[o] \in Nat
      /\ spent' = [spent EXCEPT ![org[t]] = spent[org[t]] + 1] /\ spent \in [Orgs -> Nat]
      /\ key'[t] = "none" /\ \A q \in Threads \ {t} : key'[q] = key[q] /\ org'[q] = org[q]
  BY DEF Run, Leave, TypeOK, tables
<1>2. /\ Total(used[o]) \in Nat /\ Cardinality(OnHosted(o)) \in Nat /\ Cardinality(OnHosted(o)') \in Nat
      /\ IsFiniteSet(OnHosted(o)) /\ spent[o] + Cardinality(OnHosted(o)) =< Total(used[o])
  BY <1>1, TotalTyped, OnHostedTyped, OnHostedNext DEF SpendingBound
<1>3. CASE o = org[t]
  <2>1. t \in OnHosted(o) /\ OnHosted(o)' = OnHosted(o) \ {t}
    BY <1>1, <1>3 DEF OnHosted
  <2>2. Cardinality(OnHosted(o)') = Cardinality(OnHosted(o)) - 1
    BY <1>2, <2>1, FS_RemoveElement
  <2>3. spent'[o] = spent[o] + 1
    BY <1>1, <1>3
  <2>4. spent'[o] + Cardinality(OnHosted(o)') =< Total(used[o])
    BY <1>1, <1>2, <2>2, <2>3
  <2> QED
    BY <1>1, <2>4
<1>4. CASE o # org[t]
  <2>1. OnHosted(o)' = OnHosted(o) /\ spent'[o] = spent[o]
    BY <1>1, <1>4 DEF OnHosted
  <2> QED
    BY <1>1, <1>2, <2>1
<1> QED
  BY <1>3, <1>4

LEMMA NextSpending ==
  ASSUME TypeOK, Entitled, SpendingBound, Next
  PROVE  SpendingBound'
<1>1. CASE Webhook
  <2>1. UNCHANGED <<used, spent, key, org>>
    BY <1>1 DEF Webhook, Change, Deliver, DeliverOther, LogEvent, ApplyEvent, AnswerHook, tables, work
  <2> QED
    BY <2>1, FewerOnHosted DEF OnHosted
<1>2. CASE NextMonth
  BY <1>2, FewerOnHosted DEF NextMonth, tables, work, OnHosted
<1>3. CASE Crash
  BY <1>3, FewerOnHosted DEF Crash, tables, OnHosted
<1>4. ASSUME NEW t \in Threads, NEW o \in Orgs, Audit(t, o)
      PROVE  SpendingBound'
  <2>1. /\ UNCHANGED <<used, spent, key>> /\ key[t] # "hosted"
        /\ \A q \in Threads \ {t} : org'[q] = org[q]
    BY <1>4 DEF Audit, tables, Entitled, TypeOK
  <2> QED
    BY <2>1, FewerOnHosted DEF OnHosted
<1>5. ASSUME NEW t \in Threads, Step(t)
      PROVE  SpendingBound'
  <2>1. CASE GetByok(t)
    <3>1. /\ UNCHANGED <<used, spent, org>>
          /\ \A q \in Threads : key'[q] = "hosted" => key[q] = "hosted"
      BY <2>1 DEF GetByok, tables, TypeOK
    <3> QED
      BY <3>1, FewerOnHosted DEF OnHosted
  <2>2. CASE ReadPlan(t) \/ ReadLimit(t) \/ ChoosePack(t)
    BY <2>2, FewerOnHosted DEF ReadPlan, ReadLimit, ChoosePack, tables, OnHosted
  <2>3. CASE IncrementUsage(t)
    BY <2>3, IncrementSpending
  <2>4. CASE Run(t) /\ key[t] = "hosted"
    BY <2>4, RunSpending
  <2>5. CASE Fail(t) \/ (Run(t) /\ key[t] # "hosted")
    <3>1. /\ UNCHANGED <<used, spent>> /\ key'[t] = "none"
          /\ \A q \in Threads \ {t} : key'[q] = key[q] /\ org'[q] = org[q]
      BY <2>5 DEF Fail, Run, Leave, tables, TypeOK
    <3> QED
      BY <3>1, FewerOnHosted DEF OnHosted
  <2> QED
    BY <1>5, <2>1, <2>2, <2>3, <2>4, <2>5 DEF Step
<1>6. CASE Schedule
  BY <1>6, FewerOnHosted DEF Schedule, BeginTurn, ScheduledAudit, EndTurn, tables, work, OnHosted
<1> QED
  BY <1>1, <1>2, <1>3, <1>4, <1>5, <1>6 DEF Next

(***************************************************************************)
(* Every audit that POST /audit sent to the hosted key has been counted in *)
(* some month, whatever failed between the count and the audit (ingest.py, *)
(* usage.py).  Nothing is claimed of the audits that the scheduler sends.  *)
(***************************************************************************)
THEOREM CountsWhatIsSpent == Spec => []SpendingIsCounted
<1>1. ASSUME Init
      PROVE  SpendingBound
  <2>1. TypeOK
    BY <1>1, InitIInv DEF IInv
  <2>2. \A o \in Orgs : OnHosted(o) = {} /\ spent[o] = 0 /\ Total(used[o]) \in Nat
    BY <1>1, <2>1, TotalTyped DEF Init, OnHosted, TypeOK
  <2> QED
    BY <2>2, FS_EmptySet DEF SpendingBound
<1>2. ASSUME IInv, SpendingBound, [Next]_vars
      PROVE  SpendingBound'
  <2>1. CASE UNCHANGED vars
    BY <1>2, <2>1 DEF vars, tables, work, SpendingBound, OnHosted
  <2> QED
    BY <1>2, <2>1, NextSpending DEF IInv
<1>3. ASSUME TypeOK, SpendingBound
      PROVE  SpendingIsCounted
  <2>1. \A o \in Orgs : spent[o] =< Total(used[o])
    <3>1. \A o \in Orgs : spent[o] \in Nat /\ Cardinality(OnHosted(o)) \in Nat /\ Total(used[o]) \in Nat
      BY <1>3, OnHostedTyped, TotalTyped DEF TypeOK
    <3> QED
      BY <1>3, <3>1 DEF SpendingBound
  <2> QED
    BY <2>1 DEF Total, SpendingIsCounted
<1> QED
  BY <1>1, <1>2, <1>3, Inductive, PTL DEF Spec, IInv
===============================================================================
