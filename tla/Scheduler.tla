------------------------------ MODULE Scheduler ------------------------------
(***************************************************************************)
(* run_due_schedules (teluvane/scheduler.py) as _scheduler_loop            *)
(* (teluvane/ingest.py) calls it: one thread of the web process that ticks *)
(* and audits the newest sessions of each org that is due, one after the   *)
(* other, while owners change schedules, the provider changes plans and    *)
(* agents go on recording.                                                 *)
(*                                                                         *)
(* An audit of an org raises when one of its rules has no valid severity,  *)
(* its key is refused, a lens answers without the fields run_lens reads:   *)
(* `failing` holds the orgs of which that is so, Fragile those of which it *)
(* may come to be so.  An exception ends the tick, and _scheduler_loop     *)
(* waits for the next one.                                                 *)
(*                                                                         *)
(* audited_run (teluvane/auditlock.py) returns at once of a session with a *)
(* violation on record, whatever was recorded in it since: `settled` holds *)
(* those sessions, Suspect the ones in which a violation may be found, by  *)
(* the tick or by a POST /audit.                                           *)
(***************************************************************************)
EXTENDS Naturals, Sequences, FiniteSets, SequencesExt

CONSTANTS Orgs,
          SessionsOf,    \* the sessions an org's agents may record in
          Fragile,       \* the orgs whose audits may come to raise
          Suspect,       \* the sessions of each org in which a violation may be found
          PageLimit,     \* the default limit of Store.sessions
          Floor,         \* the shortest interval set_schedule stores
          Requested,     \* the intervals each org's owner asks for
          MaxAge,        \* bound: an age at least every interval; never run is this old
          MaxFaults      \* bound: restarts, and ticks that PoolTimeout ends

ASSUME FloorAssumption == Floor \in Nat /\ MaxAge \in Nat /\ Floor =< MaxAge
ASSUME RequestedAssumption == Requested \in [Orgs -> SUBSET (0 .. MaxAge)]
ASSUME FragileAssumption == Fragile \subseteq Orgs
ASSUME SuspectAssumption == Suspect \in [Orgs -> SUBSET UNION {SessionsOf[o] : o \in Orgs}]
ASSUME OrgsAssumption == Orgs # {}
ASSUME LimitAssumption == PageLimit \in Nat \ {0} /\ MaxFaults \in Nat

VARIABLES
  enabled,    \* orgs whose schedule is on
  interval,   \* interval_minutes
  age,        \* the time since last_run_at
  pro,        \* orgs on the paid plan
  failing,    \* orgs whose audits raise
  recent,     \* each org's sessions, the one last recorded in first
  pc,         \* where the tick stands
  queue,      \* due orgs it has not come to
  cur,        \* the org it has come to
  todo,       \* that org's sessions it has not audited
  faults,
  settled,    \* each org's sessions with a violation on record
  audited,    \* sessions of which audited_run returned since they were last recorded in
  looked,     \* sessions all of whose events the tribunal was given, and did not fail
  touched     \* cur's sessions recorded in since they were listed

settings == <<enabled, interval, pro, failing>>
tick == <<pc, queue, cur, todo>>
found == <<settled, looked>>
vars == <<settings, age, recent, tick, faults, found, audited, touched>>

SomeOrg == CHOOSE o \in Orgs : TRUE
SessionIds == UNION {SessionsOf[o] : o \in Orgs}

Init ==
  /\ enabled = {} /\ pro = {} /\ failing = {}
  /\ interval = [o \in Orgs |-> Floor]
  /\ age = [o \in Orgs |-> MaxAge]
  /\ recent = [o \in Orgs |-> << >>]
  /\ pc = "wait" /\ queue = {} /\ cur = SomeOrg /\ todo = << >>
  /\ faults = 0
  /\ settled = [o \in Orgs |-> {}]
  /\ audited = [o \in Orgs |-> {}]
  /\ looked = [o \in Orgs |-> {}]
  /\ touched = {}

------------------------------------------------------------------------------
\* Defect: the interval is stored as it is asked for.
AsAsked(minutes) == minutes

\* max(15, interval_minutes)
Floored(minutes) == IF minutes < Floor THEN Floor ELSE minutes

\* put_schedule_ep: org_plan and the upsert are two transactions; a change of the
\* plan between them is one right after the upsert here.
SetSchedule(o, on, minutes) ==
  /\ o \in pro
  /\ enabled' = IF on THEN enabled \cup {o} ELSE enabled \ {o}
  /\ interval' = [interval EXCEPT ![o] = Floored(minutes)]
  /\ UNCHANGED <<pro, failing, age, recent, tick, faults, found, audited, touched>>

ChangePlan(o) ==
  /\ pro' = IF o \in pro THEN pro \ {o} ELSE pro \cup {o}
  /\ UNCHANGED <<enabled, interval, failing, age, recent, tick, faults, found, audited, touched>>

\* The org's rules or key come to make its audits raise, or cease to.
ChangeRules(o) ==
  /\ o \in Fragile
  /\ failing' = IF o \in failing THEN failing \ {o} ELSE failing \cup {o}
  /\ UNCHANGED <<enabled, interval, pro, age, recent, tick, faults, found, audited, touched>>

\* A list in which s comes first, and what was before it has moved back by one.
Foremost(list, s) ==
  LET at == IF s \in ToSet(list) THEN CHOOSE i \in DOMAIN list : list[i] = s ELSE Len(list) + 1
      n  == IF s \in ToSet(list) THEN Len(list) ELSE Len(list) + 1
  IN  [j \in 1 .. n |-> IF j = 1 THEN s ELSE IF j =< at THEN list[j - 1] ELSE list[j]]

Record(o, s) ==
  /\ recent' = [recent EXCEPT ![o] = Foremost(@, s)]
  /\ audited' = [audited EXCEPT ![o] = @ \ {s}]
  /\ looked' = [looked EXCEPT ![o] = @ \ {s}]
  /\ touched' = IF pc \in {"audit", "tribunal"} /\ o = cur THEN touched \cup {s} ELSE touched
  /\ UNCHANGED <<settings, age, tick, faults, settled>>

TimePasses ==
  /\ \E o \in Orgs : age[o] < MaxAge
  /\ age' = [o \in Orgs |-> IF age[o] < MaxAge THEN age[o] + 1 ELSE MaxAge]
  /\ UNCHANGED <<settings, recent, tick, faults, found, audited, touched>>

------------------------------------------------------------------------------
\* _due_orgs
DueOrgs == {o \in enabled : age[o] >= interval[o]}

\* Defect: the oldest sessions first.
OldestSessions(o) == SubSeq(Reverse(recent[o]), 1,
                            IF Len(recent[o]) < PageLimit THEN Len(recent[o]) ELSE PageLimit)

\* Store.sessions: ORDER BY max(seq) DESC LIMIT 50
NewestSessions(o) == SubSeq(recent[o], 1,
                            IF Len(recent[o]) < PageLimit THEN Len(recent[o]) ELSE PageLimit)

\* The tick is over: it is done, or an exception left run_due_schedules.
TickOver ==
  /\ pc' = "wait" /\ queue' = {} /\ cur' = SomeOrg /\ todo' = << >>
  /\ touched' = {}

StartTick ==
  /\ pc = "wait"
  /\ DueOrgs # {}
  /\ queue' = DueOrgs
  /\ pc' = "next"
  /\ UNCHANGED <<settings, age, recent, cur, todo, faults, found, audited, touched>>

\* Defect: the plan is not asked for.
NextOrgOfAnyPlan ==
  /\ pc = "next"
  /\ \/ queue = {} /\ TickOver
     \/ \E o \in queue :
          /\ queue' = queue \ {o} /\ cur' = o /\ pc' = "list"
          /\ UNCHANGED <<todo, touched>>
  /\ UNCHANGED <<settings, age, recent, faults, found, audited>>

\* The next due org, in the order Postgres gave them; one not on the paid plan
\* is passed over.
NextOrg ==
  /\ pc = "next"
  /\ \/ queue = {} /\ TickOver
     \/ \E o \in queue :
          /\ queue' = queue \ {o}
          /\ \/ o \in pro /\ cur' = o /\ pc' = "list"
             \/ o \notin pro /\ UNCHANGED <<cur, pc>>
          /\ UNCHANGED <<todo, touched>>
  /\ UNCHANGED <<settings, age, recent, faults, found, audited>>

\* Defect: last_run_at is written first.
ListAndMark ==
  /\ pc = "list"
  /\ todo' = NewestSessions(cur)
  /\ touched' = {}
  /\ pc' = "audit"
  /\ age' = [age EXCEPT ![cur] = 0]
  /\ UNCHANGED <<settings, recent, queue, cur, faults, found, audited>>

\* Key, framework and rules are read as well; custom rules that cannot be
\* audited with raise later.
ListSessions ==
  /\ pc = "list"
  /\ todo' = NewestSessions(cur)
  /\ touched' = {}
  /\ pc' = "audit"
  /\ UNCHANGED <<settings, age, recent, queue, cur, faults, found, audited>>

\* audited_run of the next session, inside its lock: one with a violation on record
\* is passed over, of another the tribunal is given the events there are.
AuditSession ==
  /\ pc = "audit"
  /\ todo # << >>
  /\ LET s == Head(todo)
     IN  /\ touched' = touched \ {s}
         /\ \/ /\ s \in settled[cur]
               /\ audited' = [audited EXCEPT ![cur] = @ \cup {s}]
               /\ todo' = Tail(todo)
               /\ UNCHANGED <<pc, looked>>
            \/ /\ s \notin settled[cur]
               /\ looked' = [looked EXCEPT ![cur] = @ \cup {s}]
               /\ pc' = "tribunal"
               /\ UNCHANGED <<audited, todo>>
  /\ UNCHANGED <<settings, age, recent, queue, cur, faults, settled>>

\* A violation may come to be on record of the session that the tribunal has.
MaySettle ==
  settled' \in {settled, [settled EXCEPT ![cur] = @ \cup ({Head(todo)} \cap Suspect[cur])]}

\* The verdicts are stored and audited_run returns.
TribunalReturns ==
  /\ pc = "tribunal"
  /\ MaySettle
  /\ audited' = IF Head(todo) \in touched THEN audited
                ELSE [audited EXCEPT ![cur] = @ \cup {Head(todo)}]
  /\ todo' = Tail(todo)
  /\ pc' = "audit"
  /\ UNCHANGED <<settings, age, recent, queue, cur, faults, looked, touched>>

\* What the tribunal was given is not looked at after all.
NotLooked == looked' = [looked EXCEPT ![cur] = @ \ {Head(todo)}]

\* The tribunal raises; a failing org's need not raise every time.
TribunalRaises ==
  /\ pc = "tribunal"
  /\ cur \in failing
  /\ NotLooked
  /\ TickOver
  /\ UNCHANGED <<settings, age, recent, faults, settled, audited>>

\* A POST /audit puts a violation on record, of a session that the tick does not
\* hold the lock of.
OtherAudit(o, s) ==
  /\ s \in ToSet(recent[o]) \cap Suspect[o]
  /\ ~(pc = "tribunal" /\ o = cur /\ s = Head(todo))
  /\ settled' = [settled EXCEPT ![o] = @ \cup {s}]
  /\ UNCHANGED <<settings, age, recent, tick, faults, looked, audited, touched>>

MarkRan ==
  /\ pc = "audit"
  /\ todo = << >>
  /\ age' = [age EXCEPT ![cur] = 0]
  /\ pc' = "next" /\ cur' = SomeOrg
  /\ touched' = {}
  /\ UNCHANGED <<settings, recent, queue, todo, faults, found, audited>>

\* The process restarts, or the pool is empty for POOL_TIMEOUT; of a session that
\* the tribunal had, some verdicts may be stored.
TickLost ==
  /\ pc # "wait"
  /\ faults < MaxFaults
  /\ faults' = faults + 1
  /\ \/ pc = "tribunal" /\ MaySettle /\ NotLooked
     \/ pc # "tribunal" /\ UNCHANGED found
  /\ TickOver
  /\ UNCHANGED <<settings, age, recent, audited>>

RunDueSchedules ==
  \/ StartTick \/ NextOrg \/ ListSessions \/ AuditSession \/ TribunalReturns
  \/ TribunalRaises \/ MarkRan

Next ==
  \/ \E o \in Orgs :
       \/ \E on \in BOOLEAN, minutes \in Requested[o] : SetSchedule(o, on, minutes)
       \/ ChangePlan(o) \/ ChangeRules(o)
       \/ \E s \in SessionsOf[o] : Record(o, s) \/ OtherAudit(o, s)
  \/ TimePasses
  \/ RunDueSchedules \/ TickLost

\* The thread goes on, and so does the clock.
Spec == Init /\ [][Next]_vars /\ WF_vars(RunDueSchedules) /\ WF_vars(TimePasses)

------------------------------------------------------------------------------
\* Settings and tick keep their types; a tick never lists a session twice.
TypeOK ==
  /\ enabled \subseteq Orgs /\ pro \subseteq Orgs /\ failing \subseteq Orgs
  /\ interval \in [Orgs -> Floor .. MaxAge]
  /\ age \in [Orgs -> 0 .. MaxAge]
  /\ recent \in [Orgs -> Seq(SessionIds)]
  /\ pc \in {"wait", "next", "list", "audit", "tribunal"}
  /\ pc = "tribunal" => todo # << >>
  /\ queue \subseteq Orgs /\ cur \in Orgs /\ todo \in Seq(SessionIds)
  /\ faults \in Nat
  /\ {audited, looked, settled} \subseteq [Orgs -> SUBSET SessionIds]
  /\ touched \subseteq SessionIds
  /\ IsInjective(todo) /\ Len(todo) =< PageLimit

\* What a page of o's newest sessions holds.
FirstPage(o) == {recent[o][i] : i \in DOMAIN recent[o] \cap 1 .. PageLimit}

NotesWhatIsAudited ==
  \A o \in Orgs : age'[o] < age[o] => FirstPage(o) \subseteq audited[o] \cup touched

\* An org is noted as run only when audited_run has returned of all its newest
\* sessions, as they are at that moment, since they were last recorded in, or they
\* were recorded in while the org had its turn; a turn that an exception or a
\* restart cut short is not noted.  It may have returned at once, because a
\* violation was on record: that the tribunal looked is not claimed.
RanMeansAudited == [][NotesWhatIsAudited]_vars

\* An org whose schedule stays off, or which stays off the paid plan, is in the end
\* audited no more: its turn ends and it gets no other.
DormantUnlessPaid ==
  \A o \in Orgs :
    <>[](o \notin enabled) \/ <>[](o \notin pro) =>
      <>[]~(cur = o /\ pc \in {"list", "audit", "tribunal"})

\* "Re-audit every session for each org whose schedule is due": the docstring of
\* run_due_schedules (scheduler.py:52), of an org noted as run.
EverySessionAudited ==
  [][MarkRan => ToSet(recent[cur]) \subseteq audited[cur] \cup touched]_vars

\* The events of a session that stays among its org's newest are in the end given
\* to a tribunal that does not fail on them, also those recorded after an earlier
\* audit, as long as the org's schedule is on and it is on the paid plan, and
\* provided that no org's audits keep raising: one such org ends every tick for the
\* orgs behind it.  Once a violation of the session is on record that ends: its
\* later events are not looked at (auditlock.py:14-17).
NewestGetAudited ==
  \A o \in Orgs : \A s \in SessionsOf[o] :
    []<>\/ s \in looked[o] \cup settled[o]
        \/ ~(o \in enabled /\ o \in pro /\ failing = {} /\ s \in FirstPage(o))
===============================================================================
