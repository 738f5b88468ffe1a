------------------------------- MODULE AuditRun -------------------------------
(***************************************************************************)
(* audited_run (teluvane/auditlock.py): the audit of one session, as the   *)
(* threads of POST /audit and of the scheduler run it at once, over the    *)
(* connection pool (teluvane/db.py), the tables of the store and the       *)
(* webhook (teluvane/webhooks.py).                                         *)
(*                                                                         *)
(* A thread keeps one pooled connection, whose transaction owns the        *)
(* advisory lock, from before the lock to the last verdict.  Every read    *)
(* and every stored verdict takes a second connection of the same pool for *)
(* the length of a statement, and each stored verdict commits by itself.   *)
(* A thread that finds the pool empty gives up after POOL_TIMEOUT.         *)
(*                                                                         *)
(* The lock's transaction is idle while the LLM calls run.  When its       *)
(* connection is lost then, Postgres frees the lock, and the thread, which *)
(* uses that connection again only for conn.commit(), goes on with what    *)
(* the rest of the pool lets it do.                                        *)
(***************************************************************************)
EXTENDS Naturals, FiniteSets

CONSTANTS Auditors,      \* threads that call audited_run
          Sessions,      \* the (org_id, session_id) pairs they audit
          LockKeys,      \* values of hashtext(org_id:session_id)
          LockKeyOf,     \* the hash: two sessions may collide
          Rules,         \* the rules a tribunal can find violated
          PoolSize,      \* POOL_MAX_SIZE
          Nobody,        \* no auditor
          MaxCalls,      \* bound: calls of audited_run
          MaxCrashes,    \* bound: restarts of the web process
          MaxLosses      \* bound: connections of an audit that are lost

ASSUME KeysAssumption == Sessions # {} /\ LockKeyOf \in [Sessions -> LockKeys]
ASSUME AuditorsAssumption == Nobody \notin Auditors /\ IsFiniteSet(Auditors)
ASSUME PoolAssumption == PoolSize \in Nat \ {0}

Verdicts == [session : Sessions, rule : Rules, run : Nat]

VARIABLES
  verdicts,    \* the committed rows of the table
  holder,      \* who has each advisory lock
  others,      \* pooled connections that other requests use
  pc,          \* where each audit stands
  session,     \* the session it audits
  run,         \* which of the calls it is
  found,       \* what its tribunal confirmed
  posts,       \* webhook deliveries per session
  crashes,     \* restarts so far
  calls,       \* calls of audited_run so far
  sawTribunal, \* audits in progress when another ran the tribunal on their session
  cut,         \* audits whose own connection, and with it their lock, is lost
  exposed,     \* sessions that an audit went on with after it lost its lock
  losses       \* connections lost so far

vars == <<verdicts, holder, others, pc, session, run, found, posts, crashes, calls,
          sawTribunal, cut, exposed, losses>>

NoSession == CHOOSE s \in Sessions : TRUE

Init ==
  /\ verdicts = {}
  /\ holder = [k \in LockKeys |-> Nobody]
  /\ others = 0
  /\ pc = [a \in Auditors |-> "idle"]
  /\ session = [a \in Auditors |-> NoSession]
  /\ run = [a \in Auditors |-> 0]
  /\ found = [a \in Auditors |-> {}]
  /\ posts = [s \in Sessions |-> 0]
  /\ crashes = 0
  /\ calls = 0
  /\ sawTribunal = {}
  /\ cut = {}
  /\ exposed = {}
  /\ losses = 0

------------------------------------------------------------------------------
\* From the advisory lock to its release.
Critical == {"check", "events", "tribunal", "store"}

\* The connection of audited_run itself.
Connected == {a \in Auditors : pc[a] \in Critical \cup {"lock"}}

Free == PoolSize - Cardinality(Connected) - others

Key(a) == LockKeyOf[session[a]]

\* store.verdicts(...) if v.violation: only violations are ever stored.
Existing(s) == {v \in verdicts : v.session = s}

RulesOnRecord(s) == {v.rule : v \in Existing(s)}

\* The rows audited_run stores for what its tribunal found.
OwnVerdict(a, r) == [session |-> session[a], rule |-> r, run |-> run[a]]

Unlocked(a) == [k \in LockKeys |-> IF holder[k] = a THEN Nobody ELSE holder[k]]

\* Return or raise: the connection goes back, its transaction ends, the lock
\* is released and the thread's locals are gone.
Leave(a) ==
  /\ pc' = [pc EXCEPT ![a] = "idle"]
  /\ holder' = Unlocked(a)
  /\ session' = [session EXCEPT ![a] = NoSession]
  /\ run' = [run EXCEPT ![a] = 0]
  /\ found' = [found EXCEPT ![a] = {}]
  /\ sawTribunal' = sawTribunal \ {a}
  /\ cut' = cut \ {a}
  /\ UNCHANGED <<calls, exposed>>

GoTo(a, label) == pc' = [pc EXCEPT ![a] = label]

------------------------------------------------------------------------------
Call(a, s) ==
  /\ pc[a] = "idle"
  /\ calls < MaxCalls
  /\ GoTo(a, "connect")
  /\ session' = [session EXCEPT ![a] = s]
  /\ run' = [run EXCEPT ![a] = calls + 1]
  /\ calls' = calls + 1
  /\ UNCHANGED <<verdicts, holder, others, found, posts, crashes, sawTribunal,
                 cut, exposed, losses>>

\* Defect: the pool opens a connection beyond max_size.
ConnectAlways(a) ==
  /\ pc[a] = "connect"
  /\ GoTo(a, "lock")
  /\ UNCHANGED <<verdicts, holder, others, session, run, found, posts, crashes, calls, sawTribunal,
                 cut, exposed, losses>>

Connect(a) ==
  /\ pc[a] = "connect"
  /\ Free > 0
  /\ GoTo(a, "lock")
  /\ UNCHANGED <<verdicts, holder, others, session, run, found, posts, crashes, calls, sawTribunal,
                 cut, exposed, losses>>

\* Defect: no lock is taken.
LockNothing(a) ==
  /\ pc[a] = "lock"
  /\ GoTo(a, "check")
  /\ UNCHANGED <<verdicts, holder, others, session, run, found, posts, crashes, calls, sawTribunal,
                 cut, exposed, losses>>

\* pg_advisory_xact_lock blocks, with no timeout, until the holder's transaction ends.
Lock(a) ==
  /\ pc[a] = "lock"
  /\ holder[Key(a)] = Nobody
  /\ holder' = [holder EXCEPT ![Key(a)] = a]
  /\ GoTo(a, "check")
  /\ UNCHANGED <<verdicts, others, session, run, found, posts, crashes, calls, sawTribunal,
                 cut, exposed, losses>>

\* Defect: the verdicts that are there already are not looked at.
CheckNothing(a) ==
  /\ pc[a] = "check"
  /\ Free > 0
  /\ GoTo(a, "events")
  /\ UNCHANGED <<verdicts, holder, others, session, run, found, posts, crashes, calls, sawTribunal,
                 cut, exposed, losses>>

\* Defect: the existing verdicts take the same way out as new ones.
CheckThenNotify(a) ==
  /\ pc[a] = "check"
  /\ Free > 0
  /\ IF Existing(session[a]) # {}
     THEN /\ GoTo(a, "hook")
          /\ holder' = Unlocked(a)
          /\ found' = [found EXCEPT ![a] = {v.rule : v \in Existing(session[a])}]
     ELSE GoTo(a, "events") /\ UNCHANGED <<holder, found>>
  /\ UNCHANGED <<verdicts, others, session, run, posts, crashes, calls, sawTribunal,
                 cut, exposed, losses>>

\* "Re-check idempotently": a session with a violation on record is done.
Check(a) ==
  /\ pc[a] = "check"
  /\ Free > 0
  /\ \/ Existing(session[a]) # {} /\ Leave(a)
     \/ /\ Existing(session[a]) = {}
        /\ GoTo(a, "events")
        /\ UNCHANGED <<holder, session, run, found, calls, sawTribunal, cut, exposed>>
  /\ UNCHANGED <<verdicts, others, posts, crashes, losses>>

ReadEvents(a) ==
  /\ pc[a] = "events"
  /\ Free > 0
  /\ GoTo(a, "tribunal")
  /\ UNCHANGED <<verdicts, holder, others, session, run, found, posts, crashes, calls, sawTribunal,
                 cut, exposed, losses>>

\* The tribunal confirms any set of rules, or none.
Tribunal(a) ==
  /\ pc[a] = "tribunal"
  /\ \E rules \in SUBSET Rules : found' = [found EXCEPT ![a] = rules]
  /\ sawTribunal' = sawTribunal \cup
       {b \in Auditors \ {a} : pc[b] # "idle" /\ session[b] = session[a]}
  /\ GoTo(a, "store")
  /\ UNCHANGED <<verdicts, holder, others, session, run, posts, crashes, calls, cut, exposed, losses>>

\* Or an LLM call fails, or a lens answers without the fields run_lens needs.
TribunalFails(a) ==
  /\ pc[a] = "tribunal"
  /\ Leave(a)
  /\ UNCHANGED <<verdicts, others, posts, crashes, losses>>

\* add_verdict, a transaction of its own for each.
StoreVerdict(a) ==
  /\ pc[a] = "store"
  /\ Free > 0
  /\ \E r \in found[a] :
       /\ OwnVerdict(a, r) \notin verdicts
       /\ verdicts' = verdicts \cup {OwnVerdict(a, r)}
  /\ UNCHANGED <<holder, others, pc, session, run, found, posts, crashes, calls, sawTribunal,
                 cut, exposed, losses>>

Stored(a) == \A r \in found[a] : OwnVerdict(a, r) \in verdicts

\* Defect: the lock and the connection go back before the verdicts are stored.
ReleaseEarly(a) ==
  /\ pc[a] = "store"
  /\ GoTo(a, "hook")
  /\ holder' = Unlocked(a)
  /\ UNCHANGED <<verdicts, others, session, run, found, posts, crashes, calls, sawTribunal,
                 cut, exposed, losses>>

\* conn.commit(): the lock and the connection go before the webhook, which
\* send_webhook does not even look up when there is nothing to say.  On a lost
\* connection the commit raises, and the webhook is never come to.
Release(a) ==
  /\ pc[a] = "store"
  /\ Stored(a)
  /\ \/ (found[a] = {} \/ a \in cut) /\ Leave(a)
     \/ /\ found[a] # {} /\ a \notin cut
        /\ GoTo(a, "hook")
        /\ holder' = Unlocked(a)
        /\ UNCHANGED <<session, run, found, calls, sawTribunal, cut, exposed>>
  /\ UNCHANGED <<verdicts, others, posts, crashes, losses>>

\* get_webhook: the org has one or not.
LookUpHook(a) ==
  /\ pc[a] = "hook"
  /\ Free > 0
  /\ \/ Leave(a)
     \/ GoTo(a, "post") /\ UNCHANGED <<holder, session, run, found, calls, sawTribunal, cut, exposed>>
  /\ UNCHANGED <<verdicts, others, posts, crashes, losses>>

\* One attempt: a failed delivery is logged and forgotten.
PostHook(a) ==
  /\ pc[a] = "post"
  /\ posts' = [posts EXCEPT ![session[a]] = @ + 1]
  /\ Leave(a)
  /\ UNCHANGED <<verdicts, others, crashes, losses>>

\* Defect: only the first connection is waited for with a timeout.
PoolTimeoutAtConnect(a) ==
  /\ pc[a] = "connect"
  /\ Free = 0
  /\ Leave(a)
  /\ UNCHANGED <<verdicts, others, posts, crashes, losses>>

\* No connection within POOL_TIMEOUT: PoolTimeout leaves audited_run.  In
\* "hook" too: get_webhook is called outside the try of send_webhook.
PoolTimeout(a) ==
  /\ pc[a] \in {"connect", "check", "events", "hook"} \/ (pc[a] = "store" /\ ~Stored(a))
  /\ Free = 0
  /\ Leave(a)
  /\ UNCHANGED <<verdicts, others, posts, crashes, losses>>

\* The lock's connection is lost while its transaction is idle: Postgres frees
\* the lock, and the thread does not notice.  Its place in the pool stays taken.
LockLost(a) ==
  /\ pc[a] \in Critical /\ a \notin cut
  /\ losses < MaxLosses
  /\ losses' = losses + 1
  /\ holder' = Unlocked(a)
  /\ cut' = cut \cup {a}
  /\ exposed' = exposed \cup {session[a]}
  /\ UNCHANGED <<verdicts, others, pc, session, run, found, posts, crashes, calls, sawTribunal>>

\* The connection of a statement under way is lost: it raises.  A verdict whose
\* commit was only not acknowledged is on record all the same.
StatementLost(a) ==
  /\ pc[a] \in {"lock", "check", "events", "hook"} \/ (pc[a] = "store" /\ found[a] # {})
  /\ losses < MaxLosses
  /\ losses' = losses + 1
  /\ Leave(a)
  /\ UNCHANGED <<verdicts, others, posts, crashes>>

------------------------------------------------------------------------------
\* Any other endpoint: one connection for one statement.
Borrow ==
  /\ Free > 0
  /\ others' = others + 1
  /\ UNCHANGED <<verdicts, holder, pc, session, run, found, posts, crashes, calls, sawTribunal,
                 cut, exposed, losses>>

GiveBack ==
  /\ others > 0
  /\ others' = others - 1
  /\ UNCHANGED <<verdicts, holder, pc, session, run, found, posts, crashes, calls, sawTribunal,
                 cut, exposed, losses>>

\* The process restarts: its threads are gone, and so are their transactions.
Crash ==
  /\ crashes < MaxCrashes
  /\ crashes' = crashes + 1
  /\ others' = 0
  /\ holder' = [k \in LockKeys |-> Nobody]
  /\ pc' = [a \in Auditors |-> "idle"]
  /\ session' = [a \in Auditors |-> NoSession]
  /\ run' = [a \in Auditors |-> 0]
  /\ found' = [a \in Auditors |-> {}]
  /\ sawTribunal' = {}
  /\ cut' = {}
  /\ UNCHANGED <<verdicts, posts, calls, exposed, losses>>

Advance(a) ==
  \/ Connect(a) \/ Lock(a) \/ Check(a) \/ ReadEvents(a)
  \/ Tribunal(a) \/ TribunalFails(a) \/ StoreVerdict(a) \/ Release(a)
  \/ LookUpHook(a) \/ PostHook(a) \/ PoolTimeout(a)

Next ==
  \/ \E a \in Auditors : Advance(a) \/ LockLost(a) \/ StatementLost(a)
                          \/ \E s \in Sessions : Call(a, s)
  \/ Borrow \/ GiveBack \/ Crash

\* A thread goes on; Postgres queues the waiters of an advisory lock, so none
\* is passed over for ever; other requests end.
Fairness ==
  /\ \A a \in Auditors : WF_vars(Advance(a)) /\ SF_vars(Lock(a))
  /\ WF_vars(GiveBack)

Spec == Init /\ [][Next]_vars /\ Fairness

------------------------------------------------------------------------------
\* Tables, locks and threads keep their types, and the pool is never overdrawn.
TypeOK ==
  /\ verdicts \subseteq Verdicts
  /\ holder \in [LockKeys -> Auditors \cup {Nobody}]
  /\ others \in Nat
  /\ pc \in [Auditors -> Critical \cup {"idle", "connect", "lock", "hook", "post"}]
  /\ session \in [Auditors -> Sessions]
  /\ run \in [Auditors -> Nat]
  /\ found \in [Auditors -> SUBSET Rules]
  /\ posts \in [Sessions -> Nat]
  /\ crashes \in Nat /\ calls \in Nat
  /\ sawTribunal \subseteq Auditors /\ cut \subseteq Auditors
  /\ exposed \subseteq Sessions /\ losses \in Nat
  /\ Cardinality(Connected) + others =< PoolSize

\* Of the audits of one session between their check and their last verdict at
\* most one still has the connection that holds its lock: through timeouts,
\* restarts and lost connections two get there only when one went on without it.
OneInside ==
  \A a, b \in Auditors :
    /\ pc[a] \in Critical /\ pc[b] \in Critical
    /\ session[a] = session[b] /\ a # b
    => a \in cut \/ b \in cut

\* Every verdict a session ever gets comes from one run of the tribunal, even
\* when that run stopped half-way, unless an audit of it went on after the
\* connection of its lock was lost: then two runs can leave theirs.
OneRunPerSession ==
  \A v, w \in verdicts : v.session = w.session => v.run = w.run \/ v.session \in exposed

\* Has verdicts, and no audit past its check that could add to them.
Settled(s) ==
  /\ Existing(s) # {}
  /\ \A a \in Auditors : ~(pc[a] \in {"events", "tribunal", "store"} /\ session[a] = s)

\* The verdicts a session has when no audit of it is between its check and its
\* last verdict are its verdicts for good: it is never unsettled again, and no
\* later audit adds to what all of them report, lock lost or not.  That includes
\* the part of them that a run stopped by a crash or a full pool left behind.
VerdictsStand ==
  [][\A s \in Sessions :
       Settled(s) => Settled(s)' /\ RulesOnRecord(s)' = RulesOnRecord(s)]_vars

\* The webhook is called at most once for a session, over all audits, retries,
\* restarts and lost locks: an audit that lost its lock never comes to it.  It
\* may be called for none of them.
NotifiedOnce == \A s \in Sessions : posts[s] =< 1

\* It is called only when every verdict in its payload is on record, and with
\* all of the verdicts on record, unless another audit of the session went on
\* after its lock was lost.
NotifiesWhatIsStored ==
  \A a \in Auditors : pc[a] \in {"hook", "post"} =>
    LET payload == {OwnVerdict(a, r) : r \in found[a]} IN
    /\ payload \subseteq Existing(session[a])
    /\ session[a] \in exposed \/ Existing(session[a]) = payload

\* "Two concurrent audits cannot both run the tribunal" (auditlock.py): an
\* audit during which another one ran it on the same session does not.
TribunalOnce == \A a \in sawTribunal : pc[a] # "store"

\* An audit always ends, be it by giving up: threads that hold a connection
\* each and wait for another one do not wait for ever.
AuditEnds == \A a \in Auditors : pc[a] # "idle" ~> pc[a] = "idle"
===============================================================================
