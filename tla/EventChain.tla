------------------------------ MODULE EventChain ------------------------------
(***************************************************************************)
(* Store.append and Store.verify_chain (teluvane/store.py) over the table  *)
(* `events`, with several POST /events requests in the server at once.     *)
(*                                                                         *)
(* A request runs in a thread of its own and in one READ COMMITTED         *)
(* transaction without a lock: it reads the hash of the last committed     *)
(* row of its chain, inserts its row (BIGSERIAL hands out `seq` at the     *)
(* insert, not at the commit, and never takes one back) and commits.  The  *)
(* row is visible to others only after the commit.                         *)
(*                                                                         *)
(* SHA-256 is taken to be ideal: the digest of a row is the whole list of  *)
(* what was hashed up to it, so two digests are equal only when their      *)
(* inputs are.  An event stands for the columns _event_digest covers, a    *)
(* usage for those it leaves out: model, input_tokens, output_tokens and   *)
(* cost_usd.  The database returns `args` as JSONB renders it (1e22 comes  *)
(* back as an integer, for one), which AsStored models: the digest of an   *)
(* append is taken over the event as received, that of verify_chain over   *)
(* the row.                                                                *)
(***************************************************************************)
EXTENDS Naturals, Sequences, FiniteSets

CONSTANTS Orgs, SessionIds,
          Events,        \* the contents an event can have
          AsStored,      \* what reading a stored event gives back
          Usages,        \* what the columns outside the digest can hold
          Awaited,       \* the chains whose agent awaits each call of its recorder
          Handlers,      \* the threads that serve requests
          MaxSeq         \* bound: no request is accepted that could exceed it

Chains == Orgs \X SessionIds

ASSUME EventsAssumption == Events # {} /\ Usages # {} /\ AsStored \in [Events -> Events]
ASSUME ChainsAssumption == Orgs # {} /\ SessionIds # {} /\ Awaited \subseteq Chains
ASSUME BoundAssumption == MaxSeq \in Nat

GENESIS == << >>
NoChain == CHOOSE c \in Chains : TRUE
Hashes == Seq(Chains \X Events)

\* Defect: the payload without org_id and session_id.
DigestOfEventOnly(prev, c, e) == Append(prev, <<NoChain, e>>)

\* org_id and session_id are part of the hashed payload.
EventDigest(prev, c, e) == Append(prev, <<c, e>>)

Rows == [seq : Nat, chain : Chains, event : Events, usage : Usages,
         prev_hash : Hashes, hash : Hashes]

VARIABLES
  events,      \* the committed rows of the table
  nextSeq,     \* the BIGSERIAL sequence
  pc,          \* where each handler's transaction stands
  request,     \* the chain, event and usage each handler was called with
  last,        \* the hash each handler read in its SELECT
  inserted     \* the row each handler inserted and has not committed

vars == <<events, nextSeq, pc, request, last, inserted>>

NoRequest == [chain |-> NoChain, event |-> CHOOSE e \in Events : TRUE,
              usage |-> CHOOSE u \in Usages : TRUE]

NoRow == [seq |-> 0, chain |-> NoRequest.chain, event |-> NoRequest.event,
          usage |-> NoRequest.usage, prev_hash |-> GENESIS, hash |-> GENESIS]

Init ==
  /\ events = {}
  /\ nextSeq = 1
  /\ pc = [h \in Handlers |-> "idle"]
  /\ request = [h \in Handlers |-> NoRequest]
  /\ last = [h \in Handlers |-> GENESIS]
  /\ inserted = [h \in Handlers |-> NoRow]

------------------------------------------------------------------------------
\* SELECT ... WHERE org_id = _ AND session_id = _
ChainRows(c) == {r \in events : r.chain = c}

\* ... ORDER BY seq DESC LIMIT 1, and GENESIS where there is no row.
LastHash(rows) ==
  IF rows = {} THEN GENESIS
  ELSE (CHOOSE r \in rows : \A q \in rows : q.seq =< r.seq).hash

Before(rows, r) == {q \in rows : q.seq < r.seq}

\* Defect: each row is compared with the prev_hash it stores.
WalkOfStoredLinks(rows) ==
  \A r \in rows : r.hash = EventDigest(r.prev_hash, r.chain, r.event)

\* Defect: prev is not moved on from one row to the next.
WalkFromGenesis(rows) ==
  \A r \in rows : r.hash = EventDigest(GENESIS, r.chain, r.event)

\* Defect: only the newest row is checked.
WalkOfNewest(rows) ==
  \A r \in rows : (\A q \in rows : q.seq =< r.seq)
                    => r.hash = EventDigest(LastHash(Before(rows, r)), r.chain, r.event)

\* The walk in seq order: each row's hash must be the digest of the row as
\* it is read now and the hash of the row before it.
WalkIntact(rows) ==
  \A r \in rows : r.hash = EventDigest(LastHash(Before(rows, r)), r.chain, r.event)

VerifyChain(c) == WalkIntact(ChainRows(c))

\* Called without a session_id, one walk goes over every row of the org.
VerifyOrg(o) == WalkIntact({r \in events : r.chain[1] = o})

------------------------------------------------------------------------------
InFlight == {h \in Handlers : pc[h] # "idle"}

Alone(c) == \A h \in InFlight : request[h].chain # c

\* POST /events reaches append.  An agent that awaits each call of its recorder
\* before the next has at most one append in the server; nothing in the server
\* or in the SDK makes it do so.
Receive(h, c, e, u) ==
  /\ pc[h] = "idle"
  /\ c \in Awaited => Alone(c)
  /\ nextSeq + Cardinality(InFlight) =< MaxSeq
  /\ pc' = [pc EXCEPT ![h] = "select"]
  /\ request' = [request EXCEPT ![h] = [chain |-> c, event |-> e, usage |-> u]]
  /\ UNCHANGED <<events, nextSeq, last, inserted>>

\* Defect: the SELECT does not name the org.
SelectLastOfAnyOrg(h) ==
  /\ pc[h] = "select"
  /\ last' = [last EXCEPT ![h] = LastHash({r \in events : r.chain[2] = request[h].chain[2]})]
  /\ pc' = [pc EXCEPT ![h] = "insert"]
  /\ UNCHANGED <<events, nextSeq, request, inserted>>

SelectLast(h) ==
  /\ pc[h] = "select"
  /\ last' = [last EXCEPT ![h] = LastHash(ChainRows(request[h].chain))]
  /\ pc' = [pc EXCEPT ![h] = "insert"]
  /\ UNCHANGED <<events, nextSeq, request, inserted>>

\* Defect: seq is the number of committed rows.
NewRowCounted(h) ==
  [seq |-> Cardinality(events) + 1, chain |-> request[h].chain,
   event |-> AsStored[request[h].event], usage |-> request[h].usage, prev_hash |-> last[h],
   hash |-> EventDigest(last[h], request[h].chain, request[h].event)]

NewRow(h) ==
  [seq |-> nextSeq, chain |-> request[h].chain,
   event |-> AsStored[request[h].event], usage |-> request[h].usage, prev_hash |-> last[h],
   hash |-> EventDigest(last[h], request[h].chain, request[h].event)]

Insert(h) ==
  /\ pc[h] = "insert"
  /\ inserted' = [inserted EXCEPT ![h] = NewRow(h)]
  /\ nextSeq' = nextSeq + 1
  /\ pc' = [pc EXCEPT ![h] = "commit"]
  /\ UNCHANGED <<events, request, last>>

\* The request is answered and the thread's locals are gone.
Answer(h) ==
  /\ pc' = [pc EXCEPT ![h] = "idle"]
  /\ request' = [request EXCEPT ![h] = NoRequest]
  /\ last' = [last EXCEPT ![h] = GENESIS]
  /\ inserted' = [inserted EXCEPT ![h] = NoRow]

Commit(h) ==
  /\ pc[h] = "commit"
  /\ events' = events \cup {inserted[h]}
  /\ Answer(h)
  /\ UNCHANGED nextSeq

\* No connection within POOL_TIMEOUT, a connection lost, the process gone:
\* the transaction rolls back and its seq, if it has one, is lost.
Abort(h) ==
  /\ pc[h] # "idle"
  /\ Answer(h)
  /\ UNCHANGED <<events, nextSeq>>

Step(h) == SelectLast(h) \/ Insert(h) \/ Commit(h) \/ Abort(h)

Next ==
  \E h \in Handlers :
    Step(h) \/ \E c \in Chains, e \in Events, u \in Usages : Receive(h, c, e, u)

Spec == Init /\ [][Next]_vars

------------------------------------------------------------------------------
\* The tables and the handlers' variables keep their types, and no two rows
\* share a seq (the primary key of `events`).
TypeOK ==
  /\ events \subseteq Rows
  /\ nextSeq \in Nat \ {0}
  /\ pc \in [Handlers -> {"idle", "select", "insert", "commit"}]
  /\ request \in [Handlers -> [chain : Chains, event : Events, usage : Usages]]
  /\ last \in [Handlers -> Hashes]
  /\ inserted \in [Handlers -> Rows]
  /\ \A r, q \in events : r.seq = q.seq => r = q

\* Two appends that read the same last row gave their rows the same parent.
Forked(c) == \E r, q \in ChainRows(c) : r # q /\ r.prev_hash = q.prev_hash

\* The row reads back as what was hashed when it was appended.
ReadsBack(r) == r.hash = EventDigest(r.prev_hash, r.chain, r.event)

\* However appends interleave, abort or commit out of seq order, a row hangs
\* from GENESIS or from a row of its own chain with a smaller seq: append never
\* links to another tenant's or session's row, to a rolled-back row, or forward.
Linked ==
  \A r \in events :
    \/ r.prev_hash = GENESIS
    \/ \E q \in events : /\ q.chain = r.chain
                         /\ q.seq < r.seq
                         /\ q.hash = r.prev_hash

\* verify_chain says False of an untouched chain for two reasons only: two
\* appends raced for the same parent, or a row does not read back as hashed.
IntactUnlessRaced ==
  \A c \in Chains :
    ~Forked(c) /\ (\A r \in ChainRows(c) : ReadsBack(r)) => VerifyChain(c)

\* And in these cases it always says False: a race is never absorbed.
RaceIsVisible ==
  \A c \in Chains :
    VerifyChain(c) => ~Forked(c) /\ \A r \in ChainRows(c) : ReadsBack(r)

\* A chain that verify_chain once called broken is never called intact again,
\* whatever is appended to it and in whatever order the appends commit.
BrokenForGood == [][\A c \in Chains : VerifyChain(c)' => VerifyChain(c)]_vars

Newest(rows, r) == \A q \in rows : q.seq =< r.seq

Replaced(rows, r, w) == (rows \ {r}) \cup {w}

\* r with its columns written over but seq, chain and hash.
Rewritten(r, e, u, p) == [r EXCEPT !.event = e, !.usage = u, !.prev_hash = p]

\* r with another event and the hash that event has there: the digest has no key.
Rehashed(rows, r, e) ==
  [r EXCEPT !.event = e, !.hash = EventDigest(LastHash(Before(rows, r)), r.chain, e)]

\* What verify_chain sees, and what it does not, of a chain that verifies.  A row
\* written over is seen just when the event is another: a changed usage or
\* prev_hash never is.  A row written over with its hash recomputed, and a row
\* taken out, are seen just when a newer row follows (and not once all newer
\* hashes are recomputed too).  A row brought in from another chain and two rows
\* that trade places are always seen.  README.md:16-17 promises more: "any".
TamperEvident ==
  \A c \in Chains :
    LET rows == ChainRows(c) IN
    VerifyChain(c) => \A r \in rows :
      /\ \A e \in Events, u \in Usages, p \in {GENESIS} \cup {q.hash : q \in events} :
           WalkIntact(Replaced(rows, r, Rewritten(r, e, u, p))) <=> e = r.event
      /\ \A e \in Events \ {r.event} :
           WalkIntact(Replaced(rows, r, Rehashed(rows, r, e))) <=> Newest(rows, r)
      /\ WalkIntact(rows \ {r}) <=> Newest(rows, r)
      /\ \A d \in Chains \ {c} : ~WalkIntact(ChainRows(d) \cup {[r EXCEPT !.chain = d]})
      /\ \A q \in rows \ {r} :
           ~WalkIntact((rows \ {q, r}) \cup {[q EXCEPT !.seq = r.seq], [r EXCEPT !.seq = q.seq]})

\* Every chain verifies at every moment, between the steps of any append.
ChainIntact == \A c \in Chains : VerifyChain(c)

\* A chain whose agent awaits its recorder verifies at every moment, between the
\* steps of any append and whatever races on other chains, unless one of its
\* rows does not read back as it was hashed.
AwaitedIntact ==
  \A c \in Awaited : (\A r \in ChainRows(c) : ReadsBack(r)) => VerifyChain(c)

\* verify_chain without a session_id holds of an org all of whose chains are intact.
OrgIntact == \A o \in Orgs : VerifyOrg(o)

------------------------------------------------------------------------------
\* Defect: the newest event first.
AuditedNewestFirst(c) ==
  LET rows == ChainRows(c)
      At(n) == CHOOSE r \in rows : Cardinality(Before(rows, r)) = Cardinality(rows) - n
  IN  [n \in 1 .. Cardinality(rows) |-> At(n).event]

\* The sequence of events an auditor reads from a chain, in seq order.
AuditedEvents(c) ==
  LET rows == ChainRows(c)
      At(n) == CHOOSE r \in rows : Cardinality(Before(rows, r)) = n - 1
  IN  [n \in 1 .. Cardinality(rows) |-> At(n).event]

Ledger == INSTANCE EventLedger
            WITH Chains <- Awaited, ledger <- [c \in Awaited |-> AuditedEvents(c)]

\* The awaited chains of the table implement the append-only ledger, whatever
\* races on the others.
ImplementsLedger == Ledger!Spec
==============================================================================
