--------------------------- MODULE EventChainProofs ---------------------------
(***************************************************************************)
(* Proofs about Store.append and Store.verify_chain, for any number of     *)
(* tenants, sessions and concurrent requests and any event contents: what  *)
(* appends do to a chain, then what an auditor can rely on.                *)
(***************************************************************************)
EXTENDS EventChain, SequenceTheorems, FiniteSetTheorems, WellFoundedInduction, TLAPS

\* What the SELECT of a handler still in its transaction is worth by now.
Selected(h) == pc[h] \in {"insert", "commit"}

\* seq: below the sequence's next value, and owned by one row.
SeqOwned ==
  /\ \A r \in events : r.seq < nextSeq
  /\ \A h \in Handlers : pc[h] = "commit" =>
       /\ inserted[h].seq < nextSeq
       /\ \A r \in events : r.seq # inserted[h].seq
       /\ \A g \in Handlers \ {h} : pc[g] = "commit" => inserted[g].seq # inserted[h].seq

\* The row in a transaction is the one its request and its SELECT ask for.
RowAsAsked ==
  \A h \in Handlers : pc[h] = "commit" =>
    /\ inserted[h].chain = request[h].chain
    /\ inserted[h].prev_hash = last[h]
    /\ inserted[h].event = AsStored[request[h].event]
    /\ inserted[h].hash = EventDigest(last[h], request[h].chain, request[h].event)

\* ORDER BY seq DESC LIMIT 1 finds a row wherever there is one.
HasNewest ==
  \A c \in Chains :
    ChainRows(c) # {} => \E m \in ChainRows(c) : \A q \in ChainRows(c) : q.seq =< m.seq

\* What a handler selected is the hash of a committed row below its own.
ParentCommitted ==
  \A h \in Handlers : Selected(h) =>
    \/ last[h] = GENESIS
    \/ \E q \in events : /\ q.chain = request[h].chain
                         /\ q.hash = last[h]
                         /\ pc[h] = "commit" => q.seq < inserted[h].seq

\* Nothing was appended since the SELECT, and nothing above the insert.
UpToDate(h) ==
  LET rows == ChainRows(request[h].chain) IN
  /\ last[h] = LastHash(rows)
  /\ pc[h] = "commit" => \A q \in rows : q.seq < inserted[h].seq

\* A handler's SELECT is up to date unless the chain has forked or will, at
\* this handler's commit, because the parent it read has a child already.
RaceSeen ==
  \A h \in Handlers : Selected(h) =>
    \/ Forked(request[h].chain)
    \/ \E q \in ChainRows(request[h].chain) : q.prev_hash = last[h]
    \/ UpToDate(h)

TypeInv == TypeOK /\ SeqOwned /\ RowAsAsked

IInv == TypeInv /\ HasNewest /\ ParentCommitted /\ Linked /\ RaceSeen /\ IntactUnlessRaced

------------------------------------------------------------------------------
\* Facts about the operators.

LEMMA ConstantsTyped ==
  /\ NoChain \in Chains
  /\ NoRow \in Rows
  /\ NoRequest \in [chain : Chains, event : Events, usage : Usages]
  /\ GENESIS \in Hashes
<1>1. PICK o \in Orgs, s \in SessionIds : <<o, s>> \in Chains
  BY ChainsAssumption DEF Chains
<1>2. NoChain \in Chains
  BY <1>1 DEF NoChain
<1>3. (CHOOSE e \in Events : TRUE) \in Events /\ (CHOOSE u \in Usages : TRUE) \in Usages
  BY EventsAssumption
<1>4. GENESIS \in Hashes
  BY DEF GENESIS, Hashes
<1> QED
  BY <1>2, <1>3, <1>4 DEF NoRow, NoRequest, Rows

LEMMA DigestTyped ==
  ASSUME NEW prev \in Hashes, NEW c \in Chains, NEW e \in Events
  PROVE  EventDigest(prev, c, e) \in Hashes
BY DEF EventDigest, Hashes

\* A digest determines what was hashed.
LEMMA DigestInjective ==
  ASSUME NEW p \in Hashes, NEW q \in Hashes, NEW c \in Chains, NEW d \in Chains,
         NEW e \in Events, NEW f \in Events,
         EventDigest(p, c, e) = EventDigest(q, d, f)
  PROVE  p = q /\ c = d /\ e = f
<1> DEFINE X == Chains \X Events
<1> HIDE DEF X
<1>1. p \in Seq(X) /\ q \in Seq(X) /\ <<c, e>> \in X /\ <<d, f>> \in X
  BY DEF Hashes, X
<1>2. Append(p, <<c, e>>) = Append(q, <<d, f>>)
  BY DEF EventDigest
<1>3. p = q /\ <<c, e>> = <<d, f>>
  BY <1>1, <1>2, AppendInjective
<1> QED
  BY <1>3

\* Where there is a newest row, LastHash is its hash.
LEMMA LastHashOfNewest ==
  ASSUME NEW rows, rows # {},
         \E m \in rows : \A q \in rows : q.seq =< m.seq
  PROVE  \E m \in rows : LastHash(rows) = m.hash
BY DEF LastHash

\* A row above all others that hangs from the last one extends an intact walk.
LEMMA WalkExtends ==
  ASSUME NEW rows \in SUBSET Rows, NEW r \in Rows,
         WalkIntact(rows),
         \A q \in rows : q.seq < r.seq,
         r.hash = EventDigest(LastHash(rows), r.chain, r.event)
  PROVE  WalkIntact(rows \cup {r})
<1>1. Before(rows \cup {r}, r) = rows
  BY DEF Before, Rows
<1>2. ASSUME NEW q \in rows
      PROVE  Before(rows \cup {r}, q) = Before(rows, q)
  BY <1>2 DEF Before, Rows
<1> QED
  BY <1>1, <1>2 DEF WalkIntact

LEMMA LastHashTyped ==
  ASSUME TypeOK, HasNewest, NEW c \in Chains
  PROVE  LastHash(ChainRows(c)) \in Hashes
<1>1. CASE ChainRows(c) = {}
  BY <1>1, ConstantsTyped DEF LastHash
<1>2. CASE ChainRows(c) # {}
  <2>1. \E m \in ChainRows(c) : \A q \in ChainRows(c) : q.seq =< m.seq
    BY <1>2 DEF HasNewest
  <2>2. PICK m \in ChainRows(c) : LastHash(ChainRows(c)) = m.hash
    BY <1>2, <2>1, LastHashOfNewest
  <2> QED
    BY <2>2 DEF ChainRows, TypeOK, Rows
<1> QED
  BY <1>1, <1>2

------------------------------------------------------------------------------
\* Type correctness.  A committed row and a row in a transaction own their seq.

LEMMA InitTypeInv == Init => TypeInv
BY ConstantsTyped DEF Init, TypeInv, TypeOK, SeqOwned, RowAsAsked

LEMMA ReceiveTypeInv ==
  ASSUME TypeInv, NEW h \in Handlers, NEW c \in Chains, NEW e \in Events, NEW u \in Usages,
         Receive(h, c, e, u)
  PROVE  TypeInv'
BY DEF Receive, TypeInv, TypeOK, SeqOwned, RowAsAsked

LEMMA SelectLastTypeInv ==
  ASSUME TypeInv, HasNewest, NEW h \in Handlers, SelectLast(h)
  PROVE  TypeInv'
<1>1. LastHash(ChainRows(request[h].chain)) \in Hashes
  BY LastHashTyped DEF TypeInv, TypeOK
<1> QED
  BY <1>1 DEF SelectLast, TypeInv, TypeOK, SeqOwned, RowAsAsked

LEMMA InsertTypeInv ==
  ASSUME TypeInv, NEW h \in Handlers, Insert(h)
  PROVE  TypeInv'
<1>1. NewRow(h) \in Rows
  <2>1. EventDigest(last[h], request[h].chain, request[h].event) \in Hashes
    BY DigestTyped DEF TypeInv, TypeOK
  <2>2. AsStored[request[h].event] \in Events
    BY EventsAssumption DEF TypeInv, TypeOK
  <2> QED
    BY <2>1, <2>2 DEF NewRow, Rows, TypeInv, TypeOK
<1>2. TypeOK'
  BY <1>1 DEF Insert, TypeInv, TypeOK
<1>3. SeqOwned'
  BY DEF Insert, NewRow, TypeInv, TypeOK, SeqOwned, Rows
<1>4. RowAsAsked'
  BY DEF Insert, NewRow, TypeInv, TypeOK, RowAsAsked
<1> QED
  BY <1>2, <1>3, <1>4 DEF TypeInv

LEMMA CommitTypeInv ==
  ASSUME TypeInv, NEW h \in Handlers, Commit(h)
  PROVE  TypeInv'
<1>1. TypeOK'
  BY ConstantsTyped DEF Commit, Answer, TypeInv, TypeOK, SeqOwned
<1>2. SeqOwned'
  BY DEF Commit, Answer, TypeInv, TypeOK, SeqOwned
<1>3. RowAsAsked'
  BY DEF Commit, Answer, TypeInv, TypeOK, RowAsAsked
<1> QED
  BY <1>1, <1>2, <1>3 DEF TypeInv

LEMMA AbortTypeInv ==
  ASSUME TypeInv, NEW h \in Handlers, Abort(h)
  PROVE  TypeInv'
BY ConstantsTyped DEF Abort, Answer, TypeInv, TypeOK, SeqOwned, RowAsAsked

------------------------------------------------------------------------------
\* The steps that leave the table alone keep what is said of the table.

LEMMA TableUnchanged ==
  ASSUME UNCHANGED events
  PROVE  /\ \A c : ChainRows(c)' = ChainRows(c)
         /\ \A c : Forked(c)' = Forked(c)
         /\ HasNewest => HasNewest'
         /\ Linked => Linked'
         /\ IntactUnlessRaced => IntactUnlessRaced'
BY DEF ChainRows, Forked, HasNewest, Linked, IntactUnlessRaced, VerifyChain

LEMMA InitIInv == Init => IInv
<1> SUFFICES ASSUME Init PROVE IInv
  OBVIOUS
<1>1. TypeInv
  BY InitTypeInv
<1>2. \A c : ChainRows(c) = {}
  BY DEF Init, ChainRows
<1>3. HasNewest /\ Linked
  BY <1>2 DEF HasNewest, Linked, Init
<1>4. ParentCommitted /\ RaceSeen
  BY DEF Init, ParentCommitted, RaceSeen, Selected
<1>5. IntactUnlessRaced
  BY <1>2 DEF IntactUnlessRaced, VerifyChain, WalkIntact
<1> QED
  BY <1>1, <1>3, <1>4, <1>5 DEF IInv

LEMMA ReceiveIInv ==
  ASSUME IInv, NEW h \in Handlers, NEW c \in Chains, NEW e \in Events, NEW u \in Usages,
         Receive(h, c, e, u)
  PROVE  IInv'
<1>1. TypeInv'
  BY ReceiveTypeInv DEF IInv
<1>2. HasNewest' /\ Linked' /\ IntactUnlessRaced'
  BY TableUnchanged DEF IInv, Receive
<1>3. \A g \in Handlers : Selected(g)' =>
        /\ Selected(g) /\ pc'[g] = pc[g] /\ request'[g] = request[g]
        /\ last'[g] = last[g] /\ inserted'[g] = inserted[g]
  BY DEF Receive, Selected, IInv, TypeInv, TypeOK
<1>4. ParentCommitted'
  BY <1>3 DEF ParentCommitted, IInv, Receive
<1>5. RaceSeen'
  BY <1>3, TableUnchanged DEF RaceSeen, UpToDate, IInv, Receive
<1> QED
  BY <1>1, <1>2, <1>4, <1>5 DEF IInv

LEMMA AbortIInv ==
  ASSUME IInv, NEW h \in Handlers, Abort(h)
  PROVE  IInv'
<1>1. TypeInv'
  BY AbortTypeInv DEF IInv
<1>2. HasNewest' /\ Linked' /\ IntactUnlessRaced'
  BY TableUnchanged DEF IInv, Abort
<1>3. \A g \in Handlers : Selected(g)' =>
        /\ Selected(g) /\ pc'[g] = pc[g] /\ request'[g] = request[g]
        /\ last'[g] = last[g] /\ inserted'[g] = inserted[g]
  BY DEF Abort, Answer, Selected, IInv, TypeInv, TypeOK
<1>4. ParentCommitted'
  BY <1>3 DEF ParentCommitted, IInv, Abort
<1>5. RaceSeen'
  BY <1>3, TableUnchanged DEF RaceSeen, UpToDate, IInv, Abort
<1> QED
  BY <1>1, <1>2, <1>4, <1>5 DEF IInv

\* The SELECT reads GENESIS or the hash of a committed row, and is up to date.
LEMMA SelectLastIInv ==
  ASSUME IInv, NEW h \in Handlers, SelectLast(h)
  PROVE  IInv'
<1> DEFINE rows == ChainRows(request[h].chain)
<1>1. TypeInv'
  BY SelectLastTypeInv DEF IInv
<1>2. HasNewest' /\ Linked' /\ IntactUnlessRaced'
  BY TableUnchanged DEF IInv, SelectLast
<1>3. \A g \in Handlers \ {h} :
        /\ Selected(g)' = Selected(g) /\ pc'[g] = pc[g] /\ request'[g] = request[g]
        /\ last'[g] = last[g] /\ inserted'[g] = inserted[g]
  BY DEF SelectLast, Selected, IInv, TypeInv, TypeOK
<1>4. /\ pc'[h] = "insert" /\ request'[h] = request[h] /\ last'[h] = LastHash(rows)
      /\ request[h].chain \in Chains /\ events' = events
  BY DEF SelectLast, IInv, TypeInv, TypeOK
<1>5. last'[h] = GENESIS \/ \E q \in events : q.chain = request[h].chain /\ q.hash = last'[h]
  <2>1. CASE rows = {}
    BY <1>4, <2>1 DEF LastHash
  <2>2. CASE rows # {}
    <3>1. \E m \in rows : \A q \in rows : q.seq =< m.seq
      BY <1>4, <2>2 DEF IInv, HasNewest
    <3>2. PICK m \in rows : LastHash(rows) = m.hash
      BY <2>2, <3>1, LastHashOfNewest
    <3> QED
      BY <1>4, <3>2 DEF ChainRows
  <2> QED
    BY <2>1, <2>2
<1>6. ParentCommitted'
  BY <1>3, <1>4, <1>5 DEF ParentCommitted, IInv
<1>7. RaceSeen'
  <2> SUFFICES ASSUME NEW g \in Handlers, Selected(g)'
               PROVE  \/ Forked(request[g].chain)'
                      \/ (\E q \in ChainRows(request[g].chain) : q.prev_hash = last[g])'
                      \/ UpToDate(g)'
    BY DEF RaceSeen
  <2>1. CASE g = h
    BY <1>4, <2>1, TableUnchanged DEF UpToDate
  <2>2. CASE g # h
    BY <1>3, <1>4, <2>2, TableUnchanged DEF UpToDate, RaceSeen, IInv
  <2> QED
    BY <2>1, <2>2
<1> QED
  BY <1>1, <1>2, <1>6, <1>7 DEF IInv

\* The row's seq is above every other, so it is above its parent's.
LEMMA InsertIInv ==
  ASSUME IInv, NEW h \in Handlers, Insert(h)
  PROVE  IInv'
<1>1. TypeInv'
  BY InsertTypeInv DEF IInv
<1>2. HasNewest' /\ Linked' /\ IntactUnlessRaced'
  BY TableUnchanged DEF IInv, Insert
<1>3. \A g \in Handlers \ {h} :
        /\ Selected(g)' = Selected(g) /\ pc'[g] = pc[g] /\ request'[g] = request[g]
        /\ last'[g] = last[g] /\ inserted'[g] = inserted[g]
  BY DEF Insert, Selected, IInv, TypeInv, TypeOK
<1>4. /\ pc[h] = "insert" /\ Selected(h) /\ pc'[h] = "commit"
      /\ request'[h] = request[h] /\ last'[h] = last[h]
      /\ inserted'[h].seq = nextSeq /\ events' = events
  BY DEF Insert, NewRow, Selected, IInv, TypeInv, TypeOK
<1>5. \A q \in events : q.seq < inserted'[h].seq
  BY <1>4 DEF IInv, TypeInv, SeqOwned
<1>6. ParentCommitted'
  BY <1>3, <1>4, <1>5 DEF ParentCommitted, IInv
<1>7. RaceSeen'
  <2> SUFFICES ASSUME NEW g \in Handlers, Selected(g)'
               PROVE  \/ Forked(request[g].chain)'
                      \/ (\E q \in ChainRows(request[g].chain) : q.prev_hash = last[g])'
                      \/ UpToDate(g)'
    BY DEF RaceSeen
  <2>1. CASE g = h
    <3>1. \A q \in ChainRows(request[h].chain) : q.seq < inserted'[h].seq
      BY <1>5 DEF ChainRows
    <3> QED
      BY <1>4, <2>1, <3>1, TableUnchanged DEF UpToDate, RaceSeen, IInv
  <2>2. CASE g # h
    BY <1>3, <1>4, <2>2, TableUnchanged DEF UpToDate, RaceSeen, IInv
  <2> QED
    BY <2>1, <2>2
<1> QED
  BY <1>1, <1>2, <1>6, <1>7 DEF IInv

\* What a commit changes: one row more, in one chain, and one handler idle.
CommitOf(h, c, row) ==
  /\ c = request[h].chain /\ row = inserted[h]
  /\ row.chain = c /\ row.prev_hash = last[h]
  /\ \A r \in events : r.seq # row.seq
  /\ events' = events \cup {row}
  /\ ChainRows(c)' = ChainRows(c) \cup {row}
  /\ \A d \in Chains \ {c} : ChainRows(d)' = ChainRows(d)
  /\ \A d \in Chains : Forked(d) => Forked(d)'
  /\ \A g \in Handlers : Selected(g)' =>
       /\ g # h /\ Selected(g) /\ pc'[g] = pc[g] /\ request'[g] = request[g]
       /\ last'[g] = last[g] /\ inserted'[g] = inserted[g]

LEMMA CommitEffect ==
  ASSUME TypeInv, NEW h \in Handlers, Commit(h)
  PROVE  \E c \in Chains, row \in Rows : CommitOf(h, c, row)
<1>0. PICK c \in Chains, row \in Rows : c = request[h].chain /\ row = inserted[h]
  BY DEF TypeInv, TypeOK
<1>1. row.chain = c /\ row.prev_hash = last[h]
  BY <1>0 DEF Commit, TypeInv, RowAsAsked
<1>2. (\A r \in events : r.seq # row.seq) /\ events' = events \cup {row}
  BY <1>0 DEF Commit, TypeInv, SeqOwned
<1>3. ChainRows(c)' = ChainRows(c) \cup {row}
  BY <1>1, <1>2 DEF ChainRows
<1>4. \A d \in Chains \ {c} : ChainRows(d)' = ChainRows(d)
  BY <1>1, <1>2 DEF ChainRows
<1>5. \A d \in Chains : Forked(d) => Forked(d)'
  BY <1>2 DEF Forked, ChainRows
<1>6. \A g \in Handlers : Selected(g)' =>
        /\ g # h /\ Selected(g) /\ pc'[g] = pc[g] /\ request'[g] = request[g]
        /\ last'[g] = last[g] /\ inserted'[g] = inserted[g]
  BY DEF Commit, Answer, Selected, TypeInv, TypeOK
<1> QED
  BY <1>0, <1>1, <1>2, <1>3, <1>4, <1>5, <1>6 DEF CommitOf

\* A commit that was not up to date makes or keeps a fork, and one that was
\* extends the walk by its newest row.
LEMMA CommitIInv ==
  ASSUME IInv, NEW h \in Handlers, Commit(h)
  PROVE  IInv'
<1>0. PICK c \in Chains, row \in Rows : CommitOf(h, c, row)
  BY CommitEffect DEF IInv
<1> USE <1>0 DEF CommitOf
<1>1. TypeInv'
  BY CommitTypeInv DEF IInv
<1>2. Selected(h) /\ pc[h] = "commit" /\ TypeInv
  BY DEF Commit, Selected, IInv
<1>3. HasNewest'
  <2> SUFFICES ASSUME NEW d \in Chains, ChainRows(d)' # {}
               PROVE  \E m \in ChainRows(d)' : \A q \in ChainRows(d)' : q.seq =< m.seq
    BY DEF HasNewest
  <2>1. CASE d # c
    BY <2>1 DEF IInv, HasNewest
  <2>2. CASE d = c /\ ChainRows(c) = {}
    BY <2>2 DEF Rows
  <2>3. CASE d = c /\ ChainRows(c) # {}
    <3>1. PICK m \in ChainRows(c) : \A q \in ChainRows(c) : q.seq =< m.seq
      BY <2>3 DEF IInv, HasNewest
    <3>2. ChainRows(c) \subseteq Rows
      BY <1>2 DEF ChainRows, TypeInv, TypeOK
    <3>3. CASE row.seq =< m.seq
      BY <2>3, <3>1, <3>3
    <3>4. CASE m.seq =< row.seq
      <4>1. \A q \in ChainRows(c) : q.seq =< row.seq
        BY <3>1, <3>2, <3>4 DEF Rows
      <4> QED
        BY <2>3, <4>1 DEF Rows
    <3> QED
      BY <3>2, <3>3, <3>4 DEF Rows
  <2> QED
    BY <2>1, <2>2, <2>3
<1>4. ParentCommitted'
  BY DEF ParentCommitted, IInv
<1>5. Linked'
  <2>1. row.prev_hash = GENESIS \/ \E q \in events : q.chain = row.chain /\ q.seq < row.seq
                                                    /\ q.hash = row.prev_hash
    BY <1>2 DEF ParentCommitted, IInv
  <2> QED
    BY <2>1 DEF Linked, IInv
<1>6. \/ Forked(c)'
      \/ /\ last[h] = LastHash(ChainRows(c))
         /\ \A q \in ChainRows(c) : q.seq < row.seq
  <2>1. CASE Forked(c)
    BY <2>1
  <2>2. CASE \E q \in ChainRows(c) : q.prev_hash = last[h]
    <3>1. PICK q \in ChainRows(c) : q.prev_hash = last[h]
      BY <2>2
    <3>2. q # row /\ q \in ChainRows(c)' /\ row \in ChainRows(c)'
      BY <3>1 DEF ChainRows
    <3> QED
      BY <3>1, <3>2 DEF Forked
  <2>3. CASE UpToDate(h)
    BY <1>2, <2>3 DEF UpToDate
  <2> QED
    BY <1>2, <2>1, <2>2, <2>3 DEF RaceSeen, IInv
<1>7. RaceSeen'
  <2> SUFFICES ASSUME NEW g \in Handlers, Selected(g)'
               PROVE  \/ Forked(request[g].chain)'
                      \/ (\E q \in ChainRows(request[g].chain) : q.prev_hash = last[g])'
                      \/ UpToDate(g)'
    BY DEF RaceSeen
  <2> DEFINE d == request[g].chain
  <2>1. d \in Chains /\ Selected(g)
    BY <1>2 DEF TypeInv, TypeOK
  <2>2. CASE Forked(d)
    BY <2>1, <2>2
  <2>3. CASE \E q \in ChainRows(d) : q.prev_hash = last[g]
    BY <2>1, <2>3 DEF ChainRows
  <2>4. CASE UpToDate(g) /\ d # c
    BY <2>1, <2>4 DEF UpToDate
  <2>5. CASE UpToDate(g) /\ d = c
    BY <1>6, <2>1, <2>5 DEF UpToDate
  <2> QED
    BY <2>1, <2>2, <2>3, <2>4, <2>5 DEF RaceSeen, IInv
<1>8. IntactUnlessRaced'
  <2> SUFFICES ASSUME NEW d \in Chains, ~Forked(d)',
                      \A r \in ChainRows(d)' : ReadsBack(r)
               PROVE  VerifyChain(d)'
    BY DEF IntactUnlessRaced, ReadsBack
  <2>1. ~Forked(d) /\ VerifyChain(d)
    BY DEF IntactUnlessRaced, IInv
  <2>2. CASE d # c
    BY <2>1, <2>2 DEF VerifyChain
  <2>3. CASE d = c
    <3>1. ChainRows(c) \in SUBSET Rows
      BY <1>2 DEF ChainRows, TypeInv, TypeOK
    <3>2. row.hash = EventDigest(LastHash(ChainRows(c)), row.chain, row.event)
      BY <1>6, <2>3 DEF ReadsBack
    <3>3. WalkIntact(ChainRows(c) \cup {row})
      BY <1>6, <2>1, <2>3, <3>1, <3>2, WalkExtends DEF VerifyChain
    <3> QED
      BY <2>3, <3>3 DEF VerifyChain
  <2> QED
    BY <2>2, <2>3
<1> QED
  BY <1>1, <1>3, <1>4, <1>5, <1>7, <1>8 DEF IInv

LEMMA StutterIInv ==
  ASSUME IInv, UNCHANGED vars
  PROVE  IInv'
<1>1. TypeInv'
  BY DEF IInv, vars, TypeInv, TypeOK, SeqOwned, RowAsAsked
<1>2. HasNewest' /\ Linked' /\ IntactUnlessRaced'
  BY TableUnchanged DEF IInv, vars
<1>3. ParentCommitted'
  BY DEF IInv, vars, ParentCommitted, Selected
<1>4. RaceSeen'
  BY TableUnchanged DEF IInv, vars, RaceSeen, UpToDate, Selected
<1> QED
  BY <1>1, <1>2, <1>3, <1>4 DEF IInv

LEMMA NextIInv == IInv /\ [Next]_vars => IInv'
<1> SUFFICES ASSUME IInv, [Next]_vars PROVE IInv'
  OBVIOUS
<1>1. ASSUME NEW h \in Handlers, NEW c \in Chains, NEW e \in Events, NEW u \in Usages,
             Receive(h, c, e, u)
      PROVE  IInv'
  BY <1>1, ReceiveIInv
<1>2. ASSUME NEW h \in Handlers, SelectLast(h) PROVE IInv'
  BY <1>2, SelectLastIInv
<1>3. ASSUME NEW h \in Handlers, Insert(h) PROVE IInv'
  BY <1>3, InsertIInv
<1>4. ASSUME NEW h \in Handlers, Commit(h) PROVE IInv'
  BY <1>4, CommitIInv
<1>5. ASSUME NEW h \in Handlers, Abort(h) PROVE IInv'
  BY <1>5, AbortIInv
<1>6. CASE UNCHANGED vars
  BY <1>6, StutterIInv
<1> QED
  BY <1>1, <1>2, <1>3, <1>4, <1>5, <1>6 DEF Next, Step

\* The invariant the results below are read from, for every number of handlers.
THEOREM Invariant == Spec => []IInv
BY InitIInv, NextIInv, PTL DEF Spec

\* Store.append keeps the columns' types and gives no two rows the same seq.
THEOREM TypeCorrect == Spec => []TypeOK
<1>1. IInv => TypeOK
  BY DEF IInv, TypeInv
<1> QED
  BY <1>1, Invariant, PTL

\* Whatever the interleaving, append hangs every row from GENESIS or from an
\* earlier committed row of its own tenant and session.
THEOREM AppendLinksBack == Spec => []Linked
<1>1. IInv => Linked
  BY DEF IInv
<1> QED
  BY <1>1, Invariant, PTL

\* verify_chain never says False of an untouched chain but for an append race
\* or an event that does not read back as it was hashed.
THEOREM BreaksOnlyWhenRaced == Spec => []IntactUnlessRaced
<1>1. IInv => IntactUnlessRaced
  BY DEF IInv
<1> QED
  BY <1>1, Invariant, PTL

------------------------------------------------------------------------------
\* Awaited chains.  No two handlers in flight serve the same one, so a SELECT on
\* it stays up to date until its own commit.

OneAppendEach ==
  \A h, g \in Handlers :
    /\ pc[h] # "idle" /\ pc[g] # "idle"
    /\ request[h].chain = request[g].chain /\ request[h].chain \in Awaited
    => h = g

AllUpToDate ==
  \A h \in Handlers : Selected(h) /\ request[h].chain \in Awaited => UpToDate(h)

SerialInv == IInv /\ OneAppendEach /\ AllUpToDate

LEMMA SerialReceive ==
  ASSUME SerialInv, NEW h \in Handlers, NEW c \in Chains, NEW e \in Events, NEW u \in Usages,
         Receive(h, c, e, u)
  PROVE  SerialInv'
<1>1. IInv'
  BY ReceiveIInv DEF SerialInv
<1>2. OneAppendEach'
  BY DEF SerialInv, OneAppendEach, Receive, Alone, InFlight, IInv, TypeInv, TypeOK
<1>3. \A g \in Handlers : Selected(g)' =>
        /\ Selected(g) /\ pc'[g] = pc[g] /\ request'[g] = request[g]
        /\ last'[g] = last[g] /\ inserted'[g] = inserted[g]
  BY DEF Receive, Selected, SerialInv, IInv, TypeInv, TypeOK
<1>4. AllUpToDate'
  BY <1>3, TableUnchanged DEF SerialInv, AllUpToDate, UpToDate, Receive
<1> QED
  BY <1>1, <1>2, <1>4 DEF SerialInv

LEMMA SerialSelectLast ==
  ASSUME SerialInv, NEW h \in Handlers, SelectLast(h)
  PROVE  SerialInv'
<1>1. IInv'
  BY SelectLastIInv DEF SerialInv
<1>2. OneAppendEach'
  BY DEF SerialInv, OneAppendEach, SelectLast, IInv, TypeInv, TypeOK
<1>3. AllUpToDate'
  BY DEF SerialInv, AllUpToDate, UpToDate, SelectLast, Selected, ChainRows, IInv, TypeInv, TypeOK
<1> QED
  BY <1>1, <1>2, <1>3 DEF SerialInv

LEMMA SerialInsert ==
  ASSUME SerialInv, NEW h \in Handlers, Insert(h)
  PROVE  SerialInv'
<1>1. IInv'
  BY InsertIInv DEF SerialInv
<1>2. OneAppendEach'
  BY DEF SerialInv, OneAppendEach, Insert, IInv, TypeInv, TypeOK
<1>3. \A q \in events : q.seq < nextSeq
  BY DEF SerialInv, IInv, TypeInv, SeqOwned
<1>4. AllUpToDate'
  BY <1>3 DEF SerialInv, AllUpToDate, UpToDate, Insert, NewRow, Selected, ChainRows, IInv, TypeInv, TypeOK
<1> QED
  BY <1>1, <1>2, <1>4 DEF SerialInv

LEMMA SerialCommit ==
  ASSUME SerialInv, NEW h \in Handlers, Commit(h)
  PROVE  SerialInv'
<1>0. PICK c \in Chains, row \in Rows : CommitOf(h, c, row)
  BY CommitEffect DEF SerialInv, IInv
<1>1. IInv'
  BY CommitIInv DEF SerialInv
<1>2. OneAppendEach'
  BY DEF SerialInv, OneAppendEach, Commit, Answer, IInv, TypeInv, TypeOK
<1>3. AllUpToDate'
  <2> SUFFICES ASSUME NEW g \in Handlers, Selected(g)', request'[g].chain \in Awaited
               PROVE  UpToDate(g)'
    BY DEF AllUpToDate
  <2>1. g # h /\ UpToDate(g) /\ pc'[g] = pc[g] /\ request'[g] = request[g]
        /\ last'[g] = last[g] /\ inserted'[g] = inserted[g]
    BY <1>0 DEF CommitOf, SerialInv, AllUpToDate
  <2>2. request[g].chain \in Chains \ {c}
    BY <1>0, <2>1 DEF CommitOf, Commit, Selected, SerialInv, OneAppendEach, IInv, TypeInv, TypeOK
  <2> QED
    BY <1>0, <2>1, <2>2 DEF CommitOf, UpToDate
<1> QED
  BY <1>1, <1>2, <1>3 DEF SerialInv

LEMMA SerialAbort ==
  ASSUME SerialInv, NEW h \in Handlers, Abort(h)
  PROVE  SerialInv'
<1>1. IInv'
  BY AbortIInv DEF SerialInv
<1>2. OneAppendEach'
  BY DEF SerialInv, OneAppendEach, Abort, Answer, IInv, TypeInv, TypeOK
<1>3. AllUpToDate'
  BY DEF SerialInv, AllUpToDate, UpToDate, Abort, Answer, Selected, ChainRows, IInv, TypeInv, TypeOK
<1> QED
  BY <1>1, <1>2, <1>3 DEF SerialInv

LEMMA SerialStutter ==
  ASSUME SerialInv, UNCHANGED vars
  PROVE  SerialInv'
<1>1. IInv'
  BY StutterIInv DEF SerialInv
<1>2. OneAppendEach' /\ AllUpToDate'
  BY DEF SerialInv, OneAppendEach, AllUpToDate, UpToDate, Selected, ChainRows, vars
<1> QED
  BY <1>1, <1>2 DEF SerialInv

\* The invariant the results about awaited chains are read from.
THEOREM SerialInvariant == Spec => []SerialInv
<1>1. Init => SerialInv
  <2> SUFFICES ASSUME Init PROVE SerialInv
    OBVIOUS
  <2>1. IInv
    BY InitIInv
  <2>2. OneAppendEach /\ AllUpToDate
    BY DEF Init, OneAppendEach, AllUpToDate, Selected
  <2> QED
    BY <2>1, <2>2 DEF SerialInv
<1>2. SerialInv /\ [Next]_vars => SerialInv'
  <2> SUFFICES ASSUME SerialInv, [Next]_vars PROVE SerialInv'
    OBVIOUS
  <2>1. ASSUME NEW h \in Handlers, NEW c \in Chains, NEW e \in Events, NEW u \in Usages,
               Receive(h, c, e, u)
        PROVE  SerialInv'
    BY <2>1, SerialReceive
  <2>2. ASSUME NEW h \in Handlers, SelectLast(h) PROVE SerialInv'
    BY <2>2, SerialSelectLast
  <2>3. ASSUME NEW h \in Handlers, Insert(h) PROVE SerialInv'
    BY <2>3, SerialInsert
  <2>4. ASSUME NEW h \in Handlers, Commit(h) PROVE SerialInv'
    BY <2>4, SerialCommit
  <2>5. ASSUME NEW h \in Handlers, Abort(h) PROVE SerialInv'
    BY <2>5, SerialAbort
  <2>6. CASE UNCHANGED vars
    BY <2>6, SerialStutter
  <2> QED
    BY <2>1, <2>2, <2>3, <2>4, <2>5, <2>6 DEF Next, Step
<1> QED
  BY <1>1, <1>2, PTL DEF Spec

\* A row committed alone comes on top of its chain and hangs from its last row.
LEMMA SerialCommitOnTop ==
  ASSUME SerialInv, NEW h \in Handlers, Commit(h), request[h].chain \in Awaited
  PROVE  \E c \in Chains, row \in Rows :
           /\ CommitOf(h, c, row)
           /\ \A q \in ChainRows(c) : q.seq < row.seq
           /\ row.prev_hash = LastHash(ChainRows(c))
           /\ row.event = AsStored[request[h].event]
           /\ row.hash = EventDigest(row.prev_hash, c, request[h].event)
           /\ request[h].event \in Events
<1>1. PICK c \in Chains, row \in Rows : CommitOf(h, c, row)
  BY CommitEffect DEF SerialInv, IInv
<1>2. pc[h] = "commit" /\ UpToDate(h)
  BY DEF SerialInv, AllUpToDate, Commit, Selected
<1>3. /\ row.event = AsStored[request[h].event]
      /\ row.hash = EventDigest(last[h], c, request[h].event)
      /\ request[h].event \in Events
  BY <1>1, <1>2 DEF CommitOf, SerialInv, IInv, TypeInv, TypeOK, RowAsAsked
<1> QED
  BY <1>1, <1>2, <1>3 DEF CommitOf, UpToDate

\* verify_chain says True at every moment of every session whose agent awaits
\* its recorder, whatever races on the others, unless an event of the session
\* does not read back as it was hashed.
THEOREM AwaitedChainsIntact == Spec => []AwaitedIntact
<1>1. Init => AwaitedIntact
  BY DEF Init, AwaitedIntact, VerifyChain, WalkIntact, ChainRows
<1>2. ASSUME SerialInv, AwaitedIntact, [Next]_vars
      PROVE  AwaitedIntact'
  <2>1. CASE UNCHANGED events
    BY <1>2, <2>1, TableUnchanged DEF AwaitedIntact, VerifyChain
  <2>2. ASSUME NEW h \in Handlers, Commit(h)
        PROVE  AwaitedIntact'
    <3>1. PICK c \in Chains, row \in Rows : CommitOf(h, c, row)
      BY <1>2, <2>2, CommitEffect DEF SerialInv, IInv
    <3> SUFFICES ASSUME NEW d \in Awaited, \A r \in ChainRows(d)' : ReadsBack(r)
                 PROVE  VerifyChain(d)'
      BY DEF AwaitedIntact, ReadsBack
    <3>2. d \in Chains
      BY ChainsAssumption
    <3>3. CASE d # c
      BY <1>2, <3>1, <3>2, <3>3 DEF CommitOf, AwaitedIntact, VerifyChain
    <3>4. CASE d = c
      <4>1. /\ \A q \in ChainRows(c) : q.seq < row.seq
            /\ row.prev_hash = LastHash(ChainRows(c))
        <5>1. request[h].chain \in Awaited
          BY <3>1, <3>4 DEF CommitOf
        <5> QED
          BY <1>2, <2>2, <3>1, <5>1, SerialCommitOnTop DEF CommitOf
      <4>2. ChainRows(c)' = ChainRows(c) \cup {row}
        BY <3>1 DEF CommitOf
      <4>3. row.hash = EventDigest(LastHash(ChainRows(c)), row.chain, row.event)
        BY <3>4, <4>1, <4>2 DEF ReadsBack
      <4>4. ChainRows(c) \in SUBSET Rows /\ WalkIntact(ChainRows(c))
        BY <1>2, <3>4, <4>2
           DEF ChainRows, SerialInv, IInv, TypeInv, TypeOK, AwaitedIntact, VerifyChain
      <4>5. WalkIntact(ChainRows(c) \cup {row})
        BY <4>1, <4>3, <4>4, WalkExtends
      <4> QED
        BY <3>4, <4>2, <4>5 DEF VerifyChain
    <3> QED
      BY <3>3, <3>4
  <2> QED
    BY <1>2, <2>1, <2>2 DEF Next, Step, Receive, SelectLast, Insert, Abort, vars
<1>3. SerialInv /\ AwaitedIntact /\ [Next]_vars => AwaitedIntact'
  BY <1>2
<1> QED
  BY <1>1, <1>3, SerialInvariant, PTL DEF Spec
------------------------------------------------------------------------------
(***************************************************************************)
(* What an auditor can rely on: what a walk that verify_chain finds intact *)
(* says of the rows, and that the awaited chains of the table are an       *)
(* append-only ledger (EventLedger).                                       *)
(***************************************************************************)
\* No two of the rows have the same seq.
OwnSeqs(rows) == \A r, q \in rows : r.seq = q.seq => r = q

\* Each hash was taken over the prev_hash stored with it, whatever the event was.
WellHashed == \A r \in events : \E e \in Events : r.hash = EventDigest(r.prev_hash, r.chain, e)

------------------------------------------------------------------------------
\* Facts about sets of rows.

LEMMA LeastNatural ==
  ASSUME NEW T, T \subseteq Nat, T # {}
  PROVE  \E n \in T : \A m \in T : n =< m
<1> DEFINE R == OpToRel(<, Nat)
<1>1. IsWellFoundedOn(R, Nat)
  BY NatLessThanWellFounded
<1>2. \A n, m \in Nat : m < n => <<m, n>> \in R
  BY DEF OpToRel
<1> HIDE DEF R
<1>3. PICK n \in T : \A m \in T : <<m, n>> \notin R
  BY <1>1, WFMin
<1>4. \A m \in T : ~(m < n)
  BY <1>2, <1>3
<1> QED
  BY <1>4

LEMMA LeastRow ==
  ASSUME NEW rows \in SUBSET Rows, rows # {}
  PROVE  \E r \in rows : \A q \in rows : r.seq =< q.seq
<1> DEFINE T == {r.seq : r \in rows}
<1>1. T \subseteq Nat /\ T # {}
  BY DEF Rows
<1>2. PICK n \in T : \A m \in T : n =< m
  BY <1>1, LeastNatural
<1> QED
  BY <1>2

\* Rows below a bound have a newest one, and LastHash is its hash.
LEMMA NewestRow ==
  ASSUME NEW rows \in SUBSET Rows, rows # {},
         NEW bound \in Nat, \A q \in rows : q.seq =< bound
  PROVE  \E m \in rows : (\A q \in rows : q.seq =< m.seq) /\ LastHash(rows) = m.hash
<1> DEFINE T == {n \in Nat : \A q \in rows : q.seq =< n}
<1>1. T \subseteq Nat /\ T # {}
  OBVIOUS
<1>2. PICK n \in T : \A m \in T : n =< m
  BY <1>1, LeastNatural
<1>3. \E m \in rows : m.seq = n
  <2> SUFFICES ASSUME \A m \in rows : m.seq # n PROVE FALSE
    OBVIOUS
  <2>1. \A q \in rows : q.seq \in Nat /\ q.seq < n
    BY <1>2 DEF Rows
  <2>2. n - 1 \in Nat /\ \A q \in rows : q.seq =< n - 1
    BY <1>2, <2>1
  <2>3. n - 1 \in T
    BY <2>2
  <2> QED
    BY <1>2, <2>3
<1>4. \E m \in rows : \A q \in rows : q.seq =< m.seq
  BY <1>2, <1>3
<1> QED
  BY <1>4 DEF LastHash

LEMMA NewestBefore ==
  ASSUME NEW rows \in SUBSET Rows, NEW r \in Rows, Before(rows, r) # {}
  PROVE  \E m \in Before(rows, r) :
           (\A q \in Before(rows, r) : q.seq =< m.seq) /\ LastHash(Before(rows, r)) = m.hash
<1>1. Before(rows, r) \in SUBSET Rows /\ r.seq \in Nat
  BY DEF Before, Rows
<1>2. \A q \in Before(rows, r) : q.seq =< r.seq
  BY <1>1 DEF Before, Rows
<1> QED
  BY <1>1, <1>2, NewestRow

LEMMA LastBeforeTyped ==
  ASSUME NEW rows \in SUBSET Rows, NEW r \in Rows
  PROVE  LastHash(Before(rows, r)) \in Hashes
<1>1. CASE Before(rows, r) = {}
  BY <1>1, ConstantsTyped DEF LastHash
<1>2. CASE Before(rows, r) # {}
  <2>1. PICK m \in Before(rows, r) : LastHash(Before(rows, r)) = m.hash
    BY <1>2, NewestBefore
  <2> QED
    BY <2>1 DEF Before, Rows
<1> QED
  BY <1>1, <1>2

LEMMA DigestLength ==
  ASSUME NEW p \in Hashes, NEW c \in Chains, NEW e \in Events
  PROVE  Len(p) \in Nat /\ Len(EventDigest(p, c, e)) = Len(p) + 1
BY DEF EventDigest, Hashes

LEMMA HashLength ==
  ASSUME NEW rows \in SUBSET Rows, WalkIntact(rows), NEW r \in rows
  PROVE  /\ Len(LastHash(Before(rows, r))) \in Nat
         /\ Len(r.hash) = Len(LastHash(Before(rows, r))) + 1
<1>1. LastHash(Before(rows, r)) \in Hashes /\ r.chain \in Chains /\ r.event \in Events
  BY LastBeforeTyped DEF Rows
<1>2. r.hash = EventDigest(LastHash(Before(rows, r)), r.chain, r.event)
  BY DEF WalkIntact
<1> QED
  BY <1>1, <1>2, DigestLength

\* In an intact walk a later row has hashed more: a hash never comes back.
LEMMA LaterHashedMore ==
  ASSUME NEW rows \in SUBSET Rows, WalkIntact(rows), OwnSeqs(rows)
  PROVE  \A q, r \in rows : q.seq < r.seq => Len(q.hash) < Len(r.hash)
<1> DEFINE Bad == {r \in rows : \E q \in rows : q.seq < r.seq /\ ~(Len(q.hash) < Len(r.hash))}
<1> SUFFICES ASSUME Bad # {} PROVE FALSE
  OBVIOUS
<1>1. PICK r \in Bad : \A s \in Bad : r.seq =< s.seq
  BY LeastRow
<1>2. PICK q \in rows : q.seq < r.seq /\ ~(Len(q.hash) < Len(r.hash))
  BY <1>1
<1>3. Before(rows, r) # {}
  BY <1>2 DEF Before
<1>4. PICK m \in Before(rows, r) :
        (\A s \in Before(rows, r) : s.seq =< m.seq) /\ LastHash(Before(rows, r)) = m.hash
  BY <1>1, <1>3, NewestBefore
<1>5. Len(m.hash) \in Nat /\ Len(r.hash) = Len(m.hash) + 1
  BY <1>1, <1>4, HashLength
<1>6. m \in rows /\ m.seq < r.seq /\ q.seq =< m.seq
  BY <1>2, <1>4 DEF Before
<1>7. m \notin Bad
  BY <1>1, <1>6 DEF Rows
<1>8. Len(q.hash) \in Nat
  BY DEF Rows, Hashes
<1>9. CASE q.seq = m.seq
  BY <1>2, <1>5, <1>6, <1>9 DEF OwnSeqs
<1>10. CASE q.seq < m.seq
  BY <1>2, <1>5, <1>6, <1>7, <1>8, <1>10
<1> QED
  BY <1>6, <1>9, <1>10 DEF Rows


\* A row of an intact walk is determined by its hash, its chain and the rows below it.
LEMMA HashOfRow ==
  ASSUME NEW rows \in SUBSET Rows, WalkIntact(rows), NEW r \in rows,
         NEW p \in Hashes, NEW c \in Chains, NEW e \in Events,
         r.hash = EventDigest(p, c, e)
  PROVE  LastHash(Before(rows, r)) = p /\ r.chain = c /\ r.event = e
<1>1. LastHash(Before(rows, r)) \in Hashes /\ r.chain \in Chains /\ r.event \in Events
  BY LastBeforeTyped DEF Rows
<1>2. EventDigest(LastHash(Before(rows, r)), r.chain, r.event) = EventDigest(p, c, e)
  BY DEF WalkIntact
<1> QED
  BY <1>1, <1>2, DigestInjective

------------------------------------------------------------------------------
\* Tampering with an intact walk.

\* A row that stands in for another with its seq and hash changes no last hash.
LEMMA StandInLinks ==
  ASSUME NEW rows \in SUBSET Rows, OwnSeqs(rows), NEW r \in rows,
         NEW w \in Rows, w.seq = r.seq, w.hash = r.hash, NEW q \in Rows
  PROVE  LastHash(Before(Replaced(rows, r, w), q)) = LastHash(Before(rows, q))
<1> DEFINE rows2 == Replaced(rows, r, w)
<1>1. rows2 \in SUBSET Rows /\ OwnSeqs(rows2) /\ w \in rows2
  BY DEF Replaced, OwnSeqs
<1>2. CASE ~(r.seq < q.seq)
  <2>1. Before(rows2, q) = Before(rows, q)
    BY <1>2 DEF Before, Replaced
  <2> QED
    BY <2>1
<1>3. CASE r.seq < q.seq
  <2>1. r \in Before(rows, q) /\ w \in Before(rows2, q)
    BY <1>1, <1>3 DEF Before
  <2>2. PICK m \in Before(rows, q) :
          (\A s \in Before(rows, q) : s.seq =< m.seq) /\ LastHash(Before(rows, q)) = m.hash
    BY <2>1, NewestBefore
  <2> HIDE DEF rows2
  <2>3. PICK n \in Before(rows2, q) :
          (\A s \in Before(rows2, q) : s.seq =< n.seq) /\ LastHash(Before(rows2, q)) = n.hash
    BY <1>1, <2>1, NewestBefore
  <2> USE DEF rows2
  <2>4. CASE m = r
    <3>1. n.seq =< w.seq
      BY <2>2, <2>3, <2>4 DEF Before, Replaced
    <3>2. n = w
      BY <1>1, <2>1, <2>3, <3>1 DEF Before, OwnSeqs, Rows
    <3> QED
      BY <2>2, <2>3, <2>4, <3>2
  <2>5. CASE m # r
    <3>1. m \in Before(rows2, q)
      BY <2>5 DEF Before, Replaced
    <3>2. n.seq =< m.seq
      BY <2>1, <2>2, <2>3 DEF Before, Replaced
    <3>3. n = m
      BY <1>1, <2>3, <3>1, <3>2 DEF Before, OwnSeqs, Rows
    <3> QED
      BY <2>2, <2>3, <3>3
  <2> QED
    BY <2>4, <2>5
<1> QED
  BY <1>2, <1>3 DEF Rows

\* A row written over with its hash left alone is seen just when its event changed.
LEMMA RewriteIsSeen ==
  ASSUME NEW rows \in SUBSET Rows, WalkIntact(rows), OwnSeqs(rows), NEW r \in rows,
         NEW w \in Rows, w.seq = r.seq, w.chain = r.chain, w.hash = r.hash
  PROVE  WalkIntact(Replaced(rows, r, w)) <=> w.event = r.event
<1> DEFINE rows2 == Replaced(rows, r, w)
<1>1. w \in rows2 /\ rows2 \in SUBSET Rows
  BY DEF Replaced
<1>2. /\ r.hash = EventDigest(LastHash(Before(rows, r)), r.chain, r.event)
      /\ LastHash(Before(rows, r)) \in Hashes /\ r.chain \in Chains /\ r.event \in Events
  BY LastBeforeTyped DEF WalkIntact, Rows
<1>3. ASSUME WalkIntact(rows2)
      PROVE  w.event = r.event
  <2> HIDE DEF rows2
  <2> QED
    BY <1>1, <1>2, <1>3, HashOfRow
<1>4. ASSUME w.event = r.event
      PROVE  WalkIntact(rows2)
  <2> SUFFICES ASSUME NEW q \in rows2
               PROVE  q.hash = EventDigest(LastHash(Before(rows2, q)), q.chain, q.event)
    BY DEF WalkIntact
  <2>1. LastHash(Before(rows2, q)) = LastHash(Before(rows, q))
    BY <1>1, StandInLinks
  <2>2. CASE q = w
    <3>1. Before(rows, w) = Before(rows, r)
      BY DEF Before
    <3> QED
      BY <1>2, <1>4, <2>1, <2>2, <3>1
  <2>3. CASE q \in rows
    BY <2>1, <2>3 DEF WalkIntact
  <2> QED
    BY <2>2, <2>3 DEF Replaced
<1> QED
  BY <1>3, <1>4

\* Without its newest row an intact walk is intact.
LEMMA NewestComesOff ==
  ASSUME NEW rows \in SUBSET Rows, WalkIntact(rows), OwnSeqs(rows), NEW r \in rows,
         Newest(rows, r)
  PROVE  /\ WalkIntact(rows \ {r})
         /\ Before(rows, r) = rows \ {r}
         /\ \A q \in rows \ {r} : q.seq < r.seq
<1>1. \A q \in rows \ {r} : q.seq < r.seq
  BY DEF Newest, OwnSeqs, Rows
<1>2. Before(rows, r) = rows \ {r}
  BY <1>1 DEF Before, Rows
<1>3. \A q \in rows \ {r} : Before(rows \ {r}, q) = Before(rows, q)
  BY <1>1 DEF Before, Rows
<1> QED
  BY <1>1, <1>2, <1>3 DEF WalkIntact

LEMMA TransplantIsSeen ==
  ASSUME NEW rows \in SUBSET Rows, WalkIntact(rows), NEW r \in rows,
         NEW others \in SUBSET Rows, NEW d \in Chains \ {r.chain}
  PROVE  ~WalkIntact(others \cup {[r EXCEPT !.chain = d]})
<1> DEFINE w     == [r EXCEPT !.chain = d]
           rows2 == others \cup {w}
<1> SUFFICES ASSUME WalkIntact(rows2) PROVE FALSE
  OBVIOUS
<1>1. w \in Rows /\ w \in rows2 /\ rows2 \in SUBSET Rows /\ w.chain = d /\ w.hash = r.hash
  BY DEF Rows
<1>2. /\ r.hash = EventDigest(LastHash(Before(rows, r)), r.chain, r.event)
      /\ LastHash(Before(rows, r)) \in Hashes /\ r.chain \in Chains /\ r.event \in Events
  BY LastBeforeTyped DEF WalkIntact, Rows
<1> HIDE DEF w, rows2
<1>3. w.chain = r.chain
  BY <1>1, <1>2, HashOfRow
<1> QED
  BY <1>1, <1>3

\* The next row above r was hashed over r.hash, which no row below r has.
LEMMA NextLinksTo ==
  ASSUME NEW rows \in SUBSET Rows, OwnSeqs(rows), NEW r \in rows,
         \E q \in rows : q.seq > r.seq
  PROVE  \E n \in rows : /\ n.seq > r.seq
                         /\ \A q \in Before(rows, n) : q.seq =< r.seq
                         /\ r \in Before(rows, n)
                         /\ LastHash(Before(rows, n)) = r.hash
<1> DEFINE above == {q \in rows : q.seq > r.seq}
<1>1. PICK n \in above : \A q \in above : n.seq =< q.seq
  BY LeastRow
<1>2. \A q \in Before(rows, n) : q.seq =< r.seq
  BY <1>1 DEF Before, Rows
<1>3. r \in Before(rows, n)
  BY <1>1 DEF Before, Rows
<1>4. PICK m \in Before(rows, n) :
        (\A q \in Before(rows, n) : q.seq =< m.seq) /\ LastHash(Before(rows, n)) = m.hash
  BY <1>1, <1>3, NewestBefore
<1>5. m = r
  BY <1>2, <1>3, <1>4 DEF Before, OwnSeqs, Rows
<1> QED
  BY <1>1, <1>2, <1>3, <1>4, <1>5

LEMMA RemovalIsSeen ==
  ASSUME NEW rows \in SUBSET Rows, WalkIntact(rows), OwnSeqs(rows), NEW r \in rows,
         \E q \in rows : q.seq > r.seq
  PROVE  ~WalkIntact(rows \ {r})
<1> DEFINE rows2 == rows \ {r}
<1> SUFFICES ASSUME WalkIntact(rows2) PROVE FALSE
  OBVIOUS
<1>1. PICK n \in rows : /\ n.seq > r.seq
                        /\ \A q \in Before(rows, n) : q.seq =< r.seq
                        /\ LastHash(Before(rows, n)) = r.hash
  BY NextLinksTo
<1>2. n \in rows2 /\ rows2 \in SUBSET Rows
  BY <1>1 DEF Rows
<1>3. /\ n.hash = EventDigest(r.hash, n.chain, n.event)
      /\ r.hash \in Hashes /\ n.chain \in Chains /\ n.event \in Events
  BY <1>1 DEF WalkIntact, Rows
<1>4. LastHash(Before(rows2, n)) = r.hash
  BY <1>2, <1>3, HashOfRow
<1>5. Len(LastHash(Before(rows, r))) \in Nat /\ Len(r.hash) = Len(LastHash(Before(rows, r))) + 1
  BY HashLength
<1>6. CASE Before(rows2, n) = {}
  BY <1>4, <1>5, <1>6 DEF LastHash, GENESIS
<1>7. CASE Before(rows2, n) # {}
  <2>1. PICK m \in Before(rows2, n) : LastHash(Before(rows2, n)) = m.hash
    BY <1>2, <1>7, NewestBefore
  <2>2. m \in rows /\ m # r /\ m.seq =< r.seq
    BY <1>1, <2>1 DEF Before
  <2>3. m.seq < r.seq
    BY <2>2 DEF OwnSeqs, Rows
  <2>4. Len(m.hash) < Len(r.hash)
    BY <2>2, <2>3, LaterHashedMore
  <2> QED
    BY <1>4, <1>5, <2>1, <2>4
<1> QED
  BY <1>6, <1>7

\* A row written over with its hash recomputed is seen just when a newer one follows.
LEMMA RehashIsSeen ==
  ASSUME NEW rows \in SUBSET Rows, WalkIntact(rows), OwnSeqs(rows), NEW r \in rows,
         NEW e \in Events \ {r.event}
  PROVE  WalkIntact(Replaced(rows, r, Rehashed(rows, r, e))) <=> Newest(rows, r)
<1> DEFINE w     == Rehashed(rows, r, e)
           rows2 == Replaced(rows, r, w)
           p     == LastHash(Before(rows, r))
<1>1. p \in Hashes /\ r.chain \in Chains /\ r.event \in Events /\ e \in Events
  BY LastBeforeTyped DEF Rows
<1>2. EventDigest(p, r.chain, e) \in Hashes
  BY <1>1, DigestTyped
<1>3. /\ w \in Rows /\ w.seq = r.seq /\ w.chain = r.chain /\ w.event = e
      /\ w.hash = EventDigest(p, r.chain, e)
  BY <1>2 DEF Rehashed, Rows
<1> HIDE DEF w, p
<1>4. rows2 \in SUBSET Rows /\ OwnSeqs(rows2) /\ w \in rows2
  BY <1>3 DEF Replaced, OwnSeqs
<1>5. ASSUME Newest(rows, r)
      PROVE  WalkIntact(rows2)
  <2>1. /\ WalkIntact(rows \ {r}) /\ Before(rows, r) = rows \ {r}
        /\ \A q \in rows \ {r} : q.seq < r.seq
    BY <1>5, NewestComesOff
  <2>2. w.hash = EventDigest(LastHash(rows \ {r}), w.chain, w.event)
    BY <1>3, <2>1 DEF p
  <2>3. WalkIntact((rows \ {r}) \cup {w})
    BY <1>3, <2>1, <2>2, WalkExtends
  <2> QED
    BY <2>3 DEF Replaced
<1>6. ASSUME WalkIntact(rows2), ~Newest(rows, r)
      PROVE  FALSE
  <2>1. PICK q \in rows : q.seq > r.seq
    BY <1>6 DEF Newest, Rows
  <2>2. q \in rows2 /\ q.seq > w.seq
    BY <1>3, <2>1 DEF Replaced, Rows
  <2> HIDE DEF rows2
  <2>3. PICK n \in rows2 : /\ n.seq > w.seq
                           /\ \A s \in Before(rows2, n) : s.seq =< w.seq
                           /\ LastHash(Before(rows2, n)) = w.hash
    BY <1>4, <2>2, NextLinksTo
  <2> USE DEF rows2
  <2>4. n \in rows /\ n \in Rows
    BY <1>3, <1>4, <2>3 DEF Replaced, Rows
  <2>5. n.hash = EventDigest(w.hash, n.chain, n.event)
    BY <1>6, <2>3 DEF WalkIntact
  <2>6. LastHash(Before(rows, n)) = w.hash
    BY <1>3, <2>4, <2>5, HashOfRow DEF Rows
  <2>7. r \in Before(rows, n) /\ \A s \in Before(rows, n) : s.seq =< r.seq
    BY <1>3, <2>3 DEF Before, Replaced, Rows
  <2>8. PICK m \in Before(rows, n) :
          (\A s \in Before(rows, n) : s.seq =< m.seq) /\ LastHash(Before(rows, n)) = m.hash
    BY <2>4, <2>7, NewestBefore
  <2>9. m = r
    BY <2>7, <2>8 DEF Before, OwnSeqs, Rows
  <2>10. r.hash = EventDigest(p, r.chain, e)
    BY <1>3, <2>6, <2>8, <2>9
  <2>11. e = r.event
    BY <1>1, <2>10, HashOfRow
  <2> QED
    BY <2>11
<1> QED
  BY <1>5, <1>6 DEF w

LEMMA SwapIsSeen ==
  ASSUME NEW rows \in SUBSET Rows, WalkIntact(rows), OwnSeqs(rows),
         NEW r \in rows, NEW q \in rows \ {r}
  PROVE  ~WalkIntact((rows \ {q, r}) \cup {[q EXCEPT !.seq = r.seq], [r EXCEPT !.seq = q.seq]})
<1> DEFINE u     == [q EXCEPT !.seq = r.seq]
           v     == [r EXCEPT !.seq = q.seq]
           rows2 == (rows \ {q, r}) \cup {u, v}
<1> SUFFICES ASSUME WalkIntact(rows2) PROVE FALSE
  OBVIOUS
<1>1. u.seq = r.seq /\ u.hash = q.hash /\ v.seq = q.seq /\ v.hash = r.hash /\ u \in Rows /\ v \in Rows
  BY DEF Rows
<1> HIDE DEF u, v
<1>2. rows2 \in SUBSET Rows /\ u \in rows2 /\ v \in rows2
  BY <1>1
<1>3. OwnSeqs(rows2)
  BY <1>1 DEF OwnSeqs
<1> HIDE DEF rows2
<1>4. q.seq # r.seq /\ q.seq \in Nat /\ r.seq \in Nat
  BY DEF OwnSeqs, Rows
<1>5. Len(q.hash) \in Nat /\ Len(r.hash) \in Nat
  BY DEF Rows, Hashes
<1>6. CASE q.seq < r.seq
  <2>1. Len(q.hash) < Len(r.hash)
    BY <1>6, LaterHashedMore
  <2>2. Len(v.hash) < Len(u.hash)
    BY <1>1, <1>2, <1>3, <1>6, LaterHashedMore
  <2> QED
    BY <1>1, <1>5, <2>1, <2>2
<1>7. CASE r.seq < q.seq
  <2>1. Len(r.hash) < Len(q.hash)
    BY <1>7, LaterHashedMore
  <2>2. Len(u.hash) < Len(v.hash)
    BY <1>1, <1>2, <1>3, <1>7, LaterHashedMore
  <2> QED
    BY <1>1, <1>5, <2>1, <2>2
<1> QED
  BY <1>4, <1>6, <1>7

\* The rows of a chain, of which nothing was said but their types and seqs.
LEMMA ChainTyped ==
  ASSUME TypeOK, NEW c \in Chains
  PROVE  /\ ChainRows(c) \in SUBSET Rows
         /\ OwnSeqs(ChainRows(c))
         /\ \A r \in ChainRows(c) : r.chain = c
BY DEF TypeOK, ChainRows, OwnSeqs

\* Whatever the interleaving of appends: of a chain that verifies, verify_chain
\* sees a row written over just when its event is another, and a row taken out or
\* rehashed just when a newer row follows; it sees every row brought in from
\* another tenant or session and every two rows that trade places.
THEOREM TamperingIsSeen == Spec => []TamperEvident
<1>1. TypeOK => TamperEvident
  <2> SUFFICES ASSUME TypeOK, NEW c \in Chains, VerifyChain(c), NEW r \in ChainRows(c)
               PROVE
      /\ \A e \in Events, u \in Usages, p \in {GENESIS} \cup {q.hash : q \in events} :
           WalkIntact(Replaced(ChainRows(c), r, Rewritten(r, e, u, p))) <=> e = r.event
      /\ \A e \in Events \ {r.event} :
           WalkIntact(Replaced(ChainRows(c), r, Rehashed(ChainRows(c), r, e)))
             <=> Newest(ChainRows(c), r)
      /\ WalkIntact(ChainRows(c) \ {r}) <=> Newest(ChainRows(c), r)
      /\ \A d \in Chains \ {c} : ~WalkIntact(ChainRows(d) \cup {[r EXCEPT !.chain = d]})
      /\ \A q \in ChainRows(c) \ {r} :
           ~WalkIntact((ChainRows(c) \ {q, r})
                        \cup {[q EXCEPT !.seq = r.seq], [r EXCEPT !.seq = q.seq]})
    BY DEF TamperEvident
  <2> DEFINE rows == ChainRows(c)
  <2>1. rows \in SUBSET Rows /\ OwnSeqs(rows) /\ WalkIntact(rows) /\ r \in rows /\ r.chain = c
    BY ChainTyped DEF VerifyChain
  <2>2. \A d \in Chains \ {c} : ChainRows(d) \in SUBSET Rows
    BY ChainTyped
  <2>3. \A q \in events : q.hash \in Hashes
    BY DEF TypeOK, Rows
  <2> HIDE DEF rows
  <2>4. ASSUME NEW e \in Events, NEW u \in Usages,
               NEW p \in {GENESIS} \cup {q.hash : q \in events}
        PROVE  WalkIntact(Replaced(rows, r, Rewritten(r, e, u, p))) <=> e = r.event
    <3> DEFINE w == Rewritten(r, e, u, p)
    <3>1. p \in Hashes
      BY <2>3, ConstantsTyped
    <3>2. w \in Rows /\ w.seq = r.seq /\ w.chain = r.chain /\ w.hash = r.hash /\ w.event = e
      BY <2>1, <3>1 DEF Rewritten, Rows
    <3> HIDE DEF w
    <3>3. WalkIntact(Replaced(rows, r, w)) <=> e = r.event
      BY <2>1, <3>2, RewriteIsSeen
    <3> QED
      BY <3>3 DEF w
  <2>5. \A e \in Events \ {r.event} :
          WalkIntact(Replaced(rows, r, Rehashed(rows, r, e))) <=> Newest(rows, r)
    BY <2>1, RehashIsSeen
  <2>6. WalkIntact(rows \ {r}) <=> Newest(rows, r)
    <3>1. Newest(rows, r) => WalkIntact(rows \ {r})
      BY <2>1, NewestComesOff
    <3>2. ~Newest(rows, r) => \E q \in rows : q.seq > r.seq
      BY <2>1 DEF Newest, Rows
    <3>3. ~Newest(rows, r) => ~WalkIntact(rows \ {r})
      BY <2>1, <3>2, RemovalIsSeen
    <3> QED
      BY <3>1, <3>3
  <2>7. \A d \in Chains \ {c} : ~WalkIntact(ChainRows(d) \cup {[r EXCEPT !.chain = d]})
    BY <2>1, <2>2, TransplantIsSeen
  <2>8. \A q \in rows \ {r} :
          ~WalkIntact((rows \ {q, r}) \cup {[q EXCEPT !.seq = r.seq], [r EXCEPT !.seq = q.seq]})
    BY <2>1, SwapIsSeen
  <2> QED
    BY <2>4, <2>5, <2>6, <2>7, <2>8 DEF rows
<1> QED
  BY <1>1, TypeCorrect, PTL

------------------------------------------------------------------------------
\* What the code hashes.

LEMMA WellHashedStep ==
  ASSUME IInv, WellHashed, [Next]_vars
  PROVE  WellHashed'
<1>1. CASE UNCHANGED events
  BY <1>1 DEF WellHashed
<1>2. ASSUME NEW h \in Handlers, Commit(h)
      PROVE  WellHashed'
  <2>1. PICK c \in Chains, row \in Rows : CommitOf(h, c, row)
    BY <1>2, CommitEffect DEF IInv
  <2>2. request[h].event \in Events /\ row.hash = EventDigest(row.prev_hash, row.chain, request[h].event)
    BY <1>2, <2>1 DEF CommitOf, Commit, IInv, TypeInv, TypeOK, RowAsAsked
  <2> QED
    BY <2>1, <2>2 DEF CommitOf, WellHashed
<1> QED
  BY <1>1, <1>2 DEF Next, Step, Receive, SelectLast, Insert, Abort, vars

LEMMA EverWellHashed == Spec => []WellHashed
<1>1. Init => WellHashed
  BY DEF Init, WellHashed
<1>2. IInv /\ WellHashed /\ [Next]_vars => WellHashed'
  BY WellHashedStep
<1> QED
  BY <1>1, <1>2, Invariant, PTL DEF Spec

\* In an intact walk every row hangs from the one before it and reads back as hashed.
LEMMA IntactReadsBack ==
  ASSUME TypeOK, WellHashed, NEW c \in Chains, VerifyChain(c), NEW r \in ChainRows(c)
  PROVE  r.prev_hash = LastHash(Before(ChainRows(c), r)) /\ ReadsBack(r)
<1>1. ChainRows(c) \in SUBSET Rows /\ WalkIntact(ChainRows(c)) /\ r \in Rows
  BY ChainTyped DEF VerifyChain
<1>2. PICK e \in Events : r.hash = EventDigest(r.prev_hash, r.chain, e)
  BY DEF WellHashed, ChainRows
<1>3. LastHash(Before(ChainRows(c), r)) = r.prev_hash /\ r.event = e
  BY <1>1, <1>2, HashOfRow DEF Rows
<1> QED
  BY <1>2, <1>3 DEF ReadsBack

\* verify_chain never says True of a chain in which two appends raced for the
\* same parent, or of one with a row that does not read back as it was hashed.
THEOREM RacesAreSeen == Spec => []RaceIsVisible
<1>1. TypeOK /\ WellHashed => RaceIsVisible
  <2> SUFFICES ASSUME TypeOK, WellHashed, NEW c \in Chains, VerifyChain(c)
               PROVE  ~Forked(c) /\ \A r \in ChainRows(c) : ReadsBack(r)
    BY DEF RaceIsVisible
  <2> DEFINE rows == ChainRows(c)
  <2>1. \A r \in rows : r.prev_hash = LastHash(Before(rows, r)) /\ ReadsBack(r)
    BY IntactReadsBack
  <2>2. rows \in SUBSET Rows /\ OwnSeqs(rows) /\ WalkIntact(rows)
    BY ChainTyped DEF VerifyChain
  <2> HIDE DEF rows
  <2>3. ASSUME NEW q \in rows, NEW r \in rows, q.seq < r.seq
        PROVE  q.prev_hash # r.prev_hash
    <3>1. q \in Before(rows, r)
      BY <2>3 DEF Before
    <3>2. PICK m \in Before(rows, r) :
            (\A s \in Before(rows, r) : s.seq =< m.seq) /\ LastHash(Before(rows, r)) = m.hash
      BY <2>2, <3>1, NewestBefore
    <3>3. m \in rows /\ (m = q \/ q.seq < m.seq)
      BY <2>2, <3>1, <3>2 DEF Before, OwnSeqs, Rows
    <3>4. Len(q.hash) = Len(m.hash) \/ Len(q.hash) < Len(m.hash)
      BY <2>2, <3>3, LaterHashedMore
    <3>5. Len(q.prev_hash) \in Nat /\ Len(q.hash) = Len(q.prev_hash) + 1
      BY <2>1, <2>2, HashLength
    <3>6. Len(m.hash) \in Nat /\ r.prev_hash = m.hash
      BY <2>1, <2>2, <3>2, <3>3 DEF Rows, Hashes
    <3> QED
      BY <3>4, <3>5, <3>6
  <2>4. \A q, r \in rows : q # r => q.seq < r.seq \/ r.seq < q.seq
    BY <2>2 DEF OwnSeqs, Rows
  <2>5. ~Forked(c)
    BY <2>3, <2>4 DEF Forked, rows
  <2> QED
    BY <2>1, <2>5 DEF rows
<1> QED
  BY <1>1, TypeCorrect, EverWellHashed, PTL

\* A row whose parent is a row of the chain, or none, mends no broken walk.
LEMMA CommitMendsNothing ==
  ASSUME NEW rows \in SUBSET Rows, NEW row \in Rows, \A q \in rows : q.seq # row.seq,
         OwnSeqs(rows), WalkIntact(rows \cup {row}),
         \A r \in rows : \/ r.prev_hash = GENESIS
                         \/ \E q \in rows : q.seq < r.seq /\ q.hash = r.prev_hash,
         \A r \in rows : \E e \in Events : r.hash = EventDigest(r.prev_hash, r.chain, e)
  PROVE  WalkIntact(rows)
<1> DEFINE rows2 == rows \cup {row}
<1>1. rows2 \in SUBSET Rows /\ OwnSeqs(rows2) /\ WalkIntact(rows2) /\ row \in rows2 /\ rows \subseteq rows2
  BY DEF OwnSeqs
<1>2. ASSUME NEW r \in rows, row.seq < r.seq
      PROVE  FALSE
  <2> HIDE DEF rows2
  <2>1. PICK n \in rows2 : n.seq > row.seq /\ LastHash(Before(rows2, n)) = row.hash
    BY <1>1, <1>2, NextLinksTo DEF Rows
  <2>2. n \in rows /\ n \in Rows
    BY <2>1 DEF Rows, rows2
  <2>3. PICK e \in Events : n.hash = EventDigest(n.prev_hash, n.chain, e)
    BY <2>2
  <2>4. n.prev_hash = row.hash
    BY <1>1, <2>1, <2>2, <2>3, HashOfRow DEF Rows
  <2>5. Len(LastHash(Before(rows2, row))) \in Nat
        /\ Len(row.hash) = Len(LastHash(Before(rows2, row))) + 1
    BY <1>1, HashLength
  <2>6. CASE n.prev_hash = GENESIS
    BY <2>4, <2>5, <2>6 DEF GENESIS
  <2>7. CASE \E q \in rows : q.seq < n.seq /\ q.hash = n.prev_hash
    <3>1. PICK q \in rows : q.hash = row.hash /\ q.seq # row.seq
      BY <2>4, <2>7
    <3>2. q \in rows2 /\ (q.seq < row.seq \/ row.seq < q.seq)
      BY <1>1, <3>1 DEF Rows
    <3>3. Len(q.hash) < Len(row.hash) \/ Len(row.hash) < Len(q.hash)
      BY <1>1, <3>2, LaterHashedMore
    <3> QED
      BY <2>5, <3>1, <3>3
  <2> QED
    BY <2>2, <2>6, <2>7
<1>3. \A r \in rows : Before(rows2, r) = Before(rows, r)
  <2>1. \A r \in rows : ~(row.seq < r.seq)
    BY <1>2
  <2> QED
    BY <2>1 DEF Before
<1> QED
  BY <1>1, <1>3 DEF WalkIntact

\* What a step may not do to verify_chain's verdicts.
NothingMended == \A c \in Chains : VerifyChain(c)' => VerifyChain(c)

LEMMA StepMendsNothing == IInv /\ WellHashed /\ [Next]_vars => NothingMended
<1> SUFFICES ASSUME IInv, WellHashed, [Next]_vars PROVE NothingMended
  OBVIOUS
<1>1. CASE UNCHANGED events
  BY <1>1, TableUnchanged DEF NothingMended, VerifyChain
<1>2. ASSUME NEW h \in Handlers, Commit(h)
      PROVE  NothingMended
  <2>1. PICK c \in Chains, row \in Rows : CommitOf(h, c, row)
    BY <1>2, CommitEffect DEF IInv
  <2> SUFFICES ASSUME NEW d \in Chains, VerifyChain(d)' PROVE VerifyChain(d)
    BY DEF NothingMended
  <2>2. CASE d # c
    BY <2>1, <2>2 DEF CommitOf, VerifyChain
  <2>3. CASE d = c
    <3> DEFINE rows == ChainRows(c)
    <3>1. rows \in SUBSET Rows /\ OwnSeqs(rows)
      BY ChainTyped DEF IInv, TypeInv
    <3>2. WalkIntact(rows \cup {row}) /\ \A q \in rows : q.seq # row.seq
      BY <2>1, <2>3 DEF CommitOf, VerifyChain, ChainRows
    <3>3. \A r \in rows : \/ r.prev_hash = GENESIS
                          \/ \E q \in rows : q.seq < r.seq /\ q.hash = r.prev_hash
      BY DEF IInv, Linked, ChainRows
    <3>4. \A r \in rows : \E e \in Events : r.hash = EventDigest(r.prev_hash, r.chain, e)
      BY DEF WellHashed, ChainRows
    <3> HIDE DEF rows
    <3>5. WalkIntact(rows)
      BY <3>1, <3>2, <3>3, <3>4, CommitMendsNothing
    <3> QED
      BY <2>3, <3>5 DEF VerifyChain, rows
  <2> QED
    BY <2>2, <2>3
<1> QED
  BY <1>1, <1>2 DEF Next, Step, Receive, SelectLast, Insert, Abort, vars

\* Whatever is appended afterwards, by whom and in whatever order it commits, a
\* chain that verify_chain called broken is called broken for good.
THEOREM BrokenStaysBroken == Spec => BrokenForGood
<1>1. IInv /\ WellHashed /\ [Next]_vars => [\A c \in Chains : VerifyChain(c)' => VerifyChain(c)]_vars
  BY StepMendsNothing DEF NothingMended
<1> QED
  BY <1>1, Invariant, EverWellHashed, PTL DEF Spec, BrokenForGood

------------------------------------------------------------------------------
\* The awaited chains of the table implement the append-only ledger.

\* The n-th of the rows in seq order.
NthRow(rows, n) == CHOOSE r \in rows : Cardinality(Before(rows, r)) = n - 1

Audited(rows) == [n \in 1 .. Cardinality(rows) |-> NthRow(rows, n).event]

LEMMA AuditedIs == \A c : AuditedEvents(c) = Audited(ChainRows(c))
BY DEF AuditedEvents, Audited, NthRow

\* A row on top of finitely many is the last one in seq order, and moves none of them.
LEMMA RowOnTop ==
  ASSUME NEW rows \in SUBSET Rows, IsFiniteSet(rows), NEW row \in Rows,
         \A q \in rows : q.seq < row.seq
  PROVE  /\ Cardinality(rows) \in Nat
         /\ Cardinality(rows \cup {row}) = Cardinality(rows) + 1
         /\ \A n \in 1 .. Cardinality(rows) : NthRow(rows \cup {row}, n) = NthRow(rows, n)
         /\ NthRow(rows \cup {row}, Cardinality(rows) + 1) = row
<1> DEFINE rows2 == rows \cup {row}
           N     == Cardinality(rows)
<1>1. row \notin rows
  BY DEF Rows
<1>2. N \in Nat /\ Cardinality(rows2) = N + 1
  BY <1>1, FS_AddElement, FS_CardinalityType
<1>3. Before(rows2, row) = rows
  BY DEF Before, Rows
<1>4. ASSUME NEW r \in rows
      PROVE  Before(rows2, r) = Before(rows, r)
  BY DEF Before, Rows
<1>5. ASSUME NEW r \in rows
      PROVE  Cardinality(Before(rows, r)) \in Nat /\ Cardinality(Before(rows, r)) < N
  <2>1. Before(rows, r) \in SUBSET rows /\ Before(rows, r) # rows
    BY DEF Before, Rows
  <2>2. IsFiniteSet(Before(rows, r)) /\ Cardinality(Before(rows, r)) =< N
        /\ Cardinality(Before(rows, r)) # N
    BY <2>1, FS_Subset
  <2>3. Cardinality(Before(rows, r)) \in Nat
    BY <2>2, FS_CardinalityType
  <2> DEFINE k == Cardinality(Before(rows, r))
  <2>4. k \in Nat /\ k =< N /\ k # N
    BY <2>2, <2>3
  <2> HIDE DEF k, N
  <2>5. k < N
    BY <1>2, <2>4
  <2> QED
    BY <2>4, <2>5 DEF k
<1> HIDE DEF N, rows2
<1>6. ASSUME NEW n \in 1 .. N
      PROVE  NthRow(rows2, n) = NthRow(rows, n)
  <2>1. \A r : (r \in rows2 /\ Cardinality(Before(rows2, r)) = n - 1)
                 <=> (r \in rows /\ Cardinality(Before(rows, r)) = n - 1)
    <3>1. Cardinality(Before(rows2, row)) # n - 1
      BY <1>2, <1>3, <1>6 DEF N
    <3> QED
      BY <1>4, <3>1 DEF rows2
  <2> QED
    BY <2>1, Zenon DEF NthRow
<1>7. NthRow(rows2, N + 1) = row
  <2>1. \A r : (r \in rows2 /\ Cardinality(Before(rows2, r)) = (N + 1) - 1) <=> r = row
    <3>1. (N + 1) - 1 = N /\ Cardinality(Before(rows2, row)) = N
      BY <1>2, <1>3 DEF N
    <3>2. \A r \in rows : Cardinality(Before(rows2, r)) # N
      BY <1>2, <1>4, <1>5
    <3> QED
      BY <3>1, <3>2 DEF rows2
  <2> QED
    BY <2>1, Zenon DEF NthRow
<1> QED
  BY <1>2, <1>6, <1>7 DEF N, rows2

LEMMA AuditedGrows ==
  ASSUME NEW rows \in SUBSET Rows, IsFiniteSet(rows), NEW row \in Rows,
         \A q \in rows : q.seq < row.seq
  PROVE  Audited(rows \cup {row}) = Append(Audited(rows), row.event)
<1> DEFINE N  == Cardinality(rows)
           S  == {NthRow(rows, n).event : n \in 1 .. N} \cup {row.event}
           s  == Audited(rows)
           s2 == Audited(rows \cup {row})
           t  == Append(s, row.event)
<1>1. /\ N \in Nat /\ Cardinality(rows \cup {row}) = N + 1
      /\ \A n \in 1 .. N : NthRow(rows \cup {row}, n) = NthRow(rows, n)
      /\ NthRow(rows \cup {row}, N + 1) = row
  BY RowOnTop
<1>2. s = [n \in 1 .. N |-> NthRow(rows, n).event]
  BY DEF Audited
<1>3. s2 = [n \in 1 .. N + 1 |-> NthRow(rows \cup {row}, n).event]
  BY <1>1 DEF Audited
<1> HIDE DEF s, s2, N
<1>4. s \in Seq(S) /\ Len(s) = N
  BY <1>1, <1>2
<1>5. s2 \in Seq(S) /\ Len(s2) = N + 1
  <2>1. \A n \in 1 .. N : NthRow(rows \cup {row}, n).event \in S
    BY <1>1
  <2>2. NthRow(rows \cup {row}, N + 1).event \in S
    BY <1>1
  <2>3. \A n \in 1 .. N + 1 : n \in 1 .. N \/ n = N + 1
    BY <1>1
  <2> HIDE DEF S
  <2>4. \A n \in 1 .. N + 1 : NthRow(rows \cup {row}, n).event \in S
    BY <2>1, <2>2, <2>3
  <2>5. N + 1 \in Nat
    BY <1>1
  <2>6. DOMAIN s2 = 1 .. N + 1 /\ s2 = [n \in 1 .. N + 1 |-> s2[n]] /\ \A n \in 1 .. N + 1 : s2[n] \in S
    BY <1>3, <2>4
  <2> QED
    BY <2>5, <2>6
<1>6. t \in Seq(S) /\ Len(t) = N + 1
      /\ t[N + 1] = row.event /\ \A i \in 1 .. N : t[i] = s[i]
  BY <1>1, <1>4, AppendProperties
<1> HIDE DEF t, S
<1>7. \A i \in 1 .. N + 1 : s2[i] = t[i]
  <2>1. ASSUME NEW i \in 1 .. N
        PROVE  s2[i] = t[i]
    <3>1. i \in 1 .. N + 1
      BY <1>1
    <3>2. s2[i] = NthRow(rows, i).event
      BY <1>1, <1>3, <3>1
    <3>3. t[i] = NthRow(rows, i).event
      BY <1>2, <1>6
    <3> QED
      BY <3>2, <3>3
  <2>2. s2[N + 1] = t[N + 1]
    BY <1>1, <1>3, <1>6
  <2>3. \A n \in 1 .. N + 1 : n \in 1 .. N \/ n = N + 1
    BY <1>1
  <2> QED
    BY <2>1, <2>2, <2>3
<1>8. s2 = t
  BY <1>5, <1>6, <1>7, SeqEqual
<1> QED
  BY <1>8 DEF s, s2, t

LEMMA FiniteStep ==
  ASSUME IInv, IsFiniteSet(events), [Next]_vars
  PROVE  IsFiniteSet(events)'
<1>1. UNCHANGED events \/ \E row : events' = events \cup {row}
  BY DEF Next, Step, Receive, SelectLast, Insert, Commit, Abort, vars
<1> QED
  BY <1>1, FS_AddElement

\* A commit records one event at the end of one chain; no other step records.
LEMMA SerialStepRecords ==
  ASSUME SerialInv, IsFiniteSet(events), [Next]_vars
  PROVE  [Ledger!Next]_[c \in Awaited |-> AuditedEvents(c)]
<1> DEFINE ledger == [c \in Awaited |-> AuditedEvents(c)]
<1>1. CASE UNCHANGED events
  <2>1. \A c : AuditedEvents(c)' = AuditedEvents(c)
    BY <1>1 DEF AuditedEvents, ChainRows
  <2> QED
    BY <2>1
<1>2. ASSUME NEW h \in Handlers, Commit(h), request[h].chain \notin Awaited
      PROVE  ledger' = ledger
  <2>1. PICK c \in Chains, row \in Rows : CommitOf(h, c, row)
    BY <1>2, CommitEffect DEF SerialInv, IInv
  <2>2. ASSUME NEW d \in Awaited
        PROVE  AuditedEvents(d)' = AuditedEvents(d)
    <3>1. d \in Chains \ {c}
      BY <1>2, <2>1, ChainsAssumption DEF CommitOf
    <3>2. ChainRows(d)' = ChainRows(d)
      BY <2>1, <3>1 DEF CommitOf
    <3> QED
      BY <3>2 DEF AuditedEvents
  <2> QED
    BY <2>2
<1>3. ASSUME NEW h \in Handlers, Commit(h), request[h].chain \in Awaited
      PROVE  Ledger!Next
  <2>1. PICK c \in Chains, row \in Rows :
          CommitOf(h, c, row) /\ \A q \in ChainRows(c) : q.seq < row.seq
    BY <1>3, SerialCommitOnTop
  <2> c \in Awaited
    BY <1>3, <2>1 DEF CommitOf
  <2>2. ChainRows(c) \in SUBSET Rows /\ IsFiniteSet(ChainRows(c))
    <3>1. ChainRows(c) \in SUBSET events /\ events \subseteq Rows
      BY DEF ChainRows, SerialInv, IInv, TypeInv, TypeOK
    <3> QED
      BY <3>1, FS_Subset
  <2>3. Audited(ChainRows(c) \cup {row}) = Append(Audited(ChainRows(c)), row.event)
    BY <2>1, <2>2, AuditedGrows
  <2>4. AuditedEvents(c)' = Append(AuditedEvents(c), row.event)
    <3>1. ChainRows(c)' = ChainRows(c) \cup {row}
      BY <2>1 DEF CommitOf
    <3>2. AuditedEvents(c)' = Audited(ChainRows(c)')
      BY DEF AuditedEvents, Audited, NthRow
    <3> QED
      BY <2>3, <3>1, <3>2, AuditedIs
  <2>5. ASSUME NEW d \in Awaited \ {c}
        PROVE  AuditedEvents(d)' = AuditedEvents(d)
    <3>1. ChainRows(d)' = ChainRows(d)
      BY <2>1, ChainsAssumption DEF CommitOf
    <3> QED
      BY <3>1 DEF AuditedEvents
  <2>6. ledger' = [ledger EXCEPT ![c] = Append(@, row.event)]
    BY <2>4, <2>5
  <2>7. row.event \in Events
    BY DEF Rows
  <2> QED
    BY <2>6, <2>7 DEF Ledger!Next, Ledger!Record
<1> QED
  BY <1>1, <1>2, <1>3 DEF Next, Step, Receive, SelectLast, Insert, Abort, vars

\* The sessions whose agents await their recorders implement the append-only
\* ledger, whatever races on the others: what an auditor reads of a session only
\* grows, one event at a time at its end, and no other reading changes with it.
THEOREM AwaitedIsLedger == Spec => ImplementsLedger
<1>1. Init => Ledger!Init
  <2> SUFFICES ASSUME Init PROVE Ledger!Init
    OBVIOUS
  <2>1. \A c : ChainRows(c) = {}
    BY DEF Init, ChainRows
  <2>2. Cardinality({}) = 0
    BY FS_EmptySet
  <2>3. \A c : AuditedEvents(c) = Audited({})
    BY <2>1, AuditedIs
  <2>4. Audited({}) = << >>
    <3>1. 1 .. Cardinality({}) = {}
      BY <2>2
    <3> QED
      BY <3>1 DEF Audited
  <2> QED
    BY <2>3, <2>4 DEF Ledger!Init
<1>2. Init => IsFiniteSet(events)
  BY FS_EmptySet DEF Init
<1>3. SerialInv /\ IsFiniteSet(events) /\ [Next]_vars => IsFiniteSet(events)'
  BY FiniteStep DEF SerialInv
<1>4. SerialInv /\ IsFiniteSet(events) /\ [Next]_vars
        => [Ledger!Next]_[c \in Awaited |-> AuditedEvents(c)]
  BY SerialStepRecords
<1> QED
  BY <1>1, <1>2, <1>3, <1>4, SerialInvariant, PTL DEF Spec, ImplementsLedger, Ledger!Spec
===============================================================================
