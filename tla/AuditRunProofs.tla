---------------------------- MODULE AuditRunProofs ----------------------------
(***************************************************************************)
(* Proofs about audited_run, for any number of threads, sessions and rules *)
(* and any pool: the lock excludes for as long as its connection lives,    *)
(* the verdicts of a session then come from one run, and its webhook is    *)
(* called once, with what is stored.                                       *)
(***************************************************************************)
EXTENDS AuditRun, FiniteSetTheorems, TLAPS

Inside(a) == pc[a] \in Critical

\* Has found no verdict under the lock, and has not left audited_run.
PastCheck(a) == pc[a] \in {"events", "tribunal", "store", "hook", "post"}

\* A lock is held by the one audit that is inside with that key and has not
\* lost the connection it holds it with.
LockHeld ==
  /\ \A a \in Auditors : Inside(a) /\ a \notin cut => holder[Key(a)] = a
  /\ \A k \in LockKeys, a \in Auditors :
       holder[k] = a => Inside(a) /\ a \notin cut /\ Key(a) = k

\* Who lost its lock is still inside, and its session is known to be exposed.
CutInside == \A a \in cut : Inside(a) /\ session[a] \in exposed

PastCheckAlone ==
  \A a, b \in Auditors \ cut :
    PastCheck(a) /\ PastCheck(b) /\ session[a] = session[b] => a = b

\* What a thread past its check knows of its session's verdicts.
NoneBefore ==
  \A a \in Auditors : pc[a] \in {"events", "tribunal"} /\ session[a] \notin exposed
                      => Existing(session[a]) = {}

OnlyOwn ==
  \A a \in Auditors : pc[a] = "store" /\ session[a] \notin exposed =>
    \A v \in Existing(session[a]) : \E r \in found[a] : v = OwnVerdict(a, r)

SomethingToSay == \A a \in Auditors : pc[a] \in {"hook", "post"} => found[a] # {}

\* A session whose webhook was called has verdicts, and no audit with a lock
\* past its check.
PostedOrNot ==
  \A s \in Sessions :
    \/ posts[s] = 0
    \/ /\ posts[s] = 1
       /\ Existing(s) # {}
       /\ \A a \in Auditors \ cut : PastCheck(a) => session[a] # s

IInv ==
  /\ TypeOK /\ LockHeld /\ CutInside /\ PastCheckAlone /\ NoneBefore /\ OnlyOwn /\ SomethingToSay
  /\ PostedOrNot /\ NotifiesWhatIsStored /\ OneRunPerSession

------------------------------------------------------------------------------
\* The pool's account.

LEMMA ConnectedFinite ==
  ASSUME TypeOK
  PROVE  /\ IsFiniteSet(Connected) /\ Cardinality(Connected) \in Nat
         /\ Free \in Int
<1>1. IsFiniteSet(Connected)
  BY AuditorsAssumption, FS_Subset DEF Connected
<1>2. Cardinality(Connected) \in Nat
  BY <1>1, FS_CardinalityType
<1> QED
  BY <1>1, <1>2, PoolAssumption DEF Free, TypeOK

\* Connections that go back leave the pool within its bound.
LEMMA FewerConnected ==
  ASSUME TypeOK, Connected' \subseteq Connected, others' \in Nat, others' =< others
  PROVE  Cardinality(Connected)' + others' =< PoolSize
<1>1. /\ Cardinality(Connected)' \in Nat
      /\ Cardinality(Connected)' =< Cardinality(Connected)
  BY ConnectedFinite, FS_Subset, FS_CardinalityType
<1> QED
  BY <1>1, ConnectedFinite, PoolAssumption DEF TypeOK

LEMMA NoSessionTyped == NoSession \in Sessions
BY KeysAssumption DEF NoSession

LEMMA InitIInv == Init => IInv
<1> SUFFICES ASSUME Init PROVE IInv
  OBVIOUS
<1>1. Connected = {}
  BY DEF Init, Connected, Critical
<1>2. TypeOK
  BY <1>1, FS_EmptySet, NoSessionTyped, PoolAssumption DEF Init, TypeOK
<1>3. LockHeld /\ CutInside
  BY AuditorsAssumption DEF Init, LockHeld, CutInside, Inside, Critical
<1>4. PastCheckAlone /\ NoneBefore /\ OnlyOwn /\ SomethingToSay /\ NotifiesWhatIsStored
  BY DEF Init, PastCheckAlone, PastCheck, NoneBefore, OnlyOwn, SomethingToSay, NotifiesWhatIsStored
<1>5. PostedOrNot /\ OneRunPerSession
  BY DEF Init, PostedOrNot, OneRunPerSession
<1> QED
  BY <1>2, <1>3, <1>4, <1>5 DEF IInv

\* The ways out of audited_run that write nothing.
LEMMA LeaveIInv ==
  ASSUME IInv, NEW a \in Auditors, Leave(a),
         UNCHANGED <<verdicts, others, posts, crashes>>, losses' \in Nat
  PROVE  IInv'
<1> USE DEF IInv
<1>1. /\ pc'[a] = "idle" /\ cut' = cut \ {a} /\ exposed' = exposed
      /\ \A b \in Auditors \ {a} : /\ pc'[b] = pc[b] /\ session'[b] = session[b]
                                   /\ run'[b] = run[b] /\ found'[b] = found[b]
  BY DEF Leave, TypeOK
<1>2. TypeOK'
  <2>1. Connected' \subseteq Connected
    BY <1>1 DEF Connected, Critical
  <2>2. Cardinality(Connected)' + others' =< PoolSize
    BY <2>1, FewerConnected DEF TypeOK
  <2> QED
    BY <2>2, NoSessionTyped DEF Leave, Unlocked, TypeOK
<1>3. LockHeld' /\ CutInside'
  BY <1>1, AuditorsAssumption, KeysAssumption
  DEF LockHeld, CutInside, Inside, Critical, Leave, Unlocked, Key, TypeOK
<1>4. PastCheckAlone'
  BY <1>1 DEF PastCheckAlone, PastCheck
<1>5. NoneBefore' /\ OnlyOwn' /\ SomethingToSay' /\ NotifiesWhatIsStored'
  BY <1>1 DEF NoneBefore, OnlyOwn, SomethingToSay, NotifiesWhatIsStored, Existing, OwnVerdict
<1>6. PostedOrNot' /\ OneRunPerSession'
  BY <1>1 DEF PostedOrNot, PastCheck, OneRunPerSession, Existing
<1> QED
  BY <1>2, <1>3, <1>4, <1>5, <1>6

\* The invariant of a step of a that only moves on, keeping what it holds.
LEMMA CallIInv ==
  ASSUME IInv, NEW a \in Auditors, NEW s \in Sessions, Call(a, s)
  PROVE  IInv'
<1> USE DEF IInv
<1>1. TypeOK'
  <2>1. Connected' \subseteq Connected
    BY DEF Call, GoTo, Connected, Critical, TypeOK
  <2>2. Cardinality(Connected)' + others' =< PoolSize
    BY <2>1, FewerConnected DEF Call, TypeOK
  <2> QED
    BY <2>2 DEF Call, GoTo, TypeOK
<1>2. LockHeld' /\ CutInside'
  BY DEF Call, GoTo, LockHeld, CutInside, Inside, Critical, Key, TypeOK
<1>3. PastCheckAlone' /\ NoneBefore' /\ OnlyOwn' /\ SomethingToSay' /\ NotifiesWhatIsStored'
  BY DEF Call, GoTo, PastCheckAlone, PastCheck, NoneBefore, OnlyOwn, SomethingToSay,
         NotifiesWhatIsStored, Existing, OwnVerdict, TypeOK
<1>4. PostedOrNot' /\ OneRunPerSession'
  BY DEF Call, GoTo, PostedOrNot, PastCheck, OneRunPerSession, Existing, TypeOK
<1> QED
  BY <1>1, <1>2, <1>3, <1>4

LEMMA ConnectIInv ==
  ASSUME IInv, NEW a \in Auditors, Connect(a)
  PROVE  IInv'
<1> USE DEF IInv
<1>1. TypeOK'
  <2>1. Connected' = Connected \cup {a}
    BY DEF Connect, GoTo, Connected, Critical, TypeOK
  <2>2. Cardinality(Connected)' =< Cardinality(Connected) + 1
    BY <2>1, ConnectedFinite, FS_AddElement
  <2>3. Cardinality(Connected)' \in Nat
    BY <2>1, ConnectedFinite, FS_AddElement, FS_CardinalityType
  <2>4. Cardinality(Connected)' + others' =< PoolSize
    BY <2>2, <2>3, ConnectedFinite, PoolAssumption DEF Connect, Free, TypeOK
  <2> QED
    BY <2>4 DEF Connect, GoTo, TypeOK
<1>2. LockHeld' /\ CutInside'
  BY DEF Connect, GoTo, LockHeld, CutInside, Inside, Critical, Key, TypeOK
<1>3. PastCheckAlone' /\ NoneBefore' /\ OnlyOwn' /\ SomethingToSay' /\ NotifiesWhatIsStored'
  BY DEF Connect, GoTo, PastCheckAlone, PastCheck, NoneBefore, OnlyOwn, SomethingToSay,
         NotifiesWhatIsStored, Existing, OwnVerdict, TypeOK
<1>4. PostedOrNot' /\ OneRunPerSession'
  BY DEF Connect, GoTo, PostedOrNot, PastCheck, OneRunPerSession, Existing, TypeOK
<1> QED
  BY <1>1, <1>2, <1>3, <1>4

LEMMA LockIInv ==
  ASSUME IInv, NEW a \in Auditors, Lock(a)
  PROVE  IInv'
<1> USE DEF IInv
<1>1. TypeOK'
  <2>1. Connected' \subseteq Connected
    BY DEF Lock, GoTo, Connected, Critical, TypeOK
  <2>2. Cardinality(Connected)' + others' =< PoolSize
    BY <2>1, FewerConnected DEF Lock, TypeOK
  <2> QED
    BY <2>2 DEF Lock, GoTo, Critical, TypeOK
<1>2. LockHeld' /\ CutInside'
  BY AuditorsAssumption, KeysAssumption
  DEF Lock, GoTo, LockHeld, CutInside, Inside, Critical, Key, TypeOK
<1>3. PastCheckAlone' /\ NoneBefore' /\ OnlyOwn' /\ SomethingToSay' /\ NotifiesWhatIsStored'
  BY DEF Lock, GoTo, PastCheckAlone, PastCheck, NoneBefore, OnlyOwn, SomethingToSay,
         NotifiesWhatIsStored, Existing, OwnVerdict, TypeOK
<1>4. PostedOrNot' /\ OneRunPerSession'
  BY DEF Lock, GoTo, PostedOrNot, PastCheck, OneRunPerSession, Existing, TypeOK
<1> QED
  BY <1>1, <1>2, <1>3, <1>4

\* An audit inside its lock shares its session with no other that is inside.
LEMMA InsideAlone ==
  ASSUME LockHeld
  PROVE  OneInside
BY DEF LockHeld, OneInside, Inside, Key

\* Passing the check: nobody else is past it, inside the lock because the lock
\* excludes, and outside because the session would have verdicts.
LEMMA CheckIInv ==
  ASSUME IInv, NEW a \in Auditors, Check(a)
  PROVE  IInv'
<1> USE DEF IInv
<1>1. CASE Leave(a)
  BY <1>1, LeaveIInv DEF Check, TypeOK
<1>2. CASE ~Leave(a)
  <2>1. /\ pc[a] = "check" /\ Existing(session[a]) = {} /\ pc' = [pc EXCEPT ![a] = "events"]
        /\ UNCHANGED <<verdicts, holder, others, session, run, found, posts, crashes, calls, sawTribunal,
                     cut, exposed, losses>>
    BY <1>2 DEF Check, GoTo
  <2>2. TypeOK'
    <3>1. Connected' \subseteq Connected
      BY <2>1 DEF Connected, Critical, TypeOK
    <3>2. Cardinality(Connected)' + others' =< PoolSize
      BY <2>1, <3>1, FewerConnected DEF TypeOK
    <3> QED
      BY <2>1, <3>2 DEF Critical, TypeOK
  <2>3. LockHeld' /\ CutInside'
    BY <2>1 DEF LockHeld, CutInside, Inside, Critical, Key, TypeOK
  <2>4. a \notin cut =>
          \A b \in Auditors \ cut : session[b] = session[a] /\ PastCheck(b) => b = a
    <3> SUFFICES ASSUME a \notin cut, NEW b \in Auditors \ cut, b # a,
                        session[b] = session[a], PastCheck(b)
                 PROVE  FALSE
      OBVIOUS
    <3>1. CASE pc[b] \in Critical
      BY <2>1, <3>1, InsideAlone DEF OneInside, Critical
    <3>2. CASE pc[b] \in {"hook", "post"}
      BY <2>1, <3>2 DEF SomethingToSay, NotifiesWhatIsStored
    <3> QED
      BY <3>1, <3>2 DEF PastCheck, Critical
  <2>5. PastCheckAlone'
    BY <2>1, <2>4 DEF PastCheckAlone, PastCheck, TypeOK
  <2>6. NoneBefore' /\ OnlyOwn' /\ SomethingToSay' /\ NotifiesWhatIsStored'
    BY <2>1 DEF NoneBefore, OnlyOwn, SomethingToSay, NotifiesWhatIsStored, Existing, OwnVerdict, TypeOK
  <2>7. PostedOrNot' /\ OneRunPerSession'
    BY <2>1 DEF PostedOrNot, PastCheck, OneRunPerSession, Existing, TypeOK
  <2> QED
    BY <2>2, <2>3, <2>5, <2>6, <2>7
<1> QED
  BY <1>1, <1>2

LEMMA ReadEventsIInv ==
  ASSUME IInv, NEW a \in Auditors, ReadEvents(a)
  PROVE  IInv'
<1> USE DEF IInv
<1>1. TypeOK'
  <2>1. Connected' \subseteq Connected
    BY DEF ReadEvents, GoTo, Connected, Critical, TypeOK
  <2>2. Cardinality(Connected)' + others' =< PoolSize
    BY <2>1, FewerConnected DEF ReadEvents, TypeOK
  <2> QED
    BY <2>2 DEF ReadEvents, GoTo, Critical, TypeOK
<1>2. LockHeld' /\ CutInside'
  BY DEF ReadEvents, GoTo, LockHeld, CutInside, Inside, Critical, Key, TypeOK
<1>3. PastCheckAlone' /\ NoneBefore' /\ OnlyOwn' /\ SomethingToSay' /\ NotifiesWhatIsStored'
  BY DEF ReadEvents, GoTo, PastCheckAlone, PastCheck, NoneBefore, OnlyOwn, SomethingToSay,
         NotifiesWhatIsStored, Existing, OwnVerdict, TypeOK
<1>4. PostedOrNot' /\ OneRunPerSession'
  BY DEF ReadEvents, GoTo, PostedOrNot, PastCheck, OneRunPerSession, Existing, TypeOK
<1> QED
  BY <1>1, <1>2, <1>3, <1>4

LEMMA TribunalIInv ==
  ASSUME IInv, NEW a \in Auditors, Tribunal(a)
  PROVE  IInv'
<1> USE DEF IInv
<1>1. TypeOK'
  <2>1. Connected' \subseteq Connected
    BY DEF Tribunal, GoTo, Connected, Critical, TypeOK
  <2>2. Cardinality(Connected)' + others' =< PoolSize
    BY <2>1, FewerConnected DEF Tribunal, TypeOK
  <2> QED
    BY <2>2 DEF Tribunal, GoTo, Critical, TypeOK
<1>2. LockHeld' /\ CutInside'
  BY DEF Tribunal, GoTo, LockHeld, CutInside, Inside, Critical, Key, TypeOK
<1>3. PastCheckAlone' /\ NoneBefore' /\ OnlyOwn' /\ SomethingToSay' /\ NotifiesWhatIsStored'
  BY DEF Tribunal, GoTo, PastCheckAlone, PastCheck, NoneBefore, OnlyOwn, SomethingToSay,
         NotifiesWhatIsStored, Existing, OwnVerdict, TypeOK
<1>4. PostedOrNot' /\ OneRunPerSession'
  BY DEF Tribunal, GoTo, PostedOrNot, PastCheck, OneRunPerSession, Existing, TypeOK
<1> QED
  BY <1>1, <1>2, <1>3, <1>4

\* A verdict is added to those of its own run, in a session no one else is past the check of.
LEMMA StoreVerdictIInv ==
  ASSUME IInv, NEW a \in Auditors, StoreVerdict(a)
  PROVE  IInv'
<1> USE DEF IInv
<1>1. PICK r \in found[a] : verdicts' = verdicts \cup {OwnVerdict(a, r)}
  BY DEF StoreVerdict
<1>2. /\ pc[a] = "store" /\ PastCheck(a)
      /\ UNCHANGED <<holder, others, pc, session, run, found, posts, crashes, calls, sawTribunal,
                     cut, exposed, losses>>
  BY DEF StoreVerdict, PastCheck
<1>3. OwnVerdict(a, r) \in Verdicts /\ OwnVerdict(a, r).session = session[a]
  BY DEF OwnVerdict, Verdicts, TypeOK
<1>4. /\ Existing(session[a])' = Existing(session[a]) \cup {OwnVerdict(a, r)}
      /\ \A s \in Sessions \ {session[a]} : Existing(s)' = Existing(s)
  BY <1>1, <1>2, <1>3 DEF Existing
<1>5. TypeOK'
  <2>1. Connected' \subseteq Connected
    BY <1>2 DEF Connected
  <2>2. Cardinality(Connected)' + others' =< PoolSize
    BY <1>2, <2>1, FewerConnected DEF TypeOK
  <2> QED
    BY <1>1, <1>2, <1>3, <2>2 DEF TypeOK
<1>6. LockHeld' /\ CutInside' /\ PastCheckAlone' /\ SomethingToSay'
  BY <1>2 DEF LockHeld, CutInside, Inside, Key, PastCheckAlone, PastCheck, SomethingToSay
<1>7. session[a] \notin exposed =>
        \A b \in Auditors \ {a} : PastCheck(b) => session[b] # session[a]
  BY <1>2 DEF PastCheckAlone, CutInside
<1>8. NoneBefore'
  <2> SUFFICES ASSUME NEW b \in Auditors, pc[b] \in {"events", "tribunal"},
                      session[b] \notin exposed
               PROVE  Existing(session[b])' = {}
    BY <1>2 DEF NoneBefore, Existing
  <2>1. session[b] \in Sessions \ {session[a]}
    BY <1>2, <1>7 DEF PastCheck, TypeOK
  <2> QED
    BY <1>2, <1>4, <2>1 DEF NoneBefore, Existing
<1>9. OnlyOwn'
  <2> SUFFICES ASSUME NEW b \in Auditors, pc[b] = "store", session[b] \notin exposed
               PROVE  \A v \in Existing(session[b])' : \E q \in found[b] : v = OwnVerdict(b, q)
    BY <1>2 DEF OnlyOwn, OwnVerdict
  <2>1. \A v \in Existing(session[b]) : \E q \in found[b] : v = OwnVerdict(b, q)
    BY DEF OnlyOwn
  <2>2. CASE b = a
    <3>1. \A v \in Existing(session[a])' : \E q \in found[a] : v = OwnVerdict(a, q)
      BY <1>4, <2>1, <2>2
    <3> QED
      BY <1>2, <2>2, <3>1
  <2>3. CASE b # a
    <3>1. PICK s \in Sessions \ {session[a]} : s = session[b]
      BY <1>7, <2>3 DEF PastCheck, TypeOK
    <3>2. Existing(s)' = Existing(s)
      BY <1>4, <3>1
    <3> QED
      BY <1>2, <2>1, <3>1, <3>2 DEF Existing
  <2> QED
    BY <2>2, <2>3
<1>10. NotifiesWhatIsStored'
  <2> SUFFICES ASSUME NEW b \in Auditors, pc[b] \in {"hook", "post"}
               PROVE  LET payload == {OwnVerdict(b, q) : q \in found[b]} IN
                      /\ payload \subseteq Existing(session[b])'
                      /\ session[b] \in exposed \/ Existing(session[b])' = payload
    BY <1>2 DEF NotifiesWhatIsStored, OwnVerdict, Existing
  <2> DEFINE payload == {OwnVerdict(b, q) : q \in found[b]}
  <2>1. /\ payload \subseteq Existing(session[b])
        /\ session[b] \in exposed \/ Existing(session[b]) = payload
    BY DEF NotifiesWhatIsStored
  <2> HIDE DEF payload
  <2>2. Existing(session[b]) \subseteq Existing(session[b])'
    BY <1>1, <1>2 DEF Existing
  <2>3. CASE session[b] = session[a]
    <3>1. session[b] \in exposed
      BY <1>2, <1>7, <2>3 DEF PastCheck
    <3> QED
      BY <2>1, <2>2, <3>1 DEF payload
  <2>4. CASE session[b] # session[a]
    <3>1. Existing(session[b])' = Existing(session[b])
      BY <1>2, <1>4, <2>4 DEF TypeOK
    <3> QED
      BY <2>1, <3>1 DEF payload
  <2> QED
    BY <2>3, <2>4
<1>11. PostedOrNot'
  BY <1>2, <1>4 DEF PostedOrNot, PastCheck, TypeOK
<1>12. OneRunPerSession'
  <2>1. session[a] \notin exposed => \A v \in verdicts : v.session = session[a] => v.run = run[a]
    BY <1>2 DEF OnlyOwn, Existing, OwnVerdict
  <2> DEFINE w == OwnVerdict(a, r)
  <2>2. w.run = run[a] /\ w.session = session[a]
    BY DEF OwnVerdict
  <2> HIDE DEF w
  <2> QED
    BY <1>1, <1>2, <2>1, <2>2 DEF OneRunPerSession, w
<1> QED
  BY <1>5, <1>6, <1>8, <1>9, <1>10, <1>11, <1>12

\* The lock goes when the verdicts on record are those found.
LEMMA ReleaseIInv ==
  ASSUME IInv, NEW a \in Auditors, Release(a)
  PROVE  IInv'
<1> USE DEF IInv
<1>1. CASE Leave(a)
  BY <1>1, LeaveIInv DEF Release, TypeOK
<1>2. CASE ~Leave(a)
  <2>1. /\ pc[a] = "store" /\ found[a] # {} /\ a \notin cut /\ Stored(a) /\ pc' = [pc EXCEPT ![a] = "hook"]
        /\ holder' = Unlocked(a)
        /\ UNCHANGED <<verdicts, others, session, run, found, posts, crashes, calls, sawTribunal,
                     cut, exposed, losses>>
    BY <1>2 DEF Release, GoTo
  <2>2. TypeOK'
    <3>1. Connected' \subseteq Connected
      BY <2>1 DEF Connected, Critical, TypeOK
    <3>2. Cardinality(Connected)' + others' =< PoolSize
      BY <2>1, <3>1, FewerConnected DEF TypeOK
    <3> QED
      BY <2>1, <3>2 DEF Unlocked, TypeOK
  <2>3. LockHeld' /\ CutInside'
    BY <2>1, AuditorsAssumption, KeysAssumption
    DEF LockHeld, CutInside, Inside, Critical, Key, Unlocked, TypeOK
  <2>4. PastCheckAlone' /\ NoneBefore' /\ OnlyOwn' /\ SomethingToSay'
    BY <2>1 DEF PastCheckAlone, PastCheck, NoneBefore, OnlyOwn, SomethingToSay, Existing, OwnVerdict, TypeOK
  <2>5. /\ {OwnVerdict(a, r) : r \in found[a]} \subseteq Existing(session[a])
        /\ \/ session[a] \in exposed
           \/ Existing(session[a]) = {OwnVerdict(a, r) : r \in found[a]}
    <3>1. \A r \in found[a] : OwnVerdict(a, r) \in Existing(session[a])
      BY <2>1 DEF Stored, Existing, OwnVerdict
    <3>2. session[a] \notin exposed =>
            \A v \in Existing(session[a]) : \E r \in found[a] : v = OwnVerdict(a, r)
      BY <2>1 DEF OnlyOwn
    <3> QED
      BY <3>1, <3>2
  <2>6. NotifiesWhatIsStored'
    BY <2>1, <2>5 DEF NotifiesWhatIsStored, Existing, OwnVerdict, TypeOK
  <2>7. PostedOrNot' /\ OneRunPerSession'
    BY <2>1 DEF PostedOrNot, PastCheck, OneRunPerSession, Existing, TypeOK
  <2> QED
    BY <2>2, <2>3, <2>4, <2>6, <2>7
<1> QED
  BY <1>1, <1>2

LEMMA LookUpHookIInv ==
  ASSUME IInv, NEW a \in Auditors, LookUpHook(a)
  PROVE  IInv'
<1> USE DEF IInv
<1>1. CASE Leave(a)
  BY <1>1, LeaveIInv DEF LookUpHook, TypeOK
<1>2. CASE ~Leave(a)
  <2>1. /\ pc[a] = "hook" /\ pc' = [pc EXCEPT ![a] = "post"]
        /\ UNCHANGED <<verdicts, holder, others, session, run, found, posts, crashes, calls, sawTribunal,
                     cut, exposed, losses>>
    BY <1>2 DEF LookUpHook, GoTo
  <2>2. TypeOK'
    <3>1. Connected' \subseteq Connected
      BY <2>1 DEF Connected, Critical, TypeOK
    <3>2. Cardinality(Connected)' + others' =< PoolSize
      BY <2>1, <3>1, FewerConnected DEF TypeOK
    <3> QED
      BY <2>1, <3>2 DEF TypeOK
  <2>3. LockHeld' /\ CutInside'
    BY <2>1 DEF LockHeld, CutInside, Inside, Critical, Key, TypeOK
  <2>4. PastCheckAlone' /\ NoneBefore' /\ OnlyOwn' /\ SomethingToSay' /\ NotifiesWhatIsStored'
    BY <2>1 DEF PastCheckAlone, PastCheck, NoneBefore, OnlyOwn, SomethingToSay,
                NotifiesWhatIsStored, Existing, OwnVerdict, TypeOK
  <2>5. PostedOrNot' /\ OneRunPerSession'
    BY <2>1 DEF PostedOrNot, PastCheck, OneRunPerSession, Existing, TypeOK
  <2> QED
    BY <2>2, <2>3, <2>4, <2>5
<1> QED
  BY <1>1, <1>2

\* The one that posts was the one past the check, and leaves its verdicts behind.
LEMMA PostHookIInv ==
  ASSUME IInv, NEW a \in Auditors, PostHook(a)
  PROVE  IInv'
<1> USE DEF IInv
<1>1. /\ pc[a] = "post" /\ pc'[a] = "idle" /\ verdicts' = verdicts
      /\ a \notin cut /\ cut' = cut /\ exposed' = exposed /\ losses' = losses
      /\ \A b \in Auditors \ {a} : /\ pc'[b] = pc[b] /\ session'[b] = session[b]
                                   /\ run'[b] = run[b] /\ found'[b] = found[b]
  BY DEF PostHook, Leave, CutInside, Inside, Critical, TypeOK
<1>2. TypeOK'
  <2>1. Connected' \subseteq Connected
    BY <1>1 DEF Connected, Critical
  <2>2. Cardinality(Connected)' + others' =< PoolSize
    BY <2>1, FewerConnected DEF PostHook, TypeOK
  <2> QED
    BY <2>2, NoSessionTyped DEF PostHook, Leave, Unlocked, TypeOK
<1>3. LockHeld' /\ CutInside'
  BY <1>1, AuditorsAssumption, KeysAssumption
  DEF LockHeld, CutInside, Inside, Critical, PostHook, Leave, Unlocked, Key, TypeOK
<1>4. PastCheckAlone'
  BY <1>1 DEF PastCheckAlone, PastCheck
<1>5. NoneBefore' /\ OnlyOwn' /\ SomethingToSay' /\ NotifiesWhatIsStored'
  BY <1>1 DEF NoneBefore, OnlyOwn, SomethingToSay, NotifiesWhatIsStored, Existing, OwnVerdict
<1>6. PostedOrNot'
  <2>1. Existing(session[a]) # {}
    BY <1>1 DEF NotifiesWhatIsStored, SomethingToSay
  <2>2. posts[session[a]] = 0
    BY <1>1 DEF PostedOrNot, PastCheck, TypeOK
  <2>3. \A b \in Auditors \ cut : PastCheck(b) /\ b # a => session[b] # session[a]
    BY <1>1 DEF PastCheckAlone, PastCheck
  <2> QED
    BY <1>1, <2>1, <2>2, <2>3 DEF PostedOrNot, PastCheck, PostHook, Existing, TypeOK
<1>7. OneRunPerSession'
  BY <1>1 DEF OneRunPerSession
<1> QED
  BY <1>2, <1>3, <1>4, <1>5, <1>6, <1>7

\* Other requests and stuttering touch only the account of the pool.
LEMMA OthersIInv ==
  ASSUME IInv, Borrow \/ GiveBack \/ UNCHANGED vars
  PROVE  IInv'
<1> USE DEF IInv
<1>1. UNCHANGED <<verdicts, holder, pc, session, run, found, posts, crashes, calls, sawTribunal,
                     cut, exposed, losses>>
  BY DEF Borrow, GiveBack, vars
<1>2. Cardinality(Connected)' + others' =< PoolSize /\ others' \in Nat
  <2>1. Connected' = Connected
    BY <1>1 DEF Connected
  <2> QED
    BY <2>1, ConnectedFinite, PoolAssumption DEF Borrow, GiveBack, vars, Free, TypeOK
<1>3. TypeOK'
  BY <1>1, <1>2 DEF TypeOK
<1>4. LockHeld' /\ CutInside' /\ PastCheckAlone' /\ NoneBefore' /\ OnlyOwn' /\ SomethingToSay'
  BY <1>1 DEF LockHeld, CutInside, Inside, Key, PastCheckAlone, PastCheck, NoneBefore, OnlyOwn,
              SomethingToSay, Existing, OwnVerdict
<1>5. PostedOrNot' /\ NotifiesWhatIsStored' /\ OneRunPerSession'
  BY <1>1 DEF PostedOrNot, PastCheck, NotifiesWhatIsStored, OneRunPerSession, Existing, OwnVerdict
<1> QED
  BY <1>3, <1>4, <1>5

\* A lost connection frees the lock and exposes the session; no one moves.
LEMMA LockLostIInv ==
  ASSUME IInv, NEW a \in Auditors, LockLost(a)
  PROVE  IInv'
<1> USE DEF IInv
<1>1. /\ Inside(a) /\ cut' = cut \cup {a} /\ exposed' = exposed \cup {session[a]}
      /\ UNCHANGED <<verdicts, others, pc, session, run, found, posts, crashes, calls, sawTribunal>>
  BY DEF LockLost, Inside
<1>2. TypeOK'
  <2>1. Connected' = Connected
    BY <1>1 DEF Connected
  <2> QED
    BY <1>1, <2>1 DEF LockLost, Unlocked, TypeOK
<1>3. LockHeld' /\ CutInside'
  BY <1>1, AuditorsAssumption, KeysAssumption
  DEF LockLost, LockHeld, CutInside, Inside, Unlocked, Key, TypeOK
<1>4. PastCheckAlone' /\ NoneBefore' /\ OnlyOwn' /\ SomethingToSay'
  BY <1>1 DEF PastCheckAlone, PastCheck, NoneBefore, OnlyOwn, SomethingToSay, Existing, OwnVerdict
<1>5. PostedOrNot' /\ OneRunPerSession'
  BY <1>1 DEF PostedOrNot, PastCheck, OneRunPerSession, Existing
<1>6. NotifiesWhatIsStored'
  BY <1>1 DEF NotifiesWhatIsStored, Existing, OwnVerdict
<1> QED
  BY <1>2, <1>3, <1>4, <1>5, <1>6

LEMMA CrashIInv ==
  ASSUME IInv, Crash
  PROVE  IInv'
<1> USE DEF IInv
<1>1. TypeOK'
  <2>1. Connected' = {}
    BY DEF Crash, Connected, Critical
  <2> QED
    BY <2>1, FS_EmptySet, NoSessionTyped, PoolAssumption DEF Crash, TypeOK
<1>2. LockHeld' /\ CutInside' /\ PastCheckAlone' /\ NoneBefore' /\ OnlyOwn' /\ SomethingToSay' /\ NotifiesWhatIsStored'
  BY AuditorsAssumption DEF Crash, LockHeld, CutInside, Inside, Critical, PastCheckAlone, PastCheck, NoneBefore,
     OnlyOwn, SomethingToSay, NotifiesWhatIsStored
<1>3. PostedOrNot' /\ OneRunPerSession'
  BY DEF Crash, PostedOrNot, PastCheck, OneRunPerSession, Existing
<1> QED
  BY <1>1, <1>2, <1>3

LEMMA NextIInv == IInv /\ [Next]_vars => IInv'
<1> SUFFICES ASSUME IInv, [Next]_vars PROVE IInv'
  OBVIOUS
<1>1. ASSUME NEW a \in Auditors, NEW s \in Sessions, Call(a, s) PROVE IInv'
  BY <1>1, CallIInv
<1>2. ASSUME NEW a \in Auditors, Advance(a) PROVE IInv'
  <2>1. CASE Connect(a) \/ Lock(a) \/ Check(a)
    BY <2>1, ConnectIInv, LockIInv, CheckIInv
  <2>2. CASE ReadEvents(a) \/ Tribunal(a) \/ StoreVerdict(a) \/ Release(a)
    BY <2>2, ReadEventsIInv, TribunalIInv, StoreVerdictIInv, ReleaseIInv
  <2>3. CASE TribunalFails(a) \/ PoolTimeout(a)
    BY <2>3, LeaveIInv DEF TribunalFails, PoolTimeout, IInv, TypeOK
  <2>4. CASE LookUpHook(a) \/ PostHook(a)
    BY <2>4, LookUpHookIInv, PostHookIInv
  <2> QED
    BY <1>2, <2>1, <2>2, <2>3, <2>4 DEF Advance
<1>3. CASE Borrow \/ GiveBack \/ UNCHANGED vars
  BY <1>3, OthersIInv
<1>4. CASE Crash
  BY <1>4, CrashIInv
<1>5. ASSUME NEW a \in Auditors, LockLost(a) PROVE IInv'
  BY <1>5, LockLostIInv
<1>6. ASSUME NEW a \in Auditors, StatementLost(a) PROVE IInv'
  <2>1. losses' \in Nat
    BY <1>6 DEF StatementLost, IInv, TypeOK
  <2> QED
    BY <1>6, <2>1, LeaveIInv DEF StatementLost
<1> QED
  BY <1>1, <1>2, <1>3, <1>4, <1>5, <1>6 DEF Next

THEOREM Invariant == Spec => []IInv
BY InitIInv, NextIInv, PTL DEF Spec

\* audited_run keeps its types and never overdraws the pool of connections.
THEOREM TypeCorrect == Spec => []TypeOK
<1>1. IInv => TypeOK
  BY DEF IInv
<1> QED
  BY <1>1, Invariant, PTL

\* For any hash of lock keys and through timeouts, failures, restarts and lost
\* connections: of the audits of a session between check and last verdict at most
\* one still has the connection of its lock.  It does not say that there is no
\* other: an audit whose lock was lost goes on.
THEOREM LockExcludes == Spec => []OneInside
<1>1. IInv => OneInside
  BY InsideAlone DEF IInv
<1> QED
  BY <1>1, Invariant, PTL

\* No two runs of the tribunal leave verdicts in a session, unless an audit of it
\* went on after the connection of its lock was lost.
THEOREM VerdictsOfOneRun == Spec => []OneRunPerSession
<1>1. IInv => OneRunPerSession
  BY DEF IInv
<1> QED
  BY <1>1, Invariant, PTL

\* No session's webhook is called twice, locks lost or not.
THEOREM WebhookOnce == Spec => []NotifiedOnce
<1>1. IInv => NotifiedOnce
  BY DEF IInv, PostedOrNot, NotifiedOnce
<1> QED
  BY <1>1, Invariant, PTL

\* The webhook's payload is on record, and is all that is on record unless an
\* audit of the session went on after the connection of its lock was lost.
THEOREM WebhookAfterStore == Spec => []NotifiesWhatIsStored
<1>1. IInv => NotifiesWhatIsStored
  BY DEF IInv
<1> QED
  BY <1>1, Invariant, PTL

------------------------------------------------------------------------------
\* The verdicts of a session stand.

\* Only a thread that found no verdict comes to where verdicts are stored.
LEMMA WhoPasses ==
  ASSUME TypeOK, [Next]_vars, NEW a \in Auditors, pc'[a] \in {"events", "tribunal", "store"}
  PROVE  /\ session'[a] = session[a]
         /\ \/ pc[a] \in {"events", "tribunal", "store"}
            \/ pc[a] = "check" /\ Existing(session[a]) = {}
<1>1. CASE UNCHANGED vars \/ Borrow \/ GiveBack
  BY <1>1 DEF vars, Borrow, GiveBack
<1>2. CASE Crash
  BY <1>2 DEF Crash
<1>3. ASSUME NEW b \in Auditors, NEW s \in Sessions, Call(b, s)
      PROVE  pc[a] \in {"events", "tribunal", "store"} /\ session'[a] = session[a]
  BY <1>3 DEF Call, GoTo, TypeOK
<1>4. ASSUME NEW b \in Auditors, Check(b)
      PROVE  /\ session'[a] = session[a]
             /\ \/ pc[a] \in {"events", "tribunal", "store"}
                \/ pc[a] = "check" /\ Existing(session[a]) = {}
  BY <1>4 DEF Check, GoTo, Leave, TypeOK
<1>5. ASSUME NEW b \in Auditors, Advance(b) \/ LockLost(b) \/ StatementLost(b), ~Check(b)
      PROVE  pc[a] \in {"events", "tribunal", "store"} /\ session'[a] = session[a]
  BY <1>5 DEF Advance, Connect, Lock, ReadEvents, Tribunal, TribunalFails, StoreVerdict,
              Release, LookUpHook, PostHook, PoolTimeout, LockLost, StatementLost,
              GoTo, Leave, TypeOK
<1> QED
  BY <1>1, <1>2, <1>3, <1>4, <1>5 DEF Next, Advance

LEMMA WhoChangesVerdicts ==
  ASSUME [Next]_vars, NEW s \in Sessions,
         \A a \in Auditors : ~(pc[a] = "store" /\ session[a] = s)
  PROVE  Existing(s)' = Existing(s)
<1>1. CASE UNCHANGED verdicts
  BY <1>1 DEF Existing
<1>2. ASSUME NEW a \in Auditors, StoreVerdict(a)
      PROVE  Existing(s)' = Existing(s)
  <2>1. session[a] # s
    BY <1>2 DEF StoreVerdict
  <2>2. PICK r \in found[a] : verdicts' = verdicts \cup {OwnVerdict(a, r)}
    BY <1>2 DEF StoreVerdict
  <2> QED
    BY <2>1, <2>2 DEF OwnVerdict, Existing
<1> QED
  BY <1>1, <1>2 DEF Next, Advance, Call, Connect, Lock, Check, ReadEvents, Tribunal, TribunalFails,
                    Release, LookUpHook, PostHook, PoolTimeout, LockLost, StatementLost,
                    Borrow, GiveBack, Crash, vars

\* What a step does to a session whose verdicts stand.
StaysSettled ==
  \A s \in Sessions : Settled(s) => Settled(s)' /\ RulesOnRecord(s)' = RulesOnRecord(s)

LEMMA StepUnsettlesNothing == TypeOK /\ [Next]_vars => StaysSettled
<1> SUFFICES ASSUME TypeOK, [Next]_vars, NEW s \in Sessions, Settled(s)
             PROVE  Settled(s)' /\ RulesOnRecord(s)' = RulesOnRecord(s)
  BY DEF StaysSettled
<1>1. Existing(s)' = Existing(s)
  BY WhoChangesVerdicts DEF Settled
<1>2. ASSUME NEW a \in Auditors, pc'[a] \in {"events", "tribunal", "store"}, session'[a] = s
      PROVE  FALSE
  BY <1>2, WhoPasses DEF Settled
<1> QED
  BY <1>1, <1>2 DEF Settled, RulesOnRecord

\* The verdicts a session has when no audit of it is between its check and its
\* last verdict are its verdicts for good, through later audits, retries, timeouts,
\* restarts and lost locks: no part of them is taken back and nothing is added.
THEOREM VerdictsAreFinal == Spec => VerdictsStand
<1>1. TypeOK /\ [Next]_vars
      => [\A s \in Sessions :
            Settled(s) => Settled(s)' /\ RulesOnRecord(s)' = RulesOnRecord(s)]_vars
  BY StepUnsettlesNothing DEF StaysSettled
<1> QED
  BY <1>1, TypeCorrect, PTL DEF Spec, VerdictsStand
===============================================================================
