--------------------------- MODULE SchedulerProofs ---------------------------
(***************************************************************************)
(* Proofs about run_due_schedules, for any orgs, sessions, intervals and   *)
(* page limit: an org is noted as run only after audited_run returned of   *)
(* its newest sessions, whatever is recorded, changed or raised meanwhile. *)
(***************************************************************************)
EXTENDS Scheduler, SequenceTheorems, TLAPS

\* A session stands in an org's list once.
ListedOnce == \A o \in Orgs : IsInjective(recent[o])

\* During an org's turn: its newest sessions are audited, recorded in since they
\* were listed, or still to come.
OnThePage == pc \in {"audit", "tribunal"} => FirstPage(cur) \subseteq audited[cur] \cup touched \cup ToSet(todo)

IInv == TypeOK /\ ListedOnce /\ OnThePage

------------------------------------------------------------------------------
LEMMA SomeOrgTyped == SomeOrg \in Orgs
BY OrgsAssumption DEF SomeOrg

LEMMA FlooredTyped ==
  ASSUME NEW m \in 0 .. MaxAge
  PROVE  Floored(m) \in Floor .. MaxAge
BY FloorAssumption DEF Floored

LEMMA FirstOrLater == \A k \in Nat : \A j \in 1 .. k : j = 1 \/ j \in 2 .. k
OBVIOUS

Back(at, j) == IF j =< at THEN j - 1 ELSE j

\* What was before place `at` moves back by one, within the places there were.
LEMMA BackInside ==
  ASSUME NEW len \in Nat, NEW k \in Nat, NEW at \in 1 .. k,
         k = len \/ (k = len + 1 /\ at = k)
  PROVE  /\ \A j \in 2 .. k : Back(at, j) \in 1 .. len /\ Back(at, j) =< j
         /\ \A i, j \in 2 .. k : Back(at, i) = Back(at, j) => i = j
         /\ \A j \in 2 .. k : at \in 1 .. len => Back(at, j) # at
BY DEF Back

\* A list of sessions, each once, with s brought to its front.
LEMMA ForemostList ==
  ASSUME NEW S, NEW list \in Seq(S), NEW s \in S, IsInjective(list), NEW n \in Nat
  PROVE  /\ Foremost(list, s) \in Seq(S)
         /\ IsInjective(Foremost(list, s))
         /\ \A i \in DOMAIN Foremost(list, s) \cap 1 .. n :
              Foremost(list, s)[i] = s \/ \E j \in DOMAIN list \cap 1 .. n : Foremost(list, s)[i] = list[j]
<1> DEFINE at == IF s \in ToSet(list) THEN CHOOSE i \in DOMAIN list : list[i] = s ELSE Len(list) + 1
           k  == IF s \in ToSet(list) THEN Len(list) ELSE Len(list) + 1
           f  == [j \in 1 .. k |-> IF j = 1 THEN s ELSE IF j =< at THEN list[j - 1] ELSE list[j]]
           len == Len(list)
<1>1. /\ len \in Nat /\ DOMAIN list = 1 .. len
      /\ \A i \in 1 .. len : list[i] \in S
      /\ \A i, j \in 1 .. len : list[i] = list[j] => i = j
  BY LenProperties, ElementOfSeq DEF IsInjective
<1>2. /\ k \in Nat /\ at \in 1 .. k
      /\ \/ k = len /\ list[at] = s
         \/ k = len + 1 /\ at = k /\ \A i \in 1 .. len : list[i] # s
  <2>1. CASE s \in ToSet(list)
    <3>1. \E i \in DOMAIN list : list[i] = s
      BY <2>1 DEF ToSet
    <3>2. at \in DOMAIN list /\ list[at] = s /\ k = len
      BY <2>1, <3>1
    <3> HIDE DEF at, k, len
    <3> QED
      BY <1>1, <3>2
  <2>2. CASE s \notin ToSet(list)
    <3>1. \A i \in DOMAIN list : list[i] # s
      BY <2>2 DEF ToSet
    <3>2. at = len + 1 /\ k = len + 1
      BY <2>2
    <3>3. \A i \in 1 .. len : list[i] # s
      BY <1>1, <3>1
    <3> HIDE DEF at, k, len
    <3>4. k \in Nat /\ at \in 1 .. k
      BY <1>1, <3>2
    <3> QED
      BY <3>2, <3>3, <3>4
  <2> QED
    BY <2>1, <2>2
<1>3. f = Foremost(list, s)
  BY DEF Foremost
<1> HIDE DEF at, k, len
<1>4. DOMAIN f = 1 .. k /\ f[1] = s
  BY <1>2
<1>5. \A j \in 2 .. k : f[j] = list[Back(at, j)]
  BY <1>2 DEF Back
<1>6. f = [j \in 1 .. k |-> f[j]]
  OBVIOUS
<1> HIDE DEF f
<1>7. /\ \A j \in 1 .. k : j = 1 \/ j \in 2 .. k
      /\ \A j \in 2 .. k : Back(at, j) \in 1 .. len /\ Back(at, j) =< j
      /\ \A i, j \in 2 .. k : Back(at, i) = Back(at, j) => i = j
      /\ \A j \in 2 .. k : at \in 1 .. len => Back(at, j) # at
  <2>1. k = len \/ (k = len + 1 /\ at = k)
    BY <1>2
  <2> QED
    BY <1>1, <1>2, <2>1, FirstOrLater, BackInside
<1>8. \A j \in 2 .. k : f[j] # s
  <2>1. CASE k = len /\ list[at] = s
    BY <1>1, <1>2, <1>5, <1>7, <2>1
  <2>2. CASE \A i \in 1 .. len : list[i] # s
    BY <1>5, <1>7, <2>2
  <2> QED
    BY <1>2, <2>1, <2>2
<1>9. \A j \in 1 .. k : f[j] \in S
  BY <1>1, <1>4, <1>5, <1>7
<1>10. f \in Seq(S)
  BY <1>2, <1>6, <1>9
<1>11. IsInjective(f)
  <2>1. \A i, j \in 2 .. k : f[i] = f[j] => i = j
    BY <1>1, <1>5, <1>7
  <2> QED
    BY <1>4, <1>7, <1>8, <2>1 DEF IsInjective
<1>12. ASSUME NEW i \in DOMAIN f \cap 1 .. n
       PROVE  f[i] = s \/ \E j \in DOMAIN list \cap 1 .. n : f[i] = list[j]
  <2>1. i \in 1 .. n /\ (i = 1 \/ i \in 2 .. k)
    BY <1>4, <1>7
  <2>2. CASE i \in 2 .. k
    <3>1. Back(at, i) \in DOMAIN list \cap 1 .. n
      BY <1>1, <1>7, <2>1, <2>2
    <3> QED
      BY <1>5, <2>2, <3>1
  <2> QED
    BY <1>4, <2>1, <2>2
<1> QED
  BY <1>3, <1>10, <1>11, <1>12

\* The list of a page: its entries are those of the first page, each once.
LEMMA NewestSessionsList ==
  ASSUME TypeOK, ListedOnce, NEW o \in Orgs
  PROVE  /\ NewestSessions(o) \in Seq(SessionIds)
         /\ IsInjective(NewestSessions(o)) /\ Len(NewestSessions(o)) =< PageLimit
         /\ ToSet(NewestSessions(o)) = FirstPage(o)
<1> DEFINE list == recent[o]
           n    == IF Len(list) < PageLimit THEN Len(list) ELSE PageLimit
           page == SubSeq(list, 1, n)
<1>1. list \in Seq(SessionIds) /\ IsInjective(list)
  BY DEF TypeOK, ListedOnce
<1> HIDE DEF list
<1>2. /\ Len(list) \in Nat /\ DOMAIN list = 1 .. Len(list)
      /\ \A i \in 1 .. Len(list) : list[i] \in SessionIds
  BY <1>1, LenProperties, ElementOfSeq
<1>3. n \in Nat /\ n =< PageLimit /\ 1 .. n = DOMAIN list \cap 1 .. PageLimit
  BY <1>2, LimitAssumption
<1> HIDE DEF n
<1>4. \A i \in 1 .. n : i \in 1 .. Len(list) /\ list[i] \in SessionIds
  BY <1>2, <1>3
<1>5. /\ page \in Seq(SessionIds) /\ Len(page) = n
      /\ \A i \in 1 .. n : page[i] = list[i]
  <2>1. /\ page \in Seq(SessionIds)
        /\ Len(page) = IF 1 =< n THEN n - 1 + 1 ELSE 0
        /\ \A i \in 1 .. n - 1 + 1 : page[i] = list[1 + i - 1]
    BY <1>3, <1>4, SubSeqProperties
  <2> HIDE DEF page
  <2>2. \A i \in 1 .. n : i \in 1 .. n - 1 + 1 /\ 1 + i - 1 = i
    BY <1>3
  <2> QED
    BY <1>3, <2>1, <2>2
<1>6. NewestSessions(o) = page
  BY DEF NewestSessions, n, list
<1> HIDE DEF page
<1>7. DOMAIN page = 1 .. n
  BY <1>5, LenProperties
<1>8. IsInjective(page)
  BY <1>1, <1>2, <1>4, <1>5, <1>7 DEF IsInjective
<1>9. ToSet(page) = {list[i] : i \in DOMAIN list \cap 1 .. PageLimit}
  BY <1>3, <1>5, <1>7 DEF ToSet
<1> QED
  BY <1>3, <1>5, <1>6, <1>8, <1>9 DEF FirstPage, list

\* The first entry of a list without repetition, and the rest.
LEMMA HeadAndRest ==
  ASSUME NEW S, NEW list \in Seq(S), list # << >>, IsInjective(list)
  PROVE  /\ Head(list) \in S /\ Tail(list) \in Seq(S)
         /\ IsInjective(Tail(list)) /\ Len(Tail(list)) =< Len(list)
         /\ ToSet(list) \subseteq {Head(list)} \cup ToSet(Tail(list))
<1>1. /\ Head(list) \in S /\ Tail(list) \in Seq(S) /\ Len(Tail(list)) = Len(list) - 1
      /\ \A i \in 1 .. Len(Tail(list)) : Tail(list)[i] = list[i + 1]
      /\ Head(list) = list[1]
  BY HeadTailProperties
<1> DEFINE len == Len(list)
           rest == Tail(list)
<1>2. len \in Nat /\ DOMAIN list = 1 .. len /\ DOMAIN rest = 1 .. len - 1
  BY <1>1, LenProperties
<1>3. \A i \in 1 .. len - 1 : rest[i] = list[i + 1] /\ i + 1 \in 1 .. len
  BY <1>1, <1>2
<1>4. \A i \in 1 .. len : i = 1 \/ (i - 1 \in 1 .. len - 1 /\ (i - 1) + 1 = i)
  BY <1>2
<1> HIDE DEF len, rest
<1>5. IsInjective(rest)
  <2>1. \A i, j \in 1 .. len - 1 : list[i + 1] = list[j + 1] => i + 1 = j + 1
    BY <1>2, <1>3 DEF IsInjective
  <2>2. \A i, j \in 1 .. len - 1 : i + 1 = j + 1 => i = j
    BY <1>2
  <2> QED
    BY <1>2, <1>3, <2>1, <2>2 DEF IsInjective
<1>6. ToSet(list) \subseteq {list[1]} \cup ToSet(rest)
  <2>1. \A i \in 1 .. len : list[i] = list[1] \/ \E j \in 1 .. len - 1 : list[i] = rest[j]
    BY <1>3, <1>4
  <2> QED
    BY <1>2, <2>1 DEF ToSet
<1> QED
  BY <1>1, <1>2, <1>5, <1>6 DEF len, rest

LEMMA EmptyList == IsInjective(<< >>) /\ Len(<< >>) = 0 /\ ToSet(<< >>) = {}
BY DEF IsInjective, ToSet

LEMMA InitIInv == Init => IInv
<1> SUFFICES ASSUME Init PROVE IInv
  OBVIOUS
<1>1. TypeOK
  BY SomeOrgTyped, EmptyList, FloorAssumption, LimitAssumption DEF Init, TypeOK
<1>2. ListedOnce /\ OnThePage
  BY EmptyList DEF Init, ListedOnce, OnThePage
<1> QED
  BY <1>1, <1>2 DEF IInv

LEMMA TickOverTyped ==
  ASSUME TickOver
  PROVE  /\ pc' = "wait" /\ queue' \subseteq Orgs /\ cur' \in Orgs /\ touched' \subseteq SessionIds
         /\ todo' \in Seq(SessionIds) /\ IsInjective(todo') /\ Len(todo') =< PageLimit
BY SomeOrgTyped, EmptyList, LimitAssumption DEF TickOver

------------------------------------------------------------------------------
(* The steps.                                                              *)
LEMMA SettingsIInv ==
  ASSUME IInv, NEW o \in Orgs,
         \/ \E on \in BOOLEAN, minutes \in Requested[o] : SetSchedule(o, on, minutes)
         \/ ChangePlan(o) \/ ChangeRules(o)
  PROVE  IInv'
<1> USE DEF IInv
<1>1. UNCHANGED <<age, recent, tick, faults, found, audited, touched>>
  BY DEF SetSchedule, ChangePlan, ChangeRules
<1>2. enabled' \subseteq Orgs /\ pro' \subseteq Orgs /\ failing' \subseteq Orgs
  BY DEF SetSchedule, ChangePlan, ChangeRules, TypeOK
<1>3. interval' \in [Orgs -> Floor .. MaxAge]
  <2>1. \A minutes \in Requested[o] : Floored(minutes) \in Floor .. MaxAge
    BY RequestedAssumption, FlooredTyped
  <2> QED
    BY <2>1 DEF SetSchedule, ChangePlan, ChangeRules, TypeOK
<1>4. TypeOK'
  BY <1>1, <1>2, <1>3 DEF TypeOK, tick, found
<1>5. ListedOnce' /\ OnThePage'
  BY <1>1 DEF ListedOnce, OnThePage, FirstPage, tick
<1> QED
  BY <1>4, <1>5

LEMMA RecordIInv ==
  ASSUME IInv, NEW o \in Orgs, NEW s \in SessionsOf[o], Record(o, s)
  PROVE  IInv'
<1> USE DEF IInv
<1> DEFINE list == recent[o]
           f    == Foremost(list, s)
<1>1. s \in SessionIds
  BY DEF SessionIds
<1>2. list \in Seq(SessionIds) /\ IsInjective(list)
  BY DEF TypeOK, ListedOnce
<1>3. /\ f \in Seq(SessionIds) /\ IsInjective(f)
      /\ \A i \in DOMAIN f \cap 1 .. PageLimit :
           f[i] = s \/ \E j \in DOMAIN list \cap 1 .. PageLimit : f[i] = list[j]
  BY <1>1, <1>2, ForemostList, LimitAssumption
<1>4. recent' = [recent EXCEPT ![o] = f]
  BY DEF Record
<1> HIDE DEF list, f
<1>5. TypeOK'
  BY <1>1, <1>3, <1>4 DEF Record, TypeOK, settings, tick
<1>6. ListedOnce'
  BY <1>3, <1>4 DEF ListedOnce, TypeOK
<1>7. OnThePage'
  <2> SUFFICES ASSUME pc \in {"audit", "tribunal"}
               PROVE  FirstPage(cur)' \subseteq audited'[cur] \cup touched' \cup ToSet(todo)
    BY DEF Record, tick, OnThePage
  <2>1. cur \in Orgs
    BY DEF TypeOK
  <2>2. CASE o # cur
    BY <1>4, <2>1, <2>2 DEF Record, tick, OnThePage, FirstPage, TypeOK
  <2>3. CASE o = cur
    <3>1. recent'[cur] = f /\ cur' = cur
      BY <1>4, <2>1, <2>3 DEF Record, tick, TypeOK
    <3>2. FirstPage(cur)' \subseteq {s} \cup FirstPage(cur)
      BY <1>3, <2>3, <3>1 DEF FirstPage, list
    <3>3. audited'[cur] = audited[cur] \ {s} /\ touched' = touched \cup {s}
      BY <2>1, <2>3 DEF Record, TypeOK
    <3> QED
      BY <3>2, <3>3 DEF OnThePage
  <2> QED
    BY <2>2, <2>3
<1> QED
  BY <1>5, <1>6, <1>7

LEMMA TimePassesIInv ==
  ASSUME IInv, TimePasses
  PROVE  IInv'
<1> USE DEF IInv
<1>1. age' \in [Orgs -> 0 .. MaxAge]
  BY FloorAssumption DEF TimePasses, TypeOK
<1>2. TypeOK'
  BY <1>1 DEF TimePasses, TypeOK, settings, tick, found
<1>3. ListedOnce' /\ OnThePage'
  BY DEF TimePasses, ListedOnce, OnThePage, FirstPage, tick
<1> QED
  BY <1>2, <1>3

LEMMA MaySettleTyped ==
  ASSUME TypeOK, MaySettle
  PROVE  settled' \in [Orgs -> SUBSET SessionIds]
<1>1. settled[cur] \cup ({Head(todo)} \cap Suspect[cur]) \subseteq SessionIds
  BY SuspectAssumption DEF TypeOK, SessionIds
<1> DEFINE more == settled[cur] \cup ({Head(todo)} \cap Suspect[cur])
<1>2. settled' = settled \/ settled' = [settled EXCEPT ![cur] = more]
  BY DEF MaySettle
<1> HIDE DEF more
<1>3. more \in SUBSET SessionIds
  BY <1>1 DEF more
<1> QED
  BY <1>2, <1>3 DEF TypeOK

LEMMA NotLookedTyped ==
  ASSUME TypeOK, NotLooked
  PROVE  looked' \in [Orgs -> SUBSET SessionIds]
BY DEF TypeOK, NotLooked

LEMMA OtherAuditIInv ==
  ASSUME IInv, NEW o \in Orgs, NEW s \in SessionsOf[o], OtherAudit(o, s)
  PROVE  IInv'
<1> USE DEF IInv
<1>1. settled' \in [Orgs -> SUBSET SessionIds]
  <2>1. s \in SessionIds
    BY DEF SessionIds
  <2> QED
    BY <2>1 DEF OtherAudit, TypeOK
<1>2. TypeOK'
  BY <1>1 DEF OtherAudit, TypeOK, settings, tick
<1>3. ListedOnce' /\ OnThePage'
  BY DEF OtherAudit, ListedOnce, OnThePage, FirstPage, tick
<1> QED
  BY <1>2, <1>3

LEMMA TickIInv ==
  ASSUME IInv, StartTick \/ NextOrg \/ TribunalRaises \/ MarkRan \/ TickLost
  PROVE  IInv'
<1> USE DEF IInv
<1>1. ListedOnce'
  BY DEF StartTick, NextOrg, TribunalRaises, MarkRan, TickLost, ListedOnce
<1>2. pc' \notin {"audit", "tribunal"}
  BY DEF StartTick, NextOrg, TribunalRaises, MarkRan, TickLost, TickOver
<1>3. CASE StartTick
  BY <1>1, <1>2, <1>3 DEF StartTick, DueOrgs, TypeOK, settings, found, OnThePage
<1>4. CASE NextOrg
  <2>1. CASE TickOver
    BY <1>1, <1>2, <1>4, <2>1, TickOverTyped DEF NextOrg, TypeOK, settings, found, OnThePage
  <2>2. CASE ~TickOver
    BY <1>1, <1>2, <1>4, <2>2 DEF NextOrg, TypeOK, settings, found, OnThePage
  <2> QED
    BY <2>1, <2>2
<1>5. CASE MarkRan
  BY <1>1, <1>2, <1>5, SomeOrgTyped, FloorAssumption DEF MarkRan, TypeOK, settings, found, OnThePage
<1>6. CASE TickLost
  <2>1. settled' \in [Orgs -> SUBSET SessionIds] /\ looked' \in [Orgs -> SUBSET SessionIds]
    BY <1>6, MaySettleTyped, NotLookedTyped DEF TickLost, TypeOK, found
  <2> QED
    BY <1>1, <1>2, <1>6, <2>1, TickOverTyped DEF TickLost, TypeOK, settings, OnThePage
<1>7. CASE TribunalRaises
  <2>1. looked' \in [Orgs -> SUBSET SessionIds]
    BY <1>7, NotLookedTyped DEF TribunalRaises
  <2> QED
    BY <1>1, <1>2, <1>7, <2>1, TickOverTyped DEF TribunalRaises, TypeOK, settings, OnThePage
<1> QED
  BY <1>3, <1>4, <1>5, <1>6, <1>7

LEMMA ListSessionsIInv ==
  ASSUME IInv, ListSessions
  PROVE  IInv'
<1> USE DEF IInv
<1>1. cur \in Orgs
  BY DEF TypeOK
<1>2. /\ todo' \in Seq(SessionIds) /\ IsInjective(todo') /\ Len(todo') =< PageLimit
      /\ ToSet(todo') = FirstPage(cur)
  BY <1>1, NewestSessionsList DEF ListSessions
<1>3. TypeOK'
  BY <1>2 DEF ListSessions, TypeOK, settings, found
<1>4. ListedOnce' /\ OnThePage'
  BY <1>2 DEF ListSessions, ListedOnce, OnThePage, FirstPage
<1> QED
  BY <1>3, <1>4

\* The first session to do has had its turn.
LEMMA HeadDone ==
  ASSUME TypeOK, OnThePage, todo # << >>, pc \in {"audit", "tribunal"},
         todo' = Tail(todo), UNCHANGED <<recent, cur>>,
         audited[cur] \subseteq audited'[cur], touched \subseteq touched' \cup {Head(todo)},
         Head(todo) \in audited'[cur] \cup touched'
  PROVE  /\ todo' \in Seq(SessionIds) /\ IsInjective(todo') /\ Len(todo') =< PageLimit
         /\ Head(todo) \in SessionIds /\ OnThePage'
<1>1. /\ Head(todo) \in SessionIds /\ todo' \in Seq(SessionIds)
      /\ IsInjective(todo') /\ Len(todo') =< Len(todo)
      /\ ToSet(todo) \subseteq {Head(todo)} \cup ToSet(todo')
  BY HeadAndRest DEF TypeOK
<1>2. Len(todo') =< PageLimit
  BY <1>1, LenProperties, LimitAssumption DEF TypeOK
<1>3. OnThePage'
  BY <1>1 DEF OnThePage, FirstPage
<1> QED
  BY <1>1, <1>2, <1>3

LEMMA AuditSessionIInv ==
  ASSUME IInv, AuditSession
  PROVE  IInv'
<1> USE DEF IInv
<1> DEFINE s == Head(todo)
<1>1. /\ pc = "audit" /\ todo # << >> /\ cur \in Orgs /\ s \in SessionIds
      /\ touched' = touched \ {s}
      /\ UNCHANGED <<settings, age, recent, queue, cur, faults, settled>>
  BY HeadAndRest DEF AuditSession, TypeOK
<1>2. CASE s \in settled[cur]
  <2>1. /\ audited' = [audited EXCEPT ![cur] = @ \cup {s}]
        /\ todo' = Tail(todo) /\ UNCHANGED <<pc, looked>>
    BY <1>2 DEF AuditSession
  <2>2. audited'[cur] = audited[cur] \cup {s} /\ audited' \in [Orgs -> SUBSET SessionIds]
    BY <1>1, <2>1 DEF TypeOK
  <2>3. /\ todo' \in Seq(SessionIds) /\ IsInjective(todo') /\ Len(todo') =< PageLimit
        /\ OnThePage'
    BY <1>1, <2>1, <2>2, HeadDone
  <2>4. TypeOK'
    BY <1>1, <2>1, <2>2, <2>3 DEF TypeOK, settings
  <2> QED
    BY <1>1, <2>3, <2>4 DEF ListedOnce
<1>3. CASE s \notin settled[cur]
  <2>1. /\ looked' = [looked EXCEPT ![cur] = @ \cup {s}]
        /\ pc' = "tribunal" /\ UNCHANGED <<audited, todo>>
    BY <1>3 DEF AuditSession
  <2>2. looked' \in [Orgs -> SUBSET SessionIds]
    BY <1>1, <2>1 DEF TypeOK
  <2>3. TypeOK'
    BY <1>1, <2>1, <2>2 DEF TypeOK, settings
  <2>4. s \in ToSet(todo)
    <3>1. 1 \in DOMAIN todo /\ s = todo[1]
      BY <1>1, HeadTailProperties, LenProperties, EmptySeq DEF TypeOK
    <3> QED
      BY <3>1 DEF ToSet
  <2>5. OnThePage'
    BY <1>1, <2>1, <2>4 DEF OnThePage, FirstPage
  <2> QED
    BY <1>1, <2>3, <2>5 DEF ListedOnce
<1> QED
  BY <1>2, <1>3

LEMMA TribunalReturnsIInv ==
  ASSUME IInv, TribunalReturns
  PROVE  IInv'
<1> USE DEF IInv
<1> DEFINE s == Head(todo)
<1>1. /\ pc = "tribunal" /\ todo # << >> /\ cur \in Orgs /\ s \in SessionIds
      /\ todo' = Tail(todo) /\ pc' = "audit"
      /\ UNCHANGED <<settings, age, recent, queue, cur, faults, looked, touched>>
  BY HeadAndRest DEF TribunalReturns, TypeOK
<1>2. settled' \in [Orgs -> SUBSET SessionIds]
  BY MaySettleTyped DEF TribunalReturns
<1>3. /\ audited' \in [Orgs -> SUBSET SessionIds] /\ audited[cur] \subseteq audited'[cur]
      /\ s \in audited'[cur] \cup touched
  <2>1. CASE s \in touched
    BY <1>1, <2>1 DEF TribunalReturns, TypeOK
  <2>2. CASE s \notin touched
    BY <1>1, <2>2 DEF TribunalReturns, TypeOK
  <2> QED
    BY <2>1, <2>2
<1>4. /\ todo' \in Seq(SessionIds) /\ IsInjective(todo') /\ Len(todo') =< PageLimit
      /\ OnThePage'
  BY <1>1, <1>3, HeadDone
<1>5. TypeOK'
  BY <1>1, <1>2, <1>3, <1>4 DEF TypeOK, settings
<1> QED
  BY <1>1, <1>4, <1>5 DEF ListedOnce

LEMMA NextIInv == IInv /\ [Next]_vars => IInv'
<1> SUFFICES ASSUME IInv, [Next]_vars PROVE IInv'
  OBVIOUS
<1>1. CASE Next
  BY <1>1, SettingsIInv, RecordIInv, OtherAuditIInv, TimePassesIInv, TickIInv, ListSessionsIInv,
     AuditSessionIInv, TribunalReturnsIInv
  DEF Next, RunDueSchedules
<1>2. CASE UNCHANGED vars
  BY <1>2 DEF vars, settings, tick, found, IInv, TypeOK, ListedOnce, OnThePage, FirstPage
<1> QED
  BY <1>1, <1>2

LEMMA Inductive == Spec => []IInv
BY InitIInv, NextIInv, PTL DEF Spec

------------------------------------------------------------------------------
\* Settings and tick keep their types, an interval its floor, and no tick audits
\* a session twice or more than a page of them.
THEOREM TypeCorrect == Spec => []TypeOK
<1>1. IInv => TypeOK
  BY DEF IInv
<1> QED
  BY <1>1, Inductive, PTL

\* run_due_schedules writes last_run_at only after audited_run returned, possibly at
\* once, of the org's newest sessions, or they were recorded in during its turn
\* (scheduler.py:61-67).
THEOREM NotesOnlyWhatRan == Spec => RanMeansAudited
<1>1. IInv /\ [Next]_vars => [NotesWhatIsAudited]_vars
  <2> SUFFICES ASSUME IInv, Next PROVE NotesWhatIsAudited
    OBVIOUS
  <2> USE DEF IInv
  <2> SUFFICES ASSUME NEW o \in Orgs, age'[o] < age[o]
               PROVE  FirstPage(o) \subseteq audited[o] \cup touched
    BY DEF NotesWhatIsAudited
  <2>1. age[o] \in 0 .. MaxAge
    BY DEF TypeOK
  <2>2. ~TimePasses
    BY <2>1, FloorAssumption DEF TimePasses
  <2>3. age' # age
    BY <2>1
  <2>4. MarkRan
    BY <2>2, <2>3 DEF Next, SetSchedule, ChangePlan, ChangeRules, Record, OtherAudit, RunDueSchedules,
                      StartTick, NextOrg, ListSessions, AuditSession, TribunalReturns, TribunalRaises,
                      TickLost
  <2>5. o = cur
    BY <2>1, <2>4 DEF MarkRan, TypeOK
  <2> QED
    BY <2>4, <2>5, EmptyList DEF MarkRan, OnThePage
<1> QED
  BY <1>1, Inductive, PTL DEF Spec, RanMeansAudited
===============================================================================
