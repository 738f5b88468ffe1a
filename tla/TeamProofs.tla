------------------------------ MODULE TeamProofs ------------------------------
(***************************************************************************)
(* Proofs about members and invites, for any number of users, orgs and     *)
(* requests: an org keeps an owner and a user stays in one org unless      *)
(* requests overlapped, and nobody joins but by an invite.                 *)
(***************************************************************************)
EXTENDS Team, FiniteSetTheorems, TLAPS

\* What the endpoints of an org, and POST /orgs, go through.
OrgSteps  == {"authorise", "role", "count", "write", "invite"}
HomeSteps == {"home", "find", "accept", "join", "create"}

\* A request is where its kind brings it, and works on an org that exists.
Routed ==
  \A h \in Handlers :
    /\ pc[h] \in OrgSteps  => req[h].kind # "make_org" /\ req[h].org \in orgs
    /\ pc[h] \in HomeSteps => req[h].kind = "make_org"
    /\ pc[h] = "join"      => req[h].org \in orgs

\* id is a key that is never used again, and an invite is to an org that exists.
InviteRows ==
  /\ \A i \in invites : i.id < nextInvite /\ i.org \in orgs
  /\ \A i, j \in invites : i.id = j.id => i = j

\* The row of the invite that a request found, if it is still there.
FoundInvite ==
  \A h \in Handlers :
    pc[h] \in {"accept", "join"} =>
      /\ req[h].invite < nextInvite
      /\ \A i \in invites : i.id = req[h].invite =>
           i.email = req[h].user /\ (pc[h] = "join" => i.org = req[h].org)

\* What a request at its join has read, and nobody has written since.
JoinsAsRead ==
  \A h \in Handlers :
    pc[h] = "join" /\ req[h].org \notin raced =>
      \E i \in invites : /\ i.id = req[h].invite /\ i.org = req[h].org /\ i.email = req[h].user
                         /\ i.pending /\ i.role = req[h].role

\* A request that is about to take a role away leaves another owner.
LeavesAnOwner ==
  \A h \in Handlers :
    /\ pc[h] = "write" /\ req[h].org \notin raced
    /\ req[h].kind = "remove" \/ req[h].role = "member"
    => \E u \in Users : u # req[h].target /\ roles[req[h].org][u] = "owner"

Enrolling(h) == pc[h] # "idle" /\ req[h].kind = "make_org"

EnrolsAlone ==
  \A g, h \in Handlers :
    Enrolling(g) /\ Enrolling(h) /\ req[g].user = req[h].user /\ req[h].user \notin twice => g = h

\* The user of a POST /orgs that found no home has none still.
HomelessStill ==
  \A h \in Handlers :
    pc[h] \in {"find", "accept", "join", "create"} /\ req[h].user \notin twice =>
      Homes(req[h].user) = {}

OneHome == \A u \in Users \ twice : \A o, p \in Homes(u) : o = p

IInv ==
  /\ TypeOK /\ Routed /\ InviteRows /\ FoundInvite /\ JoinsAsRead
  /\ OwnedUnlessRaced /\ LeavesAnOwner /\ EnrolsAlone /\ HomelessStill /\ OneHome

------------------------------------------------------------------------------
LEMMA NoRequestTyped ==
  /\ NoRequest \in Requests /\ NoRequest.kind = "make_org"
  /\ SomeUser \in Users
BY UsersAssumption DEF NoRequest, SomeUser, Requests, Kinds, Roles

LEMMA InitIInv == Init => IInv
<1> SUFFICES ASSUME Init PROVE IInv
  OBVIOUS
<1>1. TypeOK
  BY NoRequestTyped DEF Init, TypeOK, Invites
<1>2. Routed /\ FoundInvite /\ JoinsAsRead /\ LeavesAnOwner /\ EnrolsAlone /\ HomelessStill
  BY DEF Init, Routed, OrgSteps, HomeSteps, FoundInvite, JoinsAsRead, LeavesAnOwner,
         EnrolsAlone, Enrolling, HomelessStill
<1>3. InviteRows /\ OwnedUnlessRaced /\ OneHome
  BY DEF Init, InviteRows, OwnedUnlessRaced, OneHome, Homes
<1> QED
  BY <1>1, <1>2, <1>3 DEF IInv

\* The steps of a request that write nothing.
Reads(h) ==
  \/ RequireOwner(h) \/ ReadRole(h) \/ CountOwners(h) \/ LookForHome(h)
  \/ FindPendingInvite(h) \/ SelectInvite(h) \/ Abort(h)

Writes(h) ==
  \/ SetMemberRole(h) \/ RemoveMember(h) \/ CreateInvite(h) \/ RevokeInvite(h)
  \/ AcceptInvite(h) \/ CreateOrg(h)

Asks(h) ==
  \/ \E u \in Users : AskOrg(h, u)
  \/ \E k \in Kinds, u, t \in Users, r \in Roles, n \in Nat : Ask(h, k, u, t, r, n)

LEMMA NextSplit ==
  ASSUME TypeOK, Next
  PROVE  \E h \in Handlers : Reads(h) \/ Writes(h) \/ Asks(h)
<1>1. /\ "member" \in Roles /\ 0 \in Nat
      /\ {"set_role", "remove", "invite", "revoke"} \subseteq Kinds
      /\ 1 .. nextInvite - 1 \subseteq Nat
  BY DEF Roles, Kinds, TypeOK
<1> QED
  BY <1>1 DEF Next, Step, Reads, Writes, Asks

------------------------------------------------------------------------------
(* What the steps that look up an invite come to.                          *)
LEMMA FindPendingInviteCases ==
  ASSUME TypeOK, NEW h \in Handlers, FindPendingInvite(h)
  PROVE  /\ pc[h] = "find"
         /\ \/ req' = req /\ pc' = [pc EXCEPT ![h] = "create"]
            \/ \E i \in invites :
                 /\ i.email = req[h].user /\ i.pending
                 /\ pc' = [pc EXCEPT ![h] = "accept"]
                 /\ req' \in [Handlers -> Requests] /\ \A g \in Handlers \ {h} : req'[g] = req[g]
                 /\ req'[h].invite = i.id /\ req'[h].user = req[h].user
                 /\ req'[h].kind = req[h].kind /\ req'[h].org = req[h].org
<1>1. /\ pc[h] = "find"
      /\ \/ req' = req /\ pc' = [pc EXCEPT ![h] = "create"]
         \/ \E i \in invites : /\ i.email = req[h].user /\ i.pending
                               /\ req' = [req EXCEPT ![h].invite = i.id]
                               /\ pc' = [pc EXCEPT ![h] = "accept"]
  BY DEF FindPendingInvite, GoTo
<1>2. ASSUME NEW i \in invites, req' = [req EXCEPT ![h].invite = i.id]
      PROVE  /\ req' \in [Handlers -> Requests] /\ \A g \in Handlers \ {h} : req'[g] = req[g]
             /\ req'[h].invite = i.id /\ req'[h].user = req[h].user
             /\ req'[h].kind = req[h].kind /\ req'[h].org = req[h].org
  BY <1>2 DEF TypeOK, Requests, Invites
<1> QED
  BY <1>1, <1>2

LEMMA SelectInviteCases ==
  ASSUME TypeOK, NEW h \in Handlers, SelectInvite(h)
  PROVE  /\ pc[h] = "accept"
         /\ \/ req' = [req EXCEPT ![h] = NoRequest] /\ pc' = [pc EXCEPT ![h] = "idle"]
            \/ \E i \in invites :
                 /\ i.id = req[h].invite /\ i.pending
                 /\ pc' = [pc EXCEPT ![h] = "join"]
                 /\ req' \in [Handlers -> Requests] /\ \A g \in Handlers \ {h} : req'[g] = req[g]
                 /\ req'[h].org = i.org /\ req'[h].role = i.role /\ req'[h].user = req[h].user
                 /\ req'[h].kind = req[h].kind /\ req'[h].invite = req[h].invite
<1>1. /\ pc[h] = "accept"
      /\ \/ req' = [req EXCEPT ![h] = NoRequest] /\ pc' = [pc EXCEPT ![h] = "idle"]
         \/ \E i \in invites : /\ i.id = req[h].invite /\ i.pending
                               /\ req' = [req EXCEPT ![h].org = i.org, ![h].role = i.role]
                               /\ pc' = [pc EXCEPT ![h] = "join"]
  BY DEF SelectInvite, GoTo, Answer
<1>2. ASSUME NEW i \in invites, req' = [req EXCEPT ![h].org = i.org, ![h].role = i.role]
      PROVE  /\ req' \in [Handlers -> Requests] /\ \A g \in Handlers \ {h} : req'[g] = req[g]
             /\ req'[h].org = i.org /\ req'[h].role = i.role /\ req'[h].user = req[h].user
             /\ req'[h].kind = req[h].kind /\ req'[h].invite = req[h].invite
  <2> DEFINE moved == [req EXCEPT ![h].org = i.org]
  <2>1. i.org \in Orgs /\ i.role \in Roles
    BY DEF TypeOK, Invites
  <2>2. /\ moved \in [Handlers -> Requests] /\ \A g \in Handlers \ {h} : moved[g] = req[g]
        /\ moved[h].org = i.org /\ moved[h].user = req[h].user
        /\ moved[h].kind = req[h].kind /\ moved[h].invite = req[h].invite
    BY <2>1 DEF TypeOK, Requests
  <2>3. req' = [moved EXCEPT ![h].role = i.role]
    BY <1>2
  <2> HIDE DEF moved
  <2> QED
    BY <2>1, <2>2, <2>3 DEF Requests
<1> QED
  BY <1>1, <1>2

(* What one request writes of another: nothing.                            *)
LEMMA OthersKeep ==
  ASSUME TypeOK, NEW h \in Handlers, Reads(h) \/ Writes(h) \/ Asks(h)
  PROVE  \A g \in Handlers \ {h} : pc'[g] = pc[g] /\ req'[g] = req[g]
<1>1. ASSUME Reads(h)
      PROVE  \A g \in Handlers \ {h} : pc'[g] = pc[g] /\ req'[g] = req[g]
  <2>1. CASE FindPendingInvite(h)
    BY <2>1, FindPendingInviteCases DEF TypeOK
  <2>2. CASE SelectInvite(h)
    BY <2>2, SelectInviteCases, NoRequestTyped DEF TypeOK
  <2> QED
    BY <1>1, <2>1, <2>2 DEF Reads, RequireOwner, ReadRole, CountOwners, LookForHome, Abort,
                      Answer, GoTo, TypeOK
<1>2. ASSUME Writes(h)
      PROVE  \A g \in Handlers \ {h} : pc'[g] = pc[g] /\ req'[g] = req[g]
  BY <1>2 DEF Writes, SetMemberRole, RemoveMember, CreateInvite, RevokeInvite, AcceptInvite,
              CreateOrg, Answer, TypeOK
<1>3. ASSUME Asks(h)
      PROVE  \A g \in Handlers \ {h} : pc'[g] = pc[g] /\ req'[g] = req[g]
  BY <1>3 DEF Asks, AskOrg, Ask, GoTo, TypeOK
<1> QED
  BY <1>1, <1>2, <1>3

LEMMA ReadsKeepTables ==
  ASSUME NEW h, Reads(h)
  PROVE  UNCHANGED <<tables, requests, raced, twice>>
BY DEF Reads, RequireOwner, ReadRole, CountOwners, LookForHome, FindPendingInvite,
       SelectInvite, Abort, tables

LEMMA WritesEnd ==
  ASSUME TypeOK, NEW h \in Handlers, Writes(h)
  PROVE  pc'[h] = "idle" /\ req'[h] = NoRequest
BY DEF Writes, SetMemberRole, RemoveMember, CreateInvite, RevokeInvite, AcceptInvite,
       CreateOrg, Answer, TypeOK

LEMMA UsedInvite ==
  ASSUME NEW i \in Invites
  PROVE  LET used == [i EXCEPT !.pending = FALSE]
         IN  /\ used \in Invites
             /\ used.id = i.id /\ used.org = i.org /\ used.email = i.email /\ used.role = i.role
BY DEF Invites

LEMMA ReadsType ==
  ASSUME IInv, NEW h \in Handlers, Reads(h)
  PROVE  TypeOK'
<1> USE NoRequestTyped DEF IInv, Answer, GoTo, TypeOK
<1>1. UNCHANGED <<tables, requests, raced, twice>>
  BY ReadsKeepTables
<1>2. ASSUME RequireOwner(h) \/ ReadRole(h) \/ CountOwners(h) \/ LookForHome(h) \/ Abort(h)
      PROVE  TypeOK'
  BY <1>1, <1>2 DEF RequireOwner, ReadRole, CountOwners, LookForHome, Abort, tables
<1>3. ASSUME FindPendingInvite(h)
      PROVE  TypeOK'
  <2>1. req' \in [Handlers -> Requests]
    BY <1>3, FindPendingInviteCases
  <2>2. pc' = [pc EXCEPT ![h] = "create"] \/ pc' = [pc EXCEPT ![h] = "accept"]
    BY <1>3, FindPendingInviteCases
  <2> QED
    BY <1>1, <2>1, <2>2 DEF tables
<1>4. ASSUME SelectInvite(h)
      PROVE  TypeOK'
  <2>1. req' \in [Handlers -> Requests]
    BY <1>4, SelectInviteCases
  <2>2. pc' = [pc EXCEPT ![h] = "idle"] \/ pc' = [pc EXCEPT ![h] = "join"]
    BY <1>4, SelectInviteCases
  <2> QED
    BY <1>1, <2>1, <2>2 DEF tables
<1> QED
  BY <1>2, <1>3, <1>4 DEF Reads

LEMMA AsksType ==
  ASSUME IInv, NEW h \in Handlers, Asks(h)
  PROVE  TypeOK'
<1> USE NoRequestTyped DEF IInv, GoTo, TypeOK, tables
<1>1. ASSUME NEW u \in Users, AskOrg(h, u)
      PROVE  TypeOK'
  BY <1>1 DEF AskOrg, Requests
<1>2. ASSUME NEW k \in Kinds, NEW u \in Users, NEW t \in Users, NEW r \in Roles, NEW n \in Nat,
             Ask(h, k, u, t, r, n)
      PROVE  TypeOK'
  <2>1. OrgForUser(u) \subseteq Orgs
    BY DEF OrgForUser, Homes
  <2> QED
    BY <1>2, <2>1 DEF Ask, Requests
<1> QED
  BY <1>1, <1>2 DEF Asks

LEMMA WritesType ==
  ASSUME IInv, NEW h \in Handlers, Writes(h)
  PROVE  TypeOK'
<1> USE NoRequestTyped DEF IInv, Answer, TypeOK
<1> DEFINE r == req[h]
<1>0. /\ r \in Requests /\ r.user \in Users /\ r.target \in Users
      /\ r.role \in Roles /\ r.org \in Orgs \cup {Nothing}
      /\ pc[h] \in OrgSteps \cup {"join"} => r.org \in orgs
  BY DEF Requests, Routed, OrgSteps
<1>1. ASSUME SetMemberRole(h)
      PROVE  TypeOK'
  BY <1>0, <1>1 DEF SetMemberRole, Races, OrgSteps
<1>2. ASSUME RemoveMember(h)
      PROVE  TypeOK'
  BY <1>0, <1>2 DEF RemoveMember, Races, OrgSteps
<1>3. ASSUME CreateInvite(h)
      PROVE  TypeOK'
  <2> DEFINE old    == {i \in invites : i.org = r.org /\ i.email = r.target}
             new    == [id |-> nextInvite, org |-> r.org, email |-> r.target,
                        role |-> r.role, pending |-> TRUE]
             renewed(i) == [i EXCEPT !.role = r.role, !.pending = TRUE]
  <2>1. r.org \in orgs
    BY <1>0, <1>3 DEF CreateInvite, OrgSteps
  <2>2. /\ invites' \subseteq Invites
        /\ \A i, j \in invites' : i.org = j.org /\ i.email = j.email => i = j
    <3>1. CASE old # {} /\ invites' = (invites \ old) \cup {renewed(i) : i \in old}
      <4>1. \A i \in old : /\ renewed(i) \in Invites
                           /\ renewed(i).org = r.org /\ renewed(i).email = r.target
        BY <1>0 DEF Invites
      <4>2. \A i, j \in old : i = j
        OBVIOUS
      <4> HIDE DEF renewed
      <4> QED
        BY <3>1, <4>1, <4>2
    <3>2. CASE old = {} /\ invites' = invites \cup {new}
      <4>1. new \in Invites /\ new.org = r.org /\ new.email = r.target
        BY <1>0, <2>1 DEF Invites
      <4> HIDE DEF new
      <4> QED
        BY <3>2, <4>1
    <3> QED
      BY <1>3, <3>1, <3>2 DEF CreateInvite
  <2>3. nextInvite' \in Nat \ {0}
    <3>1. nextInvite' = IF nextInvite =< MaxInvites THEN nextInvite + 1 ELSE nextInvite
      BY <1>3, Zenon DEF CreateInvite
    <3> QED
      BY <3>1, BoundsAssumption
  <2>4. raced' \subseteq Orgs
    <3>1. Races(h, r.org)
      BY <1>3, Zenon DEF CreateInvite
    <3> QED
      BY <2>1, <3>1 DEF Races
  <2> HIDE DEF r
  <2> QED
    BY <1>3, <2>2, <2>3, <2>4 DEF CreateInvite
<1>4. ASSUME RevokeInvite(h)
      PROVE  TypeOK'
  BY <1>0, <1>4 DEF RevokeInvite, Races, OrgSteps
<1>5. ASSUME AcceptInvite(h)
      PROVE  TypeOK'
  <2> DEFINE used(i) == [i EXCEPT !.pending = FALSE]
  <2>1. r.org \in orgs /\ r.org \in Orgs
    <3>1. pc[h] = "join"
      BY <1>5, Zenon DEF AcceptInvite
    <3> QED
      BY <1>0, <3>1
  <2>2. \A i \in invites : used(i) \in Invites /\ used(i).org = i.org /\ used(i).email = i.email
    BY UsedInvite
  <2>3. invites' = {IF i.id = r.invite THEN used(i) ELSE i : i \in invites}
    BY <1>5, Zenon DEF AcceptInvite
  <2>4. /\ invites' \subseteq Invites
        /\ \A i, j \in invites' : i.org = j.org /\ i.email = j.email => i = j
    <3> HIDE DEF used
    <3> QED
      BY <2>2, <2>3
  <2>5. /\ roles' \in [Orgs -> [Users -> Roles \cup {"none"}]]
        /\ \A o \in Orgs \ orgs', u \in Users : roles'[o][u] = "none"
    BY <1>0, <1>5, <2>1 DEF AcceptInvite
  <2>6. raced' \subseteq Orgs
    BY <1>5, <2>1 DEF AcceptInvite, Races
  <2> HIDE DEF r
  <2> QED
    BY <1>5, <2>4, <2>5, <2>6 DEF AcceptInvite
<1>6. ASSUME CreateOrg(h)
      PROVE  TypeOK'
  BY <1>0, <1>6 DEF CreateOrg, Roles
<1> QED
  BY <1>1, <1>2, <1>3, <1>4, <1>5, <1>6 DEF Writes

------------------------------------------------------------------------------
(* What a write leaves of the rows of other requests.                      *)
LEMMA CreateInviteRows ==
  ASSUME IInv, NEW h \in Handlers, CreateInvite(h)
  PROVE  /\ InviteRows' /\ nextInvite' >= nextInvite
         /\ \A i \in invites' : i.id < nextInvite =>
              \E j \in invites : j.id = i.id /\ j.org = i.org /\ j.email = i.email
         /\ \A i \in invites : i.org # req[h].org => i \in invites'
<1> USE DEF IInv
<1> DEFINE r   == req[h]
           old == {i \in invites : i.org = r.org /\ i.email = r.target}
           new == [id |-> nextInvite, org |-> r.org, email |-> r.target, role |-> r.role, pending |-> TRUE]
           renewed(i) == [i EXCEPT !.role = r.role, !.pending = TRUE]
<1>1. r.org \in orgs /\ orgs' = orgs
  <2>1. pc[h] = "invite" /\ orgs' = orgs
    BY Zenon DEF CreateInvite
  <2> QED
    BY <2>1 DEF Routed, OrgSteps
<1>2. nextInvite' = IF nextInvite =< MaxInvites THEN nextInvite + 1 ELSE nextInvite
  BY Zenon DEF CreateInvite
<1>3. CASE old # {} /\ invites' = (invites \ old) \cup {renewed(i) : i \in old}
  <2>1. \A i \in old : /\ renewed(i).id = i.id /\ renewed(i).org = i.org /\ renewed(i).email = i.email
    BY DEF TypeOK, Invites
  <2>2. \A i \in old : i \in invites /\ i.org = r.org
    OBVIOUS
  <2>3. \A i, j \in old : i = j
    BY DEF TypeOK
  <2>4. \A i \in invites : i.id \in Nat
    BY DEF TypeOK, Invites
  <2>5. \A i \in invites' : \E j \in invites : j.id = i.id /\ j.org = i.org /\ j.email = i.email
    <3> HIDE DEF renewed
    <3> QED
      BY <1>3, <2>1
  <2>6. \A i \in invites : i.org # r.org => i \in invites'
    BY <1>3
  <2>7. \A i, j \in invites' : i.id = j.id => i = j
    <3> HIDE DEF renewed, old
    <3> QED
      BY <1>3, <2>1, <2>2, <2>3 DEF InviteRows
  <2>8. \A i \in invites' : i.id < nextInvite' /\ i.org \in orgs'
    BY <1>1, <1>2, <2>4, <2>5, BoundsAssumption DEF InviteRows, TypeOK
  <2> QED
    BY <1>2, <2>5, <2>6, <2>7, <2>8, BoundsAssumption DEF InviteRows, TypeOK
<1>4. CASE old = {} /\ nextInvite =< MaxInvites /\ invites' = invites \cup {new}
  <2>1. new.id = nextInvite /\ new.org = r.org
    OBVIOUS
  <2>2. \A i \in invites : i.id \in Nat /\ i.id < nextInvite
    BY DEF TypeOK, Invites, InviteRows
  <2> HIDE DEF new
  <2> QED
    BY <1>1, <1>2, <1>4, <2>1, <2>2, BoundsAssumption DEF InviteRows, TypeOK
<1> QED
  BY <1>3, <1>4, Zenon DEF CreateInvite

LEMMA AcceptInviteRows ==
  ASSUME IInv, NEW h \in Handlers, AcceptInvite(h)
  PROVE  /\ InviteRows' /\ nextInvite' = nextInvite
         /\ \A i \in invites' : \E j \in invites : j.id = i.id /\ j.org = i.org /\ j.email = i.email
         /\ \A i \in invites : i.org # req[h].org => i \in invites'
<1> USE DEF IInv
<1> DEFINE used(i) == [i EXCEPT !.pending = FALSE]
<1>1. pc[h] = "join" /\ orgs' = orgs /\ nextInvite' = nextInvite
  BY Zenon DEF AcceptInvite
<1>2. invites' = {IF i.id = req[h].invite THEN used(i) ELSE i : i \in invites}
  BY Zenon DEF AcceptInvite
<1>3. \A i \in invites : used(i).id = i.id /\ used(i).org = i.org /\ used(i).email = i.email
  BY UsedInvite DEF TypeOK
<1>4. \A i \in invites : i.org # req[h].org => i.id # req[h].invite
  BY <1>1 DEF FoundInvite
<1> HIDE DEF used
<1>5. \A i \in invites' : \E j \in invites : j.id = i.id /\ j.org = i.org /\ j.email = i.email
  BY <1>2, <1>3
<1>6. \A i, j \in invites' : i.id = j.id => i = j
  BY <1>2, <1>3 DEF InviteRows
<1> QED
  BY <1>1, <1>2, <1>4, <1>5, <1>6 DEF InviteRows

LEMMA WritesRows ==
  ASSUME IInv, NEW h \in Handlers, Writes(h)
  PROVE  /\ InviteRows' /\ nextInvite' >= nextInvite
         /\ orgs \subseteq orgs' /\ raced \subseteq raced' /\ twice' = twice
         /\ \A i \in invites' : i.id < nextInvite =>
              \E j \in invites : j.id = i.id /\ j.org = i.org /\ j.email = i.email
<1> USE DEF IInv
<1>0. nextInvite \in Nat
  BY DEF TypeOK
<1>1. ASSUME SetMemberRole(h) \/ RemoveMember(h) \/ RevokeInvite(h) \/ CreateOrg(h)
      PROVE  /\ invites' \subseteq invites /\ nextInvite' = nextInvite /\ orgs \subseteq orgs'
             /\ raced \subseteq raced' /\ twice' = twice
  BY <1>1 DEF SetMemberRole, RemoveMember, RevokeInvite, CreateOrg, Races
<1>2. ASSUME CreateInvite(h) \/ AcceptInvite(h)
      PROVE  orgs' = orgs /\ raced \subseteq raced' /\ twice' = twice
  <2>1. CASE CreateInvite(h)
    <3>1. orgs' = orgs /\ Races(h, req[h].org) /\ twice' = twice
      BY <2>1, Zenon DEF CreateInvite
    <3> QED
      BY <3>1 DEF Races
  <2>2. CASE AcceptInvite(h)
    <3>1. orgs' = orgs /\ twice' = twice /\ (Races(h, req[h].org) \/ raced' = raced \cup {req[h].org})
      BY <2>2, Zenon DEF AcceptInvite
    <3> QED
      BY <3>1 DEF Races
  <2> QED
    BY <1>2, <2>1, <2>2
<1>3. CASE CreateInvite(h)
  BY <1>2, <1>3, CreateInviteRows
<1>4. CASE AcceptInvite(h)
  BY <1>0, <1>2, <1>4, AcceptInviteRows
<1>5. CASE SetMemberRole(h) \/ RemoveMember(h) \/ RevokeInvite(h) \/ CreateOrg(h)
  BY <1>0, <1>1, <1>5 DEF InviteRows
<1> QED
  BY <1>3, <1>4, <1>5 DEF Writes

\* A write that raced nobody left the org of every deciding request alone.
LEMMA KeptUnlessRaced ==
  ASSUME IInv, NEW h \in Handlers, Writes(h),
         NEW g \in Handlers \ {h}, pc[g] \in {"write", "join"}, req[g].org \notin raced'
  PROVE  /\ roles'[req[g].org] = roles[req[g].org]
         /\ \A i \in invites : i.org = req[g].org => i \in invites'
<1> USE DEF IInv
<1>1. req[g].org \in orgs /\ req[g].org \in Orgs
  BY DEF Routed, OrgSteps, TypeOK
<1>2. ASSUME Races(h, req[h].org) \/ raced' = raced \cup {req[h].org}
      PROVE  req[h].org # req[g].org
  BY <1>2 DEF Races, Deciding
<1>3. CASE CreateInvite(h)
  <2>1. Races(h, req[h].org) /\ roles' = roles
    BY <1>3, Zenon DEF CreateInvite
  <2> QED
    BY <1>2, <1>3, <2>1, CreateInviteRows
<1>4. CASE AcceptInvite(h)
  <2>1. /\ Races(h, req[h].org) \/ raced' = raced \cup {req[h].org}
        /\ roles' = [roles EXCEPT ![req[h].org][req[h].user] = req[h].role]
    BY <1>4, Zenon DEF AcceptInvite
  <2> QED
    BY <1>1, <1>2, <1>4, <2>1, AcceptInviteRows DEF TypeOK
<1>5. CASE SetMemberRole(h) \/ RemoveMember(h)
  <2>1. Races(h, req[h].org) /\ invites' = invites
    BY <1>5 DEF SetMemberRole, RemoveMember
  <2> QED
    BY <1>1, <1>2, <1>5, <2>1 DEF SetMemberRole, RemoveMember, TypeOK
<1>6. CASE RevokeInvite(h)
  BY <1>2, <1>6 DEF RevokeInvite
<1>7. CASE CreateOrg(h)
  BY <1>1, <1>7 DEF CreateOrg, TypeOK
<1> QED
  BY <1>3, <1>4, <1>5, <1>6, <1>7 DEF Writes

------------------------------------------------------------------------------
(* Requests and invites.                                                   *)
LEMMA WritesInvites ==
  ASSUME IInv, NEW h \in Handlers, Writes(h)
  PROVE  Routed' /\ FoundInvite' /\ JoinsAsRead'
<1> USE DEF IInv
<1>1. pc'[h] = "idle" /\ \A g \in Handlers \ {h} : pc'[g] = pc[g] /\ req'[g] = req[g]
  BY WritesEnd, OthersKeep
<1>2. Routed'
  BY <1>1, WritesRows DEF Routed, OrgSteps, HomeSteps
<1>3. FoundInvite'
  <2> SUFFICES ASSUME NEW g \in Handlers \ {h}, pc[g] \in {"accept", "join"}
               PROVE  /\ req[g].invite < nextInvite'
                      /\ \A i \in invites' : i.id = req[g].invite =>
                           i.email = req[g].user /\ (pc[g] = "join" => i.org = req[g].org)
    BY <1>1 DEF FoundInvite
  <2>1. req[g].invite \in Nat /\ nextInvite \in Nat /\ nextInvite' \in Nat
    BY WritesType DEF TypeOK, Requests
  <2>2. req[g].invite < nextInvite
    BY DEF FoundInvite
  <2> QED
    BY <2>1, <2>2, WritesRows DEF FoundInvite
<1>4. JoinsAsRead'
  <2> SUFFICES ASSUME NEW g \in Handlers \ {h}, pc[g] = "join", req[g].org \notin raced'
               PROVE  \E i \in invites' :
                        /\ i.id = req[g].invite /\ i.org = req[g].org /\ i.email = req[g].user
                        /\ i.pending /\ i.role = req[g].role
    BY <1>1 DEF JoinsAsRead
  <2> QED
    BY WritesRows, KeptUnlessRaced DEF JoinsAsRead
<1> QED
  BY <1>2, <1>3, <1>4

LEMMA ReadsInvites ==
  ASSUME IInv, NEW h \in Handlers, Reads(h)
  PROVE  Routed' /\ InviteRows' /\ FoundInvite' /\ JoinsAsRead'
<1> USE DEF IInv
<1>0. /\ UNCHANGED <<orgs, invites, nextInvite, raced>>
      /\ \A g \in Handlers \ {h} : pc'[g] = pc[g] /\ req'[g] = req[g]
  BY ReadsKeepTables, OthersKeep DEF tables
<1>1. InviteRows'
  BY <1>0 DEF InviteRows
<1>2. CASE FindPendingInvite(h)
  <2>1. pc[h] = "find" /\ pc'[h] \in {"create", "accept"} /\ req'[h].kind = req[h].kind
    BY <1>2, FindPendingInviteCases DEF TypeOK
  <2>2. Routed' /\ JoinsAsRead'
    BY <1>0, <2>1 DEF Routed, OrgSteps, HomeSteps, JoinsAsRead
  <2>3. pc'[h] = "accept" =>
          \E i \in invites : i.email = req[h].user /\ req'[h].invite = i.id /\ req'[h].user = req[h].user
    BY <1>2, FindPendingInviteCases DEF TypeOK
  <2>4. FoundInvite'
    BY <1>0, <2>1, <2>3 DEF FoundInvite, InviteRows
  <2> QED
    BY <1>1, <2>2, <2>4
<1>3. CASE SelectInvite(h)
  <2>1. /\ pc[h] = "accept" /\ pc'[h] \in {"idle", "join"}
        /\ pc'[h] = "join" => \E i \in invites :
              /\ i.id = req[h].invite /\ i.pending
              /\ req'[h].org = i.org /\ req'[h].role = i.role /\ req'[h].user = req[h].user
              /\ req'[h].kind = req[h].kind /\ req'[h].invite = req[h].invite
    BY <1>3, SelectInviteCases DEF TypeOK
  <2>2. Routed'
    BY <1>0, <2>1 DEF Routed, OrgSteps, HomeSteps, InviteRows
  <2>3. FoundInvite'
    BY <1>0, <2>1 DEF FoundInvite, InviteRows
  <2>4. JoinsAsRead'
    BY <1>0, <2>1 DEF JoinsAsRead, FoundInvite
  <2> QED
    BY <1>1, <2>2, <2>3, <2>4
<1>4. CASE RequireOwner(h) \/ ReadRole(h) \/ CountOwners(h) \/ LookForHome(h) \/ Abort(h)
  <2>1. \/ pc'[h] = "idle"
        \/ pc[h] \in OrgSteps /\ pc'[h] \in OrgSteps /\ req'[h] = req[h]
        \/ pc[h] = "home" /\ pc'[h] = "find" /\ req'[h] = req[h]
    BY <1>4 DEF RequireOwner, ReadRole, CountOwners, LookForHome, Abort, GoTo, Answer, OrgSteps, TypeOK
  <2> QED
    BY <1>0, <1>1, <2>1 DEF Routed, OrgSteps, HomeSteps, FoundInvite, JoinsAsRead
<1> QED
  BY <1>2, <1>3, <1>4 DEF Reads

\* What a request looks like when it is made.
LEMMA AsksCases ==
  ASSUME IInv, NEW h \in Handlers, Asks(h)
  PROVE  /\ UNCHANGED <<tables, raced>> /\ pc[h] = "idle"
         /\ \/ /\ pc'[h] = "home" /\ req'[h].kind = "make_org"
               /\ twice' = IF \E g \in Handlers : Enrolling(g) /\ req[g].user = req'[h].user
                           THEN twice \cup {req'[h].user} ELSE twice
            \/ /\ pc'[h] = "authorise" /\ req'[h].kind # "make_org" /\ req'[h].org \in orgs
               /\ twice' = twice
<1> USE DEF IInv
<1>1. ASSUME NEW u \in Users, AskOrg(h, u)
      PROVE  /\ UNCHANGED <<tables, raced>> /\ pc[h] = "idle"
             /\ pc'[h] = "home" /\ req'[h].kind = "make_org"
             /\ twice' = IF \E g \in Handlers : Enrolling(g) /\ req[g].user = req'[h].user
                         THEN twice \cup {req'[h].user} ELSE twice
  <2>1. req'[h] = [NoRequest EXCEPT !.user = u]
    BY <1>1 DEF AskOrg, TypeOK
  <2>2. req'[h].user = u /\ req'[h].kind = "make_org"
    BY <2>1 DEF NoRequest
  <2>3. /\ UNCHANGED <<tables, raced>> /\ pc[h] = "idle" /\ pc'[h] = "home"
        /\ twice' = IF \E g \in Handlers : Enrolling(g) /\ req[g].user = u
                    THEN twice \cup {u} ELSE twice
    BY <1>1 DEF AskOrg, GoTo, Enrolling, TypeOK
  <2> QED
    BY <2>2, <2>3
<1>2. ASSUME NEW k \in Kinds, NEW u \in Users, NEW t \in Users, NEW r \in Roles, NEW n \in Nat,
             Ask(h, k, u, t, r, n)
      PROVE  /\ UNCHANGED <<tables, raced>> /\ pc[h] = "idle"
             /\ pc'[h] = "authorise" /\ req'[h].kind # "make_org" /\ req'[h].org \in orgs
             /\ twice' = twice
  <2>1. OrgForUser(u) \subseteq orgs
    BY DEF OrgForUser, Homes
  <2> QED
    BY <1>2, <2>1 DEF Ask, GoTo, TypeOK
<1> QED
  BY <1>1, <1>2 DEF Asks

LEMMA AsksInvites ==
  ASSUME IInv, NEW h \in Handlers, Asks(h)
  PROVE  Routed' /\ InviteRows' /\ FoundInvite' /\ JoinsAsRead'
<1> USE DEF IInv
<1>1. /\ UNCHANGED <<orgs, invites, nextInvite, raced>>
      /\ \A g \in Handlers \ {h} : pc'[g] = pc[g] /\ req'[g] = req[g]
  BY AsksCases, OthersKeep DEF tables
<1>2. \/ pc'[h] = "home" /\ req'[h].kind = "make_org"
      \/ pc'[h] = "authorise" /\ req'[h].kind # "make_org" /\ req'[h].org \in orgs
  BY AsksCases
<1> QED
  BY <1>1, <1>2 DEF Routed, OrgSteps, HomeSteps, InviteRows, FoundInvite, JoinsAsRead

------------------------------------------------------------------------------
(* An org keeps an owner.                                                  *)
LEMMA WritesOwners ==
  ASSUME IInv, NEW h \in Handlers, Writes(h)
  PROVE  OwnedUnlessRaced' /\ LeavesAnOwner'
<1> USE DEF IInv
<1>1. LeavesAnOwner'
  <2>1. pc'[h] = "idle" /\ \A g \in Handlers \ {h} : pc'[g] = pc[g] /\ req'[g] = req[g]
    BY WritesEnd, OthersKeep
  <2> SUFFICES ASSUME NEW g \in Handlers \ {h}, pc[g] = "write", req[g].org \notin raced',
                      req[g].kind = "remove" \/ req[g].role = "member"
               PROVE  \E u \in Users : u # req[g].target /\ roles'[req[g].org][u] = "owner"
    BY <2>1 DEF LeavesAnOwner
  <2> QED
    BY WritesRows, KeptUnlessRaced DEF LeavesAnOwner
<1>2. raced \subseteq raced'
  BY WritesRows
<1>3. req[h].user \in Users /\ req[h].target \in Users /\ req[h].role \in Roles
  BY DEF TypeOK, Requests
<1> SUFFICES ASSUME NEW o \in orgs', o \notin raced'
             PROVE  \E u \in Users : roles'[o][u] = "owner"
  BY <1>1 DEF OwnedUnlessRaced, Owners
<1>4. o \in orgs => \E u \in Users : roles[o][u] = "owner"
  BY <1>2 DEF OwnedUnlessRaced, Owners
<1>5. o \in Orgs
  BY WritesType DEF TypeOK
<1>6. CASE SetMemberRole(h) \/ RemoveMember(h)
  <2>1. o \in orgs /\ pc[h] = "write" /\ (RemoveMember(h) => req[h].kind = "remove")
    BY <1>6 DEF SetMemberRole, RemoveMember
  <2>2. CASE o # req[h].org
    BY <1>4, <1>5, <1>6, <2>1, <2>2 DEF SetMemberRole, RemoveMember, TypeOK
  <2>3. CASE o = req[h].org /\ (req[h].kind = "remove" \/ req[h].role = "member")
    <3>1. PICK u \in Users : u # req[h].target /\ roles[o][u] = "owner"
      BY <1>2, <2>1, <2>3 DEF LeavesAnOwner
    <3> QED
      BY <1>5, <1>6, <3>1 DEF SetMemberRole, RemoveMember, TypeOK
  <2>4. CASE o = req[h].org /\ SetMemberRole(h) /\ req[h].role = "owner"
    <3>1. CASE roles[o][req[h].target] = "none"
      BY <1>4, <2>1, <2>4, <3>1 DEF SetMemberRole
    <3>2. CASE roles[o][req[h].target] # "none"
      BY <1>3, <1>5, <2>4, <3>2 DEF SetMemberRole, TypeOK
    <3> QED
      BY <3>1, <3>2
  <2> QED
    BY <1>3, <1>6, <2>1, <2>2, <2>3, <2>4 DEF Roles
<1>7. CASE CreateInvite(h) \/ RevokeInvite(h)
  <2>1. orgs' = orgs /\ roles' = roles
    BY <1>7, Zenon DEF CreateInvite, RevokeInvite
  <2> QED
    BY <1>4, <2>1
<1>8. CASE AcceptInvite(h)
  <2>1. /\ orgs' = orgs /\ roles' = [roles EXCEPT ![req[h].org][req[h].user] = req[h].role]
        /\ \/ roles[req[h].org][req[h].user] = "none"
           \/ raced' = raced \cup {req[h].org}
    BY <1>8, Zenon DEF AcceptInvite
  <2>2. PICK u \in Users : roles[o][u] = "owner"
    BY <1>4, <2>1
  <2>3. o # req[h].org \/ u # req[h].user
    BY <2>1, <2>2
  <2> QED
    BY <1>5, <2>1, <2>2, <2>3 DEF TypeOK
<1>9. CASE CreateOrg(h)
  BY <1>3, <1>4, <1>5, <1>9 DEF CreateOrg, TypeOK
<1> QED
  BY <1>6, <1>7, <1>8, <1>9 DEF Writes

LEMMA ReadsOwners ==
  ASSUME IInv, NEW h \in Handlers, Reads(h)
  PROVE  OwnedUnlessRaced' /\ LeavesAnOwner'
<1> USE DEF IInv
<1>1. /\ UNCHANGED <<orgs, roles, raced>>
      /\ \A g \in Handlers \ {h} : pc'[g] = pc[g] /\ req'[g] = req[g]
  BY ReadsKeepTables, OthersKeep DEF tables
<1>2. OwnedUnlessRaced'
  BY <1>1 DEF OwnedUnlessRaced, Owners
<1> SUFFICES ASSUME pc'[h] = "write", req'[h].org \notin raced,
                    req'[h].kind = "remove" \/ req'[h].role = "member"
             PROVE  \E u \in Users : u # req'[h].target /\ roles[req'[h].org][u] = "owner"
  BY <1>1, <1>2 DEF LeavesAnOwner
<1>3. CASE ReadRole(h)
  <2>1. /\ req' = req /\ pc[h] = "role"
        /\ roles[req[h].org][req[h].target] # "owner"
    BY <1>3 DEF ReadRole, GoTo, TypeOK
  <2>2. Owners(req[h].org) # {}
    BY <2>1 DEF Routed, OrgSteps, OwnedUnlessRaced
  <2> QED
    BY <2>1, <2>2 DEF Owners
<1>4. CASE CountOwners(h)
  <2>1. req' = req /\ Cardinality(Owners(req[h].org)) > 1
    BY <1>4 DEF CountOwners, GoTo, Answer, TypeOK
  <2>2. Owners(req[h].org) # {} /\ Owners(req[h].org) # {req[h].target}
    <3>1. Cardinality({}) = 0 /\ Cardinality({req[h].target}) = 1
      BY FS_EmptySet, FS_Singleton
    <3>2. Owners(req[h].org) = {} => Cardinality(Owners(req[h].org)) = 0
      BY <3>1
    <3>3. Owners(req[h].org) = {req[h].target} => Cardinality(Owners(req[h].org)) = 1
      BY <3>1
    <3> QED
      BY <2>1, <3>2, <3>3
  <2> QED
    BY <2>1, <2>2 DEF Owners
<1>5. CASE RequireOwner(h) \/ LookForHome(h) \/ Abort(h)
  BY <1>5 DEF RequireOwner, LookForHome, Abort, GoTo, Answer, TypeOK
<1>6. CASE FindPendingInvite(h) \/ SelectInvite(h)
  BY <1>6, FindPendingInviteCases, SelectInviteCases DEF TypeOK
<1> QED
  BY <1>3, <1>4, <1>5, <1>6 DEF Reads

LEMMA AsksOwners ==
  ASSUME IInv, NEW h \in Handlers, Asks(h)
  PROVE  OwnedUnlessRaced' /\ LeavesAnOwner'
<1>1. /\ UNCHANGED <<orgs, roles, raced>> /\ pc'[h] \in {"home", "authorise"}
      /\ \A g \in Handlers \ {h} : pc'[g] = pc[g] /\ req'[g] = req[g]
  BY AsksCases, OthersKeep DEF IInv, tables
<1> QED
  BY <1>1 DEF IInv, OwnedUnlessRaced, Owners, LeavesAnOwner

------------------------------------------------------------------------------
(* A user has one home.                                                    *)

\* Only the request of a user who signs in gives that user a home.
LEMMA WritesHomes ==
  ASSUME IInv, NEW h \in Handlers, Writes(h), NEW u \in Users
  PROVE  \/ Homes(u)' \subseteq Homes(u)
         \/ /\ pc[h] \in {"join", "create"} /\ req[h].user = u
            /\ \E o \in Orgs : Homes(u)' \subseteq Homes(u) \cup {o}
<1> USE DEF IInv, TypeOK
<1>1. CASE SetMemberRole(h) \/ RemoveMember(h)
  <2>1. req[h].org \in Orgs /\ orgs' = orgs
    BY <1>1 DEF SetMemberRole, RemoveMember, Routed, OrgSteps
  <2>2. \A o \in Orgs : roles[o][u] = "none" => roles'[o][u] = "none"
    BY <1>1, <2>1 DEF SetMemberRole, RemoveMember
  <2> QED
    BY <2>1, <2>2 DEF Homes
<1>2. CASE CreateInvite(h) \/ RevokeInvite(h)
  <2>1. orgs' = orgs /\ roles' = roles
    BY <1>2, Zenon DEF CreateInvite, RevokeInvite
  <2> QED
    BY <2>1 DEF Homes
<1>3. CASE AcceptInvite(h)
  <2>1. /\ pc[h] = "join" /\ orgs' = orgs
        /\ roles' = [roles EXCEPT ![req[h].org][req[h].user] = req[h].role]
    BY <1>3, Zenon DEF AcceptInvite
  <2>2. req[h].org \in Orgs
    BY <2>1 DEF Routed
  <2>3. \A o \in Orgs : roles'[o][u] = roles[o][u] \/ (o = req[h].org /\ u = req[h].user)
    BY <2>1, <2>2
  <2> QED
    BY <2>1, <2>2, <2>3 DEF Homes
<1>4. CASE CreateOrg(h)
  <2>1. PICK o \in Orgs \ orgs :
          orgs' = orgs \cup {o} /\ roles' = [roles EXCEPT ![o][req[h].user] = "owner"]
    BY <1>4 DEF CreateOrg
  <2>2. \A p \in Orgs : roles'[p][u] = roles[p][u] \/ (p = o /\ u = req[h].user)
    BY <2>1
  <2>3. pc[h] = "create" /\ roles[o][u] = "none"
    BY <1>4 DEF CreateOrg
  <2> QED
    BY <2>1, <2>2, <2>3 DEF Homes
<1> QED
  BY <1>1, <1>2, <1>3, <1>4 DEF Writes

LEMMA WritesHome ==
  ASSUME IInv, NEW h \in Handlers, Writes(h)
  PROVE  EnrolsAlone' /\ HomelessStill' /\ OneHome'
<1> USE DEF IInv
<1>1. /\ twice' = twice /\ pc'[h] = "idle"
      /\ \A g \in Handlers \ {h} : pc'[g] = pc[g] /\ req'[g] = req[g]
  BY WritesRows, WritesEnd, OthersKeep
<1>2. EnrolsAlone'
  BY <1>1 DEF EnrolsAlone, Enrolling
<1>3. HomelessStill'
  <2>1. \A g \in Handlers : req[g].user \in Users
    BY DEF TypeOK, Requests
  <2> SUFFICES ASSUME NEW g \in Handlers \ {h}, pc[g] \in {"find", "accept", "join", "create"},
                      NEW u \in Users \ twice, req[g].user = u
               PROVE  Homes(u)' = {}
    BY <1>1, <2>1 DEF HomelessStill
  <2>2. Homes(u) = {}
    BY DEF HomelessStill
  <2>3. ~(pc[h] \in {"join", "create"} /\ req[h].user = u)
    BY DEF EnrolsAlone, Enrolling, Routed, HomeSteps
  <2> QED
    BY <2>2, <2>3, WritesHomes
<1>4. OneHome'
  <2> SUFFICES ASSUME NEW u \in Users \ twice
               PROVE  \A o, p \in Homes(u)' : o = p
    BY <1>1 DEF OneHome
  <2>1. pc[h] \in {"join", "create"} /\ req[h].user = u => Homes(u) = {}
    BY DEF HomelessStill
  <2>2. \A o, p \in Homes(u) : o = p
    BY DEF OneHome
  <2> QED
    BY <2>1, <2>2, WritesHomes
<1> QED
  BY <1>2, <1>3, <1>4

LEMMA ReadsHome ==
  ASSUME IInv, NEW h \in Handlers, Reads(h)
  PROVE  EnrolsAlone' /\ HomelessStill' /\ OneHome'
<1> USE DEF IInv
<1>1. /\ UNCHANGED <<orgs, roles, twice>> /\ \A u \in Users : Homes(u)' = Homes(u)
      /\ \A g \in Handlers \ {h} : pc'[g] = pc[g] /\ req'[g] = req[g]
  BY ReadsKeepTables, OthersKeep DEF tables, Homes
<1>2. \/ pc'[h] = "idle"
      \/ /\ pc[h] # "idle" /\ req'[h].kind = req[h].kind /\ req'[h].user = req[h].user
         /\ pc'[h] \in {"find", "accept", "join", "create"} =>
              \/ pc[h] \in {"find", "accept"}
              \/ Homes(req[h].user) = {}
  <2>1. CASE FindPendingInvite(h)
    BY <2>1, FindPendingInviteCases DEF TypeOK
  <2>2. CASE SelectInvite(h)
    BY <2>2, SelectInviteCases DEF TypeOK
  <2>3. CASE RequireOwner(h) \/ ReadRole(h) \/ CountOwners(h) \/ LookForHome(h) \/ Abort(h)
    BY <2>3 DEF RequireOwner, ReadRole, CountOwners, LookForHome, Abort, GoTo, Answer, TypeOK
  <2> QED
    BY <2>1, <2>2, <2>3 DEF Reads
<1>3. \A g \in Handlers : req[g].user \in Users
  BY DEF TypeOK, Requests
<1>4. EnrolsAlone'
  BY <1>1, <1>2 DEF EnrolsAlone, Enrolling
<1>5. HomelessStill'
  <2>1. \A g \in Handlers : pc'[g] # "idle" => req'[g].user = req[g].user
    BY <1>1, <1>2
  <2> SUFFICES ASSUME NEW g \in Handlers, pc'[g] \in {"find", "accept", "join", "create"},
                      NEW u \in Users \ twice, req[g].user = u
               PROVE  Homes(u)' = {}
    BY <1>1, <1>3, <2>1 DEF HomelessStill
  <2>2. Homes(u) = {}
    BY <1>1, <1>2 DEF HomelessStill
  <2> QED
    BY <1>1, <2>2
<1>6. OneHome'
  BY <1>1 DEF OneHome
<1> QED
  BY <1>4, <1>5, <1>6

LEMMA AsksHome ==
  ASSUME IInv, NEW h \in Handlers, Asks(h)
  PROVE  EnrolsAlone' /\ HomelessStill' /\ OneHome'
<1> USE DEF IInv
<1>1. /\ UNCHANGED <<orgs, roles>> /\ \A u \in Users : Homes(u)' = Homes(u)
      /\ \A g \in Handlers \ {h} : pc'[g] = pc[g] /\ req'[g] = req[g]
      /\ pc[h] = "idle" /\ pc'[h] \in {"home", "authorise"}
  BY AsksCases, OthersKeep DEF tables, Homes
<1>2. twice \subseteq twice'
  BY AsksCases
<1>3. EnrolsAlone'
  <2>1. ASSUME NEW g \in Handlers \ {h}, Enrolling(g), Enrolling(h)', req[g].user = req'[h].user
        PROVE  req'[h].user \in twice'
    BY <2>1, AsksCases DEF Enrolling
  <2> QED
    BY <1>1, <1>2, <2>1 DEF EnrolsAlone, Enrolling
<1>4. HomelessStill'
  <2>1. \A g \in Handlers : req[g].user \in Users
    BY DEF TypeOK, Requests
  <2> SUFFICES ASSUME NEW g \in Handlers \ {h}, pc[g] \in {"find", "accept", "join", "create"},
                      NEW u \in Users \ twice, req[g].user = u
               PROVE  Homes(u)' = {}
    BY <1>1, <1>2, <2>1 DEF HomelessStill
  <2> QED
    BY <1>1 DEF HomelessStill
<1>5. OneHome'
  BY <1>1, <1>2 DEF OneHome
<1> QED
  BY <1>3, <1>4, <1>5

------------------------------------------------------------------------------
LEMMA NextIInv == IInv /\ [Next]_vars => IInv'
<1> SUFFICES ASSUME IInv, [Next]_vars PROVE IInv'
  OBVIOUS
<1>1. CASE Next
  <2>1. PICK h \in Handlers : Reads(h) \/ Writes(h) \/ Asks(h)
    BY <1>1, NextSplit DEF IInv
  <2>2. CASE Reads(h)
    BY <2>2, ReadsType, ReadsInvites, ReadsOwners, ReadsHome DEF IInv
  <2>3. CASE Writes(h)
    BY <2>3, WritesType, WritesRows, WritesInvites, WritesOwners, WritesHome DEF IInv
  <2>4. CASE Asks(h)
    BY <2>4, AsksType, AsksInvites, AsksOwners, AsksHome DEF IInv
  <2> QED
    BY <2>1, <2>2, <2>3, <2>4
<1>2. CASE UNCHANGED vars
  BY <1>2 DEF vars, IInv, TypeOK, Routed, InviteRows, FoundInvite, JoinsAsRead, OwnedUnlessRaced,
              Owners, LeavesAnOwner, EnrolsAlone, Enrolling, HomelessStill, Homes, OneHome
<1> QED
  BY <1>1, <1>2

LEMMA Inductive == Spec => []IInv
BY InitIInv, NextIInv, PTL DEF Spec

------------------------------------------------------------------------------
\* Tables and requests keep their types; members and invites belong to an org that
\* exists, and an address has one invite per org (migrations, orgs.py).
THEOREM TypeCorrect == Spec => []TypeOK
<1>1. IInv => TypeOK
  BY DEF IInv
<1> QED
  BY <1>1, Inductive, PTL

\* The count of owners in set_member_role and remove_member (orgs.py) keeps every
\* org owned that no two requests decided about at once.
THEOREM KeepsAnOwner == Spec => []OwnedUnlessRaced
<1>1. IInv => OwnedUnlessRaced
  BY DEF IInv
<1> QED
  BY <1>1, Inductive, PTL

\* POST /orgs gives a user one org, however often it is sent and whatever
\* invites, removals and aborts come in between, if no two are in the server at once.
THEOREM GivesOneHome == Spec => []OneHomeUnlessTwice
<1>1. ASSUME OneHome PROVE OneHomeUnlessTwice
  <2> SUFFICES ASSUME NEW u \in Users \ twice
               PROVE  Cardinality(Homes(u)) =< 1
    BY DEF OneHomeUnlessTwice
  <2>1. CASE Homes(u) = {}
    BY <2>1, FS_EmptySet
  <2>2. CASE Homes(u) # {}
    <3>1. PICK o : Homes(u) = {o}
      BY <1>1, <2>2 DEF OneHome
    <3> QED
      BY <3>1, FS_Singleton
  <2> QED
    BY <2>1, <2>2
<1>2. IInv => OneHomeUnlessTwice
  BY <1>1 DEF IInv
<1> QED
  BY <1>2, Inductive, PTL

\* The two writes of accept_invite (orgs.py) let nobody in but the addressee of an
\* invite that is pending then, in the role it gives, if nobody wrote the org since
\* the request read the invite.
THEOREM NobodyElseJoins == Spec => JoinsByPendingInvite
<1>1. IInv /\ [Next]_vars => [OnlyInvitedJoin]_vars
  <2> SUFFICES ASSUME IInv, [Next]_vars PROVE [OnlyInvitedJoin]_vars
    OBVIOUS
  <2> USE DEF IInv
  <2>1. CASE UNCHANGED vars
    BY <2>1
  <2>2. CASE Next
    <3> SUFFICES ASSUME NEW o \in orgs \ raced, NEW u \in Users, Joins(o, u)
                 PROVE  Invited(o, u)
      BY DEF OnlyInvitedJoin
    <3>1. PICK h \in Handlers : Reads(h) \/ Writes(h) \/ Asks(h)
      BY <2>2, NextSplit
    <3>2. Writes(h)
      BY <3>1, ReadsKeepTables, AsksCases DEF tables, Joins
    <3>3. o \in Orgs
      BY DEF TypeOK
    <3>4. AcceptInvite(h)
      <4>1. ~(SetMemberRole(h) \/ RemoveMember(h))
        BY <3>3 DEF SetMemberRole, RemoveMember, TypeOK, Joins
      <4>2. ~(CreateInvite(h) \/ RevokeInvite(h))
        BY Zenon DEF CreateInvite, RevokeInvite, Joins
      <4>3. ~CreateOrg(h)
        BY <3>3 DEF CreateOrg, TypeOK, Joins
      <4> QED
        BY <3>2, <4>1, <4>2, <4>3 DEF Writes
    <3>5. pc[h] = "join" /\ roles' = [roles EXCEPT ![req[h].org][req[h].user] = req[h].role]
      BY <3>4, Zenon DEF AcceptInvite
    <3>6. req[h].org = o /\ req[h].user = u /\ roles'[o][u] = req[h].role
      BY <3>3, <3>5 DEF TypeOK, Joins
    <3> QED
      BY <3>5, <3>6 DEF JoinsAsRead, Invited
  <2> QED
    BY <2>1, <2>2
<1> QED
  BY <1>1, Inductive, PTL DEF Spec, JoinsByPendingInvite
===============================================================================
