--------------------------------- MODULE Team ---------------------------------
(***************************************************************************)
(* Orgs, members and invites (teluvane/orgs.py) behind the endpoints of    *)
(* teluvane/ingest.py that act on them.  A request is a sequence of short  *)
(* transactions, each of one or two statements; what one of them read may  *)
(* have changed when the next one writes.                                  *)
(*                                                                         *)
(* A user stands for the subject and the verified email of a token, so an  *)
(* invite is addressed to a user.                                          *)
(***************************************************************************)
EXTENDS Naturals, FiniteSets

CONSTANTS Users, Orgs,
          Handlers,      \* the threads that serve requests
          Nothing,       \* no org, no user, no invite
          MaxInvites,    \* bound: invite rows ever created
          MaxRequests    \* bound: requests

ASSUME NothingAssumption == Nothing \notin Users \cup Orgs
ASSUME UsersAssumption == Users # {}
ASSUME BoundsAssumption == MaxInvites \in Nat /\ MaxRequests \in Nat

Roles == {"owner", "member"}
Invites == [id : Nat, org : Orgs, email : Users, role : Roles, pending : BOOLEAN]
Kinds == {"set_role", "remove", "invite", "revoke", "make_org"}
Requests == [kind : Kinds, user : Users, org : Orgs \cup {Nothing},
             target : Users, role : Roles, invite : Nat]

VARIABLES
  orgs,        \* rows of orgs
  roles,       \* org_members: the role of each user in each org, or "none"
  invites,     \* rows of org_invites
  nextInvite,  \* its BIGSERIAL
  pc,          \* the transaction each handler runs next
  req,         \* what it was asked, and what it has looked up
  requests,    \* requests so far
  raced,       \* orgs written while another request had read what it then
               \* wrote, or joined by a user who had got in meanwhile
  twice        \* users two of whose POST /orgs were in the server at once

vars == <<orgs, roles, invites, nextInvite, pc, req, requests, raced, twice>>
tables == <<orgs, roles, invites, nextInvite>>

SomeUser == CHOOSE u \in Users : TRUE
NoRequest == [kind |-> "make_org", user |-> SomeUser, org |-> Nothing,
              target |-> SomeUser, role |-> "member", invite |-> 0]

Init ==
  /\ orgs = {}
  /\ roles = [o \in Orgs |-> [u \in Users |-> "none"]]
  /\ invites = {}
  /\ nextInvite = 1
  /\ pc = [h \in Handlers |-> "idle"]
  /\ req = [h \in Handlers |-> NoRequest]
  /\ requests = 0
  /\ raced = {}
  /\ twice = {}

------------------------------------------------------------------------------
Homes(u) == {o \in orgs : roles[o][u] # "none"}

\* org_for_user: ORDER BY role DESC LIMIT 1, an org the user owns before others.
OrgForUser(u) ==
  LET owned == {o \in Homes(u) : roles[o][u] = "owner"}
  IN  IF owned # {} THEN owned ELSE Homes(u)

Owners(o) == {u \in Users : roles[o][u] = "owner"}

GoTo(h, label) == pc' = [pc EXCEPT ![h] = label]

\* The request is answered, with success or an HTTP error.
Answer(h) ==
  /\ pc' = [pc EXCEPT ![h] = "idle"]
  /\ req' = [req EXCEPT ![h] = NoRequest]

\* Handlers that have read members or invites of org o and will write them.
Deciding(o) == {h \in Handlers : pc[h] \in {"count", "write", "join"} /\ req[h].org = o}

\* Handler h writes members or invites of org o.
Races(h, o) == raced' = IF Deciding(o) \ {h} # {} THEN raced \cup {o} ELSE raced

------------------------------------------------------------------------------
\* An endpoint under /orgs for the org of its caller (current_org).
Ask(h, kind, user, target, role, invite) ==
  /\ pc[h] = "idle"
  /\ requests < MaxRequests
  /\ kind # "make_org"
  /\ \E o \in OrgForUser(user) :
       req' = [req EXCEPT ![h] = [kind |-> kind, user |-> user, org |-> o, target |-> target,
                                  role |-> role, invite |-> invite]]
  /\ GoTo(h, "authorise")
  /\ requests' = requests + 1
  /\ UNCHANGED <<tables, raced, twice>>

\* require_owner.
RequireOwner(h) ==
  /\ pc[h] = "authorise"
  /\ \/ /\ roles[req[h].org][req[h].user] = "owner"
        /\ GoTo(h, IF req[h].kind \in {"set_role", "remove"} THEN "role" ELSE "invite")
        /\ UNCHANGED req
     \/ /\ roles[req[h].org][req[h].user] # "owner"
        /\ Answer(h)
  /\ UNCHANGED <<tables, requests, raced, twice>>

\* Only taking an owner's role away asks how many owners there are.
ReadRole(h) ==
  /\ pc[h] = "role"
  /\ LET lessens == req[h].kind = "remove" \/ req[h].role = "member"
     IN  GoTo(h, IF lessens /\ roles[req[h].org][req[h].target] = "owner" THEN "count" ELSE "write")
  /\ UNCHANGED <<tables, req, requests, raced, twice>>

\* Defect: an org of one owner may lose it.
CountNoOwners(h) ==
  /\ pc[h] = "count"
  /\ GoTo(h, "write")
  /\ UNCHANGED <<tables, req, requests, raced, twice>>

CountOwners(h) ==
  /\ pc[h] = "count"
  /\ \/ Cardinality(Owners(req[h].org)) > 1 /\ GoTo(h, "write") /\ UNCHANGED req
     \/ Cardinality(Owners(req[h].org)) =< 1 /\ Answer(h)
  /\ UNCHANGED <<tables, requests, raced, twice>>

\* The UPDATE finds no row where the target is not a member.
SetMemberRole(h) ==
  /\ pc[h] = "write"
  /\ req[h].kind = "set_role"
  /\ roles' = IF roles[req[h].org][req[h].target] = "none" THEN roles
              ELSE [roles EXCEPT ![req[h].org][req[h].target] = req[h].role]
  /\ Races(h, req[h].org)
  /\ Answer(h)
  /\ UNCHANGED <<orgs, invites, nextInvite, requests, twice>>

RemoveMember(h) ==
  /\ pc[h] = "write"
  /\ req[h].kind = "remove"
  /\ roles' = [roles EXCEPT ![req[h].org][req[h].target] = "none"]
  /\ Races(h, req[h].org)
  /\ Answer(h)
  /\ UNCHANGED <<orgs, invites, nextInvite, requests, twice>>

\* Defect: no ON CONFLICT, and no UNIQUE (org_id, email) to conflict with.
InsertInvite(h) ==
  /\ pc[h] = "invite"
  /\ req[h].kind = "invite"
  /\ nextInvite =< MaxInvites
  /\ invites' = invites \cup {[id |-> nextInvite, org |-> req[h].org, email |-> req[h].target,
                               role |-> req[h].role, pending |-> TRUE]}
  /\ nextInvite' = nextInvite + 1
  /\ Races(h, req[h].org)
  /\ Answer(h)
  /\ UNCHANGED <<orgs, roles, requests, twice>>

\* One row per org and email: inviting again renews it, accepted or not.
CreateInvite(h) ==
  /\ pc[h] = "invite"
  /\ req[h].kind = "invite"
  /\ LET old == {i \in invites : i.org = req[h].org /\ i.email = req[h].target} IN
     \/ /\ old # {}
        /\ invites' = (invites \ old) \cup
                      {[i EXCEPT !.role = req[h].role, !.pending = TRUE] : i \in old}
     \/ /\ old = {}
        /\ nextInvite =< MaxInvites
        /\ invites' = invites \cup {[id |-> nextInvite, org |-> req[h].org, email |-> req[h].target,
                                     role |-> req[h].role, pending |-> TRUE]}
  \* ON CONFLICT draws a number from the sequence as well (up to the bound).
  /\ nextInvite' = IF nextInvite =< MaxInvites THEN nextInvite + 1 ELSE nextInvite
  /\ Races(h, req[h].org)
  /\ Answer(h)
  /\ UNCHANGED <<orgs, roles, requests, twice>>

RevokeInvite(h) ==
  /\ pc[h] = "invite"
  /\ req[h].kind = "revoke"
  /\ invites' = {i \in invites : ~(i.id = req[h].invite /\ i.org = req[h].org /\ i.pending)}
  /\ Races(h, req[h].org)
  /\ Answer(h)
  /\ UNCHANGED <<orgs, roles, nextInvite, requests, twice>>

------------------------------------------------------------------------------
\* POST /orgs, which the dashboard sends after every sign-in.
AskOrg(h, u) ==
  /\ pc[h] = "idle"
  /\ requests < MaxRequests
  /\ req' = [req EXCEPT ![h] = [NoRequest EXCEPT !.user = u]]
  /\ GoTo(h, "home")
  /\ twice' = IF \E g \in Handlers : pc[g] \notin {"idle"} /\ req[g].kind = "make_org" /\ req[g].user = u
              THEN twice \cup {u} ELSE twice
  /\ requests' = requests + 1
  /\ UNCHANGED <<tables, raced>>

\* Defect: whether the caller has an org already is not asked.
LookForNoHome(h) ==
  /\ pc[h] = "home"
  /\ GoTo(h, "find")
  /\ UNCHANGED <<tables, req, requests, raced, twice>>

LookForHome(h) ==
  /\ pc[h] = "home"
  /\ \/ Homes(req[h].user) # {} /\ Answer(h)
     \/ Homes(req[h].user) = {} /\ GoTo(h, "find") /\ UNCHANGED req
  /\ UNCHANGED <<tables, requests, raced, twice>>

\* find_pending_invite: the oldest one, created_at being renewed with the row.
FindPendingInvite(h) ==
  /\ pc[h] = "find"
  /\ LET mine == {i \in invites : i.email = req[h].user /\ i.pending} IN
     \/ \E i \in mine :
          req' = [req EXCEPT ![h].invite = i.id] /\ GoTo(h, "accept")
     \/ mine = {} /\ GoTo(h, "create") /\ UNCHANGED req
  /\ UNCHANGED <<tables, requests, raced, twice>>

\* Defect: accept_invite does not ask for accepted_at IS NULL.
SelectUsedInvite(h) ==
  /\ pc[h] = "accept"
  /\ LET still == {i \in invites : i.id = req[h].invite} IN
     \/ \E i \in still :
          /\ req' = [req EXCEPT ![h].org = i.org, ![h].role = i.role]
          /\ GoTo(h, "join")
     \/ still = {} /\ Answer(h)
  /\ UNCHANGED <<tables, requests, raced, twice>>

\* accept_invite, its SELECT: the invite may be gone or used by now.
SelectInvite(h) ==
  /\ pc[h] = "accept"
  /\ LET still == {i \in invites : i.id = req[h].invite /\ i.pending} IN
     \/ \E i \in still :
          /\ req' = [req EXCEPT ![h].org = i.org, ![h].role = i.role]
          /\ GoTo(h, "join")
     \/ still = {} /\ Answer(h)
  /\ UNCHANGED <<tables, requests, raced, twice>>

\* And its two writes, committed together.  ON CONFLICT, a member who is there
\* already gets the role of the invite, an owner too.
AcceptInvite(h) ==
  /\ pc[h] = "join"
  /\ roles' = [roles EXCEPT ![req[h].org][req[h].user] = req[h].role]
  /\ invites' = {IF i.id = req[h].invite THEN [i EXCEPT !.pending = FALSE] ELSE i : i \in invites}
  /\ \/ roles[req[h].org][req[h].user] = "none" /\ Races(h, req[h].org)
     \/ roles[req[h].org][req[h].user] # "none" /\ raced' = raced \cup {req[h].org}
  /\ Answer(h)
  /\ UNCHANGED <<orgs, nextInvite, requests, twice>>

CreateOrg(h) ==
  /\ pc[h] = "create"
  /\ \E o \in Orgs \ orgs :
       /\ orgs' = orgs \cup {o}
       /\ roles' = [roles EXCEPT ![o][req[h].user] = "owner"]
  /\ Answer(h)
  /\ UNCHANGED <<invites, nextInvite, requests, raced, twice>>

\* The connection is lost or the process restarts.
Abort(h) ==
  /\ pc[h] # "idle"
  /\ Answer(h)
  /\ UNCHANGED <<tables, requests, raced, twice>>

Step(h) ==
  \/ RequireOwner(h) \/ ReadRole(h) \/ CountOwners(h) \/ SetMemberRole(h) \/ RemoveMember(h)
  \/ CreateInvite(h) \/ RevokeInvite(h)
  \/ LookForHome(h) \/ FindPendingInvite(h) \/ SelectInvite(h) \/ AcceptInvite(h) \/ CreateOrg(h)
  \/ Abort(h)

Next ==
  \E h \in Handlers :
    \/ Step(h)
    \/ \E u \in Users : AskOrg(h, u)
    \/ \E u, t \in Users, r \in Roles : Ask(h, "set_role", u, t, r, 0)
    \/ \E u, t \in Users : Ask(h, "remove", u, t, "member", 0)
    \/ \E u, t \in Users, r \in Roles : Ask(h, "invite", u, t, r, 0)
    \/ \E u \in Users, n \in 1 .. nextInvite - 1 : Ask(h, "revoke", u, u, "member", n)

Spec == Init /\ [][Next]_vars

------------------------------------------------------------------------------
\* The tables and the requests keep their types; memberships and invites belong
\* to an org that exists, and an org has one invite per address.
TypeOK ==
  /\ orgs \subseteq Orgs
  /\ roles \in [Orgs -> [Users -> Roles \cup {"none"}]]
  /\ invites \subseteq Invites
  /\ nextInvite \in Nat \ {0}
  /\ pc \in [Handlers -> {"idle", "authorise", "role", "count", "write", "invite",
                          "home", "find", "accept", "join", "create"}]
  /\ req \in [Handlers -> Requests]
  /\ requests \in Nat /\ raced \subseteq Orgs /\ twice \subseteq Users
  /\ \A o \in Orgs \ orgs, u \in Users : roles[o][u] = "none"
  /\ \A i, j \in invites : i.org = j.org /\ i.email = j.email => i = j

\* "An org needs at least one owner" (orgs.py) holds of an org as long as no
\* request writes it between another one's read and that one's write, and no
\* user of two overlapping POST /orgs becomes its owner by one and accepts an
\* invite as a member by the other.
OwnedUnlessRaced == \A o \in orgs \ raced : Owners(o) # {}

\* What set_member_role and remove_member say when they refuse, with nobody's
\* POST /orgs overlapping.
AlwaysOwned == twice = {} => \A o \in orgs : Owners(o) # {}

\* A user is in two orgs only if two of their POST /orgs overlapped, whatever
\* invites, removals and failed requests came in between.
OneHomeUnlessTwice == \A u \in Users \ twice : Cardinality(Homes(u)) =< 1

Joins(o, u) == roles[o][u] = "none" /\ roles'[o][u] # "none"

Invited(o, u) ==
  \E i \in invites : i.org = o /\ i.email = u /\ i.pending /\ i.role = roles'[o][u]

OnlyInvitedJoin == \A o \in orgs \ raced, u \in Users : Joins(o, u) => Invited(o, u)

\* A user enters an org that exists only with an invite of theirs that is neither
\* used nor revoked at that moment, and in the role it gives; a removed user does
\* not come back with the invite they came with.  Orgs in `raced` are excepted: one
\* who was found invited still joins by an invite that another request revoked,
\* renewed or used before accept_invite wrote (orgs.py:112-120).
JoinsByPendingInvite == [][OnlyInvitedJoin]_vars
===============================================================================
