------------------------------ MODULE TeamPage ------------------------------
(***************************************************************************)
(* frontend/app/app/team/page.tsx: members and invites as one member of    *)
(* the org sees and changes them, while another owner does the same.  The  *)
(* requests of two owners, database statement by statement, are Team's;    *)
(* here a request is one step, and the page is what is looked at.          *)
(***************************************************************************)
EXTENDS Api

CONSTANTS Self, Members, Emails

ASSUME TeamPageAssumption == Self \in Members

Ranks == {"owner", "member", "gone"}

Nobody   == [members |-> [u \in Members |-> "gone"], invites |-> {}]
TeamCard == [page |-> "team", team |-> Nobody, busy |-> FALSE, err |-> FALSE]

TeamPageInit ==
  /\ ui = TeamCard
  /\ server \in {[team |-> [members |-> [u \in Members |-> IF u = Self THEN r ELSE "owner"], invites |-> {}]] :
                 r \in {"owner", "member"}}

-----------------------------------------------------------------------------
\* Promise.all of members and invites: both arrive, or the page keeps what it has.
RefreshTeam == Call("read", {"team"}, "", "refreshTeam")

TeamMount == ui.page = "team" /\ Start(RefreshTeam) /\ UNCHANGED <<ui, server>>

IsOwner == ui.team.members[Self] = "owner"

InviteMember(e) ==
  /\ ~ ui.busy
  /\ Start(Call("write", {"team", "busy"}, e, "invite"))
  /\ ui' = [ui EXCEPT !.err = FALSE, !.busy = TRUE]

WithdrawInvite(e) == e \in ui.team.invites /\ Start(Call("write", {"team"}, e, "revokeInvite")) /\ UNCHANGED ui

\* The button names the other role than the one that is shown.
OtherRole(r) == IF r = "owner" THEN "member" ELSE "owner"
Shows(u)     == u # Self /\ ui.team.members[u] # "gone"

ChangeRole(u) ==
  /\ Shows(u)
  /\ Start(Call("write", {"team"}, <<u, OtherRole(ui.team.members[u])>>, "changeRole"))
  /\ UNCHANGED ui

RemoveFromTeam(u) == Shows(u) /\ Start(Call("write", {"team"}, u, "removeMember")) /\ UNCHANGED ui

MembersOffer ==
  /\ ui.page = "team" /\ IsOwner
  /\ \E u \in Members : ChangeRole(u) \/ RemoveFromTeam(u)
  /\ UNCHANGED server

InvitesOffer ==
  /\ ui.page = "team" /\ IsOwner
  /\ \E e \in Emails : InviteMember(e) \/ WithdrawInvite(e)
  /\ UNCHANGED server

TeamRefreshed(s) ==
  /\ \/ Answered(s, "refreshTeam") /\ ui' = [ui EXCEPT !.team = calls[s].ans]
     \/ Answered(s, "readTeam") /\ ui' = [ui EXCEPT !.team = calls[s].ans, !.busy = FALSE]
  /\ Finish(s)

Invited(s) ==
  /\ Answered(s, "invite") /\ UNCHANGED ui
  /\ Send(At(s, Call("read", {"team", "busy"}, "", "readTeam")))

TeamChanged(s) ==
  /\ calls[s].then \in {"revokeInvite", "changeRole", "removeMember"}
  /\ Answered(s, calls[s].then) /\ UNCHANGED ui
  /\ Send(At(s, RefreshTeam))

TeamCatch(s) ==
  /\ Throw(s)
  /\ \/ /\ calls[s].then \in {"refreshTeam", "revokeInvite", "changeRole", "removeMember"}
        /\ ui' = [ui EXCEPT !.err = TRUE]
     \/ calls[s].then \in {"invite", "readTeam"} /\ ui' = [ui EXCEPT !.err = TRUE, !.busy = FALSE]

TeamPageContinue(s) ==
  /\ TeamRefreshed(s) \/ Invited(s) \/ TeamChanged(s) \/ TeamCatch(s)
  /\ UNCHANGED server

-----------------------------------------------------------------------------
(* The server: who may, and what changes.                                  *)
Rank(u)   == server.team.members[u]
OnlyOwner == Cardinality({u \in Members : Rank(u) = "owner"}) <= 1

Granted(c) ==
  IF c.do = "read" THEN Rank(Self) # "gone"
  ELSE /\ Rank(Self) = "owner"
       /\ c.then = "changeRole" => ~ (c.arg[2] = "member" /\ Rank(c.arg[1]) = "owner" /\ OnlyOwner)
       /\ c.then = "removeMember" => ~ (Rank(c.arg) = "owner" /\ OnlyOwner)

Teamed(c) ==
  CASE c.then = "invite"       -> [server EXCEPT !.team.invites = @ \cup {c.arg}]
    [] c.then = "revokeInvite" -> [server EXCEPT !.team.invites = @ \ {c.arg}]
    [] c.then = "changeRole"   -> [server EXCEPT !.team.members[c.arg[1]] = IF @ = "gone" THEN @ ELSE c.arg[2]]
    [] c.then = "removeMember" -> [server EXCEPT !.team.members[c.arg] = "gone"]
    [] OTHER                   -> server

TeamServe(s) ==
  /\ ui.page = "team" /\ ~ Vacant(s)
  /\ IF Granted(calls[s]) THEN Serve(s, Teamed(calls[s]), IF calls[s].do = "read" THEN server.team ELSE Nobody) ELSE Refuse(s)

\* Another owner sets somebody's role or removes somebody; one owner stays.  (Bound:
\* who is gone does not join again.)
TeamElsewhere ==
  /\ ui.page = "team"
  /\ \E u \in {m \in Members : Rank(m) # "gone"}, r \in Ranks :
       LET team == [server.team EXCEPT !.members[u] = r]
       IN /\ \E o \in Members : team.members[o] = "owner"
          /\ Elsewhere("team", [server EXCEPT !.team = team])

TeamPageNext ==
  \/ TeamMount \/ MembersOffer \/ InvitesOffer \/ TeamElsewhere
  \/ \E s \in Slots : TeamServe(s) \/ TeamPageContinue(s)
=============================================================================
