------------------------------ MODULE Workspace ------------------------------
(***************************************************************************)
(* frontend/app/app/page.tsx: the list of sessions with its search, and    *)
(* the session that is selected, with its events, chain and verdicts.      *)
(* One flag, busy, tells of four operations.  The page has three scenes:   *)
(* "list" is the list with its search, "view" the selected session, and    *)
(* "demo" the list of a new workspace, where the demo is offered.          *)
(*                                                                         *)
(* Of events, a chain verdict or tribunal verdicts only the session they   *)
(* are of is kept; of a list the search, and the number of rows.           *)
(***************************************************************************)
EXTENDS Api

CONSTANTS PageSize,     \* PAGE_SIZE of the page, 25
          Clamp,        \* the server's greatest limit, 200
          MaxLimit,     \* bound: the page asks for no more
          MaxSessions,  \* bound: sessions in the org
          SessionIds    \* sessions that exist and are opened

ASSUME WorkspaceAssumption ==
  {PageSize, Clamp, MaxLimit, MaxSessions} \subseteq Nat \ {0} /\ "demo" \notin SessionIds

Searches == {"", "q"}

ListHalf == [page |-> "list",
             search |-> "", timer |-> TRUE, debounced |-> "", limit |-> PageSize,
             rows |-> [q |-> "", n |-> 0], hasMore |-> FALSE,
             busy |-> "", err |-> FALSE]
ViewHalf == [page |-> "view", session |-> "", events |-> "", chain |-> "", verdicts |-> "",
             busy |-> "", err |-> FALSE]
DemoHalf == [page |-> "demo",
             search |-> "", timer |-> TRUE, debounced |-> "", limit |-> PageSize,
             rows |-> [q |-> "", n |-> 0], hasMore |-> FALSE,
             session |-> "", events |-> "", chain |-> "", verdicts |-> "",
             busy |-> "", err |-> FALSE]

WorkspaceInit ==
  \/ ui = ViewHalf /\ server = [sessions |-> SessionIds]
  \/ ui = ListHalf /\ server \in {[matching |-> [q \in Searches |-> n]] : n \in {0, 1}}
  \/ ui = DemoHalf /\ server = [matching |-> [q \in Searches |-> 0]]

-----------------------------------------------------------------------------
(* The list.                                                               *)
LoadSessions(q, n) == Call("read", {"list"}, <<q, n>>, "loadSessions")

Least(S) == CHOOSE x \in S : \A y \in S : x <= y

\* GET /sessions?limit=n&q=q: the newest rows, n at most and no more than the clamp.
ListSessions(q, n) == [q |-> q, n |-> Least({n, Clamp, server.matching[q]})]

ListMount ==
  /\ ui.page \in {"list", "demo"}
  /\ Start(LoadSessions(ui.debounced, ui.limit))
  /\ UNCHANGED <<ui, server>>

Search(q) ==
  /\ q # ui.search
  /\ ui.rows.n > 0 \/ ui.debounced # ""
  /\ ui' = [ui EXCEPT !.search = q, !.timer = TRUE]
  /\ UNCHANGED <<server, calls, trust>>

\* 300 ms after the last key; the list is read again if this changes what it is read with.
Debounce ==
  /\ ui.timer
  /\ ui' = [ui EXCEPT !.timer = FALSE, !.debounced = ui.search, !.limit = PageSize]
  /\ IF <<ui.search, PageSize>> = <<ui.debounced, ui.limit>>
     THEN UNCHANGED <<calls, trust>>
     ELSE Start(LoadSessions(ui.search, PageSize))
  /\ UNCHANGED server

LoadMore ==
  /\ ui.hasMore /\ ui.limit + PageSize <= MaxLimit
  /\ ui' = [ui EXCEPT !.limit = @ + PageSize]
  /\ Start(LoadSessions(ui.debounced, ui.limit + PageSize))
  /\ UNCHANGED server

ListOffers ==
  /\ ui.page \in {"list", "demo"}
  /\ \/ ui.page = "list" /\ \E q \in Searches : Search(q)
     \/ Debounce
     \/ LoadMore

\* Defect: a page that is full is taken for the last one.
ListedAll(s) ==
  ui' = [ui EXCEPT !.rows = calls[s].ans, !.hasMore = calls[s].ans.n > calls[s].arg[2]]

\* hasMore compares with the limit that this read was sent with.
Listed(s) ==
  ui' = [ui EXCEPT !.rows = calls[s].ans, !.hasMore = calls[s].ans.n = calls[s].arg[2]]

SessionsLoaded(s) == Answered(s, "loadSessions") /\ Listed(s) /\ Finish(s)

\* An agent records in a session that is new and does not match the search.
NewSession ==
  /\ \/ ui.page = "list" /\ server.matching[""] < MaxSessions
     \/ ui.page = "demo" /\ server.matching[""] < PageSize
  /\ Elsewhere("list", [server EXCEPT !.matching[""] = @ + 1])

-----------------------------------------------------------------------------
(* The demo: seed, read the list, load the new session.  The list is read  *)
(* with the search and the limit of the click.                             *)
SeedDemo ==
  /\ ui.page = "demo"
  /\ ui.rows.n = 0 /\ ui.debounced = "" /\ ui.busy # "demo"
  /\ server.matching[""] <= PageSize
  /\ Start(Call("write", {"list", "busy"}, <<ui.debounced, ui.limit>>, "seedDemo"))
  /\ ui' = [ui EXCEPT !.err = FALSE, !.busy = "demo"]
  /\ UNCHANGED server

\* Defect: the verdicts of the session before stay on the page.
SelectedOnly(id) == [ui EXCEPT !.session = id, !.err = FALSE, !.busy = "load"]

LoadEvents(id) == Call("read", {"view", "busy"}, id, "loadEvents")
Selected(id)   == [ui EXCEPT !.session = id, !.err = FALSE, !.busy = "load", !.verdicts = ""]

DemoSeeded(s) ==
  /\ Answered(s, "seedDemo")
  /\ Send(At(s, Call("read", {"list", "busy"}, calls[s].arg, "listDemo")))
  /\ UNCHANGED ui

(***************************************************************************)
(* loadSessions catches its own error, so the demo is loaded either way.   *)
(* It is the loadSessions of the click: when the search or the limit have  *)
(* changed since, the list is not what the page asks for any more.         *)
(***************************************************************************)
Overtaken(s) == [trust EXCEPT !["list"] = IF calls[s].arg = <<ui.debounced, ui.limit>> THEN @ ELSE "raced"]

DemoListed(s) ==
  \/ /\ Answered(s, "listDemo")
     /\ ui' = [Selected("demo") EXCEPT !.rows = calls[s].ans, !.hasMore = calls[s].ans.n = calls[s].arg[2]]
     /\ SendFrom(Overtaken(s), At(s, LoadEvents("demo")))
  \/ /\ calls[s].then = "listDemo" /\ calls[s].st = "out"
     /\ ui' = Selected("demo")
     /\ SendFrom(Doubts(s), At(s, LoadEvents("demo")))

-----------------------------------------------------------------------------
(* The selected session.                                                   *)
Load(id) ==
  /\ ui' = Selected(id)
  /\ Start(LoadEvents(id))

\* Typing a session id selects it and reads nothing.
Paste(id) ==
  /\ id # ui.session
  /\ ui' = [ui EXCEPT !.session = id]
  /\ trust' = [trust EXCEPT !["view"] = "raced"]
  /\ UNCHANGED calls

PickOffers ==
  /\ ui.page = "view"
  /\ \/ \E id \in SessionIds : Load(id)
     \/ (ui.session # "" /\ ui.busy # "load") /\ Load(ui.session)
     \/ \E id \in SessionIds \cup {""} : Paste(id)
  /\ UNCHANGED server

Audit ==
  /\ ui.busy # "audit"
  /\ ui' = [ui EXCEPT !.err = FALSE, !.busy = "audit"]
  /\ Start(Call("write", {"view", "busy"}, ui.session, "audit"))

OpenEvidence == Start(Call("read", {}, ui.session, "openEvidence")) /\ UNCHANGED ui

DownloadEvidencePdf ==
  /\ ui.busy # "pdf"
  /\ ui' = [ui EXCEPT !.err = FALSE, !.busy = "pdf"]
  /\ Start(Call("read", {"busy"}, ui.session, "downloadEvidencePdf"))

SessionOffers ==
  /\ ui.page = "view" /\ ui.session # ""
  /\ Audit \/ OpenEvidence \/ DownloadEvidencePdf
  /\ UNCHANGED server

EventsLoaded(s) ==
  /\ Answered(s, "loadEvents")
  /\ ui' = [ui EXCEPT !.events = calls[s].ans]
  /\ Send(At(s, Call("read", {"view", "busy"}, calls[s].arg, "loadChain")))

ChainLoaded(s) ==
  /\ Answered(s, "loadChain")
  /\ ui' = [ui EXCEPT !.chain = calls[s].ans, !.busy = ""]
  /\ Finish(s)

Audited(s) ==
  /\ Answered(s, "audit")
  /\ ui' = [ui EXCEPT !.verdicts = calls[s].ans, !.busy = ""]
  /\ Finish(s)

EvidenceOpened(s) == Answered(s, "openEvidence") /\ UNCHANGED ui /\ Finish(s)
PdfDownloaded(s)  == Answered(s, "downloadEvidencePdf") /\ ui' = [ui EXCEPT !.busy = ""] /\ Finish(s)

-----------------------------------------------------------------------------
WorkspaceServe(s) ==
  LET c == calls[s]
  IN \/ c.then \in {"loadSessions", "listDemo"} /\ Serve(s, server, ListSessions(c.arg[1], c.arg[2]))
     \/ c.then = "seedDemo" /\ Serve(s, [server EXCEPT !.matching[""] = @ + 1], "")
     \/ c.then \in {"loadEvents", "loadChain", "audit", "openEvidence", "downloadEvidencePdf"} /\ Serve(s, server, c.arg)


\* The catch and finally blocks; openEvidence and loadSessions leave busy alone.
WorkspaceCatch(s) ==
  /\ Throw(s)
  /\ \/ calls[s].then \in {"loadSessions", "openEvidence"} /\ ui' = [ui EXCEPT !.err = TRUE]
     \/ /\ calls[s].then \in {"seedDemo", "loadEvents", "loadChain", "audit", "downloadEvidencePdf"}
        /\ ui' = [ui EXCEPT !.err = TRUE, !.busy = ""]

WorkspaceContinue(s) ==
  /\ \/ SessionsLoaded(s) \/ DemoSeeded(s) \/ DemoListed(s)
     \/ EventsLoaded(s) \/ ChainLoaded(s) \/ Audited(s) \/ EvidenceOpened(s) \/ PdfDownloaded(s)
     \/ WorkspaceCatch(s)
  /\ UNCHANGED server

WorkspaceNext ==
  \/ ListMount \/ ListOffers \/ NewSession \/ SeedDemo \/ PickOffers \/ SessionOffers
  \/ \E s \in Slots : WorkspaceServe(s) \/ WorkspaceContinue(s)

-----------------------------------------------------------------------------
(***************************************************************************)
(* What the page shows under the name of a session is of that session, and *)
(* its verdicts are of no other: once its calls have ended, unless calls   *)
(* about different sessions or an audit overlapped, one of them threw, or  *)
(* another id was typed since.  load and audit write whatever arrives,     *)
(* page.tsx:51-70.                                                         *)
(***************************************************************************)
ViewIsOfSession ==
  ui.page \in {"demo", "view"} /\ trust["view"] = "clean" /\ Quiet("view") =>
    /\ ui.events = ui.session /\ ui.chain = ui.session
    /\ ui.verdicts \in {"", ui.session}

(***************************************************************************)
(* The list is the answer to the search and the limit of the page, and it  *)
(* is complete or offers more, as long as the limit is one the server      *)
(* grants (page.tsx:39-48 takes as many rows as the limit for the signal   *)
(* that more may exist, store.py:150-152).                                 *)
(***************************************************************************)
ListIsComplete ==
  ui.page \in {"list", "demo"} /\ trust["list"] = "clean" /\ Quiet("list") =>
    /\ ui.rows = ListSessions(ui.debounced, ui.limit)
    /\ (ui.limit <= Clamp /\ ~ ui.hasMore) => ui.rows.n = server.matching[ui.debounced]
=============================================================================
