-------------------------------- MODULE Keys --------------------------------
(***************************************************************************)
(* frontend/app/app/keys/page.tsx and teluvane/apikeys.py: API keys are    *)
(* created, shown once and revoked, while an agent records with one of     *)
(* them through the JavaScript SDK (sdk-js/src/index.ts) and POST /events. *)
(***************************************************************************)
EXTENDS Api

CONSTANTS KeyIds,   \* bound: keys the org ever makes
          ApiKey    \* the key that the agent's recorder was constructed with

ASSUME KeysAssumption == ApiKey \in KeyIds

VARIABLE agent      \* the latest emit of the agent: how far it is, on both sides

KeyStates == {"none", "live", "revoked"}
NoEmit == [at |-> "ended", said |-> "", late |-> FALSE, kept |-> FALSE]

KeysPage == [page |-> "keys", keys |-> [k \in KeyIds |-> "none"], loading |-> TRUE, err |-> FALSE]

KeysInit ==
  /\ ui = KeysPage
  /\ server = [keys |-> [k \in KeyIds |-> "none"]]

-----------------------------------------------------------------------------
(* The page.  Neither button is disabled while its call is open.           *)
RefreshKeys == Call("read", {"keys"}, "", "refreshKeys")

KeysMount == ui.page = "keys" /\ Start(RefreshKeys) /\ UNCHANGED <<ui, server>>

CreateKey ==
  /\ Cardinality({s \in Slots : calls[s].then = "createKey"}) < Cardinality({k \in KeyIds : server.keys[k] = "none"})
  /\ Start(Call("write", {"keys"}, "", "createKey"))
  /\ ui' = [ui EXCEPT !.err = FALSE]

\* Defect: the page says "revoked" at the click and waits for nothing.
RevokeAtOnce(k) ==
  /\ ~ ui.loading /\ ui.keys[k] = "live"
  /\ Start(Call("write", {"keys"}, k, "revokeKey"))
  /\ ui' = [ui EXCEPT !.keys[k] = "revoked"]

RevokeKey(k) ==
  /\ ~ ui.loading /\ ui.keys[k] = "live"
  /\ Start(Call("write", {"keys"}, k, "revokeKey"))
  /\ UNCHANGED ui

KeysOffers ==
  /\ ui.page = "keys"
  /\ CreateKey \/ \E k \in KeyIds : RevokeKey(k)
  /\ UNCHANGED server

KeysRefreshed(s) ==
  /\ Answered(s, "refreshKeys")
  /\ ui' = [ui EXCEPT !.keys = calls[s].ans, !.loading = FALSE]
  /\ Finish(s)

\* The secret is shown from now on, until the next one is.
KeyCreated(s) == Answered(s, "createKey") /\ UNCHANGED ui /\ Send(At(s, RefreshKeys))

KeyRevoked(s) == Answered(s, "revokeKey") /\ UNCHANGED ui /\ Send(At(s, RefreshKeys))

\* Defect: an error leaves no message.
KeysCatchSilently(s) ==
  /\ Throw(s)
  /\ calls[s].then \in {"refreshKeys", "createKey", "revokeKey"}
  /\ ui' = [ui EXCEPT !.loading = FALSE]

KeysCatch(s) ==
  /\ Throw(s)
  /\ \/ calls[s].then = "refreshKeys" /\ ui' = [ui EXCEPT !.err = TRUE, !.loading = FALSE]
     \/ calls[s].then \in {"createKey", "revokeKey"} /\ ui' = [ui EXCEPT !.err = TRUE]

KeysContinue(s) ==
  /\ KeysRefreshed(s) \/ KeyCreated(s) \/ KeyRevoked(s) \/ KeysCatch(s)
  /\ UNCHANGED server

-----------------------------------------------------------------------------
(* The server.                                                             *)
CreateApiKey(s) ==
  LET unused == {k \in KeyIds : server.keys[k] = "none"}
      k      == CHOOSE x \in unused : TRUE
  IN /\ calls[s].then = "createKey" /\ unused # {}
     /\ Serve(s, [server EXCEPT !.keys[k] = "live"], "")

ListApiKeys(s)  == calls[s].then = "refreshKeys" /\ Serve(s, server, server.keys)
RevokeApiKey(s) == calls[s].then = "revokeKey" /\ Serve(s, [server EXCEPT !.keys[calls[s].arg] = "revoked"], "")

KeysServe(s) == CreateApiKey(s) \/ ListApiKeys(s) \/ RevokeApiKey(s)

\* resolve_api_key: the condition under which an event passes for the org's.
ResolveApiKey(k) == server.keys[k] = "live"

-----------------------------------------------------------------------------
(***************************************************************************)
(* An emit of the SDK: at is how far the server is with it, said what the  *)
(* promise came to.  late: when it was sent, the page showed its key as    *)
(* revoked.  kept: the event is recorded.  One emit at a time.             *)
(***************************************************************************)
Emit ==
  /\ agent.at = "ended" /\ agent.said # "waiting"
  /\ agent' = [at |-> "sent", said |-> "waiting", late |-> ui.keys[ApiKey] = "revoked", kept |-> FALSE]

\* recordLlmCall, recordToolCall and recordToolResult emit, each its own payload.
RecordStep == server.keys[ApiKey] # "none" /\ Emit

OrgFromApiKey ==
  /\ agent.at = "sent"
  /\ agent' = [agent EXCEPT !.at = IF ResolveApiKey(ApiKey) THEN "known" ELSE "refused"]

\* Store.append, which may fail with a 500.
IngestEvent ==
  /\ agent.at = "known"
  /\ \/ agent' = [agent EXCEPT !.at = "stored", !.kept = TRUE]
     \/ agent' = [agent EXCEPT !.at = "refused"]

\* Defect: the status is not looked at, as in recorder.py.
EmitAnsweredUnread ==
  /\ agent.at \in {"stored", "refused"}
  /\ agent' = [agent EXCEPT !.at = "ended", !.said = IF @ # "waiting" THEN @ ELSE "ok"]

\* The response arrives: emit resolves if res.ok, and throws if not.
EmitAnswered ==
  /\ agent.at \in {"stored", "refused"}
  /\ agent' = [agent EXCEPT !.at = "ended",
                            !.said = IF @ # "waiting" THEN @ ELSE IF agent.at = "stored" THEN "ok" ELSE "threw"]

\* The connection breaks: fetch throws, and the request is lost or goes on at the server.
EmitBreaks ==
  /\ agent.said = "waiting"
  /\ \/ agent' = [agent EXCEPT !.said = "threw"]
     \/ agent.at = "sent" /\ agent' = [agent EXCEPT !.said = "threw", !.at = "ended"]

AgentNext ==
  /\ ui.page = "keys"
  /\ RecordStep \/ OrgFromApiKey \/ IngestEvent \/ EmitAnswered \/ EmitBreaks
  /\ UNCHANGED apiVars

KeysNext ==
  \/ /\ \/ KeysMount \/ KeysOffers
        \/ \E s \in Slots : KeysServe(s) \/ KeysContinue(s)
     /\ UNCHANGED agent
  \/ AgentNext

-----------------------------------------------------------------------------
(***************************************************************************)
(* Once the page has shown a key as revoked, nothing that is sent with it  *)
(* is recorded: the page shows it only after the server refuses it         *)
(* (keys/page.tsx:44, apikeys.py:22).  An event sent before may still be.  *)
(***************************************************************************)
RevokedIsSilent == agent.kept => ~ agent.late

(***************************************************************************)
(* An emit that resolves is an event on record, whatever the server and    *)
(* the network do in between (sdk-js/src/index.ts:76-78).  One that throws *)
(* may be on record too.                                                   *)
(***************************************************************************)
AckMeansRecorded == agent.said = "ok" => agent.kept
=============================================================================
