------------------------------ MODULE Billing ------------------------------
(***************************************************************************)
(* frontend/app/app/billing/page.tsx: the plan, and the way out to the     *)
(* provider's checkout or portal and back.  The plan itself is changed by  *)
(* the provider's webhooks (module Plan), at any time.                     *)
(***************************************************************************)
EXTENDS Api

BillingCard(upgraded) ==
  [page |-> "billing", plan |-> "checking", upgraded |-> upgraded, busy |-> "", away |-> FALSE,
   loading |-> TRUE, err |-> FALSE]

BillingInit == ui = BillingCard(FALSE) /\ server \in [plan : {"free", "pro"}]

\* Promise.all of plan and usage.
RefreshPlan == Call("read", {"plan"}, "", "refreshPlan")

BillingMount == ui.page = "billing" /\ ~ ui.away /\ Start(RefreshPlan) /\ UNCHANGED <<ui, server>>

IsPro == ui.plan = "pro"

Upgrade ==
  /\ ~ IsPro /\ ui.busy # "checkout"
  /\ Start(Call("write", {"busy"}, "", "upgrade"))
  /\ ui' = [ui EXCEPT !.err = FALSE, !.busy = "checkout"]

Manage ==
  /\ IsPro /\ ui.busy # "portal"
  /\ Start(Call("write", {"busy"}, "", "manage"))
  /\ ui' = [ui EXCEPT !.err = FALSE, !.busy = "portal"]

BillingOffers ==
  /\ ui.page = "billing" /\ ~ ui.away /\ ~ ui.loading
  /\ Upgrade \/ Manage
  /\ UNCHANGED server

PlanRefreshed(s) ==
  /\ Answered(s, "refreshPlan")
  /\ ui' = [ui EXCEPT !.plan = calls[s].ans, !.loading = FALSE]
  /\ Finish(s)

\* window.location.href = r.url: the document goes on until the next one is there.
SentAway(s) ==
  /\ Answered(s, "upgrade") \/ Answered(s, "manage")
  /\ ui' = [ui EXCEPT !.away = TRUE]
  /\ Finish(s)

BillingCatch(s) ==
  /\ Throw(s)
  /\ \/ calls[s].then = "refreshPlan" /\ ui' = [ui EXCEPT !.err = TRUE, !.loading = FALSE]
     \/ calls[s].then \in {"upgrade", "manage"} /\ ui' = [ui EXCEPT !.err = TRUE, !.busy = ""]

BillingContinue(s) ==
  /\ PlanRefreshed(s) \/ SentAway(s) \/ BillingCatch(s)
  /\ UNCHANGED server

BillingServe(s) ==
  \/ calls[s].then = "refreshPlan" /\ Serve(s, server, server.plan)
  \/ calls[s].then \in {"upgrade", "manage"} /\ Serve(s, server, "")

\* The provider sends the user back, with ?upgraded=true after a checkout, to a new document.
ComeBack ==
  /\ ui.page = "billing" /\ ui.away
  /\ NewDocument(BillingCard(ui.busy = "checkout"))

SubscriptionChanges ==
  /\ ui.page = "billing"
  /\ \E plan \in {"free", "pro"} \ {server.plan} : Elsewhere("plan", [plan |-> plan])

BillingNext ==
  \/ BillingMount \/ BillingOffers \/ ComeBack \/ SubscriptionChanges
  \/ \E s \in Slots : BillingServe(s) \/ BillingContinue(s)
=============================================================================
