------------------------------ MODULE Insights ------------------------------
(***************************************************************************)
(* frontend/app/app/insights/page.tsx: the trend of the last days, read    *)
(* anew when another range is chosen.  The server answers one point per    *)
(* day (store.py:111-129), so a trend is its number of points here.        *)
(***************************************************************************)
EXTENDS Api

CONSTANT Ranges

ASSUME InsightsAssumption == Ranges \subseteq Nat \ {0} /\ Ranges # {}

\* hover is the point under the pointer, from 1 on, and 0 for none.
TrendCard == [page |-> "insights", days |-> CHOOSE d \in Ranges : TRUE, data |-> 0, hover |-> 0, err |-> FALSE]

InsightsInit == ui = TrendCard /\ server = [trend |-> "violations"]

RefreshTrend(days) == Call("read", {"trend"}, days, "refreshTrend")

InsightsMount == ui.page = "insights" /\ Start(RefreshTrend(ui.days)) /\ UNCHANGED <<ui, server>>

\* A button of another range; the pointer is on the button then.
ChooseRange(d) ==
  /\ d # ui.days
  /\ ui' = [ui EXCEPT !.days = d, !.hover = 0]
  /\ Start(RefreshTrend(d))

\* The chart draws data[hover]: an index beyond the data throws out of the render.
Drawn == ui.hover <= ui.data

Hover(i) == ui' = [ui EXCEPT !.hover = i] /\ UNCHANGED <<calls, trust>>

InsightsOffers ==
  /\ ui.page = "insights" /\ Drawn
  /\ \/ \E d \in Ranges : ChooseRange(d)
     \/ \E i \in {0, ui.data} \ {ui.hover} : Hover(i)
  /\ UNCHANGED server

TrendRefreshed(s) ==
  /\ Answered(s, "refreshTrend")
  /\ ui' = [ui EXCEPT !.data = calls[s].ans]
  /\ Finish(s)

InsightsCatch(s) ==
  /\ Throw(s)
  /\ calls[s].then = "refreshTrend"
  /\ ui' = [ui EXCEPT !.err = TRUE]

InsightsContinue(s) == (TrendRefreshed(s) \/ InsightsCatch(s)) /\ UNCHANGED server

InsightsServe(s) == calls[s].then = "refreshTrend" /\ Serve(s, server, calls[s].arg)

\* After an error in the render the page is blank until it is loaded again.
Reload == ui.page = "insights" /\ ~ Drawn /\ NewDocument(TrendCard)

InsightsNext ==
  \/ InsightsMount \/ InsightsOffers \/ Reload
  \/ \E s \in Slots : InsightsServe(s) \/ InsightsContinue(s)
=============================================================================
