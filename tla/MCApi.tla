------------------------------- MODULE MCApi --------------------------------
(* Small instances, for TLC, of what the API does around ERPNext (ErpOps) and *)
(* of its idempotency layer (Idempotency).  They share no state, so one mix   *)
(* of the run has only the interceptor at work and the others only ERPNext's. *)
EXTENDS Idempotency, ErpOps

CONSTANTS p1, p2, n1, n2, s1, s2, c1, c2, w1, w2, q1, q2, q3, q4, tA, tB, k1

-----------------------------------------------------------------------------
(* The interceptor: two retries of one request, one with another body, and a  *)
(* request of the same user with the same key in another tenant.              *)

TwoTenants == [r \in Requests |-> IF r = q4 THEN tB ELSE tA]
OneKey == [r \in Requests |-> k1]
TwoBodies == [r \in Requests |-> IF r = q3 THEN "body2" ELSE "body1"]
AllBodies == {"body1", "body2"}

-----------------------------------------------------------------------------
(* ERPNext: two products, of which the first has stock at both stores, two    *)
(* ERPNext items and two bin views of the first.                              *)

Stock == [s \in Stores |-> [p \in Products |-> IF p = p1 THEN 1 ELSE None]]
Views == {None, [n \in {n1} |-> TRUE]}

BinViews == {[read |-> 1, qty |-> [n \in {n1} |-> 1]],
             [read |-> 2, qty |-> [n \in {n1} |-> 2]]}

OneItem ==
    <<[product |-> p1, ref |-> n1, state |-> "confirmed", retired |-> FALSE,
       version |-> 2, confirmed |-> 1, confirms |-> 1]>>
MappedStore(s) == <<[store |-> s, retired |-> FALSE]>>
OneCredential == <<[revoked |-> FALSE, expired |-> FALSE]>>

Suggested ==
    <<[product |-> p1, ref |-> n1, state |-> "suggested", retired |-> FALSE,
       version |-> 1, confirmed |-> 0, confirms |-> 0]>>

Mix(does, catalog, mapped, item, map, run, repair, cred, death) ==
    [does |-> does, catalog |-> catalog, mapped |-> mapped, issued |-> OneCredential,
     items |-> item, maps |-> map, runs |-> run, repairs |-> repair, creds |-> cred,
     deaths |-> death]

\* Stock runs against changes of the warehouse maps; against changes of the item
\* maps; their repairs; product runs and item maps; repairs of their results;
\* repairs of the backlog; credentials; and the interceptor alone.
StockMix == Mix({"stock", "bin", "warehouse"}, OneItem, MappedStore(s1), 1, 2, 1, 0, 1, 2)
TwoStockRuns == Mix({"stock", "bin", "warehouse"}, OneItem, MappedStore(s1), 1, 1, 2, 0, 1, 1)

NoErpMix == Mix({}, <<>>, <<>>, 0, 0, 0, 0, 0, 0)

AllMixes ==
    {StockMix,
     TwoStockRuns,
     Mix({"stock", "bin", "map"}, OneItem, MappedStore(s1), 2, 1, 1, 0, 1, 1),
     Mix({"stock", "bin", "stockrepair"}, OneItem, MappedStore(s1), 1, 1, 1, 2, 1, 1),
     Mix({"product", "map"}, Suggested, <<>>, 2, 0, 1, 0, 1, 2),
     Mix({"product", "repair"}, Suggested, <<>>, 2, 0, 1, 2, 1, 0),
     Mix({"map", "repair"}, Suggested, <<>>, 1, 0, 0, 2, 1, 0),
     Mix({"credential"}, <<>>, <<>>, 0, 0, 0, 0, 4, 1),
     NoErpMix}

-----------------------------------------------------------------------------

ApiInit == InterceptorInit /\ Init

HandleRequest == mix = NoErpMix /\ InterceptorNext /\ UNCHANGED vars
Integrate == Next /\ UNCHANGED interceptorVars

ApiSpec == ApiInit /\ [][HandleRequest \/ Integrate]_<<interceptorVars, vars>> /\ Fairness
=============================================================================
