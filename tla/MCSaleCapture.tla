--------------------------- MODULE MCSaleCapture ---------------------------
(* Instances of SaleCapture for TLC.                                       *)
EXTENDS SaleCapture, TLC

CONSTANTS u1, u2

\* Two tills at two stores.
TwoStores == u1 :> "north" @@ u2 :> "south"

Symmetry == Permutations(Sales) \cup Permutations(Keys) \cup Permutations(Refs)
              \cup Permutations(Txns)
=============================================================================
