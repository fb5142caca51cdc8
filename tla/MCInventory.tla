----------------------------- MODULE MCInventory -----------------------------
(* A small instance of Inventory for TLC: two stores, one product that may be *)
(* counted in two units, and a captured sale with an ad-hoc line.             *)
EXTENDS Inventory, TLC

CONSTANTS p1, u1

TwoLines == <<[product |-> p1, unit |-> u1, qty |-> 1],
              [product |-> None, unit |-> u1, qty |-> 1]>>

Entry(t, q, r) == [type |-> t, qty |-> q, reason |-> r]
Entries == {Entry("inbound", 1, FALSE), Entry("outbound", -1, FALSE),
            Entry("inbound", -1, TRUE), Entry("adjustment", 1, FALSE)}

\* Exact up to 1; a sum of -2 is read as -3, and a difference of 2 is one off.
Coarse == [n \in -2..2 |-> IF n = -2 THEN -3 ELSE n]
CoarseVariance ==
    [w \in (0..1) \X (-2..2) |->
        LET diff == w[1] - w[2]
        IN  IF diff \in -1..1 \/ w[2] \in -1..1 THEN diff ELSE diff + 1]

ClientSymmetry == Permutations(Clients)

=============================================================================
