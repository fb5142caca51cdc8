---------------------------- MODULE MCSettlement ----------------------------
(* A small instance of Settlement for TLC: two stores, a sale in one of     *)
(* them, an insurer known to the whole tenant, and a payer of the other.     *)
EXTENDS Settlement, TLC

CONSTANTS insurer, local, s1, s2, saleA

InsurerAndLocal == insurer :> TenantWide @@ local :> s2
SaleInFirst == saleA :> s1

TxnSymmetry == Permutations(Txns)

=============================================================================
