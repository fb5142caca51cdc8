---------------------------- MODULE MCDrainerPool ----------------------------
(* A small instance of DrainerPool for TLC.                                *)
EXTENDS DrainerPool

CONSTANTS plain, posting, recon     \* members of Rows

\* A row whose consumer only calls Redis, one that opens a transaction, and
\* one that opens a transaction inside its transaction.
ThreeKinds ==
    [r \in Rows |-> CASE r = plain -> 1 [] r = posting -> 2 [] r = recon -> 3]
=============================================================================
