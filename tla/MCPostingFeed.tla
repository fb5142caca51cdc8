--------------------------- MODULE MCPostingFeed ---------------------------
(* Small instances of PostingFeed for TLC.                                 *)
EXTENDS PostingFeed, TLC

CONSTANTS r1, r2, p1, s1

\* Two sales of the same product in the same store.
SameProduct == [r \in Refs |-> {p1}]
SameStore == [r \in Refs |-> s1]

FeedSymmetry ==
    Permutations(Refs) \cup Permutations(Txns) \cup Permutations(Documents)
=============================================================================
