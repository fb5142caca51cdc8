----------------------------- MODULE MCCatalogue -----------------------------
(* The catalogue, for TLC: its review queue (UnknownItems) or its read-down   *)
(* to a till (ReadDown).  The two models share no state, so a behaviour of    *)
(* the run moves one of them and leaves the other where it starts; fairness   *)
(* is the read-down's.                                                        *)
EXTENDS MCUnknownItems, MCReadDown

VARIABLE part       \* the component that moves: "queue" or "readdown"

catalogueVars == <<vars, readDownVars, part>>

CatalogueInit == Init /\ ReadDownInit /\ part \in {"queue", "readdown"}

QueueMoves == part = "queue" /\ Next /\ UNCHANGED <<readDownVars, part>>
ReadDownMoves == part = "readdown" /\ ReadDownNext /\ UNCHANGED <<vars, part>>

CatalogueSpec ==
    /\ CatalogueInit
    /\ [][QueueMoves \/ ReadDownMoves]_catalogueVars
    /\ part = "readdown" => Fairness
=============================================================================
