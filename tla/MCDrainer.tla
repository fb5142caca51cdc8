------------------------------ MODULE MCDrainer ------------------------------
(* The drainer, for TLC: its table (Outbox) or the connection pool its ticks  *)
(* share with the process's other jobs (DrainerPool).  The two share no       *)
(* state, so a behaviour of the run moves one of them and leaves the other    *)
(* where it starts; fairness is the moving one's.                             *)
EXTENDS MCOutbox, MCDrainerPool

VARIABLE part       \* the component that moves: "table" or "pool"

drainerVars == <<vars, poolVars, part>>

DrainerInit == Init /\ PoolInit /\ part \in {"table", "pool"}

TableMoves == part = "table" /\ Next /\ UNCHANGED <<poolVars, part>>
PoolMoves == part = "pool" /\ PoolNext /\ UNCHANGED <<vars, part>>

DrainerSpec ==
    /\ DrainerInit
    /\ [][TableMoves \/ PoolMoves]_drainerVars
    /\ part = "table" => Fairness
    /\ part = "pool" => PoolFairness
=============================================================================
