----------------------------- MODULE DrainerPool -----------------------------
(***************************************************************************)
(* The drainer's tick and the connection pool it shares with the other     *)
(* jobs of the worker process.  tick() claims a batch and then starts      *)
(* processRow for all its rows at once.  invokeConsumer keeps a connection *)
(* (the transaction of runWithTenantContext) while consumer.handle runs,   *)
(* and a consumer may take further ones of the same pool inside it: the    *)
(* consumers of the erpnext.* events one, and the reconciliation consumer  *)
(* a second when its bin view reads the report inside the transaction of   *)
(* the run.  The pool is pg's: at most MaxConnections clients, waiters     *)
(* served first come first served, no timeout.                             *)
(***************************************************************************)
EXTENDS Naturals, Sequences, FiniteSets

CONSTANTS
    Rows,           \* the rows of a batch: at most 50
    Depth,          \* [Rows -> connections its consumer holds at once]
    Jobs,           \* sale, audit and retention jobs: one transaction each
    Drainer,        \* the claim of tick() itself
    MaxConnections  \* pg.Pool max: 10 unless configured

Users == Rows \cup Jobs \cup {Drainer}

ASSUME RolesAssumption ==
    /\ Depth \in [Rows -> 1..3]
    /\ Jobs \cap Rows = {}
    /\ Drainer \notin Rows \cup Jobs
    /\ MaxConnections \in Nat \ {0}
    /\ IsFiniteSet(Users)

VARIABLES
    tick,       \* "idle", "claim" or "rows": inFlight is tick # "idle"
    step,       \* [Rows \cup Jobs -> where its code is]
    level,      \* [Rows -> the innermost connection it asked for]
    conns,      \* checked-out connections <<user, n>>, n = 1 the outermost
    waiters     \* the pool's queue of pending connect() calls

poolVars == <<tick, step, level, conns, waiters>>

(* A row goes idle, inside (the transactions of invokeConsumer and of the  *)
(* consumer, one in the other), leaving (the consumer returns or throws),  *)
(* mark (inside the mark's transaction), done; a job goes idle, inside and *)
(* back.                                                                   *)
PoolInit ==
    /\ tick = "idle"
    /\ step = [u \in Rows \cup Jobs |-> "idle"]
    /\ level = [r \in Rows |-> 0]
    /\ conns = {}
    /\ waiters = <<>>

\* pool.connect(): the call queues; Serve completes it.
Connect(u, n) == waiters' = Append(waiters, <<u, n>>)

Has(u, n) == <<u, n>> \in conns

Release(u, n) == conns' = conns \ {<<u, n>>}

\* The pool hands a free connection to the oldest waiter.
Serve ==
    /\ waiters # <<>>
    /\ Cardinality(conns) < MaxConnections
    /\ conns' = conns \cup {Head(waiters)}
    /\ waiters' = Tail(waiters)
    /\ UNCHANGED <<tick, step, level>>

\* setInterval fires while no tick is in flight.
TimerFires ==
    /\ tick = "idle"
    /\ tick' = "claim"
    /\ Connect(Drainer, 1)
    /\ UNCHANGED <<step, level, conns>>

\* The rows of a batch, in any order.
Batches ==
    {b \in [1..Cardinality(Rows) -> Rows] :
        \A i, j \in 1..Cardinality(Rows) : b[i] = b[j] => i = j}

\* claimBatch has returned; Promise.all starts processRow for every row.
ClaimDone ==
    /\ tick = "claim"
    /\ Has(Drainer, 1)
    /\ Release(Drainer, 1)
    /\ tick' = "rows"
    /\ step' = [u \in Rows \cup Jobs |-> IF u \in Rows THEN "inside" ELSE step[u]]
    /\ level' = [r \in Rows |-> 1]
    /\ \E b \in Batches :
         waiters' = waiters \o [i \in 1..Cardinality(Rows) |-> <<b[i], 1>>]

\* The consumer of r, or what it calls, enters runWithTenantContext on the
\* same pool while it holds the connections of the levels above.
ConsumerConnects(r) ==
    /\ step[r] = "inside"
    /\ Has(r, level[r])
    /\ level[r] < Depth[r]
    /\ level' = [level EXCEPT ![r] = level[r] + 1]
    /\ Connect(r, level[r] + 1)
    /\ UNCHANGED <<tick, step, conns>>

\* A nested runWithTenantContext returns, or throws out of any level.
ConsumerReturns(r) ==
    /\ step[r] \in {"inside", "leaving"}
    /\ level[r] > 1
    /\ Has(r, level[r])
    /\ step' = [step EXCEPT ![r] = "leaving"]
    /\ level' = [level EXCEPT ![r] = level[r] - 1]
    /\ Release(r, level[r])
    /\ UNCHANGED <<tick, waiters>>

\* Variant of InvokeReturns: the mark takes its connection while the one of
\* invokeConsumer is still checked out.
InvokeReturnsHolding(r) ==
    /\ step[r] \in {"inside", "leaving"}
    /\ level[r] = 1
    /\ Has(r, 1)
    /\ step' = [step EXCEPT ![r] = "mark"]
    /\ level' = [level EXCEPT ![r] = 2]
    /\ Connect(r, 2)
    /\ UNCHANGED <<tick, conns>>

\* invokeConsumer returns or throws: its connection is released and the mark
\* asks for one.
InvokeReturns(r) ==
    /\ step[r] \in {"inside", "leaving"}
    /\ level[r] = 1
    /\ Has(r, 1)
    /\ step' = [step EXCEPT ![r] = "mark"]
    /\ Release(r, 1)
    /\ Connect(r, 1)
    /\ UNCHANGED <<tick, level>>

MarkReturns(r) ==
    /\ step[r] = "mark"
    /\ Has(r, level[r])
    /\ step' = [step EXCEPT ![r] = "done"]
    /\ conns' = {c \in conns : c[1] # r}
    /\ UNCHANGED <<tick, level, waiters>>

BatchEnds ==
    /\ tick = "rows"
    /\ \A r \in Rows : step[r] = "done"
    /\ tick' = "idle"
    /\ step' = [u \in Rows \cup Jobs |-> IF u \in Rows THEN "idle" ELSE step[u]]
    /\ level' = [r \in Rows |-> 0]
    /\ UNCHANGED <<conns, waiters>>

JobStarts(j) ==
    /\ step[j] = "idle"
    /\ step' = [step EXCEPT ![j] = "inside"]
    /\ Connect(j, 1)
    /\ UNCHANGED <<tick, level, conns>>

JobEnds(j) ==
    /\ step[j] = "inside"
    /\ Has(j, 1)
    /\ step' = [step EXCEPT ![j] = "idle"]
    /\ Release(j, 1)
    /\ UNCHANGED <<tick, level, waiters>>

RowStep(r) ==
    ConsumerConnects(r) \/ ConsumerReturns(r) \/ InvokeReturns(r) \/ MarkReturns(r)

PoolNext ==
    \/ Serve \/ TimerFires \/ ClaimDone \/ BatchEnds
    \/ \E r \in Rows : RowStep(r)
    \/ \E j \in Jobs : JobStarts(j) \/ JobEnds(j)

PoolSpec == PoolInit /\ [][PoolNext]_poolVars

\* The event loop runs every continuation that is ready; new jobs may stop.
PoolFairness ==
    /\ WF_poolVars(Serve) /\ WF_poolVars(TimerFires) /\ WF_poolVars(ClaimDone) /\ WF_poolVars(BatchEnds)
    /\ \A r \in Rows : WF_poolVars(RowStep(r))
    /\ \A j \in Jobs : WF_poolVars(JobEnds(j))

PoolFairSpec == PoolSpec /\ PoolFairness

-----------------------------------------------------------------------------
\* drainer.processor.ts: "The next eligible tick fires at the next interval
\* boundary after the in-progress one finishes": every tick finishes.
TickCompletes == tick # "idle" ~> tick = "idle"

Waits(u) == \E i \in 1..Len(waiters) : waiters[i][1] = u

\* Every connection of the pool is held by a row whose consumer waits for one
\* more inside it.
Starved ==
    /\ Cardinality(conns) = MaxConnections
    /\ \A c \in conns :
         /\ c[1] \in Rows
         /\ step[c[1]] = "inside"
         /\ Waits(c[1])

\* Nothing else keeps a tick from its end: not the other jobs of the process,
\* not the drainer's own claim and marks, not the order in which the pool
\* serves them.  A tick ends unless nested consumers starve each other.
TickEndsOrStarves == tick # "idle" ~> tick = "idle" \/ Starved
=============================================================================
