------------------------------ MODULE MCOutbox ------------------------------
(* Small instances of Outbox for TLC.                                      *)
EXTENDS Outbox, TLC

CONSTANTS e1, e2        \* members of Events

\* A movement event, whose type has no consumer, is emitted inside its
\* business transaction; the older audit event after its own, and has one.
MovementAndAudit ==
    [e \in Events |-> IF e = e1 THEN "inventory.movement.created"
                      ELSE "audit.event.created"]

Older == [e \in Events |-> IF e = e1 THEN 1 ELSE 0]

Registered == {"audit.event.created", "sale.captured",
               "erpnext.posting.requested", "erpnext.reconciliation.requested",
               "erpnext.product_reconciliation.requested"}
=============================================================================
