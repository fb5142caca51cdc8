---------------------------- MODULE EventDelivery ----------------------------
(***************************************************************************)
(* What the outbox promises the producers and consumers of an event, with  *)
(* no drainers, locks, timers or faults: an event is published once, tried *)
(* at most MaxAttempts times, has its effect at most once per try, ends    *)
(* delivered only if it had its effect and dead only if every try is used  *)
(* up, and is forgotten only after it was tried.                           *)
(***************************************************************************)
EXTENDS Naturals

CONSTANTS Events, MaxAttempts

VARIABLES
    status,     \* [Events -> {"unpublished", "open", "delivered", "dead", "expired"}]
    tries,      \* [Events -> Nat]
    effects     \* [Events -> Nat]

deliveryVars == <<status, tries, effects>>

Init ==
    /\ status = [e \in Events |-> "unpublished"]
    /\ tries = [e \in Events |-> 0]
    /\ effects = [e \in Events |-> 0]

Publish(e) ==
    /\ status[e] = "unpublished"
    /\ status' = [status EXCEPT ![e] = "open"]
    /\ UNCHANGED <<tries, effects>>

\* A batch of open events is tried once more.
Try(B) ==
    /\ \A e \in B : status[e] = "open" /\ tries[e] < MaxAttempts
    /\ tries' = [e \in Events |-> IF e \in B THEN tries[e] + 1 ELSE tries[e]]
    /\ UNCHANGED <<status, effects>>

TakeEffect(e) ==
    /\ status[e] = "open"
    /\ effects[e] < tries[e]
    /\ effects' = [effects EXCEPT ![e] = effects[e] + 1]
    /\ UNCHANGED <<status, tries>>

Deliver(e) ==
    /\ status[e] = "open"
    /\ effects[e] > 0
    /\ status' = [status EXCEPT ![e] = "delivered"]
    /\ UNCHANGED <<tries, effects>>

Bury(e) ==
    /\ status[e] = "open"
    /\ tries[e] = MaxAttempts
    /\ status' = [status EXCEPT ![e] = "dead"]
    /\ UNCHANGED <<tries, effects>>

Expire(B) ==
    /\ \A e \in B : status[e] \in {"open", "delivered", "dead"} /\ tries[e] > 0
    /\ status' = [e \in Events |-> IF e \in B THEN "expired" ELSE status[e]]
    /\ UNCHANGED <<tries, effects>>

Next ==
    \/ \E e \in Events : Publish(e) \/ TakeEffect(e) \/ Deliver(e) \/ Bury(e)
    \/ \E B \in SUBSET Events : Try(B) \/ Expire(B)

Spec == Init /\ [][Next]_deliveryVars
=============================================================================
