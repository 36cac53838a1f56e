--------------------------- MODULE OutboxRefinement ---------------------------
(* The outbox implements Delivery while leases are renewed in time.        *)
EXTENDS Outbox

\* An event is open while a worker may still pick it up.
AbstractStatus ==
    [e \in Events |->
        CASE events[e].status \in OpenStatus -> "open"
          [] events[e].status = "absent" -> "none"
          [] events[e].status = "purged" -> "gone"
          [] OTHER -> events[e].status]

\* An action has an outcome once its row says done or dead.
AbstractOutcome ==
    [e \in Events |-> [i \in Actions |->
        IF acts[e][i].status \in {"done", "dead"} THEN acts[e][i].status
                                                  ELSE "open"]]

Promise == INSTANCE Delivery WITH status <- AbstractStatus,
                                  outcome <- AbstractOutcome

\* Every behaviour of the workers, crashes and shutdowns included, is one of
\* Delivery: each store call is one abstract step or none.
ImplementsDelivery == Promise!DSpec

=============================================================================
