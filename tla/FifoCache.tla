------------------------------ MODULE FifoCache ------------------------------
(* A bounded set that forgets its oldest member when a new one does not     *)
(* fit: what the cache of compiled patterns promises.                       *)
EXTENDS Integers, Sequences

CONSTANTS Members, Bound

VARIABLE queue   \* the members, oldest first

Present(p) == \E i \in 1..Len(queue) : queue[i] = p

FInit == queue = <<>>

Put(p) ==
    /\ ~Present(p)
    /\ queue' = Append(IF Len(queue) = Bound THEN Tail(queue) ELSE queue, p)

FSpec == FInit /\ [][\E p \in Members : Put(p)]_queue

=============================================================================
