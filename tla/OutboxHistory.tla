----------------------------- MODULE OutboxHistory -----------------------------
(***************************************************************************)
(* What the tables of the outbox forget: how often an action was really    *)
(* started, and how many calls of a handler went on after the retry age.   *)
(* The two variables are history; nothing in Outbox depends on them.  Both *)
(* begin again when the event is replayed or its rows are deleted.         *)
(***************************************************************************)
EXTENDS OutboxRefinement

VARIABLES starts,  \* starts[e][i]: how often StartAction made the row running
          late     \* late[e]: handler calls that ended past the retry age

hvars == <<vars, starts, late>>

HInit ==
    /\ Init
    /\ starts = [e \in Events |-> [i \in Actions |-> 0]]
    /\ late = [e \in Events |-> 0]

Starts(e, i) == acts[e][i].status # "running" /\ acts'[e][i].status = "running"

\* The action had an outcome and has none any more.
Reopened(e, i) ==
    acts[e][i].status \in {"done", "dead"} /\ acts'[e][i].status \in {"pending", "none"}

PastAge(e) == now >= RetryStartedAt(events[e]) + MaxRetryAge

\* The workers whose handler call for e ends in this step, with its result or
\* with the process.
CallsEnded(e) == {w \in Workers : pc[w] = "handle" /\ pc'[w] # "handle" /\ job[w].ev = e}

Record ==
    /\ starts' = [e \in Events |-> [i \in Actions |->
                    IF Starts(e, i) THEN starts[e][i] + 1
                    ELSE IF Reopened(e, i) THEN 0 ELSE starts[e][i]]]
    /\ late' = [e \in Events |->
                    IF events'[e].gen # events[e].gen \/ events'[e].status = "purged" THEN 0
                    ELSE IF PastAge(e) THEN late[e] + Cardinality(CallsEnded(e))
                    ELSE late[e]]

HNext == Next /\ Record

HSpec == HInit /\ [][HNext]_hvars

-----------------------------------------------------------------------------
(* Properties, for leases that are renewed in time                         *)

\* Ends of the process so far: every incarnation before the current one, and
\* the current one once its workers are cancelled or gone.
Interruptions == IF proc \in {"up", "stopping"} THEN epoch - 1 ELSE epoch

\* Between two replays an action is started at most max_retries + 1 times, and
\* once more for every store call that failed and every process that was
\* cancelled or killed: an interruption costs one repetition and never resets
\* the count, although requeue, lease expiry and recovery each rewrite
\* attempt_count.
StartsAreBounded ==
    \A e \in Events, i \in Actions :
        starts[e][i] <= MaxRetries + 1 + faults + Interruptions

\* max_retry_age is tested with a clock reading that may be stale when
\* StartAction gets the connection and staler when the handler is called.
\* That costs at most one call: of all the actions of an event, over every
\* worker, requeue and restart, one call at most ends (or is cut off) when the
\* age has passed.  All that is still open then expires without a call.
OneCallPastAge == \A e \in Events : late[e] <= 1

=============================================================================
