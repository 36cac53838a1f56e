----------------------------- MODULE OutboxStore -----------------------------
(***************************************************************************)
(* The durable tables of the outbox (internal/store/store.go): one row per *)
(* event, one row per (event, action index), and the fact that a success   *)
(* row was written to action_logs.  Every operator below is the effect of  *)
(* one SQL statement or of one transaction; the database holds a single    *)
(* connection, so statements never overlap.                                *)
(*                                                                         *)
(* A column that is NULL holds Null.  "absent" is an event id that was     *)
(* never inserted and "purged" one whose rows the retention pass deleted:  *)
(* ids are random (server.newID), so a purged id is never inserted again.  *)
(***************************************************************************)
EXTENDS Integers, FiniteSets

CONSTANTS Events,        \* event ids
          NumActions,    \* actions configured for a source (len(src.Actions))
          Lease,         \* lease length (Queue.lease)
          Retention,     \* store.retention
          RetainPayload  \* store.retain_payload

ASSUME StoreAssumption ==
    /\ NumActions \in Nat \ {0}
    /\ Lease \in Nat \ {0}
    /\ Retention \in Nat
    /\ RetainPayload \in BOOLEAN

Null == -1
OptTime == Nat \cup {Null}
Coalesce(a, b) == IF a = Null THEN b ELSE a

Actions == 1..NumActions

\* What the stored payload and action snapshot of an event evaluate to:
\* a deliverable event, one the allowlist or the rules reject, one whose
\* snapshot does not parse, one whose rule does not compile.
Kinds == {"deliver", "skip", "badsnapshot", "badrule"}

OpenStatus == {"pending", "processing", "retrying"}
TerminalStatus == {"done", "dead", "skipped"}
EventStatus == OpenStatus \cup TerminalStatus \cup {"absent", "purged"}
ActionStatus == {"none", "pending", "running", "retrying", "done", "dead"}

EventRow ==
    [status: EventStatus, kind: Kinds, payload: BOOLEAN, vars: BOOLEAN,
     received: Nat, due: OptTime, lease: OptTime, owner: OptTime,
     processed: OptTime, replayed: OptTime, gen: Nat]

ActionRow == [status: ActionStatus, attempts: Nat, due: OptTime]

NoEventRow(s) ==
    [status |-> s, kind |-> "deliver", payload |-> FALSE, vars |-> FALSE,
     received |-> 0, due |-> Null, lease |-> Null, owner |-> Null,
     processed |-> Null, replayed |-> Null, gen |-> 0]
NoActionRow == [status |-> "none", attempts |-> 0, due |-> Null]
NoActionRows == [i \in Actions |-> NoActionRow]

Exists(row) == row.status \notin {"absent", "purged"}

-----------------------------------------------------------------------------
(* Acceptance                                                              *)

\* savePendingEvent: the inserted row; `at` is also the first due time.
PendingRow(kind, at) ==
    [NoEventRow("pending") EXCEPT !.kind = kind, !.payload = TRUE,
                                  !.received = at, !.due = at]

-----------------------------------------------------------------------------
(* Claiming and requeueing                                                 *)

LeaseExpired_Inclusive(row, t) ==
    row.status = "processing" /\ Coalesce(row.lease, 0) <= t

LeaseExpired_Never(row, t) == FALSE

\* status = 'processing' AND COALESCE(lease_until_ms, 0) < now
LeaseExpired(row, t) ==
    row.status = "processing" /\ Coalesce(row.lease, 0) < t

Claimable_AnyLease(row, t) ==
    \/ row.status \in {"pending", "processing"}
    \/ row.status = "retrying" /\ Coalesce(row.due, 0) <= t

\* The WHERE clause of ClaimPending.
Claimable(row, t) ==
    \/ row.status = "pending"
    \/ row.status = "retrying" /\ Coalesce(row.due, 0) <= t
    \/ LeaseExpired(row, t)

\* ORDER BY COALESCE(next_attempt_at_ms, received_at_ms)
ClaimOrder(row) == Coalesce(row.due, row.received)

ClaimRow(row, t, owner) ==
    [row EXCEPT !.status = "processing", !.lease = t + Lease, !.owner = owner]

\* COALESCE(replayed_at_ms, received_at_ms): where the retry age starts.
RetryStartedAt(row) == Coalesce(row.replayed, row.received)

ResetRunning_Keep(rows) == rows

ResetRunning_FromZero(rows) ==
    [i \in Actions |-> IF rows[i].status = "running"
                       THEN [status |-> "pending", due |-> Null, attempts |-> 0]
                       ELSE rows[i]]

ResetRunning_AllOpen(rows) ==
    [i \in Actions |->
        IF rows[i].status \in {"running", "pending"}
        THEN [status |-> "pending", due |-> Null, attempts |-> rows[i].attempts - 1]
        ELSE rows[i]]

\* The UPDATE that puts interrupted actions back: the interrupted attempt is
\* not counted.
ResetRunning(rows) ==
    [i \in Actions |->
        IF rows[i].status = "running"
        THEN [status |-> "pending", due |-> Null,
              attempts |-> IF rows[i].attempts > 0 THEN rows[i].attempts - 1
                                                   ELSE 0]
        ELSE rows[i]]

HasRunning(rows) == \E i \in Actions : rows[i].status = "running"

RequeueRow(row) ==
    [row EXCEPT !.status = "pending", !.due = row.received, !.lease = Null,
                !.owner = Null, !.processed = Null]

\* RenewLease: status = 'processing' and the lease is ours (or nobody's).
Renewable(row, owner) ==
    row.status = "processing" /\ row.owner \in {owner, Null}
RenewRow(row, t) == [row EXCEPT !.lease = t + Lease]

-----------------------------------------------------------------------------
(* One processing pass                                                     *)

PrepareRow_NoVars(row) ==
    [row EXCEPT !.payload = IF RetainPayload THEN @ ELSE FALSE]

\* PrepareEvent, on a row that is processing.
PrepareRow(row) ==
    [row EXCEPT !.vars = TRUE,
                !.payload = IF RetainPayload THEN @ ELSE FALSE]

\* INSERT OR IGNORE: rows of an earlier pass stay as they are.
PrepareActions(rows, t) ==
    [i \in Actions |-> IF rows[i].status = "none"
                       THEN [status |-> "pending", attempts |-> 0, due |-> t]
                       ELSE rows[i]]

\* The WHERE clause of StartAction.
Startable(a, t) ==
    a.status \in {"pending", "retrying"} /\ Coalesce(a.due, 0) <= t

StartRow(a) ==
    [status |-> "running", attempts |-> a.attempts + 1, due |-> Null]

\* CompleteAction, DeadAction, ExpireAction and ScheduleActionRetry set the
\* status and the next attempt of one row; the first, second and last go
\* through updateRunningAction, which requires a running row.
SettleRow(a, status, due) == [a EXCEPT !.status = status, !.due = due]

Expirable(a) == a.status \in {"pending", "retrying"}

WithStatus(rows, s) == {i \in Actions : rows[i].status = s}

NextDue_Latest(rows, t) ==
    LET D == {rows[i].due : i \in WithStatus(rows, "retrying")} \ {Null}
    IN  IF D = {} THEN t ELSE CHOOSE d \in D : \A c \in D : d >= c

\* MIN over the due times of the retrying rows; t when there is none.
NextDue(rows, t) ==
    LET D == {rows[i].due : i \in WithStatus(rows, "retrying")} \ {Null}
    IN  IF D = {} THEN t ELSE CHOOSE d \in D : \A c \in D : d <= c

HasActionState(rows) == \E i \in Actions : rows[i].status # "none"

\* Every existing row has one of the statuses S.
AllIn(rows, S) == \A i \in Actions : rows[i].status \in S \cup {"none"}

Aggregate_DeadAtOnce(rows, t) ==
    IF AllIn(rows, {"done"})
    THEN [status |-> "done", due |-> Null, processed |-> t]
    ELSE IF WithStatus(rows, "dead") # {}
    THEN [status |-> "dead", due |-> Null, processed |-> t]
    ELSE IF WithStatus(rows, "retrying") # {}
    THEN [status |-> "retrying", due |-> NextDue(rows, t), processed |-> Null]
    ELSE [status |-> "pending", due |-> t, processed |-> Null]

Aggregate_DeadIsDone(rows, t) ==
    IF AllIn(rows, {"done", "dead"})
    THEN [status |-> "done", due |-> Null, processed |-> t]
    ELSE IF WithStatus(rows, "retrying") # {}
    THEN [status |-> "retrying", due |-> NextDue(rows, t), processed |-> Null]
    ELSE [status |-> "pending", due |-> t, processed |-> Null]

\* RefreshEventStatus, first statement: the columns the second one writes,
\* computed from a count of the action rows.
Aggregate(rows, t) ==
    IF AllIn(rows, {"done"})
    THEN [status |-> "done", due |-> Null, processed |-> t]
    ELSE IF AllIn(rows, {"done", "dead"})
    THEN [status |-> "dead", due |-> Null, processed |-> t]
    ELSE IF WithStatus(rows, "retrying") # {}
    THEN [status |-> "retrying", due |-> NextDue(rows, t), processed |-> Null]
    ELSE [status |-> "pending", due |-> t, processed |-> Null]

\* RefreshEventStatus, second statement: WHERE id = ? and nothing else.
RefreshRow(row, agg) ==
    [row EXCEPT !.status = agg.status, !.due = agg.due,
                !.processed = agg.processed, !.lease = Null, !.owner = Null]

\* UpdateEventStatus: WHERE id = ? and nothing else.
StatusRow(row, status, t) ==
    [row EXCEPT !.status = status, !.processed = t, !.due = Null,
                !.lease = Null, !.owner = Null]

ClearPayloadRow(row) == [row EXCEPT !.payload = FALSE]

-----------------------------------------------------------------------------
(* Replay and retention                                                    *)

\* ReplayDeadEvent's two refusals.  The statuses 'partial' and 'error' are
\* written by no current code and are left out.
Replayable(row) == row.status = "dead" /\ (row.payload \/ row.vars)

ReplayRow(row, t) ==
    [row EXCEPT !.status = "pending", !.due = t, !.processed = Null,
                !.lease = Null, !.owner = Null, !.replayed = t, !.gen = @ + 1]

ReplayActions_All(rows, t) ==
    [i \in Actions |-> IF rows[i].status # "none"
                       THEN [status |-> "pending", attempts |-> 0, due |-> t]
                       ELSE rows[i]]

ReplayActions(rows, t) ==
    [i \in Actions |-> IF rows[i].status = "dead"
                       THEN [status |-> "pending", attempts |-> 0, due |-> t]
                       ELSE rows[i]]

\* PurgeOlderThan: terminal and older than the cutoff.
Purgeable(row, cutoff) ==
    /\ row.status \in TerminalStatus
    /\ Coalesce(row.processed, row.received) < cutoff

=============================================================================
