-------------------------------- MODULE Outbox --------------------------------
(***************************************************************************)
(* The outbox: the queue's workers (internal/queue/queue.go) over the      *)
(* tables of OutboxStore, the acceptance, replay and retention operations  *)
(* that share those tables, and the life of the process (cmd/server).      *)
(*                                                                         *)
(* A worker is a goroutine.  Each of its steps is one store call or one    *)
(* handler call of Queue.process, so every interleaving of the workers, of *)
(* a crash and of a shutdown between two store calls is a behaviour.  A    *)
(* worker's local variables are job[w]; what it read from the database     *)
(* stays there while the database moves on.                                *)
(***************************************************************************)
EXTENDS OutboxStore

CONSTANTS Workers,       \* worker goroutines
          NoEv,          \* "no event"
          MaxRetries,    \* queue.max_retries
          MaxRetryAge,   \* queue.max_retry_age
          Delays,        \* what retryDelay or a Retry-After header can yield
          AcceptKinds,   \* the kinds of event that arrive
          TimelyRenewal, \* no lease of a live worker runs out (see Tick)
          \* bounds
          MaxTime,       \* the clock stops here
          AcceptUntil,   \* last time of an acceptance or a replay
          MaxStarts,     \* incarnations of the process
          MaxFaults,     \* failing store calls
          FaultUntil,    \* time of the last of them
          MaxReplays     \* replays of one event

ASSUME OutboxAssumption ==
    /\ NoEv \notin Events
    /\ MaxRetries \in Nat
    /\ MaxRetryAge \in Nat
    /\ Delays \subseteq Nat
    /\ AcceptKinds \subseteq Kinds
    /\ TimelyRenewal \in BOOLEAN

VARIABLES
    events,  \* table events
    acts,    \* table event_actions
    audit,   \* audit[e][i]: action_logs holds a success row
    pc,      \* pc[w]: the store or handler call worker w makes next
    job,     \* job[w]: its local variables
    now,     \* the clock
    proc,    \* the process: "up", "stopping", "cancelled", "stopped", "crashed"
    epoch,   \* number of starts; the owner id of the current incarnation
    faults   \* store calls that failed so far

vars == <<events, acts, audit, pc, job, now, proc, epoch, faults>>
tables == <<events, acts, audit>>
system == <<now, proc, epoch>>

\* The calls of process; a worker is processing job[w].ev at each of them,
\* and its lease heartbeat runs.
Processing == {"vars", "clear", "prepare", "list", "loop", "start", "handle",
               "log", "settle", "commit", "requeue"}
Labels == Processing \cup {"idle", "claim", "exited", "off"}

NoAgg == [status |-> "none", due |-> Null, processed |-> Null]

NoJob == [ev |-> NoEv, t |-> 0, retryStartedAt |-> 0, kind |-> "deliver",
          payload |-> FALSE, vars |-> FALSE,
          snap |-> NoActionRows, idx |-> 1, attempt |-> 0, res |-> "none",
          agg |-> NoAgg]

\* How a call of a handler ends: delivered, a failure worth a retry (the
\* network, a timeout, 408, 429, 5xx; a failing command), or a NonRetryable
\* error (another status, a destination that is not allowed, a missing secret).
\* With no handler for the action type nothing is sent.
Results == {"ok", "retryable", "permanent", "nohandler"}

Agg == [status: {"none", "done", "dead", "retrying", "pending"},
        due: OptTime, processed: OptTime]

Job == [ev: Events \cup {NoEv}, t: Nat, retryStartedAt: Nat, kind: Kinds,
        payload: BOOLEAN, vars: BOOLEAN, snap: [Actions -> ActionRow],
        idx: 1..(NumActions + 1), attempt: Nat,
        res: {"none"} \cup Results, agg: Agg]

Alive == proc \in {"up", "stopping", "cancelled"}

\* The rows are well formed, and a worker inside process has the event, the
\* action and the aggregate its next call uses.
TypeOK ==
    /\ events \in [Events -> EventRow]
    /\ acts \in [Events -> [Actions -> ActionRow]]
    /\ audit \in [Events -> [Actions -> BOOLEAN]]
    /\ pc \in [Workers -> Labels]
    /\ job \in [Workers -> Job]
    /\ now \in Nat
    /\ proc \in {"up", "stopping", "cancelled", "stopped", "crashed"}
    /\ epoch \in Nat
    /\ faults \in Nat
    /\ \A w \in Workers :
          /\ pc[w] \in Processing => job[w].ev \in Events
          /\ pc[w] \in {"start", "handle", "log", "settle"} => job[w].idx \in Actions
          /\ pc[w] = "commit" => job[w].agg.status # "none"

Init ==
    /\ events = [e \in Events |-> NoEventRow("absent")]
    /\ acts = [e \in Events |-> NoActionRows]
    /\ audit = [e \in Events |-> [i \in Actions |-> FALSE]]
    /\ pc = [w \in Workers |-> "idle"]
    /\ job = [w \in Workers |-> NoJob]
    /\ now = 0
    /\ proc = "up"
    /\ epoch = 1
    /\ faults = 0

-----------------------------------------------------------------------------
(* Worker steps                                                            *)

At(w, label) == pc[w] = label
Goto(w, label) == pc' = [pc EXCEPT ![w] = label]

\* The worker drops its local state; process and drain have returned, and the
\* loop of drain starts over (or worker waits for a hint or its ticker).
Return(w) ==
    /\ pc' = [pc EXCEPT ![w] = "idle"]
    /\ job' = [job EXCEPT ![w] = NoJob]

GotoRequeue_Return(w) == Return(w)

\* q.requeue(ctx, ev.ID); return
GotoRequeue(w) ==
    /\ pc' = [pc EXCEPT ![w] = "requeue"]
    /\ job' = [job EXCEPT ![w] = [NoJob EXCEPT !.ev = job[w].ev]]

\* A store call that returns an error and leaves the database alone.
Fault ==
    /\ faults < MaxFaults
    /\ now <= FaultUntil
    /\ faults' = faults + 1

Cancelled == proc = "cancelled"

\* The calls made with the worker's own context fail once it is cancelled;
\* all the others use context.WithoutCancel.
Row(w) == events[job[w].ev]
Rows(w) == acts[job[w].ev]
Act(w) == acts[job[w].ev][job[w].idx]
Snap(w) == job[w].snap[job[w].idx]
InLoop(w) == At(w, "loop") /\ job[w].idx <= NumActions
SetRow(w, row) == events' = [events EXCEPT ![job[w].ev] = row]
SetAct(w, a) == acts' = [acts EXCEPT ![job[w].ev][job[w].idx] = a]
NextAction(w) ==
    /\ pc' = [pc EXCEPT ![w] = "loop"]
    /\ job' = [job EXCEPT ![w].idx = @ + 1, ![w].t = 0, ![w].attempt = 0,
                          ![w].res = "none"]

\* worker and drain: leave when the queue is stopped or the context is done.
Exit(w) ==
    /\ At(w, "idle")
    /\ proc \in {"stopping", "cancelled"}
    /\ Goto(w, "exited")
    /\ UNCHANGED <<tables, job, system, faults>>

\* drain: sample the clock once, then RequeueExpiredLeases.  An error returns
\* to the ticker with nothing changed, which is a stuttering step here.
Drain(w) ==
    /\ At(w, "idle")
    /\ proc = "up"
    /\ events' = [e \in Events |-> IF LeaseExpired(events[e], now)
                                   THEN RequeueRow(events[e]) ELSE events[e]]
    /\ acts' = [e \in Events |-> IF LeaseExpired(events[e], now)
                                 THEN ResetRunning(acts[e]) ELSE acts[e]]
    /\ Goto(w, "claim")
    /\ job' = [job EXCEPT ![w].t = now]
    /\ UNCHANGED <<audit, system, faults>>

\* The rows ClaimPending may pick at sampled time t.
ClaimCandidates(t) ==
    {e \in Events : /\ Claimable(events[e], t)
                    /\ \A f \in Events : Claimable(events[f], t) =>
                          ClaimOrder(events[e]) <= ClaimOrder(events[f])}

\* The PendingEvent ClaimPending returns.
PendingEvent(e) ==
    [NoJob EXCEPT !.ev = e, !.retryStartedAt = RetryStartedAt(events[e]),
                  !.kind = events[e].kind, !.payload = events[e].payload,
                  !.vars = events[e].vars]

\* drain: ClaimPending with the time sampled before RequeueExpiredLeases.
\* The stop flag is not looked at again.
Claim(w) ==
    /\ At(w, "claim")
    /\ ~Cancelled
    /\ \E e \in ClaimCandidates(job[w].t) :
          /\ events' = [events EXCEPT ![e] = ClaimRow(@, job[w].t, epoch)]
          /\ acts' = [acts EXCEPT ![e] = ResetRunning(@)]
          /\ job' = [job EXCEPT ![w] = PendingEvent(e)]
    /\ Goto(w, "vars")
    /\ UNCHANGED <<audit, system, faults>>

ClaimNothing(w) ==
    /\ At(w, "claim")
    /\ Cancelled \/ ClaimCandidates(job[w].t) = {}
    /\ Return(w)
    /\ UNCHANGED <<tables, system, faults>>

\* executionVars: does the event carry an input?  GetPayload is asked when
\* the claim returned neither variables nor a payload; it fails on a row that
\* is gone and under a cancelled context.
AsksPayload(w) == job[w].kind # "badsnapshot" /\ ~job[w].vars /\ ~job[w].payload
PayloadUnread(w) == AsksPayload(w) /\ (Cancelled \/ ~Exists(Row(w)))
HasInput(w) == job[w].payload \/ Row(w).payload

\* resolveSource fails, or executionVars finds no input or a rule that does
\* not compile: the event is dead, and the error of that update is ignored.
Unexecutable(w) ==
    \/ job[w].kind = "badsnapshot"
    \/ /\ ~job[w].vars /\ ~PayloadUnread(w)
       /\ ~HasInput(w) \/ job[w].kind = "badrule"

MarkDead(w) ==
    /\ At(w, "vars")
    /\ Unexecutable(w)
    /\ \/ /\ Exists(Row(w))
          /\ SetRow(w, StatusRow(Row(w), "dead", now))
          /\ UNCHANGED faults
       \/ /\ ~Exists(Row(w))
          /\ UNCHANGED <<events, faults>>
       \/ Fault /\ UNCHANGED events
    /\ Return(w)
    /\ UNCHANGED <<acts, audit, system>>

\* executionVars: the allowlist or the rules reject a first-time event.
Rejected(w) ==
    /\ ~Unexecutable(w) /\ ~PayloadUnread(w)
    /\ ~job[w].vars /\ job[w].kind = "skip"

MarkSkipped(w) ==
    /\ At(w, "vars")
    /\ Rejected(w)
    /\ Exists(Row(w))
    /\ SetRow(w, StatusRow(Row(w), "skipped", now))
    /\ IF RetainPayload THEN Return(w) ELSE Goto(w, "clear") /\ UNCHANGED job
    /\ UNCHANGED <<acts, audit, system, faults>>

\* executionVars: ClearPayload of a skipped event, a statement of its own
\* whose error is only logged.
ClearSkipped(w) ==
    /\ At(w, "clear")
    /\ \/ SetRow(w, ClearPayloadRow(Row(w))) /\ UNCHANGED faults
       \/ Fault /\ UNCHANGED events
    /\ Return(w)
    /\ UNCHANGED <<acts, audit, system>>

\* executionVars: durable variables, or a payload that passes.  The variables
\* were marshalled from a Go map by PrepareEvent, so that they parse.
HaveVars(w) ==
    /\ At(w, "vars")
    /\ ~PayloadUnread(w) /\ ~Unexecutable(w) /\ ~Rejected(w)
    /\ Goto(w, "prepare")
    /\ UNCHANGED <<tables, job, system, faults>>

PrepareEvent(w) ==
    /\ At(w, "prepare")
    /\ Row(w).status = "processing"
    /\ SetRow(w, PrepareRow(Row(w)))
    /\ acts' = [acts EXCEPT ![job[w].ev] = PrepareActions(@, now)]
    /\ Goto(w, "list")
    /\ UNCHANGED <<audit, job, system, faults>>

ListActionStates(w) ==
    /\ At(w, "list")
    /\ ~Cancelled
    /\ job' = [job EXCEPT ![w].snap = Rows(w)]
    /\ Goto(w, "loop")
    /\ UNCHANGED <<tables, system, faults>>

\* process, top of the loop: isCanceled(parent).
LoopCancelled(w) ==
    /\ InLoop(w)
    /\ Cancelled
    /\ GotoRequeue(w)
    /\ UNCHANGED <<tables, system, faults>>

PastRetryAge(w, t) == t >= job[w].retryStartedAt + MaxRetryAge

\* The snapshot says there is nothing to do for this action.
SkipAction(w) ==
    /\ InLoop(w)
    /\ ~Cancelled
    /\ Snap(w).status \in {"none", "done", "dead"}
    /\ NextAction(w)
    /\ UNCHANGED <<tables, system, faults>>

\* The clock is read once for the two tests of an action and for the statement
\* that starts or expires it, which may have to wait for the connection.
ReadClock(w) ==
    /\ InLoop(w)
    /\ ~Cancelled
    /\ Snap(w).status \in {"pending", "retrying", "running"}
    /\ job' = [job EXCEPT ![w].t = now]
    /\ Goto(w, "start")
    /\ UNCHANGED <<tables, system, faults>>

MustExpire_Never(w) == FALSE

MustExpire(w) ==
    Snap(w).status \in {"pending", "retrying"} /\ PastRetryAge(w, job[w].t)

NotDueYet(w) == Snap(w).status = "retrying" /\ Coalesce(Snap(w).due, 0) > job[w].t

\* A retry that is neither too old nor due.
SkipRetry(w) ==
    /\ At(w, "start")
    /\ ~MustExpire(w)
    /\ NotDueYet(w)
    /\ NextAction(w)
    /\ UNCHANGED <<tables, system, faults>>

ExpireAction(w) ==
    /\ At(w, "start")
    /\ MustExpire(w)
    /\ Expirable(Act(w))
    /\ SetAct(w, SettleRow(Act(w), "dead", Null))
    /\ NextAction(w)
    /\ UNCHANGED <<events, audit, system, faults>>

\* The loop reaches StartAction for this action.
Dispatches(w) ==
    /\ At(w, "start")
    /\ ~MustExpire(w)
    /\ ~NotDueYet(w)

StartAction(w) ==
    /\ Dispatches(w)
    /\ ~Cancelled
    /\ Startable(Act(w), job[w].t)
    /\ SetAct(w, StartRow(Act(w)))
    /\ job' = [job EXCEPT ![w].t = 0, ![w].attempt = Act(w).attempts + 1]
    /\ Goto(w, "handle")
    /\ UNCHANGED <<events, audit, system, faults>>

\* sql.ErrNoRows: somebody else moved the row; continue.
StartNoRow(w) ==
    /\ Dispatches(w)
    /\ ~Cancelled
    /\ ~Startable(Act(w), job[w].t)
    /\ NextAction(w)
    /\ UNCHANGED <<tables, system, faults>>

\* The cancellation lands inside StartAction: the statement committed, its
\* result was not read.
StartInterrupted(w) ==
    /\ Dispatches(w)
    /\ Cancelled
    /\ Startable(Act(w), job[w].t)
    /\ SetAct(w, StartRow(Act(w)))
    /\ GotoRequeue(w)
    /\ UNCHANGED <<events, audit, system, faults>>

Handle_NotLogged(w) ==
    /\ At(w, "handle")
    /\ \E r \in Results : job' = [job EXCEPT ![w].res = r]
    /\ Goto(w, "settle")
    /\ UNCHANGED <<tables, system, faults>>

\* h.Handle: the remote side effect happens here.
Handle(w) ==
    /\ At(w, "handle")
    /\ \E r \in Results : job' = [job EXCEPT ![w].res = r]
    /\ Goto(w, "log")
    /\ UNCHANGED <<tables, system, faults>>

\* logAction: the error of SaveActionAttemptLog is only logged.
LogAction(w) ==
    /\ At(w, "log")
    /\ \/ /\ Exists(Row(w)) /\ job[w].res = "ok"
          /\ audit' = [audit EXCEPT ![job[w].ev][job[w].idx] = TRUE]
          /\ UNCHANGED faults
       \/ /\ ~Exists(Row(w)) \/ job[w].res # "ok"
          /\ UNCHANGED <<audit, faults>>
       \/ Fault /\ UNCHANGED audit
    /\ Goto(w, "settle")
    /\ UNCHANGED <<events, acts, job, system>>

CompleteAction(w) ==
    /\ At(w, "settle")
    /\ job[w].res = "ok"
    /\ Act(w).status = "running"
    /\ SetAct(w, SettleRow(Act(w), "done", Null))
    /\ NextAction(w)
    /\ UNCHANGED <<events, audit, system, faults>>

\* A failure seen after the context was cancelled is not an outcome; that the
\* action has no handler is one.
Interrupted(w) == Cancelled /\ job[w].res \in {"retryable", "permanent"}

SettleCancelled(w) ==
    /\ At(w, "settle")
    /\ Interrupted(w)
    /\ GotoRequeue(w)
    /\ UNCHANGED <<tables, system, faults>>

LastAttempt_OffByOne(w) ==
    job[w].res # "retryable" \/ job[w].attempt > MaxRetries + 1

LastAttempt(w) ==
    job[w].res # "retryable" \/ job[w].attempt >= MaxRetries + 1

DeadAction(w) ==
    /\ At(w, "settle")
    /\ job[w].res # "ok"
    /\ ~Interrupted(w)
    /\ LastAttempt(w) \/ \E d \in Delays : PastRetryAge(w, now + d)
    /\ Act(w).status = "running"
    /\ SetAct(w, SettleRow(Act(w), "dead", Null))
    /\ NextAction(w)
    /\ UNCHANGED <<events, audit, system, faults>>

RetryAt_NoDeadline(w, d) == ~LastAttempt(w)

\* The next attempt falls before the retry deadline.
RetryAt(w, d) == ~LastAttempt(w) /\ ~PastRetryAge(w, now + d)

ScheduleActionRetry(w) ==
    /\ At(w, "settle")
    /\ job[w].res # "ok"
    /\ ~Interrupted(w)
    /\ Act(w).status = "running"
    /\ \E d \in Delays :
          /\ RetryAt(w, d)
          /\ SetAct(w, SettleRow(Act(w), "retrying", now + d))
    /\ NextAction(w)
    /\ UNCHANGED <<events, audit, system, faults>>

\* RefreshEventStatus, the SELECT.
RefreshSelect(w) ==
    /\ At(w, "loop")
    /\ job[w].idx = NumActions + 1
    /\ HasActionState(Rows(w))
    /\ job' = [job EXCEPT ![w] = [NoJob EXCEPT !.ev = job[w].ev,
                                               !.agg = Aggregate(Rows(w), now)]]
    /\ Goto(w, "commit")
    /\ UNCHANGED <<tables, system, faults>>

\* RefreshEventStatus, the UPDATE.
RefreshUpdate(w) ==
    /\ At(w, "commit")
    /\ Exists(Row(w))
    /\ SetRow(w, RefreshRow(Row(w), job[w].agg))
    /\ Return(w)
    /\ UNCHANGED <<acts, audit, system, faults>>

\* A store call that answers with an error: zero rows matched, the context
\* is cancelled, or the database failed.  process then requeues the event.
NoRowMatches(w) ==
    \/ At(w, "vars") /\ (Rejected(w) \/ AsksPayload(w)) /\ ~Exists(Row(w))
    \/ At(w, "prepare") /\ Row(w).status # "processing"
    \/ At(w, "start") /\ MustExpire(w) /\ ~Expirable(Act(w))
    \/ At(w, "settle") /\ ~Interrupted(w) /\ Act(w).status # "running"
    \/ /\ At(w, "loop") /\ job[w].idx = NumActions + 1
       /\ ~HasActionState(Rows(w))
    \/ At(w, "commit") /\ ~Exists(Row(w))

CallsStore(w) ==
    \/ At(w, "vars") /\ (Rejected(w) \/ AsksPayload(w))
    \/ pc[w] \in {"prepare", "list", "commit"}
    \/ At(w, "start") /\ (MustExpire(w) \/ Dispatches(w))
    \/ At(w, "loop") /\ job[w].idx = NumActions + 1
    \/ At(w, "settle") /\ ~Interrupted(w)

StoreError(w) ==
    /\ \/ NoRowMatches(w) /\ UNCHANGED faults
       \/ /\ Cancelled /\ UNCHANGED faults
          /\ At(w, "list") \/ (At(w, "vars") /\ AsksPayload(w)) \/ Dispatches(w)
       \/ CallsStore(w) /\ Fault
    /\ GotoRequeue(w)
    /\ UNCHANGED <<tables, system>>

\* RequeueEvent's WHERE clause; with no match the transaction rolls back.
Requeueable(row) == row.status = "processing"

\* Queue.requeue: RequeueEvent, its error is only logged.
Requeue(w) ==
    /\ At(w, "requeue")
    /\ \/ /\ Requeueable(Row(w))
          /\ SetRow(w, RequeueRow(Row(w)))
          /\ acts' = [acts EXCEPT ![job[w].ev] = ResetRunning(@)]
          /\ UNCHANGED faults
       \/ ~Requeueable(Row(w)) /\ UNCHANGED <<events, acts, faults>>
       \/ Fault /\ UNCHANGED <<events, acts>>
    /\ Return(w)
    /\ UNCHANGED <<audit, system>>

\* leaseHeartbeat of the event worker w is processing.
RenewLease(w) ==
    /\ pc[w] \in Processing
    /\ Renewable(Row(w), epoch)
    /\ Row(w).lease # now + Lease
    /\ SetRow(w, RenewRow(Row(w), now))
    /\ UNCHANGED <<acts, audit, pc, job, system, faults>>

WorkerStep(w) ==
    \/ Exit(w) \/ Drain(w) \/ Claim(w) \/ ClaimNothing(w)
    \/ MarkDead(w) \/ MarkSkipped(w) \/ ClearSkipped(w) \/ HaveVars(w)
    \/ PrepareEvent(w) \/ ListActionStates(w)
    \/ LoopCancelled(w) \/ SkipAction(w) \/ ReadClock(w)
    \/ SkipRetry(w) \/ ExpireAction(w)
    \/ StartAction(w) \/ StartNoRow(w) \/ StartInterrupted(w)
    \/ Handle(w) \/ LogAction(w)
    \/ CompleteAction(w) \/ SettleCancelled(w) \/ DeadAction(w)
    \/ ScheduleActionRetry(w)
    \/ RefreshSelect(w) \/ RefreshUpdate(w)
    \/ StoreError(w) \/ Requeue(w)

-----------------------------------------------------------------------------
(* The rest of the program                                                 *)

\* webhook: savePendingEvent under a fresh id (see Intake for the guards).
SavePendingEvent(e) ==
    /\ Alive
    /\ now <= AcceptUntil
    /\ events[e].status = "absent"
    /\ \E k \in AcceptKinds : events' = [events EXCEPT ![e] = PendingRow(k, now)]
    /\ UNCHANGED <<acts, audit, pc, job, system, faults>>

\* retryEvent: POST /events/{id}/retry.
ReplayDeadEvent(e) ==
    /\ Alive
    /\ now <= AcceptUntil
    /\ events[e].gen < MaxReplays
    /\ Replayable(events[e])
    /\ events' = [events EXCEPT ![e] = ReplayRow(@, now)]
    /\ acts' = [acts EXCEPT ![e] = ReplayActions(@, now)]
    /\ UNCHANGED <<audit, pc, job, system, faults>>

\* retentionLoop: one transaction over every table.
PurgeOlderThan ==
    LET P == {e \in Events : Purgeable(events[e], now - Retention)}
    IN  /\ proc \in {"up", "stopping"}
        /\ P # {}
        /\ events' = [e \in Events |-> IF e \in P THEN NoEventRow("purged")
                                                  ELSE events[e]]
        /\ acts' = [e \in Events |-> IF e \in P THEN NoActionRows ELSE acts[e]]
        /\ audit' = [e \in Events |-> IF e \in P
                                      THEN [i \in Actions |-> FALSE]
                                      ELSE audit[e]]
        /\ UNCHANGED <<pc, job, system, faults>>

\* run, on a signal: q.Stop.  The last incarnation is not stopped, so that
\* what must eventually happen has a process to happen in.
Shutdown ==
    /\ proc = "up"
    /\ epoch < MaxStarts
    /\ proc' = "stopping"
    /\ UNCHANGED <<tables, pc, job, now, epoch, faults>>

\* run: the shutdown budget is spent, or the HTTP server failed (cancelWorker
\* before q.Stop).
CancelWorkers ==
    /\ \/ proc = "stopping"
       \/ proc = "up" /\ epoch < MaxStarts
    /\ proc' = "cancelled"
    /\ UNCHANGED <<tables, pc, job, now, epoch, faults>>

\* run returns: every worker is gone.
ProcessExit ==
    /\ proc \in {"stopping", "cancelled"}
    /\ \A w \in Workers : pc[w] = "exited"
    /\ proc' = "stopped"
    /\ UNCHANGED <<tables, pc, job, now, epoch, faults>>

Crash ==
    /\ Alive
    /\ epoch < MaxStarts
    /\ proc' = "crashed"
    /\ pc' = [w \in Workers |-> "off"]
    /\ job' = [w \in Workers |-> NoJob]
    /\ UNCHANGED <<tables, now, epoch, faults>>

Recovered_Terminal(e) == events[e].status # "absent"

\* RequeueAllProcessing: every processing row, and open rows under which an
\* action was left running.
Recovered(e) ==
    \/ events[e].status = "processing"
    \/ events[e].status \in {"pending", "retrying"} /\ HasRunning(acts[e])

\* run, from the start: RequeueAllProcessing, then Start.
Restart ==
    /\ proc \in {"stopped", "crashed"}
    /\ events' = [e \in Events |-> IF Recovered(e) THEN RequeueRow(events[e])
                                                   ELSE events[e]]
    /\ acts' = [e \in Events |-> IF Recovered(e) THEN ResetRunning(acts[e])
                                                 ELSE acts[e]]
    /\ pc' = [w \in Workers |-> "idle"]
    /\ job' = [w \in Workers |-> NoJob]
    /\ proc' = "up"
    /\ epoch' = epoch + 1
    /\ UNCHANGED <<audit, now, faults>>

\* A worker that is processing an event, or about to claim one, whose lease
\* is over once the clock shows t.
Overdue(w, t) ==
    \/ pc[w] \in Processing /\ LeaseExpired(Row(w), t)
    \/ pc[w] = "claim" /\ job[w].t + Lease < t

\* Time passes.  TimelyRenewal is the assumption the lease heartbeat (a
\* renewal every Lease/3) buys: the process is not suspended for a whole
\* lease while a worker holds one.
Tick ==
    /\ now < MaxTime
    /\ TimelyRenewal => \A w \in Workers : ~Overdue(w, now + 1)
    /\ now' = now + 1
    /\ UNCHANGED <<tables, pc, job, proc, epoch, faults>>

Next ==
    \/ \E w \in Workers : WorkerStep(w) \/ RenewLease(w)
    \/ \E e \in Events : SavePendingEvent(e) \/ ReplayDeadEvent(e)
    \/ PurgeOlderThan
    \/ Shutdown \/ CancelWorkers \/ ProcessExit \/ Crash \/ Restart
    \/ Tick

Spec == Init /\ [][Next]_vars

\* Goroutines are scheduled, handlers end at their timeouts, the heartbeat's
\* ticker fires, the clock moves, and the container runtime restarts a
\* process that is gone.
Fairness ==
    /\ \A w \in Workers : WF_vars(WorkerStep(w)) /\ WF_vars(RenewLease(w))
    /\ WF_vars(Tick)
    /\ WF_vars(ProcessExit)
    /\ WF_vars(Restart)

FairSpec == Spec /\ Fairness

-----------------------------------------------------------------------------
(* Safety that holds whatever the timing                                   *)

\* An action that was recorded as done is never executed again or turned
\* into anything else by a requeue, an expired lease, a replay, a restart or
\* a worker that lost its lease (CompleteAction, ReplayDeadEvent,
\* RequeueEvent); only the retention pass removes it.
DoneIsFinal ==
    [][\A e \in Events, i \in Actions :
          acts[e][i].status = "done" =>
             acts'[e][i].status = "done" \/ events'[e].status = "purged"]_vars

\* An event reported done has every one of its actions done, although
\* RefreshEventStatus counts in one statement, writes in another, and writes
\* without looking at the row again.
EventDoneMeansAllDone ==
    \A e \in Events : events[e].status = "done" =>
        \A i \in Actions : acts[e][i].status = "done"

\* Every done action has a success row in action_logs, wherever the process
\* died: logAction comes before CompleteAction.  (A failed log write is
\* swallowed, so this is about runs in which no store call failed.)
SucceededIsAudited ==
    faults = 0 => \A e \in Events, i \in Actions :
        acts[e][i].status = "done" => audit[e][i]

\* A retry is never scheduled at or past the age limit of the event, also
\* when the worker computed it from the replay time of an earlier claim.
RetryWithinAge ==
    \A e \in Events, i \in Actions : acts[e][i].status = "retrying" =>
        acts[e][i].due < RetryStartedAt(events[e]) + MaxRetryAge

-----------------------------------------------------------------------------
(* Safety that rests on the lease being renewed in time                    *)

\* No two workers are inside process with the same event.
OneWorkerPerEvent ==
    \A v, w \in Workers :
        v # w /\ {pc[v], pc[w]} \subseteq Processing => job[v].ev # job[w].ev

\* While the handler runs and until its outcome is stored, the action row is
\* running under a processing event: the outcome of a delivery is never
\* refused by updateRunningAction.
DispatchedIsRunning ==
    \A w \in Workers : pc[w] \in {"handle", "log", "settle"} =>
        Act(w).status = "running" /\ Row(w).status = "processing"

\* A running action belongs to a processing event, so that lease expiry or
\* startup recovery will find it.
RunningIsUnderLease ==
    \A e \in Events : HasRunning(acts[e]) => events[e].status = "processing"

\* An action's attempt_count never passes max_retries + 1.  Requeues take an
\* interrupted attempt back: OutboxHistory bounds what was really started.
AttemptBound ==
    \A e \in Events, i \in Actions : acts[e][i].attempts <= MaxRetries + 1

\* A terminal event has no action left to run.
TerminalIsSettled ==
    \A e \in Events : events[e].status \in TerminalStatus =>
        \A i \in Actions : acts[e][i].status \in {"none", "done", "dead"}

\* An open or dead event still has its payload or its durable variables, so
\* it can be executed or replayed: clearing the payload never loses it.
InputIsKept ==
    \A e \in Events : events[e].status \in OpenStatus \cup {"dead"} =>
        events[e].payload \/ events[e].vars

\* A retrying event wakes up at the earliest of its actions' due times and
\* hides no action that could run before.
RetryingWakesInTime ==
    \A e \in Events : events[e].status = "retrying" =>
        /\ \E i \in Actions : /\ acts[e][i].status = "retrying"
                               /\ acts[e][i].due = events[e].due
        /\ \A i \in Actions :
              \/ acts[e][i].status \in {"done", "dead"}
              \/ acts[e][i].status = "retrying" /\ acts[e][i].due >= events[e].due

\* A process that ends by itself leaves nothing processing or running, even
\* when its workers were cancelled in the middle of an action.
CleanShutdown ==
    proc = "stopped" /\ faults = 0 => \A e \in Events :
        events[e].status # "processing" /\ ~HasRunning(acts[e])

-----------------------------------------------------------------------------
(* Liveness                                                                *)

\* Every accepted event reaches a terminal status: no crash, cancellation,
\* failed store call or full retry schedule leaves it open for ever.
EventuallySettled ==
    \A e \in Events :
        events[e].status \in OpenStatus ~>
            events[e].status \in TerminalStatus \cup {"purged"}

-----------------------------------------------------------------------------
(* What README.md says of skipped events                                   *)

\* "skipped ... is cleared after the terminal state is committed": once no
\* worker is busy with it, a skipped event has lost its payload.
SkippedPayloadCleared ==
    \A e \in Events :
        events[e].status = "skipped" /\ ~RetainPayload
        /\ (\A w \in Workers : job[w].ev # e) => ~events[e].payload

=============================================================================
