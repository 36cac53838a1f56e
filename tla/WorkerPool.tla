----------------------------- MODULE WorkerPool -----------------------------
(***************************************************************************)
(* How the queue's workers come to look at the table (queue.go: Start,     *)
(* worker, drain, Wake, Stop, Ready).  Work is announced through a channel *)
(* of Buffer hints; a hint that does not fit is dropped, and one that is   *)
(* received may be spent on a drain that fails.  Every worker also has a   *)
(* ticker, so its select may find a tick at any time.                      *)
(*                                                                         *)
(* What a worker does with the event it claimed is Outbox's matter.  Here  *)
(* an event is one of                                                      *)
(*   new      pending: committed by webhook or retryEvent, or requeued     *)
(*   asleep   open, but not to be claimed yet: a retry that is not due, or *)
(*            a lease that a failing call left behind                      *)
(*   due      was asleep, may be claimed now                               *)
(*   busy     a worker is inside process with it                           *)
(*   closed   terminal                                                     *)
(***************************************************************************)
EXTENDS Integers, Sequences, SequencesExt

CONSTANTS Events,
          Workers,
          NoEvent,
          Buffer,      \* queue.buffer
          MaxFaults    \* bound: store calls that fail

ASSUME PoolAssumption ==
    /\ IsFiniteSet(Events)
    /\ NoEvent \notin Events
    /\ Buffer \in Nat \ {0}
    /\ MaxFaults \in Nat

VARIABLES
    events,     \* events[e]: see above, or "none" before it is accepted
    line,       \* the events that may be claimed, in ClaimPending's order
    untold,     \* events whose HTTP handler has committed but not called Wake
    hints,      \* len(q.wake)
    pc,         \* pc[w]: where the worker is
    job,        \* job[w]: the event it is processing
    started,    \* Start has called Wake
    stopped,    \* q.stopped, and stopCh closed
    cancelled,  \* the workers' context
    faults,
    late        \* history: late[w] claims since Stop

table == <<events, line>>
life == <<started, stopped, cancelled>>
vars == <<table, untold, hints, pc, job, life, faults, late>>

\* The values of pc:
\* select  waiting in worker's select
\* check   at the head of drain's loop
\* claim   past its tests, before ClaimPending
\* busy    inside process
\* gone    worker has returned

\* The workers are running while Start's own Wake is still to come; the table
\* holds what earlier processes left, requeued by startup recovery.
Init ==
    /\ events \in [Events -> {"none", "new", "asleep"}]
    /\ line \in SetToSeqs({e \in Events : events[e] = "new"})
    /\ untold = {}
    /\ hints = 0
    /\ pc = [w \in Workers |-> "select"]
    /\ job = [w \in Workers |-> NoEvent]
    /\ started = FALSE
    /\ stopped = FALSE
    /\ cancelled = FALSE
    /\ faults = 0
    /\ late = [w \in Workers |-> 0]

Goto(w, there) == pc' = [pc EXCEPT ![w] = there]

-----------------------------------------------------------------------------
(* Announcing work                                                         *)

\* Wake: nothing when the queue is stopped, and nothing when the channel is
\* full.
Wake == hints' = IF stopped \/ hints = Buffer THEN hints ELSE hints + 1

Start ==
    /\ ~started
    /\ started' = TRUE
    /\ Wake
    /\ UNCHANGED <<table, untold, pc, job, stopped, cancelled, faults, late>>

\* webhook commits an event, or retryEvent reopens a dead one, which is then
\* no other than a new one.  Both go on while the queue is being stopped.
Accept(e) ==
    /\ started
    /\ events[e] = "none"
    /\ events' = [events EXCEPT ![e] = "new"]
    /\ line' = Append(line, e)
    /\ untold' = untold \cup {e}
    /\ UNCHANGED <<hints, pc, job, life, faults, late>>

\* ... and then the handler calls Wake.
Tell(e) ==
    /\ e \in untold
    /\ untold' = untold \ {e}
    /\ Wake
    /\ UNCHANGED <<table, pc, job, life, faults, late>>

\* The time of a retry, or of a lease nobody renews, is reached.
BecomesDue(e) ==
    /\ events[e] = "asleep"
    /\ events' = [events EXCEPT ![e] = "due"]
    /\ line' = Append(line, e)
    /\ UNCHANGED <<untold, hints, pc, job, life, faults, late>>

-----------------------------------------------------------------------------
(* worker: one select, any of the ready cases                              *)

SelectHint(w) ==
    /\ pc[w] = "select"
    /\ hints > 0
    /\ hints' = hints - 1
    /\ Goto(w, "check")
    /\ UNCHANGED <<table, untold, job, life, faults, late>>

SelectTick_Never(w) == FALSE /\ UNCHANGED vars

SelectTick(w) ==
    /\ pc[w] = "select"
    /\ Goto(w, "check")
    /\ UNCHANGED <<table, untold, hints, job, life, faults, late>>

LeavesSelect_CtxOnly == cancelled

LeavesSelect == stopped \/ cancelled

SelectDone(w) ==
    /\ pc[w] = "select"
    /\ LeavesSelect
    /\ Goto(w, "gone")
    /\ UNCHANGED <<table, untold, hints, job, life, faults, late>>

-----------------------------------------------------------------------------
(* drain                                                                   *)

LeavesDrain_CtxOnly == cancelled

LeavesDrain == stopped \/ cancelled

Check(w) ==
    /\ pc[w] = "check"
    /\ Goto(w, IF LeavesDrain THEN "select" ELSE "claim")
    /\ UNCHANGED <<table, untold, hints, job, life, faults, late>>

\* RequeueExpiredLeases or ClaimPending fails, always under a done context.
DrainFails(w) ==
    /\ pc[w] = "claim"
    /\ \/ cancelled /\ UNCHANGED faults
       \/ ~cancelled /\ faults < MaxFaults /\ faults' = faults + 1
    /\ Goto(w, "select")
    /\ UNCHANGED <<table, untold, hints, job, life, late>>

DrainEmpty(w) ==
    /\ pc[w] = "claim"
    /\ line = <<>>
    /\ Goto(w, "select")
    /\ UNCHANGED <<table, untold, hints, job, life, faults, late>>

\* An event is claimed, also when the queue was stopped or the context was
\* cancelled since the tests.
Claim(w) ==
    /\ pc[w] = "claim"
    /\ line # <<>>
    /\ events' = [events EXCEPT ![Head(line)] = "busy"]
    /\ line' = Tail(line)
    /\ job' = [job EXCEPT ![w] = Head(line)]
    /\ Goto(w, "busy")
    /\ late' = [late EXCEPT ![w] = IF stopped THEN @ + 1 ELSE @]
    /\ UNCHANGED <<untold, hints, life, faults>>

AfterEvent_Return == "select"

\* drain goes on until there is nothing left to claim.
AfterEvent == "check"

\* process returns (or the event's source could not be resolved): the event
\* is terminal, waits for a retry, or was requeued because the context was
\* cancelled or a call failed (it keeps its old place); when requeueing fails
\* too it is left asleep under its lease.
Finish(w, s) ==
    /\ pc[w] = "busy"
    /\ \/ s \in {"closed", "asleep"} /\ UNCHANGED faults
       \/ s = "new" /\ cancelled /\ UNCHANGED faults
       \/ s = "new" /\ faults < MaxFaults /\ faults' = faults + 1
    /\ line' = IF s = "new" THEN <<job[w]>> \o line ELSE line
    /\ events' = [events EXCEPT ![job[w]] = s]
    /\ job' = [job EXCEPT ![w] = NoEvent]
    /\ Goto(w, AfterEvent)
    /\ UNCHANGED <<untold, hints, life, late>>

-----------------------------------------------------------------------------
(* main                                                                    *)

\* Stop of the queue, and the end of the workers' context: when Stop ran out
\* of time, or first of all when the HTTP server failed.
Stop ==
    /\ started /\ ~stopped
    /\ stopped' = TRUE
    /\ UNCHANGED <<table, untold, hints, pc, job, started, cancelled, faults, late>>

Cancel ==
    /\ started /\ ~cancelled
    /\ cancelled' = TRUE
    /\ UNCHANGED <<table, untold, hints, pc, job, started, stopped, faults, late>>

-----------------------------------------------------------------------------

WorkerStep(w) ==
    \/ SelectHint(w) \/ SelectTick(w) \/ SelectDone(w)
    \/ Check(w) \/ DrainFails(w) \/ DrainEmpty(w) \/ Claim(w)
    \/ \E s \in {"closed", "asleep", "new"} : Finish(w, s)

Next ==
    \/ Start \/ Stop \/ Cancel
    \/ \E e \in Events : Accept(e) \/ Tell(e) \/ BecomesDue(e)
    \/ \E w \in Workers : WorkerStep(w)

Spec == Init /\ [][Next]_vars

\* Goroutines are scheduled, handlers end at their timeouts, tickers fire and
\* time passes; select picks at random among its ready cases, so a closed
\* stopCh is not passed over for ever.  HTTP handlers need not get to Wake.
Fairness ==
    /\ \A w \in Workers : WF_vars(WorkerStep(w)) /\ SF_vars(SelectDone(w))
    /\ \A e \in Events : WF_vars(BecomesDue(e))

FairSpec == Spec /\ Fairness

-----------------------------------------------------------------------------
(* Properties                                                              *)

\* Ready, which /readyz and the heartbeat report.
Ready == ~stopped /\ \E w \in Workers : pc[w] # "gone"

\* A dropped hint is not a lost one: while the queue runs and no store call
\* has failed, an announced new event is about to be looked for, because a
\* hint waits in the channel or some worker is inside drain, which goes round
\* again after every event.  The ticker is not needed for new events.
HintCoversNewEvents ==
    /\ started /\ ~stopped /\ ~cancelled /\ faults = 0
    /\ \E e \in Events \ untold : events[e] = "new"
    => hints > 0 \/ \E w \in Workers : pc[w] \in {"check", "claim", "busy"}

\* After Stop a worker takes at most one more event, the one for which it had
\* already passed drain's tests.
OneClaimAfterStop == \A w \in Workers : late[w] <= 1

\* While the process reports itself ready, an event that may be claimed is
\* claimed, whatever hints were dropped or spent on failing drains and
\* although nobody is told when a retry becomes due.
DueIsTaken ==
    \A e \in Events :
        (e \in Range(line) /\ Ready) ~> (e \notin Range(line) \/ ~Ready)

\* Stop returns: every worker leaves, however full the channel and however
\* much there is left to claim.
WorkersLeave == stopped ~> \A w \in Workers : pc[w] = "gone"

=============================================================================
