------------------------------ MODULE Heartbeat ------------------------------
(***************************************************************************)
(* The deadman heartbeat (internal/heartbeat): one goroutine per target    *)
(* that samples readiness, pushes the result and keeps the metrics, and    *)
(* the part of main (cmd/server) that stops it before the server and the   *)
(* queue are taken down.                                                   *)
(*                                                                         *)
(* A step of a target is one call that blocks or one use of shared state.  *)
(* Wall-clock readings are any value of 1..MaxTime, in any order: they     *)
(* come from different goroutines and the clock may be stepped.            *)
(***************************************************************************)
EXTENDS Integers, Functions

CONSTANTS Targets,     \* cfg.Heartbeat.Targets
          MaxAttempts, \* bound: no round begins after this many pushes
          MaxTime      \* bound: Unix seconds

ASSUME HeartbeatAssumption == MaxAttempts \in Nat /\ MaxTime \in Nat \ {0}

VARIABLES
    place,       \* where each target's goroutine is
    verdict,     \* its sample: "pass", or why it is a fail
    outcome,     \* how its push ended
    previous,    \* the aggregate it loaded last
    attempts, failures, logFailures, lastSuccess,   \* its TargetMetrics
    logged,      \* rows it inserted into heartbeat_logs
    aggregate,   \* Monitor.lastSuccess
    sent,        \* verdicts that reached a remote monitor
    mu,          \* lifecycleMu is held by Stop
    monitorCancelled,  \* the monitor's context
    stopping,    \* api.Stopping()
    queueReady,  \* q.Ready()
    main         \* where main is

metrics == <<attempts, failures, logFailures, lastSuccess, logged, aggregate>>
lifecycle == <<mu, monitorCancelled, stopping, queueReady, main>>
monitorVars == <<place, verdict, outcome, previous, metrics, sent, lifecycle>>

\* Why a sample is a fail: a store call failed or ran out of time, or it only
\* saw this process going down.
Verdicts == {"pass", "fault", "shutdown"}

Outcomes == {"ok", "error", "cut"}

PCs == {"wait", "probe", "stats", "judge", "enter", "send", "reply", "record",
        "load", "cas", "check", "save", "gone"}

MonitorInit ==
    /\ place = [t \in Targets |-> "wait"]
    /\ verdict = [t \in Targets |-> "pass"]
    /\ outcome = [t \in Targets |-> "ok"]
    /\ previous = [t \in Targets |-> 0]
    /\ attempts = [t \in Targets |-> 0]
    /\ failures = [t \in Targets |-> 0]
    /\ logFailures = [t \in Targets |-> 0]
    /\ lastSuccess = [t \in Targets |-> 0]
    /\ logged = [t \in Targets |-> 0]
    /\ aggregate = 0
    /\ sent = {}
    /\ mu = FALSE
    /\ monitorCancelled = FALSE
    /\ stopping = FALSE
    /\ queueReady = TRUE
    /\ main = "serve"

MoveTo(t, there) == place' = [place EXCEPT ![t] = there]

-----------------------------------------------------------------------------
(* The goroutine of a target                                               *)

\* The ticker fires.  When the context is done as well, select may still pick
\* the tick.
Tick(t) ==
    /\ place[t] = "wait"
    /\ SumFunction(attempts) < MaxAttempts
    /\ MoveTo(t, "probe")
    /\ verdict' = [verdict EXCEPT ![t] = "pass"]
    /\ UNCHANGED <<outcome, previous, metrics, sent, lifecycle>>

Leave(t) ==
    /\ place[t] = "wait"
    /\ monitorCancelled
    /\ MoveTo(t, "gone")
    /\ UNCHANGED <<verdict, outcome, previous, metrics, sent, lifecycle>>

\* ReadyCheck and then Stats, both called whatever the first one returns.  A
\* call under a cancelled context fails; another one may succeed or not.
StoreCall(t, here, there) ==
    /\ place[t] = here
    /\ MoveTo(t, there)
    /\ \E r \in IF monitorCancelled THEN {"shutdown"} ELSE {"pass", "fault"} :
          verdict' = [verdict EXCEPT ![t] = IF @ = "pass" THEN r ELSE @]
    /\ UNCHANGED <<outcome, previous, metrics, sent, lifecycle>>

Probe(t) == StoreCall(t, "probe", "stats")
ReadStats(t) == StoreCall(t, "stats", "judge")

\* The sample's context may have run out meanwhile ("fault"); startedAt is
\* read under lifecycleMu.
Judge(t) ==
    /\ place[t] = "judge"
    /\ ~mu
    /\ MoveTo(t, "enter")
    /\ \E late \in BOOLEAN :
          verdict' = [verdict EXCEPT ![t] =
              IF @ # "pass" THEN @
              ELSE IF monitorCancelled \/ stopping \/ ~queueReady THEN "shutdown"
              ELSE IF late THEN "fault" ELSE "pass"]
    /\ UNCHANGED <<outcome, previous, metrics, sent, lifecycle>>

\* deliver gives up when the monitor was stopped, else counts an attempt.
Enter(t) ==
    /\ place[t] = "enter"
    /\ MoveTo(t, IF monitorCancelled THEN "wait" ELSE "send")
    /\ attempts' = [attempts EXCEPT ![t] = IF monitorCancelled THEN @ ELSE @ + 1]
    /\ UNCHANGED <<verdict, outcome, previous, failures, logFailures,
                   lastSuccess, logged, aggregate, sent, lifecycle>>

\* The request leaves, or cannot be made, or its context is cancelled.
Send(t) ==
    /\ place[t] = "send"
    /\ \E r \in IF monitorCancelled THEN {"cut"} ELSE {"ok", "error"} :
          /\ MoveTo(t, IF r = "ok" THEN "reply" ELSE "record")
          /\ outcome' = [outcome EXCEPT ![t] = r]
          /\ sent' = IF r = "ok" THEN sent \cup {verdict[t]} ELSE sent
    /\ UNCHANGED <<verdict, previous, metrics, lifecycle>>

\* The response is accepted or not; cancelling cuts off the wait for it.
Reply(t) ==
    /\ place[t] = "reply"
    /\ MoveTo(t, "record")
    /\ \E r \in {"ok", "error"} \cup IF monitorCancelled THEN {"cut"} ELSE {} :
          outcome' = [outcome EXCEPT ![t] = r]
    /\ UNCHANGED <<verdict, previous, metrics, sent, lifecycle>>

\* An error is a failure unless the monitor was stopped.
CountsAsFailure(t) == outcome[t] # "ok" /\ ~monitorCancelled

Record(t) ==
    /\ place[t] = "record"
    /\ MoveTo(t, IF outcome[t] = "ok" THEN "load" ELSE "check")
    /\ \E completedAt \in 1..MaxTime :
          lastSuccess' = [lastSuccess EXCEPT ![t] =
                             IF outcome[t] = "ok" THEN completedAt ELSE @]
    /\ failures' = [failures EXCEPT ![t] = IF CountsAsFailure(t) THEN @ + 1 ELSE @]
    /\ UNCHANGED <<verdict, outcome, previous, attempts, logFailures, logged,
                   aggregate, sent, lifecycle>>

\* The loop that raises the aggregate: load it, and swap it when it is older.
Load(t) ==
    /\ place[t] = "load"
    /\ previous' = [previous EXCEPT ![t] = aggregate]
    /\ MoveTo(t, IF lastSuccess[t] > aggregate THEN "cas" ELSE "wait")
    /\ UNCHANGED <<verdict, outcome, metrics, sent, lifecycle>>

Swaps_Always(t) == TRUE

Swaps(t) == aggregate = previous[t]

CompareAndSwap(t) ==
    /\ place[t] = "cas"
    /\ MoveTo(t, IF Swaps(t) THEN "wait" ELSE "load")
    /\ aggregate' = IF Swaps(t) THEN lastSuccess[t] ELSE aggregate
    /\ UNCHANGED <<verdict, outcome, previous, attempts, failures, logFailures,
                   lastSuccess, logged, sent, lifecycle>>

\* Nothing is logged once the monitor is stopped.
CheckStopped(t) ==
    /\ place[t] = "check"
    /\ MoveTo(t, IF monitorCancelled THEN "wait" ELSE "save")
    /\ UNCHANGED <<verdict, outcome, previous, metrics, sent, lifecycle>>

LogFailed_Ignored(logErr) == FALSE

\* What LogFailures counts.
LogFailed(logErr) == logErr

\* SaveHeartbeatError.  A call that ran out of time or was cancelled may have
\* inserted the row and still return an error.
SaveLog(t) ==
    /\ place[t] = "save"
    /\ MoveTo(t, "wait")
    /\ \E inserted, logErr \in BOOLEAN :
          /\ inserted \/ logErr
          /\ logged' = [logged EXCEPT ![t] = IF inserted THEN @ + 1 ELSE @]
          /\ logFailures' = [logFailures EXCEPT ![t] = IF LogFailed(logErr) THEN @ + 1 ELSE @]
    /\ UNCHANGED <<verdict, outcome, previous, attempts, failures, lastSuccess,
                   aggregate, sent, lifecycle>>

-----------------------------------------------------------------------------
(* main                                                                    *)

\* Stop, called when the process is told to end or the server fails, and
\* again by the deferred call when main returns.
StopLock ==
    /\ main \in {"serve", "drained"}
    /\ ~mu
    /\ mu' = TRUE
    /\ main' = "locked"
    /\ UNCHANGED <<place, verdict, outcome, previous, metrics, sent, monitorCancelled,
                   stopping, queueReady>>

StopCancel_KeepLock ==
    /\ main = "locked"
    /\ monitorCancelled' = TRUE
    /\ main' = "waiting"
    /\ UNCHANGED <<place, verdict, outcome, previous, metrics, sent, mu, stopping,
                   queueReady>>

StopCancel ==
    /\ main = "locked"
    /\ mu' = FALSE
    /\ monitorCancelled' = TRUE
    /\ main' = "waiting"
    /\ UNCHANGED <<place, verdict, outcome, previous, metrics, sent, stopping,
                   queueReady>>

StopDone ==
    /\ main = "waiting"
    /\ \A t \in Targets : place[t] = "gone"
    /\ mu' = FALSE
    /\ main' = IF stopping THEN "exit" ELSE "quiet"
    /\ UNCHANGED <<place, verdict, outcome, previous, metrics, sent, monitorCancelled,
                   stopping, queueReady>>

SetStopping_First ==
    /\ main \in {"serve", "quiet"}
    /\ stopping' = TRUE
    /\ main' = IF main = "serve" THEN "serve" ELSE "closing"
    /\ UNCHANGED <<place, verdict, outcome, previous, metrics, sent, mu, monitorCancelled,
                   queueReady>>

SetStopping ==
    /\ main = "quiet"
    /\ stopping' = TRUE
    /\ main' = "closing"
    /\ UNCHANGED <<place, verdict, outcome, previous, metrics, sent, mu, monitorCancelled,
                   queueReady>>

StopQueue ==
    /\ main = "closing"
    /\ queueReady' = FALSE
    /\ main' = "drained"
    /\ UNCHANGED <<place, verdict, outcome, previous, metrics, sent, mu, monitorCancelled,
                   stopping>>

-----------------------------------------------------------------------------

Work(t) ==
    \/ Probe(t) \/ ReadStats(t) \/ Judge(t) \/ Enter(t) \/ Send(t) \/ Reply(t)
    \/ Record(t) \/ Load(t) \/ CompareAndSwap(t) \/ CheckStopped(t) \/ SaveLog(t)

Shutdown == StopCancel \/ StopDone \/ SetStopping \/ StopQueue

MonitorNext ==
    \/ \E t \in Targets : Tick(t) \/ Leave(t) \/ Work(t)
    \/ StopLock
    \/ Shutdown

\* Every call of a target has a deadline, so its round goes on; select picks
\* among ready cases at random, so a done context is not passed over forever.
\* Once told to stop, main goes on; nothing makes the process stop.
MonitorFairness ==
    /\ \A t \in Targets : WF_monitorVars(Work(t)) /\ SF_monitorVars(Leave(t))
    /\ WF_monitorVars(Shutdown)
    /\ WF_monitorVars(StopLock /\ main = "drained")

MonitorSpec == MonitorInit /\ [][MonitorNext]_monitorVars

MonitorFairSpec == MonitorSpec /\ MonitorFairness

-----------------------------------------------------------------------------
(* Properties                                                              *)

\* The counters never pass the attempts there were, and the monitor's
\* timestamps are readings of the clock.
TypeOK ==
    /\ place \in [Targets -> PCs]
    /\ verdict \in [Targets -> Verdicts]
    /\ outcome \in [Targets -> Outcomes]
    /\ previous \in [Targets -> 0..MaxTime]
    /\ attempts \in [Targets -> 0..MaxAttempts]
    /\ failures \in [Targets -> 0..MaxAttempts]
    /\ logFailures \in [Targets -> 0..MaxAttempts]
    /\ lastSuccess \in [Targets -> 0..MaxTime]
    /\ logged \in [Targets -> 0..MaxAttempts]
    /\ aggregate \in 0..MaxTime
    /\ sent \subseteq Verdicts
    /\ mu \in BOOLEAN /\ monitorCancelled \in BOOLEAN
    /\ stopping \in BOOLEAN /\ queueReady \in BOOLEAN
    /\ main \in {"serve", "locked", "waiting", "quiet", "closing", "drained", "exit"}

\* No remote monitor is told "down" because the process is being stopped:
\* every down signal reports a failed store call.  main.go stops the
\* heartbeat before it marks the server as stopping, and deliver drops
\* samples taken under the cancelled context.
NoFalseDown == "shutdown" \notin sent

\* The aggregate never falls behind a target whose push was accepted, except
\* while that target is still in the loop that raises it: concurrent
\* completions do not move it backwards.
AggregateCoversTargets ==
    \A t \in Targets : lastSuccess[t] <= aggregate \/ place[t] \in {"load", "cas"}

\* Until the monitor is stopped every counted failure has a row in
\* heartbeat_logs or is counted in LogFailures, and Stop loses at most the one
\* that was about to be written.  No row is without a counted failure.
FailuresAreReported ==
    \A t \in Targets :
        LET pending == IF place[t] \in {"check", "save"} \/ monitorCancelled THEN 1 ELSE 0
        IN  /\ failures[t] <= logged[t] + logFailures[t] + pending
            /\ logged[t] <= failures[t]

\* Stop returns, both times: once cancelled, every target's goroutine ends and
\* main gets to its end.
StopReturns == (main = "locked") ~> (main = "exit")

=============================================================================
