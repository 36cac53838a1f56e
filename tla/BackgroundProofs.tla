--------------------------- MODULE BackgroundProofs ---------------------------
(***************************************************************************)
(* Theorems about the goroutines behind the HTTP server: WorkerPool, for   *)
(* every number of workers and events and every size of the hint channel,  *)
(* and Heartbeat, for every set of targets and every number of rounds.     *)
(***************************************************************************)
EXTENDS WorkerPool, Heartbeat, FiniteSetTheorems, TLAPS

-----------------------------------------------------------------------------
(* The workers of the queue                                                *)

\* HintCoversNewEvents is not inductive by itself: a worker that finds the
\* line empty goes back to its select, so it has to be known that every new
\* event is in the line, and that the event a worker is busy with, which
\* Finish may put back, is an event.
PoolInv ==
    /\ events \in [Events -> {"none", "new", "asleep", "due", "busy", "closed"}]
    /\ line \in Seq(Events)
    /\ hints \in 0..Buffer
    /\ pc \in [Workers -> {"select", "check", "claim", "busy", "gone"}]
    /\ job \in [Workers -> Events \cup {NoEvent}]
    /\ faults \in Nat
    /\ \A w \in Workers : pc[w] = "busy" => job[w] \in Events
    /\ \A e \in Events : events[e] = "new" => \E k \in 1..Len(line) : line[k] = e
    /\ HintCoversNewEvents

\* A worker that may still claim after Stop has not done so yet.
LateInv ==
    /\ pc \in [Workers -> {"select", "check", "claim", "busy", "gone"}]
    /\ late \in [Workers -> {0, 1}]
    /\ \A w \in Workers : ~stopped \/ pc[w] = "claim" => late[w] = 0

-----------------------------------------------------------------------------
(* The line                                                                *)

\* A sequence with as many distinct members as the set has members holds
\* every one of them: the order in which startup recovery leaves the rows is
\* a line of all of them.
LEMMA WholeSet ==
    ASSUME NEW S, IsFiniteSet(S), NEW f \in SetToSeqs(S)
    PROVE  f \in Seq(S) /\ \A e \in S : \E k \in 1..Len(f) : f[k] = e
<1>1. Cardinality(S) \in Nat
  BY FS_CardinalityType
<1>2. /\ f \in [1..Cardinality(S) -> S]
      /\ \A i, j \in 1..Cardinality(S) : i # j => f[i] # f[j]
  BY DEF SetToSeqs
<1>3. f \in Seq(S) /\ Len(f) = Cardinality(S)
  BY <1>1, <1>2
<1>4. ASSUME NEW e \in S, \A k \in 1..Len(f) : f[k] # e PROVE FALSE
  <2> DEFINE D == 1..Cardinality(S)
  <2> DEFINE T == S \ {e}
  <2>1. IsFiniteSet(T) /\ Cardinality(T) = Cardinality(S) - 1
    BY FS_RemoveElement
  <2>2. IsFiniteSet(D) /\ Cardinality(D) = Cardinality(S)
    BY <1>1, FS_Interval
  <2>3. f \in [D -> T] /\ \A i, j \in D : i # j => f[i] # f[j]
    BY <1>2, <1>3, <1>4
  <2>4. Cardinality(T) < Cardinality(D)
    BY <1>1, <2>1, <2>2
  <2> HIDE DEF D, T
  <2>5. \E i, j \in D : i # j /\ f[i] = f[j]
    BY <2>1, <2>2, <2>3, <2>4, FS_PigeonHole
  <2> QED
    BY <2>3, <2>5
<1> QED
  BY <1>3, <1>4

\* What the updates of the line hold.
LEMMA LineUpdates ==
    ASSUME NEW q \in Seq(Events)
    PROVE  /\ \A e \in Events :
                 /\ Append(q, e) \in Seq(Events)
                 /\ <<e>> \o q \in Seq(Events)
                 /\ \E k \in 1..Len(Append(q, e)) : Append(q, e)[k] = e
                 /\ \E k \in 1..Len(<<e>> \o q) : (<<e>> \o q)[k] = e
           /\ \A e, f \in Events : (\E k \in 1..Len(q) : q[k] = f) =>
                 /\ \E k \in 1..Len(Append(q, e)) : Append(q, e)[k] = f
                 /\ \E k \in 1..Len(<<e>> \o q) : (<<e>> \o q)[k] = f
           /\ q # <<>> => /\ Head(q) \in Events /\ Tail(q) \in Seq(Events)
                          /\ \A f \in Events :
                                (\E k \in 1..Len(q) : q[k] = f) =>
                                   \/ f = Head(q)
                                   \/ \E k \in 1..Len(Tail(q)) : Tail(q)[k] = f
<1>1. ASSUME NEW e \in Events
      PROVE  /\ Append(q, e) \in Seq(Events)
             /\ <<e>> \o q \in Seq(Events)
             /\ Append(q, e)[Len(q) + 1] = e /\ Len(q) + 1 \in 1..Len(Append(q, e))
             /\ (<<e>> \o q)[1] = e /\ 1 \in 1..Len(<<e>> \o q)
  OBVIOUS
<1>2. ASSUME NEW e \in Events, NEW k \in 1..Len(q)
      PROVE  /\ Append(q, e)[k] = q[k] /\ k \in 1..Len(Append(q, e))
             /\ (<<e>> \o q)[k + 1] = q[k] /\ k + 1 \in 1..Len(<<e>> \o q)
  OBVIOUS
<1>3. ASSUME q # <<>>
      PROVE  /\ Head(q) \in Events /\ Tail(q) \in Seq(Events)
             /\ \A k \in 1..Len(q) :
                   \/ q[k] = Head(q)
                   \/ k - 1 \in 1..Len(Tail(q)) /\ Tail(q)[k - 1] = q[k]
  BY <1>3
<1> QED
  BY <1>1, <1>2, <1>3

-----------------------------------------------------------------------------
(* Hints                                                                   *)

\* PoolInv holds when the process starts, whatever events it finds.
LEMMA PoolInvInit == Init => PoolInv
<1> SUFFICES ASSUME Init PROVE PoolInv
  OBVIOUS
<1> DEFINE S == {e \in Events : events[e] = "new"}
<1>1. IsFiniteSet(S)
  BY PoolAssumption, FS_Subset DEF PoolAssumption
<1>2. line \in Seq(S) /\ \A e \in S : \E k \in 1..Len(line) : line[k] = e
  <2>1. line \in SetToSeqs(S)
    BY DEF Init
  <2> HIDE DEF S
  <2> QED
    BY <1>1, <2>1, WholeSet
<1>3. line \in Seq(Events)
  BY <1>2
<1> QED
  BY <1>2, <1>3, PoolAssumption DEF Init, PoolInv, HintCoversNewEvents, PoolAssumption

\* PoolInv is inductive.
LEMMA PoolInvStep == PoolInv /\ [Next]_vars => PoolInv'
<1> SUFFICES ASSUME PoolInv, [Next]_vars PROVE PoolInv'
  OBVIOUS
<1> USE PoolAssumption DEF PoolAssumption, PoolInv, HintCoversNewEvents, table, life, Goto
<1>1. CASE Start \/ Stop \/ Cancel \/ UNCHANGED vars
  BY <1>1 DEF Start, Stop, Cancel, Wake, vars
<1>2. ASSUME NEW e \in Events, Accept(e) PROVE PoolInv'
  <2>1. /\ events' = [events EXCEPT ![e] = "new"] /\ line' = Append(line, e)
        /\ untold' = untold \cup {e}
        /\ UNCHANGED <<hints, pc, job, started, stopped, cancelled, faults>>
    BY <1>2 DEF Accept
  <2>2. /\ line' \in Seq(Events)
        /\ \A f \in Events : events'[f] = "new" => \E k \in 1..Len(line') : line'[k] = f
    BY <2>1, LineUpdates
  <2>3. \A f \in Events \ untold' : events'[f] = "new" => f \notin untold /\ events[f] = "new"
    BY <2>1
  <2>4. HintCoversNewEvents'
    BY <2>1, <2>3
  <2> QED
    BY <2>1, <2>2, <2>4
<1>3. ASSUME NEW e \in Events, Tell(e) PROVE PoolInv'
  BY <1>3 DEF Tell, Wake
<1>4. ASSUME NEW e \in Events, BecomesDue(e) PROVE PoolInv'
  BY <1>4, LineUpdates DEF BecomesDue
<1>5. ASSUME NEW w \in Workers, SelectHint(w) \/ SelectTick(w) \/ SelectDone(w) \/ Check(w)
      PROVE  PoolInv'
  BY <1>5 DEF SelectHint, SelectTick, SelectDone, Check, LeavesSelect, LeavesDrain
<1>6. ASSUME NEW w \in Workers, DrainFails(w) \/ DrainEmpty(w) PROVE PoolInv'
  BY <1>6 DEF DrainFails, DrainEmpty
<1>7. ASSUME NEW w \in Workers, Claim(w) PROVE PoolInv'
  BY <1>7, LineUpdates DEF Claim
<1>8. ASSUME NEW w \in Workers, NEW s \in {"closed", "asleep", "new"}, Finish(w, s)
      PROVE  PoolInv'
  BY <1>8, LineUpdates DEF Finish, AfterEvent
<1> QED
  BY <1>1, <1>2, <1>3, <1>4, <1>5, <1>6, <1>7, <1>8 DEF Next, WorkerStep

\* No hint is missed: while the queue runs and no store call has failed, an
\* announced new event always has a hint in the channel or a worker inside
\* drain, whatever the size of the channel and however hints are dropped.
THEOREM NewEventsAreCovered == Spec => []HintCoversNewEvents
<1>1. PoolInv => HintCoversNewEvents
  BY DEF PoolInv
<1> QED
  BY <1>1, PoolInvInit, PoolInvStep, PTL DEF Spec

-----------------------------------------------------------------------------
(* Stop                                                                    *)

\* LateInv is inductive: the head of drain's loop tests the stop flag.
LEMMA LateInvStep == LateInv /\ [Next]_vars => LateInv'
<1> SUFFICES ASSUME LateInv, [Next]_vars PROVE LateInv'
  OBVIOUS
<1> USE DEF LateInv, life, Goto
<1>1. CASE \/ Start \/ Stop \/ Cancel \/ UNCHANGED vars
           \/ \E e \in Events : Accept(e) \/ Tell(e) \/ BecomesDue(e)
  BY <1>1 DEF Start, Stop, Cancel, Accept, Tell, BecomesDue, vars
<1>2. ASSUME NEW w \in Workers, WorkerStep(w), ~Claim(w) PROVE LateInv'
  BY <1>2 DEF WorkerStep, SelectHint, SelectTick, SelectDone, Check, LeavesDrain, DrainFails,
              DrainEmpty, Finish, AfterEvent
<1>3. ASSUME NEW w \in Workers, Claim(w) PROVE LateInv'
  BY <1>3 DEF Claim
<1> QED
  BY <1>1, <1>2, <1>3 DEF Next

\* After Stop a worker claims at most one more event, the one for which it
\* was past drain's tests already.
THEOREM StopIsHeeded == Spec => []OneClaimAfterStop
<1>1. Init => LateInv
  BY DEF Init, LateInv
<1>2. LateInv => OneClaimAfterStop
  BY DEF LateInv, OneClaimAfterStop
<1> QED
  BY <1>1, <1>2, LateInvStep, PTL DEF Spec

-----------------------------------------------------------------------------
(* The heartbeat                                                           *)

-----------------------------------------------------------------------------
(* No false alarm                                                          *)

\* A sample that failed only because the process goes down was taken under a
\* cancelled context, and so was everything main does to the server and the
\* queue: that is what makes NoFalseDown inductive.
QuietInv ==
    /\ verdict \in [Targets -> Verdicts]
    /\ NoFalseDown
    /\ \A t \in Targets : verdict[t] = "shutdown" => monitorCancelled
    /\ stopping => monitorCancelled
    /\ ~queueReady => monitorCancelled
    /\ main \in {"waiting", "quiet", "closing", "drained"} => monitorCancelled

\* QuietInv is inductive.
LEMMA QuietInvStep == QuietInv /\ [MonitorNext]_monitorVars => QuietInv'
<1> SUFFICES ASSUME QuietInv, [MonitorNext]_monitorVars PROVE QuietInv'
  OBVIOUS
<1> USE DEF QuietInv, NoFalseDown, Verdicts, lifecycle, metrics
<1>1. ASSUME NEW t \in Targets, Tick(t) \/ Leave(t) PROVE QuietInv'
  BY <1>1 DEF Tick, Leave
<1>2. ASSUME NEW t \in Targets, Probe(t) \/ ReadStats(t) PROVE QuietInv'
  BY <1>2 DEF Probe, ReadStats, StoreCall
<1>3. ASSUME NEW t \in Targets, Judge(t) PROVE QuietInv'
  BY <1>3 DEF Judge
<1>4. ASSUME NEW t \in Targets, Send(t) PROVE QuietInv'
  BY <1>4 DEF Send
<1>5. ASSUME NEW t \in Targets,
             \/ Enter(t) \/ Reply(t) \/ Record(t) \/ Load(t) \/ CompareAndSwap(t)
             \/ CheckStopped(t) \/ SaveLog(t)
      PROVE  QuietInv'
  BY <1>5 DEF Enter, Reply, Record, Load, CompareAndSwap, CheckStopped, SaveLog
<1>6. CASE \/ StopLock \/ StopCancel \/ StopDone \/ SetStopping \/ StopQueue
           \/ UNCHANGED monitorVars
  BY <1>6 DEF StopLock, StopCancel, StopDone, SetStopping, StopQueue, monitorVars
<1> QED
  BY <1>1, <1>2, <1>3, <1>4, <1>5, <1>6 DEF MonitorNext, Work, Shutdown

\* A planned stop never reaches a remote monitor as "down", however the
\* targets' rounds interleave with main's shutdown.
THEOREM StopIsNotAnOutage == MonitorSpec => []NoFalseDown
<1>1. MonitorInit => QuietInv
  BY DEF MonitorInit, QuietInv, NoFalseDown, Verdicts
<1>2. QuietInv => NoFalseDown
  BY DEF QuietInv
<1> QED
  BY <1>1, <1>2, QuietInvStep, PTL DEF MonitorSpec

-----------------------------------------------------------------------------
(* The aggregate                                                           *)

\* The value a target is about to swap in is newer than the one it loaded.
AggregateInv ==
    /\ place \in [Targets -> PCs]
    /\ previous \in [Targets -> Nat]
    /\ lastSuccess \in [Targets -> Nat]
    /\ aggregate \in Nat
    /\ \A t \in Targets : place[t] = "cas" => previous[t] < lastSuccess[t]
    /\ AggregateCoversTargets

\* AggregateInv is inductive: the compare-and-swap only moves the aggregate
\* forward.
LEMMA AggregateInvStep == AggregateInv /\ [MonitorNext]_monitorVars => AggregateInv'
<1> SUFFICES ASSUME AggregateInv, [MonitorNext]_monitorVars PROVE AggregateInv'
  OBVIOUS
<1> USE DEF AggregateInv, AggregateCoversTargets, PCs, MoveTo, lifecycle, metrics
<1>1. ASSUME NEW t \in Targets,
             \/ Tick(t) \/ Leave(t) \/ Probe(t) \/ ReadStats(t) \/ Judge(t) \/ Enter(t)
      PROVE  AggregateInv'
  BY <1>1 DEF Tick, Leave, Probe, ReadStats, StoreCall, Judge, Enter
<1>2. ASSUME NEW t \in Targets, Send(t) \/ Reply(t) \/ CheckStopped(t) \/ SaveLog(t)
      PROVE  AggregateInv'
  BY <1>2 DEF Send, Reply, CheckStopped, SaveLog
<1>3. ASSUME NEW t \in Targets, Record(t) PROVE AggregateInv'
  BY <1>3, HeartbeatAssumption DEF Record
<1>4. ASSUME NEW t \in Targets, Load(t) PROVE AggregateInv'
  BY <1>4 DEF Load
<1>5. ASSUME NEW t \in Targets, CompareAndSwap(t) PROVE AggregateInv'
  BY <1>5 DEF CompareAndSwap, Swaps
<1>6. CASE \/ StopLock \/ StopCancel \/ StopDone \/ SetStopping \/ StopQueue
           \/ UNCHANGED monitorVars
  BY <1>6 DEF StopLock, StopCancel, StopDone, SetStopping, StopQueue, monitorVars
<1> QED
  BY <1>1, <1>2, <1>3, <1>4, <1>5, <1>6 DEF MonitorNext, Work, Shutdown

\* Concurrent completions never move the aggregate's last success behind a
\* target that is through with its compare-and-swap loop, whatever the
\* clock readings are.
THEOREM AggregateIsNotBehind == MonitorSpec => []AggregateCoversTargets
<1>1. MonitorInit => AggregateInv
  BY DEF MonitorInit, AggregateInv, AggregateCoversTargets, PCs
<1>2. AggregateInv => AggregateCoversTargets
  BY DEF AggregateInv
<1>3. AggregateInv /\ [MonitorNext]_monitorVars => AggregateInv'
  BY AggregateInvStep
<1> QED
  BY <1>1, <1>2, <1>3, PTL DEF MonitorSpec

-----------------------------------------------------------------------------
(* The error log                                                           *)

\* Before SaveHeartbeatError the failure it reports has been counted and not
\* yet logged, unless the monitor was stopped in between.
ReportInv ==
    /\ place \in [Targets -> PCs]
    /\ failures \in [Targets -> Nat]
    /\ logged \in [Targets -> Nat]
    /\ logFailures \in [Targets -> Nat]
    /\ \A t \in Targets :
          /\ place[t] = "save" => logged[t] + 1 <= failures[t]
          /\ place[t] = "check" => monitorCancelled \/ logged[t] + 1 <= failures[t]
    /\ FailuresAreReported

\* ReportInv is inductive.
LEMMA ReportInvStep == ReportInv /\ [MonitorNext]_monitorVars => ReportInv'
<1> SUFFICES ASSUME ReportInv, [MonitorNext]_monitorVars PROVE ReportInv'
  OBVIOUS
<1> USE DEF ReportInv, FailuresAreReported, PCs, MoveTo, lifecycle, metrics
<1>1. ASSUME NEW t \in Targets,
             \/ Tick(t) \/ Leave(t) \/ Probe(t) \/ ReadStats(t) \/ Judge(t) \/ Enter(t)
      PROVE  ReportInv'
  BY <1>1 DEF Tick, Leave, Probe, ReadStats, StoreCall, Judge, Enter
<1>2. ASSUME NEW t \in Targets, Send(t) \/ Reply(t) \/ Load(t) \/ CompareAndSwap(t)
      PROVE  ReportInv'
  BY <1>2 DEF Send, Reply, Load, CompareAndSwap
<1>3. ASSUME NEW t \in Targets, Record(t) PROVE ReportInv'
  BY <1>3 DEF Record, CountsAsFailure
<1>4. ASSUME NEW t \in Targets, CheckStopped(t) PROVE ReportInv'
  BY <1>4 DEF CheckStopped
<1>5. ASSUME NEW t \in Targets, SaveLog(t) PROVE ReportInv'
  BY <1>5 DEF SaveLog, LogFailed
<1>6. CASE \/ StopLock \/ StopCancel \/ StopDone \/ SetStopping \/ StopQueue
           \/ UNCHANGED monitorVars
  BY <1>6 DEF StopLock, StopCancel, StopDone, SetStopping, StopQueue, monitorVars
<1> QED
  BY <1>1, <1>2, <1>3, <1>4, <1>5, <1>6 DEF MonitorNext, Work, Shutdown

\* Every counted failure is in heartbeat_logs or in LogFailures, except at
\* most one per target that Stop cut off, and no row is without a failure.
THEOREM FailuresAreAccountedFor == MonitorSpec => []FailuresAreReported
<1>1. MonitorInit => ReportInv
  BY DEF MonitorInit, ReportInv, FailuresAreReported, PCs
<1>2. ReportInv => FailuresAreReported
  BY DEF ReportInv
<1> QED
  BY <1>1, <1>2, ReportInvStep, PTL DEF MonitorSpec

=============================================================================
