----------------------------- MODULE OutboxProofs -----------------------------
(***************************************************************************)
(* Theorems about Outbox, for every set of events and workers, every       *)
(* number of actions and every value of the other constants.  The second   *)
(* half is about what a worker does under its lease: what the rows of an   *)
(* event say at every call of Queue.process and, from that, the safety     *)
(* invariants that need the lease and the refinement of Delivery.          *)
(***************************************************************************)
EXTENDS OutboxHistory, WellFoundedInduction, FiniteSetTheorems, TLAPS

-----------------------------------------------------------------------------
(* The tables                                                              *)

\* A nonempty set of times has an earliest one: MIN in RefreshEventStatus.
LEMMA EarliestExists ==
    ASSUME NEW D \in SUBSET Nat, D # {}
    PROVE  \E d \in D : \A c \in D : d <= c
<1>1. PICK d \in D : \A c \in D : ~(<<c, d>> \in OpToRel(<, Nat))
  BY WFMin, NatLessThanWellFounded
<1>2. \A c \in D : ~(c < d)
  BY <1>1 DEF OpToRel
<1> QED
  BY <1>2

\* Every row the store writes to table events is a well-formed row.
LEMMA EventRowTypes ==
    /\ \A s \in EventStatus : NoEventRow(s) \in EventRow
    /\ \A k \in Kinds, t \in Nat : PendingRow(k, t) \in EventRow
    /\ \A row \in EventRow : /\ RequeueRow(row) \in EventRow
                             /\ PrepareRow(row) \in EventRow
                             /\ ClearPayloadRow(row) \in EventRow
                             /\ RetryStartedAt(row) \in Nat
    /\ \A row \in EventRow, t \in Nat : /\ RenewRow(row, t) \in EventRow
                                       /\ ReplayRow(row, t) \in EventRow
    /\ \A row \in EventRow, t \in Nat, o \in Nat : ClaimRow(row, t, o) \in EventRow
    /\ \A row \in EventRow, agg \in Agg :
          agg.status # "none" => RefreshRow(row, agg) \in EventRow
    /\ \A row \in EventRow, s \in EventStatus, t \in Nat :
          StatusRow(row, s, t) \in EventRow
<1> USE StoreAssumption DEF StoreAssumption, EventRow, OptTime, Null, EventStatus,
                            OpenStatus, TerminalStatus
<1>1. \A s \in EventStatus : NoEventRow(s) \in EventRow
  BY DEF NoEventRow, Kinds
<1>2. \A k \in Kinds, t \in Nat : PendingRow(k, t) \in EventRow
  BY DEF PendingRow, NoEventRow
<1>3. ASSUME NEW row \in EventRow
      PROVE  /\ RequeueRow(row) \in EventRow
             /\ PrepareRow(row) \in EventRow
             /\ ClearPayloadRow(row) \in EventRow
             /\ RetryStartedAt(row) \in Nat
  <2>1. RequeueRow(row) \in EventRow
    BY DEF RequeueRow
  <2>2. PrepareRow(row) \in EventRow
    BY DEF PrepareRow
  <2>3. ClearPayloadRow(row) \in EventRow
    BY DEF ClearPayloadRow
  <2>4. RetryStartedAt(row) \in Nat
    BY DEF RetryStartedAt, Coalesce
  <2> QED
    BY <2>1, <2>2, <2>3, <2>4
<1>4. ASSUME NEW row \in EventRow, NEW t \in Nat
      PROVE  RenewRow(row, t) \in EventRow /\ ReplayRow(row, t) \in EventRow
  <2>1. row.gen + 1 \in Nat /\ t + Lease \in Nat
    OBVIOUS
  <2> QED
    BY <2>1 DEF RenewRow, ReplayRow
<1>5. ASSUME NEW row \in EventRow, NEW t \in Nat, NEW o \in Nat
      PROVE  ClaimRow(row, t, o) \in EventRow
  <2>1. t + Lease \in Nat
    OBVIOUS
  <2> QED
    BY <2>1 DEF ClaimRow
<1>6. ASSUME NEW row \in EventRow, NEW agg \in Agg, agg.status # "none"
      PROVE  RefreshRow(row, agg) \in EventRow
  BY <1>6 DEF RefreshRow, Agg
<1>7. ASSUME NEW row \in EventRow, NEW s \in EventStatus, NEW t \in Nat
      PROVE  StatusRow(row, s, t) \in EventRow
  BY DEF StatusRow
<1> QED
  BY <1>1, <1>2, <1>3, <1>4, <1>5, <1>6, <1>7

\* The status each update leaves, and the lease where it keeps one.
LEMMA EventRowStatus ==
    /\ \A s : NoEventRow(s).status = s
    /\ \A k, t : PendingRow(k, t).status = "pending"
    /\ \A row \in EventRow :
          /\ RequeueRow(row).status = "pending"
          /\ PrepareRow(row).status = row.status
          /\ PrepareRow(row).lease = row.lease
          /\ ClearPayloadRow(row).status = row.status
    /\ \A row \in EventRow : \A t :
          /\ ReplayRow(row, t).status = "pending"
          /\ RenewRow(row, t).status = row.status
          /\ RenewRow(row, t).lease = t + Lease
    /\ \A row \in EventRow : \A t, o :
          /\ ClaimRow(row, t, o).status = "processing"
          /\ ClaimRow(row, t, o).lease = t + Lease
    /\ \A row \in EventRow : \A agg : RefreshRow(row, agg).status = agg.status
    /\ \A row \in EventRow : \A s, t : StatusRow(row, s, t).status = s
<1>1. /\ \A s : NoEventRow(s).status = s
      /\ \A k, t : PendingRow(k, t).status = "pending"
  BY DEF NoEventRow, PendingRow
<1>2. ASSUME NEW row \in EventRow
      PROVE  /\ RequeueRow(row).status = "pending"
             /\ PrepareRow(row).status = row.status
             /\ PrepareRow(row).lease = row.lease
             /\ ClearPayloadRow(row).status = row.status
  BY DEF EventRow, RequeueRow, PrepareRow, ClearPayloadRow
<1>3. ASSUME NEW row \in EventRow, NEW t
      PROVE  /\ ReplayRow(row, t).status = "pending"
             /\ RenewRow(row, t).status = row.status
             /\ RenewRow(row, t).lease = t + Lease
  BY DEF EventRow, ReplayRow, RenewRow
<1>4. ASSUME NEW row \in EventRow, NEW t, NEW o
      PROVE  /\ ClaimRow(row, t, o).status = "processing"
             /\ ClaimRow(row, t, o).lease = t + Lease
  BY DEF EventRow, ClaimRow
<1>5. ASSUME NEW row \in EventRow, NEW agg
      PROVE  RefreshRow(row, agg).status = agg.status
  BY DEF EventRow, RefreshRow
<1>6. ASSUME NEW row \in EventRow, NEW s, NEW t
      PROVE  StatusRow(row, s, t).status = s
  BY DEF EventRow, StatusRow
<1> QED
  BY <1>1, <1>2, <1>3, <1>4, <1>5, <1>6

\* The same for the rows of one action and of all actions of an event.
LEMMA ActionRowTypes ==
    /\ NoActionRows \in [Actions -> ActionRow]
    /\ \A rows \in [Actions -> ActionRow] :
          ResetRunning(rows) \in [Actions -> ActionRow]
    /\ \A rows \in [Actions -> ActionRow], t \in Nat :
          /\ PrepareActions(rows, t) \in [Actions -> ActionRow]
          /\ ReplayActions(rows, t) \in [Actions -> ActionRow]
    /\ \A a \in ActionRow : StartRow(a) \in ActionRow
    /\ \A a \in ActionRow, s \in ActionStatus, t \in OptTime :
          SettleRow(a, s, t) \in ActionRow
<1> USE DEF ActionRow, ActionStatus, OptTime, Null
<1>1. NoActionRows \in [Actions -> ActionRow]
  BY DEF NoActionRows, NoActionRow
<1>2. ASSUME NEW rows \in [Actions -> ActionRow]
      PROVE  ResetRunning(rows) \in [Actions -> ActionRow]
  BY DEF ResetRunning
<1>3. ASSUME NEW rows \in [Actions -> ActionRow], NEW t \in Nat
      PROVE  /\ PrepareActions(rows, t) \in [Actions -> ActionRow]
             /\ ReplayActions(rows, t) \in [Actions -> ActionRow]
  BY DEF PrepareActions, ReplayActions
<1>4. ASSUME NEW a \in ActionRow
      PROVE  StartRow(a) \in ActionRow
  BY DEF StartRow
<1>5. ASSUME NEW a \in ActionRow, NEW s \in ActionStatus, NEW t \in OptTime
      PROVE  SettleRow(a, s, t) \in ActionRow
  BY DEF SettleRow
<1> QED
  BY <1>1, <1>2, <1>3, <1>4, <1>5

\* RefreshEventStatus computes columns that fit the table.
LEMMA AggregateType ==
    ASSUME NEW rows \in [Actions -> ActionRow], NEW t \in Nat
    PROVE  Aggregate(rows, t) \in Agg /\ Aggregate(rows, t).status # "none"
<1> DEFINE D == {rows[i].due : i \in WithStatus(rows, "retrying")} \ {Null}
<1>1. D \in SUBSET Nat
  BY DEF WithStatus, ActionRow, OptTime
<1>2. NextDue(rows, t) \in Nat
  <2>1. CASE D = {}
    BY <2>1 DEF NextDue
  <2>2. CASE D # {}
    <3>1. \E d \in D : \A c \in D : d <= c
      BY <1>1, <2>2, EarliestExists
    <3>2. NextDue(rows, t) = CHOOSE d \in D : \A c \in D : d <= c
      BY <2>2 DEF NextDue
    <3> HIDE DEF D
    <3>3. NextDue(rows, t) \in D
      BY <3>1, <3>2
    <3> QED
      BY <3>3, <1>1
  <2> QED
    BY <2>1, <2>2
<1> QED
  BY <1>2 DEF Aggregate, Agg, OptTime, Null

-----------------------------------------------------------------------------
(* Type correctness                                                        *)

\* What a worker writes to its local variables has the right type.
LEMMA JobTypes ==
    /\ NoJob \in Job
    /\ \A e \in Events : [NoJob EXCEPT !.ev = e] \in Job
    /\ \A j \in Job, t \in Nat : [j EXCEPT !.t = t] \in Job
    /\ \A j \in Job, n \in Nat : [j EXCEPT !.t = 0, !.attempt = n] \in Job
    /\ \A j \in Job, r \in Results :
          [j EXCEPT !.res = r] \in Job
    /\ \A j \in Job, rows \in [Actions -> ActionRow] : [j EXCEPT !.snap = rows] \in Job
    /\ \A j \in Job : j.idx \in Actions =>
          [j EXCEPT !.idx = @ + 1, !.t = 0, !.attempt = 0, !.res = "none"] \in Job
    /\ \A e \in Events, a \in Agg : [NoJob EXCEPT !.ev = e, !.agg = a] \in Job
<1>1. NoActionRows \in [Actions -> ActionRow]
  BY DEF NoActionRows, NoActionRow, ActionRow, ActionStatus, OptTime, Null
<1>2. NoAgg \in Agg
  BY DEF NoAgg, Agg, OptTime, Null
<1>3. 1 \in 1..(NumActions + 1)
  BY StoreAssumption DEF StoreAssumption
<1>4. NoJob \in Job
  BY <1>1, <1>2, <1>3 DEF NoJob, Job, Kinds
<1>5. \A e \in Events : [NoJob EXCEPT !.ev = e] \in Job
  BY <1>4 DEF Job
<1>6. \A j \in Job, t \in Nat : [j EXCEPT !.t = t] \in Job
  BY DEF Job
<1>7. \A j \in Job, n \in Nat : [j EXCEPT !.t = 0, !.attempt = n] \in Job
  BY DEF Job
<1>8. \A j \in Job, r \in Results :
         [j EXCEPT !.res = r] \in Job
  BY DEF Job
<1>9. \A j \in Job, rows \in [Actions -> ActionRow] : [j EXCEPT !.snap = rows] \in Job
  BY DEF Job
<1>10. ASSUME NEW j \in Job, j.idx \in Actions
       PROVE  [j EXCEPT !.idx = @ + 1, !.t = 0, !.attempt = 0, !.res = "none"] \in Job
  <2>1. j.idx + 1 \in 1..(NumActions + 1)
    BY <1>10, StoreAssumption DEF Actions, StoreAssumption
  <2> QED
    BY <2>1 DEF Job
<1>11. \A e \in Events, a \in Agg : [NoJob EXCEPT !.ev = e, !.agg = a] \in Job
  BY <1>4 DEF Job
<1> QED
  BY <1>4, <1>5, <1>6, <1>7, <1>8, <1>9, <1>10, <1>11

\* The empty store and the workers that are off are well typed.
LEMMA InitType == Init => TypeOK
<1> SUFFICES ASSUME Init PROVE TypeOK
  OBVIOUS
<1>1. NoEventRow("absent") \in EventRow
  BY DEF NoEventRow, EventRow, EventStatus, OptTime, Null, Kinds
<1>2. NoActionRows \in [Actions -> ActionRow]
  BY DEF NoActionRows, NoActionRow, ActionRow, ActionStatus, OptTime, Null
<1> QED
  BY <1>1, <1>2, JobTypes DEF Init, TypeOK, Labels, Processing

\* Every step of a worker keeps the types.
LEMMA WorkerStepType ==
    ASSUME TypeOK, NEW w \in Workers, WorkerStep(w)
    PROVE  TypeOK'
<1> USE DEF At, Goto, Return, GotoRequeue, Fault, Row, Rows, Act, SetRow, SetAct,
            NextAction, InLoop, tables, system
<1>0. ASSUME pc[w] \in Processing, GotoRequeue(w)
       PROVE  /\ job' \in [Workers -> Job]
              /\ pc' \in [Workers -> Labels]
              /\ \A v \in Workers :
                   /\ pc'[v] \in Processing => job'[v].ev \in Events
                   /\ pc'[v] \in {"start", "handle", "log", "settle"} => job'[v].idx \in Actions
                   /\ pc'[v] = "commit" => job'[v].agg.status # "none"
  <2>1. job[w].ev \in Events
    BY <1>0 DEF TypeOK
  <2>2. /\ [NoJob EXCEPT !.ev = job[w].ev] \in Job
        /\ [NoJob EXCEPT !.ev = job[w].ev].ev = job[w].ev
    BY <2>1, JobTypes DEF NoJob
  <2> QED
    BY <1>0, <2>1, <2>2 DEF TypeOK, Labels, Processing
<1>1. CASE Exit(w)
  BY <1>1 DEF TypeOK, Exit, Labels, Processing
<1>2. CASE Drain(w)
  <2>1. events' \in [Events -> EventRow]
    BY <1>2, EventRowTypes DEF TypeOK, Drain
  <2>2. acts' \in [Events -> [Actions -> ActionRow]]
    BY <1>2, ActionRowTypes DEF TypeOK, Drain
  <2>3. job' \in [Workers -> Job]
    BY <1>2, JobTypes DEF TypeOK, Drain
  <2> QED
    BY <1>2, <2>1, <2>2, <2>3 DEF TypeOK, Drain, Labels, Processing
<1>3. CASE Claim(w)
  <2>1. PICK e \in ClaimCandidates(job[w].t) :
          /\ events' = [events EXCEPT ![e] = ClaimRow(@, job[w].t, epoch)]
          /\ acts' = [acts EXCEPT ![e] = ResetRunning(@)]
          /\ job' = [job EXCEPT ![w] = PendingEvent(e)]
    BY <1>3 DEF Claim
  <2>2. e \in Events /\ events[e] \in EventRow /\ acts[e] \in [Actions -> ActionRow]
    BY DEF ClaimCandidates, TypeOK
  <2>3. events' \in [Events -> EventRow]
    BY <2>1, <2>2, EventRowTypes DEF TypeOK, Job
  <2>4. acts' \in [Events -> [Actions -> ActionRow]]
    BY <2>1, <2>2, ActionRowTypes DEF TypeOK
  <2>5. PendingEvent(e) \in Job /\ PendingEvent(e).ev = e
    <3>1. RetryStartedAt(events[e]) \in Nat
      BY <2>2, EventRowTypes
    <3>2. /\ events[e].kind \in Kinds /\ events[e].payload \in BOOLEAN
          /\ events[e].vars \in BOOLEAN
      BY <2>2 DEF EventRow
    <3>3. NoJob \in Job
      BY JobTypes
    <3>4. PendingEvent(e) \in Job
      BY <2>2, <3>1, <3>2, <3>3 DEF PendingEvent, Job
    <3> QED
      BY <3>3, <3>4 DEF PendingEvent, Job
  <2> QED
    BY <1>3, <2>1, <2>2, <2>3, <2>4, <2>5 DEF TypeOK, Claim, Labels, Processing
<1>4. CASE ClaimNothing(w)
  BY <1>4, JobTypes DEF TypeOK, ClaimNothing, Labels, Processing
<1>5. CASE MarkDead(w)
  <2>1. StatusRow(Row(w), "dead", now) \in EventRow
    BY <1>5, EventRowTypes DEF TypeOK, MarkDead, Processing, EventStatus, TerminalStatus
  <2>2. events' \in [Events -> EventRow]
    BY <1>5, <2>1 DEF TypeOK, MarkDead
  <2>3. faults' \in Nat
    BY <1>5 DEF TypeOK, MarkDead
  <2> QED
    BY <1>5, <2>2, <2>3, JobTypes DEF TypeOK, MarkDead, Labels, Processing
<1>6. CASE MarkSkipped(w)
  <2>1. events' \in [Events -> EventRow]
    BY <1>6, EventRowTypes DEF TypeOK, MarkSkipped, Processing, EventStatus, TerminalStatus
  <2> QED
    BY <1>6, <2>1, JobTypes DEF TypeOK, MarkSkipped, Labels, Processing
<1>7. CASE ClearSkipped(w)
  <2>1. ClearPayloadRow(Row(w)) \in EventRow
    BY <1>7, EventRowTypes DEF TypeOK, ClearSkipped, Processing
  <2>2. events' \in [Events -> EventRow]
    BY <1>7, <2>1 DEF TypeOK, ClearSkipped
  <2>3. faults' \in Nat
    BY <1>7 DEF TypeOK, ClearSkipped
  <2> QED
    BY <1>7, <2>2, <2>3, JobTypes DEF TypeOK, ClearSkipped, Labels, Processing
<1>8. CASE HaveVars(w)
  BY <1>8 DEF TypeOK, HaveVars, Labels, Processing
<1>9. CASE PrepareEvent(w)
  <2>1. events' \in [Events -> EventRow]
    BY <1>9, EventRowTypes DEF TypeOK, PrepareEvent, Processing
  <2>2. acts' \in [Events -> [Actions -> ActionRow]]
    BY <1>9, ActionRowTypes DEF TypeOK, PrepareEvent, Processing
  <2> QED
    BY <1>9, <2>1, <2>2 DEF TypeOK, PrepareEvent, Labels, Processing
<1>10. CASE ListActionStates(w)
  <2>1. job' \in [Workers -> Job]
    BY <1>10, JobTypes DEF TypeOK, ListActionStates, Processing
  <2> QED
    BY <1>10, <2>1 DEF TypeOK, ListActionStates, Labels, Processing
<1>11. CASE LoopCancelled(w)
  BY <1>0, <1>11 DEF TypeOK, LoopCancelled, Processing
<1> DEFINE Acting(v) == InLoop(v) \/ pc[v] \in {"start", "settle"}
<1>12. ASSUME Acting(w), NextAction(w)
       PROVE  /\ job' \in [Workers -> Job]
              /\ pc' \in [Workers -> Labels]
              /\ \A v \in Workers :
                   /\ pc'[v] \in Processing => job'[v].ev \in Events
                   /\ pc'[v] \in {"start", "handle", "log", "settle"} => job'[v].idx \in Actions
                   /\ pc'[v] = "commit" => job'[v].agg.status # "none"
  <2>1. job[w].idx \in Actions
    BY <1>12, StoreAssumption DEF TypeOK, Job, Actions, StoreAssumption
  <2>2. job' \in [Workers -> Job]
    BY <1>12, <2>1, JobTypes DEF TypeOK
  <2> QED
    BY <1>12, <2>2 DEF TypeOK, Labels, Processing
<1>13. CASE SkipAction(w)
  BY <1>12, <1>13 DEF TypeOK, SkipAction
<1>14. ASSUME Acting(w),
              NEW a \in ActionRow, SetAct(w, a)
       PROVE  acts' \in [Events -> [Actions -> ActionRow]]
  BY <1>14 DEF TypeOK
<1>15. Acting(w) => Act(w) \in ActionRow
  BY StoreAssumption DEF TypeOK, Job, Actions, StoreAssumption, Processing
<1>30. CASE ReadClock(w)
  <2>1. job[w].idx \in Actions
    BY <1>30, StoreAssumption DEF TypeOK, ReadClock, Job, Actions, StoreAssumption
  <2>2. job' \in [Workers -> Job]
    BY <1>30, JobTypes DEF TypeOK, ReadClock
  <2>3. job'[w].ev = job[w].ev /\ job'[w].idx = job[w].idx
    BY <1>30 DEF TypeOK, ReadClock, Job
  <2> QED
    BY <1>30, <2>1, <2>2, <2>3 DEF TypeOK, ReadClock, Labels, Processing
<1>31. CASE SkipRetry(w)
  BY <1>12, <1>31 DEF TypeOK, SkipRetry
<1>16. CASE ExpireAction(w)
  <2>1. SettleRow(Act(w), "dead", Null) \in ActionRow
    BY <1>15, <1>16, ActionRowTypes DEF ExpireAction, ActionStatus, OptTime
  <2> QED
    BY <1>12, <1>14, <1>16, <2>1 DEF TypeOK, ExpireAction
<1>17. CASE StartAction(w)
  <2>1. pc[w] = "start"
    BY <1>17 DEF StartAction, Dispatches
  <2>2. StartRow(Act(w)) \in ActionRow /\ Act(w).attempts + 1 \in Nat
    BY <1>15, <2>1, ActionRowTypes DEF ActionRow
  <2>3. acts' \in [Events -> [Actions -> ActionRow]]
    BY <1>14, <1>17, <2>1, <2>2 DEF StartAction
  <2>4. job' \in [Workers -> Job]
    BY <1>17, <2>2, JobTypes DEF TypeOK, StartAction
  <2>5. job[w].idx \in Actions
    BY <2>1, StoreAssumption DEF TypeOK, Job, Actions, StoreAssumption
  <2> QED
    BY <1>17, <2>1, <2>3, <2>4, <2>5 DEF TypeOK, StartAction, Labels, Processing
<1>18. CASE StartNoRow(w)
  BY <1>12, <1>18 DEF TypeOK, StartNoRow, Dispatches
<1>19. CASE StartInterrupted(w)
  <2>1. pc[w] = "start"
    BY <1>19 DEF StartInterrupted, Dispatches
  <2>2. StartRow(Act(w)) \in ActionRow
    BY <1>15, <2>1, ActionRowTypes
  <2>3. acts' \in [Events -> [Actions -> ActionRow]]
    BY <1>14, <1>19, <2>1, <2>2 DEF StartInterrupted
  <2> QED
    BY <1>0, <1>19, <2>1, <2>3 DEF TypeOK, StartInterrupted, Processing
<1>20. CASE Handle(w)
  <2>1. PICK r \in Results :
          job' = [job EXCEPT ![w].res = r]
    BY <1>20 DEF Handle
  <2>2. job' \in [Workers -> Job] /\ job'[w].ev = job[w].ev /\ job'[w].idx = job[w].idx
    <3>1. [job[w] EXCEPT !.res = r] \in Job
      BY JobTypes DEF TypeOK
    <3>2. job' = [job EXCEPT ![w] = [job[w] EXCEPT !.res = r]]
      BY <2>1 DEF TypeOK
    <3> QED
      BY <3>1, <3>2 DEF TypeOK, Job
  <2> QED
    BY <1>20, <2>1, <2>2 DEF TypeOK, Handle, Labels, Processing
<1>21. CASE LogAction(w)
  <2>1. \/ audit' = audit
        \/ audit' = [audit EXCEPT ![job[w].ev][job[w].idx] = TRUE]
    BY <1>21 DEF LogAction
  <2>2. audit' \in [Events -> [Actions -> BOOLEAN]]
    <3>1. CASE audit' = audit
      BY <3>1 DEF TypeOK
    <3>2. CASE audit' = [audit EXCEPT ![job[w].ev][job[w].idx] = TRUE]
      <4>1. [audit[job[w].ev] EXCEPT ![job[w].idx] = TRUE] \in [Actions -> BOOLEAN]
        BY <1>21, Zenon DEF TypeOK, LogAction, Processing
      <4>2. audit' = [audit EXCEPT ![job[w].ev] =
                                  [audit[job[w].ev] EXCEPT ![job[w].idx] = TRUE]]
        BY <3>2
      <4> QED
        BY <4>1, <4>2 DEF TypeOK
    <3> QED
      BY <2>1, <3>1, <3>2
  <2>3. faults' \in Nat
    BY <1>21 DEF TypeOK, LogAction
  <2> QED
    BY <1>21, <2>2, <2>3 DEF TypeOK, LogAction, Labels, Processing
<1>22. CASE CompleteAction(w)
  <2>1. SettleRow(Act(w), "done", Null) \in ActionRow
    BY <1>15, <1>22, ActionRowTypes DEF CompleteAction, ActionStatus, OptTime
  <2> QED
    BY <1>12, <1>14, <1>22, <2>1 DEF TypeOK, CompleteAction
<1>23. CASE SettleCancelled(w)
  BY <1>0, <1>23 DEF TypeOK, SettleCancelled, Processing
<1>24. CASE DeadAction(w)
  <2>1. SettleRow(Act(w), "dead", Null) \in ActionRow
    BY <1>15, <1>24, ActionRowTypes DEF DeadAction, ActionStatus, OptTime
  <2> QED
    BY <1>12, <1>14, <1>24, <2>1 DEF TypeOK, DeadAction
<1>25. CASE ScheduleActionRetry(w)
  <2>1. PICK d \in Delays : SetAct(w, SettleRow(Act(w), "retrying", now + d))
    BY <1>25 DEF ScheduleActionRetry
  <2>2. now + d \in OptTime
    BY OutboxAssumption DEF OutboxAssumption, TypeOK, OptTime
  <2>3. SettleRow(Act(w), "retrying", now + d) \in ActionRow
    BY <1>15, <1>25, <2>2, ActionRowTypes DEF ScheduleActionRetry, ActionStatus
  <2> QED
    BY <1>12, <1>14, <1>25, <2>1, <2>3 DEF TypeOK, ScheduleActionRetry
<1>26. CASE RefreshSelect(w)
  <2>1. /\ Aggregate(Rows(w), now) \in Agg
        /\ Aggregate(Rows(w), now).status # "none"
    BY <1>26, AggregateType DEF RefreshSelect, TypeOK, Processing
  <2>2. job' \in [Workers -> Job]
    BY <1>26, <2>1, JobTypes DEF TypeOK, RefreshSelect, Processing
  <2>3. job'[w].ev = job[w].ev /\ job'[w].agg = Aggregate(Rows(w), now)
    BY <1>26 DEF TypeOK, RefreshSelect, NoJob
  <2> QED
    BY <1>26, <2>1, <2>2, <2>3 DEF TypeOK, RefreshSelect, Labels, Processing
<1>27. CASE RefreshUpdate(w)
  <2>1. events' \in [Events -> EventRow]
    BY <1>27, EventRowTypes DEF TypeOK, RefreshUpdate, Processing, Job
  <2> QED
    BY <1>27, <2>1, JobTypes DEF TypeOK, RefreshUpdate, Labels, Processing
<1>28. CASE StoreError(w)
  <2>1. pc[w] \in Processing
    BY <1>28 DEF StoreError, NoRowMatches, CallsStore, Dispatches, Processing
  <2>2. faults' \in Nat
    BY <1>28 DEF StoreError, TypeOK
  <2> QED
    BY <1>0, <1>28, <2>1, <2>2 DEF TypeOK, StoreError
<1>29. CASE Requeue(w)
  <2>1. /\ RequeueRow(Row(w)) \in EventRow
        /\ ResetRunning(Rows(w)) \in [Actions -> ActionRow]
    BY <1>29, EventRowTypes, ActionRowTypes DEF TypeOK, Requeue, Processing
  <2>2. events' \in [Events -> EventRow]
    BY <1>29, <2>1 DEF TypeOK, Requeue
  <2>3. acts' \in [Events -> [Actions -> ActionRow]]
    BY <1>29, <2>1 DEF TypeOK, Requeue
  <2>4. faults' \in Nat
    BY <1>29 DEF TypeOK, Requeue
  <2> QED
    BY <1>29, <2>2, <2>3, <2>4, JobTypes DEF TypeOK, Requeue, Labels, Processing
<1> QED
  BY <1>1, <1>2, <1>3, <1>4, <1>5, <1>6, <1>7, <1>8, <1>9, <1>10, <1>11, <1>13,
     <1>16, <1>17, <1>18, <1>19, <1>20, <1>21, <1>22, <1>23, <1>24, <1>25,
     <1>26, <1>27, <1>28, <1>29, <1>30, <1>31
  DEF WorkerStep

\* Every step of the rest of the program keeps the types.
LEMMA SystemStepType ==
    ASSUME TypeOK,
           \/ \E w \in Workers : RenewLease(w)
           \/ \E e \in Events : SavePendingEvent(e) \/ ReplayDeadEvent(e)
           \/ PurgeOlderThan \/ Shutdown \/ CancelWorkers \/ ProcessExit
           \/ Crash \/ Restart \/ Tick
    PROVE  TypeOK'
<1> USE DEF tables, system
<1>1. CASE \E w \in Workers : RenewLease(w)
  <2>1. PICK w \in Workers : RenewLease(w)
    BY <1>1
  <2>2. events' \in [Events -> EventRow]
    BY <2>1, EventRowTypes DEF RenewLease, TypeOK, Row, SetRow
  <2> QED
    BY <2>1, <2>2 DEF RenewLease, TypeOK
<1>2. CASE \E e \in Events : SavePendingEvent(e)
  <2>1. events' \in [Events -> EventRow]
    BY <1>2, EventRowTypes, OutboxAssumption
    DEF SavePendingEvent, TypeOK, OutboxAssumption
  <2> QED
    BY <1>2, <2>1 DEF SavePendingEvent, TypeOK
<1>3. CASE \E e \in Events : ReplayDeadEvent(e)
  <2>1. events' \in [Events -> EventRow]
    BY <1>3, EventRowTypes DEF ReplayDeadEvent, TypeOK
  <2>2. acts' \in [Events -> [Actions -> ActionRow]]
    BY <1>3, ActionRowTypes DEF ReplayDeadEvent, TypeOK
  <2> QED
    BY <1>3, <2>1, <2>2 DEF ReplayDeadEvent, TypeOK
<1>4. CASE PurgeOlderThan
  <2>1. events' \in [Events -> EventRow]
    BY <1>4, EventRowTypes DEF PurgeOlderThan, TypeOK, EventStatus
  <2>2. acts' \in [Events -> [Actions -> ActionRow]]
    BY <1>4, ActionRowTypes DEF PurgeOlderThan, TypeOK
  <2>3. audit' \in [Events -> [Actions -> BOOLEAN]]
    BY <1>4 DEF PurgeOlderThan, TypeOK
  <2> QED
    BY <1>4, <2>1, <2>2, <2>3 DEF PurgeOlderThan, TypeOK
<1>5. CASE Shutdown \/ CancelWorkers \/ ProcessExit
  BY <1>5 DEF Shutdown, CancelWorkers, ProcessExit, TypeOK
<1>6. CASE Crash
  BY <1>6, JobTypes DEF Crash, TypeOK, Labels, Processing
<1>7. CASE Restart
  <2>1. events' \in [Events -> EventRow]
    BY <1>7, EventRowTypes DEF Restart, TypeOK
  <2>2. acts' \in [Events -> [Actions -> ActionRow]]
    BY <1>7, ActionRowTypes DEF Restart, TypeOK
  <2> QED
    <3>1. pc' \in [Workers -> Labels] /\ job' \in [Workers -> Job]
      BY <1>7, JobTypes DEF Restart, TypeOK, Labels
    <3>2. \A w \in Workers : pc'[w] = "idle"
      BY <1>7 DEF Restart
    <3>3. epoch' \in Nat /\ now' \in Nat /\ faults' \in Nat /\ proc' = "up"
      BY <1>7 DEF Restart, TypeOK
    <3>4. audit' \in [Events -> [Actions -> BOOLEAN]]
      BY <1>7 DEF Restart, TypeOK
    <3> QED
      BY <2>1, <2>2, <3>1, <3>2, <3>3, <3>4 DEF TypeOK, Processing
<1>8. CASE Tick
  BY <1>8 DEF Tick, TypeOK
<1> QED
  BY <1>1, <1>2, <1>3, <1>4, <1>5, <1>6, <1>7, <1>8

\* TypeOK is inductive.
LEMMA NextType == TypeOK /\ [Next]_vars => TypeOK'
<1> SUFFICES ASSUME TypeOK, [Next]_vars PROVE TypeOK'
  OBVIOUS
<1>1. CASE \E w \in Workers : WorkerStep(w)
  BY <1>1, WorkerStepType
<1>2. CASE UNCHANGED vars
  BY <1>2 DEF vars, TypeOK
<1> QED
  BY <1>1, <1>2, SystemStepType DEF Next

\* Type correctness: whatever the interleaving of workers, crashes, shutdowns
\* and failing store calls, every row stays well formed and a worker inside
\* process always has a claimed event, a valid action index and an aggregate
\* to write.
THEOREM TypeCorrect == Spec => []TypeOK
  BY InitType, NextType, PTL DEF Spec

-----------------------------------------------------------------------------
(* Done is final                                                           *)

\* What one step keeps, for every event: a purged id stays purged, and
\* unless the step purges the event a done action stays done and an action
\* row that exists goes on existing.
Keeps(e) ==
    /\ events[e].status = "purged" => events'[e].status = "purged"
    /\ events'[e].status # "purged" =>
          \A i \in Actions :
             /\ acts[e][i].status = "done" => acts'[e][i].status = "done"
             /\ acts[e][i].status # "none" => acts'[e][i].status # "none"

\* The updates of a whole event's action rows leave done rows alone and
\* delete none.
LEMMA RowsKept ==
    \A rows \in [Actions -> ActionRow], i \in Actions :
       /\ rows[i].status = "done" => ResetRunning(rows)[i].status = "done"
       /\ rows[i].status # "none" => ResetRunning(rows)[i].status # "none"
       /\ \A t : /\ rows[i].status = "done" =>
                       /\ PrepareActions(rows, t)[i].status = "done"
                       /\ ReplayActions(rows, t)[i].status = "done"
                 /\ PrepareActions(rows, t)[i].status # "none"
                 /\ rows[i].status # "none" =>
                       ReplayActions(rows, t)[i].status # "none"
  BY DEF ResetRunning, PrepareActions, ReplayActions

\* No step of a worker reopens an action that is done.
LEMMA WorkerStepKeeps ==
    ASSUME TypeOK, NEW w \in Workers, WorkerStep(w), NEW e \in Events
    PROVE  Keeps(e)
<1> USE DEF At, Row, Rows, Act, SetRow, SetAct, InLoop, tables, Keeps
<1>1. CASE \/ Exit(w) \/ ClaimNothing(w) \/ HaveVars(w) \/ ListActionStates(w)
           \/ LoopCancelled(w) \/ SkipAction(w) \/ ReadClock(w) \/ SkipRetry(w)
           \/ StartNoRow(w) \/ Handle(w)
           \/ LogAction(w) \/ SettleCancelled(w) \/ RefreshSelect(w) \/ StoreError(w)
  BY <1>1 DEF Exit, ClaimNothing, HaveVars, ListActionStates, LoopCancelled,
              SkipAction, ReadClock, SkipRetry,
              StartNoRow, Handle, LogAction, SettleCancelled, RefreshSelect, StoreError
<1>2. CASE Drain(w)
  <2>1. \/ events'[e] = events[e] /\ acts'[e] = acts[e]
        \/ events[e].status = "processing" /\ acts'[e] = ResetRunning(acts[e])
    BY <1>2 DEF Drain, LeaseExpired
  <2> QED
    BY <2>1, RowsKept DEF TypeOK
<1>3. CASE Claim(w)
  <2>1. PICK f \in ClaimCandidates(job[w].t) :
          /\ events' = [events EXCEPT ![f] = ClaimRow(@, job[w].t, epoch)]
          /\ acts' = [acts EXCEPT ![f] = ResetRunning(@)]
    BY <1>3 DEF Claim
  <2>2. f \in Events /\ events[f].status # "purged"
    BY DEF ClaimCandidates, Claimable, LeaseExpired
  <2>3. \/ events'[e] = events[e] /\ acts'[e] = acts[e]
        \/ events[e].status # "purged" /\ acts'[e] = ResetRunning(acts[e])
    BY <2>1, <2>2 DEF TypeOK
  <2> QED
    BY <2>3, RowsKept DEF TypeOK
<1>4. CASE MarkDead(w) \/ MarkSkipped(w) \/ ClearSkipped(w) \/ RefreshUpdate(w)
  <2>1. acts' = acts
    BY <1>4 DEF MarkDead, MarkSkipped, ClearSkipped, RefreshUpdate
  <2>2. CASE MarkDead(w) \/ MarkSkipped(w) \/ RefreshUpdate(w)
    BY <2>1, <2>2 DEF MarkDead, MarkSkipped, RefreshUpdate, Exists, TypeOK
  <2>3. CASE ClearSkipped(w)
    <3>1. Row(w).status = ClearPayloadRow(Row(w)).status
      BY <2>3 DEF ClearSkipped, ClearPayloadRow, TypeOK, EventRow, Processing
    <3>2. events'[e].status = events[e].status
      BY <2>3, <3>1 DEF ClearSkipped, TypeOK
    <3> QED
      BY <2>1, <3>2
  <2> QED
    BY <1>4, <2>2, <2>3
<1>5. CASE PrepareEvent(w)
  BY <1>5, RowsKept DEF PrepareEvent, TypeOK
<1>6. CASE \/ ExpireAction(w) \/ StartAction(w) \/ StartInterrupted(w)
           \/ CompleteAction(w) \/ DeadAction(w) \/ ScheduleActionRetry(w)
  <2>1. /\ events' = events
        /\ Act(w).status \in {"pending", "retrying", "running"}
    BY <1>6 DEF ExpireAction, StartAction, StartInterrupted, CompleteAction, DeadAction,
                ScheduleActionRetry, Expirable, Startable
  <2>2. \E s \in {"running", "dead", "done", "retrying"}, a \in ActionRow :
           a.status = s /\ SetAct(w, a)
    <3>1. Act(w) \in ActionRow
      BY <1>6, StoreAssumption
      DEF ExpireAction, StartAction, StartInterrupted, CompleteAction, DeadAction,
          ScheduleActionRetry, Dispatches, TypeOK, Job, Actions, StoreAssumption, Processing
    <3>2. /\ StartRow(Act(w)) \in ActionRow /\ StartRow(Act(w)).status = "running"
          /\ \A s \in {"dead", "done", "retrying"}, t \in OptTime :
                /\ SettleRow(Act(w), s, t) \in ActionRow
                /\ SettleRow(Act(w), s, t).status = s
      BY <3>1, ActionRowTypes DEF StartRow, SettleRow, ActionRow, ActionStatus
    <3>3. Null \in OptTime /\ \A d \in Delays : now + d \in OptTime
      BY OutboxAssumption DEF OutboxAssumption, OptTime, TypeOK
    <3> QED
      BY <1>6, <3>2, <3>3
      DEF ExpireAction, StartAction, StartInterrupted, CompleteAction, DeadAction,
          ScheduleActionRetry
  <2> QED
    BY <2>1, <2>2 DEF TypeOK
<1>7. CASE Requeue(w)
  <2>1. \/ events'[e] = events[e] /\ acts'[e] = acts[e]
        \/ events[e].status = "processing" /\ acts'[e] = ResetRunning(acts[e])
    BY <1>7 DEF Requeue, Requeueable, TypeOK, Processing
  <2> QED
    BY <2>1, RowsKept DEF TypeOK
<1> QED
  BY <1>1, <1>2, <1>3, <1>4, <1>5, <1>6, <1>7 DEF WorkerStep

\* No step at all reopens an action that is done.
LEMMA NextKeeps == TypeOK /\ [Next]_vars => \A e \in Events : Keeps(e)
<1> SUFFICES ASSUME TypeOK, [Next]_vars, NEW e \in Events PROVE Keeps(e)
  OBVIOUS
<1> USE DEF tables, Keeps
<1>1. CASE \E w \in Workers : WorkerStep(w)
  BY <1>1, WorkerStepKeeps
<1>2. CASE \E w \in Workers : RenewLease(w)
  BY <1>2 DEF RenewLease, Renewable, Row, SetRow, TypeOK
<1>3. CASE \E f \in Events : SavePendingEvent(f)
  BY <1>3 DEF SavePendingEvent, TypeOK
<1>4. CASE \E f \in Events : ReplayDeadEvent(f)
  BY <1>4, RowsKept DEF ReplayDeadEvent, Replayable, TypeOK
<1>5. CASE PurgeOlderThan
  <2> DEFINE P == {f \in Events : Purgeable(events[f], now - Retention)}
  <2>1. /\ events' = [f \in Events |-> IF f \in P THEN NoEventRow("purged") ELSE events[f]]
        /\ acts' = [f \in Events |-> IF f \in P THEN NoActionRows ELSE acts[f]]
    BY <1>5 DEF PurgeOlderThan
  <2> QED
    BY <2>1 DEF NoEventRow
<1>6. CASE Restart
  BY <1>6, RowsKept DEF Restart, Recovered, TypeOK
<1>7. CASE Shutdown \/ CancelWorkers \/ ProcessExit \/ Crash \/ Tick \/ UNCHANGED vars
  BY <1>7 DEF Shutdown, CancelWorkers, ProcessExit, Crash, Tick, vars
<1> QED
  BY <1>1, <1>2, <1>3, <1>4, <1>5, <1>6, <1>7 DEF Next

\* An action recorded as done is never run again, dead-lettered or reset, for
\* any number of workers and whether or not leases are renewed in time; only
\* retention removes it.
THEOREM DoneStaysDone == Spec => DoneIsFinal
<1>1. TypeOK /\ [Next]_vars =>
        [\A e \in Events, i \in Actions :
           acts[e][i].status = "done" =>
              acts'[e][i].status = "done" \/ events'[e].status = "purged"]_vars
  BY NextKeeps DEF Keeps
<1> QED
  BY <1>1, TypeCorrect, PTL DEF Spec, DoneIsFinal

-----------------------------------------------------------------------------
(* A done event has all of its actions done                                *)

\* Retention has removed the event.
Gone(e) == events[e].status = "purged"

\* EventDoneMeansAllDone is not inductive: RefreshEventStatus decides in one
\* step and writes in a later one, when other workers may have moved on.
\* What carries it across is that a worker past PrepareEvent has rows for
\* every action, and that the "done" it is about to write is still true.
DoneInv ==
    /\ EventDoneMeansAllDone
    /\ \A w \in Workers :
          /\ pc[w] \in {"list", "loop", "start", "handle", "log", "settle"} =>
                \/ Gone(job[w].ev)
                \/ \A i \in Actions : acts[job[w].ev][i].status # "none"
          /\ pc[w] = "commit" /\ job[w].agg.status = "done" =>
                \/ Gone(job[w].ev)
                \/ \A i \in Actions : acts[job[w].ev][i].status = "done"

\* An event becomes done in no other way than by the UPDATE of
\* RefreshEventStatus.
LEMMA OnlyRefreshCloses ==
    ASSUME TypeOK, [Next]_vars, NEW e \in Events,
           events[e].status # "done", events'[e].status = "done"
    PROVE  \E w \in Workers : RefreshUpdate(w) /\ job[w].ev = e
                              /\ job[w].agg.status = "done"
<1> USE DEF At, Row, SetRow, tables
<1>1. ASSUME NEW w \in Workers, WorkerStep(w)
      PROVE  RefreshUpdate(w) /\ job[w].ev = e /\ job[w].agg.status = "done"
  <2>1. ~(\/ Exit(w) \/ ClaimNothing(w) \/ HaveVars(w) \/ ListActionStates(w)
          \/ LoopCancelled(w) \/ SkipAction(w) \/ ReadClock(w) \/ SkipRetry(w)
          \/ StartNoRow(w) \/ Handle(w)
          \/ LogAction(w) \/ SettleCancelled(w) \/ RefreshSelect(w) \/ StoreError(w)
          \/ ExpireAction(w) \/ StartAction(w) \/ StartInterrupted(w)
          \/ CompleteAction(w) \/ DeadAction(w) \/ ScheduleActionRetry(w))
    BY DEF Exit, ClaimNothing, HaveVars, ListActionStates, LoopCancelled,
           SkipAction, ReadClock, SkipRetry,
           StartNoRow, Handle, LogAction, SettleCancelled, RefreshSelect, StoreError,
           ExpireAction, StartAction, StartInterrupted, CompleteAction, DeadAction,
           ScheduleActionRetry
  <2>2. ~Drain(w)
    BY EventRowStatus DEF Drain, TypeOK
  <2>3. ~Claim(w)
    <3>1. ASSUME Claim(w)
          PROVE  events'[e].status \in {events[e].status, "processing"}
      <4>1. PICK f \in Events : events' = [events EXCEPT ![f] = ClaimRow(@, job[w].t, epoch)]
        BY <3>1 DEF Claim, ClaimCandidates
      <4> QED
        BY <4>1, EventRowStatus DEF TypeOK
    <3> QED
      BY <3>1
  <2>4. ~MarkDead(w)
    BY EventRowStatus DEF MarkDead, TypeOK
  <2>5. ~MarkSkipped(w)
    BY EventRowStatus DEF MarkSkipped, TypeOK
  <2>6. ~ClearSkipped(w)
    BY DEF ClearSkipped, ClearPayloadRow, TypeOK, EventRow
  <2>7. ~PrepareEvent(w)
    BY EventRowStatus DEF PrepareEvent, TypeOK
  <2>8. ~Requeue(w)
    BY EventRowStatus DEF Requeue, TypeOK
  <2>9. RefreshUpdate(w)
    BY <1>1, <2>1, <2>2, <2>3, <2>4, <2>5, <2>6, <2>7, <2>8 DEF WorkerStep
  <2> QED
    BY <2>9, EventRowStatus DEF RefreshUpdate, TypeOK
<1>2. ~(\E w \in Workers : RenewLease(w))
  BY EventRowStatus DEF RenewLease, TypeOK
<1>3. ~(\E f \in Events : SavePendingEvent(f))
  <2>1. ASSUME NEW f \in Events, SavePendingEvent(f)
        PROVE  events'[e].status \in {events[e].status, "pending"}
    <3>1. PICK k \in AcceptKinds : events' = [events EXCEPT ![f] = PendingRow(k, now)]
      BY <2>1 DEF SavePendingEvent
    <3> QED
      BY <3>1, EventRowStatus DEF TypeOK
  <2> QED
    BY <2>1
<1>4. ~(\E f \in Events : ReplayDeadEvent(f))
  BY EventRowStatus DEF ReplayDeadEvent, TypeOK
<1>5. ~PurgeOlderThan
  BY EventRowStatus DEF PurgeOlderThan, TypeOK
<1>6. ~Restart
  BY EventRowStatus DEF Restart, TypeOK
<1>7. ~(Shutdown \/ CancelWorkers \/ ProcessExit \/ Crash \/ Tick \/ UNCHANGED vars)
  BY DEF Shutdown, CancelWorkers, ProcessExit, Crash, Tick, vars
<1> QED
  BY <1>1, <1>2, <1>3, <1>4, <1>5, <1>6, <1>7 DEF Next

\* Inside the loop over the actions, and between the two statements of
\* RefreshEventStatus.
LoopLabels == {"list", "loop", "start", "handle", "log", "settle"}

\* How a worker gets into the loop and out of it.
LEMMA OwnStepFlow ==
    ASSUME TypeOK, NEW v \in Workers, WorkerStep(v)
    PROVE  \/ pc'[v] \in {"idle", "exited", "claim", "vars", "clear", "prepare", "requeue"}
           \/ PrepareEvent(v)
           \/ RefreshSelect(v)
           \/ /\ pc[v] \in LoopLabels /\ pc'[v] \in LoopLabels
              /\ job'[v].ev = job[v].ev
<1> USE DEF At, Goto, Return, GotoRequeue, NextAction, InLoop, LoopLabels
<1>1. CASE \/ Exit(v) \/ Drain(v) \/ Claim(v) \/ ClaimNothing(v) \/ MarkDead(v)
           \/ MarkSkipped(v) \/ ClearSkipped(v) \/ HaveVars(v) \/ LoopCancelled(v)
           \/ StartInterrupted(v) \/ SettleCancelled(v) \/ RefreshUpdate(v)
           \/ StoreError(v) \/ Requeue(v)
  BY <1>1 DEF Exit, Drain, Claim, ClaimNothing, MarkDead, MarkSkipped, ClearSkipped,
              HaveVars, LoopCancelled, StartInterrupted, SettleCancelled, RefreshUpdate,
              StoreError, Requeue, TypeOK
<1>2. CASE SkipAction(v) \/ ReadClock(v) \/ SkipRetry(v) \/ ExpireAction(v) \/ StartNoRow(v)
  BY <1>2 DEF SkipAction, ReadClock, SkipRetry,
              ExpireAction, StartNoRow, Dispatches, TypeOK, Job
<1>3. CASE CompleteAction(v) \/ DeadAction(v) \/ ScheduleActionRetry(v)
  BY <1>3 DEF CompleteAction, DeadAction, ScheduleActionRetry, TypeOK, Job
<1>4. CASE ListActionStates(v) \/ StartAction(v) \/ Handle(v) \/ LogAction(v)
  BY <1>4 DEF ListActionStates, StartAction, Dispatches, Handle, LogAction, TypeOK, Job
<1> QED
  BY <1>1, <1>2, <1>3, <1>4 DEF WorkerStep

\* A worker that does not move itself is left alone or stopped with the process.
LEMMA Flow ==
    ASSUME TypeOK, [Next]_vars, NEW v \in Workers
    PROVE  \/ WorkerStep(v)
           \/ pc'[v] = pc[v] /\ job'[v] = job[v]
           \/ pc'[v] \in {"idle", "off"}
<1>1. CASE \E w \in Workers : WorkerStep(w)
  <2>1. PICK w \in Workers : WorkerStep(w)
    BY <1>1
  <2>2. CASE w = v
    BY <2>1, <2>2
  <2>3. CASE w # v
    BY <2>1, <2>3
    DEF WorkerStep, Exit, Drain, Claim, ClaimNothing, MarkDead, MarkSkipped, ClearSkipped,
        HaveVars, PrepareEvent, ListActionStates, LoopCancelled,
        SkipAction, ReadClock, SkipRetry, ExpireAction,
        StartAction, StartNoRow, StartInterrupted, Handle, LogAction, CompleteAction,
        SettleCancelled, DeadAction, ScheduleActionRetry, RefreshSelect, RefreshUpdate,
        StoreError, Requeue, Goto, Return, GotoRequeue, NextAction, TypeOK
  <2> QED
    BY <2>2, <2>3
<1>2. CASE \/ \E w \in Workers : RenewLease(w)
           \/ \E e \in Events : SavePendingEvent(e) \/ ReplayDeadEvent(e)
           \/ PurgeOlderThan \/ Shutdown \/ CancelWorkers \/ ProcessExit
           \/ Tick \/ UNCHANGED vars
  BY <1>2 DEF RenewLease, SavePendingEvent, ReplayDeadEvent, PurgeOlderThan, Shutdown,
              CancelWorkers, ProcessExit, Tick, vars
<1>3. CASE Crash \/ Restart
  BY <1>3 DEF Crash, Restart
<1> QED
  BY <1>1, <1>2, <1>3 DEF Next

\* DoneInv is inductive.
LEMMA DoneInvStep == TypeOK /\ DoneInv /\ [Next]_vars => DoneInv'
<1> SUFFICES ASSUME TypeOK, DoneInv, [Next]_vars PROVE DoneInv'
  OBVIOUS
<1>1. TypeOK' /\ \A e \in Events : Keeps(e)
  BY NextType, NextKeeps
<1>2. EventDoneMeansAllDone'
  <2> SUFFICES ASSUME NEW e \in Events, events'[e].status = "done", NEW i \in Actions
               PROVE  acts'[e][i].status = "done"
    BY DEF EventDoneMeansAllDone
  <2>1. CASE events[e].status = "done"
    BY <1>1, <2>1 DEF DoneInv, EventDoneMeansAllDone, Keeps
  <2>2. CASE events[e].status # "done"
    <3>1. PICK w \in Workers : /\ RefreshUpdate(w) /\ job[w].ev = e
                              /\ job[w].agg.status = "done"
      BY <2>2, OnlyRefreshCloses
    <3>2. events[e].status # "purged"
      BY <3>1 DEF RefreshUpdate, Exists, Row
    <3> QED
      BY <1>1, <3>1, <3>2 DEF DoneInv, Gone, RefreshUpdate, At, Keeps
  <2> QED
    BY <2>1, <2>2
<1>3. ASSUME NEW v \in Workers, pc'[v] \in LoopLabels
      PROVE  \/ Gone(job[v].ev)'
             \/ \A i \in Actions : acts'[job'[v].ev][i].status # "none"
  <2>1. \/ PrepareEvent(v)
        \/ pc[v] \in LoopLabels /\ job'[v].ev = job[v].ev
    <3>1. CASE WorkerStep(v)
      BY <1>3, <3>1, OwnStepFlow DEF LoopLabels, RefreshSelect, Goto, TypeOK
    <3>2. CASE ~WorkerStep(v)
      BY <1>3, <3>2, Flow DEF LoopLabels
    <3> QED
      BY <3>1, <3>2
  <2>2. CASE pc[v] \in LoopLabels /\ job'[v].ev = job[v].ev
    <3>1. job[v].ev \in Events
      BY <2>2 DEF TypeOK, LoopLabels, Processing
    <3> QED
      BY <1>1, <2>2, <3>1 DEF DoneInv, Keeps, Gone, LoopLabels
  <2>3. CASE PrepareEvent(v)
    BY <2>3, RowsKept DEF PrepareEvent, Rows, Row, TypeOK, At, Processing
  <2> QED
    BY <2>1, <2>2, <2>3
<1>4. ASSUME NEW v \in Workers, pc'[v] = "commit", job'[v].agg.status = "done"
      PROVE  \/ Gone(job[v].ev)'
             \/ \A i \in Actions : acts'[job'[v].ev][i].status = "done"
  <2>1. \/ RefreshSelect(v)
        \/ pc[v] = "commit" /\ job'[v] = job[v]
    <3>1. CASE WorkerStep(v)
      BY <1>4, <3>1, OwnStepFlow DEF LoopLabels, PrepareEvent, Goto, TypeOK
    <3>2. CASE ~WorkerStep(v)
      BY <1>4, <3>2, Flow
    <3> QED
      BY <3>1, <3>2
  <2>2. CASE pc[v] = "commit" /\ job'[v] = job[v]
    <3>1. job[v].ev \in Events
      BY <2>2 DEF TypeOK, Processing
    <3> QED
      BY <1>1, <1>4, <2>2, <3>1 DEF DoneInv, Keeps, Gone
  <2>3. CASE RefreshSelect(v)
    <3>1. /\ pc[v] = "loop" /\ job[v].ev \in Events
          /\ events' = events /\ acts' = acts
      BY <2>3 DEF RefreshSelect, At, TypeOK, Processing, tables
    <3>2. job'[v].ev = job[v].ev /\ job'[v].agg = Aggregate(Rows(v), now)
      BY <2>3 DEF RefreshSelect, TypeOK, NoJob
    <3>3. AllIn(Rows(v), {"done"})
      BY <1>4, <3>2 DEF Aggregate
    <3>4. Gone(job[v].ev) \/ \A i \in Actions : Rows(v)[i].status # "none"
      BY <3>1 DEF DoneInv, Rows
    <3> QED
      BY <3>1, <3>2, <3>3, <3>4 DEF AllIn, Gone, Rows
  <2> QED
    BY <2>1, <2>2, <2>3
<1> QED
  BY <1>2, <1>3, <1>4 DEF DoneInv, LoopLabels

\* An event reported done has every action done, although the status is
\* computed in one statement and written, unconditionally, in another: for
\* any number of workers, also when leases are lost to a pause.
THEOREM DoneEventsAreComplete == Spec => []EventDoneMeansAllDone
<1>1. Init => DoneInv
  BY EventRowStatus DEF Init, DoneInv, EventDoneMeansAllDone
<1>2. DoneInv => EventDoneMeansAllDone
  BY DEF DoneInv
<1> QED
  BY <1>1, <1>2, DoneInvStep, TypeCorrect, PTL DEF Spec

-----------------------------------------------------------------------------
(* The age limit and the audit log                                         *)

\* RetryWithinAge and SucceededIsAudited hold with stale workers too, but not
\* by themselves: a worker that lost its event may still store an outcome.
\* It is known that the start of the retry age it remembers is not later
\* than the event's (a replay only moves it forward), that what it is about
\* to record as done was logged, and that a deleted event has no action rows
\* to write to.
HistoryInv ==
    /\ RetryWithinAge
    /\ SucceededIsAudited
    /\ \A e \in Events :
          /\ RetryStartedAt(events[e]) <= now
          /\ Exists(events[e]) \/ ~HasActionState(acts[e])
    /\ \A w \in Workers : pc[w] \in Processing =>
          /\ events[job[w].ev].status # "absent"
          /\ Gone(job[w].ev) \/ job[w].retryStartedAt <= RetryStartedAt(events[job[w].ev])
          /\ pc[w] = "settle" /\ job[w].res = "ok" /\ faults = 0 =>
                Gone(job[w].ev) \/ audit[job[w].ev][job[w].idx]

\* Only acceptance and replay set the start of an event's retry age.
LEMMA EventRowAge ==
    /\ \A s : RetryStartedAt(NoEventRow(s)) = 0
    /\ \A k : \A t \in Nat : RetryStartedAt(PendingRow(k, t)) = t
    /\ \A row \in EventRow :
          /\ RetryStartedAt(RequeueRow(row)) = RetryStartedAt(row)
          /\ RetryStartedAt(PrepareRow(row)) = RetryStartedAt(row)
          /\ RetryStartedAt(ClearPayloadRow(row)) = RetryStartedAt(row)
    /\ \A row \in EventRow : \A t : RetryStartedAt(RenewRow(row, t)) = RetryStartedAt(row)
    /\ \A row \in EventRow : \A t \in Nat : RetryStartedAt(ReplayRow(row, t)) = t
    /\ \A row \in EventRow : \A t, o :
          RetryStartedAt(ClaimRow(row, t, o)) = RetryStartedAt(row)
    /\ \A row \in EventRow : \A agg :
          RetryStartedAt(RefreshRow(row, agg)) = RetryStartedAt(row)
    /\ \A row \in EventRow : \A s, t :
          RetryStartedAt(StatusRow(row, s, t)) = RetryStartedAt(row)
<1>1. /\ \A s : RetryStartedAt(NoEventRow(s)) = 0
      /\ \A k : \A t \in Nat : RetryStartedAt(PendingRow(k, t)) = t
  BY DEF NoEventRow, PendingRow, RetryStartedAt, Coalesce, Null
<1>2. ASSUME NEW row \in EventRow
      PROVE  /\ RetryStartedAt(RequeueRow(row)) = RetryStartedAt(row)
             /\ RetryStartedAt(PrepareRow(row)) = RetryStartedAt(row)
             /\ RetryStartedAt(ClearPayloadRow(row)) = RetryStartedAt(row)
  BY DEF EventRow, RequeueRow, PrepareRow, ClearPayloadRow, RetryStartedAt
<1>3. ASSUME NEW row \in EventRow, NEW t
      PROVE  RetryStartedAt(RenewRow(row, t)) = RetryStartedAt(row)
  BY DEF EventRow, RenewRow, RetryStartedAt
<1>4. ASSUME NEW row \in EventRow, NEW t \in Nat
      PROVE  RetryStartedAt(ReplayRow(row, t)) = t
  BY DEF EventRow, ReplayRow, RetryStartedAt, Coalesce, Null
<1>5. ASSUME NEW row \in EventRow, NEW t, NEW o
      PROVE  RetryStartedAt(ClaimRow(row, t, o)) = RetryStartedAt(row)
  BY DEF EventRow, ClaimRow, RetryStartedAt
<1>6. ASSUME NEW row \in EventRow, NEW agg
      PROVE  RetryStartedAt(RefreshRow(row, agg)) = RetryStartedAt(row)
  BY DEF EventRow, RefreshRow, RetryStartedAt
<1>7. ASSUME NEW row \in EventRow, NEW s, NEW t
      PROVE  RetryStartedAt(StatusRow(row, s, t)) = RetryStartedAt(row)
  BY DEF EventRow, StatusRow, RetryStartedAt
<1> QED
  BY <1>1, <1>2, <1>3, <1>4, <1>5, <1>6, <1>7

\* What one step does to the history of an event: its retry age restarts
\* only forward, a deleted event has no action rows, a row becomes retrying
\* or done only through ScheduleActionRetry or CompleteAction, and log rows
\* stay until retention.
Ages(e) ==
    /\ events[e].status # "absent" => events'[e].status # "absent"
    /\ Exists(events'[e]) \/ ~HasActionState(acts'[e])
    /\ RetryStartedAt(events'[e]) <= now'
    /\ \/ events[e].status = "absent"
       \/ events'[e].status = "purged"
       \/ RetryStartedAt(events[e]) <= RetryStartedAt(events'[e])
    /\ \A i \in Actions :
          /\ acts'[e][i].status = "retrying" =>
                \/ acts'[e][i] = acts[e][i]
                \/ \E w \in Workers : /\ ScheduleActionRetry(w)
                                      /\ job[w].ev = e /\ job[w].idx = i
          /\ acts'[e][i].status = "done" =>
                \/ acts[e][i].status = "done"
                \/ \E w \in Workers : /\ CompleteAction(w)
                                      /\ job[w].ev = e /\ job[w].idx = i
          /\ audit[e][i] => audit'[e][i] \/ events'[e].status = "purged"

\* The updates of a whole event's rows make no row retrying or done.
LEMMA RowsAge ==
    ASSUME NEW rows \in [Actions -> ActionRow], NEW new,
           \/ new = rows
           \/ new = ResetRunning(rows)
           \/ \E t : new = PrepareActions(rows, t) \/ new = ReplayActions(rows, t)
           \/ new = NoActionRows
    PROVE  /\ \A i \in Actions :
                 /\ new[i].status = "retrying" => new[i] = rows[i]
                 /\ new[i].status = "done" => rows[i].status = "done"
           /\ \/ \E t : new = PrepareActions(rows, t)
              \/ ~HasActionState(rows) => ~HasActionState(new)
  BY DEF ResetRunning, PrepareActions, ReplayActions, NoActionRows, NoActionRow,
         HasActionState

\* A step whose updates of events and event_actions are of that kind.
LEMMA PlainAges ==
    ASSUME TypeOK, HistoryInv, NEW e \in Events, now' = now,
           \/ acts'[e] = acts[e] \/ acts'[e] = ResetRunning(acts[e])
           \/ \E t : acts'[e] = ReplayActions(acts[e], t)
           \/ Exists(events[e]) /\ \E t : acts'[e] = PrepareActions(acts[e], t),
           Exists(events[e]) => Exists(events'[e]),
           ~Exists(events[e]) => events'[e].status = events[e].status,
           \/ RetryStartedAt(events'[e]) = RetryStartedAt(events[e])
           \/ RetryStartedAt(events'[e]) = now,
           \A i \in Actions : audit[e][i] => audit'[e][i]
    PROVE  Ages(e)
<1>1. /\ acts[e] \in [Actions -> ActionRow] /\ events[e] \in EventRow /\ now \in Nat
      /\ RetryStartedAt(events[e]) <= now
      /\ Exists(events[e]) \/ ~HasActionState(acts[e])
  BY DEF TypeOK, HistoryInv
<1>2. RetryStartedAt(events[e]) \in Nat
  BY <1>1, EventRowTypes
<1>3. /\ \A i \in Actions :
            /\ acts'[e][i].status = "retrying" => acts'[e][i] = acts[e][i]
            /\ acts'[e][i].status = "done" => acts[e][i].status = "done"
      /\ Exists(events[e]) \/ ~HasActionState(acts'[e])
  <2>1. CASE acts'[e] = acts[e]
    BY <1>1, <2>1
  <2>2. CASE acts'[e] = ResetRunning(acts[e]) \/ \E t : acts'[e] = ReplayActions(acts[e], t)
    <3>1. \A i \in Actions :
             /\ acts'[e][i].status = "retrying" => acts'[e][i] = acts[e][i]
             /\ acts'[e][i].status = "done" => acts[e][i].status = "done"
      BY <1>1, <2>2, RowsAge
    <3>2. ~HasActionState(acts[e]) => ~HasActionState(acts'[e])
      BY <1>1, <2>2 DEF ResetRunning, ReplayActions, HasActionState
    <3> QED
      BY <1>1, <3>1, <3>2
  <2>3. CASE Exists(events[e]) /\ \E t : acts'[e] = PrepareActions(acts[e], t)
    BY <1>1, <2>3, RowsAge
  <2> QED
    BY <2>1, <2>2, <2>3
<1>4. events[e].status # "absent" => events'[e].status # "absent"
  BY DEF Exists
<1>5. Exists(events'[e]) \/ ~HasActionState(acts'[e])
  BY <1>3
<1>6. /\ RetryStartedAt(events'[e]) <= now'
      /\ RetryStartedAt(events[e]) <= RetryStartedAt(events'[e])
  BY <1>1, <1>2
<1> QED
  BY <1>3, <1>4, <1>5, <1>6 DEF Ages

\* A step of a worker lets the rows of an event age as Ages says.
LEMMA WorkerStepAges ==
    ASSUME TypeOK, HistoryInv, NEW w \in Workers, WorkerStep(w), NEW e \in Events
    PROVE  Ages(e)
<1> USE DEF At, Row, Rows, Act, SetRow, SetAct, InLoop, tables, system
<1>1. /\ events[e] \in EventRow /\ acts[e] \in [Actions -> ActionRow] /\ now' = now
      /\ acts \in [Events -> [Actions -> ActionRow]] /\ events \in [Events -> EventRow]
  BY DEF TypeOK, WorkerStep, Exit, Drain, Claim, ClaimNothing, MarkDead, MarkSkipped,
         ClearSkipped, HaveVars, PrepareEvent, ListActionStates, LoopCancelled,
         SkipAction, ReadClock, SkipRetry,
         ExpireAction, StartAction, StartNoRow, StartInterrupted, Handle, LogAction,
         CompleteAction, SettleCancelled, DeadAction, ScheduleActionRetry, RefreshSelect,
         RefreshUpdate, StoreError, Requeue
<1>2. CASE \/ Exit(w) \/ ClaimNothing(w) \/ HaveVars(w) \/ ListActionStates(w)
           \/ LoopCancelled(w) \/ SkipAction(w) \/ ReadClock(w) \/ SkipRetry(w)
           \/ StartNoRow(w) \/ Handle(w)
           \/ SettleCancelled(w) \/ RefreshSelect(w) \/ StoreError(w)
  <2>1. events' = events /\ acts' = acts /\ audit' = audit
    BY <1>2 DEF Exit, ClaimNothing, HaveVars, ListActionStates, LoopCancelled,
                SkipAction, ReadClock, SkipRetry,
                StartNoRow, Handle, SettleCancelled, RefreshSelect, StoreError
  <2> QED
    BY <1>1, <2>1, PlainAges
<1>3. CASE LogAction(w)
  <2>1. events' = events /\ acts' = acts
    BY <1>3 DEF LogAction
  <2>2. \A i \in Actions : audit[e][i] => audit'[e][i]
    <3>1. \/ audit' = audit
          \/ audit' = [audit EXCEPT ![job[w].ev][job[w].idx] = TRUE]
      BY <1>3 DEF LogAction
    <3> QED
      BY <3>1 DEF TypeOK
  <2> QED
    BY <1>1, <2>1, <2>2, PlainAges
<1>4. CASE Drain(w) \/ Claim(w) \/ Requeue(w)
  <2>1. audit' = audit
    BY <1>4 DEF Drain, Claim, Requeue
  <2>2. \/ events'[e] = events[e] /\ acts'[e] = acts[e]
        \/ /\ Exists(events[e]) /\ acts'[e] = ResetRunning(acts[e])
           /\ \/ events'[e] = RequeueRow(events[e])
              \/ \E t, o : events'[e] = ClaimRow(events[e], t, o)
    <3>1. CASE Drain(w)
      BY <3>1 DEF Drain, LeaseExpired, Exists
    <3>2. CASE Requeue(w)
      BY <1>1, <3>2 DEF Requeue, Requeueable, Exists
    <3>3. CASE Claim(w)
      <4>1. PICK f \in ClaimCandidates(job[w].t) :
               /\ events' = [events EXCEPT ![f] = ClaimRow(@, job[w].t, epoch)]
               /\ acts' = [acts EXCEPT ![f] = ResetRunning(@)]
        BY <3>3 DEF Claim
      <4>2. f \in Events /\ Exists(events[f])
        BY DEF ClaimCandidates, Claimable, LeaseExpired, Exists
      <4> QED
        BY <1>1, <4>1, <4>2
    <3> QED
      BY <1>4, <3>1, <3>2, <3>3
  <2>3. CASE events'[e] = events[e] /\ acts'[e] = acts[e]
    BY <1>1, <2>1, <2>3, PlainAges
  <2>4. CASE /\ Exists(events[e]) /\ acts'[e] = ResetRunning(acts[e])
             /\ \/ events'[e] = RequeueRow(events[e])
                \/ \E t, o : events'[e] = ClaimRow(events[e], t, o)
    <3>1. /\ RetryStartedAt(events'[e]) = RetryStartedAt(events[e])
          /\ events'[e].status \in {"pending", "processing"}
      BY <1>1, <2>4, EventRowAge, EventRowStatus
    <3> QED
      BY <1>1, <2>1, <2>4, <3>1, PlainAges DEF Exists
  <2> QED
    BY <2>2, <2>3, <2>4
<1>5. CASE \/ MarkDead(w) \/ MarkSkipped(w) \/ ClearSkipped(w) \/ RefreshUpdate(w)
           \/ PrepareEvent(w)
  <2>1. audit' = audit
    BY <1>5 DEF MarkDead, MarkSkipped, ClearSkipped, RefreshUpdate, PrepareEvent
  <2>2. \/ acts'[e] = acts[e]
        \/ Exists(events[e]) /\ \E t : acts'[e] = PrepareActions(acts[e], t)
    BY <1>1, <1>5
    DEF MarkDead, MarkSkipped, ClearSkipped, RefreshUpdate, PrepareEvent, Exists
  <2>3. \/ events'[e] = events[e]
        \/ events'[e] = ClearPayloadRow(events[e])
        \/ /\ Exists(events[e])
           /\ \/ \E s \in TerminalStatus : events'[e] = StatusRow(events[e], s, now)
              \/ \E agg \in Agg : /\ agg.status # "none"
                                  /\ events'[e] = RefreshRow(events[e], agg)
              \/ events'[e] = PrepareRow(events[e])
    <3>1. CASE MarkDead(w) \/ MarkSkipped(w)
      BY <1>1, <3>1 DEF MarkDead, MarkSkipped, TerminalStatus
    <3>2. CASE ClearSkipped(w) \/ PrepareEvent(w)
      BY <1>1, <3>2 DEF ClearSkipped, PrepareEvent, Exists
    <3>3. CASE RefreshUpdate(w)
      BY <1>1, <3>3 DEF RefreshUpdate, TypeOK, Job
    <3> QED
      BY <1>5, <3>1, <3>2, <3>3
  <2>4. RetryStartedAt(events'[e]) = RetryStartedAt(events[e])
    BY <1>1, <2>3, EventRowAge
  <2>5. /\ Exists(events[e]) => Exists(events'[e])
        /\ ~Exists(events[e]) => events'[e].status = events[e].status
    BY <1>1, <2>3, EventRowStatus DEF Exists, TerminalStatus, Agg
  <2> QED
    BY <1>1, <2>1, <2>2, <2>4, <2>5, PlainAges
<1>6. CASE \/ ExpireAction(w) \/ StartAction(w) \/ StartInterrupted(w)
           \/ CompleteAction(w) \/ DeadAction(w) \/ ScheduleActionRetry(w)
  <2>1. /\ events' = events /\ audit' = audit
        /\ Act(w).status \in {"pending", "retrying", "running"}
    BY <1>6 DEF ExpireAction, StartAction, StartInterrupted, CompleteAction, DeadAction,
                ScheduleActionRetry, Expirable, Startable
  <2>2. job[w].ev \in Events /\ job[w].idx \in Actions /\ Act(w) \in ActionRow
    BY <1>6, StoreAssumption
    DEF ExpireAction, StartAction, StartInterrupted, CompleteAction, DeadAction,
        ScheduleActionRetry, Dispatches, TypeOK, Job, Actions, StoreAssumption, Processing
  <2>3. PICK a : /\ SetAct(w, a)
                 /\ a.status = "retrying" => ScheduleActionRetry(w)
                 /\ a.status = "done" => CompleteAction(w)
    <3>1. /\ StartRow(Act(w)).status = "running"
          /\ \A s, t : SettleRow(Act(w), s, t).status = s
      BY <2>2 DEF StartRow, SettleRow, ActionRow
    <3>2. CASE StartAction(w) \/ StartInterrupted(w)
      <4> DEFINE b == StartRow(Act(w))
      <4>1. /\ SetAct(w, b)
            /\ b.status = "retrying" => ScheduleActionRetry(w)
            /\ b.status = "done" => CompleteAction(w)
        BY <3>1, <3>2 DEF StartAction, StartInterrupted
      <4> HIDE DEF b
      <4> QED
        BY <4>1
    <3>3. CASE ExpireAction(w) \/ DeadAction(w)
      <4> DEFINE b == SettleRow(Act(w), "dead", Null)
      <4>1. /\ SetAct(w, b)
            /\ b.status = "retrying" => ScheduleActionRetry(w)
            /\ b.status = "done" => CompleteAction(w)
        BY <3>1, <3>3 DEF ExpireAction, DeadAction
      <4> HIDE DEF b
      <4> QED
        BY <4>1
    <3>4. CASE CompleteAction(w)
      <4> DEFINE b == SettleRow(Act(w), "done", Null)
      <4>1. /\ SetAct(w, b)
            /\ b.status = "retrying" => ScheduleActionRetry(w)
            /\ b.status = "done" => CompleteAction(w)
        BY <3>1, <3>4 DEF CompleteAction
      <4> HIDE DEF b
      <4> QED
        BY <4>1
    <3>5. CASE ScheduleActionRetry(w)
      <4>0. PICK d \in Delays : SetAct(w, SettleRow(Act(w), "retrying", now + d))
        BY <3>5 DEF ScheduleActionRetry
      <4> DEFINE b == SettleRow(Act(w), "retrying", now + d)
      <4>1. /\ SetAct(w, b)
            /\ b.status = "retrying" => ScheduleActionRetry(w)
            /\ b.status = "done" => CompleteAction(w)
        BY <3>1, <3>5, <4>0 DEF ScheduleActionRetry
      <4> HIDE DEF b
      <4> QED
        BY <4>1
    <3> QED
      BY <1>6, <3>2, <3>3, <3>4, <3>5
  <2>4. ASSUME NEW i \in Actions
        PROVE  \/ acts'[e][i] = acts[e][i]
               \/ job[w].ev = e /\ job[w].idx = i /\ acts'[e][i] = a
    BY <1>1, <2>3
  <2>5. /\ Exists(events[e]) \/ ~HasActionState(acts[e])
        /\ RetryStartedAt(events[e]) <= now /\ RetryStartedAt(events[e]) \in Nat
    BY <1>1, EventRowTypes DEF HistoryInv
  <2>6. Exists(events[e]) \/ ~HasActionState(acts'[e])
    BY <2>1, <2>2, <2>4, <2>5 DEF HasActionState
  <2> QED
    BY <1>1, <2>1, <2>3, <2>4, <2>5, <2>6 DEF Ages
<1> QED
  BY <1>2, <1>3, <1>4, <1>5, <1>6 DEF WorkerStep

\* So does every other step.
LEMMA NextAges == TypeOK /\ HistoryInv /\ [Next]_vars => \A e \in Events : Ages(e)
<1> SUFFICES ASSUME TypeOK, HistoryInv, [Next]_vars, NEW e \in Events PROVE Ages(e)
  OBVIOUS
<1> USE DEF tables, system
<1>1. /\ events[e] \in EventRow /\ acts[e] \in [Actions -> ActionRow] /\ now \in Nat
      /\ events \in [Events -> EventRow] /\ acts \in [Events -> [Actions -> ActionRow]]
      /\ RetryStartedAt(events[e]) <= now
      /\ Exists(events[e]) \/ ~HasActionState(acts[e])
  BY DEF TypeOK, HistoryInv
<1>2. RetryStartedAt(events[e]) \in Nat
  BY <1>1, EventRowTypes
<1>3. CASE \E w \in Workers : WorkerStep(w)
  BY <1>3, WorkerStepAges
<1>4. CASE \E w \in Workers : RenewLease(w)
  <2>1. PICK w \in Workers : RenewLease(w)
    BY <1>4
  <2>2. /\ now' = now /\ acts' = acts /\ audit' = audit
        /\ \/ events'[e] = events[e]
           \/ events'[e] = RenewRow(events[e], now)
    BY <1>1, <2>1 DEF RenewLease, Row, SetRow
  <2>3. /\ events'[e].status = events[e].status
        /\ RetryStartedAt(events'[e]) = RetryStartedAt(events[e])
    BY <1>1, <2>2, EventRowStatus, EventRowAge
  <2> QED
    BY <2>2, <2>3, PlainAges DEF Exists
<1>5. CASE \E f \in Events : SavePendingEvent(f)
  <2>1. PICK f \in Events : SavePendingEvent(f)
    BY <1>5
  <2>2. PICK k \in AcceptKinds : events' = [events EXCEPT ![f] = PendingRow(k, now)]
    BY <2>1 DEF SavePendingEvent
  <2>3. /\ now' = now /\ acts' = acts /\ audit' = audit /\ events[f].status = "absent"
    BY <2>1 DEF SavePendingEvent
  <2>4. CASE e = f
    <3>1. /\ events'[e].status = "pending" /\ RetryStartedAt(events'[e]) = now
      BY <1>1, <2>2, <2>4, EventRowStatus, EventRowAge
    <3> QED
      BY <1>1, <2>3, <2>4, <3>1 DEF Ages, Exists
  <2>5. CASE e # f
    BY <1>1, <2>2, <2>3, <2>5, PlainAges
  <2> QED
    BY <2>4, <2>5
<1>6. CASE \E f \in Events : ReplayDeadEvent(f)
  <2>1. /\ now' = now /\ audit' = audit
        /\ \/ events'[e] = events[e] /\ acts'[e] = acts[e]
           \/ /\ events[e].status = "dead"
              /\ events'[e] = ReplayRow(events[e], now)
              /\ acts'[e] = ReplayActions(acts[e], now)
    BY <1>1, <1>6 DEF ReplayDeadEvent, Replayable
  <2>2. CASE events'[e] = events[e] /\ acts'[e] = acts[e]
    BY <2>1, <2>2, PlainAges
  <2>3. CASE /\ events[e].status = "dead"
             /\ events'[e] = ReplayRow(events[e], now)
             /\ acts'[e] = ReplayActions(acts[e], now)
    <3>1. events'[e].status = "pending" /\ RetryStartedAt(events'[e]) = now
      BY <1>1, <2>3, EventRowStatus, EventRowAge
    <3> QED
      BY <2>1, <2>3, <3>1, PlainAges DEF Exists
  <2> QED
    BY <2>1, <2>2, <2>3
<1>7. CASE PurgeOlderThan
  <2>1. /\ now' = now
        /\ \/ events'[e] = events[e] /\ acts'[e] = acts[e] /\ audit'[e] = audit[e]
           \/ events'[e] = NoEventRow("purged") /\ acts'[e] = NoActionRows
    BY <1>7 DEF PurgeOlderThan
  <2>2. CASE events'[e] = events[e] /\ acts'[e] = acts[e] /\ audit'[e] = audit[e]
    BY <2>1, <2>2, PlainAges
  <2>3. CASE events'[e] = NoEventRow("purged") /\ acts'[e] = NoActionRows
    <3>1. /\ events'[e].status = "purged" /\ RetryStartedAt(events'[e]) = 0
          /\ \A i \in Actions : acts'[e][i].status = "none"
      BY <2>3, EventRowStatus, EventRowAge DEF NoActionRows, NoActionRow
    <3> QED
      BY <1>1, <2>1, <3>1 DEF Ages, HasActionState
  <2> QED
    BY <2>1, <2>2, <2>3
<1>8. CASE Restart
  <2>1. /\ now' = now /\ audit' = audit
        /\ \/ events'[e] = events[e] /\ acts'[e] = acts[e]
           \/ /\ Exists(events[e]) /\ events'[e] = RequeueRow(events[e])
              /\ acts'[e] = ResetRunning(acts[e])
    BY <1>8 DEF Restart, Recovered, Exists
  <2>2. CASE events'[e] = events[e] /\ acts'[e] = acts[e]
    BY <2>1, <2>2, PlainAges
  <2>3. CASE /\ Exists(events[e]) /\ events'[e] = RequeueRow(events[e])
             /\ acts'[e] = ResetRunning(acts[e])
    <3>1. /\ events'[e].status = "pending"
          /\ RetryStartedAt(events'[e]) = RetryStartedAt(events[e])
      BY <1>1, <2>3, EventRowStatus, EventRowAge
    <3> QED
      BY <2>1, <2>3, <3>1, PlainAges DEF Exists
  <2> QED
    BY <2>1, <2>2, <2>3
<1>9. CASE Shutdown \/ CancelWorkers \/ ProcessExit \/ Crash \/ UNCHANGED vars
  <2>1. now' = now /\ events' = events /\ acts' = acts /\ audit' = audit
    BY <1>9 DEF Shutdown, CancelWorkers, ProcessExit, Crash, vars
  <2> QED
    BY <2>1, PlainAges
<1>10. CASE Tick
  <2>1. now' = now + 1 /\ events' = events /\ acts' = acts /\ audit' = audit
    BY <1>10 DEF Tick
  <2> QED
    BY <1>1, <1>2, <2>1 DEF Ages
<1> QED
  BY <1>3, <1>4, <1>5, <1>6, <1>7, <1>8, <1>9, <1>10 DEF Next

\* How a worker comes by the event, the retry age and the result it works
\* with.
LEMMA OwnJobFlow ==
    ASSUME TypeOK, NEW v \in Workers, WorkerStep(v), pc'[v] \in Processing
    PROVE  \/ Claim(v)
           \/ /\ pc[v] \in Processing /\ job'[v].ev = job[v].ev
              /\ job'[v].retryStartedAt \in {job[v].retryStartedAt, 0}
              /\ pc'[v] = "settle" => LogAction(v) /\ job'[v] = job[v]
<1> USE DEF At, Goto, Return, GotoRequeue, NextAction, InLoop, Processing, NoJob
<1>1. CASE Exit(v) \/ Drain(v) \/ ClaimNothing(v) \/ MarkDead(v) \/ ClearSkipped(v)
           \/ RefreshUpdate(v) \/ Requeue(v)
  BY <1>1 DEF Exit, Drain, ClaimNothing, MarkDead, ClearSkipped, RefreshUpdate, Requeue,
              TypeOK
<1>2. CASE MarkSkipped(v) \/ HaveVars(v) \/ PrepareEvent(v) \/ LogAction(v)
  BY <1>2 DEF MarkSkipped, HaveVars, PrepareEvent, LogAction, TypeOK
<1>3. CASE LoopCancelled(v) \/ StartInterrupted(v) \/ SettleCancelled(v) \/ StoreError(v)
  <2>1. pc[v] \in Processing
    BY <1>3 DEF LoopCancelled, StartInterrupted, Dispatches, SettleCancelled, StoreError,
                NoRowMatches, CallsStore
  <2> QED
    BY <1>3, <2>1 DEF LoopCancelled, StartInterrupted, SettleCancelled, StoreError, TypeOK
<1>4. CASE SkipAction(v) \/ ReadClock(v) \/ SkipRetry(v) \/ ExpireAction(v) \/ StartNoRow(v)
  BY <1>4 DEF SkipAction, ReadClock, SkipRetry,
              ExpireAction, StartNoRow, Dispatches, TypeOK, Job
<1>5. CASE CompleteAction(v) \/ DeadAction(v) \/ ScheduleActionRetry(v)
  BY <1>5 DEF CompleteAction, DeadAction, ScheduleActionRetry, TypeOK, Job
<1>6. CASE ListActionStates(v) \/ StartAction(v) \/ Handle(v)
  BY <1>6 DEF ListActionStates, StartAction, Dispatches, Handle, TypeOK, Job
<1>7. CASE RefreshSelect(v)
  BY <1>7 DEF RefreshSelect, TypeOK
<1> QED
  BY <1>1, <1>2, <1>3, <1>4, <1>5, <1>6, <1>7 DEF WorkerStep

\* Failed store calls are only ever counted up.
LEMMA FaultsGrow == TypeOK /\ [Next]_vars => (faults' = 0 => faults = 0)
<1> SUFFICES ASSUME TypeOK, [Next]_vars, faults' = 0 PROVE faults = 0
  OBVIOUS
<1>1. ASSUME NEW w \in Workers, WorkerStep(w) PROVE faults' = faults \/ faults' = faults + 1
  BY <1>1
  DEF WorkerStep, Exit, Drain, Claim, ClaimNothing, MarkDead, MarkSkipped, ClearSkipped,
      HaveVars, PrepareEvent, ListActionStates, LoopCancelled,
      SkipAction, ReadClock, SkipRetry, ExpireAction,
      StartAction, StartNoRow, StartInterrupted, Handle, LogAction, CompleteAction,
      SettleCancelled, DeadAction, ScheduleActionRetry, RefreshSelect, RefreshUpdate,
      StoreError, Requeue, Fault
<1>2. ASSUME \A w \in Workers : ~WorkerStep(w) PROVE faults' = faults
  <2>1. CASE \/ \E w \in Workers : RenewLease(w)
             \/ \E e \in Events : SavePendingEvent(e) \/ ReplayDeadEvent(e)
    BY <2>1 DEF RenewLease, SavePendingEvent, ReplayDeadEvent
  <2>2. CASE PurgeOlderThan
    BY <2>2 DEF PurgeOlderThan
  <2>3. CASE \/ Shutdown \/ CancelWorkers \/ ProcessExit \/ Crash \/ Restart \/ Tick
             \/ UNCHANGED vars
    BY <2>3 DEF Shutdown, CancelWorkers, ProcessExit, Crash, Restart, Tick, vars
  <2> QED
    BY <1>2, <2>1, <2>2, <2>3 DEF Next
<1>3. faults' = faults \/ faults' = faults + 1
  BY <1>1, <1>2
<1> QED
  BY <1>3 DEF TypeOK

\* HistoryInv is inductive.
LEMMA HistoryInvStep == TypeOK /\ HistoryInv /\ [Next]_vars => HistoryInv'
<1> SUFFICES ASSUME TypeOK, HistoryInv, [Next]_vars PROVE HistoryInv'
  OBVIOUS
<1>1. /\ TypeOK' /\ (faults' = 0 => faults = 0)
      /\ \A e \in Events : Ages(e) /\ Keeps(e)
  BY NextType, NextAges, NextKeeps, FaultsGrow
<1>2. \A e \in Events, i \in Actions :
         /\ events[e] \in EventRow /\ events'[e] \in EventRow
         /\ acts[e][i] \in ActionRow /\ acts'[e][i] \in ActionRow
         /\ RetryStartedAt(events[e]) \in Nat /\ RetryStartedAt(events'[e]) \in Nat
         /\ acts[e][i].status # "none" => Exists(events[e])
  <2>1. \A e \in Events, i \in Actions :
           /\ events[e] \in EventRow /\ events'[e] \in EventRow
           /\ acts[e][i] \in ActionRow /\ acts'[e][i] \in ActionRow
    BY <1>1 DEF TypeOK
  <2>2. \A e \in Events, i \in Actions : acts[e][i].status # "none" => Exists(events[e])
    BY DEF HistoryInv, HasActionState
  <2> QED
    BY <2>1, <2>2, EventRowTypes
<1>3. RetryWithinAge'
  <2> SUFFICES ASSUME NEW e \in Events, NEW i \in Actions, acts'[e][i].status = "retrying"
               PROVE  acts'[e][i].due < RetryStartedAt(events'[e]) + MaxRetryAge
    BY DEF RetryWithinAge
  <2>1. MaxRetryAge \in Nat /\ acts'[e][i].due \in Int /\ Exists(events'[e])
    <3>1. MaxRetryAge \in Nat /\ acts'[e][i].due \in Int
      BY <1>2, OutboxAssumption DEF OutboxAssumption, ActionRow, OptTime, Null
    <3>2. Exists(events'[e])
      BY <1>1 DEF Ages, HasActionState
    <3> QED
      BY <3>1, <3>2
  <2>2. CASE acts'[e][i] = acts[e][i]
    <3>1. acts[e][i].due < RetryStartedAt(events[e]) + MaxRetryAge /\ Exists(events[e])
      BY <1>2, <2>2 DEF HistoryInv, RetryWithinAge
    <3>2. RetryStartedAt(events[e]) <= RetryStartedAt(events'[e])
      BY <1>1, <2>1, <3>1 DEF Ages, Exists
    <3> QED
      BY <1>2, <2>1, <2>2, <3>1, <3>2
  <2>3. ASSUME NEW w \in Workers, ScheduleActionRetry(w), job[w].ev = e, job[w].idx = i
        PROVE  acts'[e][i].due < RetryStartedAt(events'[e]) + MaxRetryAge
    <3>1. PICK d \in Delays : /\ RetryAt(w, d)
                             /\ SetAct(w, SettleRow(Act(w), "retrying", now + d))
      BY <2>3 DEF ScheduleActionRetry
    <3>2. /\ events' = events /\ pc[w] = "settle" /\ acts[e][i].status = "running"
      BY <2>3 DEF ScheduleActionRetry, At, Act
    <3>3. acts'[e][i].due = now + d
      <4>1. acts'[e][i] = SettleRow(Act(w), "retrying", now + d)
        BY <2>3, <3>1 DEF SetAct, TypeOK
      <4>2. Act(w) \in ActionRow
        BY <1>2, <2>3 DEF Act
      <4> QED
        BY <4>1, <4>2 DEF SettleRow, ActionRow
    <3>4. ~(now + d >= job[w].retryStartedAt + MaxRetryAge)
      BY <3>1 DEF RetryAt, PastRetryAge
    <3>5. job[w].retryStartedAt <= RetryStartedAt(events[e])
      BY <1>2, <2>3, <3>2 DEF HistoryInv, Gone, Exists, Processing
    <3>6. now + d \in Nat /\ job[w].retryStartedAt \in Nat
      BY OutboxAssumption DEF OutboxAssumption, TypeOK, Job
    <3> QED
      BY <1>2, <2>1, <3>2, <3>3, <3>4, <3>5, <3>6
  <2> QED
    BY <1>1, <2>2, <2>3 DEF Ages
<1>4. SucceededIsAudited'
  <2> SUFFICES ASSUME faults' = 0, NEW e \in Events, NEW i \in Actions,
                      acts'[e][i].status = "done"
               PROVE  audit'[e][i]
    BY DEF SucceededIsAudited
  <2>1. Exists(events'[e])
    BY <1>1 DEF Ages, HasActionState
  <2>2. audit[e][i] => audit'[e][i]
    BY <1>1, <2>1 DEF Ages, Exists
  <2>3. CASE acts[e][i].status = "done"
    BY <1>1, <2>2, <2>3 DEF HistoryInv, SucceededIsAudited
  <2>4. ASSUME NEW w \in Workers, CompleteAction(w), job[w].ev = e, job[w].idx = i
        PROVE  audit[e][i]
    <3>1. /\ pc[w] = "settle" /\ job[w].res = "ok" /\ acts[e][i].status = "running"
      BY <2>4 DEF CompleteAction, At, Act
    <3> QED
      BY <1>1, <1>2, <2>4, <3>1 DEF HistoryInv, Gone, Exists, Processing
  <2> QED
    BY <1>1, <2>2, <2>3, <2>4 DEF Ages
<1>5. ASSUME NEW w \in Workers, pc'[w] \in Processing
      PROVE  /\ events'[job'[w].ev].status # "absent"
             /\ \/ events'[job'[w].ev].status = "purged"
                \/ job'[w].retryStartedAt <= RetryStartedAt(events'[job'[w].ev])
             /\ pc'[w] = "settle" /\ job'[w].res = "ok" /\ faults' = 0 =>
                   \/ events'[job'[w].ev].status = "purged"
                   \/ audit'[job'[w].ev][job'[w].idx]
  <2>1. CASE Claim(w)
    <3>1. PICK e \in ClaimCandidates(job[w].t) :
             /\ events' = [events EXCEPT ![e] = ClaimRow(@, job[w].t, epoch)]
             /\ job' = [job EXCEPT ![w] = PendingEvent(e)]
      BY <2>1 DEF Claim
    <3>2. e \in Events
      BY DEF ClaimCandidates
    <3>3. /\ events'[e].status = "processing" /\ RetryStartedAt(events[e]) \in Nat
          /\ RetryStartedAt(events'[e]) = RetryStartedAt(events[e])
      <4>1. events[e] \in EventRow /\ events'[e] = ClaimRow(events[e], job[w].t, epoch)
        BY <3>1, <3>2 DEF TypeOK
      <4>2. events'[e].status = "processing"
        BY <4>1, EventRowStatus
      <4>3. RetryStartedAt(events[e]) \in Nat
        BY <4>1, EventRowTypes
      <4>4. RetryStartedAt(events'[e]) = RetryStartedAt(events[e])
        BY <4>1, EventRowAge
      <4> QED
        BY <4>2, <4>3, <4>4
    <3>4. job'[w].ev = e /\ job'[w].retryStartedAt = RetryStartedAt(events[e])
      BY <3>1 DEF TypeOK, PendingEvent, NoJob
    <3>5. pc'[w] = "vars"
      BY <2>1 DEF Claim, Goto, TypeOK
    <3> QED
      BY <3>2, <3>3, <3>4, <3>5
  <2>2. CASE /\ pc[w] \in Processing /\ job'[w].ev = job[w].ev
             /\ job'[w].retryStartedAt \in {job[w].retryStartedAt, 0}
    <3>1. /\ job[w].ev \in Events /\ job[w].retryStartedAt \in Nat
          /\ events[job[w].ev].status # "absent"
          /\ \/ Gone(job[w].ev)
             \/ job[w].retryStartedAt <= RetryStartedAt(events[job[w].ev])
      BY <2>2 DEF TypeOK, Job, HistoryInv
    <3>2. /\ events'[job'[w].ev].status # "absent"
          /\ \/ events'[job'[w].ev].status = "purged"
             \/ job'[w].retryStartedAt <= RetryStartedAt(events'[job'[w].ev])
      <4>1. /\ events'[job[w].ev].status # "absent"
            /\ \/ events'[job[w].ev].status = "purged"
               \/ /\ RetryStartedAt(events[job[w].ev]) <= RetryStartedAt(events'[job[w].ev])
                  /\ events[job[w].ev].status # "purged"
        BY <1>1, <3>1 DEF Ages, Keeps
      <4>2. /\ RetryStartedAt(events[job[w].ev]) \in Nat
            /\ RetryStartedAt(events'[job[w].ev]) \in Nat
        BY <1>1, <3>1, EventRowTypes DEF TypeOK
      <4> QED
        BY <2>2, <3>1, <4>1, <4>2 DEF Gone
    <3>3. ASSUME pc'[w] = "settle", job'[w].res = "ok", faults' = 0
          PROVE  \/ events'[job'[w].ev].status = "purged"
                 \/ audit'[job'[w].ev][job'[w].idx]
      <4>1. job'[w].idx \in Actions
        BY <1>1, <3>3 DEF TypeOK
      <4>2. CASE LogAction(w) /\ job'[w] = job[w]
        <5>1. CASE Exists(Row(w))
          BY <1>1, <3>1, <3>3, <4>1, <4>2, <5>1 DEF LogAction, Fault, TypeOK
        <5>2. CASE ~Exists(Row(w))
          BY <3>1, <4>2, <5>2 DEF LogAction, Exists, Row
        <5> QED
          BY <5>1, <5>2
      <4>3. CASE pc[w] = "settle" /\ job'[w] = job[w]
        <5>1. Gone(job[w].ev) \/ audit[job[w].ev][job[w].idx]
          BY <1>1, <2>2, <3>3, <4>3 DEF HistoryInv
        <5> QED
          BY <1>1, <3>1, <4>1, <4>3, <5>1 DEF Ages, Keeps, Gone
      <4>4. (LogAction(w) \/ pc[w] = "settle") /\ job'[w] = job[w]
        <5>1. CASE WorkerStep(w)
          BY <1>5, <3>3, <5>1, OwnJobFlow DEF Claim, Goto, TypeOK
        <5>2. CASE ~WorkerStep(w)
          BY <3>3, <5>2, Flow
        <5> QED
          BY <5>1, <5>2
      <4> QED
        BY <4>2, <4>3, <4>4
    <3> QED
      BY <3>2, <3>3
  <2>3. \/ Claim(w)
        \/ /\ pc[w] \in Processing /\ job'[w].ev = job[w].ev
           /\ job'[w].retryStartedAt \in {job[w].retryStartedAt, 0}
    <3>1. CASE WorkerStep(w)
      BY <1>5, <3>1, OwnJobFlow
    <3>2. CASE ~WorkerStep(w)
      BY <1>5, <3>2, Flow DEF Processing
    <3> QED
      BY <3>1, <3>2
  <2> QED
    BY <2>1, <2>2, <2>3
<1>6. \A e \in Events : /\ RetryStartedAt(events'[e]) <= now'
                        /\ Exists(events'[e]) \/ ~HasActionState(acts'[e])
  BY <1>1 DEF Ages
<1> QED
  BY <1>3, <1>4, <1>5, <1>6 DEF HistoryInv, Gone

\* HistoryInv is an invariant, whatever happens to leases.
LEMMA HistoryHolds == Spec => []HistoryInv
<1>1. Init => HistoryInv
  <2> SUFFICES ASSUME Init PROVE HistoryInv
    OBVIOUS
  <2>1. \A e \in Events : /\ events[e].status = "absent" /\ RetryStartedAt(events[e]) = 0
                          /\ \A i \in Actions : acts[e][i].status = "none"
    BY EventRowStatus, EventRowAge DEF Init, NoActionRows, NoActionRow
  <2>2. now = 0 /\ \A w \in Workers : pc[w] \notin Processing
    BY DEF Init, Processing
  <2> QED
    BY <2>1, <2>2 DEF HistoryInv, RetryWithinAge, SucceededIsAudited, HasActionState
<1> QED
  BY <1>1, HistoryInvStep, TypeCorrect, PTL DEF Spec

\* ScheduleActionRetry never plans an attempt at or past max_retry_age after
\* the event was received or replayed, also when the worker that computes it
\* has lost its lease and remembers the age of an earlier claim.
THEOREM RetriesStayWithinAge == Spec => []RetryWithinAge
<1>1. HistoryInv => RetryWithinAge
  BY DEF HistoryInv
<1> QED
  BY <1>1, HistoryHolds, PTL

\* In a run without a failed store call every done action has its success
\* row in action_logs, whichever worker recorded it and wherever the process
\* was killed, until retention removes both.
THEOREM SuccessesAreAudited == Spec => []SucceededIsAudited
<1>1. HistoryInv => SucceededIsAudited
  BY DEF HistoryInv
<1> QED
  BY <1>1, HistoryHolds, PTL

-----------------------------------------------------------------------------
(* One worker per event                                                    *)

\* A worker at one of these calls relies on its lease.
Held == Processing \ {"clear"}

\* OneWorkerPerEvent alone is not inductive: it has to be known that the
\* row of an event a worker holds says processing, under a lease that is not
\* over, so that neither RequeueExpiredLeases nor ClaimPending (which work
\* with a time read earlier) can give it to somebody else.
LeaseInv ==
    /\ OneWorkerPerEvent
    /\ \A w \in Workers :
          /\ pc[w] \in Held => /\ events[job[w].ev].status = "processing"
                               /\ Coalesce(events[job[w].ev].lease, 0) >= now
          /\ pc[w] = "clear" => events[job[w].ev].status \in {"skipped", "purged"}
          /\ pc[w] = "claim" => job[w].t <= now /\ now <= job[w].t + Lease

\* Apart from Drain and Claim, a worker's step is about its own event, and
\* either lets go of it, or leaves its status and lease alone.
LEMMA OwnEventStep ==
    ASSUME TypeOK, NEW w \in Workers, WorkerStep(w), ~Drain(w), ~Claim(w)
    PROVE  /\ now' = now
           /\ \A v \in Workers : v # w => pc'[v] = pc[v] /\ job'[v] = job[v]
           /\ \A e \in Events : e # job[w].ev => events'[e] = events[e]
           /\ pc[w] \notin Processing => events' = events
           /\ \/ pc'[w] \in {"idle", "exited"}
              \/ /\ pc[w] \in Held /\ pc'[w] = "clear" /\ job'[w].ev = job[w].ev
                 /\ events'[job[w].ev].status = "skipped"
              \/ /\ pc[w] \in Held /\ pc'[w] \in Held /\ job'[w].ev = job[w].ev
                 /\ events'[job[w].ev].status = events[job[w].ev].status
                 /\ events'[job[w].ev].lease = events[job[w].ev].lease
<1> USE DEF At, Goto, Return, GotoRequeue, NextAction, InLoop, Row, SetRow, Held,
            Processing, tables, system
<1>1. CASE Exit(w) \/ ClaimNothing(w)
  BY <1>1 DEF Exit, ClaimNothing, TypeOK
<1>2. CASE MarkDead(w) \/ ClearSkipped(w) \/ RefreshUpdate(w) \/ Requeue(w)
  BY <1>2 DEF MarkDead, ClearSkipped, RefreshUpdate, Requeue, TypeOK
<1>3. CASE MarkSkipped(w)
  BY <1>3, EventRowStatus DEF MarkSkipped, TypeOK
<1>4. CASE PrepareEvent(w)
  <2>1. events[job[w].ev] \in EventRow /\ job[w].ev \in Events
    BY <1>4 DEF PrepareEvent, TypeOK
  <2> QED
    BY <1>4, <2>1, EventRowStatus DEF PrepareEvent, TypeOK
<1>5. CASE HaveVars(w) \/ ListActionStates(w) \/ StartAction(w) \/ Handle(w) \/ LogAction(w)
  BY <1>5 DEF HaveVars, ListActionStates, StartAction, Dispatches, Handle, LogAction,
              TypeOK, Job
<1>6. CASE SkipAction(w) \/ ReadClock(w) \/ SkipRetry(w)
           \/ ExpireAction(w) \/ StartNoRow(w) \/ CompleteAction(w)
           \/ DeadAction(w) \/ ScheduleActionRetry(w)
  BY <1>6 DEF SkipAction, ReadClock, SkipRetry,
              ExpireAction, StartNoRow, Dispatches, CompleteAction, DeadAction,
              ScheduleActionRetry, TypeOK, Job
<1>7. CASE LoopCancelled(w) \/ StartInterrupted(w) \/ SettleCancelled(w)
  BY <1>7 DEF LoopCancelled, StartInterrupted, Dispatches, SettleCancelled, TypeOK, NoJob
<1>8. CASE StoreError(w)
  <2>1. pc[w] \in Held
    BY <1>8 DEF StoreError, NoRowMatches, CallsStore, Dispatches
  <2> QED
    BY <1>8, <2>1 DEF StoreError, TypeOK, NoJob
<1>9. CASE RefreshSelect(w)
  BY <1>9 DEF RefreshSelect, TypeOK, NoJob
<1> QED
  BY <1>1, <1>2, <1>3, <1>4, <1>5, <1>6, <1>7, <1>8, <1>9 DEF WorkerStep

\* LeaseInv is inductive when leases are renewed in time.
LEMMA LeaseInvStep ==
    ASSUME TimelyRenewal, TypeOK, LeaseInv, [Next]_vars
    PROVE  LeaseInv'
<1> USE DEF Held, Processing
<1>1. ASSUME NEW w \in Workers, WorkerStep(w), ~Drain(w), ~Claim(w)
      PROVE  LeaseInv'
  <2>1. /\ now' = now
        /\ \A v \in Workers : v # w => pc'[v] = pc[v] /\ job'[v] = job[v]
        /\ \A e \in Events : e # job[w].ev => events'[e] = events[e]
        /\ pc[w] \notin Processing => events' = events
        /\ \/ pc'[w] \in {"idle", "exited"}
           \/ /\ pc[w] \in Held /\ pc'[w] = "clear" /\ job'[w].ev = job[w].ev
              /\ events'[job[w].ev].status = "skipped"
           \/ /\ pc[w] \in Held /\ pc'[w] \in Held /\ job'[w].ev = job[w].ev
              /\ events'[job[w].ev].status = events[job[w].ev].status
              /\ events'[job[w].ev].lease = events[job[w].ev].lease
    BY <1>1, OwnEventStep
  <2>2. OneWorkerPerEvent'
    BY <2>1 DEF LeaseInv, OneWorkerPerEvent
  <2>3. ASSUME NEW v \in Workers, v # w
        PROVE  pc[v] \in Processing => events'[job[v].ev] = events[job[v].ev]
    BY <2>1, <2>3 DEF LeaseInv, OneWorkerPerEvent, TypeOK
  <2>4. ASSUME NEW v \in Workers
        PROVE  /\ pc'[v] \in Held =>
                    /\ events'[job'[v].ev].status = "processing"
                    /\ Coalesce(events'[job'[v].ev].lease, 0) >= now'
               /\ pc'[v] = "clear" =>
                    events'[job'[v].ev].status \in {"skipped", "purged"}
               /\ pc'[v] = "claim" => job'[v].t <= now' /\ now' <= job'[v].t + Lease
    <3>1. CASE v = w
      BY <2>1, <3>1 DEF LeaseInv
    <3>2. CASE v # w
      BY <2>1, <2>3, <3>2 DEF LeaseInv
    <3> QED
      BY <3>1, <3>2
  <2> QED
    BY <2>2, <2>4 DEF LeaseInv
<1>2. ASSUME NEW w \in Workers, Drain(w)
      PROVE  LeaseInv'
  <2>1. /\ now' = now
        /\ pc' = [pc EXCEPT ![w] = "claim"]
        /\ job' = [job EXCEPT ![w].t = now]
        /\ pc[w] = "idle"
    BY <1>2 DEF Drain, system, At, Goto
  <2>2. ASSUME NEW e \in Events, ~LeaseExpired(events[e], now)
        PROVE  events'[e] = events[e]
    BY <1>2, <2>2 DEF Drain
  <2>3. ASSUME NEW e \in Events, events[e].status # "processing"
        PROVE  events'[e] = events[e]
    BY <2>2, <2>3 DEF LeaseExpired
  <2>4. ASSUME NEW v \in Workers, pc[v] \in Held
        PROVE  events'[job[v].ev] = events[job[v].ev]
    <3>1. job[v].ev \in Events /\ Coalesce(events[job[v].ev].lease, 0) >= now
      BY <2>4 DEF TypeOK, LeaseInv
    <3>2. Coalesce(events[job[v].ev].lease, 0) \in Int /\ now \in Int
      BY <3>1 DEF TypeOK, EventRow, OptTime, Coalesce, Null
    <3> QED
      BY <2>2, <3>1, <3>2 DEF LeaseExpired
  <2>5. ASSUME NEW v \in Workers, pc[v] = "clear"
        PROVE  events'[job[v].ev] = events[job[v].ev]
    BY <2>3, <2>5 DEF TypeOK, LeaseInv
  <2>6. ASSUME NEW v \in Workers, v # w
        PROVE  pc'[v] = pc[v] /\ job'[v] = job[v]
    BY <2>1, <2>6 DEF TypeOK
  <2>7. pc'[w] = "claim" /\ job'[w].t = now
    BY <2>1 DEF TypeOK, Job
  <2>8. now \in Nat /\ Lease \in Nat
    BY StoreAssumption DEF TypeOK
  <2>9. OneWorkerPerEvent'
    BY <2>6, <2>7 DEF LeaseInv, OneWorkerPerEvent
  <2>10. ASSUME NEW v \in Workers
         PROVE  /\ pc'[v] \in Held =>
                     /\ events'[job'[v].ev].status = "processing"
                     /\ Coalesce(events'[job'[v].ev].lease, 0) >= now'
                /\ pc'[v] = "clear" =>
                     events'[job'[v].ev].status \in {"skipped", "purged"}
                /\ pc'[v] = "claim" => job'[v].t <= now' /\ now' <= job'[v].t + Lease
    <3>1. CASE v = w
      BY <2>1, <2>7, <2>8, <3>1
    <3>2. CASE v # w
      BY <2>1, <2>4, <2>5, <2>6, <3>2 DEF LeaseInv
    <3> QED
      BY <3>1, <3>2
  <2> QED
    BY <2>9, <2>10 DEF LeaseInv
<1>3. ASSUME NEW w \in Workers, Claim(w)
      PROVE  LeaseInv'
  <2>1. PICK e \in ClaimCandidates(job[w].t) :
           /\ events' = [events EXCEPT ![e] = ClaimRow(@, job[w].t, epoch)]
           /\ job' = [job EXCEPT ![w] = PendingEvent(e)]
    BY <1>3 DEF Claim
  <2>2. /\ now' = now
        /\ pc' = [pc EXCEPT ![w] = "vars"]
        /\ pc[w] = "claim"
    BY <1>3 DEF Claim, system, At, Goto
  <2>3. e \in Events /\ Claimable(events[e], job[w].t)
    BY <2>1 DEF ClaimCandidates
  <2>4. /\ job[w].t \in Nat /\ now \in Nat /\ Lease \in Nat
        /\ job[w].t <= now /\ now <= job[w].t + Lease
    BY <2>2, StoreAssumption DEF TypeOK, Job, LeaseInv
  <2>5. ASSUME NEW v \in Workers, pc[v] \in Held
        PROVE  job[v].ev # e
    <3>1. SUFFICES ASSUME job[v].ev = e PROVE FALSE
      OBVIOUS
    <3>2. events[e].status = "processing" /\ Coalesce(events[e].lease, 0) >= now
      BY <2>5, <3>1 DEF LeaseInv
    <3>3. Coalesce(events[e].lease, 0) \in Int
      BY <2>3 DEF TypeOK, EventRow, OptTime, Coalesce, Null
    <3> QED
      BY <2>3, <2>4, <3>2, <3>3 DEF Claimable, LeaseExpired
  <2>6. ASSUME NEW v \in Workers, pc[v] = "clear"
        PROVE  job[v].ev # e
    BY <2>3, <2>6 DEF LeaseInv, Claimable, LeaseExpired
  <2>7. ASSUME NEW v \in Workers, v # w
        PROVE  pc'[v] = pc[v] /\ job'[v] = job[v]
    BY <2>1, <2>2, <2>7 DEF TypeOK
  <2>8. pc'[w] = "vars" /\ job'[w].ev = e
    BY <2>1, <2>2 DEF TypeOK, PendingEvent, NoJob
  <2>9. /\ events'[e].status = "processing"
        /\ events'[e].lease = job[w].t + Lease
    BY <2>1, <2>3, EventRowStatus DEF TypeOK
  <2>10. Coalesce(events'[e].lease, 0) >= now
    BY <2>4, <2>9 DEF Coalesce, Null
  <2>11. ASSUME NEW f \in Events, f # e
         PROVE  events'[f] = events[f]
    BY <2>1, <2>11 DEF TypeOK
  <2>12. OneWorkerPerEvent'
    BY <2>5, <2>6, <2>7, <2>8 DEF LeaseInv, OneWorkerPerEvent
  <2>13. ASSUME NEW v \in Workers
         PROVE  /\ pc'[v] \in Held =>
                     /\ events'[job'[v].ev].status = "processing"
                     /\ Coalesce(events'[job'[v].ev].lease, 0) >= now'
                /\ pc'[v] = "clear" =>
                     events'[job'[v].ev].status \in {"skipped", "purged"}
                /\ pc'[v] = "claim" => job'[v].t <= now' /\ now' <= job'[v].t + Lease
    <3>1. CASE v = w
      BY <2>2, <2>8, <2>9, <2>10, <3>1
    <3>2. CASE v # w
      <4>1. pc[v] \in Processing => job[v].ev \in Events
        BY DEF TypeOK
      <4> QED
        BY <2>2, <2>5, <2>6, <2>7, <2>11, <3>2, <4>1 DEF LeaseInv
    <3> QED
      BY <3>1, <3>2
  <2> QED
    BY <2>12, <2>13 DEF LeaseInv
<1>4. ASSUME NEW w \in Workers, RenewLease(w)
      PROVE  LeaseInv'
  <2>1. /\ now' = now /\ pc' = pc /\ job' = job
        /\ events' = [events EXCEPT ![job[w].ev] = RenewRow(events[job[w].ev], now)]
        /\ job[w].ev \in Events
        /\ events[job[w].ev].status = "processing"
    BY <1>4 DEF RenewLease, system, SetRow, Row, Renewable, TypeOK
  <2>2. /\ events'[job[w].ev].status = "processing"
        /\ events'[job[w].ev].lease = now + Lease
    BY <2>1, EventRowStatus DEF TypeOK
  <2>3. Coalesce(events'[job[w].ev].lease, 0) >= now
    BY <2>2, StoreAssumption DEF Coalesce, Null, TypeOK
  <2>4. ASSUME NEW f \in Events, f # job[w].ev
        PROVE  events'[f] = events[f]
    BY <2>1, <2>4 DEF TypeOK
  <2>5. \A v \in Workers : pc[v] \in Processing => job[v].ev \in Events
    BY DEF TypeOK
  <2>6. OneWorkerPerEvent'
    BY <2>1 DEF LeaseInv, OneWorkerPerEvent
  <2>7. ASSUME NEW v \in Workers
         PROVE  /\ pc[v] \in Held =>
                     /\ events'[job[v].ev].status = "processing"
                     /\ Coalesce(events'[job[v].ev].lease, 0) >= now
                /\ pc[v] = "clear" =>
                     events'[job[v].ev].status \in {"skipped", "purged"}
    BY <2>1, <2>2, <2>3, <2>4, <2>5 DEF LeaseInv
  <2> QED
    BY <2>1, <2>6, <2>7 DEF LeaseInv
<1>5. ASSUME NEW e \in Events, SavePendingEvent(e) \/ ReplayDeadEvent(e)
      PROVE  LeaseInv'
  <2>1. /\ now' = now /\ pc' = pc /\ job' = job
        /\ \A f \in Events : f # e => events'[f] = events[f]
        /\ events[e].status \in {"absent", "dead"}
    BY <1>5 DEF SavePendingEvent, ReplayDeadEvent, Replayable, system, TypeOK
  <2>2. \A v \in Workers : pc[v] \in Processing =>
            job[v].ev \in Events /\ events'[job[v].ev] = events[job[v].ev]
    BY <2>1 DEF TypeOK, LeaseInv
  <2> QED
    BY <2>1, <2>2 DEF LeaseInv, OneWorkerPerEvent
<1>6. CASE PurgeOlderThan
  <2>1. now' = now /\ pc' = pc /\ job' = job
    BY <1>6 DEF PurgeOlderThan, system
  <2>2. ASSUME NEW f \in Events
        PROVE  \/ events'[f] = events[f]
               \/ events[f].status \in TerminalStatus /\ events'[f].status = "purged"
    BY <1>6, EventRowStatus DEF PurgeOlderThan, Purgeable
  <2>3. ASSUME NEW v \in Workers, pc[v] \in Processing
        PROVE  \/ events'[job[v].ev] = events[job[v].ev]
               \/ pc[v] = "clear" /\ events'[job[v].ev].status = "purged"
    BY <2>2, <2>3 DEF TypeOK, LeaseInv, TerminalStatus
  <2> QED
    BY <2>1, <2>3 DEF LeaseInv, OneWorkerPerEvent
<1>7. CASE Shutdown \/ CancelWorkers \/ ProcessExit
  BY <1>7 DEF Shutdown, CancelWorkers, ProcessExit, tables, LeaseInv, OneWorkerPerEvent
<1>8. CASE Crash \/ Restart
  <2>1. \A w \in Workers : pc'[w] \in {"off", "idle"}
    BY <1>8 DEF Crash, Restart
  <2> QED
    BY <2>1 DEF LeaseInv, OneWorkerPerEvent
<1>9. CASE Tick
  <2>1. /\ events' = events /\ pc' = pc /\ job' = job /\ now' = now + 1
        /\ \A w \in Workers : ~Overdue(w, now + 1)
    BY <1>9 DEF Tick, tables
  <2>2. ASSUME NEW v \in Workers, pc[v] \in Held
        PROVE  Coalesce(events[job[v].ev].lease, 0) >= now + 1
    <3>1. events[job[v].ev].status = "processing" /\ events[job[v].ev] \in EventRow
      BY <2>2 DEF TypeOK, LeaseInv
    <3>2. Coalesce(events[job[v].ev].lease, 0) \in Int /\ now \in Int
      BY <3>1 DEF TypeOK, EventRow, OptTime, Coalesce, Null
    <3>3. ~(Coalesce(events[job[v].ev].lease, 0) < now + 1)
      BY <2>1, <2>2, <3>1 DEF Overdue, Row, LeaseExpired
    <3> QED
      BY <3>2, <3>3
  <2>3. ASSUME NEW v \in Workers, pc[v] = "claim"
        PROVE  job[v].t <= now + 1 /\ now + 1 <= job[v].t + Lease
    <3>1. job[v].t \in Nat /\ now \in Nat /\ Lease \in Nat /\ job[v].t <= now
      BY <2>3, StoreAssumption DEF TypeOK, Job, LeaseInv
    <3>2. ~(job[v].t + Lease < now + 1)
      BY <2>1, <2>3 DEF Overdue
    <3> QED
      BY <3>1, <3>2
  <2> QED
    BY <2>1, <2>2, <2>3 DEF LeaseInv, OneWorkerPerEvent
<1>10. CASE UNCHANGED vars
  BY <1>10 DEF vars, LeaseInv, OneWorkerPerEvent
<1> QED
  BY <1>1, <1>2, <1>3, <1>4, <1>5, <1>6, <1>7, <1>8, <1>9, <1>10 DEF Next

\* As long as a live worker's lease is renewed before it runs out, no two
\* workers are inside Queue.process with the same event, whatever the number
\* of workers, events and crashes: RequeueExpiredLeases and ClaimPending only
\* give away what nobody holds.
THEOREM ExclusiveProcessing ==
    ASSUME TimelyRenewal
    PROVE  Spec => []OneWorkerPerEvent
<1>1. Init => LeaseInv
  BY DEF Init, LeaseInv, OneWorkerPerEvent, Held, Processing
<1>2. TypeOK /\ LeaseInv /\ [Next]_vars => LeaseInv'
  BY LeaseInvStep
<1>3. LeaseInv => OneWorkerPerEvent
  BY DEF LeaseInv
<1> QED
  BY <1>1, <1>2, <1>3, TypeCorrect, PTL DEF Spec

-----------------------------------------------------------------------------
(* The rows of an event under its lease                                    *)

\* The statuses an attempt ends in.
Settled == {"done", "dead", "retrying"}

\* What RefreshEventStatus must leave on a retrying event.
Wakes(due, rows) ==
    /\ \E i \in Actions : rows[i].status = "retrying" /\ rows[i].due = due
    /\ \A i \in Actions :
          \/ rows[i].status \in {"done", "dead"}
          \/ rows[i].status = "retrying" /\ rows[i].due >= due

\* One action row at time t: attempts left while it can still be started, a
\* pending row due at once, a retrying row with a due time.
ActionOK(a, t) ==
    /\ a.attempts <= MaxRetries + 1
    /\ a.status \in {"pending", "retrying"} => a.attempts <= MaxRetries
    /\ a.status = "pending" => Coalesce(a.due, 0) <= t
    /\ a.status = "retrying" => a.due # Null

\* The row of an event and its action rows at time t agree.
RowOK(row, rows, t) ==
    /\ HasRunning(rows) => row.status = "processing"
    /\ row.status \in TerminalStatus => AllIn(rows, {"done", "dead"})
    /\ row.status \in {"absent", "purged"} => ~HasActionState(rows)
    /\ row.status \in OpenStatus \cup {"dead"} => row.payload \/ row.vars
    /\ HasActionState(rows) => row.vars /\ row.kind # "badsnapshot"
    /\ row.status = "retrying" => Wakes(row.due, rows)
    /\ \A i \in Actions : ActionOK(rows[i], t)

\* What a worker whose next call is `label` knows, from its local variables
\* j, about the rows of the event it holds.
HoldOK(label, j, row, rows) ==
    /\ label \in {"vars", "prepare", "list", "loop", "start", "handle", "log", "settle"} =>
          j.retryStartedAt = RetryStartedAt(row)
    /\ label \in {"vars", "prepare", "list"} => j.idx = 1
    /\ label \in {"vars", "prepare", "list", "commit"} => ~HasRunning(rows)
    /\ label = "vars" => (row.vars => j.vars) /\ j.kind = row.kind
    /\ label = "prepare" => row.kind # "badsnapshot"
    /\ label = "list" => \A i \in Actions : rows[i].status # "none"
    /\ label \in {"loop", "start", "handle", "log", "settle"} =>
          \A i \in Actions :
             /\ i < j.idx => rows[i].status \in Settled
             /\ i > j.idx => rows[i] = j.snap[i]
             /\ j.snap[i].status \in {"pending", "retrying", "done", "dead"}
    /\ label \in {"loop", "start"} =>
          \A i \in Actions : i = j.idx => rows[i] = j.snap[i]
    /\ label = "start" =>
          /\ rows[j.idx].status \in {"pending", "retrying"}
          /\ rows[j.idx].status = "pending" => Coalesce(rows[j.idx].due, 0) <= j.t
    /\ label \in {"handle", "log", "settle"} =>
          rows[j.idx].status = "running" /\ rows[j.idx].attempts = j.attempt
    /\ label = "commit" =>
          /\ \A i \in Actions : rows[i].status \in Settled
          /\ j.agg.status \in Settled
          /\ j.agg.status = "done" => AllIn(rows, {"done"})
          /\ j.agg.status = "dead" => AllIn(rows, {"done", "dead"})
                                      /\ ~AllIn(rows, {"done"})
          /\ j.agg.status = "retrying" => Wakes(j.agg.due, rows)

\* No processing row is without a worker while no store call failed and the
\* process did not crash.
Attended ==
    faults = 0 /\ proc # "crashed" =>
       \A e \in Events : events[e].status = "processing" =>
          \E w \in Workers : pc[w] \in Held /\ job[w].ev = e

\* None of the invariants above is inductive by itself.  That the outcome of
\* a dispatch finds its row running, that an event goes back to sleep only
\* with every action settled, that a dead letter has nothing left to run:
\* each depends on what the worker learnt some calls earlier, on nobody else
\* having touched the event since (LeaseInv), and on the rows being in order
\* when it was claimed.
WorkInv ==
    /\ \A e \in Events : RowOK(events[e], acts[e], now)
    /\ \A w \in Workers :
          pc[w] \in Held => HoldOK(pc[w], job[w], events[job[w].ev], acts[job[w].ev])
    /\ proc = "stopped" => \A w \in Workers : pc[w] = "exited"
    /\ Attended

-----------------------------------------------------------------------------
(* What the store's updates preserve                                       *)

\* The columns that decide what an event executes, and when its retry age
\* starts, through each update.
LEMMA EventRowInput ==
    /\ \A s : ~NoEventRow(s).payload /\ ~NoEventRow(s).vars
    /\ \A k, t : PendingRow(k, t).payload /\ PendingRow(k, t).kind = k
    /\ \A row \in EventRow :
          /\ RequeueRow(row).kind = row.kind
          /\ RequeueRow(row).payload = row.payload
          /\ RequeueRow(row).vars = row.vars
          /\ PrepareRow(row).kind = row.kind
          /\ PrepareRow(row).vars
          /\ RetryStartedAt(PrepareRow(row)) = RetryStartedAt(row)
          /\ ClearPayloadRow(row).kind = row.kind
          /\ ClearPayloadRow(row).vars = row.vars
    /\ \A row \in EventRow : \A t :
          /\ ReplayRow(row, t).kind = row.kind
          /\ ReplayRow(row, t).payload = row.payload
          /\ ReplayRow(row, t).vars = row.vars
          /\ RenewRow(row, t).kind = row.kind
          /\ RenewRow(row, t).payload = row.payload
          /\ RenewRow(row, t).vars = row.vars
          /\ RenewRow(row, t).due = row.due
          /\ RetryStartedAt(RenewRow(row, t)) = RetryStartedAt(row)
    /\ \A row \in EventRow : \A t, o :
          /\ ClaimRow(row, t, o).kind = row.kind
          /\ ClaimRow(row, t, o).payload = row.payload
          /\ ClaimRow(row, t, o).vars = row.vars
          /\ RetryStartedAt(ClaimRow(row, t, o)) = RetryStartedAt(row)
    /\ \A row \in EventRow : \A agg :
          /\ RefreshRow(row, agg).kind = row.kind
          /\ RefreshRow(row, agg).payload = row.payload
          /\ RefreshRow(row, agg).vars = row.vars
          /\ RefreshRow(row, agg).due = agg.due
    /\ \A row \in EventRow : \A s, t :
          /\ StatusRow(row, s, t).kind = row.kind
          /\ StatusRow(row, s, t).payload = row.payload
          /\ StatusRow(row, s, t).vars = row.vars
<1>1. /\ \A s : ~NoEventRow(s).payload /\ ~NoEventRow(s).vars
      /\ \A k, t : PendingRow(k, t).payload /\ PendingRow(k, t).kind = k
  BY DEF NoEventRow, PendingRow
<1>2. ASSUME NEW row \in EventRow
      PROVE  /\ RequeueRow(row).kind = row.kind
             /\ RequeueRow(row).payload = row.payload
             /\ RequeueRow(row).vars = row.vars
             /\ PrepareRow(row).kind = row.kind
             /\ PrepareRow(row).vars
             /\ RetryStartedAt(PrepareRow(row)) = RetryStartedAt(row)
             /\ ClearPayloadRow(row).kind = row.kind
             /\ ClearPayloadRow(row).vars = row.vars
  BY DEF EventRow, RetryStartedAt, RequeueRow, PrepareRow, ClearPayloadRow
<1>3. ASSUME NEW row \in EventRow, NEW t
      PROVE  /\ ReplayRow(row, t).kind = row.kind
             /\ ReplayRow(row, t).payload = row.payload
             /\ ReplayRow(row, t).vars = row.vars
             /\ RenewRow(row, t).kind = row.kind
             /\ RenewRow(row, t).payload = row.payload
             /\ RenewRow(row, t).vars = row.vars
             /\ RenewRow(row, t).due = row.due
             /\ RetryStartedAt(RenewRow(row, t)) = RetryStartedAt(row)
  BY DEF EventRow, RetryStartedAt, ReplayRow, RenewRow
<1>4. ASSUME NEW row \in EventRow, NEW t, NEW o
      PROVE  /\ ClaimRow(row, t, o).kind = row.kind
             /\ ClaimRow(row, t, o).payload = row.payload
             /\ ClaimRow(row, t, o).vars = row.vars
             /\ RetryStartedAt(ClaimRow(row, t, o)) = RetryStartedAt(row)
  BY DEF EventRow, RetryStartedAt, ClaimRow
<1>5. ASSUME NEW row \in EventRow, NEW agg
      PROVE  /\ RefreshRow(row, agg).kind = row.kind
             /\ RefreshRow(row, agg).payload = row.payload
             /\ RefreshRow(row, agg).vars = row.vars
             /\ RefreshRow(row, agg).due = agg.due
  BY DEF EventRow, RefreshRow
<1>6. ASSUME NEW row \in EventRow, NEW s, NEW t
      PROVE  /\ StatusRow(row, s, t).kind = row.kind
             /\ StatusRow(row, s, t).payload = row.payload
             /\ StatusRow(row, s, t).vars = row.vars
  BY DEF EventRow, StatusRow
<1> QED
  BY <1>1, <1>2, <1>3, <1>4, <1>5, <1>6

\* ResetRunning leaves no action running, touches no other row, and gives
\* back the attempt it takes away.
LEMMA ResetRunningRows ==
    ASSUME NEW rows \in [Actions -> ActionRow], NEW t \in Nat,
           \A i \in Actions : ActionOK(rows[i], t)
    PROVE  /\ ~HasRunning(ResetRunning(rows))
           /\ \A i \in Actions :
                 /\ ActionOK(ResetRunning(rows)[i], t)
                 /\ rows[i].status # "running" => ResetRunning(rows)[i] = rows[i]
           /\ HasActionState(ResetRunning(rows)) <=> HasActionState(rows)
<1>1. ASSUME NEW i \in Actions
      PROVE  /\ ResetRunning(rows)[i].status # "running"
             /\ ActionOK(ResetRunning(rows)[i], t)
             /\ rows[i].status # "running" => ResetRunning(rows)[i] = rows[i]
             /\ rows[i].status # "none" <=> ResetRunning(rows)[i].status # "none"
  <2>1. CASE rows[i].status = "running"
    <3>1. rows[i].attempts \in Nat /\ rows[i].attempts <= MaxRetries + 1
      BY DEF ActionRow, ActionOK
    <3>2. /\ ResetRunning(rows)[i].status = "pending"
          /\ ResetRunning(rows)[i].due = Null
          /\ ResetRunning(rows)[i].attempts =
               IF rows[i].attempts > 0 THEN rows[i].attempts - 1 ELSE 0
      BY <2>1 DEF ResetRunning
    <3> QED
      BY <2>1, <3>1, <3>2, OutboxAssumption DEF OutboxAssumption, ActionOK, Coalesce, Null
  <2>2. CASE rows[i].status # "running"
    BY <2>2 DEF ResetRunning
  <2> QED
    BY <2>1, <2>2
<1> QED
  BY <1>1 DEF HasRunning, HasActionState

\* Putting an open event back (RequeueEvent, RequeueExpiredLeases,
\* RequeueAllProcessing) or claiming it keeps its rows in order.
LEMMA RequeuedRowOK ==
    ASSUME NEW row \in EventRow, NEW rows \in [Actions -> ActionRow], NEW t \in Nat,
           RowOK(row, rows, t), row.status \in OpenStatus
    PROVE  /\ RowOK(RequeueRow(row), ResetRunning(rows), t)
           /\ \A s, o : RowOK(ClaimRow(row, s, o), ResetRunning(rows), t)
<1>1. /\ ~HasRunning(ResetRunning(rows))
      /\ \A i \in Actions : ActionOK(ResetRunning(rows)[i], t)
      /\ HasActionState(ResetRunning(rows)) <=> HasActionState(rows)
  BY ResetRunningRows DEF RowOK
<1>2. /\ row.payload \/ row.vars
      /\ HasActionState(rows) => row.vars /\ row.kind # "badsnapshot"
  BY DEF RowOK
<1>3. RowOK(RequeueRow(row), ResetRunning(rows), t)
  BY <1>1, <1>2, EventRowStatus, EventRowInput DEF RowOK, TerminalStatus
<1>4. ASSUME NEW s, NEW o
      PROVE  RowOK(ClaimRow(row, s, o), ResetRunning(rows), t)
  BY <1>1, <1>2, EventRowStatus, EventRowInput DEF RowOK, TerminalStatus
<1> QED
  BY <1>3, <1>4

\* One action row of a processing event may change to any row in order.
LEMMA ActionSetRowOK ==
    ASSUME NEW row \in EventRow, NEW rows \in [Actions -> ActionRow], NEW t \in Nat,
           RowOK(row, rows, t), row.status = "processing",
           NEW i \in Actions, NEW a, ActionOK(a, t), rows[i].status # "none"
    PROVE  RowOK(row, [rows EXCEPT ![i] = a], t)
<1>1. row.vars /\ row.kind # "badsnapshot"
  BY DEF RowOK, HasActionState
<1>2. \A k \in Actions : ActionOK([rows EXCEPT ![i] = a][k], t)
  BY DEF RowOK
<1> QED
  BY <1>1, <1>2 DEF RowOK, TerminalStatus

\* What RefreshEventStatus reads off settled rows: done only when all are,
\* dead only when all are done or dead and one is dead, and otherwise
\* retrying at the earliest due time.
LEMMA AggregateSettled ==
    ASSUME NEW rows \in [Actions -> ActionRow], NEW t \in Nat,
           \A i \in Actions : /\ rows[i].status \in Settled
                              /\ rows[i].status = "retrying" => rows[i].due # Null
    PROVE  LET agg == Aggregate(rows, t)
           IN  /\ agg.status \in Settled
               /\ agg.status = "done" => AllIn(rows, {"done"})
               /\ agg.status = "dead" => AllIn(rows, {"done", "dead"})
                                         /\ ~AllIn(rows, {"done"})
               /\ agg.status = "retrying" => Wakes(agg.due, rows)
<1> DEFINE D == {rows[i].due : i \in WithStatus(rows, "retrying")} \ {Null}
<1>1. D \in SUBSET Nat
  BY DEF WithStatus, ActionRow, OptTime
<1>2. CASE WithStatus(rows, "retrying") = {}
  <2>1. AllIn(rows, {"done", "dead"})
    BY <1>2 DEF AllIn, WithStatus, Settled
  <2> QED
    BY <2>1 DEF Aggregate, Settled
<1>3. CASE WithStatus(rows, "retrying") # {}
  <2>1. PICK k \in Actions : rows[k].status = "retrying"
    BY <1>3 DEF WithStatus
  <2>2. ~AllIn(rows, {"done"}) /\ ~AllIn(rows, {"done", "dead"})
    BY <2>1 DEF AllIn
  <2>3. /\ Aggregate(rows, t).status = "retrying"
        /\ Aggregate(rows, t).due = NextDue(rows, t)
    BY <1>3, <2>2 DEF Aggregate
  <2>4. rows[k].due \in D
    BY <2>1 DEF WithStatus
  <2>5. NextDue(rows, t) = CHOOSE d \in D : \A c \in D : d <= c
    BY <2>4 DEF NextDue
  <2>6. \E d \in D : \A c \in D : d <= c
    BY <1>1, <2>4, EarliestExists
  <2>7. NextDue(rows, t) \in D /\ \A c \in D : NextDue(rows, t) <= c
    <3> HIDE DEF D
    <3> QED
      BY <2>5, <2>6
  <2>8. PICK m \in Actions : rows[m].status = "retrying" /\ rows[m].due = NextDue(rows, t)
    BY <2>7 DEF WithStatus
  <2>9. ASSUME NEW i \in Actions, rows[i].status \notin {"done", "dead"}
        PROVE  rows[i].status = "retrying" /\ rows[i].due >= NextDue(rows, t)
    <3>1. rows[i].status = "retrying" /\ rows[i].due # Null
      BY <2>9 DEF Settled
    <3>2. rows[i].due \in D
      BY <3>1 DEF WithStatus
    <3> QED
      BY <1>1, <2>7, <3>1, <3>2
  <2> QED
    BY <2>3, <2>8, <2>9 DEF Wakes, Settled
<1> QED
  BY <1>2, <1>3

\* The worker's next call after an action of the loop is finished with.
LEMMA NextActionHold ==
    ASSUME NEW j \in Job, NEW row \in EventRow,
           NEW rows \in [Actions -> ActionRow], NEW rows2 \in [Actions -> ActionRow],
           NEW label \in {"loop", "start", "settle"}, HoldOK(label, j, row, rows),
           j.idx \in Actions, rows2[j.idx].status \in Settled,
           \A i \in Actions : i # j.idx => rows2[i] = rows[i],
           NEW j2 \in Job, j2.idx = j.idx + 1, j2.snap = j.snap,
           j2.retryStartedAt = j.retryStartedAt
    PROVE  HoldOK("loop", j2, row, rows2)
<1>1. j.idx \in Nat /\ \A i \in Actions : i \in Nat
  BY DEF Actions
<1>2. j2.retryStartedAt = RetryStartedAt(row)
  BY DEF HoldOK
<1>3. ASSUME NEW i \in Actions
      PROVE  /\ i < j2.idx => rows2[i].status \in Settled
             /\ i >= j2.idx => rows2[i] = j2.snap[i]
             /\ j2.snap[i].status \in {"pending", "retrying", "done", "dead"}
  <2>1. /\ i < j.idx => rows[i].status \in Settled
        /\ i > j.idx => rows[i] = j.snap[i]
        /\ j.snap[i].status \in {"pending", "retrying", "done", "dead"}
    BY DEF HoldOK
  <2> QED
    BY <1>1, <2>1
<1> QED
  BY <1>1, <1>2, <1>3 DEF HoldOK

-----------------------------------------------------------------------------
(* The steps of process                                                    *)

\* What is known of the event of a worker that holds one.
LEMMA HeldFacts ==
    ASSUME TypeOK, LeaseInv, WorkInv, NEW w \in Workers, pc[w] \in Held
    PROVE  /\ job[w].ev \in Events /\ job[w] \in Job /\ now \in Nat
           /\ events[job[w].ev] \in EventRow
           /\ acts[job[w].ev] \in [Actions -> ActionRow]
           /\ events[job[w].ev].status = "processing"
           /\ RowOK(events[job[w].ev], acts[job[w].ev], now)
           /\ HoldOK(pc[w], job[w], events[job[w].ev], acts[job[w].ev])
  BY DEF TypeOK, LeaseInv, WorkInv, Held

\* What a step of a worker leaves of the event it had: rows in order, what
\* the next call relies on, and nobody's processing row only after a failed
\* store call.
OwnOK(w) ==
    /\ RowOK(events'[job[w].ev], acts'[job[w].ev], now)
    /\ pc'[w] \in Held =>
          HoldOK(pc'[w], job'[w], events'[job[w].ev], acts'[job[w].ev])
    /\ faults' = 0 /\ events'[job[w].ev].status = "processing" => pc'[w] \in Held

\* resolveSource and executionVars.
LEMMA VarsSteps ==
    ASSUME TypeOK, LeaseInv, WorkInv, NEW w \in Workers,
           \/ MarkDead(w) \/ MarkSkipped(w) \/ ClearSkipped(w) \/ HaveVars(w)
    PROVE  OwnOK(w)
<1> USE DEF At, Goto, Return, Row, SetRow, Held, Processing, tables, system
<1> DEFINE e == job[w].ev
           row == events[e]
           rows == acts[e]
<1>1. ASSUME pc[w] = "vars", ~job[w].vars \/ job[w].kind = "badsnapshot"
      PROVE  ~HasActionState(rows) /\ ~HasRunning(rows)
  <2>1. /\ row.vars => job[w].vars
        /\ job[w].kind = row.kind
        /\ HasActionState(rows) => row.vars /\ row.kind # "badsnapshot"
    BY <1>1, HeldFacts DEF HoldOK, RowOK
  <2>2. ~HasActionState(rows)
    BY <1>1, <2>1
  <2> QED
    BY <2>2 DEF HasActionState, HasRunning
<1>2. ASSUME pc[w] = "vars", ~HasActionState(rows), NEW s \in {"dead", "skipped"}
      PROVE  RowOK(StatusRow(row, s, now), rows, now)
  <2>1. row \in EventRow /\ RowOK(row, rows, now) /\ row.status = "processing"
    BY <1>2, HeldFacts
  <2>2. row.payload \/ row.vars
    BY <2>1 DEF RowOK, OpenStatus
  <2>3. /\ StatusRow(row, s, now).status = s
        /\ StatusRow(row, s, now).payload = row.payload
        /\ StatusRow(row, s, now).vars = row.vars
    BY <2>1, EventRowStatus, EventRowInput
  <2> QED
    BY <1>2, <2>1, <2>2, <2>3 DEF RowOK, HasActionState, HasRunning, AllIn
<1>3. CASE MarkDead(w)
  <2>1. pc[w] = "vars" /\ pc'[w] = "idle" /\ acts' = acts
    BY <1>3 DEF MarkDead, TypeOK
  <2>2. row.status = "processing" /\ Exists(row) /\ e \in Events
        /\ RowOK(row, rows, now) /\ row \in EventRow
    BY <2>1, HeldFacts DEF Exists
  <2>3. ~HasActionState(rows)
    BY <1>1, <1>3, <2>1 DEF MarkDead, Unexecutable
  <2>4. \/ events'[e] = StatusRow(row, "dead", now)
        \/ events'[e] = row /\ faults' = faults + 1
    BY <1>3, <2>2 DEF MarkDead, Fault, TypeOK
  <2>5. faults + 1 # 0
    BY DEF TypeOK
  <2>6. RowOK(events'[e], acts'[e], now)
    BY <1>2, <2>1, <2>2, <2>3, <2>4
  <2>7. StatusRow(row, "dead", now).status = "dead"
    BY <2>2, EventRowStatus
  <2> QED
    BY <2>1, <2>4, <2>5, <2>6, <2>7 DEF OwnOK
<1>4. CASE MarkSkipped(w)
  <2>1. pc[w] = "vars" /\ pc'[w] \in {"idle", "clear"} /\ acts' = acts
    BY <1>4 DEF MarkSkipped, TypeOK
  <2>2. e \in Events /\ row \in EventRow
    BY <2>1, HeldFacts
  <2>3. ~HasActionState(rows)
    BY <1>1, <1>4, <2>1 DEF MarkSkipped, Rejected
  <2>4. events'[e] = StatusRow(row, "skipped", now)
    BY <1>4, <2>2 DEF MarkSkipped, TypeOK
  <2>5. RowOK(events'[e], acts'[e], now)
    BY <1>2, <2>1, <2>3, <2>4
  <2>6. StatusRow(row, "skipped", now).status = "skipped"
    BY <2>2, EventRowStatus
  <2> QED
    BY <2>1, <2>4, <2>5, <2>6 DEF OwnOK
<1>5. CASE ClearSkipped(w)
  <2>1. pc[w] = "clear" /\ pc'[w] = "idle" /\ acts' = acts
    BY <1>5 DEF ClearSkipped, TypeOK
  <2>2. e \in Events /\ row \in EventRow /\ row.status \in {"skipped", "purged"}
        /\ RowOK(row, rows, now)
    BY <2>1 DEF TypeOK, LeaseInv, WorkInv
  <2>3. events'[e] = row \/ events'[e] = ClearPayloadRow(row)
    BY <1>5, <2>2 DEF ClearSkipped, TypeOK
  <2>4. /\ ClearPayloadRow(row).status = row.status
        /\ ClearPayloadRow(row).vars = row.vars
        /\ ClearPayloadRow(row).kind = row.kind
    BY <2>2, EventRowStatus, EventRowInput
  <2>5. RowOK(ClearPayloadRow(row), rows, now)
    BY <2>2, <2>4 DEF RowOK, OpenStatus
  <2> QED
    BY <2>1, <2>2, <2>3, <2>4, <2>5 DEF OwnOK
<1>6. CASE HaveVars(w)
  <2>1. pc[w] = "vars" /\ pc'[w] = "prepare" /\ acts' = acts /\ events' = events /\ job' = job
    BY <1>6 DEF HaveVars, TypeOK
  <2>2. HoldOK("vars", job[w], row, rows) /\ RowOK(row, rows, now)
    BY <2>1, HeldFacts
  <2>3. job[w].kind # "badsnapshot"
    BY <1>6 DEF HaveVars, Unexecutable
  <2>4. HoldOK("prepare", job[w], row, rows)
    BY <2>2, <2>3 DEF HoldOK
  <2> QED
    BY <2>1, <2>2, <2>4 DEF OwnOK
<1> QED
  BY <1>3, <1>4, <1>5, <1>6

\* PrepareEvent and ListActionStates.
LEMMA PrepareSteps ==
    ASSUME TypeOK, TypeOK', LeaseInv, WorkInv, NEW w \in Workers,
           PrepareEvent(w) \/ ListActionStates(w)
    PROVE  OwnOK(w)
<1> USE DEF At, Goto, Row, Rows, SetRow, Held, Processing, tables, system
<1> DEFINE e == job[w].ev
           row == events[e]
           rows == acts[e]
<1>1. /\ e \in Events /\ job[w] \in Job /\ now \in Nat /\ row \in EventRow
      /\ rows \in [Actions -> ActionRow] /\ row.status = "processing"
      /\ RowOK(row, rows, now) /\ HoldOK(pc[w], job[w], row, rows)
  BY HeldFacts DEF PrepareEvent, ListActionStates
<1>2. CASE PrepareEvent(w)
  <2>1. /\ pc[w] = "prepare" /\ pc'[w] = "list" /\ job' = job
        /\ events'[e] = PrepareRow(row)
        /\ acts'[e] = PrepareActions(rows, now)
    BY <1>1, <1>2 DEF PrepareEvent, TypeOK
  <2>2. ASSUME NEW i \in Actions
        PROVE  /\ PrepareActions(rows, now)[i].status \notin {"none", "running"}
               /\ ActionOK(PrepareActions(rows, now)[i], now)
    <3>1. rows[i].status # "running"
      BY <1>1, <2>1 DEF HoldOK, HasRunning
    <3>2. CASE rows[i].status = "none"
      BY <1>1, <3>2, OutboxAssumption
      DEF OutboxAssumption, PrepareActions, ActionOK, Coalesce, Null
    <3>3. CASE rows[i].status # "none"
      BY <1>1, <3>1, <3>3 DEF PrepareActions, RowOK
    <3> QED
      BY <3>2, <3>3
  <2>3. /\ PrepareRow(row).status = "processing" /\ PrepareRow(row).vars
        /\ PrepareRow(row).kind = row.kind
        /\ RetryStartedAt(PrepareRow(row)) = RetryStartedAt(row)
    BY <1>1, EventRowStatus, EventRowInput
  <2>4. /\ row.kind # "badsnapshot" /\ job[w].retryStartedAt = RetryStartedAt(row)
        /\ job[w].idx = 1
    BY <1>1, <2>1 DEF HoldOK
  <2>5. RowOK(PrepareRow(row), PrepareActions(rows, now), now)
    BY <2>2, <2>3, <2>4 DEF RowOK, TerminalStatus, HasRunning
  <2>6. HoldOK("list", job[w], PrepareRow(row), PrepareActions(rows, now))
    BY <2>2, <2>3, <2>4 DEF HoldOK, HasRunning
  <2> QED
    BY <2>1, <2>5, <2>6 DEF OwnOK
<1>3. CASE ListActionStates(w)
  <2>1. /\ pc[w] = "list" /\ pc'[w] = "loop" /\ events' = events /\ acts' = acts
        /\ job'[w].snap = rows /\ job'[w].idx = job[w].idx
        /\ job'[w].retryStartedAt = job[w].retryStartedAt
    BY <1>3 DEF ListActionStates, TypeOK, Job
  <2>2. /\ job[w].idx = 1 /\ job[w].retryStartedAt = RetryStartedAt(row)
        /\ \A i \in Actions : rows[i].status # "none" /\ rows[i].status # "running"
    BY <1>1, <2>1 DEF HoldOK, HasRunning
  <2>3. \A i \in Actions : rows[i].status \in {"pending", "retrying", "done", "dead"}
    BY <1>1, <2>2 DEF ActionRow, ActionStatus
  <2>4. HoldOK("loop", job'[w], row, rows)
    BY <2>1, <2>2, <2>3 DEF HoldOK, Actions
  <2> QED
    BY <1>1, <2>1, <2>4 DEF OwnOK
<1> QED
  BY <1>2, <1>3

\* The loop over the actions, up to the call of the handler.
LEMMA LoopSteps ==
    ASSUME TypeOK, TypeOK', LeaseInv, WorkInv, NEW w \in Workers,
           \/ LoopCancelled(w) \/ SkipAction(w) \/ ReadClock(w) \/ SkipRetry(w)
           \/ ExpireAction(w)
           \/ StartAction(w) \/ StartNoRow(w) \/ StartInterrupted(w)
    PROVE  OwnOK(w)
<1> USE DEF Row, Rows, SetRow, Held, Processing, tables, system
<1> DEFINE e == job[w].ev
           k == job[w].idx
           row == events[e]
           rows == acts[e]
<1>1. \/ /\ InLoop(w) /\ pc[w] = "loop"
         /\ LoopCancelled(w) \/ SkipAction(w) \/ ReadClock(w)
      \/ pc[w] = "start" /\ ~(LoopCancelled(w) \/ SkipAction(w) \/ ReadClock(w))
  BY DEF LoopCancelled, SkipAction, ReadClock, SkipRetry, ExpireAction, StartAction,
         StartNoRow, StartInterrupted, Dispatches, InLoop, At
<1>2. /\ e \in Events /\ job[w] \in Job /\ now \in Nat /\ row \in EventRow
      /\ rows \in [Actions -> ActionRow] /\ row.status = "processing"
      /\ RowOK(row, rows, now) /\ HoldOK(pc[w], job[w], row, rows)
      /\ pc[w] \in {"loop", "start"}
  BY <1>1, HeldFacts
<1>3. k \in Actions /\ events' = events
  <2>1. k \in Actions
    BY <1>1, <1>2, StoreAssumption DEF StoreAssumption, InLoop, Actions, Job, TypeOK
  <2> QED
    BY <2>1 DEF LoopCancelled, SkipAction, ReadClock, SkipRetry, ExpireAction,
                StartAction, StartNoRow, StartInterrupted
<1>4. /\ Act(w) = rows[k] /\ Snap(w) = rows[k]
      /\ rows[k].status \in {"pending", "retrying", "done", "dead"}
      /\ ActionOK(rows[k], now) /\ rows[k] \in ActionRow
  BY <1>2, <1>3 DEF Act, Snap, HoldOK, RowOK
<1>5. ASSUME NextAction(w)
      PROVE  /\ pc'[w] = "loop" /\ job'[w] \in Job
             /\ job'[w].idx = k + 1 /\ job'[w].snap = job[w].snap
             /\ job'[w].retryStartedAt = job[w].retryStartedAt
  BY <1>5 DEF NextAction, TypeOK, Job
<1>6. ASSUME NextAction(w), acts' = acts, rows[k].status \in Settled
      PROVE  OwnOK(w)
  <2>1. HoldOK("loop", job'[w], row, rows)
    BY <1>2, <1>3, <1>5, <1>6, NextActionHold
  <2> QED
    BY <1>2, <1>3, <1>5, <1>6, <2>1 DEF OwnOK
<1>7. ASSUME NEW a \in ActionRow, ActionOK(a, now), SetAct(w, a)
      PROVE  /\ acts'[e] = [rows EXCEPT ![k] = a]
             /\ RowOK(events'[e], acts'[e], now)
  <2>1. acts'[e] = [rows EXCEPT ![k] = a]
    BY <1>2, <1>7 DEF SetAct, TypeOK
  <2>2. RowOK(row, [rows EXCEPT ![k] = a], now)
    BY <1>2, <1>3, <1>4, <1>7, ActionSetRowOK
  <2> QED
    BY <1>3, <2>1, <2>2
<1>8. CASE LoopCancelled(w)
  <2>1. pc'[w] = "requeue" /\ acts' = acts
    BY <1>8 DEF LoopCancelled, GotoRequeue, TypeOK
  <2> QED
    BY <1>2, <1>3, <2>1 DEF OwnOK, HoldOK
<1>9. CASE SkipAction(w) \/ SkipRetry(w)
  <2>1. rows[k].status \in Settled
    BY <1>4, <1>9 DEF SkipAction, SkipRetry, NotDueYet, Settled
  <2> QED
    BY <1>6, <1>9, <2>1 DEF SkipAction, SkipRetry
<1>13. CASE ReadClock(w)
  <2>1. /\ pc'[w] = "start" /\ job'[w] = [job[w] EXCEPT !.t = now] /\ acts' = acts
        /\ pc[w] = "loop" /\ rows[k].status \in {"pending", "retrying"}
    BY <1>1, <1>4, <1>13 DEF ReadClock, Goto, TypeOK, InLoop, At
  <2>2. /\ job'[w].t = now /\ job'[w].idx = k /\ job'[w].snap = job[w].snap
        /\ job'[w].retryStartedAt = job[w].retryStartedAt
    BY <1>2, <2>1 DEF Job
  <2>3. rows[k].status = "pending" => Coalesce(rows[k].due, 0) <= job'[w].t
    BY <1>4, <2>2 DEF ActionOK
  <2>4. HoldOK("start", job'[w], row, rows)
    BY <1>2, <2>1, <2>2, <2>3 DEF HoldOK
  <2> QED
    BY <1>2, <1>3, <2>1, <2>4 DEF OwnOK
<1>10. CASE ExpireAction(w)
  <2> DEFINE a == SettleRow(rows[k], "dead", Null)
  <2>1. a \in ActionRow /\ a.status = "dead" /\ a.attempts = rows[k].attempts
    BY <1>4 DEF SettleRow, ActionRow, ActionStatus, OptTime, Null
  <2>2. ActionOK(a, now) /\ SetAct(w, a)
    BY <1>4, <1>10, <2>1 DEF ActionOK, ExpireAction
  <2> HIDE DEF a
  <2>3. acts'[e] = [rows EXCEPT ![k] = a] /\ RowOK(events'[e], acts'[e], now)
    BY <1>7, <2>1, <2>2
  <2>4. HoldOK("loop", job'[w], row, acts'[e])
    <3>1. /\ acts'[e] \in [Actions -> ActionRow] /\ acts'[e][k].status \in Settled
          /\ \A i \in Actions : i # k => acts'[e][i] = rows[i]
      BY <1>2, <1>3, <2>1, <2>3 DEF Settled
    <3>2. NextAction(w)
      BY <1>10 DEF ExpireAction
    <3> QED
      BY <1>2, <1>3, <1>5, <3>1, <3>2, NextActionHold
  <2>5. pc'[w] = "loop"
    BY <1>5, <1>10 DEF ExpireAction
  <2> QED
    BY <1>3, <2>3, <2>4, <2>5 DEF OwnOK
<1>11. CASE StartAction(w) \/ StartInterrupted(w)
  <2> DEFINE a == StartRow(rows[k])
  <2>1. rows[k].status \in {"pending", "retrying"} /\ SetAct(w, a)
    BY <1>4, <1>11 DEF StartAction, StartInterrupted, Startable
  <2>2. /\ a \in ActionRow /\ a.status = "running"
        /\ a.attempts = rows[k].attempts + 1
    BY <1>4, ActionRowTypes DEF StartRow
  <2>3. ActionOK(a, now)
    BY <1>4, <2>1, <2>2, OutboxAssumption DEF OutboxAssumption, ActionOK, ActionRow
  <2> HIDE DEF a
  <2>4. acts'[e] = [rows EXCEPT ![k] = a] /\ RowOK(events'[e], acts'[e], now)
    BY <1>7, <2>1, <2>2, <2>3
  <2>5. CASE StartInterrupted(w)
    <3>1. pc'[w] = "requeue"
      BY <2>5 DEF StartInterrupted, GotoRequeue, TypeOK
    <3> QED
      BY <2>4, <3>1 DEF OwnOK, HoldOK
  <2>6. CASE StartAction(w)
    <3>1. /\ pc'[w] = "handle" /\ job'[w].idx = k /\ job'[w].snap = job[w].snap
          /\ job'[w].retryStartedAt = job[w].retryStartedAt
          /\ job'[w].attempt = rows[k].attempts + 1
      <4>1. pc'[w] = "handle"
        BY <2>6 DEF StartAction, Goto, TypeOK
      <4>2. job' = [job EXCEPT ![w].t = 0, ![w].attempt = rows[k].attempts + 1]
        BY <1>4, <2>6 DEF StartAction
      <4>3. job'[w] = [job[w] EXCEPT !.t = 0, !.attempt = rows[k].attempts + 1]
        BY <4>2 DEF TypeOK
      <4> QED
        BY <1>2, <4>1, <4>3 DEF Job
    <3>2. /\ acts'[e][k].status = "running"
          /\ acts'[e][k].attempts = job'[w].attempt
      BY <1>2, <1>3, <2>2, <2>4, <3>1
    <3>3. \A i \in Actions : i # k => acts'[e][i] = rows[i]
      BY <1>2, <2>4
    <3>4. ASSUME NEW i \in Actions
          PROVE  /\ i < k => acts'[e][i].status \in Settled
                 /\ i > k => acts'[e][i] = job[w].snap[i]
                 /\ job[w].snap[i].status \in {"pending", "retrying", "done", "dead"}
      <4>1. i \in Int /\ k \in Int
        BY <1>3 DEF Actions
      <4> QED
        BY <1>2, <3>3, <4>1 DEF HoldOK
    <3>5. job[w].retryStartedAt = RetryStartedAt(row)
      BY <1>2 DEF HoldOK
    <3>6. HoldOK("handle", job'[w], row, acts'[e])
      BY <3>1, <3>2, <3>4, <3>5 DEF HoldOK
    <3> QED
      BY <1>3, <2>4, <3>1, <3>6 DEF OwnOK
  <2> QED
    BY <1>11, <2>5, <2>6
<1>12. CASE StartNoRow(w)
  <2>1. /\ Dispatches(w) /\ pc[w] = "start" /\ ~Startable(rows[k], job[w].t)
    BY <1>4, <1>12 DEF StartNoRow, Dispatches, At
  <2>2. /\ rows[k].status \in {"pending", "retrying"}
        /\ rows[k].status = "pending" => Coalesce(rows[k].due, 0) <= job[w].t
        /\ rows[k].status = "retrying" => ~(Coalesce(rows[k].due, 0) > job[w].t)
    BY <1>2, <1>4, <2>1 DEF Dispatches, NotDueYet, HoldOK
  <2>3. Coalesce(rows[k].due, 0) \in Nat /\ job[w].t \in Nat
    BY <1>2, <1>4 DEF ActionRow, OptTime, Coalesce, Null, Job
  <2>4. Startable(rows[k], job[w].t)
    BY <2>2, <2>3 DEF Startable
  <2> QED
    BY <2>1, <2>4
<1> QED
  BY <1>8, <1>9, <1>10, <1>11, <1>12, <1>13

\* The handler, the log of its outcome and the outcome itself.
LEMMA SettleSteps ==
    ASSUME TypeOK, TypeOK', LeaseInv, WorkInv, NEW w \in Workers,
           \/ Handle(w) \/ LogAction(w) \/ CompleteAction(w) \/ SettleCancelled(w)
           \/ DeadAction(w) \/ ScheduleActionRetry(w)
    PROVE  OwnOK(w)
<1> USE DEF At, Row, Rows, SetRow, Held, Processing, tables, system
<1> DEFINE e == job[w].ev
           k == job[w].idx
           row == events[e]
           rows == acts[e]
<1>1. pc[w] \in {"handle", "log", "settle"} /\ events' = events
  BY DEF Handle, LogAction, CompleteAction, SettleCancelled, DeadAction,
         ScheduleActionRetry
<1>2. /\ e \in Events /\ job[w] \in Job /\ now \in Nat /\ row \in EventRow
      /\ rows \in [Actions -> ActionRow] /\ row.status = "processing"
      /\ RowOK(row, rows, now) /\ HoldOK(pc[w], job[w], row, rows)
      /\ k \in Actions
  BY <1>1, HeldFacts DEF TypeOK
<1>3. /\ Act(w) = rows[k] /\ rows[k] \in ActionRow /\ ActionOK(rows[k], now)
      /\ rows[k].status = "running" /\ rows[k].attempts = job[w].attempt
  BY <1>1, <1>2 DEF Act, HoldOK, RowOK
<1>4. ASSUME NEW s \in Settled, NEW d \in OptTime, pc[w] = "settle",
             s = "retrying" => rows[k].attempts <= MaxRetries /\ d # Null,
             SetAct(w, SettleRow(rows[k], s, d)), NextAction(w)
      PROVE  OwnOK(w)
  <2> DEFINE a == SettleRow(rows[k], s, d)
  <2>1. /\ a \in ActionRow /\ a.status = s /\ a.due = d
        /\ a.attempts = rows[k].attempts
    BY <1>3 DEF SettleRow, ActionRow, ActionStatus, Settled
  <2>2. ActionOK(a, now)
    BY <1>3, <1>4, <2>1 DEF ActionOK, Settled
  <2>3. acts'[e] = [rows EXCEPT ![k] = a]
    BY <1>2, <1>4 DEF SetAct, TypeOK
  <2> HIDE DEF a
  <2>4. RowOK(row, acts'[e], now)
    BY <1>2, <1>3, <2>2, <2>3, ActionSetRowOK
  <2>5. /\ acts'[e] \in [Actions -> ActionRow] /\ acts'[e][k].status \in Settled
        /\ \A i \in Actions : i # k => acts'[e][i] = rows[i]
    BY <1>2, <2>1, <2>3
  <2>6. /\ pc'[w] = "loop" /\ job'[w] \in Job
        /\ job'[w].idx = k + 1 /\ job'[w].snap = job[w].snap
        /\ job'[w].retryStartedAt = job[w].retryStartedAt
    BY <1>4 DEF NextAction, TypeOK, Job
  <2>7. HoldOK("loop", job'[w], row, acts'[e])
    BY <1>2, <1>4, <2>5, <2>6, NextActionHold
  <2> QED
    BY <1>1, <2>4, <2>6, <2>7 DEF OwnOK
<1>5. CASE Handle(w) \/ LogAction(w)
  <2>1. /\ pc'[w] \in {"log", "settle"} /\ acts' = acts
        /\ job'[w].idx = k /\ job'[w].snap = job[w].snap
        /\ job'[w].retryStartedAt = job[w].retryStartedAt
        /\ job'[w].attempt = job[w].attempt
    <3>1. CASE Handle(w)
      BY <3>1 DEF Handle, Goto, TypeOK, Job
    <3>2. CASE LogAction(w)
      BY <3>2 DEF LogAction, Goto, TypeOK
    <3> QED
      BY <1>5, <3>1, <3>2
  <2>2. ASSUME NEW l \in {"log", "settle"}
        PROVE  HoldOK(l, job'[w], row, rows)
    BY <1>1, <1>2, <2>1 DEF HoldOK
  <2> QED
    BY <1>1, <1>2, <2>1, <2>2 DEF OwnOK
<1>6. CASE SettleCancelled(w)
  <2>1. pc'[w] = "requeue" /\ acts' = acts
    BY <1>6 DEF SettleCancelled, GotoRequeue, TypeOK
  <2> QED
    BY <1>1, <1>2, <2>1 DEF OwnOK, HoldOK
<1>7. CASE CompleteAction(w)
  BY <1>3, <1>4, <1>7 DEF CompleteAction, Settled, OptTime
<1>8. CASE DeadAction(w)
  BY <1>3, <1>4, <1>8 DEF DeadAction, Settled, OptTime
<1>9. CASE ScheduleActionRetry(w)
  <2>1. PICK d \in Delays : /\ RetryAt(w, d)
                            /\ SetAct(w, SettleRow(rows[k], "retrying", now + d))
    BY <1>3, <1>9 DEF ScheduleActionRetry
  <2>2. now + d \in OptTime /\ now + d # Null
    BY <1>2, OutboxAssumption DEF OutboxAssumption, OptTime, Null
  <2>3. rows[k].attempts <= MaxRetries
    <3>1. ~(job[w].attempt >= MaxRetries + 1) /\ rows[k].attempts \in Nat
      BY <1>3, <2>1 DEF RetryAt, LastAttempt, ActionRow
    <3> QED
      BY <1>3, <3>1, OutboxAssumption DEF OutboxAssumption
  <2>4. pc[w] = "settle" /\ NextAction(w)
    BY <1>9 DEF ScheduleActionRetry
  <2> QED
    BY <1>4, <2>1, <2>2, <2>3, <2>4 DEF Settled
<1> QED
  BY <1>5, <1>6, <1>7, <1>8, <1>9

\* RefreshEventStatus, an error of the store, and the requeue.
LEMMA CloseSteps ==
    ASSUME TypeOK, TypeOK', LeaseInv, WorkInv, NEW w \in Workers,
           RefreshSelect(w) \/ RefreshUpdate(w) \/ StoreError(w) \/ Requeue(w)
    PROVE  OwnOK(w)
<1> USE DEF At, Row, Rows, SetRow, Held, Processing, tables, system
<1> DEFINE e == job[w].ev
           row == events[e]
           rows == acts[e]
<1>1. pc[w] \in Held
  BY DEF RefreshSelect, RefreshUpdate, StoreError, NoRowMatches, CallsStore,
         Dispatches, Requeue, InLoop
<1>2. /\ e \in Events /\ job[w] \in Job /\ now \in Nat /\ row \in EventRow
      /\ rows \in [Actions -> ActionRow] /\ row.status = "processing"
      /\ RowOK(row, rows, now) /\ HoldOK(pc[w], job[w], row, rows)
  BY <1>1, HeldFacts
<1>3. CASE RefreshSelect(w)
  <2>1. /\ pc[w] = "loop" /\ pc'[w] = "commit" /\ events' = events /\ acts' = acts
        /\ job[w].idx = NumActions + 1
        /\ job'[w].agg = Aggregate(rows, now)
    BY <1>3 DEF RefreshSelect, Goto, TypeOK, NoJob
  <2>2. ASSUME NEW i \in Actions
        PROVE  /\ rows[i].status \in Settled
               /\ rows[i].status = "retrying" => rows[i].due # Null
    <3>1. i < job[w].idx
      BY <2>1, StoreAssumption DEF StoreAssumption, Actions
    <3> QED
      BY <1>2, <2>1, <3>1 DEF HoldOK, RowOK, ActionOK
  <2>3. LET agg == job'[w].agg
        IN  /\ agg.status \in Settled
            /\ agg.status = "done" => AllIn(rows, {"done"})
            /\ agg.status = "dead" => AllIn(rows, {"done", "dead"})
                                      /\ ~AllIn(rows, {"done"})
            /\ agg.status = "retrying" => Wakes(agg.due, rows)
    BY <1>2, <2>1, <2>2, AggregateSettled
  <2>4. ~HasRunning(rows)
    BY <2>2 DEF HasRunning, Settled
  <2>5. HoldOK("commit", job'[w], row, rows)
    BY <2>2, <2>3, <2>4 DEF HoldOK
  <2> QED
    BY <1>2, <2>1, <2>5 DEF OwnOK
<1>4. CASE RefreshUpdate(w)
  <2> DEFINE agg == job[w].agg
  <2>1. /\ pc[w] = "commit" /\ pc'[w] = "idle" /\ acts' = acts
        /\ events'[e] = RefreshRow(row, agg)
    BY <1>2, <1>4 DEF RefreshUpdate, Return, TypeOK
  <2>2. /\ ~HasRunning(rows) /\ agg.status \in Settled
        /\ \A i \in Actions : rows[i].status \in Settled
        /\ agg.status = "done" => AllIn(rows, {"done"})
        /\ agg.status = "dead" => AllIn(rows, {"done", "dead"})
        /\ agg.status = "retrying" => Wakes(agg.due, rows)
    BY <1>2, <2>1 DEF HoldOK
  <2>3. /\ RefreshRow(row, agg).status = agg.status
        /\ RefreshRow(row, agg).due = agg.due
        /\ RefreshRow(row, agg).kind = row.kind
        /\ RefreshRow(row, agg).payload = row.payload
        /\ RefreshRow(row, agg).vars = row.vars
    BY <1>2, EventRowStatus, EventRowInput
  <2>4. /\ row.payload \/ row.vars
        /\ HasActionState(rows) => row.vars /\ row.kind # "badsnapshot"
        /\ \A i \in Actions : ActionOK(rows[i], now)
    BY <1>2 DEF RowOK, OpenStatus
  <2>5. agg.status \in TerminalStatus => AllIn(rows, {"done", "dead"})
    BY <2>2 DEF AllIn, TerminalStatus, Settled
  <2> HIDE DEF agg
  <2>6. RowOK(RefreshRow(row, agg), rows, now)
    BY <2>2, <2>3, <2>4, <2>5 DEF RowOK, Settled
  <2>7. agg.status # "processing"
    BY <2>2 DEF Settled
  <2> QED
    BY <2>1, <2>3, <2>6, <2>7 DEF OwnOK, agg
<1>5. CASE StoreError(w)
  <2>1. pc'[w] = "requeue" /\ acts' = acts /\ events' = events
    BY <1>5 DEF StoreError, GotoRequeue, TypeOK
  <2> QED
    BY <1>2, <2>1 DEF OwnOK, HoldOK
<1>6. CASE Requeue(w)
  <2>1. pc[w] = "requeue" /\ pc'[w] = "idle"
    BY <1>6 DEF Requeue, Return, TypeOK
  <2>2. \/ events'[e] = RequeueRow(row) /\ acts'[e] = ResetRunning(rows)
        \/ events' = events /\ acts' = acts /\ faults' = faults + 1
    BY <1>2, <1>6 DEF Requeue, Requeueable, Fault, TypeOK
  <2>3. RowOK(RequeueRow(row), ResetRunning(rows), now)
    BY <1>2, RequeuedRowOK DEF OpenStatus
  <2>4. RequeueRow(row).status = "pending" /\ faults + 1 # 0
    BY <1>2, EventRowStatus DEF TypeOK
  <2> QED
    BY <1>2, <2>1, <2>2, <2>3, <2>4 DEF OwnOK
<1> QED
  BY <1>3, <1>4, <1>5, <1>6

\* Apart from Drain and Claim, a worker's step leaves the action rows of
\* other events alone, and a worker that is not processing anything changes
\* no row.
LEMMA OwnActsStep ==
    ASSUME TypeOK, NEW w \in Workers, WorkerStep(w), ~Drain(w), ~Claim(w)
    PROVE  /\ \A e \in Events : e # job[w].ev => acts'[e] = acts[e]
           /\ pc[w] \notin Processing => acts' = acts
           /\ proc' = proc /\ faults' \in Nat /\ faults' >= faults
<1> USE DEF At, SetAct, InLoop, Processing, tables, system
<1>1. CASE \/ Exit(w) \/ ClaimNothing(w) \/ MarkDead(w) \/ MarkSkipped(w)
           \/ ClearSkipped(w) \/ HaveVars(w) \/ ListActionStates(w) \/ LoopCancelled(w)
           \/ SkipAction(w) \/ ReadClock(w) \/ SkipRetry(w)
           \/ StartNoRow(w) \/ Handle(w) \/ LogAction(w)
           \/ SettleCancelled(w) \/ RefreshSelect(w) \/ RefreshUpdate(w) \/ StoreError(w)
  <2>1. acts' = acts /\ proc' = proc /\ faults' \in {faults, faults + 1}
    BY <1>1 DEF Exit, ClaimNothing, MarkDead, MarkSkipped, ClearSkipped, HaveVars,
                ListActionStates, LoopCancelled,
                SkipAction, ReadClock, SkipRetry, StartNoRow, Handle, LogAction,
                SettleCancelled, RefreshSelect, RefreshUpdate, StoreError, Fault
  <2> QED
    BY <2>1 DEF TypeOK
<1>2. CASE PrepareEvent(w)
  BY <1>2 DEF PrepareEvent, TypeOK
<1>3. CASE \/ ExpireAction(w) \/ StartAction(w) \/ StartInterrupted(w)
           \/ CompleteAction(w) \/ DeadAction(w) \/ ScheduleActionRetry(w)
  <2>1. pc[w] \in {"start", "settle"} /\ proc' = proc /\ faults' = faults
    BY <1>3 DEF ExpireAction, StartAction, StartInterrupted, Dispatches, CompleteAction,
                DeadAction, ScheduleActionRetry
  <2>2. \E a : acts' = [acts EXCEPT ![job[w].ev][job[w].idx] = a]
    BY <1>3 DEF ExpireAction, StartAction, StartInterrupted, CompleteAction, DeadAction,
                ScheduleActionRetry
  <2> QED
    BY <2>1, <2>2 DEF TypeOK
<1>4. CASE Requeue(w)
  <2>1. pc[w] = "requeue" /\ proc' = proc /\ faults' \in {faults, faults + 1}
    BY <1>4 DEF Requeue, Fault
  <2>2. \A e \in Events : e # job[w].ev => acts'[e] = acts[e]
    BY <1>4 DEF Requeue, TypeOK
  <2> QED
    BY <2>1, <2>2 DEF TypeOK
<1> QED
  BY <1>1, <1>2, <1>3, <1>4 DEF WorkerStep

\* A step inside process leaves its own event as OwnOK says.
LEMMA OwnStepOK ==
    ASSUME TypeOK, TypeOK', LeaseInv, WorkInv, NEW w \in Workers, WorkerStep(w),
           pc[w] \in Processing
    PROVE  OwnOK(w)
<1>1. ~(Exit(w) \/ Drain(w) \/ Claim(w) \/ ClaimNothing(w))
  BY DEF Exit, Drain, Claim, ClaimNothing, At, Processing
<1> QED
  BY <1>1, VarsSteps, PrepareSteps, LoopSteps, SettleSteps, CloseSteps DEF WorkerStep

\* A step of a worker that neither claims nor recovers keeps WorkInv: for the
\* worker itself by OwnOK, for the others because it touches no event of theirs.
LEMMA WorkerStepWork ==
    ASSUME TypeOK, TypeOK', LeaseInv, WorkInv, NEW w \in Workers, WorkerStep(w),
           ~Drain(w), ~Claim(w)
    PROVE  WorkInv'
<1>1. /\ now' = now
      /\ \A v \in Workers : v # w => pc'[v] = pc[v] /\ job'[v] = job[v]
      /\ \A e \in Events : e # job[w].ev => events'[e] = events[e]
      /\ pc[w] \notin Processing => events' = events
      /\ pc'[w] \in Held => pc[w] \in Held /\ job'[w].ev = job[w].ev
  BY OwnEventStep DEF Held, Processing
<1>2. /\ \A e \in Events : e # job[w].ev => acts'[e] = acts[e]
      /\ pc[w] \notin Processing => acts' = acts
      /\ proc' = proc /\ faults' \in Nat /\ faults' >= faults
  BY OwnActsStep
<1>3. pc[w] \in Processing => OwnOK(w)
  BY OwnStepOK
<1>4. Held \subseteq Processing /\ (pc[w] \in Processing => job[w].ev \in Events)
  BY DEF Held, TypeOK
<1>5. ASSUME NEW e \in Events
      PROVE  RowOK(events'[e], acts'[e], now')
  <2>1. CASE pc[w] \in Processing /\ e = job[w].ev
    BY <1>1, <1>3, <2>1 DEF OwnOK
  <2>2. CASE ~(pc[w] \in Processing /\ e = job[w].ev)
    BY <1>1, <1>2, <2>2 DEF WorkInv
  <2> QED
    BY <2>1, <2>2
<1>6. ASSUME NEW v \in Workers, pc'[v] \in Held
      PROVE  HoldOK(pc'[v], job'[v], events'[job'[v].ev], acts'[job'[v].ev])
  <2>1. CASE v = w
    BY <1>1, <1>3, <1>4, <1>6, <2>1 DEF OwnOK
  <2>2. CASE v # w
    <3>1. pc[v] \in Held /\ pc'[v] = pc[v] /\ job'[v] = job[v] /\ job[v].ev \in Events
      BY <1>1, <1>6, <2>2 DEF TypeOK, Held
    <3>2. pc[w] \in Processing => job[v].ev # job[w].ev
      BY <1>4, <2>2, <3>1 DEF LeaseInv, OneWorkerPerEvent
    <3>3. events'[job[v].ev] = events[job[v].ev] /\ acts'[job[v].ev] = acts[job[v].ev]
      BY <1>1, <1>2, <3>1, <3>2
    <3> QED
      BY <3>1, <3>3 DEF WorkInv
  <2> QED
    BY <2>1, <2>2
<1>7. proc' = "stopped" => \A v \in Workers : pc'[v] = "exited"
  <2>1. SUFFICES ASSUME proc = "stopped" PROVE FALSE
    BY <1>2
  <2>2. pc[w] = "exited"
    BY <2>1 DEF WorkInv
  <2> QED
    BY <2>2 DEF WorkerStep, Exit, Drain, Claim, ClaimNothing, MarkDead, MarkSkipped,
        ClearSkipped, HaveVars, PrepareEvent, ListActionStates, LoopCancelled,
        SkipAction, ReadClock, SkipRetry,
        ExpireAction, StartAction, StartNoRow, StartInterrupted, Handle, LogAction,
        CompleteAction, SettleCancelled, DeadAction, ScheduleActionRetry, RefreshSelect,
        RefreshUpdate, StoreError, NoRowMatches, CallsStore, Requeue, At, InLoop, Dispatches
<1>8. Attended'
  <2> SUFFICES ASSUME faults' = 0, proc' # "crashed", NEW e \in Events,
                      events'[e].status = "processing"
               PROVE  \E v \in Workers : pc'[v] \in Held /\ job'[v].ev = e
    BY DEF Attended
  <2>1. faults = 0
    BY <1>2 DEF TypeOK
  <2>2. CASE pc[w] \in Processing /\ e = job[w].ev
    BY <1>1, <1>3, <2>2 DEF OwnOK
  <2>3. CASE ~(pc[w] \in Processing /\ e = job[w].ev)
    <3>1. events'[e] = events[e]
      BY <1>1, <2>3
    <3>2. PICK v \in Workers : pc[v] \in Held /\ job[v].ev = e
      BY <1>2, <2>1, <3>1 DEF WorkInv, Attended
    <3>3. v # w
      BY <1>4, <2>3, <3>2
    <3> QED
      BY <1>1, <3>2, <3>3
  <2> QED
    BY <2>2, <2>3
<1> QED
  BY <1>5, <1>6, <1>7, <1>8 DEF WorkInv

\* RequeueExpiredLeases takes away no event that a worker holds.
LEMMA DrainWork ==
    ASSUME TypeOK, TypeOK', LeaseInv, WorkInv, NEW w \in Workers, Drain(w)
    PROVE  WorkInv'
<1>1. /\ pc[w] = "idle" /\ pc'[w] = "claim" /\ now' = now /\ proc' = proc /\ faults' = faults
      /\ proc = "up"
      /\ \A v \in Workers : v # w => pc'[v] = pc[v] /\ job'[v] = job[v]
  BY DEF Drain, At, Goto, system, TypeOK
<1>2. ASSUME NEW e \in Events
      PROVE  \/ /\ LeaseExpired(events[e], now)
                /\ events'[e] = RequeueRow(events[e]) /\ acts'[e] = ResetRunning(acts[e])
             \/ events'[e] = events[e] /\ acts'[e] = acts[e]
  BY DEF Drain
<1>3. ASSUME NEW e \in Events
      PROVE  RowOK(events'[e], acts'[e], now')
  <2>1. /\ RowOK(events[e], acts[e], now) /\ events[e] \in EventRow
        /\ acts[e] \in [Actions -> ActionRow] /\ now \in Nat
    BY DEF WorkInv, TypeOK
  <2>2. LeaseExpired(events[e], now) => events[e].status \in OpenStatus
    BY DEF LeaseExpired, OpenStatus
  <2> QED
    BY <1>1, <1>2, <2>1, <2>2, RequeuedRowOK
<1>4. ASSUME NEW v \in Workers, pc[v] \in Held
      PROVE  /\ job[v].ev \in Events
             /\ events'[job[v].ev] = events[job[v].ev] /\ acts'[job[v].ev] = acts[job[v].ev]
  <2>1. /\ job[v].ev \in Events /\ events[job[v].ev] \in EventRow /\ now \in Nat
        /\ Coalesce(events[job[v].ev].lease, 0) >= now
    BY <1>4 DEF TypeOK, LeaseInv, Held
  <2>2. Coalesce(events[job[v].ev].lease, 0) \in Int
    BY <2>1 DEF EventRow, OptTime, Coalesce, Null
  <2>3. ~LeaseExpired(events[job[v].ev], now)
    BY <2>1, <2>2 DEF LeaseExpired
  <2> QED
    BY <1>2, <2>1, <2>3
<1>5. ASSUME NEW v \in Workers, pc'[v] \in Held
      PROVE  HoldOK(pc'[v], job'[v], events'[job'[v].ev], acts'[job'[v].ev])
  <2>1. v # w
    BY <1>1, <1>5 DEF Held, Processing
  <2> QED
    BY <1>1, <1>4, <1>5, <2>1 DEF WorkInv
<1>6. Attended'
  <2> SUFFICES ASSUME faults' = 0, proc' # "crashed", NEW e \in Events,
                      events'[e].status = "processing"
               PROVE  \E v \in Workers : pc'[v] \in Held /\ job'[v].ev = e
    BY DEF Attended
  <2>1. events'[e] = events[e]
    BY <1>2, EventRowStatus DEF TypeOK
  <2>2. PICK v \in Workers : pc[v] \in Held /\ job[v].ev = e
    BY <1>1, <2>1 DEF WorkInv, Attended
  <2>3. v # w
    BY <1>1, <2>2 DEF Held, Processing
  <2> QED
    BY <1>1, <2>2, <2>3
<1> QED
  BY <1>1, <1>3, <1>5, <1>6 DEF WorkInv

\* ClaimPending hands out an event in order, with no action running.
LEMMA ClaimWork ==
    ASSUME TypeOK, TypeOK', LeaseInv, WorkInv, NEW w \in Workers, Claim(w)
    PROVE  WorkInv'
<1>1. /\ pc[w] = "claim" /\ pc'[w] = "vars" /\ now' = now /\ proc' = proc
      /\ faults' = faults
  BY DEF Claim, At, Goto, system, TypeOK
<1>2. PICK e \in ClaimCandidates(job[w].t) :
         /\ events' = [events EXCEPT ![e] = ClaimRow(@, job[w].t, epoch)]
         /\ acts' = [acts EXCEPT ![e] = ResetRunning(@)]
         /\ job' = [job EXCEPT ![w] = PendingEvent(e)]
  BY DEF Claim
<1>3. /\ e \in Events /\ Claimable(events[e], job[w].t)
      /\ events[e] \in EventRow /\ acts[e] \in [Actions -> ActionRow] /\ now \in Nat
      /\ RowOK(events[e], acts[e], now)
  BY DEF ClaimCandidates, TypeOK, WorkInv
<1>4. /\ events'[e] = ClaimRow(events[e], job[w].t, epoch)
      /\ acts'[e] = ResetRunning(acts[e])
      /\ \A f \in Events : f # e => events'[f] = events[f] /\ acts'[f] = acts[f]
      /\ job'[w] = PendingEvent(e)
      /\ \A v \in Workers : v # w => pc'[v] = pc[v] /\ job'[v] = job[v]
  BY <1>2, <1>3 DEF TypeOK, Claim, Goto
<1>5. events[e].status \in OpenStatus
  BY <1>3 DEF Claimable, LeaseExpired, OpenStatus
<1>6. ASSUME NEW f \in Events
      PROVE  RowOK(events'[f], acts'[f], now')
  <2>1. CASE f = e
    BY <1>1, <1>3, <1>4, <1>5, <2>1, RequeuedRowOK
  <2>2. CASE f # e
    BY <1>1, <1>4, <2>2 DEF WorkInv
  <2> QED
    BY <2>1, <2>2
<1>7. HoldOK("vars", PendingEvent(e), events'[e], acts'[e])
  <2>1. ~HasRunning(acts'[e])
    BY <1>3, <1>4, ResetRunningRows DEF RowOK
  <2>2. /\ PendingEvent(e).retryStartedAt = RetryStartedAt(events[e])
        /\ PendingEvent(e).kind = events[e].kind
        /\ PendingEvent(e).vars = events[e].vars
        /\ PendingEvent(e).idx = 1 /\ PendingEvent(e).ev = e
    BY DEF PendingEvent, NoJob
  <2>3. /\ RetryStartedAt(events'[e]) = RetryStartedAt(events[e])
        /\ events'[e].kind = events[e].kind
        /\ events'[e].vars = events[e].vars
    BY <1>3, <1>4, EventRowInput
  <2> QED
    BY <2>1, <2>2, <2>3 DEF HoldOK
<1>8. ASSUME NEW v \in Workers, v # w, pc[v] \in Held
      PROVE  job[v].ev # e /\ job[v].ev \in Events
  <2>1. /\ job[v].ev \in Events /\ events[job[v].ev].status = "processing"
        /\ Coalesce(events[job[v].ev].lease, 0) >= now
        /\ events[job[v].ev] \in EventRow
    BY <1>8 DEF TypeOK, LeaseInv, Held
  <2>2. job[w].t <= now /\ job[w].t \in Nat
    BY <1>1 DEF LeaseInv, TypeOK, Job
  <2>3. Coalesce(events[job[v].ev].lease, 0) \in Int
    BY <2>1 DEF EventRow, OptTime, Coalesce, Null
  <2> QED
    BY <1>3, <2>1, <2>2, <2>3 DEF Claimable, LeaseExpired
<1>9. ASSUME NEW v \in Workers, pc'[v] \in Held
      PROVE  HoldOK(pc'[v], job'[v], events'[job'[v].ev], acts'[job'[v].ev])
  <2>1. CASE v = w
    <3>1. job'[w].ev = e
      BY <1>4 DEF PendingEvent, NoJob
    <3> QED
      BY <1>1, <1>4, <1>7, <2>1, <3>1
  <2>2. CASE v # w
    BY <1>4, <1>8, <1>9, <2>2 DEF WorkInv
  <2> QED
    BY <2>1, <2>2
<1>10. Attended'
  <2> SUFFICES ASSUME faults' = 0, proc' # "crashed", NEW f \in Events,
                      events'[f].status = "processing"
               PROVE  \E v \in Workers : pc'[v] \in Held /\ job'[v].ev = f
    BY DEF Attended
  <2>1. CASE f = e
    <3>1. job'[w].ev = e
      BY <1>4 DEF PendingEvent, NoJob
    <3> QED
      BY <1>1, <2>1, <3>1 DEF Held, Processing
  <2>2. CASE f # e
    <3>1. PICK v \in Workers : pc[v] \in Held /\ job[v].ev = f
      BY <1>1, <1>4, <2>2 DEF WorkInv, Attended
    <3>2. v # w
      BY <1>1, <3>1 DEF Held, Processing
    <3> QED
      BY <1>4, <3>1, <3>2
  <2> QED
    BY <2>1, <2>2
<1>11. proc # "stopped"
  BY <1>1 DEF WorkInv
<1> QED
  BY <1>1, <1>6, <1>9, <1>10, <1>11 DEF WorkInv

\* A step that moves no worker and changes rows only of events that nobody
\* holds keeps WorkInv when the rows it changes are in order.
LEMMA UnheldRowsWork ==
    ASSUME TypeOK, LeaseInv, WorkInv, pc' = pc, job' = job, faults' = faults,
           proc = "stopped" \/ proc' # "stopped", proc' = "crashed" \/ proc # "crashed",
           \A e \in Events : RowOK(events'[e], acts'[e], now'),
           \A e \in Events : \/ events'[e] = events[e] /\ acts'[e] = acts[e]
                             \/ /\ events[e].status # "processing"
                                /\ events'[e].status # "processing"
    PROVE  WorkInv'
<1>1. ASSUME NEW v \in Workers, pc[v] \in Held
      PROVE  HoldOK(pc[v], job[v], events'[job[v].ev], acts'[job[v].ev])
  <2>1. job[v].ev \in Events /\ events[job[v].ev].status = "processing"
    BY <1>1 DEF TypeOK, LeaseInv, Held
  <2> QED
    BY <1>1, <2>1 DEF WorkInv
<1>2. Attended'
  BY DEF WorkInv, Attended
<1> QED
  BY <1>1, <1>2 DEF WorkInv

\* The lease heartbeat changes nothing a worker relies on.
LEMMA RenewWork ==
    ASSUME TypeOK, LeaseInv, WorkInv, NEW w \in Workers, RenewLease(w)
    PROVE  WorkInv'
<1> DEFINE e == job[w].ev
<1>1. /\ e \in Events /\ events[e] \in EventRow /\ events[e].status = "processing"
      /\ pc' = pc /\ job' = job /\ acts' = acts /\ now' = now /\ proc' = proc
      /\ faults' = faults
      /\ events'[e] = RenewRow(events[e], now)
      /\ \A f \in Events : f # e => events'[f] = events[f]
  BY DEF RenewLease, Renewable, Row, SetRow, system, TypeOK
<1>2. /\ events'[e].status = "processing"
      /\ events'[e].kind = events[e].kind /\ events'[e].vars = events[e].vars
      /\ events'[e].payload = events[e].payload
      /\ RetryStartedAt(events'[e]) = RetryStartedAt(events[e])
  BY <1>1, EventRowStatus, EventRowInput
<1>3. ASSUME NEW f \in Events
      PROVE  RowOK(events'[f], acts'[f], now')
  <2>1. CASE f = e
    <3>1. RowOK(events[e], acts[e], now)
      BY <1>1 DEF WorkInv
    <3> QED
      BY <1>1, <1>2, <2>1, <3>1 DEF RowOK
  <2>2. CASE f # e
    BY <1>1, <2>2 DEF WorkInv
  <2> QED
    BY <2>1, <2>2
<1>4. ASSUME NEW v \in Workers, pc'[v] \in Held
      PROVE  HoldOK(pc'[v], job'[v], events'[job'[v].ev], acts'[job'[v].ev])
  <2>1. HoldOK(pc[v], job[v], events[job[v].ev], acts[job[v].ev]) /\ job[v].ev \in Events
    BY <1>1, <1>4 DEF WorkInv, TypeOK, Held
  <2>2. CASE job[v].ev = e
    BY <1>1, <1>2, <2>1, <2>2 DEF HoldOK
  <2>3. CASE job[v].ev # e
    BY <1>1, <2>1, <2>3
  <2> QED
    BY <2>2, <2>3
<1>5. Attended'
  BY <1>1, <1>2 DEF WorkInv, Attended
<1> QED
  BY <1>1, <1>3, <1>4, <1>5 DEF WorkInv

\* The other writers of the tables and the life of the process.
LEMMA SystemStepWork ==
    ASSUME TypeOK, TypeOK', LeaseInv, WorkInv,
           \/ \E e \in Events : SavePendingEvent(e) \/ ReplayDeadEvent(e)
           \/ PurgeOlderThan \/ Shutdown \/ CancelWorkers \/ ProcessExit
           \/ Crash \/ Restart \/ Tick
    PROVE  WorkInv'
<1> USE DEF tables, system
<1>1. ASSUME NEW e \in Events
      PROVE  /\ RowOK(events[e], acts[e], now) /\ events[e] \in EventRow
             /\ acts[e] \in [Actions -> ActionRow] /\ now \in Nat
  BY DEF WorkInv, TypeOK
<1>2. ASSUME NEW e \in Events, SavePendingEvent(e)
      PROVE  WorkInv'
  <2>1. PICK k \in AcceptKinds : events' = [events EXCEPT ![e] = PendingRow(k, now)]
    BY <1>2 DEF SavePendingEvent
  <2>2. /\ events[e].status = "absent" /\ Alive /\ acts' = acts /\ pc' = pc /\ job' = job
        /\ now' = now /\ proc' = proc /\ faults' = faults
        /\ events'[e] = PendingRow(k, now)
        /\ \A f \in Events : f # e => events'[f] = events[f]
    BY <1>2, <2>1 DEF SavePendingEvent, TypeOK
  <2>3. /\ ~HasActionState(acts[e])
        /\ \A i \in Actions : ActionOK(acts[e][i], now)
    BY <1>1, <2>2 DEF RowOK
  <2>4. ~HasRunning(acts[e])
    BY <2>3 DEF HasActionState, HasRunning
  <2>5. PendingRow(k, now).status = "pending" /\ PendingRow(k, now).payload
    BY EventRowStatus, EventRowInput
  <2>6. RowOK(PendingRow(k, now), acts[e], now)
    BY <2>3, <2>4, <2>5 DEF RowOK, TerminalStatus
  <2>7. \A f \in Events : RowOK(events'[f], acts'[f], now')
    BY <1>1, <2>2, <2>6
  <2>8. \A f \in Events : \/ events'[f] = events[f] /\ acts'[f] = acts[f]
                          \/ /\ events[f].status # "processing"
                             /\ events'[f].status # "processing"
    BY <2>2, <2>5
  <2> QED
    BY <2>2, <2>7, <2>8, UnheldRowsWork DEF Alive
<1>3. ASSUME NEW e \in Events, ReplayDeadEvent(e)
      PROVE  WorkInv'
  <2>1. /\ events[e].status = "dead" /\ (events[e].payload \/ events[e].vars)
        /\ Alive /\ pc' = pc /\ job' = job /\ now' = now /\ proc' = proc /\ faults' = faults
        /\ events'[e] = ReplayRow(events[e], now)
        /\ acts'[e] = ReplayActions(acts[e], now)
        /\ \A f \in Events : f # e => events'[f] = events[f] /\ acts'[f] = acts[f]
    BY <1>3 DEF ReplayDeadEvent, Replayable, TypeOK
  <2>2. ASSUME NEW i \in Actions
        PROVE  /\ acts'[e][i].status # "running"
               /\ acts'[e][i].status # "none" => acts[e][i].status # "none"
               /\ ActionOK(acts'[e][i], now)
    <3>1. /\ acts[e][i].status \in {"none", "done", "dead"}
          /\ ActionOK(acts[e][i], now)
      BY <1>1, <2>1 DEF RowOK, TerminalStatus, AllIn
    <3>2. CASE acts[e][i].status = "dead"
      <4>1. acts'[e][i] = [status |-> "pending", attempts |-> 0, due |-> now]
        BY <2>1, <3>2 DEF ReplayActions
      <4> QED
        BY <1>1, <3>2, <4>1, OutboxAssumption DEF OutboxAssumption, ActionOK, Coalesce, Null
    <3>3. CASE acts[e][i].status # "dead"
      BY <2>1, <3>1, <3>3 DEF ReplayActions
    <3> QED
      BY <3>2, <3>3
  <2>3. /\ events'[e].status = "pending" /\ events'[e].kind = events[e].kind
        /\ events'[e].payload = events[e].payload /\ events'[e].vars = events[e].vars
    BY <1>1, <2>1, EventRowStatus, EventRowInput
  <2>4. HasActionState(acts'[e]) => events[e].vars /\ events[e].kind # "badsnapshot"
    BY <1>1, <2>2 DEF RowOK, HasActionState
  <2>5. RowOK(events'[e], acts'[e], now)
    BY <2>1, <2>2, <2>3, <2>4 DEF RowOK, TerminalStatus, HasRunning
  <2>6. \A f \in Events : RowOK(events'[f], acts'[f], now')
    BY <1>1, <2>1, <2>5
  <2>7. \A f \in Events : \/ events'[f] = events[f] /\ acts'[f] = acts[f]
                          \/ /\ events[f].status # "processing"
                             /\ events'[f].status # "processing"
    BY <2>1, <2>3
  <2> QED
    BY <2>1, <2>6, <2>7, UnheldRowsWork DEF Alive
<1>4. CASE PurgeOlderThan
  <2>1. /\ pc' = pc /\ job' = job /\ now' = now /\ proc' = proc /\ faults' = faults
        /\ proc \in {"up", "stopping"}
    BY <1>4 DEF PurgeOlderThan
  <2>2. ASSUME NEW e \in Events
        PROVE  \/ events'[e] = events[e] /\ acts'[e] = acts[e]
               \/ /\ events[e].status \in TerminalStatus
                  /\ events'[e] = NoEventRow("purged") /\ acts'[e] = NoActionRows
    BY <1>4 DEF PurgeOlderThan, Purgeable
  <2>3. /\ \A i \in Actions : ActionOK(NoActionRows[i], now)
        /\ ~HasActionState(NoActionRows) /\ ~HasRunning(NoActionRows)
    BY OutboxAssumption
    DEF OutboxAssumption, NoActionRows, NoActionRow, ActionOK, HasActionState, HasRunning
  <2>4. RowOK(NoEventRow("purged"), NoActionRows, now)
    BY <2>3, EventRowStatus DEF RowOK, TerminalStatus, OpenStatus
  <2>5. \A e \in Events : RowOK(events'[e], acts'[e], now')
    BY <1>1, <2>1, <2>2, <2>4
  <2>6. \A e \in Events : \/ events'[e] = events[e] /\ acts'[e] = acts[e]
                          \/ /\ events[e].status # "processing"
                             /\ events'[e].status # "processing"
    BY <2>2, EventRowStatus DEF TerminalStatus
  <2> QED
    BY <2>1, <2>5, <2>6, UnheldRowsWork
<1>5. CASE Shutdown \/ CancelWorkers
  <2>1. /\ pc' = pc /\ job' = job /\ now' = now /\ faults' = faults
        /\ events' = events /\ acts' = acts /\ proc' # "stopped" /\ proc # "crashed"
    BY <1>5 DEF Shutdown, CancelWorkers
  <2> QED
    BY <1>1, <2>1, UnheldRowsWork
<1>6. CASE ProcessExit
  <2>1. /\ pc' = pc /\ job' = job /\ now' = now /\ faults' = faults
        /\ events' = events /\ acts' = acts /\ proc' = "stopped" /\ proc # "crashed"
        /\ \A w \in Workers : pc[w] = "exited"
    BY <1>6 DEF ProcessExit
  <2>2. Attended'
    BY <2>1 DEF WorkInv, Attended
  <2> QED
    BY <2>1, <2>2 DEF WorkInv
<1>7. CASE Crash
  <2>1. /\ events' = events /\ acts' = acts /\ now' = now /\ proc' = "crashed"
        /\ \A w \in Workers : pc'[w] = "off"
    BY <1>7 DEF Crash
  <2> QED
    BY <1>1, <2>1 DEF WorkInv, Attended, Held, Processing
<1>8. CASE Restart
  <2>1. /\ now' = now /\ proc' = "up" /\ \A w \in Workers : pc'[w] = "idle"
    BY <1>8 DEF Restart
  <2>2. ASSUME NEW e \in Events
        PROVE  \/ /\ Recovered(e)
                  /\ events'[e] = RequeueRow(events[e]) /\ acts'[e] = ResetRunning(acts[e])
               \/ /\ events[e].status # "processing"
                  /\ events'[e] = events[e] /\ acts'[e] = acts[e]
    BY <1>8 DEF Restart, Recovered
  <2>3. ASSUME NEW e \in Events
        PROVE  RowOK(events'[e], acts'[e], now') /\ events'[e].status # "processing"
    <3>1. Recovered(e) => events[e].status \in OpenStatus
      BY DEF Recovered, OpenStatus
    <3> QED
      BY <1>1, <2>1, <2>2, <3>1, RequeuedRowOK, EventRowStatus
  <2> QED
    BY <2>1, <2>3 DEF WorkInv, Attended, Held, Processing
<1>9. CASE Tick
  <2>1. /\ pc' = pc /\ job' = job /\ now' = now + 1 /\ faults' = faults /\ proc' = proc
        /\ events' = events /\ acts' = acts
    BY <1>9 DEF Tick
  <2>2. ASSUME NEW e \in Events, NEW i \in Actions
        PROVE  ActionOK(acts[e][i], now + 1)
    <3>1. ActionOK(acts[e][i], now) /\ acts[e][i] \in ActionRow /\ now \in Nat
      BY <1>1 DEF RowOK
    <3>2. Coalesce(acts[e][i].due, 0) \in Nat
      BY <3>1 DEF ActionRow, OptTime, Coalesce, Null
    <3> QED
      BY <3>1, <3>2 DEF ActionOK
  <2>3. \A e \in Events : RowOK(events[e], acts[e], now + 1)
    BY <1>1, <2>2 DEF RowOK
  <2>4. Attended'
    BY <2>1 DEF WorkInv, Attended
  <2> QED
    BY <2>1, <2>3, <2>4 DEF WorkInv
<1> QED
  BY <1>2, <1>3, <1>4, <1>5, <1>6, <1>7, <1>8, <1>9

\* WorkInv is inductive, relative to the types and the leases.
LEMMA WorkInvStep ==
    ASSUME TypeOK, LeaseInv, WorkInv, [Next]_vars
    PROVE  WorkInv'
<1>1. TypeOK'
  BY NextType
<1>2. CASE UNCHANGED vars
  <2>1. /\ pc' = pc /\ job' = job /\ now' = now /\ faults' = faults /\ proc' = proc
        /\ events' = events /\ acts' = acts
    BY <1>2 DEF vars
  <2>2. Attended'
    BY <2>1 DEF WorkInv, Attended
  <2> QED
    BY <2>1, <2>2 DEF WorkInv
<1> QED
  BY <1>1, <1>2, WorkerStepWork, DrainWork, ClaimWork, RenewWork, SystemStepWork DEF Next

\* WorkInv holds initially: nothing is stored and nobody works.
LEMMA InitWork == Init => WorkInv
<1> SUFFICES ASSUME Init PROVE WorkInv
  OBVIOUS
<1>1. /\ \A i \in Actions : ActionOK(NoActionRows[i], 0)
      /\ ~HasActionState(NoActionRows) /\ ~HasRunning(NoActionRows)
  BY OutboxAssumption
  DEF OutboxAssumption, NoActionRows, NoActionRow, ActionOK, HasActionState, HasRunning
<1>2. RowOK(NoEventRow("absent"), NoActionRows, 0)
  BY <1>1, EventRowStatus DEF RowOK, TerminalStatus, OpenStatus
<1>3. \A e \in Events : events[e].status # "processing"
  BY EventRowStatus DEF Init
<1> QED
  BY <1>2, <1>3 DEF Init, WorkInv, Attended, Held, Processing

\* The three invariants together.
LEMMA LeaseWorks ==
    ASSUME TimelyRenewal
    PROVE  Spec => [](TypeOK /\ LeaseInv /\ WorkInv)
<1>1. Init => LeaseInv
  BY DEF Init, LeaseInv, OneWorkerPerEvent, Held, Processing
<1>2. TypeOK /\ LeaseInv /\ [Next]_vars => LeaseInv'
  BY LeaseInvStep
<1>3. TypeOK /\ LeaseInv /\ WorkInv /\ [Next]_vars => WorkInv'
  BY WorkInvStep
<1> QED
  BY <1>1, <1>2, <1>3, InitWork, TypeCorrect, PTL DEF Spec

-----------------------------------------------------------------------------
(* What follows from the invariant                                         *)

\* The outcome of a delivery is never refused: from StartAction until
\* updateRunningAction the action's row is running under a processing event,
\* for any number of workers and events and through every crash, as long as
\* leases are renewed in time.
THEOREM OutcomesAreAccepted ==
    ASSUME TimelyRenewal
    PROVE  Spec => []DispatchedIsRunning
<1>1. TypeOK /\ LeaseInv /\ WorkInv => DispatchedIsRunning
  <2> SUFFICES ASSUME TypeOK, LeaseInv, WorkInv, NEW w \in Workers,
                      pc[w] \in {"handle", "log", "settle"}
               PROVE  Act(w).status = "running" /\ Row(w).status = "processing"
    BY DEF DispatchedIsRunning
  <2> QED
    BY HeldFacts DEF Held, Processing, HoldOK, Act, Row
<1> QED
  BY <1>1, LeaseWorks, PTL

\* No action is left running under an event that neither lease expiry nor
\* startup recovery would look at.
THEOREM RunningIsRecoverable ==
    ASSUME TimelyRenewal
    PROVE  Spec => []RunningIsUnderLease
<1>1. WorkInv => RunningIsUnderLease
  BY DEF WorkInv, RowOK, RunningIsUnderLease
<1> QED
  BY <1>1, LeaseWorks, PTL

\* An event reported done, dead or skipped has no action that is waiting for
\* an attempt or in the middle of one.
THEOREM TerminalEventsAreSettled ==
    ASSUME TimelyRenewal
    PROVE  Spec => []TerminalIsSettled
<1>1. WorkInv => TerminalIsSettled
  BY DEF WorkInv, RowOK, AllIn, TerminalIsSettled
<1> QED
  BY <1>1, LeaseWorks, PTL

\* Clearing payloads, after PrepareEvent and after a skip, never takes away
\* what an open event needs to be executed or a dead one to be replayed.
THEOREM InputSurvives ==
    ASSUME TimelyRenewal
    PROVE  Spec => []InputIsKept
<1>1. WorkInv => InputIsKept
  BY DEF WorkInv, RowOK, InputIsKept
<1> QED
  BY <1>1, LeaseWorks, PTL

\* The count of attempts never passes max_retries + 1, however the attempts
\* are spread over workers, requeues and restarts, which take back the ones
\* they interrupt.
THEOREM AttemptsAreBounded ==
    ASSUME TimelyRenewal
    PROVE  Spec => []AttemptBound
<1>1. WorkInv => AttemptBound
  BY DEF WorkInv, RowOK, ActionOK, AttemptBound
<1> QED
  BY <1>1, LeaseWorks, PTL

\* An event that goes to sleep wakes up at the earliest due time of its
\* actions and leaves nothing unfinished that is due earlier.
THEOREM NothingOversleeps ==
    ASSUME TimelyRenewal
    PROVE  Spec => []RetryingWakesInTime
<1>1. WorkInv => RetryingWakesInTime
  BY DEF WorkInv, RowOK, Wakes, RetryingWakesInTime
<1> QED
  BY <1>1, LeaseWorks, PTL

\* A process that ended by itself, with no failed store call, left no event
\* processing and no action running: every worker requeued or closed what it
\* held, also when it was cancelled in the middle of it.
THEOREM ShutdownIsClean ==
    ASSUME TimelyRenewal
    PROVE  Spec => []CleanShutdown
<1>1. WorkInv => CleanShutdown
  <2> SUFFICES ASSUME WorkInv, proc = "stopped", faults = 0, NEW e \in Events
               PROVE  events[e].status # "processing" /\ ~HasRunning(acts[e])
    BY DEF CleanShutdown
  <2>1. \A w \in Workers : pc[w] \notin Held
    BY DEF WorkInv, Held, Processing
  <2>2. events[e].status # "processing"
    BY <2>1 DEF WorkInv, Attended
  <2> QED
    BY <2>2 DEF WorkInv, RowOK
<1> QED
  BY <1>1, LeaseWorks, PTL

\* An action row becomes running in no other way than by StartAction.
LEMMA OnlyStartRuns ==
    ASSUME TypeOK, [Next]_vars, NEW e \in Events, NEW i \in Actions,
           acts[e][i].status # "running", acts'[e][i].status = "running"
    PROVE  \E w \in Workers : /\ StartAction(w) \/ StartInterrupted(w)
                              /\ job[w].ev = e /\ job[w].idx = i
<1> USE DEF tables
<1>1. acts[e] \in [Actions -> ActionRow]
  BY DEF TypeOK
<1>2. /\ acts'[e] # ResetRunning(acts[e]) /\ acts'[e] # acts[e]
      /\ \A t : acts'[e] # PrepareActions(acts[e], t) /\ acts'[e] # ReplayActions(acts[e], t)
      /\ acts'[e] # NoActionRows
  BY <1>1 DEF ResetRunning, PrepareActions, ReplayActions, NoActionRows, NoActionRow
<1>3. ASSUME NEW w \in Workers, WorkerStep(w)
      PROVE  /\ StartAction(w) \/ StartInterrupted(w)
             /\ job[w].ev = e /\ job[w].idx = i
  <2> USE DEF Rows, Act, SetAct
  <2>1. ~(\/ Exit(w) \/ ClaimNothing(w) \/ HaveVars(w) \/ ListActionStates(w)
          \/ LoopCancelled(w) \/ SkipAction(w) \/ ReadClock(w) \/ SkipRetry(w)
          \/ StartNoRow(w) \/ Handle(w)
          \/ LogAction(w) \/ SettleCancelled(w) \/ RefreshSelect(w) \/ StoreError(w)
          \/ MarkDead(w) \/ MarkSkipped(w) \/ ClearSkipped(w) \/ RefreshUpdate(w))
    BY <1>2 DEF Exit, ClaimNothing, HaveVars, ListActionStates, LoopCancelled,
                SkipAction, ReadClock, SkipRetry,
           StartNoRow, Handle, LogAction, SettleCancelled, RefreshSelect, StoreError,
           MarkDead, MarkSkipped, ClearSkipped, RefreshUpdate
  <2>2. ~Drain(w)
    BY <1>2 DEF Drain
  <2>3. ~Claim(w) /\ ~Requeue(w) /\ ~PrepareEvent(w)
    BY <1>2 DEF Claim, Requeue, PrepareEvent, TypeOK
  <2>4. ASSUME NEW a, a.status # "running", SetAct(w, a)
        PROVE  FALSE
    BY <1>1, <2>4 DEF TypeOK
  <2>5. ASSUME ExpireAction(w) \/ CompleteAction(w) \/ DeadAction(w) \/ ScheduleActionRetry(w)
        PROVE  FALSE
    <3>1. Act(w) \in ActionRow
      BY <2>5, StoreAssumption
      DEF ExpireAction, CompleteAction, DeadAction, ScheduleActionRetry, InLoop, At, TypeOK,
          Job, Actions, StoreAssumption, Processing
    <3>2. ASSUME NEW s \in {"dead", "done", "retrying"}, NEW d,
                 SetAct(w, SettleRow(Act(w), s, d))
          PROVE  FALSE
      BY <2>4, <3>1, <3>2 DEF SettleRow, ActionRow
    <3> QED
      BY <2>5, <3>2 DEF ExpireAction, CompleteAction, DeadAction, ScheduleActionRetry
  <2>6. StartAction(w) \/ StartInterrupted(w)
    BY <1>3, <2>1, <2>2, <2>3, <2>5 DEF WorkerStep
  <2>7. \E a : acts' = [acts EXCEPT ![job[w].ev][job[w].idx] = a]
    BY <2>6 DEF StartAction, StartInterrupted
  <2> QED
    BY <1>1, <2>6, <2>7 DEF TypeOK
<1>4. ~(\/ \E w \in Workers : RenewLease(w)
        \/ \E f \in Events : SavePendingEvent(f)
        \/ Shutdown \/ CancelWorkers \/ ProcessExit \/ Crash \/ Tick \/ UNCHANGED vars)
  BY <1>2 DEF RenewLease, SavePendingEvent, Shutdown, CancelWorkers, ProcessExit, Crash,
              Tick, vars
<1>5. ~(\E f \in Events : ReplayDeadEvent(f))
  BY <1>2 DEF ReplayDeadEvent, TypeOK
<1>6. ~PurgeOlderThan
  BY <1>2 DEF PurgeOlderThan
<1>7. ~Restart
  BY <1>2 DEF Restart
<1> QED
  BY <1>3, <1>4, <1>5, <1>6, <1>7 DEF Next

-----------------------------------------------------------------------------
(* The history: calls past the retry age                                   *)

\* The retry age starts again only with a replay, which counts a generation,
\* and when the event is accepted.
LEMMA RetryAgeKept ==
    ASSUME TypeOK, [Next]_vars, NEW e \in Events,
           events[e].status # "absent", events'[e].status # "purged",
           events'[e].gen = events[e].gen
    PROVE  RetryStartedAt(events'[e]) = RetryStartedAt(events[e])
<1>1. events[e] \in EventRow
  BY DEF TypeOK
<1>2. /\ ReplayRow(events[e], now).gen # events[e].gen
      /\ NoEventRow("purged").status = "purged"
  BY <1>1 DEF EventRow, ReplayRow, NoEventRow
<1>3. CASE \E w \in Workers : WorkerStep(w)
  <2>1. PICK w \in Workers : WorkerStep(w)
    BY <1>3
  <2>2. CASE Drain(w)
    BY <1>1, <2>2, EventRowAge DEF Drain
  <2>3. CASE Claim(w)
    <3>1. PICK f \in ClaimCandidates(job[w].t) :
            events' = [events EXCEPT ![f] = ClaimRow(@, job[w].t, epoch)]
      BY <2>3 DEF Claim
    <3>2. events'[e] = events[e] \/ events'[e] = ClaimRow(events[e], job[w].t, epoch)
      BY <3>1 DEF TypeOK
    <3> QED
      BY <1>1, <3>2, EventRowAge
  <2>4. CASE ~Drain(w) /\ ~Claim(w)
    <3>1. \/ events' = events
          \/ events' = [events EXCEPT ![job[w].ev] = RequeueRow(events[job[w].ev])]
          \/ events' = [events EXCEPT ![job[w].ev] = PrepareRow(events[job[w].ev])]
          \/ events' = [events EXCEPT ![job[w].ev] = ClearPayloadRow(events[job[w].ev])]
          \/ events' = [events EXCEPT ![job[w].ev] =
                                       RefreshRow(events[job[w].ev], job[w].agg)]
          \/ \E s : events' = [events EXCEPT ![job[w].ev] =
                                       StatusRow(events[job[w].ev], s, now)]
      BY <2>1, <2>4
      DEF WorkerStep, Exit, ClaimNothing, MarkDead, MarkSkipped, ClearSkipped, HaveVars,
          PrepareEvent, ListActionStates, LoopCancelled, SkipAction, ReadClock, SkipRetry,
          ExpireAction, StartAction, StartNoRow, StartInterrupted, Handle, LogAction,
          CompleteAction, SettleCancelled, DeadAction, ScheduleActionRetry, RefreshSelect,
          RefreshUpdate, StoreError, Requeue, Row, SetRow, tables
    <3>2. \/ events'[e] = events[e] \/ events'[e] = RequeueRow(events[e])
          \/ events'[e] = PrepareRow(events[e]) \/ events'[e] = ClearPayloadRow(events[e])
          \/ events'[e] = RefreshRow(events[e], job[w].agg)
          \/ \E s : events'[e] = StatusRow(events[e], s, now)
      BY <3>1 DEF TypeOK
    <3> QED
      BY <1>1, <3>2, EventRowAge
  <2> QED
    BY <2>2, <2>3, <2>4
<1>4. CASE \E w \in Workers : RenewLease(w)
  <2>1. events'[e] = events[e] \/ events'[e] = RenewRow(events[e], now)
    BY <1>4 DEF RenewLease, SetRow, Row, TypeOK
  <2> QED
    BY <1>1, <2>1, EventRowAge
<1>5. CASE \E f \in Events : SavePendingEvent(f)
  BY <1>5 DEF SavePendingEvent, TypeOK
<1>6. CASE \E f \in Events : ReplayDeadEvent(f)
  BY <1>1, <1>2, <1>6 DEF ReplayDeadEvent, TypeOK
<1>7. CASE PurgeOlderThan
  BY <1>1, <1>2, <1>7 DEF PurgeOlderThan, TypeOK
<1>8. CASE Restart
  BY <1>1, <1>8, EventRowAge DEF Restart
<1>9. CASE Shutdown \/ CancelWorkers \/ ProcessExit \/ Crash \/ Tick \/ UNCHANGED vars
  BY <1>9 DEF Shutdown, CancelWorkers, ProcessExit, Crash, Tick, vars, tables
<1> QED
  BY <1>3, <1>4, <1>5, <1>6, <1>7, <1>8, <1>9 DEF Next

\* The clock moves by Tick alone.
LEMMA NowGrows ==
    ASSUME [Next]_vars
    PROVE  now' \in {now, now + 1}
  BY DEF Next, vars, system, WorkerStep, RenewLease, SavePendingEvent, ReplayDeadEvent,
         PurgeOlderThan, Shutdown, CancelWorkers, ProcessExit, Crash, Restart, Tick,
         Exit, Drain, Claim, ClaimNothing, MarkDead, MarkSkipped, ClearSkipped, HaveVars,
         PrepareEvent, ListActionStates, LoopCancelled, SkipAction, ReadClock, SkipRetry,
         ExpireAction, StartAction, StartNoRow, StartInterrupted, Handle, LogAction,
         CompleteAction, SettleCancelled, DeadAction, ScheduleActionRetry, RefreshSelect,
         RefreshUpdate, StoreError, Requeue

\* How a worker gets to the clock reading and to the handler.
LEMMA ToHandler ==
    ASSUME TypeOK, [Next]_vars, NEW w \in Workers, pc'[w] \in {"start", "handle"}
    PROVE  \/ pc'[w] = pc[w] /\ job'[w] = job[w]
           \/ ReadClock(w) /\ pc'[w] = "start"
           \/ StartAction(w) /\ pc'[w] = "handle"
<1>1. CASE WorkerStep(w)
  <2>1. ReadClock(w) \/ StartAction(w)
    BY <1>1
    DEF WorkerStep, Exit, Drain, Claim, ClaimNothing, MarkDead, MarkSkipped, ClearSkipped,
        HaveVars, PrepareEvent, ListActionStates, LoopCancelled, SkipAction, SkipRetry,
        ExpireAction, StartNoRow, StartInterrupted, Handle, LogAction, CompleteAction,
        SettleCancelled, DeadAction, ScheduleActionRetry, RefreshSelect, RefreshUpdate,
        StoreError, Requeue, Goto, Return, GotoRequeue, NextAction, TypeOK
  <2> QED
    BY <2>1 DEF ReadClock, StartAction, Goto, TypeOK
<1>2. CASE ~WorkerStep(w)
  BY <1>2, Flow
<1> QED
  BY <1>1, <1>2

\* OneCallPastAge is not inductive: the call that goes on past the age must be
\* known to be the first.  A worker that is about to start an action, or whose
\* handler runs, read the clock before the age was over, and a call that ended
\* past the age leaves the clock past it for the next reading.
LateInv ==
    /\ late \in [Events -> {0, 1}]
    /\ \A e \in Events : late[e] = 1 => PastAge(e) /\ events[e].status # "absent"
    /\ \A w \in Workers : pc[w] = "handle" => late[job[w].ev] = 0
    /\ \A w \in Workers : pc[w] = "start" /\ ~MustExpire(w) => late[job[w].ev] = 0

\* LateInv is inductive on top of the invariants of the worker's lease.
LEMMA LateInvStep ==
    ASSUME TypeOK, TypeOK', HistoryInv, LeaseInv, WorkInv, LateInv, [Next]_vars, Record
    PROVE  LateInv'
<1> DEFINE Restarts(e) == events'[e].gen # events[e].gen \/ events'[e].status = "purged"
<1>1. \A e \in Events :
         late'[e] = IF Restarts(e) THEN 0
                    ELSE IF PastAge(e) THEN late[e] + Cardinality(CallsEnded(e))
                    ELSE late[e]
  BY DEF Record
<1>2. ASSUME NEW w \in Workers, NEW e \in Events, pc[w] \in {"start", "handle"},
             job[w].ev = e, w \notin CallsEnded(e)
      PROVE  CallsEnded(e) = {}
  BY <1>2 DEF CallsEnded, LeaseInv, OneWorkerPerEvent, Processing
<1>3. Cardinality({}) = 0 /\ \A w \in Workers : Cardinality({w}) = 1
  BY FS_EmptySet, FS_Singleton
<1>4. ASSUME NEW e \in Events
      PROVE  \/ CallsEnded(e) = {} /\ Cardinality(CallsEnded(e)) = 0
             \/ Cardinality(CallsEnded(e)) = 1 /\ late[e] = 0 /\ events[e].status # "absent"
  <2>1. CASE CallsEnded(e) = {}
    BY <1>3, <2>1
  <2>2. CASE CallsEnded(e) # {}
    <3>1. PICK w \in Workers : w \in CallsEnded(e)
      BY <2>2 DEF CallsEnded
    <3>2. pc[w] = "handle" /\ job[w].ev = e
      BY <3>1 DEF CallsEnded
    <3>3. CallsEnded(e) = {w}
      BY <3>1 DEF CallsEnded, LeaseInv, OneWorkerPerEvent, Processing
    <3>4. events[e].status = "processing"
      BY <3>2 DEF LeaseInv, Held, Processing
    <3> QED
      BY <1>3, <3>2, <3>3, <3>4 DEF LateInv
  <2> QED
    BY <2>1, <2>2
<1>5. late' \in [Events -> {0, 1}]
  <2>1. \A e \in Events : late'[e] \in {0, 1}
    BY <1>1, <1>4 DEF LateInv
  <2> QED
    BY <2>1 DEF Record
<1>6. ASSUME NEW e \in Events, late'[e] = 1
      PROVE  PastAge(e)' /\ events'[e].status # "absent"
  <2>1. ~Restarts(e) /\ PastAge(e) /\ events[e].status # "absent"
    BY <1>1, <1>4, <1>6 DEF LateInv
  <2>2. RetryStartedAt(events'[e]) = RetryStartedAt(events[e])
    BY <2>1, RetryAgeKept
  <2>3. now' >= now /\ RetryStartedAt(events[e]) \in Nat
    <3>1. now' \in {now, now + 1} /\ now \in Nat
      BY NowGrows DEF TypeOK
    <3>2. events[e] \in EventRow
      BY DEF TypeOK
    <3> QED
      BY <3>1, <3>2, EventRowTypes
  <2>4. events'[e].status # "absent"
    BY <2>1, NextAges DEF Ages
  <2> QED
    BY <2>1, <2>2, <2>3, <2>4, OutboxAssumption DEF PastAge, TypeOK, OutboxAssumption
<1>7. ASSUME NEW w \in Workers, pc[w] \in {"start", "handle"}, late[job[w].ev] = 0,
             job'[w] = job[w], w \notin CallsEnded(job[w].ev)
      PROVE  late'[job'[w].ev] = 0
  <2>1. job[w].ev \in Events
    BY <1>7 DEF TypeOK, Processing
  <2>2. CallsEnded(job[w].ev) = {}
    BY <1>2, <1>7, <2>1
  <2>3. Cardinality(CallsEnded(job[w].ev)) = 0
    BY <1>3, <2>2
  <2> QED
    BY <1>1, <1>7, <2>1, <2>3
<1>8. ASSUME NEW w \in Workers, pc'[w] = "handle"
      PROVE  late'[job'[w].ev] = 0
  <2>1. CASE pc'[w] = pc[w] /\ job'[w] = job[w]
    BY <1>7, <1>8, <2>1 DEF LateInv, CallsEnded
  <2>2. CASE StartAction(w)
    <3>1. pc[w] = "start" /\ ~MustExpire(w) /\ job'[w].ev = job[w].ev /\ job[w].ev \in Events
      BY <2>2 DEF StartAction, Dispatches, At, TypeOK, Job, Processing
    <3>2. late[job[w].ev] = 0 /\ CallsEnded(job[w].ev) = {}
      BY <1>2, <3>1 DEF LateInv, CallsEnded
    <3> QED
      BY <1>1, <1>3, <3>1, <3>2
  <2> QED
    BY <1>8, <2>1, <2>2, ToHandler
<1>9. ASSUME NEW w \in Workers, pc'[w] = "start", ~MustExpire(w)'
      PROVE  late'[job'[w].ev] = 0
  <2>1. CASE pc'[w] = pc[w] /\ job'[w] = job[w]
    <3>1. ~MustExpire(w) /\ pc[w] = "start"
      BY <1>9, <2>1 DEF MustExpire, Snap, PastRetryAge
    <3> QED
      BY <1>7, <2>1, <3>1 DEF LateInv, CallsEnded
  <2>2. CASE ReadClock(w)
    <3> DEFINE e == job[w].ev
    <3>1. /\ pc[w] = "loop" /\ events' = events /\ job'[w] = [job[w] EXCEPT !.t = now]
          /\ pc[w] \in Held
      BY <2>2 DEF ReadClock, InLoop, At, tables, TypeOK, Held, Processing
    <3>2. /\ e \in Events /\ job[w] \in Job /\ job[w].retryStartedAt = RetryStartedAt(events[e])
          /\ \A i \in Actions : job[w].snap[i].status \in {"pending", "retrying", "done", "dead"}
      BY <3>1, HeldFacts DEF HoldOK
    <3>3. job[w].idx \in Actions
      BY <2>2, <3>2, StoreAssumption
      DEF ReadClock, InLoop, Job, Actions, StoreAssumption
    <3>4. Snap(w).status \in {"pending", "retrying"}
      BY <2>2, <3>2, <3>3 DEF ReadClock, Snap
    <3>5. /\ job'[w].t = now /\ job'[w].ev = e /\ job'[w].snap[job'[w].idx] = Snap(w)
          /\ job'[w].retryStartedAt = job[w].retryStartedAt
      BY <3>1, <3>2 DEF Job, Snap
    <3>6. ~PastAge(e)
      BY <1>9, <3>2, <3>4, <3>5 DEF MustExpire, Snap, PastRetryAge, PastAge
    <3>7. late[e] = 0
      BY <3>2, <3>6 DEF LateInv
    <3> QED
      BY <1>1, <3>2, <3>5, <3>6, <3>7
  <2> QED
    BY <1>9, <2>1, <2>2, ToHandler
<1> QED
  BY <1>5, <1>6, <1>8, <1>9 DEF LateInv

\* A behaviour of the outbox with its history is a behaviour of the outbox.
LEMMA HistoryIsHistory == HSpec => Spec
<1>1. HInit => Init
  BY DEF HInit
<1>2. [HNext]_hvars => [Next]_vars
  BY DEF HNext, hvars
<1> QED
  BY <1>1, <1>2, PTL DEF HSpec, Spec

\* Of all the calls made for an event, over all its actions, workers, requeues
\* and restarts, one at most is still running when max_retry_age is over,
\* although the clock is read well before StartAction has the connection.
THEOREM AtMostOneLateCall ==
    ASSUME TimelyRenewal
    PROVE  HSpec => []OneCallPastAge
<1>1. HInit => LateInv
  BY DEF HInit, Init, LateInv
<1>2. TypeOK /\ TypeOK' /\ HistoryInv /\ LeaseInv /\ WorkInv /\ LateInv /\ [HNext]_hvars
        => LateInv'
  <2>1. ASSUME TypeOK, TypeOK', HistoryInv, LeaseInv, WorkInv, LateInv, HNext
        PROVE  LateInv'
    BY <2>1, LateInvStep DEF HNext
  <2>2. ASSUME LateInv, UNCHANGED hvars PROVE LateInv'
    BY <2>2 DEF LateInv, hvars, vars, PastAge, MustExpire, Snap, PastRetryAge
  <2> QED
    BY <2>1, <2>2
<1>3. LateInv => OneCallPastAge
  BY DEF LateInv, OneCallPastAge
<1> QED
  BY <1>1, <1>2, <1>3, HistoryIsHistory, HistoryHolds, LeaseWorks, PTL DEF HSpec

-----------------------------------------------------------------------------
(* The history: how often an action is started                             *)

\* The calls between StartAction and the outcome, and the one before them.
Dispatched == {"handle", "log", "settle"}
Starting == Dispatched \cup {"start"}

\* A worker is at one of the calls L with action i of event e.
Busy(e, i, L) == \E w \in Workers : pc[w] \in L /\ job[w].ev = e /\ job[w].idx = i

\* The row is running and nobody will store its outcome.
Orphan(e, i) == acts[e][i].status = "running" /\ ~Busy(e, i, Dispatched)

\* Attempts of the action that will be taken back, or may be because the
\* worker was cancelled in the middle of one.
Owed(e, i) ==
    (IF Orphan(e, i) THEN 1 ELSE 0)
    + (IF Cancelled /\ Busy(e, i, Starting) THEN 1 ELSE 0)

\* Every start is counted in attempt_count or was taken back for a failed store
\* call or for the end of a process; what is owed is already paid for.
StartsOK(e, i) ==
    /\ starts[e][i] \in Nat
    /\ acts[e][i].status = "none" => starts[e][i] = 0
    /\ starts[e][i] + Owed(e, i) <= acts[e][i].attempts + faults + Interruptions

\* StartsAreBounded does not follow from AttemptBound, as an interrupted
\* attempt is taken off attempt_count.  The invariant keeps the difference.
StartsInv ==
    /\ epoch >= 1
    /\ starts \in [Events -> [Actions -> Nat]]
    /\ ~Alive => \A w \in Workers : pc[w] \in {"exited", "off"}
    /\ \A e \in Events, i \in Actions : StartsOK(e, i)

\* The step owes no more for the action, c attempts taken back included, than
\* it was charged with.
Pays(e, i, c) ==
    Owed(e, i)' + c + faults + Interruptions <= Owed(e, i) + faults' + Interruptions'

\* What is owed and the interruptions are numbers.
LEMMA OwedType ==
    ASSUME TypeOK, epoch >= 1, NEW e \in Events, NEW i \in Actions
    PROVE  Owed(e, i) \in Nat /\ Interruptions \in Nat
<1>1. epoch \in Nat
  BY Zenon DEF TypeOK
<1>2. epoch - 1 \in Nat /\ epoch \in Nat
  BY <1>1
<1>3. Interruptions \in Nat
  BY <1>2 DEF Interruptions
<1>4. \A p, q \in {0, 1} : p + q \in Nat
  OBVIOUS
<1> QED
  BY <1>3, <1>4 DEF Owed

\* The same in the next state.
LEMMA OwedTypeNext ==
    ASSUME TypeOK', epoch' >= 1, NEW e \in Events, NEW i \in Actions
    PROVE  Owed(e, i)' \in Nat /\ Interruptions' \in Nat
<1>1. epoch' \in Nat
  BY Zenon DEF TypeOK
<1>2. \A n \in Nat : n >= 1 => n - 1 \in Nat
  OBVIOUS
<1>3. epoch' - 1 \in Nat /\ epoch' \in Nat
  BY <1>1, <1>2, Zenon
<1>4. Interruptions' \in Nat
  BY <1>3 DEF Interruptions
<1>5. \A p, q \in {0, 1} : p + q \in Nat
  OBVIOUS
<1> QED
  BY <1>4, <1>5 DEF Owed

\* Ways in which a step may change one action row and its account.
LEMMA Accounting ==
    ASSUME TypeOK, TypeOK', StartsInv, Record, epoch' >= 1,
           NEW e \in Events, NEW i \in Actions,
           \/ acts'[e][i] = acts[e][i] /\ Pays(e, i, 0)
           \/ /\ acts[e][i].status # "running" /\ acts'[e][i].status = "running"
              /\ acts'[e][i].attempts = acts[e][i].attempts + 1
              /\ acts[e][i].status # "none" /\ Pays(e, i, 0)
           \/ /\ acts[e][i].status = "running" /\ acts'[e][i].status = "pending"
              /\ acts'[e][i].attempts + 1 >= acts[e][i].attempts /\ Pays(e, i, 1)
           \/ /\ acts[e][i].status \in {"running", "pending", "retrying"}
              /\ acts'[e][i].status \in Settled
              /\ acts'[e][i].attempts = acts[e][i].attempts /\ Pays(e, i, 0)
           \/ /\ acts[e][i].status \in {"none", "done", "dead"}
              /\ acts'[e][i].status \in {"none", "pending"} /\ Owed(e, i)' = 0
    PROVE  StartsOK(e, i)'
<1> DEFINE a == acts[e][i]
           b == acts'[e][i]
<1>1. /\ a \in ActionRow /\ b \in ActionRow /\ faults \in Nat /\ faults' \in Nat
      /\ epoch \in Nat /\ epoch' \in Nat
  BY DEF TypeOK
<1>2. a.attempts \in Nat /\ b.attempts \in Nat
  BY <1>1 DEF ActionRow
<1>3. /\ starts[e][i] \in Nat /\ (a.status = "none" => starts[e][i] = 0)
      /\ starts[e][i] + Owed(e, i) <= a.attempts + faults + Interruptions
  BY DEF StartsInv, StartsOK
<1>4. starts'[e][i] = IF Starts(e, i) THEN starts[e][i] + 1
                      ELSE IF Reopened(e, i) THEN 0 ELSE starts[e][i]
  BY DEF Record
<1>5. /\ Owed(e, i) \in Nat /\ Owed(e, i)' \in Nat
      /\ Interruptions \in Nat /\ Interruptions' \in Nat
  <2>1. epoch >= 1
    BY DEF StartsInv
  <2> QED
    BY <2>1, OwedType, OwedTypeNext
<1> HIDE DEF a, b
<1>6. SUFFICES /\ starts'[e][i] \in Nat
               /\ b.status = "none" => starts'[e][i] = 0
               /\ starts'[e][i] + Owed(e, i)' <= b.attempts + faults' + Interruptions'
  BY DEF StartsOK, b
<1>7. CASE b = a /\ Pays(e, i, 0)
  <2>1. starts'[e][i] = starts[e][i]
    BY <1>4, <1>7 DEF Starts, Reopened, a, b
  <2> QED
    BY <1>1, <1>2, <1>3, <1>5, <1>7, <2>1 DEF Pays
<1>8. CASE /\ a.status # "running" /\ b.status = "running"
           /\ b.attempts = a.attempts + 1 /\ a.status # "none" /\ Pays(e, i, 0)
  <2>1. starts'[e][i] = starts[e][i] + 1
    BY <1>4, <1>8 DEF Starts, a, b
  <2> QED
    BY <1>1, <1>2, <1>3, <1>5, <1>8, <2>1 DEF Pays
<1>9. CASE /\ a.status = "running" /\ b.status = "pending"
           /\ b.attempts + 1 >= a.attempts /\ Pays(e, i, 1)
  <2>1. starts'[e][i] = starts[e][i]
    BY <1>4, <1>9 DEF Starts, Reopened, a, b
  <2> QED
    BY <1>1, <1>2, <1>3, <1>5, <1>9, <2>1 DEF Pays
<1>10. CASE /\ a.status \in {"running", "pending", "retrying"} /\ b.status \in Settled
            /\ b.attempts = a.attempts /\ Pays(e, i, 0)
  <2>1. starts'[e][i] = starts[e][i] /\ b.status # "none"
    BY <1>4, <1>10 DEF Starts, Reopened, Settled, a, b
  <2> QED
    BY <1>1, <1>2, <1>3, <1>5, <1>10, <2>1 DEF Pays
<1>11. CASE /\ a.status \in {"none", "done", "dead"} /\ b.status \in {"none", "pending"}
            /\ Owed(e, i)' = 0
  <2>1. starts'[e][i] = 0
    BY <1>3, <1>4, <1>11 DEF Starts, Reopened, a, b
  <2> QED
    BY <1>1, <1>2, <1>5, <1>11, <2>1
<1> QED
  BY <1>7, <1>8, <1>9, <1>10, <1>11 DEF a, b

\* What a step that leaves the process as it is owes.
LEMMA SameProcess ==
    ASSUME TypeOK, TypeOK', proc' = proc, epoch' = epoch, faults' >= faults,
           NEW e \in Events, NEW i \in Actions,
           \/ Owed(e, i)' <= Owed(e, i)
           \/ faults' = faults + 1 /\ Owed(e, i)' <= Owed(e, i) + 1
    PROVE  Pays(e, i, 0)
<1>1. /\ Owed(e, i) \in Int /\ Owed(e, i)' \in Int /\ faults \in Nat /\ faults' \in Nat
      /\ Interruptions \in Int /\ Interruptions' = Interruptions
  BY DEF TypeOK, Owed, Interruptions
<1> QED
  BY <1>1 DEF Pays

\* A worker's step leaves the process as it is, and needs a running worker.
LEMMA WorkerAndSystem ==
    ASSUME NEW w \in Workers, WorkerStep(w)
    PROVE  UNCHANGED system /\ pc[w] \notin {"exited", "off"}
  BY DEF system, WorkerStep, At, InLoop, Dispatches, NoRowMatches, CallsStore, Exit, Drain,
         Claim, ClaimNothing, MarkDead, MarkSkipped, ClearSkipped, HaveVars, PrepareEvent,
         ListActionStates, LoopCancelled, SkipAction, ReadClock, SkipRetry, ExpireAction,
         StartAction, StartNoRow, StartInterrupted, Handle, LogAction, CompleteAction,
         SettleCancelled, DeadAction, ScheduleActionRetry, RefreshSelect, RefreshUpdate,
         StoreError, Requeue

\* The interrupted attempt of a running row is taken back, other rows stay.
LEMMA ResetRow ==
    ASSUME NEW rows \in [Actions -> ActionRow], NEW i \in Actions
    PROVE  /\ rows[i].status # "running" => ResetRunning(rows)[i] = rows[i]
           /\ rows[i].status = "running" =>
                 /\ ResetRunning(rows)[i].status = "pending"
                 /\ ResetRunning(rows)[i].attempts + 1 >= rows[i].attempts
<1>1. rows[i].attempts \in Nat
  BY DEF ActionRow
<1> QED
  BY <1>1 DEF ResetRunning

\* A worker's step with its own event.
LEMMA OwnStarts ==
    ASSUME TypeOK, TypeOK', LeaseInv, WorkInv, StartsInv, Record, epoch' >= 1,
           NEW w \in Workers, WorkerStep(w), ~Drain(w), ~Claim(w),
           pc[w] \in Processing, NEW e \in Events, e = job[w].ev, NEW i \in Actions
    PROVE  StartsOK(e, i)'
<1> DEFINE k == job[w].idx
<1>1. /\ job[w] \in Job /\ acts[e] \in [Actions -> ActionRow]
      /\ acts \in [Events -> [Actions -> ActionRow]]
      /\ proc' = proc /\ epoch' = epoch /\ faults' \in Nat /\ faults \in Nat
      /\ faults' >= faults
  BY OwnActsStep, WorkerAndSystem DEF TypeOK, system
<1>2. /\ \A L \in SUBSET Held : Busy(e, i, L) <=> pc[w] \in L /\ k = i
      /\ \A L \in SUBSET Held : Busy(e, i, L)' <=> pc'[w] \in L /\ job'[w].idx = i
  <2>1. \A v \in Workers : v # w => /\ ~(pc[v] \in Held /\ job[v].ev = e)
                                    /\ pc'[v] = pc[v] /\ job'[v] = job[v]
    BY OwnEventStep DEF LeaseInv, OneWorkerPerEvent, Held
  <2>2. pc'[w] \in Held => job'[w].ev = e
    BY OwnEventStep DEF Held, Processing
  <2> QED
    BY <2>1, <2>2 DEF Busy
<1>3. Dispatched \in SUBSET Held /\ Starting \in SUBSET Held
  BY DEF Dispatched, Starting, Held, Processing
<1>4. /\ Busy(e, i, Dispatched) <=> pc[w] \in Dispatched /\ k = i
      /\ Busy(e, i, Starting) <=> pc[w] \in Starting /\ k = i
      /\ Busy(e, i, Dispatched)' <=> pc'[w] \in Dispatched /\ job'[w].idx = i
      /\ Busy(e, i, Starting)' <=> pc'[w] \in Starting /\ job'[w].idx = i
  BY <1>2, <1>3
<1>5. Cancelled' <=> Cancelled
  BY <1>1 DEF Cancelled
<1>6. ASSUME acts'[e][i] = acts[e][i], pc[w] \notin Dispatched \/ k # i,
             pc'[w] \notin Dispatched \/ job'[w].idx # i,
             pc'[w] \in Starting => ~Cancelled
      PROVE  StartsOK(e, i)'
  <2>1. Owed(e, i)' <= Owed(e, i)
    BY <1>4, <1>5, <1>6 DEF Owed, Orphan
  <2> QED
    BY <1>1, <1>6, <2>1, SameProcess, Accounting
<1>7. ASSUME NEW a, SetAct(w, a)
      PROVE  /\ k \in Actions => acts'[e][k] = a
             /\ k # i => acts'[e][i] = acts[e][i]
  BY <1>1, <1>7 DEF SetAct
<1>8. CASE \/ MarkDead(w) \/ MarkSkipped(w) \/ ClearSkipped(w) \/ HaveVars(w)
           \/ ListActionStates(w) \/ LoopCancelled(w) \/ SkipAction(w) \/ ReadClock(w)
           \/ SkipRetry(w) \/ StartNoRow(w) \/ RefreshSelect(w) \/ RefreshUpdate(w)
  <2>1. /\ acts' = acts /\ pc[w] \notin Dispatched /\ pc'[w] \notin Dispatched
        /\ pc'[w] \in Starting => ~Cancelled
    BY <1>8
    DEF MarkDead, MarkSkipped, ClearSkipped, HaveVars, ListActionStates, LoopCancelled,
        SkipAction, ReadClock, SkipRetry, StartNoRow, Dispatches, RefreshSelect,
        RefreshUpdate, At, InLoop, Goto, Return, GotoRequeue, NextAction, tables, TypeOK,
        Dispatched, Starting
  <2> QED
    BY <1>6, <2>1
<1>9. CASE Handle(w) \/ LogAction(w)
  <2>1. /\ acts' = acts /\ pc[w] \in Dispatched /\ pc'[w] \in Dispatched
        /\ job'[w].idx = k
    BY <1>1, <1>9 DEF Handle, LogAction, At, Goto, tables, TypeOK, Dispatched, Job
  <2>2. Owed(e, i)' = Owed(e, i)
    BY <1>4, <1>5, <2>1 DEF Owed, Orphan, Starting
  <2>3. Owed(e, i)' <= Owed(e, i)
    BY <2>2 DEF Owed
  <2> QED
    BY <1>1, <2>1, <2>3, SameProcess, Accounting
<1>10. CASE SettleCancelled(w) \/ StoreError(w)
  <2>1. acts' = acts /\ pc'[w] = "requeue"
    BY <1>10 DEF SettleCancelled, StoreError, GotoRequeue, tables, TypeOK
  <2>2. CASE pc[w] \notin Dispatched \/ k # i
    BY <1>6, <2>1, <2>2 DEF Dispatched, Starting
  <2>3. CASE pc[w] \in Dispatched /\ k = i
    <3>1. Act(w).status = "running"
      BY <1>1, <2>3, HeldFacts DEF HoldOK, Act, Held, Processing, Dispatched
    <3>2. Cancelled \/ faults' = faults + 1
      BY <1>10, <2>3, <3>1
      DEF SettleCancelled, StoreError, NoRowMatches, CallsStore, Fault, Interrupted, At,
          Dispatched
    <3>3. Owed(e, i)' <= 1 /\ Owed(e, i) \in {0, 1} /\ (Cancelled => Owed(e, i) = 1)
      BY <1>4, <2>1, <2>3 DEF Owed, Orphan, Starting, Dispatched
    <3>4. \/ Owed(e, i)' <= Owed(e, i)
          \/ faults' = faults + 1 /\ Owed(e, i)' <= Owed(e, i) + 1
      BY <3>2, <3>3 DEF Owed
    <3> QED
      BY <1>1, <2>1, <3>4, SameProcess, Accounting
  <2> QED
    BY <2>2, <2>3
<1>11. CASE StartAction(w) \/ StartInterrupted(w)
  <2>1. /\ pc[w] = "start" /\ k \in Actions /\ SetAct(w, StartRow(Act(w)))
        /\ acts[e][k].status \in {"pending", "retrying"} /\ Act(w) = acts[e][k]
    BY <1>11
    DEF StartAction, StartInterrupted, Dispatches, At, TypeOK, Startable, Act
  <2>2. /\ StartAction(w) => pc'[w] = "handle" /\ job'[w].idx = k /\ ~Cancelled
        /\ StartInterrupted(w) => pc'[w] = "requeue" /\ Cancelled
    BY <1>1 DEF StartAction, StartInterrupted, Goto, GotoRequeue, TypeOK, Job
  <2>3. CASE k # i
    BY <1>6, <1>7, <1>11, <2>1, <2>2, <2>3 DEF Dispatched, Starting
  <2>4. CASE k = i
    <3>1. /\ acts'[e][i].status = "running"
          /\ acts'[e][i].attempts = acts[e][i].attempts + 1
      BY <1>7, <2>1, <2>4 DEF StartRow
    <3>2. Owed(e, i)' <= Owed(e, i)
      BY <1>4, <1>5, <1>11, <2>1, <2>2, <2>4, <3>1 DEF Owed, Orphan, Dispatched, Starting
    <3> QED
      BY <1>1, <2>1, <2>4, <3>1, <3>2, SameProcess, Accounting
  <2> QED
    BY <2>3, <2>4
<1>12. CASE ExpireAction(w) \/ CompleteAction(w) \/ DeadAction(w) \/ ScheduleActionRetry(w)
  <2>1. /\ pc[w] \in {"start", "settle"} /\ k \in Actions /\ pc'[w] = "loop"
        /\ acts[e][k].status \in {"running", "pending", "retrying"}
        /\ Act(w) = acts[e][k]
    BY <1>12
    DEF ExpireAction, CompleteAction, DeadAction, ScheduleActionRetry, NextAction, At,
        TypeOK, Expirable, Act
  <2>2. PICK s, d : s \in Settled /\ SetAct(w, SettleRow(Act(w), s, d))
    BY <1>12 DEF ExpireAction, CompleteAction, DeadAction, ScheduleActionRetry, Settled
  <2>3. CASE k # i
    BY <1>6, <1>7, <2>1, <2>2, <2>3 DEF Dispatched, Starting
  <2>4. CASE k = i
    <3>1. acts[e][k] \in ActionRow
      BY <1>1, <2>1
    <3>2. acts'[e][i].status = s /\ acts'[e][i].attempts = acts[e][i].attempts
      <4> DEFINE a == SettleRow(acts[e][k], s, d)
      <4>1. acts'[e][k] = a
        BY <1>7, <2>1, <2>2
      <4>2. a.status = s /\ a.attempts = acts[e][k].attempts
        BY <3>1 DEF SettleRow, ActionRow
      <4> QED
        BY <2>4, <4>1, <4>2
    <3>3. Owed(e, i)' = 0 /\ Owed(e, i) >= 0
      BY <1>4, <2>1, <2>2, <3>2 DEF Owed, Orphan, Settled, Dispatched, Starting
    <3>4. Owed(e, i)' <= Owed(e, i)
      BY <3>3
    <3> QED
      BY <1>1, <2>1, <2>2, <2>4, <3>2, <3>4, SameProcess, Accounting
  <2> QED
    BY <2>3, <2>4
<1>13. CASE Requeue(w)
  <2>1. /\ pc[w] = "requeue" /\ pc'[w] = "idle"
        /\ acts'[e] = acts[e] \/ acts'[e] = ResetRunning(acts[e])
    BY <1>1, <1>13 DEF Requeue, Return, At, TypeOK
  <2>2. ~Busy(e, i, Dispatched) /\ ~Busy(e, i, Starting) /\ ~Busy(e, i, Starting)'
    BY <1>4, <2>1 DEF Dispatched, Starting
  <2>3. CASE acts'[e][i] = acts[e][i]
    BY <1>6, <2>1, <2>3 DEF Dispatched, Starting
  <2>4. CASE acts'[e][i] # acts[e][i]
    <3>1. /\ acts[e][i].status = "running" /\ acts'[e][i].status = "pending"
          /\ acts'[e][i].attempts + 1 >= acts[e][i].attempts
      BY <1>1, <2>1, <2>4, ResetRow
    <3>2. Owed(e, i) = 1 /\ Owed(e, i)' = 0
      BY <2>2, <3>1 DEF Owed, Orphan
    <3>3. Pays(e, i, 1)
      <4>1. Interruptions' = Interruptions /\ Interruptions \in Int
        BY <1>1 DEF Interruptions, TypeOK
      <4> QED
        BY <1>1, <3>2, <4>1 DEF Pays
    <3> QED
      BY <1>1, <3>1, <3>3, Accounting
  <2> QED
    BY <2>3, <2>4
<1>14. CASE PrepareEvent(w)
  <2>1. /\ pc[w] = "prepare" /\ pc'[w] = "list"
        /\ acts'[e] = PrepareActions(acts[e], now)
    BY <1>1, <1>14 DEF PrepareEvent, Goto, At, TypeOK, Rows
  <2>2. CASE acts'[e][i] = acts[e][i]
    BY <1>6, <2>1, <2>2 DEF Dispatched, Starting
  <2>3. CASE acts'[e][i] # acts[e][i]
    <3>1. acts[e][i].status = "none" /\ acts'[e][i].status = "pending"
      BY <1>1, <2>1, <2>3 DEF PrepareActions
    <3>2. Owed(e, i)' = 0
      BY <1>4, <2>1, <3>1 DEF Owed, Orphan, Starting, Dispatched
    <3> QED
      BY <1>1, <3>1, <3>2, Accounting
  <2> QED
    BY <2>2, <2>3
<1> QED
  BY <1>8, <1>9, <1>10, <1>11, <1>12, <1>13, <1>14
  DEF WorkerStep, Exit, ClaimNothing, At, Processing

\* No worker starts or carries out an action of the event.
Unheld(e) == \A w \in Workers : ~(pc[w] \in Starting /\ job[w].ev = e)

\* A step that leaves the rows of an event and the workers that start or carry
\* out its actions as they are.
LEMMA UnaffectedStarts ==
    ASSUME TypeOK, TypeOK', StartsInv, Record, epoch' >= 1, NEW e \in Events,
           NEW i \in Actions, acts'[e] = acts[e], faults' >= faults,
           Interruptions' >= Interruptions, Cancelled' => Cancelled,
           \A v \in Workers :
              \/ pc'[v] = pc[v] /\ job'[v] = job[v]
              \/ /\ ~(pc[v] \in Starting /\ job[v].ev = e)
                 /\ ~(pc'[v] \in Starting /\ job'[v].ev = e)
    PROVE  StartsOK(e, i)'
<1>1. /\ Busy(e, i, Dispatched)' <=> Busy(e, i, Dispatched)
      /\ Busy(e, i, Starting)' <=> Busy(e, i, Starting)
  BY DEF Busy, Starting
<1>2. Owed(e, i)' <= Owed(e, i)
  BY <1>1 DEF Owed, Orphan
<1>3. /\ Owed(e, i) \in Nat /\ Owed(e, i)' \in Nat /\ Interruptions \in Nat
      /\ Interruptions' \in Nat /\ faults \in Nat /\ faults' \in Nat
  BY OwedType, OwedTypeNext DEF TypeOK, StartsInv
<1>4. Pays(e, i, 0)
  BY <1>2, <1>3 DEF Pays
<1> QED
  BY <1>4, Accounting

\* A step that resets, reopens or deletes a row of an event nobody holds.
LEMMA UnheldStarts ==
    ASSUME TypeOK, TypeOK', StartsInv, Record, epoch' >= 1, NEW e \in Events,
           NEW i \in Actions, Unheld(e), Unheld(e)', faults' >= faults,
           Interruptions' >= Interruptions,
           \/ acts'[e][i] = acts[e][i]
           \/ acts'[e][i] = ResetRunning(acts[e])[i]
           \/ /\ acts[e][i].status \in {"none", "done", "dead"}
              /\ acts'[e][i].status \in {"none", "pending"}
    PROVE  StartsOK(e, i)'
<1>1. /\ ~Busy(e, i, Dispatched) /\ ~Busy(e, i, Dispatched)'
      /\ ~Busy(e, i, Starting) /\ ~Busy(e, i, Starting)'
  BY DEF Busy, Unheld, Starting
<1>2. /\ Owed(e, i) = IF acts[e][i].status = "running" THEN 1 ELSE 0
      /\ Owed(e, i)' = IF acts'[e][i].status = "running" THEN 1 ELSE 0
  BY <1>1 DEF Owed, Orphan
<1>3. /\ Owed(e, i) \in Nat /\ Owed(e, i)' \in Nat /\ Interruptions \in Nat
      /\ Interruptions' \in Nat /\ faults \in Nat /\ faults' \in Nat
  BY OwedType, OwedTypeNext DEF TypeOK, StartsInv
<1>4. acts[e] \in [Actions -> ActionRow]
  BY DEF TypeOK
<1>5. CASE acts'[e][i] = acts[e][i]
  <2>1. Owed(e, i)' = Owed(e, i)
    BY <1>2, <1>5
  <2>2. Pays(e, i, 0)
    BY <1>3, <2>1 DEF Pays
  <2> QED
    BY <1>5, <2>2, Accounting
<1>6. CASE acts'[e][i] = ResetRunning(acts[e])[i] /\ acts'[e][i] # acts[e][i]
  <2>1. /\ acts[e][i].status = "running" /\ acts'[e][i].status = "pending"
        /\ acts'[e][i].attempts + 1 >= acts[e][i].attempts
    BY <1>4, <1>6, ResetRow
  <2>2. Owed(e, i) = 1 /\ Owed(e, i)' = 0
    BY <1>2, <2>1
  <2>3. \A f, g, p, q \in Nat : g >= f /\ q >= p => 0 + 1 + f + p <= 1 + g + q
    OBVIOUS
  <2>4. Pays(e, i, 1)
    BY <1>3, <2>2, <2>3 DEF Pays
  <2> QED
    BY <2>1, <2>4, Accounting
<1>7. CASE /\ acts[e][i].status \in {"none", "done", "dead"}
           /\ acts'[e][i].status \in {"none", "pending"}
  <2>1. Owed(e, i)' = 0
    BY <1>2, <1>7
  <2> QED
    BY <1>7, <2>1, Accounting
<1> QED
  BY <1>5, <1>6, <1>7

\* The end of a process pays for the attempts it cuts off.
LEMMA EndStarts ==
    ASSUME TypeOK, TypeOK', StartsInv, Record, CancelWorkers \/ Crash,
           NEW e \in Events, NEW i \in Actions
    PROVE  StartsOK(e, i)'
<1>1. acts' = acts /\ epoch' = epoch /\ faults' = faults /\ epoch >= 1
  BY DEF CancelWorkers, Crash, tables, StartsInv
<1>2. /\ Owed(e, i) \in Nat /\ Owed(e, i)' \in Nat /\ Interruptions \in Nat
      /\ Interruptions' \in Nat /\ faults \in Nat /\ epoch \in Nat
  BY <1>1, OwedType, OwedTypeNext DEF TypeOK
<1>3. CASE CancelWorkers
  <2>1. Interruptions' = Interruptions + 1
    BY <1>1, <1>2, <1>3 DEF CancelWorkers, Interruptions
  <2>2. /\ Busy(e, i, Dispatched)' <=> Busy(e, i, Dispatched)
        /\ Busy(e, i, Starting)' <=> Busy(e, i, Starting)
        /\ ~Cancelled
    BY <1>3 DEF CancelWorkers, Busy, Cancelled
  <2>3. Owed(e, i)' <= Owed(e, i) + 1
    BY <1>1, <2>2 DEF Owed, Orphan
  <2>4. Pays(e, i, 0)
    BY <1>1, <1>2, <2>1, <2>3 DEF Pays
  <2> QED
    BY <1>1, <2>4, Accounting
<1>4. CASE Crash
  <2>1. ~Busy(e, i, Dispatched)' /\ ~Busy(e, i, Starting)'
    BY <1>4 DEF Crash, Busy, Dispatched, Starting
  <2>2. Owed(e, i)' = IF acts[e][i].status = "running" THEN 1 ELSE 0
    BY <1>1, <2>1 DEF Owed, Orphan
  <2>3. CASE proc \in {"up", "stopping"}
    <3>1. Interruptions' = Interruptions + 1
      BY <1>1, <1>2, <1>4, <2>3 DEF Crash, Interruptions
    <3>2. Pays(e, i, 0)
      BY <1>1, <1>2, <2>2, <3>1 DEF Pays
    <3> QED
      BY <1>1, <3>2, Accounting
  <2>4. CASE proc = "cancelled"
    <3>1. Interruptions' = Interruptions
      BY <1>1, <1>4, <2>4 DEF Crash, Interruptions
    <3>2. Busy(e, i, Dispatched) => Busy(e, i, Starting)
      BY DEF Busy, Starting
    <3>3. acts[e][i].status = "running" => Owed(e, i) >= 1
      BY <2>4, <3>2 DEF Owed, Orphan, Cancelled
    <3>4. Pays(e, i, 0)
      BY <1>1, <1>2, <2>2, <3>1, <3>3 DEF Pays
    <3> QED
      BY <1>1, <3>4, Accounting
  <2> QED
    BY <1>4, <2>3, <2>4 DEF Crash, Alive
<1> QED
  BY <1>3, <1>4

\* A worker's step.
LEMMA WorkerStarts ==
    ASSUME TypeOK, TypeOK', LeaseInv, WorkInv, StartsInv, Record,
           NEW w \in Workers, WorkerStep(w), NEW e \in Events, NEW i \in Actions
    PROVE  StartsOK(e, i)'
<1>1. proc' = proc /\ epoch' = epoch /\ now' = now /\ epoch >= 1 /\ pc[w] \notin {"exited", "off"}
  BY WorkerAndSystem DEF system, StartsInv
<1>2. /\ Interruptions' = Interruptions /\ (Cancelled' => Cancelled)
      /\ Interruptions \in Nat /\ Interruptions' >= Interruptions
  <2>1. Interruptions' = Interruptions /\ Interruptions \in Nat
    BY <1>1, OwedType DEF Interruptions
  <2> QED
    BY <1>1, <2>1 DEF Cancelled
<1>3. ASSUME NEW t \in Nat, t <= now, LeaseExpired(events[e], t)
      PROVE  Unheld(e)
  <2>1. events[e] \in EventRow /\ now \in Nat
    BY DEF TypeOK
  <2>2. Coalesce(events[e].lease, 0) < t /\ Coalesce(events[e].lease, 0) \in Nat
    BY <1>3, <2>1 DEF LeaseExpired, EventRow, OptTime, Coalesce, Null
  <2>3. ~(Coalesce(events[e].lease, 0) >= now)
    BY <1>3, <2>1, <2>2
  <2> QED
    BY <2>3 DEF LeaseInv, Unheld, Starting, Dispatched, Held, Processing
<1>4. CASE Drain(w)
  <2>1. /\ faults' = faults /\ faults \in Nat /\ now \in Nat
        /\ \A v \in Workers : v # w => pc'[v] = pc[v] /\ job'[v] = job[v]
        /\ pc[w] \notin Starting /\ pc'[w] \notin Starting
    BY <1>4 DEF Drain, At, Goto, TypeOK, Starting, Dispatched
  <2>2. CASE LeaseExpired(events[e], now)
    <3>1. Unheld(e)
      BY <1>3, <2>1, <2>2
    <3>2. Unheld(e)'
      BY <2>1, <3>1 DEF Unheld
    <3>3. acts'[e] = ResetRunning(acts[e])
      BY <1>4, <2>2 DEF Drain
    <3> QED
      BY <1>1, <1>2, <2>1, <3>1, <3>2, <3>3, UnheldStarts
  <2>3. CASE ~LeaseExpired(events[e], now)
    <3>1. acts'[e] = acts[e]
      BY <1>4, <2>3 DEF Drain
    <3> QED
      BY <1>1, <1>2, <2>1, <3>1, UnaffectedStarts
  <2> QED
    BY <2>2, <2>3
<1>5. CASE Claim(w)
  <2>1. PICK f \in ClaimCandidates(job[w].t) :
           /\ acts' = [acts EXCEPT ![f] = ResetRunning(@)]
           /\ job' = [job EXCEPT ![w] = PendingEvent(f)]
    BY <1>5 DEF Claim
  <2>2. f \in Events /\ Claimable(events[f], job[w].t)
    BY DEF ClaimCandidates
  <2>3. /\ faults' = faults /\ faults \in Nat /\ pc[w] = "claim" /\ pc'[w] = "vars"
        /\ \A v \in Workers : v # w => pc'[v] = pc[v] /\ job'[v] = job[v]
    BY <1>5, <2>1 DEF Claim, At, Goto, TypeOK
  <2>4. pc[w] \notin Starting /\ pc'[w] \notin Starting
    BY <2>3 DEF Starting, Dispatched
  <2>5. CASE e # f
    <3>1. acts'[e] = acts[e]
      BY <2>1, <2>2, <2>5 DEF TypeOK
    <3> QED
      BY <1>1, <1>2, <2>3, <2>4, <3>1, UnaffectedStarts
  <2>6. CASE e = f
    <3>1. Unheld(e)
      <4>1. CASE events[e].status \in {"pending", "retrying"}
        BY <4>1 DEF LeaseInv, Unheld, Starting, Dispatched, Held, Processing
      <4>2. CASE LeaseExpired(events[e], job[w].t)
        <5>1. job[w].t \in Nat /\ job[w].t <= now
          BY <2>3 DEF LeaseInv, TypeOK, Job
        <5> QED
          BY <1>3, <4>2, <5>1
      <4> QED
        BY <2>2, <2>6, <4>1, <4>2 DEF Claimable
    <3>2. Unheld(e)'
      BY <2>3, <2>4, <3>1 DEF Unheld
    <3>3. acts'[e] = ResetRunning(acts[e])
      BY <2>1, <2>2, <2>6 DEF TypeOK
    <3> QED
      BY <1>1, <1>2, <2>3, <3>1, <3>2, <3>3, UnheldStarts
  <2> QED
    BY <2>5, <2>6
<1>6. CASE ~Drain(w) /\ ~Claim(w)
  <2>1. CASE pc[w] \in Processing /\ e = job[w].ev
    BY <1>1, <1>6, <2>1, OwnStarts
  <2>2. CASE pc[w] \in Processing /\ e # job[w].ev
    <3>1. acts'[e] = acts[e] /\ faults' >= faults
      BY <1>6, <2>2, OwnActsStep
    <3>2. /\ \A v \in Workers : v # w => pc'[v] = pc[v] /\ job'[v] = job[v]
          /\ pc'[w] \in Starting => job'[w].ev # e
      BY <1>6, <2>2, OwnEventStep DEF Starting, Dispatched
    <3> QED
      BY <1>1, <1>2, <2>2, <3>1, <3>2, UnaffectedStarts
  <2>3. CASE pc[w] \notin Processing
    <3>1. acts'[e] = acts[e] /\ faults' >= faults
      BY <1>6, <2>3, OwnActsStep
    <3>2. /\ \A v \in Workers : v # w => pc'[v] = pc[v] /\ job'[v] = job[v]
          /\ pc[w] \notin Starting /\ pc'[w] \notin Starting
      BY <1>6, <2>3, OwnEventStep DEF Starting, Dispatched, Held, Processing
    <3> QED
      BY <1>1, <1>2, <3>1, <3>2, UnaffectedStarts
  <2> QED
    BY <2>1, <2>2, <2>3
<1> QED
  BY <1>4, <1>5, <1>6

\* The steps of the rest of the program.
LEMMA SystemStarts ==
    ASSUME TypeOK, TypeOK', LeaseInv, WorkInv, StartsInv, Record,
           \/ \E w \in Workers : RenewLease(w)
           \/ \E e \in Events : SavePendingEvent(e) \/ ReplayDeadEvent(e)
           \/ PurgeOlderThan \/ Shutdown \/ ProcessExit \/ Restart \/ Tick,
           NEW e \in Events, NEW i \in Actions
    PROVE  StartsOK(e, i)'
<1>1. epoch >= 1 /\ epoch \in Nat /\ faults \in Nat
  BY DEF StartsInv, TypeOK
<1>2. Interruptions \in Nat
  BY <1>1, OwedType
<1>3. CASE \/ \E w \in Workers : RenewLease(w)
           \/ \E f \in Events : SavePendingEvent(f)
           \/ Shutdown \/ ProcessExit \/ Tick
  <2>1. acts' = acts /\ pc' = pc /\ job' = job /\ epoch' = epoch /\ faults' = faults
    BY <1>3 DEF RenewLease, SavePendingEvent, Shutdown, ProcessExit, Tick, tables, system
  <2>2. Cancelled' => Cancelled
    BY <1>3 DEF RenewLease, SavePendingEvent, Shutdown, ProcessExit, Tick, system, Cancelled
  <2>3. Interruptions' >= Interruptions
    BY <1>1, <1>2, <1>3, <2>1
    DEF RenewLease, SavePendingEvent, Shutdown, ProcessExit, Tick, system, Interruptions
  <2> QED
    BY <1>1, <2>1, <2>2, <2>3, UnaffectedStarts
<1>4. ASSUME events[e].status \in TerminalStatus
      PROVE  Unheld(e) /\ acts[e][i].status \in {"none", "done", "dead"}
  BY <1>4
  DEF TerminalStatus, LeaseInv, Unheld, Starting, Dispatched, Held, Processing, WorkInv,
      RowOK, AllIn
<1>5. CASE (\E f \in Events : ReplayDeadEvent(f)) \/ PurgeOlderThan
  <2>1. pc' = pc /\ job' = job /\ epoch' = epoch /\ faults' = faults /\ proc' = proc
    BY <1>5 DEF ReplayDeadEvent, PurgeOlderThan, system
  <2>2. Interruptions' = Interruptions /\ (Cancelled' => Cancelled)
    BY <2>1 DEF Interruptions, Cancelled
  <2>3. Interruptions' >= Interruptions
    BY <1>2, <2>2
  <2>4. \/ acts'[e] = acts[e]
        \/ /\ events[e].status \in TerminalStatus
           /\ \/ acts'[e][i] = acts[e][i]
              \/ acts'[e][i].status \in {"none", "pending"}
    <3>1. CASE PurgeOlderThan
      BY <3>1 DEF PurgeOlderThan, Purgeable, NoActionRows, NoActionRow
    <3>2. CASE \E f \in Events : ReplayDeadEvent(f)
      <4>1. PICK f \in Events : ReplayDeadEvent(f)
        BY <3>2
      <4>2. /\ e # f => acts'[e] = acts[e]
            /\ e = f => acts'[e] = ReplayActions(acts[e], now)
        BY <4>1 DEF ReplayDeadEvent, TypeOK
      <4>3. e = f => events[e].status \in TerminalStatus
        BY <4>1 DEF ReplayDeadEvent, Replayable, TerminalStatus
      <4> QED
        BY <4>2, <4>3 DEF ReplayActions
    <3> QED
      BY <1>5, <3>1, <3>2
  <2>5. CASE acts'[e] = acts[e]
    BY <1>1, <2>1, <2>2, <2>3, <2>5, UnaffectedStarts
  <2>6. CASE /\ events[e].status \in TerminalStatus
             /\ \/ acts'[e][i] = acts[e][i]
                \/ acts'[e][i].status \in {"none", "pending"}
    <3>1. Unheld(e) /\ acts[e][i].status \in {"none", "done", "dead"}
      BY <1>4, <2>6
    <3>2. Unheld(e)'
      BY <2>1, <3>1 DEF Unheld
    <3> QED
      BY <1>1, <2>1, <2>3, <2>6, <3>1, <3>2, UnheldStarts
  <2> QED
    BY <2>4, <2>5, <2>6
<1>6. CASE Restart
  <2>1. /\ faults' = faults /\ epoch' = epoch + 1
        /\ proc \in {"stopped", "crashed"} /\ proc' = "up"
    BY <1>6 DEF Restart
  <2>2. epoch' >= 1 /\ Interruptions' >= Interruptions /\ faults' >= faults
    <3>1. Interruptions = epoch /\ Interruptions' = epoch' - 1
      BY <2>1 DEF Interruptions
    <3>2. epoch' - 1 = epoch
      BY <1>1, <2>1
    <3> QED
      BY <1>1, <2>1, <3>1, <3>2
  <2>3. Unheld(e) /\ Unheld(e)'
    BY <1>6 DEF StartsInv, Alive, Restart, Unheld, Starting, Dispatched
  <2>4. acts'[e] \in {acts[e], ResetRunning(acts[e])}
    BY <1>6 DEF Restart
  <2> QED
    BY <2>2, <2>3, <2>4, UnheldStarts
<1> QED
  BY <1>3, <1>5, <1>6

\* StartsInv is inductive on top of the invariants of the worker's lease.
LEMMA StartsInvStep ==
    ASSUME TypeOK, TypeOK', LeaseInv, WorkInv, StartsInv, HNext
    PROVE  StartsInv'
<1>1. Next /\ Record
  BY DEF HNext
<1>2. \A e \in Events, i \in Actions : StartsOK(e, i)'
  BY <1>1, WorkerStarts, SystemStarts, EndStarts DEF Next
<1>3. epoch' >= 1 /\ (~Alive' => \A w \in Workers : pc'[w] \in {"exited", "off"})
  <2>1. epoch >= 1 /\ epoch \in Nat
    BY DEF StartsInv, TypeOK
  <2>2. CASE \E w \in Workers : WorkerStep(w)
    <3>1. PICK w \in Workers : WorkerStep(w)
      BY <2>2
    <3> QED
      BY <2>1, <3>1, WorkerAndSystem DEF system, StartsInv, Alive
  <2>3. CASE \/ \E w \in Workers : RenewLease(w)
             \/ \E e \in Events : SavePendingEvent(e) \/ ReplayDeadEvent(e)
             \/ PurgeOlderThan \/ Shutdown \/ CancelWorkers \/ ProcessExit \/ Crash \/ Tick
    BY <2>1, <2>3
    DEF RenewLease, SavePendingEvent, ReplayDeadEvent, PurgeOlderThan, Shutdown,
        CancelWorkers, ProcessExit, Crash, Tick, system, StartsInv, Alive
  <2>4. CASE Restart
    BY <2>1, <2>4 DEF Restart, Alive
  <2> QED
    BY <1>1, <2>2, <2>3, <2>4 DEF Next
<1>4. starts' \in [Events -> [Actions -> Nat]]
  <2>1. \A e \in Events, i \in Actions : starts'[e][i] \in Nat
    BY <1>2 DEF StartsOK
  <2> QED
    BY <1>1, <2>1 DEF Record
<1> QED
  BY <1>2, <1>3, <1>4 DEF StartsInv

\* Between two replays an action is started max_retries + 1 times and once more
\* for each store call that failed and each process that was cancelled or
\* killed, never more: taking an interrupted attempt off attempt_count (on a
\* requeue, an expired lease, a claim or a restart) gives back that one only.
THEOREM InterruptionsCostOneStart ==
    ASSUME TimelyRenewal
    PROVE  HSpec => []StartsAreBounded
<1>1. HInit => StartsInv
  <2>1. SUFFICES ASSUME HInit PROVE StartsInv
    OBVIOUS
  <2>2. /\ epoch = 1 /\ faults = 0 /\ proc = "up" /\ ~Cancelled
        /\ starts = [e \in Events |-> [i \in Actions |-> 0]]
        /\ \A e \in Events, i \in Actions : acts[e][i] = NoActionRow
    BY <2>1 DEF HInit, Init, NoActionRows, Cancelled
  <2>3. Interruptions = 0
    BY <2>2 DEF Interruptions
  <2>4. ASSUME NEW e \in Events, NEW i \in Actions PROVE StartsOK(e, i)
    <3>1. Owed(e, i) = 0
      BY <2>2 DEF Owed, Orphan, NoActionRow
    <3>2. starts[e][i] = 0 /\ acts[e][i].attempts = 0
      BY <2>2 DEF NoActionRow
    <3> QED
      BY <2>2, <2>3, <3>1, <3>2 DEF StartsOK
  <2> QED
    BY <2>2, <2>4 DEF StartsInv, Alive
<1>2. TypeOK /\ TypeOK' /\ LeaseInv /\ WorkInv /\ StartsInv /\ [HNext]_hvars => StartsInv'
  <2>1. ASSUME StartsInv, UNCHANGED hvars PROVE StartsInv'
    BY <2>1
    DEF StartsInv, StartsOK, Owed, Orphan, Busy, Cancelled, Interruptions, Alive, hvars, vars
  <2> QED
    BY <2>1, StartsInvStep
<1>3. TypeOK /\ WorkInv /\ StartsInv => StartsAreBounded
  <2>1. ASSUME TypeOK, WorkInv, StartsInv, NEW e \in Events, NEW i \in Actions
        PROVE  starts[e][i] <= MaxRetries + 1 + faults + Interruptions
    <3>1. /\ Owed(e, i) \in Nat /\ Interruptions \in Nat /\ faults \in Nat
          /\ starts[e][i] \in Nat /\ MaxRetries \in Nat
      BY <2>1, OwedType, OutboxAssumption DEF StartsInv, StartsOK, TypeOK, OutboxAssumption
    <3>2. acts[e][i].attempts <= MaxRetries + 1 /\ acts[e][i].attempts \in Nat
      BY <2>1 DEF WorkInv, RowOK, ActionOK, TypeOK, ActionRow
    <3>3. starts[e][i] + Owed(e, i) <= acts[e][i].attempts + faults + Interruptions
      BY <2>1 DEF StartsInv, StartsOK
    <3> QED
      BY <3>1, <3>2, <3>3
  <2> QED
    BY <2>1 DEF StartsAreBounded
<1> QED
  BY <1>1, <1>2, <1>3, HistoryIsHistory, TypeCorrect, LeaseWorks, PTL DEF HSpec

-----------------------------------------------------------------------------
(* The outbox implements Delivery                                          *)

\* Statuses that Delivery does not tell apart.
SameStatus(s, t) == s = t \/ {s, t} \subseteq OpenStatus
\* Outcomes of an action that Delivery does not tell apart.
SameOutcome(s, t) == s = t \/ {s, t} \cap {"done", "dead"} = {}

\* A step Delivery does not see.
LEMMA QuietStep ==
    ASSUME \A e \in Events :
              /\ SameStatus(events[e].status, events'[e].status)
              /\ \A i \in Actions : SameOutcome(acts[e][i].status, acts'[e][i].status)
    PROVE  UNCHANGED Promise!dvars
<1>1. AbstractStatus' = AbstractStatus
  BY DEF AbstractStatus, SameStatus, OpenStatus
<1>2. AbstractOutcome' = AbstractOutcome
  BY DEF AbstractOutcome, SameOutcome
<1> QED
  BY <1>1, <1>2 DEF Promise!dvars

\* What Delivery sees of the updates of a whole event's action rows.
LEMMA QuietRows ==
    ASSUME NEW rows \in [Actions -> ActionRow], NEW i \in Actions
    PROVE  /\ SameOutcome(rows[i].status, ResetRunning(rows)[i].status)
           /\ \A t : SameOutcome(rows[i].status, PrepareActions(rows, t)[i].status)
  BY DEF SameOutcome, ResetRunning, PrepareActions

\* Setting one action's row is one outcome, or none.
LEMMA SetActionPromise ==
    ASSUME TypeOK, NEW e \in Events, NEW i \in Actions, NEW a \in ActionRow,
           events' = events, events[e].status = "processing",
           acts' = [acts EXCEPT ![e][i] = a],
           acts[e][i].status \notin {"done", "dead"}
    PROVE  [Promise!DNext]_(Promise!dvars)
<1>1. CASE a.status \notin {"done", "dead"}
  BY <1>1, QuietStep DEF SameStatus, SameOutcome, TypeOK
<1>2. CASE a.status \in {"done", "dead"}
  <2>1. AbstractStatus' = AbstractStatus /\ AbstractStatus[e] = "open"
    BY DEF AbstractStatus, OpenStatus
  <2>2. AbstractOutcome[e][i] = "open"
    BY DEF AbstractOutcome
  <2>3. AbstractOutcome' = [AbstractOutcome EXCEPT ![e][i] = a.status]
    BY <1>2 DEF AbstractOutcome, TypeOK
  <2>4. Promise!Resolve(e, i)
    BY <1>2, <2>1, <2>2, <2>3 DEF Promise!Resolve
  <2> QED
    BY <2>4 DEF Promise!DNext
<1> QED
  BY <1>1, <1>2

\* The steps of a worker that settle an action.
LEMMA ActionStepPromise ==
    ASSUME TypeOK, LeaseInv, WorkInv, NEW w \in Workers,
           \/ ExpireAction(w) \/ StartAction(w) \/ StartInterrupted(w)
           \/ CompleteAction(w) \/ DeadAction(w) \/ ScheduleActionRetry(w)
    PROVE  [Promise!DNext]_(Promise!dvars)
<1>1. /\ pc[w] \in {"start", "settle"} /\ events' = events
      /\ Act(w).status \in {"pending", "retrying", "running"}
  BY DEF ExpireAction, StartAction, StartInterrupted, CompleteAction, DeadAction,
         ScheduleActionRetry, Dispatches, InLoop, At, Expirable, Startable
<1>2. job[w].ev \in Events /\ events[job[w].ev].status = "processing"
  BY <1>1, HeldFacts DEF Held, Processing
<1>3. job[w].idx \in Actions /\ Act(w) \in ActionRow
  <2>1. job[w].idx \in Actions
    BY StoreAssumption
    DEF ExpireAction, StartAction, StartInterrupted, CompleteAction, DeadAction,
        ScheduleActionRetry, Dispatches, InLoop, At, TypeOK, Job, Actions, StoreAssumption
  <2> QED
    BY <1>2, <2>1 DEF Act, TypeOK
<1>4. \E a \in ActionRow : SetAct(w, a)
  <2>1. /\ StartRow(Act(w)) \in ActionRow
        /\ \A s \in {"dead", "done", "retrying"}, t \in OptTime :
              SettleRow(Act(w), s, t) \in ActionRow
    BY <1>3, ActionRowTypes DEF ActionStatus
  <2>2. Null \in OptTime /\ \A d \in Delays : now + d \in OptTime
    BY OutboxAssumption DEF OutboxAssumption, OptTime, TypeOK
  <2> QED
    BY <2>1, <2>2
    DEF ExpireAction, StartAction, StartInterrupted, CompleteAction, DeadAction,
        ScheduleActionRetry
<1>5. Act(w) = acts[job[w].ev][job[w].idx]
  BY DEF Act
<1>6. PICK a \in ActionRow : acts' = [acts EXCEPT ![job[w].ev][job[w].idx] = a]
  BY <1>4 DEF SetAct
<1> QED
  BY <1>1, <1>2, <1>3, <1>5, <1>6, SetActionPromise

\* Rejecting an event as a whole: nothing was started for it.
LEMMA RejectPromise ==
    ASSUME TypeOK, LeaseInv, WorkInv, NEW w \in Workers, MarkDead(w) \/ MarkSkipped(w)
    PROVE  [Promise!DNext]_(Promise!dvars)
<1> DEFINE e == job[w].ev
<1>1. /\ pc[w] = "vars" /\ acts' = acts
      /\ ~job[w].vars \/ job[w].kind = "badsnapshot"
  BY DEF MarkDead, MarkSkipped, At, Unexecutable, Rejected
<1>2. /\ e \in Events /\ events[e] \in EventRow /\ events[e].status = "processing"
      /\ HoldOK("vars", job[w], events[e], acts[e]) /\ RowOK(events[e], acts[e], now)
  BY <1>1, HeldFacts DEF Held, Processing
<1>3. \A i \in Actions : acts[e][i].status = "none"
  <2>1. /\ events[e].vars => job[w].vars
        /\ job[w].kind = events[e].kind
        /\ HasActionState(acts[e]) => events[e].vars /\ events[e].kind # "badsnapshot"
    BY <1>2 DEF HoldOK, RowOK
  <2> QED
    BY <1>1, <2>1 DEF HasActionState
<1>4. \/ events' = events
      \/ \E s \in {"dead", "skipped"} :
            events' = [events EXCEPT ![e] = StatusRow(events[e], s, now)]
  BY DEF MarkDead, MarkSkipped, Row, SetRow
<1>5. CASE events' = events
  BY <1>1, <1>5, QuietStep DEF SameStatus, SameOutcome
<1>6. ASSUME NEW s \in {"dead", "skipped"},
             events' = [events EXCEPT ![e] = StatusRow(events[e], s, now)]
      PROVE  Promise!DNext
  <2>1. AbstractStatus[e] = "open"
    BY <1>2 DEF AbstractStatus, OpenStatus
  <2>2. AbstractOutcome' = AbstractOutcome /\ \A i \in Actions : AbstractOutcome[e][i] = "open"
    BY <1>1, <1>2, <1>3 DEF AbstractOutcome
  <2>3. /\ events'[e].status = s
        /\ \A f \in Events : f # e => events'[f] = events[f]
    BY <1>2, <1>6, EventRowStatus DEF TypeOK
  <2>4. AbstractStatus' = [AbstractStatus EXCEPT ![e] = s]
    BY <1>2, <2>3 DEF AbstractStatus, OpenStatus
  <2>5. Promise!Reject(e)
    BY <2>1, <2>2, <2>4 DEF Promise!Reject, Promise!Untouched
  <2> QED
    BY <1>2, <2>5 DEF Promise!DNext
<1> QED
  BY <1>4, <1>5, <1>6

\* The UPDATE of RefreshEventStatus closes an event, or puts it to sleep.
LEMMA RefreshPromise ==
    ASSUME TypeOK, LeaseInv, WorkInv, NEW w \in Workers, RefreshUpdate(w)
    PROVE  [Promise!DNext]_(Promise!dvars)
<1> DEFINE e == job[w].ev
           agg == job[w].agg
<1>1. /\ pc[w] = "commit" /\ acts' = acts
      /\ events' = [events EXCEPT ![e] = RefreshRow(events[e], agg)]
  BY DEF RefreshUpdate, At, Row, SetRow
<1>2. /\ e \in Events /\ events[e] \in EventRow /\ events[e].status = "processing"
      /\ HoldOK("commit", job[w], events[e], acts[e])
  BY <1>1, HeldFacts DEF Held, Processing
<1>3. /\ events'[e].status = agg.status
      /\ \A f \in Events : f # e => events'[f] = events[f]
  BY <1>1, <1>2, EventRowStatus DEF TypeOK
<1>4. /\ agg.status \in {"done", "dead", "retrying"}
      /\ \A i \in Actions : acts[e][i].status # "none"
      /\ agg.status = "done" => AllIn(acts[e], {"done"})
      /\ agg.status = "dead" => AllIn(acts[e], {"done", "dead"}) /\ ~AllIn(acts[e], {"done"})
  BY <1>2 DEF HoldOK, Settled
<1> HIDE DEF agg
<1>5. CASE agg.status = "retrying"
  BY <1>1, <1>2, <1>3, <1>5, QuietStep DEF SameStatus, SameOutcome, OpenStatus
<1>6. CASE agg.status \in {"done", "dead"}
  <2>1. AbstractStatus[e] = "open" /\ AbstractOutcome' = AbstractOutcome
    BY <1>1, <1>2 DEF AbstractStatus, AbstractOutcome, OpenStatus
  <2>2. AbstractStatus' = [AbstractStatus EXCEPT ![e] = agg.status]
    BY <1>2, <1>3, <1>6 DEF AbstractStatus, OpenStatus
  <2>3. /\ \A i \in Actions : AbstractOutcome[e][i] # "open"
        /\ (\A i \in Actions : AbstractOutcome[e][i] = "done") <=> agg.status = "done"
    BY <1>2, <1>4, <1>6 DEF AbstractOutcome, AllIn
  <2>4. Promise!Close(e)
    BY <1>6, <2>1, <2>2, <2>3 DEF Promise!Close
  <2> QED
    BY <1>2, <2>4 DEF Promise!DNext
<1> QED
  BY <1>4, <1>5, <1>6

\* The other steps of a worker are invisible to Delivery.
LEMMA QuietWorkerStep ==
    ASSUME TypeOK, LeaseInv, WorkInv, NEW w \in Workers,
           \/ Exit(w) \/ Drain(w) \/ Claim(w) \/ ClaimNothing(w)
           \/ ClearSkipped(w) \/ HaveVars(w) \/ PrepareEvent(w) \/ ListActionStates(w)
           \/ LoopCancelled(w) \/ SkipAction(w) \/ ReadClock(w) \/ SkipRetry(w)
           \/ StartNoRow(w)
           \/ Handle(w) \/ LogAction(w) \/ SettleCancelled(w)
           \/ RefreshSelect(w) \/ StoreError(w) \/ Requeue(w) \/ RenewLease(w)
    PROVE  UNCHANGED Promise!dvars
<1> SUFFICES ASSUME NEW e \in Events
             PROVE  /\ SameStatus(events[e].status, events'[e].status)
                    /\ \A i \in Actions :
                          SameOutcome(acts[e][i].status, acts'[e][i].status)
  BY QuietStep
<1> USE DEF SameStatus, tables, Row, Rows, SetRow, At
<1>1. events[e] \in EventRow /\ acts[e] \in [Actions -> ActionRow]
  BY DEF TypeOK
<1>2. CASE \/ Exit(w) \/ ClaimNothing(w) \/ HaveVars(w) \/ ListActionStates(w)
           \/ LoopCancelled(w) \/ SkipAction(w) \/ ReadClock(w) \/ SkipRetry(w)
           \/ StartNoRow(w) \/ Handle(w)
           \/ LogAction(w) \/ SettleCancelled(w) \/ RefreshSelect(w) \/ StoreError(w)
  <2>1. events' = events /\ acts' = acts
    BY <1>2 DEF Exit, ClaimNothing, HaveVars, ListActionStates, LoopCancelled,
                SkipAction, ReadClock, SkipRetry,
                StartNoRow, Handle, LogAction, SettleCancelled, RefreshSelect, StoreError
  <2> QED
    BY <2>1 DEF SameOutcome
<1>3. CASE Drain(w) \/ Claim(w) \/ Requeue(w)
  <2>1. \/ events'[e] = events[e] /\ acts'[e] = acts[e]
        \/ /\ events[e].status \in OpenStatus /\ acts'[e] = ResetRunning(acts[e])
           /\ \/ events'[e] = RequeueRow(events[e])
              \/ \E t, o : events'[e] = ClaimRow(events[e], t, o)
    <3>1. CASE Drain(w)
      BY <3>1 DEF Drain, LeaseExpired, OpenStatus
    <3>2. CASE Requeue(w)
      BY <3>2 DEF Requeue, Requeueable, OpenStatus, TypeOK
    <3>3. CASE Claim(w)
      <4>1. PICK f \in ClaimCandidates(job[w].t) :
               /\ events' = [events EXCEPT ![f] = ClaimRow(@, job[w].t, epoch)]
               /\ acts' = [acts EXCEPT ![f] = ResetRunning(@)]
        BY <3>3 DEF Claim
      <4>2. f \in Events /\ events[f].status \in OpenStatus
        BY DEF ClaimCandidates, Claimable, LeaseExpired, OpenStatus
      <4> QED
        BY <4>1, <4>2 DEF TypeOK
    <3> QED
      BY <1>3, <3>1, <3>2, <3>3
  <2>2. CASE events'[e] = events[e] /\ acts'[e] = acts[e]
    BY <2>2 DEF SameOutcome
  <2>3. CASE /\ events[e].status \in OpenStatus /\ acts'[e] = ResetRunning(acts[e])
             /\ \/ events'[e] = RequeueRow(events[e])
                \/ \E t, o : events'[e] = ClaimRow(events[e], t, o)
    <3>1. events'[e].status \in {"pending", "processing"}
      BY <1>1, <2>3, EventRowStatus
    <3> QED
      BY <1>1, <2>3, <3>1, QuietRows DEF OpenStatus
  <2> QED
    BY <2>1, <2>2, <2>3
<1>4. CASE PrepareEvent(w)
  <2>1. \/ events'[e] = events[e] /\ acts'[e] = acts[e]
        \/ events'[e] = PrepareRow(events[e]) /\ acts'[e] = PrepareActions(acts[e], now)
    BY <1>4 DEF PrepareEvent, TypeOK
  <2> QED
    BY <1>1, <2>1, EventRowStatus, QuietRows DEF SameOutcome
<1>5. CASE ClearSkipped(w) \/ RenewLease(w)
  <2>1. /\ acts' = acts
        /\ \/ events'[e] = events[e]
           \/ events'[e] = ClearPayloadRow(events[e])
           \/ events'[e] = RenewRow(events[e], now)
    BY <1>5 DEF ClearSkipped, RenewLease, TypeOK
  <2> QED
    BY <1>1, <2>1, EventRowStatus DEF SameOutcome
<1> QED
  BY <1>2, <1>3, <1>4, <1>5

\* Acceptance, replay, retention and restart.
LEMMA SystemStepPromise ==
    ASSUME TypeOK, LeaseInv, WorkInv,
           \/ \E e \in Events : SavePendingEvent(e) \/ ReplayDeadEvent(e)
           \/ PurgeOlderThan \/ Shutdown \/ CancelWorkers \/ ProcessExit
           \/ Crash \/ Restart \/ Tick
    PROVE  [Promise!DNext]_(Promise!dvars)
<1> USE DEF tables
<1>1. ASSUME NEW e \in Events, SavePendingEvent(e)
      PROVE  Promise!DNext
  <2>1. PICK k \in AcceptKinds : events' = [events EXCEPT ![e] = PendingRow(k, now)]
    BY <1>1 DEF SavePendingEvent
  <2>2. /\ events[e].status = "absent" /\ events'[e].status = "pending" /\ acts' = acts
        /\ \A f \in Events : f # e => events'[f] = events[f]
    BY <1>1, <2>1, EventRowStatus DEF SavePendingEvent, TypeOK
  <2>3. AbstractStatus[e] = "none" /\ AbstractOutcome' = AbstractOutcome
    BY <2>2 DEF AbstractStatus, AbstractOutcome, OpenStatus
  <2>4. AbstractStatus' = [AbstractStatus EXCEPT ![e] = "open"]
    BY <2>2 DEF AbstractStatus, OpenStatus
  <2>5. Promise!Accept(e)
    BY <2>3, <2>4 DEF Promise!Accept
  <2> QED
    BY <2>5 DEF Promise!DNext
<1>2. ASSUME NEW e \in Events, ReplayDeadEvent(e)
      PROVE  Promise!DNext
  <2>1. /\ events[e].status = "dead" /\ events'[e].status = "pending"
        /\ \A f \in Events : f # e => events'[f] = events[f]
    BY <1>2, EventRowStatus DEF ReplayDeadEvent, Replayable, TypeOK
  <2>2. /\ acts'[e] = ReplayActions(acts[e], now)
        /\ \A f \in Events : f # e => acts'[f] = acts[f]
    BY <1>2 DEF ReplayDeadEvent, TypeOK
  <2>3. AbstractStatus[e] = "dead"
    BY <2>1 DEF AbstractStatus, OpenStatus
  <2>4. AbstractStatus' = [AbstractStatus EXCEPT ![e] = "open"]
    BY <2>1 DEF AbstractStatus, OpenStatus
  <2>5. ASSUME NEW i \in Actions
        PROVE  AbstractOutcome'[e][i] = IF AbstractOutcome[e][i] = "dead"
                                        THEN "open" ELSE AbstractOutcome[e][i]
    BY <2>2 DEF AbstractOutcome, ReplayActions
  <2>6. AbstractOutcome' = [AbstractOutcome EXCEPT ![e] =
            [i \in Actions |-> IF AbstractOutcome[e][i] = "dead"
                               THEN "open" ELSE AbstractOutcome[e][i]]]
    <3> DEFINE R == [i \in Actions |-> IF AbstractOutcome[e][i] = "dead"
                                       THEN "open" ELSE AbstractOutcome[e][i]]
    <3>1. AbstractOutcome'[e] = R
      <4>1. AbstractOutcome'[e] = [i \in Actions |-> AbstractOutcome'[e][i]]
        BY DEF AbstractOutcome
      <4> QED
        BY <2>5, <4>1
    <3>2. \A f \in Events : f # e => AbstractOutcome'[f] = AbstractOutcome[f]
      BY <2>2 DEF AbstractOutcome
    <3>3. /\ AbstractOutcome = [f \in Events |-> AbstractOutcome[f]]
          /\ AbstractOutcome' = [f \in Events |-> AbstractOutcome'[f]]
      BY DEF AbstractOutcome
    <3> HIDE DEF R
    <3>4. AbstractOutcome' = [AbstractOutcome EXCEPT ![e] = R]
      BY <3>1, <3>2, <3>3
    <3> QED
      BY <3>4 DEF R
  <2>7. Promise!Reopen(e)
    BY <2>3, <2>4, <2>6 DEF Promise!Reopen
  <2> QED
    BY <2>7 DEF Promise!DNext
<1>3. CASE PurgeOlderThan
  <2> DEFINE P == {e \in Events : Purgeable(events[e], now - Retention)}
  <2>1. /\ P # {}
        /\ events' = [e \in Events |-> IF e \in P THEN NoEventRow("purged") ELSE events[e]]
        /\ acts' = [e \in Events |-> IF e \in P THEN NoActionRows ELSE acts[e]]
    BY <1>3 DEF PurgeOlderThan
  <2>2. P \in SUBSET Events /\ \A e \in P : events[e].status \in TerminalStatus
    BY DEF Purgeable
  <2> HIDE DEF P
  <2>3. \A e \in P : AbstractStatus[e] \in {"done", "dead", "skipped"}
    BY <2>2 DEF AbstractStatus, TerminalStatus, OpenStatus
  <2>4. AbstractStatus' = [e \in Events |-> IF e \in P THEN "gone" ELSE AbstractStatus[e]]
    <3>1. NoEventRow("purged").status = "purged"
      BY EventRowStatus
    <3> QED
      BY <2>1, <3>1 DEF AbstractStatus, OpenStatus
  <2>5. AbstractOutcome' = [e \in Events |-> IF e \in P THEN [i \in Actions |-> "open"]
                                             ELSE AbstractOutcome[e]]
    BY <2>1 DEF AbstractOutcome, NoActionRows, NoActionRow
  <2>6. Promise!Forget(P)
    BY <2>1, <2>3, <2>4, <2>5 DEF Promise!Forget
  <2> QED
    BY <2>2, <2>6 DEF Promise!DNext
<1>4. CASE Shutdown \/ CancelWorkers \/ ProcessExit \/ Crash \/ Tick
  <2>1. events' = events /\ acts' = acts
    BY <1>4 DEF Shutdown, CancelWorkers, ProcessExit, Crash, Tick
  <2> QED
    BY <2>1, QuietStep DEF SameStatus, SameOutcome
<1>5. CASE Restart
  <2>1. ASSUME NEW e \in Events
        PROVE  /\ SameStatus(events[e].status, events'[e].status)
               /\ \A i \in Actions : SameOutcome(acts[e][i].status, acts'[e][i].status)
    <3>1. events[e] \in EventRow /\ acts[e] \in [Actions -> ActionRow]
      BY DEF TypeOK
    <3>2. \/ events'[e] = events[e] /\ acts'[e] = acts[e]
          \/ /\ events[e].status \in OpenStatus /\ acts'[e] = ResetRunning(acts[e])
             /\ events'[e] = RequeueRow(events[e])
      BY <1>5 DEF Restart, Recovered, OpenStatus
    <3> QED
      BY <3>1, <3>2, EventRowStatus, QuietRows DEF SameStatus, SameOutcome, OpenStatus
  <2> QED
    BY <2>1, QuietStep
<1> QED
  BY <1>1, <1>2, <1>3, <1>4, <1>5

\* The outbox implements Delivery: with leases renewed in time, every store
\* call of every worker, every crash, restart, replay and retention pass is
\* one step of the abstract specification or none.
THEOREM OutboxImplementsDelivery ==
    ASSUME TimelyRenewal
    PROVE  Spec => ImplementsDelivery
<1>1. Init => Promise!DInit
  <2> SUFFICES ASSUME Init PROVE Promise!DInit
    OBVIOUS
  <2>1. AbstractStatus = [e \in Events |-> "none"]
    BY EventRowStatus DEF Init, AbstractStatus, OpenStatus
  <2>2. AbstractOutcome = [e \in Events |-> [i \in Actions |-> "open"]]
    BY DEF Init, AbstractOutcome, NoActionRows, NoActionRow
  <2> QED
    BY <2>1, <2>2 DEF Promise!DInit
<1>2. TypeOK /\ LeaseInv /\ WorkInv /\ [Next]_vars => [Promise!DNext]_(Promise!dvars)
  <2> SUFFICES ASSUME TypeOK, LeaseInv, WorkInv, [Next]_vars
               PROVE  [Promise!DNext]_(Promise!dvars)
    OBVIOUS
  <2>1. CASE UNCHANGED vars
    BY <2>1, QuietStep DEF vars, SameStatus, SameOutcome
  <2>2. ASSUME NEW w \in Workers, WorkerStep(w) \/ RenewLease(w)
        PROVE  [Promise!DNext]_(Promise!dvars)
    BY <2>2, ActionStepPromise, RejectPromise, RefreshPromise, QuietWorkerStep DEF WorkerStep
  <2> QED
    BY <2>1, <2>2, SystemStepPromise DEF Next
<1> QED
  BY <1>1, <1>2, LeaseWorks, PTL DEF Spec, ImplementsDelivery, Promise!DSpec

=============================================================================
