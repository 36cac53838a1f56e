----------------------------- MODULE FilterProofs ------------------------------
(***************************************************************************)
(* Theorems about Filter and the cache it uses, for every number of events *)
(* and workers, every set of sources, rules, patterns and payloads, and    *)
(* every size of the cache.                                                *)
(***************************************************************************)
EXTENDS Filter, FiniteSetTheorems, TLAPS

-----------------------------------------------------------------------------
(* The invariant                                                           *)

\* What a worker extracts for an event, and what is stored if it passes.
Raw(e) == Extract(Source(e).extract, input[e].payload)
Final(e) == Redact(Source(e), Raw(e))

\* Rule i of the event's source compiles and matches.
RuleHolds(e, i) ==
    LET r == Source(e).rules[i]
    IN  r.regex \notin Invalid /\ <<r.regex, Value(Raw(e), r.var)>> \in Matches

Extracted == {Extract(Snapshot[s].extract, p) : s \in Sources, p \in Payloads}
Stored == {Redact(Snapshot[s], Extract(Snapshot[s].extract, p)) : s \in Sources, p \in Payloads}

\* Shapes of rows and jobs.
RowType == [status: {"pending", "processing", "skipped", "dead", "done"},
            values: {NoVars} \cup Stored]
JobType == [ev: Events \cup {NoVars}, values: {NoVars} \cup Extracted \cup Stored, rule: Nat]

\* Labels at which the worker's event is claimed, and all labels.
Holding == {"match", "reject", "skip", "invalid", "deliver", "requeue"}
Labels == Holding \cup {"idle", "count"}

\* A row agrees with the verdict on its event.
RowFits(e, r) ==
    /\ r.status = "skipped" => Verdict(e) \in {"rejected", "unmatched"}
    /\ r.status = "dead" => Verdict(e) = "invalid"
    /\ r.status = "done" => r.values # NoVars
    /\ r.values # NoVars => Verdict(e) = "passed" /\ r.values = Final(e)

\* What a worker at a label knows about its event, given the event's row.
JobFits(there, j, r) ==
    /\ there \in Holding => r.status = "processing"
    /\ there \in {"reject", "count"} => Verdict(j.ev) = "rejected"
    /\ there = "match" => /\ j.values = Raw(j.ev) /\ j.rule # 0
                          /\ Allow(Source(j.ev), Raw(j.ev))
                          /\ r.values = NoVars
                          /\ \A i \in 1..(j.rule - 1) : RuleHolds(j.ev, i)
    /\ there = "skip" => Verdict(j.ev) = "unmatched"
    /\ there = "invalid" => Verdict(j.ev) = "invalid"
    /\ there = "deliver" => j.values = r.values /\ j.values # NoVars

\* FilteredAsConfigured speaks of the rows.  A row is written by a worker that
\* decided earlier, on values it extracted earlier still: the invariant says
\* what a worker has found out at each label, and that nobody else touches
\* the event meanwhile.
FilterInv ==
    /\ input \in [Events -> [source: Sources, payload: Payloads]]
    /\ row \in [Events -> RowType]
    /\ pc \in [Workers -> Labels]
    /\ job \in [Workers -> JobType]
    /\ \A e \in Events : RowFits(e, row[e])
    /\ \A w \in Workers : pc[w] # "idle" =>
          job[w].ev \in Events /\ JobFits(pc[w], job[w], row[job[w].ev])
    /\ \A w, v \in Workers : w # v /\ pc[w] \in Holding /\ pc[v] \in Holding =>
          job[w].ev # job[v].ev

-----------------------------------------------------------------------------
(* The verdict                                                             *)

\* Where the rules stop decides.
LEMMA Verdicts ==
    ASSUME NEW e, Len(Source(e).rules) \in Nat
    PROVE  /\ ~Allow(Source(e), Raw(e)) => Verdict(e) = "rejected"
           /\ Allow(Source(e), Raw(e)) =>
                 /\ \A n \in 1..Len(Source(e).rules) :
                       (\A i \in 1..(n - 1) : RuleHolds(e, i)) =>
                          /\ Source(e).rules[n].regex \in Invalid => Verdict(e) = "invalid"
                          /\ Source(e).rules[n].regex \notin Invalid /\ ~RuleHolds(e, n) =>
                                Verdict(e) = "unmatched"
                 /\ (\A i \in 1..Len(Source(e).rules) : RuleHolds(e, i)) => Verdict(e) = "passed"
<1> DEFINE s == Source(e)
<1> DEFINE v == Raw(e)
<1> DEFINE bad(i) == s.rules[i].regex \in Invalid
<1> DEFINE miss(i) == ~bad(i) /\ <<s.rules[i].regex, Value(v, s.rules[i].var)>> \notin Matches
<1> DEFINE decides(i) == (bad(i) \/ miss(i)) /\ \A j \in 1..(i - 1) : ~bad(j) /\ ~miss(j)
<1> DEFINE L == Len(s.rules)
<1>1. Verdict(e) = IF ~Allow(s, v) THEN "rejected"
                   ELSE IF \E i \in 1..L : decides(i) /\ bad(i) THEN "invalid"
                   ELSE IF \E i \in 1..L : decides(i) THEN "unmatched"
                   ELSE "passed"
  BY DEF Verdict, Raw
<1>2. \A i : RuleHolds(e, i) <=> (~bad(i) /\ ~miss(i))
  BY DEF RuleHolds
<1>3. L \in Nat
  OBVIOUS
<1> HIDE DEF bad, miss, s, v, L
<1>4. ASSUME NEW n \in 1..L, \A i \in 1..(n - 1) : RuleHolds(e, i), ~RuleHolds(e, n)
      PROVE  decides(n) /\ \A i \in 1..L : decides(i) => i = n
  <2>1. decides(n)
    BY <1>2, <1>4
  <2>2. ASSUME NEW i \in 1..L, decides(i) PROVE i = n
    <3>1. CASE i < n
      <4>1. i \in 1..(n - 1)
        BY <1>3, <3>1
      <4> QED
        BY <1>2, <1>4, <2>2, <4>1
    <3>2. CASE n < i
      <4>1. n \in 1..(i - 1)
        BY <1>3, <3>2
      <4> QED
        BY <1>2, <1>4, <2>2, <4>1
    <3> QED
      BY <1>3, <3>1, <3>2
  <2> QED
    BY <2>1, <2>2
<1>5. ASSUME Allow(s, v), NEW n \in 1..L, \A i \in 1..(n - 1) : RuleHolds(e, i)
      PROVE  /\ bad(n) => Verdict(e) = "invalid"
             /\ ~bad(n) /\ ~RuleHolds(e, n) => Verdict(e) = "unmatched"
  <2>1. bad(n) => ~RuleHolds(e, n)
    BY <1>2
  <2> HIDE DEF decides
  <2> QED
    BY <1>1, <1>4, <1>5, <2>1
<1>6. ASSUME Allow(s, v), \A i \in 1..L : RuleHolds(e, i) PROVE Verdict(e) = "passed"
  <2>1. \A i \in 1..L : ~decides(i)
    BY <1>2, <1>6
  <2> HIDE DEF decides
  <2> QED
    BY <1>1, <1>6, <2>1
<1>7. ~Allow(s, v) => Verdict(e) = "rejected"
  BY <1>1
<1> QED
  BY <1>5, <1>6, <1>7 DEF s, v, L, bad

\* The configuration an event is judged by.
LEMMA SourceTypes ==
    ASSUME FilterInv, NEW e \in Events
    PROVE  /\ Source(e).rules \in Seq([var: STRING, regex: Patterns])
           /\ Len(Source(e).rules) \in Nat
           /\ \A i \in 1..Len(Source(e).rules) : Source(e).rules[i].regex \in Patterns
           /\ Raw(e) \in Extracted /\ Final(e) \in Stored /\ Final(e) # NoVars
<1>1. input[e].source \in Sources /\ input[e].payload \in Payloads
  BY DEF FilterInv
<1>2. Source(e).rules \in Seq([var: STRING, regex: Patterns])
  BY <1>1, FilterAssumption DEF FilterAssumption, Source
<1>3. Raw(e) \in Extracted /\ Final(e) \in Stored
  BY <1>1 DEF Raw, Final, Source, Extracted, Stored
<1>4. Final(e) # NoVars
  BY <1>1, NullAssumption DEF Raw, Final, Source, NullAssumption
<1>5. ASSUME NEW i \in 1..Len(Source(e).rules) PROVE Source(e).rules[i].regex \in Patterns
  <2> DEFINE T == [var: STRING, regex: Patterns]
  <2> DEFINE rules == Source(e).rules
  <2>1. rules[i] \in T
    <3>1. rules \in Seq(T) /\ i \in 1..Len(rules)
      BY <1>2
    <3> HIDE DEF T, rules
    <3> QED
      BY <3>1
  <2> QED
    BY <2>1
<1> QED
  BY <1>2, <1>3, <1>4, <1>5

\* The verdict and the values depend on the event only.
LEMMA VerdictIsFixed ==
    ASSUME input' = input
    PROVE  /\ \A e : /\ Verdict(e)' = Verdict(e) /\ Raw(e)' = Raw(e) /\ Final(e)' = Final(e)
                     /\ Source(e)' = Source(e)
           /\ \A e, i : RuleHolds(e, i)' = RuleHolds(e, i)
  BY DEF Verdict, Raw, Final, Source, RuleHolds

-----------------------------------------------------------------------------
(* Steps                                                                   *)

\* A step of worker w at event e: it keeps the invariant if e is w's or
\* nobody's, what is written to e fits, and w knows what it should.
LEMMA WorkerStep ==
    ASSUME FilterInv, NEW w \in Workers, NEW e \in Events,
           NEW there \in Labels, NEW j \in JobType, NEW r \in RowType,
           input' = input, row' = [row EXCEPT ![e] = r],
           pc' = [pc EXCEPT ![w] = there], job' = [job EXCEPT ![w] = j],
           RowFits(e, r),
           there # "idle" => j.ev = e /\ JobFits(there, j, r),
           \A v \in Workers : v # w /\ pc[v] \in Holding => job[v].ev # e
    PROVE  FilterInv'
<1>1. row' \in [Events -> RowType] /\ row'[e] = r /\ \A f \in Events : f # e => row'[f] = row[f]
  BY DEF FilterInv
<1>2. /\ pc' \in [Workers -> Labels] /\ pc'[w] = there
      /\ \A v \in Workers : v # w => pc'[v] = pc[v]
  BY DEF FilterInv
<1>3. /\ job' \in [Workers -> JobType] /\ job'[w] = j
      /\ \A v \in Workers : v # w => job'[v] = job[v]
  BY DEF FilterInv
<1>4. \A f \in Events : RowFits(f, row'[f])
  BY <1>1 DEF FilterInv
<1>5. ASSUME NEW v \in Workers, pc'[v] # "idle"
      PROVE  job'[v].ev \in Events /\ JobFits(pc'[v], job'[v], row'[job'[v].ev])
  <2>1. CASE v = w
    BY <1>1, <1>2, <1>3, <1>5, <2>1
  <2>2. CASE v # w
    <3>1. /\ pc'[v] = pc[v] /\ job'[v] = job[v] /\ job[v].ev \in Events
          /\ JobFits(pc[v], job[v], row[job[v].ev])
      BY <1>2, <1>3, <1>5, <2>2 DEF FilterInv
    <3>2. CASE job[v].ev # e
      BY <1>1, <3>1, <3>2
    <3>3. CASE job[v].ev = e
      <4>1. pc[v] \notin Holding
        BY <2>2, <3>3
      <4> QED
        BY <3>1, <4>1 DEF JobFits, Holding
    <3> QED
      BY <3>2, <3>3
  <2> QED
    BY <2>1, <2>2
<1>6. ASSUME NEW u \in Workers, NEW v \in Workers, u # v, pc'[u] \in Holding, pc'[v] \in Holding
      PROVE  job'[u].ev # job'[v].ev
  <2>1. "idle" \notin Holding
    BY DEF Holding
  <2> QED
    BY <1>2, <1>3, <1>6, <2>1 DEF FilterInv
<1>7. \A f \in Events : RowFits(f, row[f])'
  BY <1>4, VerdictIsFixed DEF RowFits
<1>8. ASSUME NEW v \in Workers, pc'[v] # "idle" PROVE JobFits(pc[v], job[v], row[job[v].ev])'
  BY <1>5, <1>8, VerdictIsFixed DEF JobFits
<1> QED
  BY <1>1, <1>2, <1>3, <1>5, <1>6, <1>7, <1>8 DEF FilterInv

\* The worker of an event is the only one, and the event is claimed.
LEMMA Owner ==
    ASSUME FilterInv, NEW w \in Workers, pc[w] \in Holding
    PROVE  LET e == job[w].ev
           IN  /\ e \in Events /\ row[e] \in RowType /\ row[e].status = "processing"
               /\ job[w] \in JobType /\ RowFits(e, row[e])
               /\ JobFits(pc[w], job[w], row[e])
               /\ \A v \in Workers : v # w /\ pc[v] \in Holding => job[v].ev # e
  BY DEF FilterInv, JobFits, Holding

\* The values a worker has no job with.
LEMMA NoJobType == NoJob \in JobType /\ "idle" \in Labels
  BY DEF NoJob, JobType, Labels

\* Writing a status.
LEMMA WriteStatus ==
    ASSUME FilterInv, NEW e \in Events,
           NEW status \in {"pending", "processing", "skipped", "dead", "done"},
           Update(e, status)
    PROVE  LET r == [status |-> status, values |-> row[e].values]
           IN  r \in RowType /\ row' = [row EXCEPT ![e] = r]
<1>1. row[e] \in RowType /\ row \in [Events -> RowType]
  BY DEF FilterInv
<1>2. [row[e] EXCEPT !.status = status] = [status |-> status, values |-> row[e].values]
  BY <1>1 DEF RowType
<1>3. row' = [row EXCEPT ![e] = [row[e] EXCEPT !.status = status]]
  BY <1>1 DEF Update
<1>4. row[e].values \in {NoVars} \cup Stored
  BY <1>1 DEF RowType
<1> QED
  BY <1>2, <1>3, <1>4 DEF RowType

\* A worker lets go of its event with a status that fits.
LEMMA EndStep ==
    ASSUME FilterInv, NEW w \in Workers, pc[w] \in Holding, input' = input, Leave(w),
           \/ row' = row
           \/ \E status \in {"pending", "processing", "skipped", "dead", "done"} :
                 /\ Update(job[w].ev, status)
                 /\ RowFits(job[w].ev, [status |-> status, values |-> row[job[w].ev].values])
    PROVE  FilterInv'
<1> DEFINE e == job[w].ev
<1>1. /\ e \in Events /\ row[e] \in RowType /\ RowFits(e, row[e])
      /\ \A v \in Workers : v # w /\ pc[v] \in Holding => job[v].ev # e
  BY Owner
<1>2. \E r \in RowType : row' = [row EXCEPT ![e] = r] /\ RowFits(e, r)
  <2>1. CASE row' = row
    <3>1. row' = [row EXCEPT ![e] = row[e]]
      BY <1>1, <2>1 DEF FilterInv
    <3> QED
      BY <1>1, <3>1
  <2>2. ASSUME NEW status \in {"pending", "processing", "skipped", "dead", "done"},
               Update(e, status), RowFits(e, [status |-> status, values |-> row[e].values])
        PROVE  \E r \in RowType : row' = [row EXCEPT ![e] = r] /\ RowFits(e, r)
    <3> DEFINE r == [status |-> status, values |-> row[e].values]
    <3>1. r \in RowType /\ row' = [row EXCEPT ![e] = r]
      BY <1>1, <2>2, WriteStatus
    <3> HIDE DEF r
    <3> QED
      BY <2>2, <3>1 DEF r
  <2> QED
    BY <2>1, <2>2
<1>3. PICK r \in RowType : row' = [row EXCEPT ![e] = r] /\ RowFits(e, r)
  BY <1>2
<1>4. pc' = [pc EXCEPT ![w] = "idle"] /\ job' = [job EXCEPT ![w] = NoJob]
  BY DEF Leave, Goto
<1> HIDE DEF e
<1> QED
  BY <1>1, <1>3, <1>4, NoJobType, WorkerStep

\* The first step of an event: it was nobody's.
LEMMA ClaimStep ==
    ASSUME FilterInv, NEW w \in Workers, NEW e \in Events, Claim(w, e)
    PROVE  FilterInv'
<1> DEFINE values == IF row[e].values # NoVars THEN row[e].values ELSE Raw(e)
<1> DEFINE there == FirstStep(e, values)
<1> DEFINE j == [ev |-> e, values |-> values, rule |-> 1]
<1> DEFINE r == [status |-> "processing", values |-> row[e].values]
<1>1. /\ row[e].status = "pending" /\ Update(e, "processing") /\ input' = input
      /\ job' = [job EXCEPT ![w] = j] /\ pc' = [pc EXCEPT ![w] = there]
  BY DEF Claim, Goto, Raw
<1>2. r \in RowType /\ row' = [row EXCEPT ![e] = r]
  BY <1>1, WriteStatus
<1>3. row[e] \in RowType /\ row[e].values \in {NoVars} \cup Stored /\ RowFits(e, row[e])
  BY DEF FilterInv, RowType
<1>4. Raw(e) \in Extracted /\ Len(Source(e).rules) \in Nat
  BY SourceTypes
<1>5. \A v \in Workers : pc[v] \in Holding => job[v].ev # e
  BY <1>1 DEF FilterInv, JobFits, Holding
<1>6. RowFits(e, r)
  BY <1>3 DEF RowFits
<1>7. j \in JobType /\ there \in Labels /\ j.ev = e /\ j.values = values /\ j.rule = 1
  BY <1>3, <1>4 DEF JobType, FirstStep, Labels, Holding
<1>8. JobFits(there, j, r)
  <2>1. CASE row[e].values # NoVars
    <3>1. there = "deliver" /\ values = row[e].values
      BY <2>1 DEF FirstStep
    <3> QED
      BY <2>1, <3>1 DEF JobFits
  <2>2. CASE row[e].values = NoVars
    <3>1. values = Raw(e)
      BY <2>2
    <3>2. /\ Allow(Source(e), Raw(e)) => there = "match"
          /\ ~Allow(Source(e), Raw(e)) => there = "reject" /\ Verdict(e) = "rejected"
      BY <1>4, <2>2, <3>1, Verdicts DEF FirstStep
    <3>3. \A i \in 1..(1 - 1) : FALSE
      OBVIOUS
    <3> QED
      BY <2>2, <3>1, <3>2, <3>3 DEF JobFits
  <2> QED
    BY <2>1, <2>2
<1> HIDE DEF values, there, j, r
<1> QED
  BY <1>1, <1>2, <1>5, <1>6, <1>7, <1>8, WorkerStep

\* A worker stays with its event and goes elsewhere.
LEMMA GoOn ==
    ASSUME FilterInv, NEW w \in Workers, pc[w] \in Holding, NEW there \in Labels,
           NEW j \in JobType, j.ev = job[w].ev, NEW r \in RowType,
           input' = input, row' = [row EXCEPT ![job[w].ev] = r], Goto(w, there),
           job' = [job EXCEPT ![w] = j],
           RowFits(job[w].ev, r), JobFits(there, j, r)
    PROVE  FilterInv'
<1> DEFINE e == job[w].ev
<1>1. e \in Events /\ \A v \in Workers : v # w /\ pc[v] \in Holding => job[v].ev # e
  BY Owner
<1>2. pc' = [pc EXCEPT ![w] = there]
  BY DEF Goto
<1> HIDE DEF e
<1>3. /\ row' = [row EXCEPT ![e] = r] /\ RowFits(e, r)
      /\ (there # "idle" => j.ev = e /\ JobFits(there, j, r))
  BY DEF e
<1> QED
  BY <1>1, <1>2, <1>3, WorkerStep, Zenon

\* A worker goes elsewhere and nothing else happens.
LEMMA JustGo ==
    ASSUME FilterInv, NEW w \in Workers, pc[w] \in Holding, NEW there \in Labels,
           UNCHANGED <<input, row, job>>, Goto(w, there),
           JobFits(there, job[w], row[job[w].ev])
    PROVE  FilterInv'
<1> DEFINE e == job[w].ev
<1>1. e \in Events /\ row[e] \in RowType /\ RowFits(e, row[e]) /\ job[w] \in JobType
  BY Owner
<1>2. job' = [job EXCEPT ![w] = job[w]] /\ row' = [row EXCEPT ![job[w].ev] = row[e]]
  BY <1>1 DEF FilterInv
<1> DEFINE r == row[e]
<1> DEFINE j == job[w]
<1>3. /\ r \in RowType /\ j \in JobType /\ j.ev = job[w].ev /\ RowFits(job[w].ev, r)
      /\ JobFits(there, j, r)
      /\ job' = [job EXCEPT ![w] = j] /\ row' = [row EXCEPT ![job[w].ev] = r]
  BY <1>1, <1>2
<1> HIDE DEF r, j
<1> QED
  BY <1>3, GoOn

\* The steps of an event that the allowlist rejects.
LEMMA RejectSteps ==
    ASSUME FilterInv, NEW w \in Workers, Reject(w) \/ Count(w)
    PROVE  FilterInv'
<1>1. CASE Reject(w)
  <2> DEFINE e == job[w].ev
  <2>1. pc[w] = "reject" /\ pc[w] \in Holding /\ input' = input /\ job' = job
    BY <1>1 DEF Reject, Holding
  <2>2. /\ e \in Events /\ row[e] \in RowType /\ row[e].status = "processing"
        /\ job[w] \in JobType /\ RowFits(e, row[e]) /\ JobFits("reject", job[w], row[e])
    BY <2>1, Owner
  <2>3. Verdict(e) = "rejected"
    BY <2>2 DEF JobFits
  <2>4. CASE Goto(w, "requeue") /\ row' = row
    BY <2>1, <2>2, <2>4, JustGo DEF JobFits, Labels, Holding
  <2>5. CASE Update(e, "skipped") /\ Goto(w, "count")
    <3> DEFINE r == [status |-> "skipped", values |-> row[e].values]
    <3>1. r \in RowType /\ row' = [row EXCEPT ![e] = r]
      BY <2>2, <2>5, WriteStatus
    <3>2. RowFits(e, r) /\ JobFits("count", job[w], r) /\ "count" \in Labels
      BY <2>2, <2>3 DEF RowFits, JobFits, Labels, Holding
    <3>3. job' = [job EXCEPT ![w] = job[w]]
      BY <2>1 DEF FilterInv
    <3> HIDE DEF r
    <3> QED
      BY <2>1, <2>2, <2>5, <3>1, <3>2, <3>3, GoOn
  <2> QED
    BY <1>1, <2>4, <2>5 DEF Reject
<1>2. CASE Count(w)
  <2> DEFINE e == job[w].ev
  <2>1. /\ pc[w] = "count" /\ input' = input /\ row' = row
        /\ pc' = [pc EXCEPT ![w] = "idle"] /\ job' = [job EXCEPT ![w] = NoJob]
    BY <1>2 DEF Count, Leave, Goto
  <2>2. row \in [Events -> RowType] /\ input \in [Events -> [source: Sources, payload: Payloads]]
    BY DEF FilterInv
  <2>3. pc' \in [Workers -> Labels] /\ job' \in [Workers -> JobType]
    BY <2>1, NoJobType DEF FilterInv
  <2>4. \A v \in Workers : pc'[v] # "idle" => v # w /\ pc'[v] = pc[v] /\ job'[v] = job[v]
    BY <2>1 DEF FilterInv
  <2>5. "idle" \notin Holding
    BY DEF Holding
  <2>6. \A f \in Events : RowFits(f, row[f])'
    BY <2>1, VerdictIsFixed DEF FilterInv, RowFits
  <2>7. ASSUME NEW v \in Workers, pc'[v] # "idle"
        PROVE  job'[v].ev \in Events /\ JobFits(pc[v], job[v], row[job[v].ev])'
    <3>1. job[v].ev \in Events /\ JobFits(pc[v], job[v], row[job[v].ev])
      BY <2>4, <2>7 DEF FilterInv
    <3> QED
      BY <2>1, <2>4, <2>7, <3>1, VerdictIsFixed DEF JobFits
  <2>8. \A u, v \in Workers : u # v /\ pc'[u] \in Holding /\ pc'[v] \in Holding =>
           job'[u].ev # job'[v].ev
    BY <2>4, <2>5 DEF FilterInv
  <2> QED
    BY <2>1, <2>2, <2>3, <2>6, <2>7, <2>8 DEF FilterInv
<1> QED
  BY <1>1, <1>2

\* A rule decides, or the next one is tried.
LEMMA MatchStep ==
    ASSUME FilterInv, NEW w \in Workers, MatchRule(w)
    PROVE  FilterInv'
<1> DEFINE e == job[w].ev
<1> DEFINE n == job[w].rule
<1> DEFINE x == Source(e).rules[n]
<1>1. pc[w] = "match" /\ pc[w] \in Holding /\ n <= Len(Source(e).rules) /\ UNCHANGED <<input, row>>
  BY DEF MatchRule, Mine, Holding
<1>2. /\ e \in Events /\ row[e] \in RowType /\ RowFits(e, row[e])
      /\ job[w] \in JobType /\ JobFits("match", job[w], row[e])
  BY <1>1, Owner
<1>3. /\ job[w].values = Raw(e) /\ n # 0 /\ Allow(Source(e), Raw(e)) /\ row[e].values = NoVars
      /\ \A i \in 1..(n - 1) : RuleHolds(e, i)
      /\ row[e].status = "processing"
  BY <1>2 DEF JobFits, Holding
<1>4. Len(Source(e).rules) \in Nat
  BY <1>2, SourceTypes
<1>5. n \in Nat /\ n \in 1..Len(Source(e).rules)
  <2>1. n \in Nat
    BY <1>2 DEF JobType
  <2> QED
    BY <1>1, <1>3, <1>4, <2>1
<1>6. RuleHolds(e, n) <=> (x.regex \notin Invalid /\ <<x.regex, RuleInput(w, x.var)>> \in Matches)
  BY <1>3 DEF RuleHolds, RuleInput
<1>7. \/ x.regex \in Invalid /\ Goto(w, "invalid") /\ job' = job
      \/ x.regex \notin Invalid /\ ~RuleHolds(e, n) /\ Goto(w, "skip") /\ job' = job
      \/ RuleHolds(e, n) /\ job' = [job EXCEPT ![w].rule = @ + 1] /\ pc' = pc
  BY <1>6 DEF MatchRule, Mine
<1>8. CASE x.regex \in Invalid /\ Goto(w, "invalid") /\ job' = job
  <2>1. Verdict(e) = "invalid"
    BY <1>3, <1>4, <1>5, <1>8, Verdicts
  <2>2. JobFits("invalid", job[w], row[e]) /\ "invalid" \in Labels
    BY <1>3, <2>1 DEF JobFits, Labels, Holding
  <2> QED
    BY <1>1, <1>8, <2>2, JustGo
<1>9. CASE x.regex \notin Invalid /\ ~RuleHolds(e, n) /\ Goto(w, "skip") /\ job' = job
  <2>1. Verdict(e) = "unmatched"
    BY <1>3, <1>4, <1>5, <1>9, Verdicts
  <2>2. JobFits("skip", job[w], row[e]) /\ "skip" \in Labels
    BY <1>3, <2>1 DEF JobFits, Labels, Holding
  <2> QED
    BY <1>1, <1>9, <2>2, JustGo
<1>10. CASE RuleHolds(e, n) /\ job' = [job EXCEPT ![w].rule = @ + 1] /\ pc' = pc
  <2> DEFINE j == [ev |-> e, values |-> job[w].values, rule |-> n + 1]
  <2>1. j \in JobType /\ [job[w] EXCEPT !.rule = @ + 1] = j
    BY <1>2, <1>5 DEF JobType
  <2>2. job' = [job EXCEPT ![w] = j] /\ Goto(w, "match") /\ row' = [row EXCEPT ![e] = row[e]]
    <3>1. job' = [job EXCEPT ![w] = [job[w] EXCEPT !.rule = @ + 1]]
      BY <1>10
    <3>2. Goto(w, "match")
      BY <1>1, <1>10 DEF Goto, FilterInv
    <3>3. row' = [row EXCEPT ![e] = row[e]]
      BY <1>1, <1>2 DEF FilterInv
    <3> QED
      BY <2>1, <3>1, <3>2, <3>3
  <2>3. j.ev = e /\ j.values = Raw(e) /\ j.rule = n + 1 /\ j.rule # 0
    BY <1>3, <1>5
  <2>4. \A i \in 1..((n + 1) - 1) : RuleHolds(e, i)
    <3>1. \A i \in 1..((n + 1) - 1) : i \in 1..(n - 1) \/ i = n
      BY <1>5
    <3> QED
      BY <1>3, <1>10, <3>1
  <2> HIDE DEF j
  <2>5. JobFits("match", j, row[e]) /\ "match" \in Labels
    BY <1>3, <2>3, <2>4 DEF JobFits, Labels, Holding
  <2> QED
    BY <1>1, <1>2, <2>1, <2>2, <2>3, <2>5, GoOn
<1> QED
  BY <1>7, <1>8, <1>9, <1>10

\* The event passed: what is stored is the redaction of what was judged.
LEMMA PrepareStep ==
    ASSUME FilterInv, NEW w \in Workers, Prepare(w)
    PROVE  FilterInv'
<1> DEFINE e == job[w].ev
<1> DEFINE n == job[w].rule
<1> DEFINE values == Redact(Source(e), job[w].values)
<1> DEFINE j == [ev |-> e, values |-> values, rule |-> n]
<1>1. /\ pc[w] = "match" /\ pc[w] \in Holding /\ n > Len(Source(e).rules) /\ input' = input
      /\ job' = [job EXCEPT ![w].values = values]
      /\ \/ row' = [row EXCEPT ![e].values = values] /\ Goto(w, "deliver")
         \/ row' = row /\ Goto(w, "requeue")
  BY DEF Prepare, Mine, Holding
<1>2. /\ e \in Events /\ row[e] \in RowType /\ RowFits(e, row[e])
      /\ job[w] \in JobType /\ JobFits("match", job[w], row[e])
  BY <1>1, Owner
<1>3. /\ job[w].values = Raw(e) /\ n # 0 /\ Allow(Source(e), Raw(e)) /\ row[e].values = NoVars
      /\ \A i \in 1..(n - 1) : RuleHolds(e, i)
      /\ row[e].status = "processing"
  BY <1>2 DEF JobFits, Holding
<1>4. /\ Len(Source(e).rules) \in Nat /\ Final(e) \in Stored /\ Final(e) # NoVars
  BY <1>2, SourceTypes
<1>5. values = Final(e)
  BY <1>3 DEF Final
<1>6. Verdict(e) = "passed"
  <2>1. n \in Nat
    BY <1>2 DEF JobType
  <2>2. \A i \in 1..Len(Source(e).rules) : i \in 1..(n - 1)
    BY <1>1, <1>4, <2>1
  <2> QED
    BY <1>3, <1>4, <2>2, Verdicts
<1> HIDE DEF values
<1>7. j \in JobType /\ job' = [job EXCEPT ![w] = j] /\ j.ev = e /\ j.values = values
  <2>1. [job[w] EXCEPT !.values = values] = j /\ j \in JobType
    BY <1>2, <1>4, <1>5 DEF JobType
  <2>2. job' = [job EXCEPT ![w] = [job[w] EXCEPT !.values = values]]
    BY <1>1
  <2> QED
    BY <2>1, <2>2
<1>8. CASE row' = row /\ Goto(w, "requeue")
  <2>1. row' = [row EXCEPT ![e] = row[e]]
    BY <1>2, <1>8 DEF FilterInv
  <2>2. JobFits("requeue", j, row[e]) /\ "requeue" \in Labels
    BY <1>3 DEF JobFits, Labels, Holding
  <2> HIDE DEF j
  <2> QED
    BY <1>1, <1>2, <1>7, <1>8, <2>1, <2>2, GoOn
<1>9. CASE row' = [row EXCEPT ![e].values = values] /\ Goto(w, "deliver")
  <2> DEFINE r == [status |-> "processing", values |-> values]
  <2>1. r \in RowType /\ row' = [row EXCEPT ![e] = r]
    <3>1. [row[e] EXCEPT !.values = values] = r /\ r \in RowType
      BY <1>2, <1>3, <1>4, <1>5 DEF RowType
    <3>2. row' = [row EXCEPT ![e] = [row[e] EXCEPT !.values = values]]
      BY <1>2, <1>9
    <3> QED
      BY <3>1, <3>2
  <2>2. RowFits(e, r)
    BY <1>4, <1>5, <1>6 DEF RowFits
  <2>3. JobFits("deliver", j, r) /\ "deliver" \in Labels
    BY <1>4, <1>5, <1>7 DEF JobFits, Labels, Holding
  <2> HIDE DEF j, r
  <2> QED
    BY <1>1, <1>7, <1>9, <2>1, <2>2, <2>3, GoOn
<1> QED
  BY <1>1, <1>8, <1>9

\* The steps that end a pass.
LEMMA EndSteps ==
    ASSUME FilterInv, NEW w \in Workers, Kill(w) \/ Skip(w) \/ Deliver(w) \/ Requeue(w)
    PROVE  FilterInv'
<1> DEFINE e == job[w].ev
<1>1. pc[w] \in Holding /\ pc[w] \in {"invalid", "skip", "deliver", "requeue"} /\ input' = input
  BY DEF Kill, Skip, Deliver, Requeue, Holding
<1>2. /\ e \in Events /\ row[e] \in RowType /\ RowFits(e, row[e])
      /\ JobFits(pc[w], job[w], row[e]) /\ row[e].status = "processing"
  BY <1>1, Owner
<1>3. CASE Goto(w, "requeue") /\ row' = row /\ job' = job
  <2>1. JobFits("requeue", job[w], row[e]) /\ "requeue" \in Labels
    BY <1>2 DEF JobFits, Labels, Holding
  <2> QED
    BY <1>1, <1>3, <2>1, JustGo
<1>4. CASE Leave(w) /\ row' = row
  BY <1>1, <1>4, EndStep
<1>5. ASSUME Leave(w), Update(e, "dead"), pc[w] = "invalid" PROVE FilterInv'
  <2>1. Verdict(e) = "invalid"
    BY <1>2, <1>5 DEF JobFits
  <2>2. RowFits(e, [status |-> "dead", values |-> row[e].values])
    BY <1>2, <2>1 DEF RowFits
  <2> QED
    BY <1>1, <1>5, <2>2, EndStep
<1>6. ASSUME Leave(w), Update(e, "skipped"), pc[w] = "skip" PROVE FilterInv'
  <2>1. Verdict(e) = "unmatched"
    BY <1>2, <1>6 DEF JobFits
  <2>2. RowFits(e, [status |-> "skipped", values |-> row[e].values])
    BY <1>2, <2>1 DEF RowFits
  <2> QED
    BY <1>1, <1>6, <2>2, EndStep
<1>7. ASSUME Leave(w), Update(e, "done"), pc[w] = "deliver" PROVE FilterInv'
  <2>1. row[e].values # NoVars
    BY <1>2, <1>7 DEF JobFits
  <2>2. RowFits(e, [status |-> "done", values |-> row[e].values])
    BY <1>2, <2>1 DEF RowFits
  <2> QED
    BY <1>1, <1>7, <2>2, EndStep
<1>8. ASSUME Leave(w), Update(e, "pending") PROVE FilterInv'
  <2>1. RowFits(e, [status |-> "pending", values |-> row[e].values])
    BY <1>2 DEF RowFits
  <2> QED
    BY <1>1, <1>8, <2>1, EndStep
<1> QED
  BY <1>3, <1>4, <1>5, <1>6, <1>7, <1>8 DEF Kill, Skip, Deliver, Requeue

\* A lease runs out, or the process ends: rows go back to the queue.
LEMMA ReturnSteps ==
    ASSUME FilterInv, (\E e \in Events : Expire(e)) \/ Restart
    PROVE  FilterInv'
<1>1. ASSUME NEW e \in Events, Expire(e) PROVE FilterInv'
  <2> DEFINE r == [status |-> "pending", values |-> row[e].values]
  <2>1. /\ input' = input /\ pc' = pc /\ job' = job /\ Update(e, "pending")
        /\ \A w \in Workers : job[w].ev # e
    BY <1>1 DEF Expire, work
  <2>2. r \in RowType /\ row' = [row EXCEPT ![e] = r]
    BY <2>1, WriteStatus
  <2>3. RowFits(e, row[e])
    BY DEF FilterInv
  <2>4. RowFits(e, r)
    BY <2>3 DEF RowFits
  <2> HIDE DEF r
  <2>5. row' \in [Events -> RowType] /\ row'[e] = r /\ \A f \in Events : f # e => row'[f] = row[f]
    BY <2>2 DEF FilterInv
  <2>6. \A f \in Events : RowFits(f, row[f])'
    <3>1. \A f \in Events : RowFits(f, row'[f])
      BY <2>4, <2>5 DEF FilterInv
    <3> QED
      BY <2>1, <3>1, VerdictIsFixed DEF RowFits
  <2>7. ASSUME NEW w \in Workers, pc'[w] # "idle"
        PROVE  job'[w].ev \in Events /\ JobFits(pc[w], job[w], row[job[w].ev])'
    <3>1. /\ job[w].ev \in Events /\ row'[job[w].ev] = row[job[w].ev]
          /\ JobFits(pc[w], job[w], row[job[w].ev])
      BY <2>1, <2>5, <2>7 DEF FilterInv
    <3> QED
      BY <2>1, <3>1, VerdictIsFixed DEF JobFits
  <2> QED
    BY <2>1, <2>5, <2>6, <2>7 DEF FilterInv
<1>2. CASE Restart
  <2>1. /\ input' = input /\ pc' = [w \in Workers |-> "idle"] /\ job' = [w \in Workers |-> NoJob]
        /\ row' = [e \in Events |-> IF row[e].status = "processing"
                                    THEN [row[e] EXCEPT !.status = "pending"] ELSE row[e]]
    BY <1>2 DEF Restart
  <2>2. ASSUME NEW e \in Events PROVE row'[e] \in RowType /\ RowFits(e, row'[e])
    <3>1. row[e] \in RowType /\ RowFits(e, row[e])
      BY DEF FilterInv
    <3>2. CASE row[e].status = "processing"
      <4> DEFINE r == [status |-> "pending", values |-> row[e].values]
      <4>1. row'[e] = [row[e] EXCEPT !.status = "pending"]
        BY <2>1, <3>2
      <4>2. [row[e] EXCEPT !.status = "pending"] = r /\ r \in RowType
        BY <3>1 DEF RowType
      <4>3. RowFits(e, r)
        BY <3>1 DEF RowFits
      <4> HIDE DEF r
      <4> QED
        BY <4>1, <4>2, <4>3
    <3>3. CASE row[e].status # "processing"
      BY <2>1, <3>1, <3>3
    <3> QED
      BY <3>2, <3>3
  <2>3. \A e \in Events : RowFits(e, row[e])'
    BY <2>1, <2>2, VerdictIsFixed DEF RowFits
  <2>4. row' \in [Events -> RowType]
    BY <2>1, <2>2
  <2>5. pc' \in [Workers -> Labels] /\ job' \in [Workers -> JobType]
    BY <2>1, NoJobType
  <2>6. \A w \in Workers : pc'[w] = "idle"
    BY <2>1
  <2>7. "idle" \notin Holding
    BY DEF Holding
  <2> QED
    BY <2>1, <2>3, <2>4, <2>5, <2>6, <2>7 DEF FilterInv
<1> QED
  BY <1>1, <1>2

\* Every step keeps the invariant.
LEMMA FilterInvStep == FilterInv /\ [Next]_vars => FilterInv'
<1> SUFFICES ASSUME FilterInv, [Next]_vars PROVE FilterInv'
  OBVIOUS
<1>1. CASE UNCHANGED vars
  <2>1. UNCHANGED <<input, row, pc, job>>
    BY <1>1 DEF vars, work
  <2>2. \A e \in Events : RowFits(e, row[e])'
    BY <2>1, VerdictIsFixed DEF FilterInv, RowFits
  <2>3. ASSUME NEW w \in Workers, pc[w] # "idle" PROVE JobFits(pc[w], job[w], row[job[w].ev])'
    <3>1. JobFits(pc[w], job[w], row[job[w].ev])
      BY <2>3 DEF FilterInv
    <3> QED
      BY <2>1, <3>1, VerdictIsFixed DEF JobFits
  <2> QED
    BY <2>1, <2>2, <2>3 DEF FilterInv
<1> QED
  BY <1>1, ClaimStep, RejectSteps, MatchStep, PrepareStep, EndSteps, ReturnSteps DEF Next

\* Nothing is claimed or judged at first.
LEMMA FilterInvInit == Init => FilterInv
<1> SUFFICES ASSUME Init PROVE FilterInv
  OBVIOUS
<1> DEFINE r == [status |-> "pending", values |-> NoVars]
<1>1. r \in RowType /\ r.status = "pending" /\ r.values = NoVars
  BY DEF RowType
<1>2. \A e : RowFits(e, r)
  BY <1>1 DEF RowFits
<1>3. row = [e \in Events |-> r]
  BY DEF Init
<1> HIDE DEF r
<1>4. row \in [Events -> RowType] /\ \A e \in Events : RowFits(e, row[e])
  BY <1>1, <1>2, <1>3
<1>5. "idle" \notin Holding
  BY DEF Holding
<1> QED
  BY <1>4, <1>5, NoJobType DEF Init, FilterInv

\* What the invariant says of rows and of workers about to deliver.
LEMMA FilterInvSays == FilterInv => FilteredAsConfigured
<1> SUFFICES ASSUME FilterInv PROVE FilteredAsConfigured
  OBVIOUS
<1>1. ASSUME NEW w \in Workers, pc[w] = "deliver"
      PROVE  /\ job[w].values = row[job[w].ev].values
             /\ Mine(w).redacts =>
                   \A x \in DOMAIN Mine(w).extract : job[w].values[x] \notin Secrets \ {Mask}
  <2> DEFINE e == job[w].ev
  <2>1. /\ e \in Events /\ RowFits(e, row[e]) /\ JobFits("deliver", job[w], row[e])
    BY <1>1, Owner DEF Holding
  <2>2. job[w].values = row[e].values /\ job[w].values = Final(e)
    BY <2>1 DEF JobFits, RowFits
  <2>3. DOMAIN Raw(e) = DOMAIN Source(e).extract
    BY DEF Raw, Extract
  <2>4. ASSUME Source(e).redacts, NEW x \in DOMAIN Source(e).extract
        PROVE  Final(e)[x] \notin Secrets \ {Mask}
    BY <2>3, <2>4 DEF Final, Redact
  <2> QED
    BY <2>2, <2>4 DEF Mine
<1>2. \A e \in Events : RowFits(e, row[e])
  BY DEF FilterInv
<1> QED
  BY <1>1, <1>2 DEF FilteredAsConfigured, RowFits

\* queue.executionVars: every event is skipped, killed or delivered as its own
\* snapshot says, and delivered with redacted values only.
THEOREM EventsAreFiltered == Spec => []FilteredAsConfigured
  BY FilterInvInit, FilterInvStep, FilterInvSays, PTL DEF Spec

-----------------------------------------------------------------------------
(* The drop counters                                                       *)

\* The rejected events and the workers about to count one, by counter.
Dropped(b) == {e \in Events : /\ row[e].status = "skipped" /\ Verdict(e) = "rejected"
                              /\ Bucket(input[e].source) = b}
Counting(b) == {w \in Workers : pc[w] = "count" /\ Bucket(input[job[w].ev].source) = b}

\* The property is inductive, given what FilterInv says of the workers.
DropInv ==
    /\ FilterInv
    /\ drops \in [DOMAIN drops -> Nat] /\ Other \in DOMAIN drops
    /\ starts \in Nat \ {0}
    /\ \A b \in DOMAIN drops :
          /\ drops[b] + Cardinality(Counting(b)) <= Cardinality(Dropped(b))
          /\ starts = 1 => drops[b] + Cardinality(Counting(b)) = Cardinality(Dropped(b))

\* The sets are finite.
LEMMA DropSets ==
    \A b : /\ IsFiniteSet(Dropped(b)) /\ Cardinality(Dropped(b)) \in Nat
           /\ IsFiniteSet(Counting(b)) /\ Cardinality(Counting(b)) \in Nat
<1> SUFFICES ASSUME NEW b
             PROVE  /\ IsFiniteSet(Dropped(b)) /\ Cardinality(Dropped(b)) \in Nat
                    /\ IsFiniteSet(Counting(b)) /\ Cardinality(Counting(b)) \in Nat
  OBVIOUS
<1>1. IsFiniteSet(Events) /\ IsFiniteSet(Workers)
  BY FilterAssumption DEF FilterAssumption
<1>2. Dropped(b) \in SUBSET Events /\ Counting(b) \in SUBSET Workers
  BY DEF Dropped, Counting
<1> QED
  BY <1>1, <1>2, FS_Subset, FS_CardinalityType

\* A step that neither rejects nor counts changes none of the sets.
LEMMA DropsKept ==
    ASSUME DropInv, FilterInv', input' = input, drops' = drops, starts' = starts,
           \A e \in Events : Verdict(e) = "rejected" =>
              (row'[e].status = "skipped" <=> row[e].status = "skipped"),
           \A w \in Workers : /\ pc'[w] = "count" <=> pc[w] = "count"
                              /\ pc[w] = "count" => job'[w] = job[w]
    PROVE  DropInv'
<1>1. \A b : Bucket(b)' = Bucket(b)
  BY DEF Bucket
<1>2. ASSUME NEW b PROVE Dropped(b)' = Dropped(b) /\ Counting(b)' = Counting(b)
  <2>1. Dropped(b)' = {e \in Events : /\ row'[e].status = "skipped" /\ Verdict(e) = "rejected"
                                      /\ Bucket(input[e].source) = b}
    BY <1>1, VerdictIsFixed DEF Dropped, Bucket
  <2>2. Counting(b)' = {w \in Workers : pc'[w] = "count" /\ Bucket(input[job'[w].ev].source) = b}
    BY <1>1 DEF Counting, Bucket
  <2>3. Dropped(b)' = Dropped(b)
    BY <2>1 DEF Dropped
  <2>4. Counting(b)' = Counting(b)
    BY <2>2 DEF Counting
  <2> QED
    BY <2>3, <2>4
<1> QED
  BY <1>2 DEF DropInv

\* UpdateEventStatus commits, and the worker is about to count.
LEMMA DropReject ==
    ASSUME DropInv, FilterInv', NEW w \in Workers, Reject(w), pc' = [pc EXCEPT ![w] = "count"]
    PROVE  DropInv'
<1> DEFINE e == job[w].ev
<1> DEFINE c == Bucket(input[e].source)
<1>1. pc[w] = "reject" /\ UNCHANGED <<input, job, drops, starts>> /\ pc[w] \in Holding
  BY DEF Reject, Holding
<1>2. pc'[w] = "count" /\ \A v \in Workers : v # w => pc'[v] = pc[v]
  BY DEF DropInv, FilterInv
<1>3. /\ e \in Events /\ row[e].status = "processing" /\ row[e] \in RowType
      /\ Verdict(e) = "rejected"
  BY <1>1, Owner DEF DropInv, JobFits
<1>4. Update(e, "skipped")
  BY <1>2 DEF Reject, Goto, DropInv, FilterInv
<1>5. row'[e].status = "skipped" /\ \A f \in Events : f # e => row'[f] = row[f]
  <2>1. row' = [row EXCEPT ![e].status = "skipped"] /\ row \in [Events -> RowType]
    BY <1>4 DEF Update, DropInv, FilterInv
  <2> HIDE DEF e
  <2> QED
    BY <1>3, <2>1 DEF RowType
<1>6. \A b : Bucket(b)' = Bucket(b)
  BY <1>1 DEF Bucket
<1> HIDE DEF c
<1>7. ASSUME NEW b
      PROVE  /\ Dropped(b)' = IF b = c THEN Dropped(b) \cup {e} ELSE Dropped(b)
             /\ Counting(b)' = IF b = c THEN Counting(b) \cup {w} ELSE Counting(b)
  <2>1. Dropped(b)' = {f \in Events : /\ row'[f].status = "skipped" /\ Verdict(f) = "rejected"
                                      /\ Bucket(input[f].source) = b}
    BY <1>1, <1>6, VerdictIsFixed DEF Dropped, Bucket
  <2>2. Counting(b)' = {v \in Workers : pc'[v] = "count" /\ Bucket(input[job[v].ev].source) = b}
    BY <1>1, <1>6 DEF Counting, Bucket
  <2>3. Dropped(b)' = IF b = c THEN Dropped(b) \cup {e} ELSE Dropped(b)
    BY <1>3, <1>5, <2>1 DEF Dropped, c
  <2>4. Counting(b)' = IF b = c THEN Counting(b) \cup {w} ELSE Counting(b)
    BY <1>1, <1>2, <2>2 DEF Counting, c
  <2> QED
    BY <2>3, <2>4
<1>8. e \notin Dropped(c) /\ w \notin Counting(c)
  BY <1>1, <1>3 DEF Dropped, Counting
<1>9. /\ Cardinality(Dropped(c) \cup {e}) = Cardinality(Dropped(c)) + 1
      /\ Cardinality(Counting(c) \cup {w}) = Cardinality(Counting(c)) + 1
  BY <1>8, DropSets, FS_AddElement
<1>10. ASSUME NEW b \in DOMAIN drops
       PROVE  /\ drops[b] + Cardinality(Counting(b)') <= Cardinality(Dropped(b)')
              /\ starts = 1 => drops[b] + Cardinality(Counting(b)') = Cardinality(Dropped(b)')
  <2>1. /\ drops[b] + Cardinality(Counting(b)) <= Cardinality(Dropped(b))
        /\ starts = 1 => drops[b] + Cardinality(Counting(b)) = Cardinality(Dropped(b))
        /\ drops[b] \in Nat
    BY DEF DropInv
  <2>2. Cardinality(Counting(b)) \in Nat /\ Cardinality(Dropped(b)) \in Nat
    BY DropSets
  <2>3. CASE b = c
    <3>1. Cardinality(Dropped(b)') = Cardinality(Dropped(b)) + 1
      BY <1>7, <1>9, <2>3
    <3>2. Cardinality(Counting(b)') = Cardinality(Counting(b)) + 1
      BY <1>7, <1>9, <2>3
    <3> QED
      BY <2>1, <2>2, <3>1, <3>2
  <2>4. CASE b # c
    BY <1>7, <2>1, <2>4
  <2> QED
    BY <2>3, <2>4
<1> QED
  BY <1>1, <1>10 DEF DropInv

\* The worker counts.
LEMMA DropCount ==
    ASSUME DropInv, FilterInv', NEW w \in Workers, Count(w)
    PROVE  DropInv'
<1> DEFINE e == job[w].ev
<1> DEFINE c == Bucket(input[e].source)
<1>1. /\ pc[w] = "count" /\ UNCHANGED <<input, row, starts>>
      /\ drops' = [drops EXCEPT ![c] = @ + 1]
      /\ pc' = [pc EXCEPT ![w] = "idle"] /\ job' = [job EXCEPT ![w] = NoJob]
  BY DEF Count, Leave, Goto
<1>2. c \in DOMAIN drops
  BY DEF DropInv, Bucket
<1>3. DOMAIN drops' = DOMAIN drops /\ drops' \in [DOMAIN drops -> Nat]
  BY <1>1, <1>2 DEF DropInv
<1>4. \A b : Bucket(b)' = Bucket(b)
  BY <1>3 DEF Bucket
<1> HIDE DEF c
<1>5. /\ pc'[w] = "idle" /\ \A v \in Workers : v # w => pc'[v] = pc[v] /\ job'[v] = job[v]
  BY <1>1 DEF DropInv, FilterInv
<1>6. ASSUME NEW b
      PROVE  /\ Dropped(b)' = Dropped(b)
             /\ Counting(b)' = IF b = c THEN Counting(b) \ {w} ELSE Counting(b)
  <2>1. Dropped(b)' = {f \in Events : /\ row[f].status = "skipped" /\ Verdict(f) = "rejected"
                                      /\ Bucket(input[f].source) = b}
    BY <1>1, <1>3, VerdictIsFixed DEF Dropped, Bucket
  <2>2. Counting(b)' = {v \in Workers : pc'[v] = "count" /\ Bucket(input[job'[v].ev].source) = b}
    BY <1>1, <1>3 DEF Counting, Bucket
  <2>3. Counting(b)' = IF b = c THEN Counting(b) \ {w} ELSE Counting(b)
    BY <1>1, <1>5, <2>2 DEF Counting, c
  <2> QED
    BY <2>1, <2>3 DEF Dropped
<1>7. w \in Counting(c)
  BY <1>1 DEF Counting, c
<1>8. Cardinality(Counting(c) \ {w}) = Cardinality(Counting(c)) - 1
  BY <1>7, DropSets, FS_RemoveElement
<1>9. ASSUME NEW b \in DOMAIN drops
      PROVE  /\ drops'[b] + Cardinality(Counting(b)') <= Cardinality(Dropped(b)')
             /\ starts = 1 => drops'[b] + Cardinality(Counting(b)') = Cardinality(Dropped(b)')
  <2>1. /\ drops[b] + Cardinality(Counting(b)) <= Cardinality(Dropped(b))
        /\ starts = 1 => drops[b] + Cardinality(Counting(b)) = Cardinality(Dropped(b))
        /\ drops[b] \in Nat
    BY DEF DropInv
  <2>2. Cardinality(Counting(b)) \in Nat /\ Cardinality(Dropped(b)) \in Nat
    BY DropSets
  <2>3. CASE b = c
    <3>1. drops'[b] = drops[b] + 1
      BY <1>1, <1>2, <2>3
    <3>2. Cardinality(Counting(b)') = Cardinality(Counting(b)) - 1
      BY <1>6, <1>8, <2>3
    <3> QED
      BY <1>6, <2>1, <2>2, <3>1, <3>2
  <2>4. CASE b # c
    <3>1. drops'[b] = drops[b]
      BY <1>1, <2>4 DEF DropInv
    <3> QED
      BY <1>6, <2>1, <2>4, <3>1
  <2> QED
    BY <2>3, <2>4
<1> QED
  BY <1>1, <1>3, <1>9 DEF DropInv

\* The other steps of a worker.
LEMMA DropOthers ==
    ASSUME DropInv, FilterInv', NEW w \in Workers,
           \/ \E e \in Events : Claim(w, e)
           \/ MatchRule(w) \/ Kill(w) \/ Skip(w) \/ Prepare(w) \/ Deliver(w) \/ Requeue(w)
           \/ Reject(w) /\ pc' = [pc EXCEPT ![w] = "requeue"] /\ row' = row
    PROVE  DropInv'
<1>0. FilterInv
  BY DEF DropInv
<1>1. /\ input' = input /\ drops' = drops /\ starts' = starts /\ pc[w] # "count"
      /\ \A v \in Workers : v # w => pc'[v] = pc[v] /\ job'[v] = job[v]
      /\ pc'[w] # "count"
  BY <1>0 DEF Claim, MatchRule, Kill, Skip, Prepare, Deliver, Requeue, Reject, Leave, Goto,
              FilterInv, FirstStep
<1>2. ASSUME NEW f \in Events, Verdict(f) = "rejected"
      PROVE  row'[f].status = "skipped" <=> row[f].status = "skipped"
  <2>1. CASE row'[f] = row[f]
    BY <2>1
  <2>2. ASSUME NEW e \in Events, Update(e, "processing"), row[e].status = "pending"
        PROVE  row'[f].status = "skipped" <=> row[f].status = "skipped"
    BY <1>0, <2>2 DEF Update, FilterInv, RowType
  <2>3. ASSUME pc[w] \in Holding, NEW status \in {"dead", "done", "pending"}, Update(job[w].ev, status)
        PROVE  row'[f].status = "skipped" <=> row[f].status = "skipped"
    <3>1. job[w].ev \in Events /\ row[job[w].ev].status = "processing"
      BY <1>0, <2>3, Owner
    <3> QED
      BY <1>0, <2>3, <3>1 DEF Update, FilterInv, RowType
  <2>4. ASSUME pc[w] = "skip", Update(job[w].ev, "skipped")
        PROVE  row'[f].status = "skipped" <=> row[f].status = "skipped"
    <3>1. job[w].ev \in Events /\ Verdict(job[w].ev) = "unmatched"
      BY <1>0, <2>4, Owner DEF JobFits, Holding
    <3>2. f # job[w].ev
      BY <1>2, <3>1
    <3> QED
      BY <1>0, <2>4, <3>1, <3>2 DEF Update, FilterInv
  <2>5. ASSUME pc[w] \in Holding, NEW values, row' = [row EXCEPT ![job[w].ev].values = values]
        PROVE  row'[f].status = "skipped" <=> row[f].status = "skipped"
    <3>1. job[w].ev \in Events
      BY <1>0, <2>5, Owner
    <3> QED
      BY <1>0, <2>5, <3>1 DEF FilterInv, RowType
  <2> QED
    BY <2>1, <2>2, <2>3, <2>4, <2>5
       DEF Claim, MatchRule, Kill, Skip, Prepare, Deliver, Requeue, Reject, Holding
<1> QED
  BY <1>1, <1>2, DropsKept

\* The counters of a new process begin at nothing.
LEMMA DropRestart ==
    ASSUME DropInv, FilterInv', Restart
    PROVE  DropInv'
<1>1. /\ starts' = starts + 1 /\ pc' = [w \in Workers |-> "idle"]
      /\ drops' = [s \in active' \cup {Other} |-> 0]
  BY DEF Restart, NewCounters
<1>2. /\ drops' \in [DOMAIN drops' -> Nat] /\ Other \in DOMAIN drops'
      /\ \A b \in DOMAIN drops' : drops'[b] = 0
  BY <1>1
<1>3. starts' \in Nat \ {0} /\ starts' # 1
  BY <1>1 DEF DropInv
<1>4. ASSUME NEW b
      PROVE  /\ Cardinality(Counting(b)') = 0
             /\ Cardinality(Dropped(b)') \in Nat
  <2>1. Counting(b)' = {}
    BY <1>1 DEF Counting
  <2>2. IsFiniteSet(Events) /\ Dropped(b)' \in SUBSET Events
    BY FilterAssumption DEF FilterAssumption, Dropped
  <2>3. Cardinality(Dropped(b)') \in Nat
    BY <2>2, FS_Subset, FS_CardinalityType
  <2> QED
    BY <2>1, <2>3, FS_EmptySet
<1> QED
  BY <1>2, <1>3, <1>4 DEF DropInv

\* Every step keeps the invariant.
LEMMA DropInvStep == DropInv /\ [Next]_vars => DropInv'
<1> SUFFICES ASSUME DropInv, [Next]_vars PROVE DropInv'
  OBVIOUS
<1>1. FilterInv /\ FilterInv'
  BY FilterInvStep DEF DropInv
<1>2. CASE UNCHANGED vars
  <2>1. UNCHANGED <<input, drops, starts, row, pc, job>>
    BY <1>2 DEF vars, work
  <2> QED
    BY <1>1, <2>1, DropsKept
<1>3. ASSUME NEW e \in Events, Expire(e) PROVE DropInv'
  <2>1. /\ UNCHANGED <<input, drops, starts, pc, job>> /\ row[e].status = "processing"
        /\ Update(e, "pending")
    BY <1>3 DEF Expire, work
  <2>2. \A f \in Events : row'[f].status = "skipped" <=> row[f].status = "skipped"
    BY <1>1, <2>1 DEF Update, FilterInv, RowType
  <2> QED
    BY <1>1, <2>1, <2>2, DropsKept
<1>4. ASSUME NEW w \in Workers, Reject(w) PROVE DropInv'
  <2>1. pc' = [pc EXCEPT ![w] = "count"] \/ (pc' = [pc EXCEPT ![w] = "requeue"] /\ row' = row)
    BY <1>4 DEF Reject, Goto
  <2> QED
    BY <1>1, <1>4, <2>1, DropReject, DropOthers
<1>5. CASE Restart
  BY <1>1, <1>5, DropRestart
<1>6. ASSUME NEW w \in Workers,
             \/ \E e \in Events : Claim(w, e)
             \/ MatchRule(w) \/ Kill(w) \/ Skip(w) \/ Prepare(w) \/ Deliver(w) \/ Requeue(w)
      PROVE  DropInv'
  BY <1>1, <1>6, DropOthers
<1>7. ASSUME NEW w \in Workers, Count(w) PROVE DropInv'
  BY <1>1, <1>7, DropCount
<1> QED
  BY <1>2, <1>3, <1>4, <1>5, <1>6, <1>7 DEF Next

\* At first nothing is skipped and nothing counted.
LEMMA DropInvInit == Init => DropInv
<1> SUFFICES ASSUME Init PROVE DropInv
  OBVIOUS
<1>1. FilterInv
  BY FilterInvInit
<1>2. /\ drops \in [DOMAIN drops -> Nat] /\ Other \in DOMAIN drops /\ starts \in Nat \ {0}
      /\ \A b \in DOMAIN drops : drops[b] = 0
  BY DEF Init, NewCounters
<1>3. \A b : Dropped(b) = {} /\ Counting(b) = {}
  BY DEF Init, Dropped, Counting
<1> QED
  BY <1>1, <1>2, <1>3, FS_EmptySet DEF DropInv

\* policy.Counters: a rejection is counted once and after its commit.
THEOREM DropsAreCounted == Spec => []DropsAreCommitted
<1>1. DropInv => DropsAreCommitted
  BY DEF DropInv, DropsAreCommitted, Dropped, Counting
<1> QED
  BY <1>1, DropInvInit, DropInvStep, PTL DEF Spec

-----------------------------------------------------------------------------
(* The cache of compiled patterns                                          *)

\* The ring and its types; RingMatchesMap is inductive with them.
RingInv ==
    /\ next \in Slots
    /\ order \in [Slots -> Patterns \cup {Empty}]
    /\ RingMatchesMap

\* Slots are numbers.
LEMMA SlotNumbers ==
    /\ Size \in Nat \ {0}
    /\ \A s \in Slots : s \in Nat /\ s < Size
    /\ \A s \in Nat : s < Size => s \in Slots
  BY CacheAssumption DEF CacheAssumption, Slots

\* The remainder, where the ring needs it.
LEMMA Wrap ==
    \A m \in Nat : /\ m < Size => m % Size = m
                   /\ Size <= m /\ m < Size + Size => m % Size = m - Size
  BY SlotNumbers

\* Empty slots are the ones from next on, if there are any.
LEMMA EmptySlots ==
    ASSUME RingInv
    PROVE  /\ order[next] = Empty => \A s \in Slots : order[s] = Empty <=> s >= next
           /\ order[next] # Empty => \A s \in Slots : order[s] # Empty
<1>1. next \in Slots /\ next \in Nat /\ next >= next
  BY SlotNumbers DEF RingInv
<1>2. \A s \in Slots : order[s] = Empty <=> s >= next /\ \E u \in Slots : u >= next /\ order[u] = Empty
  BY DEF RingInv, RingMatchesMap
<1> QED
  BY <1>1, <1>2

\* The map is full when the slot about to be written is not empty: compile
\* evicts exactly then.
LEMMA FullMap ==
    ASSUME RingInv
    PROVE  Cardinality(entries) = Size <=> order[next] # Empty
<1> DEFINE used == IF order[next] = Empty THEN 0..(next - 1) ELSE Slots
<1> DEFINE n == IF order[next] = Empty THEN next ELSE Size
<1>1. next \in Nat /\ next < Size /\ Size \in Nat \ {0}
  BY SlotNumbers DEF RingInv
<1>2. IsFiniteSet(used) /\ Cardinality(used) = n
  <2>1. IsFiniteSet(0..(next - 1)) /\ Cardinality(0..(next - 1)) = next
    <3>1. 0 \in Int /\ next - 1 \in Int
      BY <1>1
    <3>2. Cardinality(0..(next - 1)) = IF 0 > next - 1 THEN 0 ELSE (next - 1) - 0 + 1
      BY <3>1, FS_Interval
    <3>3. (IF 0 > next - 1 THEN 0 ELSE (next - 1) - 0 + 1) = next
      BY <1>1
    <3> QED
      BY <3>1, <3>2, <3>3, FS_Interval
  <2>2. IsFiniteSet(Slots) /\ Cardinality(Slots) = Size
    <3>1. 0 \in Int /\ Size - 1 \in Int
      BY <1>1
    <3>2. Cardinality(0..(Size - 1)) = IF 0 > Size - 1 THEN 0 ELSE (Size - 1) - 0 + 1
      BY <3>1, FS_Interval
    <3>3. (IF 0 > Size - 1 THEN 0 ELSE (Size - 1) - 0 + 1) = Size
      BY <1>1
    <3> QED
      BY <3>1, <3>2, <3>3, FS_Interval DEF Slots
  <2> QED
    BY <2>1, <2>2
<1>3. used = {s \in Slots : order[s] # Empty}
  <2>1. CASE order[next] = Empty
    <3>1. \A s : s \in 0..(next - 1) <=> s \in Slots /\ ~(s >= next)
      BY <1>1, SlotNumbers DEF Slots
    <3> QED
      BY <2>1, <3>1, EmptySlots
  <2>2. CASE order[next] # Empty
    BY <2>2, EmptySlots
  <2> QED
    BY <2>1, <2>2
<1> HIDE DEF used
<1> DEFINE f == [s \in used |-> order[s]]
<1>4. f \in Bijection(used, entries)
  <2>1. \A s \in used : s \in Slots /\ order[s] # Empty /\ order[s] \in entries
    BY <1>3 DEF RingInv, RingMatchesMap
  <2>2. \A x \in entries : \E s \in used : order[s] = x
    BY <1>3 DEF RingInv, RingMatchesMap
  <2>3. \A s, u \in used : order[s] = order[u] => s = u
    BY <2>1 DEF RingInv, RingMatchesMap
  <2> QED
    BY <2>1, <2>2, <2>3 DEF Bijection, Injection, Surjection, IsInjective
<1>5. Cardinality(entries) = n
  <2>1. ExistsBijection(used, entries)
    BY <1>4 DEF ExistsBijection
  <2>2. Cardinality(entries) = Cardinality(used)
    BY <1>2, <2>1, FS_Bijection
  <2> QED
    BY <1>2, <2>2
<1> QED
  BY <1>1, <1>5

\* The slot after next.
LEMMA NextSlotIs ==
    ASSUME RingInv
    PROVE  /\ NextSlot(next) = (IF next + 1 < Size THEN next + 1 ELSE 0)
           /\ NextSlot(next) \in Slots
<1>1. next \in Nat /\ next < Size /\ Size \in Nat \ {0}
  BY SlotNumbers DEF RingInv
<1>2. next + 1 \in Nat /\ (next + 1 < Size \/ next + 1 = Size)
  BY <1>1
<1>3. NextSlot(next) = (IF next + 1 < Size THEN next + 1 ELSE 0)
  <2>1. CASE next + 1 < Size
    BY <1>2, <2>1, Wrap DEF NextSlot
  <2>2. CASE next + 1 = Size
    <3>1. (next + 1) % Size = (next + 1) - Size
      BY <1>1, <1>2, <2>2, Wrap
    <3> QED
      BY <1>1, <2>2, <3>1 DEF NextSlot
  <2> QED
    BY <1>1, <1>2, <2>1, <2>2
<1>4. (IF next + 1 < Size THEN next + 1 ELSE 0) \in Slots
  BY <1>1, <1>2, SlotNumbers
<1> QED
  BY <1>3, <1>4

\* A pattern comes in, and the one in its slot goes.
LEMMA InsertKeepsRing ==
    ASSUME RingInv, NEW p \in Patterns, Insert(p)
    PROVE  RingInv'
<1> DEFINE m == NextSlot(next)
<1>1. /\ p \notin entries /\ entries' = (entries \ Evicted) \cup {p}
      /\ order' = [order EXCEPT ![next] = p] /\ next' = m
  BY DEF Insert
<1>2. p # Empty
  BY CacheAssumption DEF CacheAssumption
<1>3. next \in Slots /\ order \in [Slots -> Patterns \cup {Empty}]
  BY DEF RingInv
<1>4. m = (IF next + 1 < Size THEN next + 1 ELSE 0) /\ m \in Slots
  BY NextSlotIs
<1>5. next \in Nat /\ Size \in Nat \ {0} /\ next < Size
  BY <1>3, SlotNumbers
<1> HIDE DEF m
<1>6. /\ order' \in [Slots -> Patterns \cup {Empty}] /\ order'[next] = p
      /\ \A s \in Slots : s # next => order'[s] = order[s]
  BY <1>1, <1>3
<1>7. Evicted = {order[next]} \ {Empty}
  BY FullMap DEF Evicted
<1>8. /\ entries = {order[s] : s \in Slots} \ {Empty}
      /\ \A s, u \in Slots : order[s] = order[u] /\ order[s] # Empty => s = u
  BY DEF RingInv, RingMatchesMap
<1>9. \A s \in Slots : order[s] # p
  BY <1>1, <1>2, <1>8
<1>10. entries' = {order'[s] : s \in Slots} \ {Empty}
  <2>1. ASSUME NEW x \in entries' PROVE x # Empty /\ \E s \in Slots : x = order'[s]
    <3>1. CASE x = p
      BY <1>2, <1>3, <1>6, <3>1
    <3>2. CASE x # p
      <4>1. x \in entries /\ x # order[next] /\ x # Empty
        BY <1>1, <1>7, <1>8, <2>1, <3>2
      <4>2. PICK s \in Slots : x = order[s]
        BY <1>8, <4>1
      <4> QED
        BY <1>6, <4>1, <4>2
    <3> QED
      BY <3>1, <3>2
  <2>2. ASSUME NEW s \in Slots, order'[s] # Empty PROVE order'[s] \in entries'
    <3>1. CASE s = next
      BY <1>1, <1>6, <3>1
    <3>2. CASE s # next
      <4>1. order'[s] = order[s] /\ order[s] \in entries
        BY <1>6, <1>8, <2>2, <3>2
      <4>2. order[s] # order[next]
        BY <1>3, <1>8, <2>2, <3>2, <4>1
      <4> QED
        BY <1>1, <1>7, <4>1, <4>2
    <3> QED
      BY <3>1, <3>2
  <2> QED
    BY <2>1, <2>2
<1>11. \A s, u \in Slots : order'[s] = order'[u] /\ order'[s] # Empty => s = u
  BY <1>6, <1>8, <1>9
<1>12. \A s \in Slots : order'[s] = Empty <=>
          s >= m /\ \E u \in Slots : u >= m /\ order'[u] = Empty
  <2>1. CASE order[next] # Empty
    <3>1. \A s \in Slots : order'[s] # Empty
      BY <1>2, <1>6, <2>1, EmptySlots
    <3> QED
      BY <3>1
  <2>2. CASE order[next] = Empty
    <3>1. \A s \in Slots : order[s] = Empty <=> s >= next
      BY <2>2, EmptySlots
    <3>2. \A s \in Slots : s \in Nat /\ s < Size
      BY SlotNumbers
    <3>3. \A s \in Slots : order'[s] = Empty <=> s >= next + 1
      <4>1. \A s \in Slots : s # next => (s >= next <=> s >= next + 1)
        BY <1>5, <3>2
      <4>2. ~(next >= next + 1)
        BY <1>5
      <4> QED
        BY <1>2, <1>6, <3>1, <4>1, <4>2
    <3>4. CASE next + 1 < Size
      <4>1. m = next + 1 /\ m \in Slots /\ m >= m
        BY <1>4, <1>5, <3>4
      <4> QED
        BY <3>3, <4>1
    <3>5. CASE ~(next + 1 < Size)
      <4>1. \A s \in Slots : ~(s >= next + 1)
        BY <1>5, <3>2, <3>5
      <4> QED
        BY <3>3, <4>1
    <3> QED
      BY <3>4, <3>5
  <2> QED
    BY <2>1, <2>2
<1> QED
  BY <1>1, <1>4, <1>6, <1>10, <1>11, <1>12 DEF RingInv, RingMatchesMap

\* The ring as a sequence: its length, its members, and where they sit.
QueueFits ==
    /\ Queue \in Seq(Patterns \cup {Empty})
    /\ Len(Queue) = (IF order[next] = Empty THEN next ELSE Size)
    /\ \A i \in 1..Len(Queue) : \E s \in Slots : Queue[i] = order[s]

\* The ring read from next on is a queue of at most Size patterns.
LEMMA QueueIs == RingInv => QueueFits
<1> SUFFICES ASSUME RingInv PROVE QueueFits
  OBVIOUS
<1>1. next \in Nat /\ next < Size /\ Size \in Nat \ {0}
  BY SlotNumbers DEF RingInv
<1>2. \A s \in Slots : order[s] \in Patterns \cup {Empty}
  BY DEF RingInv
<1>3. CASE order[next] = Empty
  <2>1. \A i \in 1..next : i - 1 \in Slots
    BY <1>1, SlotNumbers
  <2>2. Queue = [i \in 1..next |-> order[i - 1]]
    BY <1>3 DEF Queue
  <2> QED
    BY <1>1, <1>2, <1>3, <2>1, <2>2 DEF QueueFits
<1>4. CASE order[next] # Empty
  <2>1. \A i \in 1..Size : (next + i - 1) % Size \in Slots
    <3> SUFFICES ASSUME NEW i \in 1..Size PROVE (next + i - 1) % Size \in Slots
      OBVIOUS
    <3>1. next + i - 1 \in Nat
      BY <1>1
    <3>2. (next + i - 1) % Size \in 0..(Size - 1)
      BY <1>1, <3>1
    <3> QED
      BY <3>2 DEF Slots
  <2>2. Queue = [i \in 1..Size |-> order[(next + i - 1) % Size]]
    BY <1>4 DEF Queue
  <2>3. Queue \in Seq(Patterns \cup {Empty}) /\ Len(Queue) = Size
    <3>1. \A i \in 1..Size : order[(next + i - 1) % Size] \in Patterns \cup {Empty}
      BY <1>2, <2>1
    <3>2. Queue \in [1..Size -> Patterns \cup {Empty}]
      BY <2>2, <3>1
    <3> QED
      BY <1>1, <3>2
  <2>4. \A i \in 1..Size : Queue[i] = order[(next + i - 1) % Size]
    BY <2>2
  <2> QED
    BY <1>4, <2>1, <2>3, <2>4 DEF QueueFits
<1> QED
  BY <1>3, <1>4

\* A sequence is what its length and its members make it.
LEMMA AppendIs ==
    ASSUME NEW S, NEW q \in Seq(S), NEW x \in S, NEW r \in Seq(S),
           Len(r) = Len(q) + 1, r[Len(q) + 1] = x, \A i \in 1..Len(q) : r[i] = q[i]
    PROVE  r = Append(q, x)
  OBVIOUS

\* The tail of a queue is the queue without its first entry.
LEMMA TailIs ==
    ASSUME NEW S, NEW q \in Seq(S), Len(q) # 0
    PROVE  /\ Tail(q) \in Seq(S) /\ Len(Tail(q)) = Len(q) - 1
           /\ \A i \in 1..(Len(q) - 1) : Tail(q)[i] = q[i + 1]
<1>1. q # <<>> /\ Len(q) \in Nat /\ Len(Tail(q)) = Len(q) - 1
  OBVIOUS
<1>2. Tail(q) \in Seq(S)
  BY <1>1
<1> QED
  BY <1>1, <1>2

\* A pattern that comes in is put at the end of the queue, and the oldest one
\* goes if the ring is full.
LEMMA InsertIsPut ==
    ASSUME RingInv, NEW p \in Patterns, Insert(p)
    PROVE  Fifo!Put(p)
<1> DEFINE S == Patterns \cup {Empty}
<1> DEFINE q == IF Len(Queue) = Size THEN Tail(Queue) ELSE Queue
<1>1. /\ p \notin entries /\ order' = [order EXCEPT ![next] = p] /\ next' = NextSlot(next)
  BY DEF Insert
<1>2. /\ next \in Slots /\ order \in [Slots -> S]
      /\ next \in Nat /\ next < Size /\ Size \in Nat \ {0}
  BY SlotNumbers DEF RingInv
<1>3. next' = (IF next + 1 < Size THEN next + 1 ELSE 0) /\ next' \in Slots
  BY <1>1, NextSlotIs
<1>4. /\ order'[next] = p /\ p # Empty
      /\ \A s \in Slots : s # next => order'[s] = order[s]
  BY <1>1, <1>2, CacheAssumption DEF CacheAssumption
<1>5. \A s \in Slots : order[s] # p
  BY <1>1, <1>4 DEF RingInv, RingMatchesMap
<1>6. ~ \E i \in 1..Len(Queue) : Queue[i] = p
  BY <1>5, QueueIs DEF QueueFits
<1>7. RingInv'
  BY InsertKeepsRing
<1>8. Queue' \in Seq(S) /\ Len(Queue') = (IF order'[next'] = Empty THEN next' ELSE Size)
  <2>1. QueueFits'
    BY <1>7, QueueIs, PTL
  <2> QED
    BY <2>1 DEF QueueFits
<1>9. ASSUME order[next] = Empty PROVE Queue' = Append(q, p)
  <2>1. \A s \in Slots : order[s] = Empty <=> s >= next
    BY <1>9, EmptySlots
  <2>2. Queue \in Seq(S) /\ Len(Queue) = next /\ Queue = [i \in 1..next |-> order[i - 1]]
    BY <1>9, QueueIs DEF QueueFits, Queue
  <2>3. q = Queue
    BY <1>2, <2>2
  <2>4. \A i \in 1..next : i - 1 \in Slots /\ i - 1 # next /\ Queue[i] = order'[i - 1]
    BY <1>2, <1>4, <2>2, SlotNumbers
  <2>5. Len(Queue') = next + 1 /\ \A i \in 1..(next + 1) : Queue'[i] = order'[i - 1]
    <3>1. CASE next + 1 < Size
      <4>1. next' = next + 1 /\ next + 1 \in Slots /\ next + 1 >= next
        BY <1>2, <1>3, <3>1
      <4>2. order'[next'] = Empty
        BY <1>2, <1>4, <2>1, <4>1
      <4>3. Queue' = [i \in 1..(next + 1) |-> order'[i - 1]]
        BY <4>1, <4>2 DEF Queue
      <4> QED
        BY <1>8, <4>1, <4>2, <4>3
    <3>2. CASE next + 1 = Size
      <4>1. next' = 0 /\ 0 \in Slots
        BY <1>2, <1>3, <3>2, SlotNumbers
      <4>2. order'[next'] # Empty
        BY <1>2, <1>4, <2>1, <4>1
      <4>3. Queue' = [i \in 1..Size |-> order'[(0 + i - 1) % Size]]
        BY <4>1, <4>2 DEF Queue
      <4>4. \A i \in 1..Size : (0 + i - 1) % Size = i - 1
        BY <1>2, Wrap
      <4>5. \A i \in 1..Size : Queue'[i] = order'[i - 1]
        BY <4>3, <4>4
      <4> QED
        BY <1>8, <3>2, <4>2, <4>5
    <3> QED
      BY <1>2, <3>1, <3>2
  <2>6. Queue'[next + 1] = p
    BY <1>2, <1>4, <2>5
  <2>7. \A i \in 1..next : Queue'[i] = Queue[i]
    BY <1>2, <2>4, <2>5
  <2>8. Queue' = Append(Queue, p)
    BY <1>8, <2>2, <2>5, <2>6, <2>7, AppendIs
  <2> QED
    BY <2>3, <2>8
<1>10. ASSUME order[next] # Empty PROVE Queue' = Append(q, p)
  <2>1. \A s \in Slots : order[s] # Empty
    BY <1>10, EmptySlots
  <2>2. /\ Queue \in Seq(S) /\ Len(Queue) = Size
        /\ Queue = [i \in 1..Size |-> order[(next + i - 1) % Size]]
    BY <1>10, QueueIs DEF QueueFits, Queue
  <2>3. q = Tail(Queue)
    BY <2>2
  <2>4. order'[next'] # Empty
    BY <1>3, <1>4, <2>1
  <2>5. Len(Queue') = Size /\ Queue' = [i \in 1..Size |-> order'[(next' + i - 1) % Size]]
    BY <1>8, <2>4 DEF Queue
  <2>6. /\ Tail(Queue) \in Seq(S) /\ Len(Tail(Queue)) = Size - 1
        /\ \A i \in 1..(Size - 1) : Tail(Queue)[i] = Queue[i + 1]
    BY <1>2, <2>2, TailIs
  <2>7. \A i \in 1..(Size - 1) : Queue'[i] = Tail(Queue)[i]
    <3> SUFFICES ASSUME NEW i \in 1..(Size - 1) PROVE Queue'[i] = Tail(Queue)[i]
      OBVIOUS
    <3> DEFINE s == (next + i) % Size
    <3>1. i \in Nat /\ 1 <= i /\ i < Size
      BY <1>2
    <3>2. s = (IF next + i < Size THEN next + i ELSE next + i - Size)
      BY <1>2, <3>1, Wrap
    <3>3. s \in Slots /\ s # next
      BY <1>2, <3>1, <3>2, SlotNumbers
    <3>4. (next' + i - 1) % Size = s
      <4>1. CASE next + 1 < Size
        <5>1. next' + i - 1 = next + i
          BY <1>2, <1>3, <3>1, <4>1
        <5> QED
          BY <5>1
      <4>2. CASE next + 1 = Size
        <5>1. next' + i - 1 = i - 1 /\ (i - 1) % Size = i - 1
          BY <1>2, <1>3, <3>1, <4>2, Wrap
        <5> QED
          BY <1>2, <3>1, <3>2, <4>2, <5>1
      <4> QED
        BY <1>2, <4>1, <4>2
    <3>5. next + (i + 1) - 1 = next + i /\ i + 1 \in 1..Size /\ i \in 1..Size
      BY <1>2, <3>1
    <3> HIDE DEF s
    <3>6. Queue'[i] = order'[s]
      BY <2>5, <3>4, <3>5
    <3>7. Queue[i + 1] = order[s]
      BY <2>2, <3>5 DEF s
    <3> QED
      BY <1>4, <2>6, <3>3, <3>6, <3>7
  <2>8. Queue'[Size] = p
    <3>1. (next' + Size - 1) % Size = next
      <4>1. CASE next + 1 < Size
        <5>1. /\ next' + Size - 1 = next + Size /\ next + Size \in Nat
              /\ Size <= next + Size /\ next + Size < Size + Size
          BY <1>2, <1>3, <4>1
        <5>2. (next + Size) % Size = next + Size - Size
          BY <1>2, <5>1, Wrap
        <5> QED
          BY <1>2, <5>1, <5>2
      <4>2. CASE next + 1 = Size
        <5>1. next' + Size - 1 = next
          BY <1>2, <1>3, <4>2
        <5> QED
          BY <1>2, <5>1, Wrap
      <4> QED
        BY <1>2, <4>1, <4>2
    <3>2. Size \in 1..Size
      BY <1>2
    <3> QED
      BY <1>4, <2>5, <3>1, <3>2
  <2>9. Len(Queue') = (Size - 1) + 1 /\ (Size - 1) + 1 = Size
    BY <1>2, <2>5
  <2>10. Queue' = Append(Tail(Queue), p)
    BY <1>8, <2>6, <2>7, <2>8, <2>9, AppendIs
  <2> QED
    BY <2>3, <2>10
<1>11. Queue' = Append(q, p)
  BY <1>9, <1>10
<1> QED
  BY <1>6, <1>11 DEF Fifo!Put, Fifo!Present

\* A step leaves the cache alone, begins it anew, or looks up a rule's pattern.
LEMMA CacheSteps ==
    ASSUME FilterInv, [Next]_vars
    PROVE  \/ UNCHANGED cache
           \/ Restart
           \/ \E p \in Patterns : Insert(p)
<1>1. ASSUME NEW w \in Workers, MatchRule(w)
      PROVE  UNCHANGED cache \/ \E p \in Patterns : Insert(p)
  <2> DEFINE e == job[w].ev
  <2> DEFINE p == Source(e).rules[job[w].rule].regex
  <2>1. pc[w] = "match" /\ job[w].rule <= Len(Source(e).rules) /\ Compile(p)
    BY <1>1 DEF MatchRule, Mine
  <2>2. e \in Events /\ job[w].rule \in Nat \ {0}
    BY <2>1, Owner DEF Holding, JobFits, JobType
  <2>3. p \in Patterns
    <3>1. /\ Len(Source(e).rules) \in Nat
          /\ \A i \in 1..Len(Source(e).rules) : Source(e).rules[i].regex \in Patterns
      BY <2>2, SourceTypes
    <3>2. job[w].rule \in 1..Len(Source(e).rules)
      BY <2>1, <2>2, <3>1
    <3> QED
      BY <3>1, <3>2
  <2> QED
    BY <2>1, <2>3 DEF Compile, Lookup
<1>2. ASSUME NEW w \in Workers,
             \/ \E e \in Events : Claim(w, e)
             \/ Reject(w) \/ Count(w) \/ Kill(w) \/ Skip(w)
             \/ Prepare(w) \/ Deliver(w) \/ Requeue(w)
      PROVE  UNCHANGED cache
  BY <1>2 DEF Claim, Reject, Count, Kill, Skip, Prepare, Deliver, Requeue
<1>3. ASSUME NEW e \in Events, Expire(e) PROVE UNCHANGED cache
  BY <1>3 DEF Expire
<1>4. CASE UNCHANGED vars
  BY <1>4 DEF vars
<1> QED
  BY <1>1, <1>2, <1>3, <1>4 DEF Next

\* An empty ring is a ring.
LEMMA RingInvInit ==
    ASSUME NEW E, NEW o, NEW n, E = {}, o = [s \in Slots |-> Empty], n = 0
    PROVE  /\ n \in Slots /\ o \in [Slots -> Patterns \cup {Empty}]
           /\ E = {o[s] : s \in Slots} \ {Empty}
           /\ \A s, u \in Slots : o[s] = o[u] /\ o[s] # Empty => s = u
           /\ \A s \in Slots : o[s] = Empty <=>
                 s >= n /\ \E u \in Slots : u >= n /\ o[u] = Empty
<1>1. 0 \in Slots /\ 0 >= 0 /\ \A s \in Slots : s >= 0
  BY SlotNumbers
<1> QED
  BY <1>1

\* Every step keeps the ring in order.
LEMMA RingInvStep == FilterInv /\ RingInv /\ [Next]_vars => RingInv'
<1> SUFFICES ASSUME FilterInv, RingInv, [Next]_vars PROVE RingInv'
  OBVIOUS
<1>1. CASE UNCHANGED cache
  BY <1>1 DEF cache, RingInv, RingMatchesMap
<1>2. CASE Restart
  <2>1. entries' = {} /\ order' = [s \in Slots |-> Empty] /\ next' = 0
    BY <1>2 DEF Restart
  <2> QED
    BY <2>1, RingInvInit DEF RingInv, RingMatchesMap
<1>3. CASE \E p \in Patterns : Insert(p)
  BY <1>3, InsertKeepsRing
<1> QED
  BY <1>1, <1>2, <1>3, CacheSteps

\* router.compile: the shared cache implements the first-in first-out cache of
\* FifoCache, from one start of the process to the next.
THEOREM CacheFollowsFifo == Spec => CacheIsFifo
<1> DEFINE Step == \/ starts' # starts
                   \/ UNCHANGED Queue
                   \/ \E p \in Patterns \ (Invalid \cup Long) : Fifo!Put(p)
<1>1. Init => RingInv
  <2> SUFFICES ASSUME Init PROVE RingInv
    OBVIOUS
  <2>1. entries = {} /\ order = [s \in Slots |-> Empty] /\ next = 0
    BY DEF Init, CacheInit
  <2> QED
    BY <2>1, RingInvInit DEF RingInv, RingMatchesMap
<1>2. DropInv => FilterInv
  BY DEF DropInv
<1>3. DropInv /\ RingInv /\ [Next]_vars => Step
  <2> SUFFICES ASSUME DropInv, RingInv, [Next]_vars PROVE Step
    OBVIOUS
  <2>1. CASE UNCHANGED cache
    BY <2>1 DEF cache, Queue
  <2>2. CASE Restart
    BY <2>2 DEF Restart, DropInv
  <2>3. ASSUME NEW p \in Patterns, Insert(p) PROVE Step
    <3>1. p \in Patterns \ (Invalid \cup Long)
      BY <2>3 DEF Insert
    <3> QED
      BY <2>3, <3>1, InsertIsPut
  <2> QED
    BY <1>2, <2>1, <2>2, <2>3, CacheSteps
<1>4. RingInv => RingMatchesMap
  BY DEF RingInv
<1>5. Spec => []DropInv /\ []RingInv
  BY <1>1, <1>2, DropInvInit, DropInvStep, RingInvStep, PTL DEF Spec
<1>6. Spec => [][Step]_vars
  BY <1>3, <1>5, PTL DEF Spec
<1> QED
  BY <1>4, <1>5, <1>6, PTL DEF CacheIsFifo

=============================================================================
