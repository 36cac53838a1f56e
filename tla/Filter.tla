------------------------------- MODULE Filter -------------------------------
(***************************************************************************)
(* What decides whether a stored webhook is delivered, and with which      *)
(* values (queue.executionVars): the variables are extracted, the source's *)
(* allowlist is asked (policy.Allow), the rules are matched one by one     *)
(* through the cache all workers share (router.Match), and what passes is  *)
(* redacted and stored (policy.Redact, PrepareEvent).  An event that was   *)
(* interrupted after that is delivered with the stored variables.          *)
(*                                                                         *)
(* The cache and the drop counters live in memory, events in the database. *)
(* A worker holds its event alone (Outbox shows when), and one action      *)
(* delivers it.  The source's configuration is the snapshot stored with    *)
(* the event, whatever the configuration the process runs with.  Clearing  *)
(* the payload of a skipped event is Outbox's matter.                      *)
(***************************************************************************)
EXTENDS RegexpCache, Sequences

CONSTANTS Workers, Events,
          Sources,    \* names of sources
          Snapshot,   \* Snapshot[s]: extract, field, services, rules, redacts
          Payloads,   \* payloads: functions from paths to values
          Matches,    \* pairs of a pattern and a value it matches
          Secrets,    \* values in which a redaction pattern finds something
          Mask,       \* and what the redaction makes of them
          NoVars,     \* the column vars_json is NULL
          Other,      \* policy.UnknownSource
          MaxFaults,  \* bound: store calls that fail
          MaxStarts   \* bound: starts of the process

ASSUME FilterAssumption ==
    /\ MaxFaults \in Nat /\ MaxStarts \in Nat
    /\ IsFiniteSet(Events) /\ IsFiniteSet(Workers)
    /\ \A s \in Sources : Snapshot[s].rules \in Seq([var: STRING, regex: Patterns])

VARIABLES
    input,   \* input[e]: the source and the payload of an event
    row,     \* row[e]: its status and its stored variables
    pc, job, \* where a worker is; its event, variables and next rule
    active,  \* sources of the configuration the process runs with
    drops,   \* policy.Counters
    faults, starts

work == <<pc, job>>
vars == <<input, row, work, cache, active, drops, faults, starts>>

NoValue == ""

-----------------------------------------------------------------------------
(* The pure parts                                                          *)

\* parser.Extract: a path that is not in the payload gives the empty string.
\* The two variables executionVars adds (event_id, delivery_id) are like any
\* other.
Extract(spec, payload) ==
    [x \in DOMAIN spec |-> IF spec[x] \in DOMAIN payload THEN payload[spec[x]]
                                                         ELSE NoValue]

\* Reading a Go map: a missing key gives the empty string.
Value(v, x) == IF x \in DOMAIN v THEN v[x] ELSE NoValue

\* policy.Allow.  An empty set of services stands for no log_policy.
Allow(s, v) ==
    LET field == IF s.field = NoValue THEN "service" ELSE s.field
    IN  s.services = {} \/ Value(v, field) \in s.services

\* policy.Redact, on every variable.
Redact(s, v) ==
    [x \in DOMAIN v |-> IF s.redacts /\ v[x] \in Secrets THEN Mask ELSE v[x]]

\* Stored variables, be there none, are not NULL.
ASSUME NullAssumption ==
    \A s \in Sources, p \in Payloads :
        Redact(Snapshot[s], Extract(Snapshot[s].extract, p)) # NoVars

\* NewCounters and Inc: a source the process does not know has no counter of
\* its own, and shares one with a source that is called "other".  The names
\* passed validSourceName when the configuration was read.
NewCounters(names) == [s \in names \cup {Other} |-> 0]
Bucket(s) == IF s \in DOMAIN drops THEN s ELSE Other

-----------------------------------------------------------------------------

NoJob == [ev |-> NoVars, values |-> NoVars, rule |-> 0]

Init ==
    /\ input \in [Events -> [source: Sources, payload: Payloads]]
    /\ row = [e \in Events |-> [status |-> "pending", values |-> NoVars]]
    /\ pc = [w \in Workers |-> "idle"]
    /\ job = [w \in Workers |-> NoJob]
    /\ CacheInit
    /\ active \in SUBSET Sources
    /\ drops = NewCounters(active)
    /\ faults = 0
    /\ starts = 1

Source(e) == Snapshot[input[e].source]
Mine(w) == Source(job[w].ev)
Goto(w, there) == pc' = [pc EXCEPT ![w] = there]

\* The worker takes the next event; its local variables are gone.
Leave(w) == Goto(w, "idle") /\ job' = [job EXCEPT ![w] = NoJob]

\* A store call works, or fails without effect.
Works == UNCHANGED faults
Fails == faults < MaxFaults /\ faults' = faults + 1

Update(e, status) == row' = [row EXCEPT ![e].status = status]

\* Where an event begins: stored variables are used as they are, or else the
\* extracted ones are shown to the allowlist.
FirstStep(e, values) ==
    IF row[e].values # NoVars THEN "deliver"
    ELSE IF Allow(Source(e), values) THEN "match" ELSE "reject"

Claim(w, e) ==
    LET values == IF row[e].values # NoVars THEN row[e].values
                  ELSE Extract(Source(e).extract, input[e].payload)
    IN  /\ pc[w] = "idle"
        /\ row[e].status = "pending"
        /\ Update(e, "processing")
        /\ job' = [job EXCEPT ![w] = [ev |-> e, values |-> values, rule |-> 1]]
        /\ Goto(w, FirstStep(e, values))
        /\ UNCHANGED <<input, cache, active, drops, faults, starts>>

Reject_CountAnyway(w) ==
    /\ pc[w] = "reject"
    /\ \/ Works /\ Update(job[w].ev, "skipped") /\ Goto(w, "count")
       \/ Fails /\ Goto(w, "count") /\ UNCHANGED row
    /\ UNCHANGED <<input, job, cache, active, drops, starts>>

\* The allowlist rejects: UpdateEventStatus, and only then the counter.
Reject(w) ==
    /\ pc[w] = "reject"
    /\ \/ Works /\ Update(job[w].ev, "skipped") /\ Goto(w, "count")
       \/ Fails /\ Goto(w, "requeue") /\ UNCHANGED row
    /\ UNCHANGED <<input, job, cache, active, drops, starts>>

Count(w) ==
    /\ pc[w] = "count"
    /\ drops' = [drops EXCEPT ![Bucket(input[job[w].ev].source)] = @ + 1]
    /\ Leave(w)
    /\ UNCHANGED <<input, row, cache, active, faults, starts>>

RuleInput_Redacted(w, x) == Value(Redact(Mine(w), job[w].values), x)

\* What a rule is shown.
RuleInput(w, x) == Value(job[w].values, x)

\* One turn of router.Match's loop: the cache hands out the compiled pattern,
\* and the worker matches with the mutex released.
MatchRule(w) ==
    LET r == Mine(w).rules[job[w].rule]
    IN  /\ pc[w] = "match"
        /\ job[w].rule <= Len(Mine(w).rules)
        /\ Compile(r.regex)
        /\ \/ r.regex \in Invalid /\ Goto(w, "invalid") /\ UNCHANGED job
           \/ /\ r.regex \notin Invalid
              /\ <<r.regex, RuleInput(w, r.var)>> \notin Matches
              /\ Goto(w, "skip")
              /\ UNCHANGED job
           \/ /\ r.regex \notin Invalid
              /\ <<r.regex, RuleInput(w, r.var)>> \in Matches
              /\ job' = [job EXCEPT ![w].rule = @ + 1]
              /\ UNCHANGED pc
        /\ UNCHANGED <<input, row, active, drops, faults, starts>>

\* A pattern that does not compile: the event is dead.  The error of the
\* update is dropped.
Kill(w) ==
    /\ pc[w] = "invalid"
    /\ \/ Works /\ Update(job[w].ev, "dead")
       \/ Fails /\ UNCHANGED row
    /\ Leave(w)
    /\ UNCHANGED <<input, cache, active, drops, starts>>

\* A rule does not match: skipped, and not counted.
Skip(w) ==
    /\ pc[w] = "skip"
    /\ \/ Works /\ Update(job[w].ev, "skipped") /\ Leave(w)
       \/ Fails /\ Goto(w, "requeue") /\ UNCHANGED <<row, job>>
    /\ UNCHANGED <<input, cache, active, drops, starts>>

\* All rules match: the variables are redacted in place and PrepareEvent
\* stores them.
Prepare(w) ==
    LET e == job[w].ev
        values == Redact(Mine(w), job[w].values)
    IN  /\ pc[w] = "match"
        /\ job[w].rule > Len(Mine(w).rules)
        /\ job' = [job EXCEPT ![w].values = values]
        /\ \/ Works /\ row' = [row EXCEPT ![e].values = values] /\ Goto(w, "deliver")
           \/ Fails /\ Goto(w, "requeue") /\ UNCHANGED row
        /\ UNCHANGED <<input, cache, active, drops, starts>>

\* The handler is called with the worker's variables.  A cancelled pass goes
\* back to the queue.
Deliver(w) ==
    /\ pc[w] = "deliver"
    /\ \/ Update(job[w].ev, "done") /\ Leave(w)
       \/ Goto(w, "requeue") /\ UNCHANGED <<row, job>>
    /\ UNCHANGED <<input, cache, active, drops, faults, starts>>

\* RequeueEvent; its error is dropped.
Requeue(w) ==
    /\ pc[w] = "requeue"
    /\ \/ Works /\ Update(job[w].ev, "pending")
       \/ Fails /\ UNCHANGED row
    /\ Leave(w)
    /\ UNCHANGED <<input, cache, active, drops, starts>>

\* A lease that nobody renews runs out.
Expire(e) ==
    /\ row[e].status = "processing"
    /\ \A w \in Workers : job[w].ev # e
    /\ Update(e, "pending")
    /\ UNCHANGED <<input, work, cache, active, drops, faults, starts>>

\* The process ends anywhere and starts again, perhaps with another
\* configuration; RequeueAllProcessing.
Restart ==
    /\ starts < MaxStarts
    /\ starts' = starts + 1
    /\ row' = [e \in Events |-> IF row[e].status = "processing"
                                THEN [row[e] EXCEPT !.status = "pending"] ELSE row[e]]
    /\ pc' = [w \in Workers |-> "idle"]
    /\ job' = [w \in Workers |-> NoJob]
    /\ entries' = {} /\ order' = [s \in Slots |-> Empty] /\ next' = 0
    /\ active' \in SUBSET Sources
    /\ drops' = NewCounters(active')
    /\ UNCHANGED <<input, faults>>

Next ==
    \/ \E w \in Workers :
          \/ \E e \in Events : Claim(w, e)
          \/ Reject(w) \/ Count(w) \/ MatchRule(w) \/ Kill(w) \/ Skip(w)
          \/ Prepare(w) \/ Deliver(w) \/ Requeue(w)
    \/ \E e \in Events : Expire(e)
    \/ Restart

Spec == Init /\ [][Next]_vars

-----------------------------------------------------------------------------
(* Properties                                                              *)

\* The verdict on an event, as the README words it: the allowlist is asked
\* first and with the raw values; then the first rule that does not match, or
\* does not compile, decides.
Verdict(e) ==
    LET s == Source(e)
        v == Extract(s.extract, input[e].payload)
        bad(i) == s.rules[i].regex \in Invalid
        miss(i) == ~bad(i) /\ <<s.rules[i].regex, Value(v, s.rules[i].var)>> \notin Matches
        decides(i) == (bad(i) \/ miss(i)) /\ \A j \in 1..(i - 1) : ~bad(j) /\ ~miss(j)
    IN  IF ~Allow(s, v) THEN "rejected"
        ELSE IF \E i \in 1..Len(s.rules) : decides(i) /\ bad(i) THEN "invalid"
        ELSE IF \E i \in 1..Len(s.rules) : decides(i) THEN "unmatched"
        ELSE "passed"

\* Whatever the cache holds, whoever else uses it, and wherever a pass was cut
\* off and repeated, perhaps under another configuration: an event is skipped,
\* dead or stored for delivery exactly as its own snapshot and payload say,
\* and no handler gets a value that the redaction should have masked (a
\* pattern may find something in the mask itself).
FilteredAsConfigured ==
    /\ \A e \in Events :
          /\ row[e].status = "skipped" => Verdict(e) \in {"rejected", "unmatched"}
          /\ row[e].status = "dead" => Verdict(e) = "invalid"
          /\ row[e].status = "done" => row[e].values # NoVars
          /\ row[e].values # NoVars => Verdict(e) = "passed"
    /\ \A w \in Workers : pc[w] = "deliver" =>
          LET s == Mine(w)
          IN  /\ job[w].values = row[job[w].ev].values
              /\ s.redacts => \A x \in DOMAIN s.extract : job[w].values[x] \notin Secrets \ {Mask}

\* The drop counters count the events the allowlist rejected, each once and
\* after its status was committed: none is counted that was not skipped, and
\* until a restart none is missing, except while a worker is about to count.
DropsAreCommitted ==
    \A b \in DOMAIN drops :
        LET skipped == {e \in Events : /\ row[e].status = "skipped"
                                       /\ Verdict(e) = "rejected"
                                       /\ Bucket(input[e].source) = b}
            counting == {w \in Workers : /\ pc[w] = "count"
                                         /\ Bucket(input[job[w].ev].source) = b}
            counted == drops[b] + Cardinality(counting)
        IN  /\ counted <= Cardinality(skipped)
            /\ starts = 1 => counted = Cardinality(skipped)

\* The cache is a first-in first-out cache of Size patterns, of which its map
\* and its ring have the same idea, until the process ends: a pattern stays
\* until Size newer ones have come, and compile evicts nothing else.
CacheIsFifo ==
    /\ []RingMatchesMap
    /\ [][\/ starts' # starts
          \/ UNCHANGED Queue
          \/ \E p \in Patterns \ (Invalid \cup Long) : Fifo!Put(p)]_vars

=============================================================================
