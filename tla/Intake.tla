-------------------------------- MODULE Intake --------------------------------
(***************************************************************************)
(* Acceptance of webhooks: the handler Server.webhook, one goroutine per   *)
(* HTTP request, the in-flight budget it holds while it runs               *)
(* (server/budget.go), and the transaction savePendingEvent with its two   *)
(* duplicate checks: the replay guard on the body (HMAC sources) and the   *)
(* unique index on the sender's delivery id.                               *)
(*                                                                         *)
(* The handler reads the clock once, when the request arrives; the body    *)
(* may take its sender's time, so everything the transaction does with     *)
(* that reading is late.  The id of the event row is fresh (newID), so a   *)
(* row is named here by the request that stored it.                        *)
(***************************************************************************)
EXTENDS Integers, FiniteSets, Sequences, FiniteSetsExt

CONSTANTS Requests,     \* HTTP requests
          Inputs,       \* what they carry: [src, delivery, body, stamp, length]
          NoDelivery,   \* no delivery id header
          Bodies,       \* request bodies
          MaxConns,     \* server.max_in_flight
          MaxBytes,     \* server.max_in_flight_bytes
          MaxBody,      \* maxBodyBytes
          Skew,         \* defaultReplaySkew
          TTL,          \* defaultReplayTTL
          Retention,    \* store.retention
          MaxTime,      \* bound: the clock stops here
          MaxCrashes    \* bound: crashes of the process

\* "hmac" and "token" name one source of each authentication type; a stamp
\* of Null is a missing X-Webhook-Timestamp, a length of 0 a missing
\* Content-Length.
Null == -1
NoInput == [src |-> "token", delivery |-> NoDelivery, body |-> "", stamp |-> Null,
            length |-> 0]

ASSUME IntakeAssumption ==
    /\ \A i \in Inputs : /\ i.src \in {"hmac", "token"}
                         /\ i.body \in Bodies
                         /\ i.stamp \in Nat \cup {Null}
                         /\ i.length \in Nat
    /\ {MaxConns, MaxBytes, MaxBody, Skew, TTL, Retention} \subseteq Nat

VARIABLES
    pc,       \* pc[r]: "new", "reading", "answer", "done" or "lost"
    req,      \* req[r]: what request r carries
    at,       \* at[r]: the clock when the handler started
    res,      \* res[r]: what was or will be answered
    conns,    \* inFlightBudget.conns
    bytes,    \* inFlightBudget.bytes
    guard,    \* table replay_guard of the HMAC source: body -> expiry
    rows,     \* table events: the requests whose row is there
    saves,    \* history: <<request, time of its commit>> in commit order
    now, crashes

budget == <<conns, bytes>>
tables == <<guard, rows, saves>>
vars == <<pc, req, at, res, budget, tables, now, crashes>>

Init ==
    /\ pc = [r \in Requests |-> "new"]
    /\ req = [r \in Requests |-> NoInput]
    /\ at = [r \in Requests |-> 0]
    /\ res = [r \in Requests |-> "none"]
    /\ conns = 0 /\ bytes = 0
    /\ guard = [b \in Bodies |-> Null]
    /\ rows = {}
    /\ saves = <<>>
    /\ now = 0
    /\ crashes = 0

-----------------------------------------------------------------------------
(* The in-flight budget                                                    *)

InFlight == {r \in Requests : pc[r] \in {"reading", "answer"}}

\* What the handler reserves: the declared length, else the largest body.
Reserve(i) == IF i.length > 0 THEN i.length ELSE MaxBody

CanAcquire(n) == conns < MaxConns /\ bytes + n <= MaxBytes

Acquire(n) == conns' = conns + 1 /\ bytes' = bytes + n

Floor0(n) == IF n < 0 THEN 0 ELSE n

Release_KeepBytes(n) == conns' = Floor0(conns - 1) /\ bytes' = bytes

\* release: neither counter goes below zero.
Release(n) == conns' = Floor0(conns - 1) /\ bytes' = Floor0(bytes - n)

-----------------------------------------------------------------------------
(* The handler                                                             *)

Answer(r, what) == res' = [res EXCEPT ![r] = what]
Goto(r, label) == pc' = [pc EXCEPT ![r] = label]

\* Refused before the budget is asked (unknown source, media type, the
\* pre-authentication rate limit, a declared length above the limit), or
\* because the budget says no.
RefuseEarly(r) ==
    /\ pc[r] = "new"
    /\ \/ Answer(r, "refused")
       \/ (\E i \in Inputs : ~CanAcquire(Reserve(i))) /\ Answer(r, "busy")
    /\ Goto(r, "done")
    /\ UNCHANGED <<req, at, budget, tables, now, crashes>>

\* A request that gets into the budget; its body is being read.
Begin(r) ==
    /\ pc[r] = "new"
    /\ \E i \in Inputs :
          /\ i.length <= MaxBody
          /\ CanAcquire(Reserve(i))
          /\ Acquire(Reserve(i))
          /\ req' = [req EXCEPT ![r] = i]
    /\ at' = [at EXCEPT ![r] = now]
    /\ Goto(r, "reading")
    /\ UNCHANGED <<res, tables, now, crashes>>

\* The body cannot be read or is too long, the signature or token is wrong,
\* a rate limit, not JSON, a malformed delivery id, a stale timestamp, or the
\* transaction fails (the sender went away, the database is unavailable).
Refuse(r) ==
    /\ pc[r] = "reading"
    /\ Answer(r, "refused")
    /\ Goto(r, "answer")
    /\ UNCHANGED <<req, at, budget, tables, now, crashes>>

\* The header checks; validateReplayHeaders compares with the time the
\* handler started.
HeadersOK(r) ==
    /\ req[r].src = "hmac" =>
          req[r].delivery # NoDelivery /\ req[r].stamp # Null
    /\ req[r].stamp # Null =>
          at[r] - Skew <= req[r].stamp /\ req[r].stamp <= at[r] + Skew

Guarded(r) == req[r].src = "hmac"

GuardFree_Never(r) == TRUE

\* DELETE the expired row of this body, INSERT OR IGNORE: one row affected.
GuardFree(r) ==
    guard[req[r].body] = Null \/ guard[req[r].body] <= at[r]

\* INSERT OR IGNORE INTO events meets idx_events_delivery.
DeliveryTaken(r) ==
    /\ req[r].delivery # NoDelivery
    /\ \E s \in rows : /\ req[s].src = req[r].src
                       /\ req[s].delivery = req[r].delivery

Reserved(r) == [guard EXCEPT ![req[r].body] = at[r] + TTL]

\* savePendingEvent commits.
Save(r) ==
    /\ pc[r] = "reading"
    /\ HeadersOK(r)
    /\ Guarded(r) => GuardFree(r)
    /\ ~DeliveryTaken(r)
    /\ guard' = IF Guarded(r) THEN Reserved(r) ELSE guard
    /\ rows' = rows \cup {r}
    /\ saves' = Append(saves, <<r, now>>)
    /\ Answer(r, "accepted")
    /\ Goto(r, "answer")
    /\ UNCHANGED <<req, at, budget, now, crashes>>

\* ErrDuplicateBody.
DuplicateBody(r) ==
    /\ pc[r] = "reading"
    /\ HeadersOK(r)
    /\ Guarded(r) /\ ~GuardFree(r)
    /\ Answer(r, "duplicate body")
    /\ Goto(r, "answer")
    /\ UNCHANGED <<req, at, budget, tables, now, crashes>>

DuplicateDelivery_Reserved(r) ==
    /\ pc[r] = "reading"
    /\ HeadersOK(r)
    /\ Guarded(r) => GuardFree(r)
    /\ DeliveryTaken(r)
    /\ guard' = IF Guarded(r) THEN Reserved(r) ELSE guard
    /\ Answer(r, "duplicate delivery")
    /\ Goto(r, "answer")
    /\ UNCHANGED <<req, at, budget, rows, saves, now, crashes>>

\* ErrDuplicateEvent: the deferred Rollback gives the body reservation back.
DuplicateDelivery(r) ==
    /\ pc[r] = "reading"
    /\ HeadersOK(r)
    /\ Guarded(r) => GuardFree(r)
    /\ DeliveryTaken(r)
    /\ Answer(r, "duplicate delivery")
    /\ Goto(r, "answer")
    /\ UNCHANGED <<req, at, budget, tables, now, crashes>>

\* The response is written and the handler returns; its deferred release runs.
Finish(r) ==
    /\ pc[r] = "answer"
    /\ Release(Reserve(req[r]))
    /\ Goto(r, "done")
    /\ UNCHANGED <<req, at, res, tables, now, crashes>>

-----------------------------------------------------------------------------
(* The rest of the program                                                 *)

\* retentionLoop: a row that is terminal by now (any row may be) and older
\* than the cutoff goes, and so do the guard rows whose expiry is past.
PurgeOlderThan ==
    /\ \E P \in SUBSET {r \in rows : at[r] < now - Retention} : rows' = rows \ P
    /\ guard' = [b \in Bodies |-> IF guard[b] < now THEN Null ELSE guard[b]]
    /\ <<guard', rows'>> # <<guard, rows>>
    /\ UNCHANGED <<pc, req, at, res, budget, saves, now, crashes>>

\* The process dies and is started again: handlers and the budget are gone.
Crash ==
    /\ crashes < MaxCrashes
    /\ InFlight # {}
    /\ crashes' = crashes + 1
    /\ pc' = [r \in Requests |-> IF r \in InFlight THEN "lost" ELSE pc[r]]
    /\ conns' = 0 /\ bytes' = 0
    /\ UNCHANGED <<req, at, res, tables, now>>

Tick ==
    /\ now < MaxTime
    /\ now' = now + 1
    /\ UNCHANGED <<pc, req, at, res, budget, tables, crashes>>

Next ==
    \/ \E r \in Requests :
          \/ RefuseEarly(r) \/ Begin(r) \/ Refuse(r) \/ Save(r)
          \/ DuplicateBody(r) \/ DuplicateDelivery(r) \/ Finish(r)
    \/ PurgeOlderThan \/ Crash \/ Tick

Spec == Init /\ [][Next]_vars

-----------------------------------------------------------------------------
(* Properties                                                              *)

\* Sum of the reservations of the handlers that run.
Reservations == SumFunctionOnSet([r \in Requests |-> Reserve(req[r])], InFlight)

\* The budget counts exactly the handlers that run and what they reserved,
\* on every path out of the handler; so it never exceeds its limits, is free
\* again when they are gone, and release never has to clamp a counter.
BudgetIsExact ==
    /\ conns = Cardinality(InFlight) /\ conns <= MaxConns
    /\ bytes = Reservations /\ bytes <= MaxBytes

Ours(r, s) == r # s /\ req[r].src = req[s].src
Saved(s) == \E i \in 1..Len(saves) : saves[i][1] = s

\* A sender that is told "duplicate" has lost nothing: a webhook of the same
\* source with that delivery id, or for an HMAC source with that body, was
\* committed before, also when the answer to it was lost in a crash or when
\* an attempt in between was refused after it had reserved the body.
ConflictMeansStored ==
    \A r \in Requests :
        /\ res[r] = "duplicate delivery" =>
              \E s \in Requests : Ours(r, s) /\ Saved(s)
                                  /\ req[s].delivery = req[r].delivery
        /\ res[r] = "duplicate body" =>
              \E s \in Requests : Ours(r, s) /\ Saved(s)
                                  /\ req[s].body = req[r].body

\* Two webhooks of an HMAC source with the same body are committed at least
\* TTL apart, counted from the arrival of the first to the commit of the
\* second: neither the clock reading that is old when it is used, nor the
\* retention pass that deletes by the wall clock, opens the guard early.
SameBodyApart ==
    \A i, j \in 1..Len(saves) :
        LET r == saves[i][1]
            s == saves[j][1]
        IN  i < j /\ Guarded(r) /\ Guarded(s) /\ req[r].body = req[s].body =>
               saves[j][2] >= at[r] + TTL

=============================================================================
