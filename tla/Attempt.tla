------------------------------- MODULE Attempt -------------------------------
(***************************************************************************)
(* The attempts at one action of an event: what the handlers do outside    *)
(* the process (internal/handler) and what the queue makes of the outcome  *)
(* (the end of queue.process).  An HTTP attempt checks its URL, resolves   *)
(* and dials, sends, and follows redirects; every answer of the resolver   *)
(* and of the server is a choice.  A cancelled attempt is Outbox's affair. *)
(*                                                                         *)
(* A URL is a record: `plain` says that it parses, with a host and without *)
(* user information; `port` is "" when the URL has none; `path` is the     *)
(* sequence of its segments.  A host that is an address is its own answer. *)
(***************************************************************************)
EXTENDS QueueSettings

CONSTANTS Configs,      \* what the queue section of a file may hold
          ActionSet,    \* actions: type, url, allowlist, allowPrivate, ...
          Locations,    \* URLs a server may redirect to
          Addresses,    \* IP addresses
          Local,        \* loopback, link-local, multicast, unspecified ones
          Private,      \* private ones
          Blocked,      \* names isBlockedHostname refuses
          Encoded,      \* segments with encoded separators, dots or escapes
          Answers,      \* sets of addresses the resolver may return
          RetryAfters,  \* Retry-After headers a server may send
          MaxDuration   \* the largest time.Duration (scaled down)

ASSUME AttemptAssumption ==
    /\ Local \subseteq Addresses /\ Private \subseteq Addresses \ Local
    /\ Answers \subseteq SUBSET Addresses
    /\ MaxDuration \in Nat \ {0}
    /\ Configs \subseteq
          [workers: Int, buffer: Int, maxRetries: Int, retryBase: Int, maxRetryDelay: Int,
           maxRetryAge: Int, sources: SUBSET Seq([type: {"http", "exec"}, timeout: Int])]
    /\ \A c \in Configs : IsFiniteSet(c.sources)
    /\ \A a \in ActionSet : a.timeout \in Int
    /\ \A header \in RetryAfters : header.value \in Int

VARIABLES
    file,      \* the queue section of the configuration file
    q,         \* the queue's settings
    act,       \* the action
    pc,
    attempt,   \* attempt_count of the action's row
    url,       \* the URL of the current request
    conn,      \* the address it goes to
    sent,      \* requests of this attempt: their URLs and addresses
    err,       \* how the attempt failed: permanent or not, and Retry-After
    now,       \* time since the event was received
    due        \* when the action may run again

vars == <<file, q, act, pc, attempt, url, conn, sent, err, now, due>>

None == "none"

-----------------------------------------------------------------------------
(* The URL policy (urlpolicy.go)                                           *)

\* validateDestinationIP
AddressOK(ip, allowPrivate) == ip \notin Local /\ (ip \in Private => allowPrivate)

EffectivePort(u) ==
    IF u.port # "" THEN u.port ELSE IF u.scheme = "https" THEN "443" ELSE "80"

\* path.Clean, on segments.
Clean(path) ==
    FoldLeft(LAMBDA done, s : IF s = "." THEN done
                              ELSE IF s # ".." THEN Append(done, s)
                              ELSE IF done = <<>> THEN done ELSE Front(done),
             <<>>, path)

\* canonicalURLPath gives an error.
Ambiguous(u) == \E i \in 1..Len(u.path) : u.path[i] \in Encoded

\* matchAllowlistEntry, of the three kinds of entries.
MatchEntry(u, entry) ==
    \/ entry.kind = "cidr" /\ u.host \in entry.net
    \/ /\ entry.kind = "url"
       /\ entry.url.plain /\ ~Ambiguous(entry.url)
       /\ u.scheme = entry.url.scheme /\ u.host = entry.url.host
       /\ EffectivePort(u) = EffectivePort(entry.url)
       /\ IsPrefix(Clean(entry.url.path), Clean(u.path))
    \/ entry.kind = "host" /\ u.host = entry.host /\ u.port = entry.port

\* allow_private counts only together with an allowlist.
PrivateAllowed(a) == a.allowPrivate /\ a.allowlist # {}

\* ValidateURLDestinationWithPolicy
ValidateURL(u, a) ==
    /\ u.plain
    /\ u.scheme \in {"http", "https"}
    /\ ~Ambiguous(u)
    /\ u.host \notin Blocked
    /\ u.host \in Addresses => AddressOK(u.host, PrivateAllowed(a))
    /\ IF a.allowlist = {} THEN u.scheme = "https"
                           ELSE \E entry \in a.allowlist : MatchEntry(u, entry)

SameAuthority(u, v) == u.host = v.host /\ EffectivePort(u) = EffectivePort(v)

\* ParseRetryAfter: seconds, beyond the range of a Duration its maximum; a
\* date; anything else, also a number of more than 64 bits, is nothing.
ParseRetryAfter(header, t) ==
    CASE header.kind = "seconds" ->
            IF header.value <= 0 THEN 0
            ELSE IF header.value > MaxDuration \div Second THEN MaxDuration
            ELSE header.value * Second
      [] header.kind = "date" -> Max({0, header.value - t})
      [] OTHER -> 0

-----------------------------------------------------------------------------

NoErr == [permanent |-> FALSE, retryAfter |-> 0]

\* The process starts with a configuration that config.Load accepts.
Init ==
    /\ file \in Configs
    /\ Valid(WithDefaults(file))
    /\ q = New(WithDefaults(file))
    /\ act \in ActionSet
    /\ pc = "ready"
    /\ attempt = 0
    /\ url = act.url
    /\ conn = None
    /\ sent = <<>>
    /\ err = NoErr
    /\ now = 0
    /\ due = 0

\* The attempt fails, d later.
FailAfter(d, permanent, retryAfter) ==
    /\ pc' = "failed"
    /\ err' = [permanent |-> permanent, retryAfter |-> retryAfter]
    /\ now' = now + d

\* process, at the action: expired, or started.
Start ==
    /\ pc = "ready"
    /\ IF now >= q.maxRetryAge
       THEN /\ pc' = "dead"
            /\ UNCHANGED <<attempt, url>>
       ELSE /\ pc' = "handle"
            /\ attempt' = attempt + 1
            /\ url' = act.url
    /\ conn' = None
    /\ sent' = <<>>
    /\ err' = NoErr
    /\ UNCHANGED <<file, q, act, now, due>>

\* Exec.Handle.  The command fails or ends by itself, or is killed at its
\* timeout; a descendant that keeps the pipe open adds the WaitDelay.
ExecLimit(a) == ActionTimeout(a) + 3

Exec ==
    /\ pc = "handle"
    /\ act.type = "exec"
    /\ \/ ~act.ready /\ FailAfter(0, TRUE, 0)
       \/ act.ready /\ \E d \in {0, ExecLimit(act)} : FailAfter(d, FALSE, 0)
       \/ act.ready /\ pc' = "delivered" /\ UNCHANGED <<err, now>>
    /\ UNCHANGED <<file, q, act, attempt, url, conn, sent, due>>

\* HTTP.Handle up to the request: a missing secret, a destination that is not
\* allowed or a body that is not JSON will not get better.
Prepare ==
    /\ pc = "handle"
    /\ act.type = "http"
    /\ IF act.ready /\ ValidateURL(act.url, act)
       THEN pc' = "dial" /\ UNCHANGED <<err, now>>
       ELSE FailAfter(0, TRUE, 0)
    /\ UNCHANGED <<file, q, act, attempt, url, conn, sent, due>>

\* What LookupIPAddr may return.
Resolved(host) == IF host \in Addresses THEN {{host}} ELSE Answers

DialOK_Some(host, ips) ==
    /\ host \notin Blocked
    /\ \E ip \in ips : AddressOK(ip, PrivateAllowed(act))

\* secureDialContext: every address of the answer must be allowed.
DialOK(host, ips) ==
    /\ host \notin Blocked
    /\ ips # {}
    /\ \A ip \in ips : AddressOK(ip, PrivateAllowed(act))

\* The addresses are tried in turn; one of them answers, or none does.
Dial ==
    /\ pc = "dial"
    /\ \E ips \in Resolved(url.host) :
          \/ /\ DialOK(url.host, ips)
             /\ conn' \in ips
             /\ pc' = "request"
             /\ UNCHANGED <<err, now>>
          \/ FailAfter(0, FALSE, 0) /\ UNCHANGED conn
    /\ UNCHANGED <<file, q, act, attempt, url, sent, due>>

\* The request is on the wire.
Send ==
    /\ pc = "request"
    /\ sent' = Append(sent, [url |-> url, addr |-> conn])
    /\ pc' = "sent"
    /\ UNCHANGED <<file, q, act, attempt, url, conn, err, now, due>>

\* A final response, or none before the client's timeout.  Of the statuses
\* other than 2xx, 408, 429 and 5xx are worth another attempt.
Respond ==
    /\ pc = "sent"
    /\ \/ pc' = "delivered" /\ UNCHANGED <<err, now>>
       \/ FailAfter(0, TRUE, 0)
       \/ \E header \in RetryAfters :
             FailAfter(0, FALSE, ParseRetryAfter(header, now))
       \/ FailAfter(15 * Second, FALSE, 0)
    /\ UNCHANGED <<file, q, act, attempt, url, conn, sent, due>>

\* CheckRedirect: `via` holds the requests made so far.
FollowOK(u) ==
    /\ Len(sent) < 3
    /\ ValidateURL(u, act)
    /\ SameAuthority(url, u)

\* A redirect is followed on the connection there is, if the scheme is the
\* same, or on a new one; a refused one is an error that may be retried.
Redirect ==
    /\ pc = "sent"
    /\ \E u \in Locations :
          \/ /\ FollowOK(u)
             /\ url' = u
             /\ \/ pc' = "dial" /\ conn' = None
                \/ u.scheme = url.scheme /\ pc' = "request" /\ UNCHANGED conn
             /\ UNCHANGED <<err, now>>
          \/ ~FollowOK(u) /\ FailAfter(0, FALSE, 0) /\ UNCHANGED <<url, conn>>
    /\ UNCHANGED <<file, q, act, attempt, sent, due>>

\* process, after a failed attempt.
GivesUp == err.permanent \/ attempt >= q.maxRetries + 1

DelayChoices == IF err.retryAfter > 0 THEN {err.retryAfter} ELSE Jitter(RetryCap(q, attempt))

Decide ==
    /\ pc = "failed"
    /\ \/ GivesUp /\ pc' = "dead" /\ UNCHANGED due
       \/ /\ ~GivesUp
          /\ \E delay \in DelayChoices :
                IF now + delay >= q.maxRetryAge
                THEN pc' = "dead" /\ UNCHANGED due
                ELSE pc' = "retrying" /\ due' = now + delay
    /\ UNCHANGED <<file, q, act, attempt, url, conn, sent, err, now>>

\* A worker takes the event up again, at once or a tick of its ticker later.
Wait ==
    /\ pc = "retrying"
    /\ now' \in {due, due + Second}
    /\ pc' = "ready"
    /\ UNCHANGED <<file, q, act, attempt, url, conn, sent, err, due>>

Next ==
    \/ Start \/ Exec \/ Prepare \/ Dial \/ Send \/ Respond \/ Redirect
    \/ Decide \/ Wait

Spec == Init /\ [][Next]_vars

-----------------------------------------------------------------------------
(* Properties                                                              *)

\* A request only ever reaches an address that is neither local nor, without
\* allow_private and an allowlist, private, whatever the resolver answered the
\* last time or answers now; all requests of an attempt, at most three, go to
\* the host and port the action names, and each URL passes the policy.
StaysWithinPolicy ==
    /\ Len(sent) <= 3
    /\ \A i \in 1..Len(sent) :
          /\ sent[i].addr \in Addresses \ Local
          /\ sent[i].addr \in Private => act.allowPrivate /\ act.allowlist # {}
          /\ SameAuthority(sent[i].url, act.url)
          /\ sent[i].url.scheme # "https" => act.allowlist # {}
          /\ act.allowlist # {} /\ (\A entry \in act.allowlist : entry.kind = "url") =>
                \E entry \in act.allowlist :
                    IsPrefix(Clean(entry.url.path), Clean(sent[i].url.path))

\* The cap of the jitter before retry number n: the base times a power of two,
\* or the limit if that is less.
BackoffCap(n) ==
    LET power[i \in 0..(n - 1)] == IF i = 0 THEN 1 ELSE 2 * power[i - 1]
        factor == power[n - 1]
    IN  IF q.retryBase > q.maxRetryDelay \div factor THEN q.maxRetryDelay
        ELSE q.retryBase * factor

\* An action waits for another attempt only after an error that may pass, with
\* an attempt left, and for less than max_retry_age in all: exactly as long as
\* the server asked, or at most retry_base doubled with every attempt and
\* never more than max_retry_delay.
RetriesFollowSchedule ==
    pc = "retrying" =>
        /\ ~err.permanent
        /\ attempt <= q.maxRetries
        /\ due < q.maxRetryAge
        /\ IF err.retryAfter > 0 THEN due = now + err.retryAfter
           ELSE now <= due /\ due <= now + BackoffCap(attempt)

\* How long an action, and a pass over the actions of a source, can take.
ActionLimit(a) == IF a.type = "http" THEN 15 * Second ELSE ExecLimit(a)
PassLimit(s) == SumFunction([i \in 1..Len(s) |-> ActionLimit(s[i])])

\* So many commands that all use up their WaitDelay use up the margin of
\* computeLease; validate does not limit the actions of a source.
MarginActions == (2 * Minute) \div 3

\* The queue runs with what the file says: none of the fallbacks of New
\* changes a setting that validate let through.  The lease is longer than any
\* pass over the actions of a configured source with fewer than MarginActions
\* of them, and the heartbeat renews it twice before it runs out, so that one
\* failed renewal does no harm.  The loop of retryDelay gives every attempt
\* the cap of the closed form.
SettingsAreUsed ==
    LET c == WithDefaults(file)
    IN  /\ \A field \in {"workers", "buffer", "maxRetries", "retryBase",
                         "maxRetryDelay", "maxRetryAge"} : q[field] = c[field]
        /\ \A s \in c.sources : Len(s) < MarginActions => PassLimit(s) < q.lease
        /\ 2 * RenewInterval(q) < q.lease
        /\ \A n \in 1..(q.maxRetries + 1) : RetryCap(q, n) = BackoffCap(n)

=============================================================================
