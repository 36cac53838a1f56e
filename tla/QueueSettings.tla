---------------------------- MODULE QueueSettings ----------------------------
(***************************************************************************)
(* The numbers the queue runs with: what config.Load makes of the queue    *)
(* section of the file, what queue.New makes of that, the lease and the    *)
(* retry delays.  Durations are in units of 100 ms, the smallest one that  *)
(* validate accepts for retry_base; zero stands for an omitted field,      *)
(* except in maxRetries, where Load puts the default in beforehand.        *)
(***************************************************************************)
EXTENDS Integers, SequencesExt

Second == 10
Minute == 60 * Second
Hour == 60 * Minute
Day == 24 * Hour

\* applyDefaults
WithDefaults(c) ==
    [c EXCEPT !.workers = IF @ <= 0 THEN 4 ELSE @,
              !.buffer = IF @ <= 0 THEN 256 ELSE @,
              !.retryBase = IF @ <= 0 THEN Second ELSE @,
              !.maxRetryDelay = IF @ <= 0 THEN 15 * Minute ELSE @,
              !.maxRetryAge = IF @ <= 0 THEN Day ELSE @]

\* validate, of the actions of a source.
ValidActions(s) ==
    /\ s # <<>>
    /\ \A i \in 1..Len(s) :
          \/ s[i].type = "http"
          \/ s[i].type = "exec" /\ 0 <= s[i].timeout /\ s[i].timeout <= 15 * Minute

\* validate, of the queue section and the sources.
Valid(c) ==
    /\ c.workers \in 1..64
    /\ c.buffer \in 1..10000
    /\ c.maxRetries \in 0..20
    /\ 1 <= c.retryBase /\ c.retryBase <= Hour
    /\ c.retryBase <= c.maxRetryDelay /\ c.maxRetryDelay <= 7 * Day
    /\ c.retryBase <= c.maxRetryAge /\ c.maxRetryAge <= 30 * Day
    /\ \A s \in c.sources : ValidActions(s)

\* The timeout of one execution, as queue.go reckons.
ActionTimeout(a) ==
    IF a.type # "exec" THEN 15 * Second
    ELSE IF a.timeout > 0 THEN a.timeout ELSE 60 * Second

PassTime(s) == SumFunction([i \in 1..Len(s) |-> ActionTimeout(s[i])])

ComputeLease_LongestAction(sources) ==
    LET single == UNION {{ActionTimeout(s[i]) : i \in 1..Len(s)} : s \in sources}
    IN  Max({5 * Minute, Max({15 * Second} \cup single) + 2 * Minute})

\* computeLease: the longest pass over the actions of a source, a margin, and
\* at least five minutes.
ComputeLease(sources) ==
    LET longestPass == Max({15 * Second} \cup {PassTime(s) : s \in sources})
    IN  Max({5 * Minute, longestPass + 2 * Minute})

\* New has fallbacks of its own for what it is given.
New(c) ==
    LET base == IF c.retryBase <= 0 THEN Second ELSE c.retryBase
    IN  [workers |-> IF c.workers <= 0 THEN 1 ELSE c.workers,
         buffer |-> IF c.buffer <= 0 THEN 1 ELSE c.buffer,
         maxRetries |-> IF c.maxRetries < 0 THEN 0 ELSE c.maxRetries,
         retryBase |-> base,
         maxRetryDelay |-> IF c.maxRetryDelay < base THEN 15 * Minute ELSE c.maxRetryDelay,
         maxRetryAge |-> IF c.maxRetryAge < base THEN Day ELSE c.maxRetryAge,
         lease |-> ComputeLease(c.sources)]

\* leaseHeartbeat
RenewInterval(q) == Max({15 * Second, q.lease \div 3})

RetryCap_OneMore(q, attempt) ==
    LET cap[i \in 0..attempt] ==
            IF i = 0 THEN q.retryBase
            ELSE LET c == cap[i - 1]
                 IN  IF c >= q.maxRetryDelay THEN c
                     ELSE IF c > q.maxRetryDelay \div 2 THEN q.maxRetryDelay
                     ELSE 2 * c
    IN  Min({cap[attempt], q.maxRetryDelay})

\* retryDelay, before the jitter: the loop doubles the base once for every
\* attempt after the first, and never past the limit.
RetryCap(q, attempt) ==
    LET cap[i \in 1..attempt] ==
            IF i = 1 THEN q.retryBase
            ELSE LET c == cap[i - 1]
                 IN  IF c >= q.maxRetryDelay THEN c
                     ELSE IF c > q.maxRetryDelay \div 2 THEN q.maxRetryDelay
                     ELSE 2 * c
    IN  Min({cap[attempt], q.maxRetryDelay})

\* jitter: any duration from nothing to the cap; the two ends are enough for
\* what is said about it.
Jitter(cap) == {0, cap}

=============================================================================
