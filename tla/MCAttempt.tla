------------------------------ MODULE MCAttempt ------------------------------
(* An instance of Attempt for TLC.                                         *)
EXTENDS Attempt

Http == [type |-> "http", timeout |-> 0]
Run(t) == [type |-> "exec", timeout |-> t]

\* Everything omitted; a short schedule; the most retries; one without retries
\* that begins at its limit; and files that validate must refuse.
Omitted == [workers |-> 0, buffer |-> 0, maxRetries |-> 2, retryBase |-> 0,
            maxRetryDelay |-> 0, maxRetryAge |-> 0,
            sources |-> {<<Http>>, <<Http, Run(15 * Minute), Run(0), Run(15 * Minute)>>}]

Short == [Omitted EXCEPT !.maxRetries = 4, !.retryBase = Second, !.maxRetryDelay = 25,
                         !.maxRetryAge = 20 * Second, !.sources = {<<Run(0)>>}]

MCConfigs ==
    {Omitted, Short,
     [Omitted EXCEPT !.maxRetries = 20, !.retryBase = 1, !.maxRetryDelay = 7 * Day,
                     !.maxRetryAge = 8],
     [Omitted EXCEPT !.workers = 64, !.maxRetries = 0, !.retryBase = Hour,
                     !.maxRetryDelay = Hour, !.maxRetryAge = Hour],
     [Omitted EXCEPT !.retryBase = Hour],
     [Omitted EXCEPT !.maxRetryDelay = Second - 1],
     [Omitted EXCEPT !.retryBase = Minute, !.maxRetryAge = Second],
     [Omitted EXCEPT !.workers = 65],
     [Omitted EXCEPT !.maxRetries = -1],
     [Omitted EXCEPT !.sources = {<<Run(16 * Minute)>>}]}

\* Addresses: public, private and loopback.
MCAddresses == {"pub", "lan", "lo"}
MCAnswers == {{}, {"pub"}, {"lan"}, {"pub", "lan"}, {"pub", "lo"}}

U(scheme, host, port, path) ==
    [plain |-> TRUE, scheme |-> scheme, host |-> host, port |-> port, path |-> path]

MCLocations ==
    {U("https", "api", "", <<"hook", "2">>), U("https", "api", "", <<"hook", "..", "x">>),
     U("https", "api", "", <<"hook", "%2e">>), U("http", "api", "8080", <<"hook">>),
     U("https", "api", "8080", <<"hook">>), U("https", "elsewhere", "", <<"hook">>),
     U("https", "lo", "", <<"hook">>),
     [U("https", "api", "", <<"hook">>) EXCEPT !.plain = FALSE]}

HostEntry(host, port) == [kind |-> "host", host |-> host, port |-> port]
UrlEntry(u) == [kind |-> "url", url |-> u]
NetEntry(ips) == [kind |-> "cidr", net |-> ips]

Post(u, allowlist, private) ==
    [type |-> "http", timeout |-> 0, ready |-> TRUE, url |-> u,
     allowlist |-> allowlist, allowPrivate |-> private]

MCActions ==
    LET hook == U("https", "api", "", <<"hook">>)
        alt == U("http", "api", "8080", <<"hook">>)
        literal(ip) == U("http", ip, "", <<>>)
    IN  {Post(hook, {}, TRUE),
         Post(hook, {UrlEntry(hook)}, FALSE),
         Post(alt, {HostEntry("api", "8080")}, TRUE),
         Post(literal("lan"), {NetEntry({"lan", "lo"})}, TRUE),
         Post(literal("lo"), {NetEntry({"lan", "lo"})}, TRUE),
         Post(U("https", "localhost", "", <<>>), {}, FALSE),
         Post(U("ftp", "api", "", <<>>), {HostEntry("api", "")}, FALSE),
         [Post(hook, {}, FALSE) EXCEPT !.ready = FALSE],
         [Post(hook, {}, FALSE) EXCEPT !.type = "exec"],
         [Post(hook, {}, FALSE) EXCEPT !.type = "exec", !.ready = FALSE]}

MCRetryAfters ==
    {[kind |-> "absent", value |-> 0], [kind |-> "seconds", value |-> 4],
     [kind |-> "seconds", value |-> -1], [kind |-> "seconds", value |-> 40 * 86400],
     [kind |-> "date", value |-> 5 * Second]}

=============================================================================
