----------------------------- MODULE AttemptProofs -----------------------------
(***************************************************************************)
(* Theorems about Attempt, for every action, every answer of the resolver  *)
(* and of the servers, and every queue section that validate accepts.      *)
(***************************************************************************)
EXTENDS Attempt, SumLemmas, WellFoundedInduction, TLAPS

-----------------------------------------------------------------------------
(* The URL policy                                                          *)

\* URLs an attempt can come across.
Urls == {a.url : a \in ActionSet} \cup Locations

\* A request that StaysWithinPolicy permits.
Allowed(r) ==
    /\ r.addr \in Addresses \ Local
    /\ r.addr \in Private => act.allowPrivate /\ act.allowlist # {}
    /\ SameAuthority(r.url, act.url)
    /\ r.url.scheme # "https" => act.allowlist # {}
    /\ act.allowlist # {} /\ (\A entry \in act.allowlist : entry.kind = "url") =>
          \E entry \in act.allowlist : IsPrefix(Clean(entry.url.path), Clean(r.url.path))

\* A request is checked in three places: its URL when the attempt starts or
\* the redirect is followed, its address when it is dialled, and the length
\* of the chain in CheckRedirect.  The invariant says what each of them has
\* established by the time the request is sent.
PolicyInv ==
    /\ act \in ActionSet
    /\ url \in Urls
    /\ sent \in Seq([url: Urls, addr: Addresses])
    /\ \A i \in 1..Len(sent) : Allowed(sent[i])
    /\ Len(sent) <= 3
    /\ pc = "handle" => url = act.url /\ Len(sent) = 0
    /\ pc \in {"dial", "request"} => Len(sent) <= 2
    /\ pc \in {"dial", "request", "sent"} => ValidateURL(url, act) /\ SameAuthority(url, act.url)
    /\ pc \in {"request", "sent"} => conn \in Addresses /\ AddressOK(conn, PrivateAllowed(act))

\* What the two checks of a request come to.
LEMMA ChecksAllow ==
    ASSUME NEW u, ValidateURL(u, act), SameAuthority(u, act.url),
           NEW ip \in Addresses, AddressOK(ip, PrivateAllowed(act)),
           NEW r, r.url = u, r.addr = ip
    PROVE  Allowed(r)
<1>1. ip \notin Local /\ (ip \in Private => act.allowPrivate /\ act.allowlist # {})
  BY DEF AddressOK, PrivateAllowed
<1>2. u.scheme # "https" => act.allowlist # {}
  BY DEF ValidateURL
<1>3. ASSUME act.allowlist # {}, \A entry \in act.allowlist : entry.kind = "url"
      PROVE  \E entry \in act.allowlist : IsPrefix(Clean(entry.url.path), Clean(u.path))
  <2>1. PICK entry \in act.allowlist : MatchEntry(u, entry)
    BY <1>3 DEF ValidateURL
  <2>2. IsPrefix(Clean(entry.url.path), Clean(u.path))
    BY <1>3, <2>1 DEF MatchEntry
  <2> QED
    BY <2>2
<1> QED
  BY <1>1, <1>2, <1>3 DEF Allowed

\* The invariant is kept, step by step.
LEMMA PolicyInvStep == PolicyInv /\ [Next]_vars => PolicyInv'
<1> SUFFICES ASSUME PolicyInv, [Next]_vars PROVE PolicyInv'
  OBVIOUS
<1>1. CASE Start
  <2>1. /\ act' = act /\ sent' = <<>> /\ (url' = act.url \/ url' = url)
        /\ (pc' = "dead" \/ (pc' = "handle" /\ url' = act.url))
    BY <1>1 DEF Start
  <2> QED
    BY <2>1 DEF PolicyInv, Urls
<1>2. CASE Exec \/ Respond
  <2>1. UNCHANGED <<act, url, conn, sent>> /\ pc' \in {"failed", "delivered"}
    BY <1>2 DEF Exec, Respond, FailAfter
  <2> QED
    BY <2>1 DEF PolicyInv, Allowed
<1>3. CASE Prepare
  <2>1. UNCHANGED <<act, url, conn, sent>> /\ pc = "handle"
    BY <1>3 DEF Prepare
  <2>2. pc' = "failed" \/ (pc' = "dial" /\ ValidateURL(act.url, act))
    BY <1>3 DEF Prepare, FailAfter
  <2> QED
    BY <2>1, <2>2 DEF PolicyInv, Allowed, SameAuthority
<1>4. CASE Dial
  <2>1. UNCHANGED <<act, url, sent>> /\ pc = "dial"
    BY <1>4 DEF Dial
  <2>2. \/ pc' = "failed"
        \/ pc' = "request" /\ conn' \in Addresses /\ AddressOK(conn', PrivateAllowed(act))
    <3>1. PICK ips \in Resolved(url.host) :
             \/ DialOK(url.host, ips) /\ conn' \in ips /\ pc' = "request"
             \/ pc' = "failed"
      BY <1>4 DEF Dial, FailAfter
    <3>2. ips \subseteq Addresses
      BY AttemptAssumption DEF AttemptAssumption, Resolved
    <3> QED
      BY <3>1, <3>2 DEF DialOK
  <2> QED
    BY <2>1, <2>2 DEF PolicyInv, Allowed
<1>5. CASE Send
  <2> DEFINE r == [url |-> url, addr |-> conn]
  <2>1. UNCHANGED <<act, url, conn>> /\ pc = "request" /\ pc' = "sent" /\ sent' = Append(sent, r)
    BY <1>5 DEF Send
  <2>2. /\ sent \in Seq([url: Urls, addr: Addresses]) /\ Len(sent) <= 2 /\ url \in Urls
        /\ ValidateURL(url, act) /\ SameAuthority(url, act.url)
        /\ conn \in Addresses /\ AddressOK(conn, PrivateAllowed(act))
    BY <2>1 DEF PolicyInv
  <2>3. r \in [url: Urls, addr: Addresses] /\ r.url = url /\ r.addr = conn
    BY <2>2
  <2>4. Allowed(r)
    BY <2>2, <2>3, ChecksAllow
  <2> HIDE DEF r
  <2>5. /\ sent' \in Seq([url: Urls, addr: Addresses]) /\ Len(sent') = Len(sent) + 1
        /\ Len(sent) \in Nat
        /\ \A i \in 1..Len(sent) : sent'[i] = sent[i]
        /\ sent'[Len(sent) + 1] = r
    BY <2>1, <2>2, <2>3
  <2>6. \A i \in 1..Len(sent') : Allowed(sent'[i])
    <3>1. \A i \in 1..Len(sent') : i \in 1..Len(sent) \/ i = Len(sent) + 1
      BY <2>5
    <3> QED
      BY <2>4, <2>5, <3>1 DEF PolicyInv
  <2>7. Len(sent') <= 3
    BY <2>2, <2>5
  <2> QED
    BY <2>1, <2>2, <2>5, <2>6, <2>7 DEF PolicyInv, Allowed
<1>6. CASE Redirect
  <2>1. UNCHANGED <<act, sent>> /\ pc = "sent"
    BY <1>6 DEF Redirect
  <2>2. PICK u \in Locations :
           \/ /\ FollowOK(u) /\ url' = u
              /\ \/ pc' = "dial"
                 \/ pc' = "request" /\ conn' = conn
           \/ pc' = "failed" /\ url' = url
    BY <1>6 DEF Redirect, FailAfter
  <2>3. CASE pc' = "failed" /\ url' = url
    BY <2>1, <2>3 DEF PolicyInv, Allowed
  <2>4. CASE FollowOK(u) /\ url' = u /\ (pc' = "dial" \/ (pc' = "request" /\ conn' = conn))
    <3>1. ValidateURL(u, act) /\ SameAuthority(u, act.url)
      BY <2>1, <2>4 DEF FollowOK, PolicyInv, SameAuthority
    <3>2. Len(sent) <= 2
      <4>1. Len(sent) \in Nat
        BY DEF PolicyInv
      <4> QED
        BY <2>4, <4>1 DEF FollowOK
    <3> QED
      BY <2>1, <2>4, <3>1, <3>2 DEF PolicyInv, Allowed, Urls
  <2> QED
    BY <2>2, <2>3, <2>4
<1>7. CASE Decide \/ Wait
  <2>1. UNCHANGED <<act, url, conn, sent>> /\ pc' \in {"dead", "retrying", "ready"}
    BY <1>7 DEF Decide, Wait
  <2> QED
    BY <2>1 DEF PolicyInv, Allowed
<1>8. CASE UNCHANGED vars
  BY <1>8 DEF vars, PolicyInv, Allowed
<1> QED
  BY <1>1, <1>2, <1>3, <1>4, <1>5, <1>6, <1>7, <1>8 DEF Next

\* HTTP.Handle, secureDialContext and CheckRedirect: whatever the resolver
\* and the servers answer, no request of an attempt leaves the policy.
THEOREM AttemptsStayWithinPolicy == Spec => []StaysWithinPolicy
<1>1. Init => PolicyInv
  BY DEF Init, PolicyInv, Urls
<1>2. PolicyInv => StaysWithinPolicy
  BY DEF PolicyInv, StaysWithinPolicy, Allowed
<1> QED
  BY <1>1, <1>2, PolicyInvStep, PTL DEF Spec

-----------------------------------------------------------------------------
(* The retry schedule                                                      *)

\* The first m iterations of F, beginning with x.
IsIteration(g, F, S, x, m) ==
    g \in [0..m -> S] /\ g[0] = x /\ \A i \in 1..m : g[i] = F[g[i - 1]]

\* A function can be iterated: the recursive definitions of RetryCap and
\* BackoffCap have a value.  Induction over the number of iterations is
\* carried out as the choice of a smallest counterexample.
LEMMA Iteration ==
    ASSUME NEW S, NEW F \in [S -> S], NEW x \in S, NEW m \in Nat
    PROVE  \E g : IsIteration(g, F, S, x, m)
<1> DEFINE Iterates(n, g) == IsIteration(g, F, S, x, n)
<1> DEFINE N == {n \in Nat : ~\E g : Iterates(n, g)}
<1> SUFFICES ASSUME N # {} PROVE FALSE
  OBVIOUS
<1>1. PICK n \in N : \A k \in N : ~(<<k, n>> \in OpToRel(<, Nat))
  BY WFMin, NatLessThanWellFounded
<1>2. n \in Nat
  OBVIOUS
<1>3. n # 0
  <2> DEFINE g == [i \in 0..0 |-> x]
  <2>1. Iterates(0, g)
    BY DEF IsIteration
  <2> HIDE DEF g, Iterates
  <2> QED
    BY <2>1
<1>4. n - 1 \in Nat /\ n - 1 \notin N
  <2>1. n - 1 \in Nat /\ n - 1 < n
    BY <1>2, <1>3
  <2>2. <<n - 1, n>> \in OpToRel(<, Nat)
    BY <1>2, <2>1 DEF OpToRel
  <2> HIDE DEF N
  <2> QED
    BY <1>1, <2>1, <2>2
<1>5. PICK g : Iterates(n - 1, g)
  BY <1>4
<1> DEFINE h == [i \in 0..n |-> IF i = n THEN F[g[n - 1]] ELSE g[i]]
<1>6. /\ \A i \in 0..(n - 1) : i \in 0..n /\ i # n /\ h[i] = g[i]
      /\ \A i \in 0..n : i = n \/ i \in 0..(n - 1)
      /\ n \in 0..n /\ n - 1 \in 0..(n - 1) /\ 0 \in 0..(n - 1)
      /\ \A i \in 1..n : i - 1 \in 0..(n - 1) /\ (i = n \/ i \in 1..(n - 1))
  BY <1>2, <1>4
<1>7. h \in [0..n -> S]
  BY <1>5, <1>6 DEF IsIteration
<1>8. ASSUME NEW i \in 1..n PROVE h[i] = F[h[i - 1]]
  <2>1. CASE i = n
    BY <1>6, <2>1
  <2>2. CASE i # n
    <3>1. i \in 1..(n - 1) /\ i \in 0..(n - 1)
      BY <1>2, <1>6, <2>2
    <3>2. h[i] = g[i] /\ h[i - 1] = g[i - 1]
      BY <1>6, <3>1
    <3> QED
      BY <1>5, <3>1, <3>2 DEF IsIteration
  <2> QED
    BY <2>1, <2>2
<1>9. Iterates(n, h)
  BY <1>5, <1>6, <1>7, <1>8 DEF IsIteration
<1> HIDE DEF h, Iterates
<1> QED
  BY <1>9

\* One turn of the loop of retryDelay, and one factor of the closed form.
Doubled(c, max) == IF c >= max THEN c ELSE IF c > max \div 2 THEN max ELSE 2 * c
Capped(base, max, factor) == IF base > max \div factor THEN max ELSE base * factor

\* Division and multiplication.
LEMMA DivTimes ==
    \A b, m \in Nat, p \in Nat \ {0} : (b > m \div p) <=> (b * p > m)
<1> SUFFICES ASSUME NEW b \in Nat, NEW m \in Nat, NEW p \in Nat \ {0}
             PROVE  (b > m \div p) <=> (b * p > m)
  OBVIOUS
<1> DEFINE d == m \div p
<1>1. d \in Nat /\ d * p <= m /\ m < d * p + p
  OBVIOUS
<1> HIDE DEF d
<1>2. CASE b > d
  <2>1. b >= d + 1
    BY <1>1, <1>2
  <2>2. b * p >= (d + 1) * p /\ (d + 1) * p = d * p + p
    BY <1>1, <2>1
  <2> QED
    BY <1>1, <1>2, <2>2 DEF d
<1>3. CASE ~(b > d)
  <2>1. b * p <= d * p
    BY <1>1, <1>3
  <2> QED
    BY <1>1, <1>3, <2>1 DEF d
<1> QED
  BY <1>2, <1>3

\* Doubling the capped product is capping the doubled one.
LEMMA DoubledCapped ==
    ASSUME NEW base \in Nat \ {0}, NEW max \in Nat, base <= max, NEW factor \in Nat \ {0}
    PROVE  /\ Capped(base, max, 1) = base
           /\ Capped(base, max, factor) \in Nat /\ Capped(base, max, factor) <= max
           /\ Doubled(Capped(base, max, factor), max) = Capped(base, max, 2 * factor)
<1> DEFINE x == base * factor
<1>1. x \in Nat \ {0} /\ base * (2 * factor) = 2 * x /\ base * 1 = base
  OBVIOUS
<1>2. /\ (base > max \div factor) <=> (x > max)
      /\ (base > max \div (2 * factor)) <=> (2 * x > max)
      /\ (base > max \div 1) <=> (base > max)
  <2>1. 2 * factor \in Nat \ {0} /\ 1 \in Nat \ {0} /\ base \in Nat
    OBVIOUS
  <2>2. (base > max \div factor) <=> (base * factor > max)
    BY <2>1, DivTimes
  <2>3. (base > max \div (2 * factor)) <=> (base * (2 * factor) > max)
    BY <2>1, DivTimes
  <2>4. (base > max \div 1) <=> (base * 1 > max)
    BY <2>1, DivTimes
  <2> QED
    BY <1>1, <2>2, <2>3, <2>4
<1> HIDE DEF x
<1>3. /\ Capped(base, max, factor) = (IF x > max THEN max ELSE x)
      /\ Capped(base, max, 2 * factor) = (IF 2 * x > max THEN max ELSE 2 * x)
      /\ Capped(base, max, 1) = base
  BY <1>1, <1>2 DEF Capped, x
<1>4. \A c \in Nat : (c > max \div 2) <=> (2 * c > max)
  OBVIOUS
<1> QED
  BY <1>1, <1>3, <1>4 DEF Doubled

\* The factor of the closed form, as a power of two.
LEMMA PowersOfTwo ==
    ASSUME NEW n \in Nat \ {0}
    PROVE  \E power \in [0..(n - 1) -> Nat \ {0}] :
              /\ power[0] = 1 /\ \A i \in 1..(n - 1) : power[i] = 2 * power[i - 1]
              /\ BackoffCap(n) = Capped(q.retryBase, q.maxRetryDelay, power[n - 1])
<1> DEFINE P == Nat \ {0}
<1> DEFINE F == [c \in P |-> 2 * c]
<1> DEFINE Body(g) == [i \in 0..(n - 1) |-> IF i = 0 THEN 1 ELSE 2 * g[i - 1]]
<1> DEFINE power == CHOOSE g : g = Body(g)
<1>1. n - 1 \in Nat /\ F \in [P -> P] /\ 1 \in P
  OBVIOUS
<1> HIDE DEF F
<1>2. PICK g \in [0..(n - 1) -> P] : g[0] = 1 /\ \A i \in 1..(n - 1) : g[i] = F[g[i - 1]]
  <2>1. \E g : IsIteration(g, F, P, 1, n - 1)
    <3> HIDE DEF P
    <3> QED
      BY <1>1, Iteration
  <2> QED
    BY <2>1 DEF IsIteration
<1>3. g = Body(g)
  <2>1. \A i \in 0..(n - 1) : i # 0 => i \in 1..(n - 1) /\ i - 1 \in 0..(n - 1)
    BY <1>1
  <2>2. \A i \in 0..(n - 1) : g[i] = IF i = 0 THEN 1 ELSE 2 * g[i - 1]
    BY <1>2, <2>1 DEF F
  <2> QED
    BY <1>2, <2>2
<1>4. power = Body(power)
  BY <1>3
<1>5. BackoffCap(n) = Capped(q.retryBase, q.maxRetryDelay, power[n - 1])
  BY DEF BackoffCap, Capped
<1> HIDE DEF power
<1>6. /\ DOMAIN power = 0..(n - 1) /\ power = [i \in 0..(n - 1) |-> power[i]]
      /\ power[0] = 1
      /\ \A i \in 1..(n - 1) : power[i] = 2 * power[i - 1]
  <2>1. power = [i \in 0..(n - 1) |-> Body(power)[i]]
    BY <1>4
  <2>2. \A i \in 0..(n - 1) : Body(power)[i] = IF i = 0 THEN 1 ELSE 2 * power[i - 1]
    OBVIOUS
  <2> HIDE DEF Body
  <2>3. \A i \in 0..(n - 1) : power[i] = IF i = 0 THEN 1 ELSE 2 * power[i - 1]
    BY <2>2, <1>4
  <2>4. 0 \in 0..(n - 1) /\ \A i \in 1..(n - 1) : i \in 0..(n - 1) /\ i # 0
    BY <1>1
  <2>5. DOMAIN power = 0..(n - 1) /\ power = [i \in 0..(n - 1) |-> power[i]]
    BY <2>1
  <2> QED
    BY <2>3, <2>4, <2>5
\* The chosen function and the one that exists are equal.
<1> DEFINE N == {i \in 0..(n - 1) : power[i] # g[i]}
<1>7. N = {}
  <2> SUFFICES ASSUME N # {} PROVE FALSE
    OBVIOUS
  <2>1. N \in SUBSET Nat
    OBVIOUS
  <2>2. PICK k \in N : \A j \in N : ~(<<j, k>> \in OpToRel(<, Nat))
    BY <2>1, WFMin, NatLessThanWellFounded
  <2>3. k \in 0..(n - 1) /\ power[k] # g[k] /\ k # 0
    BY <1>2, <1>6, <2>2
  <2>4. k \in 1..(n - 1) /\ k - 1 \in 0..(n - 1) /\ k - 1 \in Nat /\ k \in Nat /\ k - 1 < k
    BY <1>1, <2>3
  <2>5. k - 1 \notin N
    <3>1. <<k - 1, k>> \in OpToRel(<, Nat)
      BY <2>4 DEF OpToRel
    <3> HIDE DEF N
    <3> QED
      BY <2>2, <3>1
  <2>6. power[k - 1] = g[k - 1] /\ g[k - 1] \in P
    BY <1>2, <2>4, <2>5
  <2> QED
    BY <1>2, <1>6, <2>3, <2>4, <2>6 DEF F
<1>8. power \in [0..(n - 1) -> P]
  BY <1>2, <1>6, <1>7
<1> QED
  BY <1>5, <1>6, <1>8

\* The loop of retryDelay computes the closed form.
LEMMA LoopIsClosedForm ==
    ASSUME q.retryBase \in Nat \ {0}, q.maxRetryDelay \in Nat,
           q.retryBase <= q.maxRetryDelay, NEW n \in Nat \ {0}
    PROVE  RetryCap(q, n) = BackoffCap(n) /\ BackoffCap(n) \in Nat
<1> DEFINE base == q.retryBase
<1> DEFINE max == q.maxRetryDelay
<1> DEFINE F == [c \in Nat |-> Doubled(c, max)]
<1> DEFINE Body(g) == [i \in 1..n |-> IF i = 1 THEN base ELSE Doubled(g[i - 1], max)]
<1> DEFINE cap == CHOOSE g : g = Body(g)
<1>1. RetryCap(q, n) = Min({cap[n], max})
  BY DEF RetryCap, Doubled
<1>2. base \in Nat \ {0} /\ base \in Nat /\ max \in Nat /\ base <= max /\ n - 1 \in Nat
  OBVIOUS
<1> HIDE DEF base, max
<1>3. F \in [Nat -> Nat]
  BY <1>2 DEF Doubled
<1> HIDE DEF F
<1>4. PICK g : IsIteration(g, F, Nat, base, n - 1)
  BY <1>2, <1>3, Iteration
<1> DEFINE h == [i \in 1..n |-> g[i - 1]]
<1>5. h = Body(h)
  <2>1. \A i \in 1..n : /\ i - 1 \in 0..(n - 1)
                        /\ i # 1 => i - 1 \in 1..(n - 1) /\ i - 1 \in 1..n /\ (i - 1) - 1 \in 0..(n - 1)
    BY <1>2
  <2>2. ASSUME NEW i \in 1..n
        PROVE  h[i] = IF i = 1 THEN base ELSE Doubled(h[i - 1], max)
    <3>1. CASE i = 1
      BY <1>4, <3>1 DEF IsIteration
    <3>2. CASE i # 1
      <4>1. h[i] = g[i - 1] /\ h[i - 1] = g[(i - 1) - 1] /\ g[(i - 1) - 1] \in Nat
        BY <1>4, <2>1, <3>2 DEF IsIteration
      <4>2. g[i - 1] = F[g[(i - 1) - 1]]
        BY <1>4, <2>1, <3>2 DEF IsIteration
      <4> QED
        BY <3>2, <4>1, <4>2 DEF F
    <3> QED
      BY <3>1, <3>2
  <2> QED
    BY <2>2
<1>6. cap = Body(cap)
  BY <1>5
<1> HIDE DEF cap, h
<1>7. \A i \in 1..n : cap[i] = IF i = 1 THEN base ELSE Doubled(cap[i - 1], max)
  <2>1. \A i \in 1..n : Body(cap)[i] = IF i = 1 THEN base ELSE Doubled(cap[i - 1], max)
    OBVIOUS
  <2> HIDE DEF Body
  <2> QED
    BY <1>6, <2>1
<1>8. PICK power \in [0..(n - 1) -> Nat \ {0}] :
         /\ power[0] = 1 /\ \A i \in 1..(n - 1) : power[i] = 2 * power[i - 1]
         /\ BackoffCap(n) = Capped(base, max, power[n - 1])
  BY PowersOfTwo DEF base, max
<1> DEFINE N == {i \in 1..n : cap[i] # Capped(base, max, power[i - 1])}
<1>9. N = {}
  <2> SUFFICES ASSUME N # {} PROVE FALSE
    OBVIOUS
  <2>1. N \in SUBSET Nat
    OBVIOUS
  <2>2. PICK k \in N : \A j \in N : ~(<<j, k>> \in OpToRel(<, Nat))
    BY <2>1, WFMin, NatLessThanWellFounded
  <2>3. k \in 1..n /\ cap[k] # Capped(base, max, power[k - 1])
    BY <2>2
  <2>4. k # 1
    <3>1. ASSUME k = 1 PROVE cap[k] = Capped(base, max, power[k - 1])
      <4>1. cap[k] = base /\ power[k - 1] = 1
        BY <1>7, <1>8, <2>3, <3>1
      <4>2. 1 \in Nat \ {0}
        OBVIOUS
      <4> QED
        BY <1>2, <4>1, <4>2, DoubledCapped
    <3> QED
      BY <2>3, <3>1
  <2>5. /\ k - 1 \in 1..n /\ k - 1 \in 1..(n - 1) /\ k - 1 \in Nat /\ k \in Nat /\ k - 1 < k
        /\ (k - 1) - 1 \in 0..(n - 1)
    BY <1>2, <2>3, <2>4
  <2>6. k - 1 \notin N
    <3>1. <<k - 1, k>> \in OpToRel(<, Nat)
      BY <2>5 DEF OpToRel
    <3> HIDE DEF N
    <3> QED
      BY <2>2, <3>1
  <2> DEFINE f == power[(k - 1) - 1]
  <2>7. cap[k - 1] = Capped(base, max, f) /\ f \in Nat \ {0} /\ power[k - 1] = 2 * f
    BY <1>8, <2>5, <2>6
  <2> HIDE DEF f
  <2>8. Doubled(Capped(base, max, f), max) = Capped(base, max, 2 * f)
    BY <1>2, <2>7, DoubledCapped
  <2>9. cap[k] = Doubled(cap[k - 1], max)
    BY <1>7, <2>3, <2>4
  <2> QED
    BY <2>3, <2>7, <2>8, <2>9
<1> DEFINE p == power[n - 1]
<1>10. BackoffCap(n) = Capped(base, max, p) /\ cap[n] = Capped(base, max, p) /\ p \in Nat \ {0}
  <2>1. BackoffCap(n) = Capped(base, max, p)
    BY <1>8
  <2>2. n \in 1..n /\ n - 1 \in 0..(n - 1)
    BY <1>2
  <2>3. cap[n] = Capped(base, max, p)
    BY <1>9, <2>2
  <2> QED
    BY <2>1, <2>2, <2>3
<1> HIDE DEF p
<1>11. BackoffCap(n) \in Nat /\ BackoffCap(n) <= max /\ cap[n] = BackoffCap(n)
  BY <1>2, <1>10, DoubledCapped
<1>12. Min({cap[n], max}) = cap[n]
  <2> DEFINE c == BackoffCap(n)
  <2> HIDE DEF c
  <2>1. \A x \in {c, max} : (\A y \in {c, max} : x <= y) => x = c
    BY <1>2, <1>11 DEF c
  <2>2. c \in {c, max} /\ \A y \in {c, max} : c <= y
    BY <1>2, <1>11 DEF c
  <2>3. Min({c, max}) = c
    BY <2>1, <2>2 DEF Min
  <2> QED
    BY <1>11, <2>3 DEF c
<1> QED
  BY <1>1, <1>11, <1>12

\* The settings that config.Load and New leave, and the values they are
\* compared with.  Retries need no other history than the state an attempt
\* failed in, so this and the property itself are inductive.
RetryInv ==
    /\ q.retryBase \in Nat \ {0} /\ q.maxRetryDelay \in Nat /\ q.retryBase <= q.maxRetryDelay
    /\ q.maxRetries \in Nat /\ q.maxRetryAge \in Nat
    /\ act \in ActionSet
    /\ attempt \in Nat /\ (pc \notin {"ready", "dead"} => attempt # 0)
    /\ now \in Int /\ due \in Int
    /\ err \in [permanent: BOOLEAN, retryAfter: Int]
    /\ RetriesFollowSchedule

\* A configuration that is validated is used as it is.
LEMMA RetryInvInit == Init => RetryInv
<1> SUFFICES ASSUME Init PROVE RetryInv
  OBVIOUS
<1> DEFINE c == WithDefaults(file)
<1>1. file \in Configs /\ Valid(c) /\ q = New(c)
  BY DEF Init
<1>2. /\ c.retryBase \in Int /\ c.maxRetryDelay \in Int /\ c.maxRetryAge \in Int
      /\ c.maxRetries \in Int
  <2>1. file \in [workers: Int, buffer: Int, maxRetries: Int, retryBase: Int, maxRetryDelay: Int,
                  maxRetryAge: Int, sources: SUBSET Seq([type: {"http", "exec"}, timeout: Int])]
    BY <1>1, AttemptAssumption DEF AttemptAssumption
  <2>2. /\ c.retryBase = (IF file.retryBase <= 0 THEN Second ELSE file.retryBase)
        /\ c.maxRetryDelay = (IF file.maxRetryDelay <= 0 THEN 15 * Minute ELSE file.maxRetryDelay)
        /\ c.maxRetryAge = (IF file.maxRetryAge <= 0 THEN Day ELSE file.maxRetryAge)
        /\ c.maxRetries = file.maxRetries
    BY <2>1 DEF WithDefaults
  <2>3. Second \in Int /\ 15 * Minute \in Int /\ Day \in Int
    BY DEF Second, Minute, Hour, Day
  <2> QED
    BY <2>1, <2>2, <2>3
<1> HIDE DEF c
<1>3. /\ c.retryBase \in Nat \ {0} /\ c.maxRetryDelay \in Nat /\ c.retryBase <= c.maxRetryDelay
      /\ c.maxRetries \in Nat /\ c.maxRetryAge \in Nat /\ c.retryBase <= c.maxRetryAge
  BY <1>1, <1>2 DEF Valid
<1>4. /\ q.retryBase = c.retryBase /\ q.maxRetryDelay = c.maxRetryDelay
      /\ q.maxRetries = c.maxRetries /\ q.maxRetryAge = c.maxRetryAge
  BY <1>1, <1>3 DEF New
<1> QED
  BY <1>3, <1>4 DEF Init, RetryInv, RetriesFollowSchedule, NoErr

\* A failed attempt leaves an error and a time.
LEMMA FailureTypes ==
    ASSUME now \in Int, NEW d \in Int, NEW permanent \in BOOLEAN, NEW retryAfter \in Int,
           FailAfter(d, permanent, retryAfter)
    PROVE  now' \in Int /\ err' \in [permanent: BOOLEAN, retryAfter: Int] /\ pc' = "failed"
  BY DEF FailAfter

\* What ParseRetryAfter returns.
LEMMA RetryAfterType ==
    ASSUME now \in Int, NEW header \in RetryAfters
    PROVE  ParseRetryAfter(header, now) \in Int
<1>1. header.value \in Int /\ MaxDuration \in Int /\ header.value * Second \in Int
  BY AttemptAssumption DEF AttemptAssumption, Second
<1>2. Max({0, header.value - now}) \in Int
  <2> DEFINE v == header.value - now
  <2>1. v \in Int
    BY <1>1
  <2> HIDE DEF v
  <2>2. \E x \in {0, v} : \A y \in {0, v} : x >= y
    <3>1. CASE v >= 0
      BY <2>1, <3>1
    <3>2. CASE ~(v >= 0)
      BY <2>1, <3>2
    <3> QED
      BY <3>1, <3>2
  <2>3. Max({0, v}) \in {0, v}
    BY <2>2 DEF Max
  <2> QED
    BY <2>1, <2>3 DEF v
<1> QED
  BY <1>1, <1>2 DEF ParseRetryAfter

\* The invariant is kept, step by step.
LEMMA RetryInvStep == RetryInv /\ [Next]_vars => RetryInv'
<1> SUFFICES ASSUME RetryInv, [Next]_vars PROVE RetryInv'
  OBVIOUS
<1> USE DEF RetriesFollowSchedule
<1>0. now \in Int /\ 15 * Second \in Int /\ 0 \in Int
  BY DEF RetryInv, Second
<1>1. CASE Start
  <2>1. /\ q' = q /\ act' = act /\ now' = now /\ due' = due /\ err' = NoErr
        /\ (pc' = "dead" /\ attempt' = attempt) \/ (pc' = "handle" /\ attempt' = attempt + 1)
    BY <1>1 DEF Start
  <2> QED
    BY <2>1 DEF RetryInv, NoErr
\* In these, the attempt goes on, succeeds or fails.
<1>2. ASSUME UNCHANGED <<q, act, attempt, due>>, pc \notin {"ready", "dead", "retrying"},
             \/ pc' \notin {"ready", "dead", "retrying"} /\ UNCHANGED <<err, now>>
             \/ \E d \in Int, permanent \in BOOLEAN, retryAfter \in Int :
                   FailAfter(d, permanent, retryAfter)
      PROVE  RetryInv'
  <2>1. /\ now' \in Int /\ err' \in [permanent: BOOLEAN, retryAfter: Int]
        /\ pc' \notin {"ready", "dead", "retrying"}
    BY <1>0, <1>2, FailureTypes DEF RetryInv
  <2> QED
    BY <1>2, <2>1 DEF RetryInv
<1>3. CASE Exec
  <2>1. ExecLimit(act) \in Int
    <3>1. act.timeout \in Int
      BY AttemptAssumption DEF AttemptAssumption, RetryInv
    <3> QED
      BY <3>1 DEF ExecLimit, ActionTimeout, Second
  <2>2. \A d \in {0, ExecLimit(act)} : d \in Int
    BY <2>1
  <2>3. /\ UNCHANGED <<q, act, attempt, due>> /\ pc = "handle"
        /\ \/ FailAfter(0, TRUE, 0)
           \/ \E d \in {0, ExecLimit(act)} : FailAfter(d, FALSE, 0)
           \/ pc' = "delivered" /\ UNCHANGED <<err, now>>
    BY <1>3 DEF Exec
  <2> QED
    BY <1>0, <1>2, <2>2, <2>3
<1>4. CASE Prepare
  <2>1. /\ UNCHANGED <<q, act, attempt, due>> /\ pc = "handle"
        /\ (pc' = "dial" /\ UNCHANGED <<err, now>>) \/ FailAfter(0, TRUE, 0)
    BY <1>4 DEF Prepare
  <2> QED
    BY <1>0, <1>2, <2>1
<1>5. CASE Dial
  <2>1. /\ UNCHANGED <<q, act, attempt, due>> /\ pc = "dial"
        /\ (pc' = "request" /\ UNCHANGED <<err, now>>) \/ FailAfter(0, FALSE, 0)
    BY <1>5 DEF Dial
  <2> QED
    BY <1>0, <1>2, <2>1
<1>6. CASE Send
  <2>1. /\ UNCHANGED <<q, act, attempt, due>> /\ pc = "request"
        /\ pc' = "sent" /\ UNCHANGED <<err, now>>
    BY <1>6 DEF Send
  <2> QED
    BY <1>2, <2>1
<1>7. CASE Respond
  <2>1. /\ UNCHANGED <<q, act, attempt, due>> /\ pc = "sent"
        /\ \/ pc' = "delivered" /\ UNCHANGED <<err, now>>
           \/ FailAfter(0, TRUE, 0)
           \/ \E header \in RetryAfters : FailAfter(0, FALSE, ParseRetryAfter(header, now))
           \/ FailAfter(15 * Second, FALSE, 0)
    BY <1>7 DEF Respond
  <2>2. \A header \in RetryAfters : ParseRetryAfter(header, now) \in Int
    BY <1>0, RetryAfterType
  <2> QED
    BY <1>0, <1>2, <2>1, <2>2
<1>8. CASE Redirect
  <2>1. /\ UNCHANGED <<q, act, attempt, due>> /\ pc = "sent"
        /\ (pc' \in {"dial", "request"} /\ UNCHANGED <<err, now>>) \/ FailAfter(0, FALSE, 0)
    BY <1>8 DEF Redirect
  <2> QED
    BY <1>0, <1>2, <2>1
<1>9. CASE Decide
  <2>1. UNCHANGED <<q, act, attempt, err, now>> /\ pc = "failed"
    BY <1>9 DEF Decide
  <2>2. CASE pc' = "dead" /\ due' = due
    BY <2>1, <2>2 DEF RetryInv
  <2>3. ASSUME ~GivesUp, NEW delay \in DelayChoices, ~(now + delay >= q.maxRetryAge),
               pc' = "retrying", due' = now + delay
        PROVE  RetryInv'
    <3>1. ~err.permanent /\ attempt <= q.maxRetries /\ attempt \in Nat \ {0}
      BY <2>1, <2>3 DEF GivesUp, RetryInv
    <3>2. RetryCap(q, attempt) = BackoffCap(attempt) /\ BackoffCap(attempt) \in Nat
      BY <3>1, LoopIsClosedForm DEF RetryInv
    <3>3. delay \in Int /\ IF err.retryAfter > 0 THEN delay = err.retryAfter
                           ELSE 0 <= delay /\ delay <= BackoffCap(attempt)
      BY <2>3, <3>2 DEF DelayChoices, Jitter, RetryInv
    <3>4. BackoffCap(attempt)' = BackoffCap(attempt)
      BY <2>1 DEF BackoffCap
    <3>5. /\ due' \in Int /\ due' < q.maxRetryAge
          /\ IF err.retryAfter > 0 THEN due' = now + err.retryAfter
             ELSE now <= due' /\ due' <= now + BackoffCap(attempt)
      BY <1>0, <2>3, <3>2, <3>3 DEF RetryInv
    <3> QED
      BY <2>1, <2>3, <3>1, <3>4, <3>5 DEF RetryInv
  <2> QED
    BY <1>9, <2>2, <2>3 DEF Decide
<1>10. CASE Wait
  <2>1. UNCHANGED <<q, act, attempt, err, due>> /\ pc' = "ready" /\ now' \in {due, due + Second}
    BY <1>10 DEF Wait
  <2> QED
    BY <2>1 DEF RetryInv, Second
<1>11. CASE UNCHANGED vars
  BY <1>11 DEF vars, RetryInv, BackoffCap
<1> QED
  BY <1>1, <1>3, <1>4, <1>5, <1>6, <1>7, <1>8, <1>9, <1>10, <1>11 DEF Next

\* queue.process and retryDelay: an action is retried as the configuration
\* says, for every schedule that validate accepts.
THEOREM RetriesAreScheduled == Spec => []RetriesFollowSchedule
<1>1. RetryInv => RetriesFollowSchedule
  BY DEF RetryInv
<1> QED
  BY <1>1, RetryInvInit, RetryInvStep, PTL DEF Spec

-----------------------------------------------------------------------------
(* The settings and the lease                                              *)

\* A finite set of numbers has a largest one.
LEMMA LargestNumber ==
    ASSUME NEW S \in SUBSET Int, IsFiniteSet(S), S # {}
    PROVE  Max(S) \in S /\ \A x \in S : x <= Max(S)
<1> DEFINE HasMax(T) == \E m \in T : \A x \in T : m >= x
<1> DEFINE B == {T \in SUBSET S : T # {} /\ ~HasMax(T)}
<1>1. \A T \in SUBSET S : IsFiniteSet(T)
  BY FS_Subset
<1>2. B = {}
  <2> SUFFICES ASSUME B # {} PROVE FALSE
    OBVIOUS
  <2>1. PICK T \in B : \A R \in B : Cardinality(T) <= Cardinality(R)
    BY <1>1, SmallestSet
  <2>2. PICK y \in T : TRUE
    BY <2>1
  <2>3. T \ {y} \in SUBSET S /\ T \ {y} \notin B
    <3>1. ~(Cardinality(T) <= Cardinality(T \ {y}))
      BY <1>1, <2>1, <2>2, PickSmaller
    <3> QED
      BY <2>1, <3>1
  <2>4. HasMax(T)
    <3>1. CASE T \ {y} = {}
      <4>1. \A x \in T : y >= x
        BY <2>1, <2>2, <3>1
      <4> QED
        BY <2>2, <4>1
    <3>2. CASE T \ {y} # {}
      <4>1. PICK m \in T \ {y} : \A x \in T \ {y} : m >= x
        BY <2>3, <3>2
      <4>2. m \in Int /\ y \in Int /\ \A x \in T : x \in Int
        BY <2>1, <2>2, <4>1
      <4>3. CASE m >= y
        BY <4>1, <4>3
      <4>4. CASE ~(m >= y)
        <5>1. \A x \in T : y >= x
          BY <4>1, <4>2, <4>4
        <5> QED
          BY <2>2, <5>1
      <4> QED
        BY <4>3, <4>4
    <3> QED
      BY <3>1, <3>2
  <2> QED
    BY <2>1, <2>4
<1>3. HasMax(S)
  BY <1>2
<1>4. Max(S) \in S /\ \A x \in S : Max(S) >= x
  BY <1>3 DEF Max
<1> QED
  BY <1>4

\* If no summand is larger by more than k, the sum is larger by at most k
\* times their number.
LEMMA SumsWithin ==
    ASSUME NEW S, IsFiniteSet(S), NEW f, NEW g, NEW k \in Nat,
           \A x \in S : f[x] \in Nat /\ g[x] \in Nat /\ f[x] <= g[x] + k
    PROVE  SumFunctionOnSet(f, S) <= SumFunctionOnSet(g, S) + k * Cardinality(S)
<1> DEFINE Fits(T) == SumFunctionOnSet(f, T) <= SumFunctionOnSet(g, T) + k * Cardinality(T)
<1> DEFINE B == {T \in SUBSET S : ~Fits(T)}
<1>1. \A T \in SUBSET S : IsFiniteSet(T) /\ Cardinality(T) \in Nat
  BY FS_Subset, FS_CardinalityType
<1>2. B = {}
  <2> SUFFICES ASSUME B # {} PROVE FALSE
    OBVIOUS
  <2>1. PICK T \in B : \A R \in B : Cardinality(T) <= Cardinality(R)
    BY <1>1, SmallestSet
  <2>2. T \in SUBSET S /\ ~Fits(T) /\ IsFiniteSet(T)
    BY <1>1, <2>1
  <2>3. CASE T = {}
    <3>1. SumFunctionOnSet(f, T) = 0 /\ SumFunctionOnSet(g, T) = 0
      BY <2>2, <2>3, SumValue
    <3>2. k * Cardinality(T) = 0
      BY <2>3, FS_EmptySet
    <3> QED
      BY <2>2, <3>1, <3>2
  <2>4. CASE T # {}
    <3>1. PICK y \in T : TRUE
      BY <2>4
    <3> DEFINE R == T \ {y}
    <3>2. R \in SUBSET S /\ Cardinality(R) = Cardinality(T) - 1 /\ Cardinality(R) \in Nat
          /\ ~(Cardinality(T) <= Cardinality(R))
      BY <2>2, <3>1, PickSmaller
    <3>3. Fits(R)
      BY <2>1, <3>2
    <3>4. /\ SumFunctionOnSet(f, T) = f[y] + SumFunctionOnSet(f, R)
          /\ SumFunctionOnSet(g, T) = g[y] + SumFunctionOnSet(g, R)
      BY <2>2, <3>1, SumValue
    <3>5. IsFiniteSet(R) /\ \A x \in R : f[x] \in Nat /\ g[x] \in Nat
      BY <1>1, <3>2
    <3>6. SumFunctionOnSet(f, R) \in Nat /\ SumFunctionOnSet(g, R) \in Nat
      BY <3>5, SumValue
    <3>7. f[y] \in Nat /\ g[y] \in Nat /\ f[y] <= g[y] + k
      BY <2>2, <3>1
    <3> DEFINE a == SumFunctionOnSet(f, R)
    <3> DEFINE b == SumFunctionOnSet(g, R)
    <3> DEFINE n == Cardinality(R)
    <3>8. a \in Nat /\ b \in Nat /\ n \in Nat /\ a <= b + k * n /\ Cardinality(T) = n + 1
      BY <1>1, <2>2, <3>2, <3>3, <3>6
    <3> HIDE DEF a, b, n
    <3>9. k * (n + 1) = k * n + k /\ k * n \in Nat
      BY <3>8
    <3>10. f[y] + a <= (g[y] + b) + k * (n + 1)
      BY <3>7, <3>8, <3>9
    <3>11. Fits(T)
      BY <3>4, <3>8, <3>10 DEF a, b
    <3> QED
      BY <2>2, <3>11
  <2> QED
    BY <2>3, <2>4
<1> QED
  BY <1>2

\* The queue still has the settings New gave it, from a file validate let
\* through.
SettingsInv ==
    /\ file \in Configs
    /\ Valid(WithDefaults(file))
    /\ q = New(WithDefaults(file))

\* What config.Load makes of a file is typed like the file.
LEMMA DefaultTypes ==
    ASSUME file \in Configs
    PROVE  LET c == WithDefaults(file)
           IN  /\ c.workers \in Int /\ c.buffer \in Int /\ c.maxRetries \in Int
               /\ c.retryBase \in Int /\ c.maxRetryDelay \in Int /\ c.maxRetryAge \in Int
               /\ IsFiniteSet(c.sources)
               /\ c.sources \in SUBSET Seq([type: {"http", "exec"}, timeout: Int])
<1>1. /\ file \in [workers: Int, buffer: Int, maxRetries: Int, retryBase: Int, maxRetryDelay: Int,
                   maxRetryAge: Int, sources: SUBSET Seq([type: {"http", "exec"}, timeout: Int])]
      /\ IsFiniteSet(file.sources)
  BY AttemptAssumption DEF AttemptAssumption
<1>2. Second \in Int /\ 15 * Minute \in Int /\ Day \in Int
  BY DEF Second, Minute, Hour, Day
<1> QED
  BY <1>1, <1>2 DEF WithDefaults

\* An action takes at most 300 ms more than the queue reckons, and so does a
\* pass for each of its actions.
LEMMA PassTimes ==
    ASSUME NEW s \in Seq([type: {"http", "exec"}, timeout: Int])
    PROVE  /\ PassTime(s) \in Nat /\ PassLimit(s) \in Nat
           /\ PassLimit(s) <= PassTime(s) + 3 * Len(s)
<1> DEFINE D == 1..Len(s)
<1> DEFINE f == [i \in D |-> ActionLimit(s[i])]
<1> DEFINE g == [i \in D |-> ActionTimeout(s[i])]
<1> DEFINE R == [type: {"http", "exec"}, timeout: Int]
<1>1. Len(s) \in Nat /\ \A i \in D : s[i] \in R
  <2>1. s \in Seq(R)
    OBVIOUS
  <2> HIDE DEF R
  <2> QED
    BY <2>1
<1>2. IsFiniteSet(D) /\ Cardinality(D) = Len(s)
  <2>1. 1 \in Int /\ Len(s) \in Int
    BY <1>1
  <2>2. IsFiniteSet(D) /\ Cardinality(D) = IF 1 > Len(s) THEN 0 ELSE Len(s) - 1 + 1
    BY <2>1, FS_Interval
  <2>3. (IF 1 > Len(s) THEN 0 ELSE Len(s) - 1 + 1) = Len(s)
    BY <1>1
  <2> QED
    BY <2>2, <2>3
<1>3. \A a \in [type: {"http", "exec"}, timeout: Int] :
         /\ ActionTimeout(a) \in Nat /\ ActionLimit(a) \in Nat
         /\ ActionLimit(a) <= ActionTimeout(a) + 3
  BY DEF ActionTimeout, ActionLimit, ExecLimit, Second
<1>4. \A i \in D : f[i] \in Nat /\ g[i] \in Nat /\ f[i] <= g[i] + 3
  BY <1>1, <1>3
<1>5. PassTime(s) = SumFunctionOnSet(g, D) /\ PassLimit(s) = SumFunctionOnSet(f, D)
  BY DEF PassTime, PassLimit, SumFunction
<1> HIDE DEF f, g, D
<1>6. SumFunctionOnSet(g, D) \in Nat /\ SumFunctionOnSet(f, D) \in Nat
  BY <1>2, <1>4, SumValue
<1>7. SumFunctionOnSet(f, D) <= SumFunctionOnSet(g, D) + 3 * Cardinality(D)
  BY <1>2, <1>4, SumsWithin
<1> QED
  BY <1>2, <1>5, <1>6, <1>7

\* The larger of two numbers.
LEMMA LargerNumber ==
    ASSUME NEW a \in Int, NEW b \in Int
    PROVE  /\ Max({a, b}) \in Int /\ a <= Max({a, b}) /\ b <= Max({a, b})
           /\ Max({a, b}) = a \/ Max({a, b}) = b
<1>1. {a, b} \in SUBSET Int /\ {a, b} # {} /\ IsFiniteSet({a, b})
  <2>1. IsFiniteSet({a}) /\ {a, b} = {a} \cup {b}
    BY FS_Singleton
  <2> QED
    BY <2>1, FS_AddElement
<1>2. Max({a, b}) \in {a, b} /\ \A x \in {a, b} : x <= Max({a, b})
  BY <1>1, LargestNumber
<1> QED
  BY <1>2

\* The lease is at least five minutes, and two minutes more than the queue
\* reckons for any pass.
LEMMA LeaseCovers ==
    ASSUME NEW sources \in SUBSET Seq([type: {"http", "exec"}, timeout: Int]),
           IsFiniteSet(sources)
    PROVE  /\ ComputeLease(sources) \in Int /\ ComputeLease(sources) >= 5 * Minute
           /\ \A s \in sources : PassTime(s) + 2 * Minute <= ComputeLease(sources)
<1> DEFINE passes == {PassTime(s) : s \in sources}
<1> DEFINE T == {15 * Second} \cup passes
<1> DEFINE longestPass == Max(T)
<1>1. \A s \in sources : PassTime(s) \in Nat
  BY PassTimes
<1>2. 15 * Second \in Int /\ 5 * Minute \in Int /\ 2 * Minute \in Int
  BY DEF Second, Minute
<1>3. IsFiniteSet(T) /\ T \in SUBSET Int /\ T # {}
  <2>1. IsFiniteSet(passes)
    <3> DEFINE f == [s \in sources |-> PassTime(s)]
    <3>1. f \in Surjection(sources, passes)
      BY DEF Surjection
    <3> HIDE DEF f, passes
    <3> QED
      BY <3>1, FS_Surjection
  <2>2. IsFiniteSet(T)
    BY <2>1, FS_AddElement
  <2> QED
    BY <1>1, <1>2, <2>2
<1>4. longestPass \in Int /\ \A s \in sources : PassTime(s) <= longestPass
  <2> HIDE DEF T
  <2>1. longestPass \in T /\ \A x \in T : x <= longestPass
    BY <1>3, LargestNumber
  <2>2. \A s \in sources : PassTime(s) \in T
    BY DEF T
  <2> QED
    BY <1>3, <2>1, <2>2
<1>5. ComputeLease(sources) = Max({5 * Minute, longestPass + 2 * Minute})
  BY DEF ComputeLease
<1> DEFINE b == longestPass + 2 * Minute
<1> HIDE DEF longestPass
<1>6. b \in Int
  BY <1>2, <1>4
<1>7. /\ Max({5 * Minute, b}) \in Int /\ 5 * Minute <= Max({5 * Minute, b})
      /\ b <= Max({5 * Minute, b})
  BY <1>2, <1>6, LargerNumber
<1>8. \A s \in sources : PassTime(s) + 2 * Minute <= b
  BY <1>1, <1>2, <1>4
<1> HIDE DEF b
<1> DEFINE lease == Max({5 * Minute, b})
<1>9. ComputeLease(sources) = lease
  BY <1>5 DEF b
<1>10. lease \in Int /\ 5 * Minute <= lease /\ b <= lease
  BY <1>7
<1> HIDE DEF lease
<1>11. \A s \in sources : PassTime(s) + 2 * Minute <= lease
  BY <1>1, <1>2, <1>6, <1>8, <1>10
<1> QED
  BY <1>2, <1>9, <1>10, <1>11

\* What the settings say follows from the file.
LEMMA SettingsFollow == SettingsInv => SettingsAreUsed
<1> SUFFICES ASSUME SettingsInv PROVE SettingsAreUsed
  OBVIOUS
<1> DEFINE c == WithDefaults(file)
<1>1. file \in Configs /\ Valid(c) /\ q = New(c)
  BY DEF SettingsInv
<1>2. /\ c.workers \in Int /\ c.buffer \in Int /\ c.maxRetries \in Int
      /\ c.retryBase \in Int /\ c.maxRetryDelay \in Int /\ c.maxRetryAge \in Int
      /\ IsFiniteSet(c.sources)
      /\ c.sources \in SUBSET Seq([type: {"http", "exec"}, timeout: Int])
  BY <1>1, DefaultTypes
<1> HIDE DEF c
<1>3. /\ c.workers > 0 /\ c.buffer > 0 /\ c.maxRetries >= 0 /\ c.retryBase > 0
      /\ c.retryBase <= c.maxRetryDelay /\ c.retryBase <= c.maxRetryAge
  <2>1. /\ c.workers \in 1..64 /\ c.buffer \in 1..10000 /\ c.maxRetries \in 0..20
        /\ 1 <= c.retryBase /\ c.retryBase <= c.maxRetryDelay /\ c.retryBase <= c.maxRetryAge
    BY <1>1 DEF Valid
  <2>2. c.retryBase \in Int /\ c.maxRetryDelay \in Int /\ c.maxRetryAge \in Int
    BY <1>2
  <2>3. c.workers > 0 /\ c.maxRetries >= 0
    <3>1. c.workers \in 1..64 /\ c.maxRetries \in 0..20
      BY <2>1
    <3> QED
      BY <3>1
  <2>6. c.buffer > 0
    <3> DEFINE most == 10000
    <3>1. c.buffer \in 1..most
      BY <2>1
    <3>2. most \in Int
      OBVIOUS
    <3> HIDE DEF most
    <3> QED
      BY <3>1, <3>2
  <2>4. c.retryBase > 0
    <3>1. 1 <= c.retryBase
      BY <2>1
    <3> QED
      BY <2>2, <3>1
  <2>5. c.retryBase <= c.maxRetryDelay /\ c.retryBase <= c.maxRetryAge
    BY <2>1
  <2> QED
    BY <2>3, <2>4, <2>5, <2>6
<1>4. /\ q.workers = c.workers /\ q.buffer = c.buffer /\ q.maxRetries = c.maxRetries
      /\ q.retryBase = c.retryBase /\ q.maxRetryDelay = c.maxRetryDelay
      /\ q.maxRetryAge = c.maxRetryAge /\ q.lease = ComputeLease(c.sources)
  <2>1. /\ ~(c.workers <= 0) /\ ~(c.buffer <= 0) /\ ~(c.maxRetries < 0) /\ ~(c.retryBase <= 0)
        /\ ~(c.maxRetryDelay < c.retryBase) /\ ~(c.maxRetryAge < c.retryBase)
    BY <1>2, <1>3
  <2> QED
    BY <1>1, <2>1 DEF New
<1>5. \A field \in {"workers", "buffer", "maxRetries", "retryBase", "maxRetryDelay",
                    "maxRetryAge"} : q[field] = c[field]
  BY <1>4
<1>6. /\ q.lease \in Int /\ q.lease >= 5 * Minute
      /\ \A s \in c.sources : PassTime(s) + 2 * Minute <= q.lease
  BY <1>2, <1>4, LeaseCovers
<1>7. ASSUME NEW s \in c.sources, Len(s) < MarginActions PROVE PassLimit(s) < q.lease
  <2>1. /\ PassTime(s) \in Nat /\ PassLimit(s) \in Nat
        /\ PassLimit(s) <= PassTime(s) + 3 * Len(s)
    BY <1>2, PassTimes
  <2>2. Len(s) \in Nat /\ 3 * Len(s) < 2 * Minute
    <3>1. MarginActions = 400 /\ 2 * Minute = 1200
      BY DEF MarginActions, Minute, Second
    <3>2. Len(s) \in Nat
      BY <1>2
    <3> QED
      BY <1>7, <3>1, <3>2
  <2>3. PassTime(s) + 2 * Minute <= q.lease /\ 2 * Minute \in Int
    BY <1>6 DEF Minute, Second
  <2> QED
    BY <1>6, <2>1, <2>2, <2>3
<1>8. 2 * RenewInterval(q) < q.lease
  <2> DEFINE third == q.lease \div 3
  <2>1. 15 * Second = 150 /\ 5 * Minute = 3000
    BY DEF Minute, Second
  <2>2. third \in Int /\ 3 * third <= q.lease /\ third >= 1000
    BY <1>6, <2>1
  <2>3. RenewInterval(q) = Max({15 * Second, third})
    BY DEF RenewInterval
  <2> HIDE DEF third
  <2>4. RenewInterval(q) = 150 \/ RenewInterval(q) = third
    <3>1. Max({150, third}) = 150 \/ Max({150, third}) = third
      BY <2>2, LargerNumber
    <3> QED
      BY <2>1, <2>3, <3>1
  <2> QED
    BY <1>6, <2>1, <2>2, <2>4
<1>9. \A n \in 1..(q.maxRetries + 1) : RetryCap(q, n) = BackoffCap(n)
  <2>1. q.retryBase \in Nat \ {0} /\ q.maxRetryDelay \in Nat /\ q.retryBase <= q.maxRetryDelay
    BY <1>2, <1>3, <1>4
  <2>2. \A n \in 1..(q.maxRetries + 1) : n \in Nat \ {0}
    BY <1>2, <1>3, <1>4
  <2>3. ASSUME NEW n \in 1..(q.maxRetries + 1) PROVE RetryCap(q, n) = BackoffCap(n)
    <3>1. n \in Nat \ {0}
      BY <2>2
    <3> QED
      BY <2>1, <3>1, LoopIsClosedForm
  <2> QED
    BY <2>3
<1> QED
  BY <1>5, <1>6, <1>7, <1>8, <1>9 DEF SettingsAreUsed, c

\* config.Load, queue.New and computeLease: the queue runs with what the file
\* says, under a lease that is long enough for a pass.
THEOREM SettingsAreKept == Spec => []SettingsAreUsed
<1>1. Init => SettingsInv
  BY DEF Init, SettingsInv
<1>2. SettingsInv /\ [Next]_vars => SettingsInv'
  <2> SUFFICES ASSUME SettingsInv, [Next]_vars PROVE SettingsInv'
    OBVIOUS
  <2>1. UNCHANGED <<file, q>>
    BY DEF Next, Start, Exec, Prepare, Dial, Send, Respond, Redirect, Decide, Wait, vars
  <2> QED
    BY <2>1 DEF SettingsInv
<1> QED
  BY <1>1, <1>2, SettingsFollow, PTL DEF Spec

=============================================================================
