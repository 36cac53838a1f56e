----------------------------- MODULE IntakeProofs -----------------------------
(***************************************************************************)
(* Theorems about Intake, for every set of requests and inputs, every      *)
(* budget and every replay window.                                         *)
(***************************************************************************)
EXTENDS Intake, SumLemmas

\* What res holds.
Answers == {"none", "refused", "busy", "accepted", "duplicate body", "duplicate delivery"}

\* What saves holds.
Commits == Requests \X Nat

\* The types of the tables and of the handlers' local state.
IntakeTypes ==
    /\ pc \in [Requests -> {"new", "reading", "answer", "done", "lost"}]
    /\ req \in [Requests -> Inputs \cup {NoInput}]
    /\ at \in [Requests -> Nat]
    /\ res \in [Requests -> Answers]
    /\ guard \in [Bodies -> Nat \cup {Null}]
    /\ rows \in SUBSET Requests
    /\ saves \in Seq(Commits)
    /\ now \in Nat

-----------------------------------------------------------------------------
(* Steps                                                                   *)

\* A body that can be saved under a guard is one of Bodies, and what a request
\* reserves is a number.
LEMMA InputFacts ==
    ASSUME NEW i \in Inputs \cup {NoInput}
    PROVE  /\ Reserve(i) \in Nat
           /\ i.src = "hmac" => i.body \in Bodies
<1>1. /\ i.length \in Nat /\ MaxBody \in Nat
      /\ i.src = "hmac" => i.body \in Bodies
  <2>1. MaxBody \in Nat
    BY IntakeAssumption DEF IntakeAssumption
  <2>2. CASE i \in Inputs
    BY <2>1, <2>2, IntakeAssumption DEF IntakeAssumption
  <2>3. CASE i = NoInput
    BY <2>1, <2>3 DEF NoInput
  <2> QED
    BY <2>2, <2>3
<1> QED
  BY <1>1 DEF Reserve

\* Every step keeps the types, and no step but Begin touches what a request
\* carries and when it arrived.
LEMMA TypeStep == IntakeTypes /\ [Next]_vars => IntakeTypes'
<1> SUFFICES ASSUME IntakeTypes, [Next]_vars PROVE IntakeTypes'
  OBVIOUS
<1>1. /\ now \in Nat /\ saves \in Seq(Commits) /\ TTL \in Nat
      /\ \A r \in Requests : at[r] \in Nat
  BY IntakeAssumption DEF IntakeTypes, IntakeAssumption
<1>2. \A r \in Requests : at[r] + TTL \in Nat
  BY <1>1
<1>3. \A r \in Requests : Append(saves, <<r, now>>) \in Seq(Commits)
  <2>1. \A r \in Requests : <<r, now>> \in Commits
    BY <1>1 DEF Commits
  <2> QED
    BY <1>1, <2>1
<1>4. now + 1 \in Nat
  BY <1>1
<1> USE DEF IntakeTypes, Answers, budget, tables, Answer, Goto
<1>5. ASSUME NEW r \in Requests,
             RefuseEarly(r) \/ Refuse(r) \/ DuplicateBody(r) \/ DuplicateDelivery(r) \/ Finish(r)
      PROVE  IntakeTypes'
  BY <1>5 DEF RefuseEarly, Refuse, DuplicateBody, DuplicateDelivery, Finish
<1>6. ASSUME NEW r \in Requests, Begin(r) PROVE IntakeTypes'
  BY <1>6 DEF Begin
<1>7. ASSUME NEW r \in Requests, Save(r) PROVE IntakeTypes'
  <2>1. guard' \in [Bodies -> Nat \cup {Null}]
    <3>1. CASE Guarded(r)
      <4>1. guard' = [guard EXCEPT ![req[r].body] = at[r] + TTL]
        BY <1>7, <3>1 DEF Save, Reserved
      <4> QED
        BY <4>1, <1>2
    <3>2. CASE ~Guarded(r)
      BY <1>7, <3>2 DEF Save
    <3> QED
      BY <3>1, <3>2
  <2>2. saves' \in Seq(Commits)
    BY <1>7, <1>3 DEF Save
  <2>3. /\ res' = [res EXCEPT ![r] = "accepted"] /\ pc' = [pc EXCEPT ![r] = "answer"]
        /\ rows' = rows \cup {r} /\ req' = req /\ at' = at /\ now' = now
    BY <1>7 DEF Save
  <2> QED
    BY <2>1, <2>2, <2>3
<1>8. CASE PurgeOlderThan
  <2>1. /\ guard' = [b \in Bodies |-> IF guard[b] < now THEN Null ELSE guard[b]]
        /\ rows' \in SUBSET Requests
        /\ UNCHANGED <<pc, req, at, res, saves, now>>
    BY <1>8 DEF PurgeOlderThan
  <2> QED
    BY <2>1
<1>9. CASE Crash
  BY <1>9 DEF Crash
<1>10. CASE Tick
  BY <1>10, <1>4 DEF Tick
<1>11. CASE UNCHANGED vars
  BY <1>11 DEF vars
<1> QED
  BY <1>5, <1>6, <1>7, <1>8, <1>9, <1>10, <1>11 DEF Next

\* The initial tables are well formed.
LEMMA TypeInit == Init => IntakeTypes
  BY DEF Init, IntakeTypes, Answers

-----------------------------------------------------------------------------
(* The budget                                                              *)

\* What each request reserves, as Reservations adds it up.
Shares == [r \in Requests |-> Reserve(req[r])]

\* BudgetIsExact with the fact its sums need: finitely many handlers run.
BudgetInv == IsFiniteSet(InFlight) /\ BudgetIsExact

\* A handler that enters adds one to the counted and its share to the sum.
LEMMA BeginBudget ==
    ASSUME IntakeTypes, BudgetInv, NEW r \in Requests, Begin(r)
    PROVE  BudgetInv'
<1>1. PICK i \in Inputs :
         /\ CanAcquire(Reserve(i)) /\ Acquire(Reserve(i))
         /\ req' = [req EXCEPT ![r] = i]
  BY DEF Begin
<1>2. pc[r] = "new" /\ pc' = [pc EXCEPT ![r] = "reading"]
  BY DEF Begin, Goto
<1> DEFINE F == InFlight
<1> DEFINE G == InFlight \cup {r}
<1>3. InFlight' = G /\ r \notin F /\ F \in SUBSET Requests
  BY <1>2 DEF InFlight, IntakeTypes
<1>4. /\ IsFiniteSet(F) /\ Cardinality(F) \in Nat /\ IsFiniteSet(G)
      /\ Cardinality(G) = Cardinality(F) + 1
  BY <1>3, FS_AddElement, FS_CardinalityType DEF BudgetInv
<1>5. /\ \A s \in Requests : Shares[s] \in Nat
      /\ \A s \in Requests : Shares'[s] \in Nat
      /\ \A s \in F : Shares'[s] = Shares[s]
      /\ Shares'[r] = Reserve(i)
  <2>1. req' \in [Requests -> Inputs \cup {NoInput}] /\ req'[r] = i
        /\ \A s \in Requests : s # r => req'[s] = req[s]
    BY <1>1 DEF IntakeTypes
  <2>2. \A s \in Requests : Shares[s] = Reserve(req[s]) /\ Shares'[s] = Reserve(req'[s])
    BY DEF Shares, Reserve
  <2>3. \A s \in Requests : req[s] \in Inputs \cup {NoInput} /\ req'[s] \in Inputs \cup {NoInput}
    BY <2>1 DEF IntakeTypes
  <2> QED
    BY <1>3, <2>1, <2>2, <2>3, InputFacts
<1>6. /\ SumFunctionOnSet(Shares', G) = Reserve(i) + SumFunctionOnSet(Shares, F)
      /\ SumFunctionOnSet(Shares, F) \in Nat
  <2>1. G \ {r} = F /\ r \in G
    BY <1>3
  <2> HIDE DEF F, G
  <2>2. SumFunctionOnSet(Shares', G) = Shares'[r] + SumFunctionOnSet(Shares', F)
    <3>1. \A s \in G : Shares'[s] \in Nat
      BY <1>3, <1>5 DEF G, F
    <3> QED
      BY <1>4, <2>1, <3>1, SumValue
  <2>3. SumFunctionOnSet(Shares, F) = SumFunctionOnSet(Shares', F)
    BY <1>3, <1>4, <1>5, SumCongruence
  <2>4. SumFunctionOnSet(Shares, F) \in Nat
    BY <1>3, <1>4, <1>5, SumValue
  <2> QED
    BY <1>5, <2>2, <2>3, <2>4
<1>7. /\ conns = Cardinality(F) /\ conns <= MaxConns
      /\ bytes = SumFunctionOnSet(Shares, F) /\ bytes <= MaxBytes
  BY DEF BudgetInv, BudgetIsExact, Reservations, Shares
<1>8. /\ conns' = conns + 1 /\ bytes' = bytes + Reserve(i)
      /\ conns < MaxConns /\ bytes + Reserve(i) <= MaxBytes
  BY <1>1 DEF CanAcquire, Acquire
<1>9. Reservations' = SumFunctionOnSet(Shares', G)
  BY <1>3 DEF Reservations, Shares
<1>10. MaxConns \in Nat /\ MaxBytes \in Nat /\ Reserve(i) \in Nat
  BY IntakeAssumption, InputFacts DEF IntakeAssumption
<1> HIDE DEF F, G
<1>11. conns' = Cardinality(G) /\ conns' <= MaxConns
  BY <1>4, <1>7, <1>8, <1>10
<1>12. bytes' = SumFunctionOnSet(Shares', G) /\ bytes' <= MaxBytes
  BY <1>6, <1>7, <1>8, <1>10
<1> QED
  BY <1>3, <1>4, <1>9, <1>11, <1>12 DEF BudgetInv, BudgetIsExact

\* A handler that returns takes exactly its share away; no counter is clamped.
LEMMA FinishBudget ==
    ASSUME IntakeTypes, BudgetInv, NEW r \in Requests, Finish(r)
    PROVE  BudgetInv'
<1>1. /\ pc[r] = "answer" /\ pc' = [pc EXCEPT ![r] = "done"] /\ req' = req
      /\ conns' = Floor0(conns - 1) /\ bytes' = Floor0(bytes - Reserve(req[r]))
  BY DEF Finish, Goto, Release
<1> DEFINE F == InFlight
<1> DEFINE G == InFlight \ {r}
<1>2. InFlight' = G /\ r \in F /\ F \in SUBSET Requests
  BY <1>1 DEF InFlight, IntakeTypes
<1>3. /\ IsFiniteSet(F) /\ Cardinality(F) \in Nat /\ IsFiniteSet(G)
      /\ Cardinality(G) \in Nat /\ Cardinality(G) = Cardinality(F) - 1
  BY <1>2, FS_RemoveElement, FS_CardinalityType DEF BudgetInv
<1>4. /\ \A s \in Requests : Shares[s] \in Nat
      /\ Shares[r] = Reserve(req[r]) /\ Shares' = Shares
  BY <1>1, InputFacts DEF Shares, IntakeTypes, Reserve
<1>5. /\ conns = Cardinality(F) /\ conns <= MaxConns
      /\ bytes = SumFunctionOnSet(Shares, F) /\ bytes <= MaxBytes
  BY DEF BudgetInv, BudgetIsExact, Reservations, Shares
<1>6. Reservations' = SumFunctionOnSet(Shares', G)
  BY <1>2 DEF Reservations, Shares
<1>7. /\ SumFunctionOnSet(Shares, F) = Shares[r] + SumFunctionOnSet(Shares, G)
      /\ SumFunctionOnSet(Shares, G) \in Nat
  <2>1. G = F \ {r} /\ \A s \in F : Shares[s] \in Nat
    BY <1>2, <1>4
  <2>2. \A s \in G : Shares[s] \in Nat
    BY <2>1
  <2> HIDE DEF F, G
  <2>3. SumFunctionOnSet(Shares, F) = Shares[r] + SumFunctionOnSet(Shares, G)
    BY <1>2, <1>3, <2>1, SumValue
  <2>4. SumFunctionOnSet(Shares, G) \in Nat
    BY <1>3, <2>2, SumValue
  <2> QED
    BY <2>3, <2>4
<1>8. MaxConns \in Nat /\ MaxBytes \in Nat /\ Shares[r] \in Nat
  BY <1>4, IntakeAssumption DEF IntakeAssumption
<1> HIDE DEF F, G
<1>9. conns' = Cardinality(G) /\ conns' <= MaxConns
  BY <1>1, <1>3, <1>5, <1>8 DEF Floor0
<1>10. bytes' = SumFunctionOnSet(Shares, G) /\ bytes' <= MaxBytes
  BY <1>1, <1>4, <1>5, <1>7, <1>8 DEF Floor0
<1> QED
  BY <1>2, <1>3, <1>4, <1>6, <1>9, <1>10 DEF BudgetInv, BudgetIsExact

\* BudgetInv is inductive.
LEMMA BudgetStep == IntakeTypes /\ BudgetInv /\ [Next]_vars => BudgetInv'
<1> SUFFICES ASSUME IntakeTypes, BudgetInv, [Next]_vars PROVE BudgetInv'
  OBVIOUS
<1>1. ASSUME NEW r \in Requests,
             \/ RefuseEarly(r) \/ Refuse(r) \/ Save(r) \/ DuplicateBody(r)
             \/ DuplicateDelivery(r)
      PROVE  BudgetInv'
  <2>1. /\ conns' = conns /\ bytes' = bytes /\ req' = req
        /\ \/ pc[r] = "new" /\ pc' = [pc EXCEPT ![r] = "done"]
           \/ pc[r] = "reading" /\ pc' = [pc EXCEPT ![r] = "answer"]
    BY <1>1 DEF RefuseEarly, Refuse, Save, DuplicateBody, DuplicateDelivery, Goto, budget
  <2>2. InFlight' = InFlight
    BY <2>1 DEF InFlight, IntakeTypes
  <2> QED
    BY <2>1, <2>2 DEF BudgetInv, BudgetIsExact, Reservations, Reserve
<1>2. CASE PurgeOlderThan \/ Tick \/ UNCHANGED vars
  <2>1. conns' = conns /\ bytes' = bytes /\ req' = req /\ pc' = pc
    BY <1>2 DEF PurgeOlderThan, Tick, vars, budget
  <2> QED
    BY <2>1 DEF BudgetInv, BudgetIsExact, Reservations, Reserve, InFlight
<1>3. CASE Crash
  <2>1. InFlight' = {} /\ conns' = 0 /\ bytes' = 0
    BY <1>3 DEF Crash, InFlight, IntakeTypes
  <2>2. IsFiniteSet({}) /\ Cardinality({}) = 0
    BY FS_EmptySet
  <2>3. Reservations' = SumFunctionOnSet(Shares', {})
    BY <2>1 DEF Reservations, Shares
  <2>4. SumFunctionOnSet(Shares', {}) = 0
    BY <2>2, SumValue
  <2>5. MaxConns \in Nat /\ MaxBytes \in Nat
    BY IntakeAssumption DEF IntakeAssumption
  <2> QED
    BY <2>1, <2>2, <2>3, <2>4, <2>5 DEF BudgetInv, BudgetIsExact
<1> QED
  BY <1>1, <1>2, <1>3, BeginBudget, FinishBudget DEF Next

\* The in-flight budget always counts exactly the handlers that run and what
\* they reserved, on every path out of the handler and after a crash.
THEOREM BudgetIsAlwaysExact == Spec => []BudgetIsExact
<1>1. Init => BudgetInv
  <2> SUFFICES ASSUME Init PROVE BudgetInv
    OBVIOUS
  <2>1. InFlight = {} /\ conns = 0 /\ bytes = 0
    BY DEF Init, InFlight
  <2>2. IsFiniteSet({}) /\ Cardinality({}) = 0
    BY FS_EmptySet
  <2>3. Reservations = SumFunctionOnSet(Shares, {})
    BY <2>1 DEF Reservations, Shares
  <2>4. SumFunctionOnSet(Shares, {}) = 0
    BY <2>2, SumValue
  <2>5. MaxConns \in Nat /\ MaxBytes \in Nat
    BY IntakeAssumption DEF IntakeAssumption
  <2> QED
    BY <2>1, <2>2, <2>3, <2>4, <2>5 DEF BudgetInv, BudgetIsExact
<1>2. BudgetInv => BudgetIsExact
  BY DEF BudgetInv
<1> QED
  BY <1>1, <1>2, TypeInit, TypeStep, BudgetStep, PTL DEF Spec

-----------------------------------------------------------------------------
(* The duplicate checks                                                    *)

\* A request that was saved is past its transaction, and nobody has been
\* answered before its handler started.
SavedIsPast ==
    \A s \in Requests : /\ Saved(s) => pc[s] \notin {"new", "reading"}
                        /\ pc[s] = "new" => res[s] = "none"

\* The clock readings of the handlers are from the past.
Arrived == \A r \in Requests : at[r] <= now

\* What the two duplicate checks find was put there by a commit.
GuardIsBacked ==
    /\ rows \subseteq {s \in Requests : Saved(s)}
    /\ \A b \in Bodies : guard[b] # Null =>
          \E s \in Requests : Saved(s) /\ Guarded(s) /\ req[s].body = b

\* The guard row of a saved body lasts, or is replaced by a later one, until
\* the body's window is over.
GuardCovers ==
    \A r \in Requests : Saved(r) /\ Guarded(r) =>
        now >= at[r] + TTL \/ guard[req[r].body] >= at[r] + TTL

\* The inductive invariant of the duplicate checks.
StoreInv ==
    /\ SavedIsPast /\ Arrived /\ GuardIsBacked /\ GuardCovers
    /\ ConflictMeansStored /\ SameBodyApart

\* The claim of ConflictMeansStored for the answer a to request r.
Justified(r, a) ==
    /\ a = "duplicate delivery" =>
          \E s \in Requests : Ours(r, s) /\ Saved(s)
                              /\ req[s].delivery = req[r].delivery
    /\ a = "duplicate body" =>
          \E s \in Requests : Ours(r, s) /\ Saved(s)
                              /\ req[s].body = req[r].body

\* What the history of commits holds.
LEMMA CommitsAreTyped ==
    ASSUME IntakeTypes
    PROVE  \A i \in 1..Len(saves) : saves[i][1] \in Requests /\ saves[i][2] \in Nat
<1>1. saves \in Seq(Commits)
  BY DEF IntakeTypes
<1>2. \A i \in 1..Len(saves) : saves[i] \in Commits
  BY <1>1
<1> QED
  BY <1>2 DEF Commits

\* A guard row g that covers a window up to a + t still does when the clock
\* moves from n to m, and may go once its expiry is past.
LEMMA StillCovered ==
    ASSUME NEW a \in Nat, NEW t \in Nat, NEW n \in Nat, NEW m \in Nat, n <= m,
           NEW g \in Nat \cup {-1}, NEW h,
           n >= a + t \/ g >= a + t, h = g \/ g < m
    PROVE  m >= a + t \/ h >= a + t
  OBVIOUS

\* A step that commits nothing keeps StoreInv if it leaves what arrived
\* alone, gives no unjustified answer and opens the guard only for bodies
\* whose expiry is past.
LEMMA NoCommit ==
    ASSUME IntakeTypes, IntakeTypes', StoreInv,
           saves' = saves, now <= now', Arrived', rows' \subseteq rows,
           \A s \in Requests : /\ pc[s] # "new" => req'[s] = req[s] /\ at'[s] = at[s]
                               /\ pc'[s] \in {"new", "reading"} => pc[s] \in {"new", "reading"}
                               /\ pc'[s] = "new" => pc[s] = "new" /\ res'[s] = "none"
                               /\ \/ res'[s] = res[s]
                                  \/ pc[s] # "new" /\ Justified(s, res'[s])
                                  \/ res'[s] \notin {"duplicate delivery", "duplicate body"},
           \A b \in Bodies : guard'[b] = guard[b] \/ (guard'[b] = Null /\ guard[b] < now')
    PROVE  StoreInv'
<1>1. \A s \in Requests : Saved(s)' <=> Saved(s)
  BY DEF Saved
<1>2. \A s \in Requests : Saved(s) => /\ pc[s] \notin {"new", "reading"}
                                      /\ req'[s] = req[s] /\ at'[s] = at[s]
  BY DEF StoreInv, SavedIsPast
<1>3. SavedIsPast'
  BY <1>1, <1>2 DEF SavedIsPast
<1>4. GuardIsBacked'
  <2>1. rows' \subseteq {s \in Requests : Saved(s)'}
    BY <1>1 DEF StoreInv, GuardIsBacked
  <2>2. ASSUME NEW b \in Bodies, guard'[b] # Null
        PROVE  \E s \in Requests : Saved(s)' /\ Guarded(s)' /\ req'[s].body = b
    <3>1. PICK s \in Requests : Saved(s) /\ Guarded(s) /\ req[s].body = b
      BY <2>2 DEF StoreInv, GuardIsBacked
    <3>2. Saved(s)' /\ Guarded(s)' /\ req'[s].body = b
      BY <1>1, <1>2, <3>1 DEF Guarded
    <3> QED
      BY <3>2
  <2> QED
    BY <2>1, <2>2 DEF GuardIsBacked
<1>5. GuardCovers'
  <2> SUFFICES ASSUME NEW r \in Requests, Saved(r)', Guarded(r)'
               PROVE  now' >= at'[r] + TTL \/ guard'[req'[r].body] >= at'[r] + TTL
    BY DEF GuardCovers
  <2>1. Saved(r) /\ Guarded(r) /\ req'[r] = req[r] /\ at'[r] = at[r]
    BY <1>1, <1>2 DEF Guarded
  <2>2. req[r].body \in Bodies
    BY <2>1, InputFacts DEF IntakeTypes, Guarded
  <2> DEFINE g == guard[req[r].body]
  <2> DEFINE h == guard'[req[r].body]
  <2>3. g \in Nat \cup {-1} /\ now \in Nat /\ now' \in Nat /\ at[r] \in Nat /\ TTL \in Nat
    BY <2>2, IntakeAssumption DEF IntakeTypes, IntakeAssumption, Null
  <2>4. now >= at[r] + TTL \/ g >= at[r] + TTL
    BY <2>1 DEF StoreInv, GuardCovers
  <2>5. h = g \/ g < now'
    BY <2>2
  <2> HIDE DEF g, h
  <2>6. now' >= at[r] + TTL \/ h >= at[r] + TTL
    BY <2>3, <2>4, <2>5, StillCovered
  <2> QED
    BY <2>1, <2>6 DEF h
<1>6. ConflictMeansStored'
  <2> SUFFICES ASSUME NEW r \in Requests
               PROVE  Justified(r, res[r])'
    BY DEF ConflictMeansStored, Justified
  <2>1. CASE res'[r] \notin {"duplicate delivery", "duplicate body"}
    BY <2>1 DEF Justified
  <2>2. CASE res'[r] \in {"duplicate delivery", "duplicate body"}
    <3>1. pc[r] # "new" /\ Justified(r, res'[r])
      <4>1. Justified(r, res[r]) /\ (pc[r] = "new" => res[r] = "none")
        BY DEF StoreInv, SavedIsPast, ConflictMeansStored, Justified
      <4>2. res'[r] = res[r] \/ (pc[r] # "new" /\ Justified(r, res'[r]))
        BY <2>2
      <4>3. CASE res'[r] = res[r]
        <5>1. res[r] # "none"
          BY <2>2, <4>3
        <5> QED
          BY <4>1, <4>3, <5>1
      <4> QED
        BY <4>2, <4>3
    <3>2. req'[r] = req[r]
      BY <3>1
    <3>3. \A s \in Requests : Ours(r, s) /\ Saved(s) =>
             Ours(r, s)' /\ Saved(s)' /\ req'[s] = req[s]
      BY <1>1, <1>2, <3>2 DEF Ours
    <3> QED
      BY <3>1, <3>2, <3>3 DEF Justified
  <2> QED
    BY <2>1, <2>2
<1>7. SameBodyApart'
  <2> SUFFICES ASSUME NEW i \in 1..Len(saves), NEW j \in 1..Len(saves), i < j,
                      Guarded(saves[i][1])', Guarded(saves[j][1])',
                      req'[saves[i][1]].body = req'[saves[j][1]].body
               PROVE  saves[j][2] >= at'[saves[i][1]] + TTL
    BY DEF SameBodyApart, Guarded
  <2> DEFINE r == saves[i][1]
  <2> DEFINE s == saves[j][1]
  <2>1. r \in Requests /\ s \in Requests /\ Saved(r) /\ Saved(s)
    BY CommitsAreTyped DEF Saved
  <2>2. req'[r] = req[r] /\ at'[r] = at[r] /\ req'[s] = req[s]
    BY <1>2, <2>1
  <2>3. Guarded(r) /\ Guarded(s) /\ req[r].body = req[s].body
    BY <2>2 DEF Guarded
  <2> QED
    BY <2>2, <2>3 DEF StoreInv, SameBodyApart
<1> QED
  BY <1>3, <1>4, <1>5, <1>6, <1>7 DEF StoreInv

\* A commit keeps StoreInv: the check of the guard, made with the handler's
\* old clock reading, passes only when the window of every earlier commit of
\* the body is over at the time of this one.
LEMMA CommitStep ==
    ASSUME IntakeTypes, IntakeTypes', StoreInv, NEW r \in Requests, Save(r)
    PROVE  StoreInv'
<1>1. /\ pc[r] = "reading" /\ pc' = [pc EXCEPT ![r] = "answer"]
      /\ res' = [res EXCEPT ![r] = "accepted"]
      /\ rows' = rows \cup {r} /\ saves' = Append(saves, <<r, now>>)
      /\ req' = req /\ at' = at /\ now' = now
      /\ Guarded(r) => GuardFree(r)
      /\ guard' = IF Guarded(r) THEN Reserved(r) ELSE guard
  BY DEF Save, Answer, Goto, budget
<1> DEFINE n == Len(saves)
<1>2. /\ n \in Nat /\ Len(saves') = n + 1 /\ saves'[n + 1] = <<r, now>>
      /\ \A i \in 1..n : saves'[i] = saves[i]
      /\ \A i \in 1..n : saves[i][1] \in Requests /\ saves[i][2] \in Nat
  <2>1. saves \in Seq(Commits)
    BY DEF IntakeTypes
  <2>2. \A i \in 1..n : saves[i][1] \in Requests /\ saves[i][2] \in Nat
    BY CommitsAreTyped
  <2> QED
    BY <1>1, <2>1, <2>2
<1>3. \A s \in Requests : Saved(s)' <=> Saved(s) \/ s = r
  <2>1. \A s \in Requests : Saved(s)' <=> \E i \in 1..(n + 1) : saves'[i][1] = s
    BY <1>2 DEF Saved
  <2>2. saves'[n + 1][1] = r
    BY <1>2
  <2> HIDE DEF n
  <2>3. \A s \in Requests :
           (\E i \in 1..(n + 1) : saves'[i][1] = s) <=> (\E i \in 1..n : saves[i][1] = s) \/ s = r
    <3>1. n + 1 \in 1..(n + 1) /\ \A i \in 1..(n + 1) : i \in 1..n \/ i = n + 1
      BY <1>2
    <3>2. \A i \in 1..n : i \in 1..(n + 1)
      BY <1>2
    <3> QED
      BY <1>2, <2>2, <3>1, <3>2
  <2> QED
    BY <2>1, <2>3 DEF n, Saved
<1>4. \A s \in Requests : now \in Nat /\ at[s] \in Nat /\ TTL \in Nat /\ at[s] <= now
  BY IntakeAssumption DEF IntakeTypes, IntakeAssumption, StoreInv, Arrived
<1>5. \A b \in Bodies : guard'[b] = IF Guarded(r) /\ b = req[r].body THEN at[r] + TTL
                                    ELSE guard[b]
  BY <1>1 DEF Reserved, IntakeTypes
<1>6. \A s \in Requests : Guarded(s) => req[s].body \in Bodies
  BY InputFacts DEF IntakeTypes, Guarded
<1>7. \A b \in Bodies : guard[b] \in Nat \cup {-1}
  BY DEF IntakeTypes, Null
\* The window of every earlier commit of this body is over.
<1>8. ASSUME NEW s \in Requests, Saved(s), Guarded(s), Guarded(r),
             req[s].body = req[r].body
      PROVE  now >= at[s] + TTL
  <2> DEFINE g == guard[req[r].body]
  <2>1. g \in Nat \cup {-1}
    BY <1>6, <1>7, <1>8
  <2>2. g = -1 \/ g <= at[r]
    BY <1>1, <1>8 DEF GuardFree, Null
  <2>3. now >= at[s] + TTL \/ g >= at[s] + TTL
    BY <1>8 DEF StoreInv, GuardCovers
  <2>4. at[r] <= now /\ at[r] \in Nat
    BY <1>4
  <2>5. at[s] \in Nat /\ now \in Nat /\ TTL \in Nat
    BY <1>4
  <2> HIDE DEF g
  <2> QED
    BY <2>1, <2>2, <2>3, <2>4, <2>5
<1>9. SavedIsPast'
  BY <1>1, <1>3 DEF StoreInv, SavedIsPast, IntakeTypes
<1>10. Arrived'
  BY <1>1, <1>4 DEF Arrived
<1>11. GuardIsBacked'
  <2>1. rows' \subseteq {s \in Requests : Saved(s)'}
    BY <1>1, <1>3 DEF StoreInv, GuardIsBacked
  <2>2. ASSUME NEW b \in Bodies, guard'[b] # Null
        PROVE  \E s \in Requests : Saved(s)' /\ Guarded(s)' /\ req'[s].body = b
    <3>1. CASE Guarded(r) /\ b = req[r].body
      BY <1>1, <1>3, <3>1 DEF Guarded
    <3>2. CASE ~(Guarded(r) /\ b = req[r].body)
      <4>1. guard[b] # Null
        BY <1>5, <2>2, <3>2
      <4>2. PICK s \in Requests : Saved(s) /\ Guarded(s) /\ req[s].body = b
        BY <4>1 DEF StoreInv, GuardIsBacked
      <4>3. Saved(s)' /\ Guarded(s)' /\ req'[s].body = b
        BY <1>1, <1>3, <4>2 DEF Guarded
      <4> QED
        BY <4>3
    <3> QED
      BY <3>1, <3>2
  <2> QED
    BY <2>1, <2>2 DEF GuardIsBacked
<1>12. GuardCovers'
  <2> SUFFICES ASSUME NEW s \in Requests, Saved(s)', Guarded(s)
               PROVE  now >= at[s] + TTL \/ guard'[req[s].body] >= at[s] + TTL
    BY <1>1 DEF GuardCovers, Guarded
  <2>1. req[s].body \in Bodies
    BY <1>6
  <2>2. CASE s = r
    <3>1. guard'[req[s].body] = at[s] + TTL
      BY <1>5, <2>1, <2>2
    <3> QED
      BY <1>4, <3>1
  <2>3. CASE s # r
    <3>1. Saved(s)
      BY <1>3, <2>3
    <3>2. CASE Guarded(r) /\ req[s].body = req[r].body
      BY <1>8, <3>1, <3>2
    <3>3. CASE ~(Guarded(r) /\ req[s].body = req[r].body)
      <4>1. guard'[req[s].body] = guard[req[s].body]
        BY <1>5, <2>1, <3>3
      <4> QED
        BY <3>1, <4>1 DEF StoreInv, GuardCovers
    <3> QED
      BY <3>2, <3>3
  <2> QED
    BY <2>2, <2>3
<1>13. ConflictMeansStored'
  <2> SUFFICES ASSUME NEW q \in Requests PROVE Justified(q, res[q])'
    BY DEF ConflictMeansStored, Justified
  <2>1. CASE q = r
    BY <1>1, <2>1 DEF Justified, IntakeTypes
  <2>2. CASE q # r
    <3>1. Justified(q, res[q]) /\ res'[q] = res[q]
      BY <1>1, <2>2 DEF StoreInv, ConflictMeansStored, Justified, IntakeTypes
    <3>2. \A s \in Requests : Ours(q, s) /\ Saved(s) => Ours(q, s)' /\ Saved(s)'
      BY <1>1, <1>3 DEF Ours
    <3> QED
      BY <1>1, <3>1, <3>2 DEF Justified
  <2> QED
    BY <2>1, <2>2
<1>14. SameBodyApart'
  <2> SUFFICES ASSUME NEW i \in 1..(n + 1), NEW j \in 1..(n + 1), i < j,
                      Guarded(saves'[i][1]), Guarded(saves'[j][1]),
                      req[saves'[i][1]].body = req[saves'[j][1]].body
               PROVE  saves'[j][2] >= at[saves'[i][1]] + TTL
    BY <1>1, <1>2 DEF SameBodyApart, Guarded
  <2>1. i \in 1..n /\ (j \in 1..n \/ j = n + 1)
    BY <1>2
  <2>2. saves'[i] = saves[i] /\ saves[i][1] \in Requests /\ Saved(saves[i][1])
    BY <1>2, <2>1 DEF Saved
  <2>3. CASE j \in 1..n
    <3>1. saves'[j] = saves[j]
      BY <1>2, <2>3
    <3> QED
      BY <2>1, <2>2, <2>3, <3>1 DEF StoreInv, SameBodyApart
  <2>4. CASE j = n + 1
    <3>1. saves'[j][1] = r /\ saves'[j][2] = now
      BY <1>2, <2>4
    <3> QED
      BY <1>8, <2>2, <3>1
  <2> QED
    BY <2>1, <2>3, <2>4
<1> QED
  BY <1>9, <1>10, <1>11, <1>12, <1>13, <1>14 DEF StoreInv

\* StoreInv is inductive.
LEMMA StoreStep == IntakeTypes /\ StoreInv /\ [Next]_vars => StoreInv'
<1> SUFFICES ASSUME IntakeTypes, StoreInv, [Next]_vars PROVE StoreInv'
  OBVIOUS
<1>1. IntakeTypes'
  BY TypeStep
<1>2. /\ \A s \in Requests : at[s] \in Nat /\ at[s] <= now
      /\ \A s \in Requests : pc[s] = "new" => res[s] = "none"
      /\ now \in Nat
  BY DEF IntakeTypes, StoreInv, Arrived, SavedIsPast
<1>3. ASSUME NEW r \in Requests, Begin(r) PROVE StoreInv'
  <2>1. /\ pc[r] = "new" /\ pc' = [pc EXCEPT ![r] = "reading"]
        /\ at' = [at EXCEPT ![r] = now]
        /\ \A s \in Requests \ {r} : req'[s] = req[s]
        /\ res' = res /\ rows' = rows /\ guard' = guard /\ saves' = saves /\ now' = now
    BY <1>3 DEF Begin, Goto, tables, IntakeTypes
  <2>2. Arrived'
    BY <1>2, <2>1 DEF Arrived, IntakeTypes
  <2>3. now <= now'
    BY <1>2, <2>1
  <2>4. \A s \in Requests : /\ pc[s] # "new" => req'[s] = req[s] /\ at'[s] = at[s]
                            /\ pc'[s] \in {"new", "reading"} => pc[s] \in {"new", "reading"}
                            /\ pc'[s] = "new" => pc[s] = "new" /\ res'[s] = "none"
                            /\ res'[s] = res[s]
    BY <1>2, <2>1 DEF IntakeTypes
  <2> QED
    BY <1>1, <2>1, <2>2, <2>3, <2>4, NoCommit
<1>4. ASSUME NEW r \in Requests,
             RefuseEarly(r) \/ Refuse(r) \/ DuplicateBody(r) \/ DuplicateDelivery(r)
      PROVE  StoreInv'
  <2>1. /\ pc' \in {[pc EXCEPT ![r] = "done"], [pc EXCEPT ![r] = "answer"]}
        /\ req' = req /\ at' = at /\ rows' = rows /\ guard' = guard
        /\ saves' = saves /\ now' = now
    BY <1>4 DEF RefuseEarly, Refuse, DuplicateBody, DuplicateDelivery, Goto, tables
  <2>2. /\ \A s \in Requests \ {r} : res'[s] = res[s]
        /\ \/ res'[r] \notin {"duplicate delivery", "duplicate body"}
           \/ pc[r] # "new" /\ Justified(r, res'[r])
    <3>1. CASE RefuseEarly(r) \/ Refuse(r)
      BY <3>1 DEF RefuseEarly, Refuse, Answer, IntakeTypes
    <3>2. CASE DuplicateBody(r)
      <4>1. /\ pc[r] = "reading" /\ res' = [res EXCEPT ![r] = "duplicate body"]
            /\ Guarded(r) /\ guard[req[r].body] # Null
        BY <3>2 DEF DuplicateBody, Answer, GuardFree
      <4>2. req[r].body \in Bodies
        BY <4>1, InputFacts DEF Guarded, IntakeTypes
      <4>3. PICK s \in Requests : Saved(s) /\ Guarded(s) /\ req[s].body = req[r].body
        BY <4>1, <4>2 DEF StoreInv, GuardIsBacked
      <4>4. s # r /\ Ours(r, s)
        BY <4>1, <4>3 DEF StoreInv, SavedIsPast, Guarded, Ours
      <4>5. res'[r] = "duplicate body" /\ \A q \in Requests \ {r} : res'[q] = res[q]
        BY <4>1 DEF IntakeTypes
      <4> QED
        BY <4>1, <4>3, <4>4, <4>5 DEF Justified
    <3>3. CASE DuplicateDelivery(r)
      <4>1. /\ pc[r] = "reading" /\ res' = [res EXCEPT ![r] = "duplicate delivery"]
            /\ DeliveryTaken(r)
        BY <3>3 DEF DuplicateDelivery, Answer
      <4>2. PICK s \in rows : req[s].src = req[r].src /\ req[s].delivery = req[r].delivery
        BY <4>1 DEF DeliveryTaken
      <4>3. s \in Requests /\ Saved(s)
        BY DEF StoreInv, GuardIsBacked
      <4>4. s # r /\ Ours(r, s)
        BY <4>1, <4>2, <4>3 DEF StoreInv, SavedIsPast, Ours
      <4>5. res'[r] = "duplicate delivery" /\ \A q \in Requests \ {r} : res'[q] = res[q]
        BY <4>1 DEF IntakeTypes
      <4> QED
        BY <4>1, <4>2, <4>3, <4>4, <4>5 DEF Justified
    <3> QED
      BY <1>4, <3>1, <3>2, <3>3
  <2>3. Arrived' /\ now <= now'
    BY <1>2, <2>1 DEF Arrived
  <2>4. \A s \in Requests : /\ pc'[s] \in {"new", "reading"} => pc[s] \in {"new", "reading"}
                            /\ pc'[s] = "new" => pc[s] = "new" /\ res'[s] = "none"
    <3>1. \A s \in Requests : s # r => pc'[s] = pc[s]
      BY <2>1 DEF IntakeTypes
    <3>2. pc'[r] \in {"done", "answer"}
      BY <2>1 DEF IntakeTypes
    <3> QED
      BY <1>2, <2>2, <3>1, <3>2
  <2>5. \A s \in Requests :
           \/ res'[s] = res[s]
           \/ pc[s] # "new" /\ Justified(s, res'[s])
           \/ res'[s] \notin {"duplicate delivery", "duplicate body"}
    BY <2>2
  <2> QED
    BY <1>1, <2>1, <2>3, <2>4, <2>5, NoCommit
<1>5. ASSUME NEW r \in Requests, Finish(r) PROVE StoreInv'
  <2>1. /\ pc' = [pc EXCEPT ![r] = "done"]
        /\ req' = req /\ at' = at /\ rows' = rows /\ guard' = guard
        /\ saves' = saves /\ now' = now /\ res' = res
    BY <1>5 DEF Finish, Goto, tables
  <2>2. Arrived' /\ now <= now'
    BY <1>2, <2>1 DEF Arrived
  <2>3. \A s \in Requests : /\ pc'[s] \in {"new", "reading"} => pc[s] \in {"new", "reading"}
                            /\ pc'[s] = "new" => pc[s] = "new" /\ res'[s] = "none"
    BY <1>2, <2>1 DEF IntakeTypes
  <2> QED
    BY <1>1, <2>1, <2>2, <2>3, NoCommit
<1>6. CASE PurgeOlderThan
  <2>1. /\ guard' = [b \in Bodies |-> IF guard[b] < now THEN Null ELSE guard[b]]
        /\ rows' \subseteq rows
        /\ pc' = pc /\ req' = req /\ at' = at /\ res' = res /\ saves' = saves /\ now' = now
    BY <1>6 DEF PurgeOlderThan
  <2>2. Arrived' /\ now <= now'
    BY <1>2, <2>1 DEF Arrived
  <2>3. \A b \in Bodies : guard'[b] = guard[b] \/ (guard'[b] = Null /\ guard[b] < now')
    BY <2>1
  <2> QED
    BY <1>1, <1>2, <2>1, <2>2, <2>3, NoCommit
<1>7. CASE Crash
  <2>1. /\ pc' = [r \in Requests |-> IF r \in InFlight THEN "lost" ELSE pc[r]]
        /\ req' = req /\ at' = at /\ rows' = rows /\ guard' = guard
        /\ saves' = saves /\ now' = now /\ res' = res
    BY <1>7 DEF Crash, tables
  <2>2. Arrived' /\ now <= now'
    BY <1>2, <2>1 DEF Arrived
  <2>3. \A s \in Requests : /\ pc'[s] \in {"new", "reading"} => pc[s] \in {"new", "reading"}
                            /\ pc'[s] = "new" => pc[s] = "new" /\ res'[s] = "none"
    BY <1>2, <2>1 DEF IntakeTypes
  <2> QED
    BY <1>1, <2>1, <2>2, <2>3, NoCommit
<1>8. CASE Tick \/ UNCHANGED vars
  <2>1. /\ pc' = pc /\ req' = req /\ at' = at /\ rows' = rows /\ guard' = guard
        /\ saves' = saves /\ res' = res /\ (now' = now \/ now' = now + 1)
    BY <1>8 DEF Tick, vars, tables
  <2>2. now <= now'
    BY <1>2, <2>1
  <2>3. Arrived'
    BY <1>1, <1>2, <2>1, <2>2 DEF Arrived, IntakeTypes
  <2> QED
    BY <1>1, <1>2, <2>1, <2>2, <2>3, NoCommit
<1> QED
  BY <1>1, <1>3, <1>4, <1>5, <1>6, <1>7, <1>8, CommitStep DEF Next

\* StoreInv holds initially, when nothing is stored and nobody is answered.
LEMMA StoreInit == Init => StoreInv
<1> SUFFICES ASSUME Init PROVE StoreInv
  OBVIOUS
<1>1. Len(saves) = 0 /\ rows = {} /\ now = 0
  BY DEF Init
<1>2. \A s \in Requests : pc[s] = "new" /\ res[s] = "none" /\ at[s] = 0
  BY DEF Init
<1>3. \A b \in Bodies : guard[b] = Null
  BY DEF Init
<1>4. \A s \in Requests : ~Saved(s)
  BY <1>1 DEF Saved
<1>5. SavedIsPast /\ Arrived /\ GuardIsBacked /\ GuardCovers
  BY <1>1, <1>2, <1>3, <1>4 DEF SavedIsPast, Arrived, GuardIsBacked, GuardCovers
<1>6. ConflictMeansStored
  BY <1>2 DEF ConflictMeansStored
<1>7. SameBodyApart
  BY <1>1 DEF SameBodyApart
<1> QED
  BY <1>5, <1>6, <1>7 DEF StoreInv

\* A sender that is told "duplicate" has lost nothing: a webhook of its source
\* with that delivery id, or with that body, was committed before, whatever
\* the crashes, purges and interleavings of handlers.
THEOREM ConflictsAreStored == Spec => []ConflictMeansStored
<1>1. StoreInv => ConflictMeansStored
  BY DEF StoreInv
<1> QED
  BY <1>1, TypeInit, TypeStep, StoreInit, StoreStep, PTL DEF Spec

\* Two commits of one body by an HMAC source are at least the replay window
\* apart, counted from the arrival of the first.
THEOREM ReplaysAreApart == Spec => []SameBodyApart
<1>1. StoreInv => SameBodyApart
  BY DEF StoreInv
<1> QED
  BY <1>1, TypeInit, TypeStep, StoreInit, StoreStep, PTL DEF Spec

=============================================================================
