--------------------------- MODULE SnapshotRewrite ---------------------------
(***************************************************************************)
(* The rewrite of stored action snapshots at startup (main.go,             *)
(* store/snapshots.go, config/snapshot.go): the history is read in batches *)
(* bounded in rows and in bytes, each snapshot is scrubbed and written     *)
(* back when that changed it, and every write is committed by itself.  The *)
(* process may fail between any two steps and is started again, possibly   *)
(* with another environment: scrubbing looks for the values that the       *)
(* credentials have in the environment of this process.                    *)
(*                                                                         *)
(* Rows are numbered in the order of their ids.  Nothing else uses the     *)
(* store before the rewrite is done, so a row is still what the batch read *)
(* when its turn comes and the "AND actions_json = ?" of the UPDATE holds. *)
(***************************************************************************)
EXTENDS Integers, FiniteSets, FiniteSetsExt

CONSTANTS NumRows,     \* rows of the events table
          Credentials, \* values of credentials that an environment may have
          Embedded,    \* those that occur in a reference, or at its edges
          Sizes,       \* what len(id) + len(actions_json) may be
          BatchRows,   \* snapshotRewriteBatchRows
          BatchBytes,  \* snapshotRewriteBatchBytes
          MaxFaults    \* bound: failures and crashes

ASSUME RewriteAssumption ==
    /\ NumRows \in Nat /\ BatchRows \in Nat \ {0} /\ BatchBytes \in Nat \ {0}
    /\ Sizes \subseteq Nat \ {0} /\ MaxFaults \in Nat
    /\ Embedded \subseteq Credentials

Rows == 1..NumRows

\* none  no snapshot (NULL or '')
\* bad   does not parse
\* old   marshalled otherwise than SnapshotSource does it today
\* new   as SnapshotSource marshals it
Forms == {"none", "bad", "old", "new"}

VARIABLES
    form, size,     \* actions_json of each row
    holds,          \* holds[i]: the credentials whose value is in its actions
    phase,          \* "start", "fetch", "rewrite", "serving" or "failed"
    env,            \* the credentials of this process (keys of replacements)
    after,          \* cursor: the last row of the batch before (0: none)
    batch,          \* rows of the batch
    held,           \* bytes of the batch when it was read
    todo,           \* its rows not yet rewritten
    faults

table == <<form, size, holds>>
vars == <<table, phase, env, after, batch, held, todo, faults>>

Init ==
    /\ form \in [Rows -> Forms]
    /\ size \in [Rows -> Sizes]
    /\ holds \in [Rows -> SUBSET Credentials]
    /\ \A i \in Rows : form[i] \in {"none", "bad"} => holds[i] = {}
    /\ phase = "start"
    /\ env = {}
    /\ after = 0
    /\ batch = {}
    /\ held = 0
    /\ todo = {}
    /\ faults = 0

-----------------------------------------------------------------------------
(* actionSnapshotBatch                                                     *)

Bytes(S) == SumFunctionOnSet(size, S)

\* The rows of the query before row i, and the rows of the query.
Before(i) == {j \in Rows : after < j /\ j < i /\ form[j] # "none"}
Selected == Before(NumRows + 1)

Fits_AfterAppend(i) == Bytes(Before(i)) < BatchBytes

\* Row i does not end the batch: it is the first one, or the rows before left
\* room for all of it.
Fits(i) ==
    \/ Before(i) = {}
    \/ /\ Bytes(Before(i)) < BatchBytes
       /\ size[i] <= BatchBytes - Bytes(Before(i))

Taken(i) ==
    /\ Cardinality(Before(i)) < BatchRows
    /\ \A j \in Before(i) \cup {i} : Fits(j)

-----------------------------------------------------------------------------
(* RewriteActionSnapshots                                                  *)

\* A new process reads its environment (ActionSecretReplacements); nothing is
\* rewritten without a credential to look for.
Start ==
    /\ phase = "start"
    /\ env' \in SUBSET Credentials
    /\ phase' = IF env' = {} THEN "serving" ELSE "fetch"
    /\ after' = 0
    /\ batch' = {}
    /\ held' = 0
    /\ todo' = {}
    /\ UNCHANGED <<table, faults>>

Fetch ==
    /\ phase = "fetch"
    /\ batch' = {i \in Selected : Taken(i)}
    /\ todo' = batch'
    /\ held' = Bytes(batch')
    /\ phase' = IF batch' = {} THEN "serving" ELSE "rewrite"
    /\ UNCHANGED <<table, env, after, faults>>

\* Scrubbing and marshalling row i gives another text.
Changes(i) == form[i] = "old" \/ holds[i] \cap env # {}

\* What the actions of row i may hold after ScrubSnapshotSecrets.  The values
\* are replaced one after the other, so that a reference may bring back one
\* that was replaced before, itself included, or one of another environment.
Scrub(i) ==
    IF holds[i] \cap env = {} THEN {holds[i]}
    ELSE {(holds[i] \ env) \cup X : X \in SUBSET Embedded}

\* The next row: a snapshot that does not parse fails the startup, a changed
\* one is written back, usually with another length.
Rewrite ==
    /\ phase = "rewrite"
    /\ todo # {}
    /\ LET i == Min(todo) IN
          IF form[i] = "bad"
          THEN /\ phase' = "failed"
               /\ UNCHANGED <<table, todo>>
          ELSE /\ todo' = todo \ {i}
               /\ IF Changes(i)
                  THEN /\ form' = [form EXCEPT ![i] = "new"]
                       /\ \E h \in Scrub(i) : holds' = [holds EXCEPT ![i] = h]
                       /\ \E s \in Sizes : size' = [size EXCEPT ![i] = s]
                  ELSE UNCHANGED table
               /\ UNCHANGED phase
    /\ UNCHANGED <<env, after, batch, held, faults>>

Cursor_NextRow == Max(batch) + 1
Cursor_Kept == after

Cursor == Max(batch)

\* The batch is done: go on behind its last row.
Advance ==
    /\ phase = "rewrite"
    /\ todo = {}
    /\ after' = Cursor
    /\ phase' = "fetch"
    /\ UNCHANGED <<table, env, batch, held, todo, faults>>

-----------------------------------------------------------------------------
(* Failures                                                                *)

\* A query or an update fails, or the process dies.
Fault ==
    /\ phase # "failed"
    /\ faults < MaxFaults
    /\ faults' = faults + 1
    /\ phase' = "failed"
    /\ UNCHANGED <<table, env, after, batch, held, todo>>

Restart ==
    /\ phase = "failed"
    /\ phase' = "start"
    /\ UNCHANGED <<table, env, after, batch, held, todo, faults>>

Next == Start \/ Fetch \/ Rewrite \/ Advance \/ Fault \/ Restart

\* The container is restarted whenever it exits, and startup does not wait for
\* anything.
Spec ==
    /\ Init /\ [][Next]_vars
    /\ WF_vars(Start \/ Fetch \/ Rewrite \/ Advance \/ Restart)

-----------------------------------------------------------------------------
(* Properties                                                              *)

\* A process serves only with every stored snapshot parsable and free of the
\* credentials in its environment, whatever environments wrote before: no row
\* slips between two batches, not even the look-ahead row that did not fit, and
\* no restart skips one.  Only a value that a reference itself contains stays.
ServesScrubbed ==
    phase = "serving" /\ env # {} => \A i \in Rows :
        form[i] \in {"none", "new"} /\ holds[i] \cap (env \ Embedded) = {}

\* A batch in memory holds at most BatchRows rows and BatchBytes bytes, or it
\* is one larger snapshot by itself.
BatchIsBounded ==
    /\ Cardinality(batch) <= BatchRows
    /\ held <= BatchBytes \/ Cardinality(batch) = 1

\* Startup comes to an end: unless some snapshot does not parse, a process
\* that is restarted after each of finitely many failures serves in the end.
EventuallyServes ==
    (\A i \in Rows : form[i] # "bad") => <>(phase = "serving")

=============================================================================
