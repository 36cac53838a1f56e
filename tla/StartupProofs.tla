---------------------------- MODULE StartupProofs -----------------------------
(***************************************************************************)
(* Theorems about what the process does to its database before it serves:  *)
(* SnapshotRewrite, for every number, size and content of the stored       *)
(* snapshots, every batch limit and every sequence of failed starts; and   *)
(* Migration, for every number of rows and every database an earlier       *)
(* release may have left.                                                  *)
(***************************************************************************)
EXTENDS SnapshotRewrite, Migration, SumLemmas

-----------------------------------------------------------------------------
(* The snapshot rewrite                                                    *)

\* Row i needs no rewrite, but for values that a reference brings back.
Scrubbed(i) == form[i] \in {"none", "new"} /\ holds[i] \cap (env \ Embedded) = {}

\* ServesScrubbed looks at the end of the rewrite.  On the way there the rows
\* up to the cursor are scrubbed, and while a batch is being written so is
\* every row up to the last one of the batch that is not still to do: a
\* batch leaves no row out.
RewriteInv ==
    /\ form \in [Rows -> Forms]
    /\ holds \in [Rows -> SUBSET Credentials]
    /\ env \in SUBSET Credentials
    /\ \A i \in Rows : form[i] = "none" => holds[i] = {}
    /\ size \in [Rows -> Nat]
    /\ after \in Nat
    /\ batch \in SUBSET Rows
    /\ todo \in SUBSET batch
    /\ phase \in {"start", "fetch", "rewrite", "serving", "failed"}
    /\ phase \in {"fetch", "rewrite"} =>
          \A i \in Rows : i <= after => Scrubbed(i)
    /\ phase = "rewrite" =>
          /\ batch # {}
          /\ \A i \in Rows : i <= Max(batch) => Scrubbed(i) \/ i \in todo
    /\ ServesScrubbed

-----------------------------------------------------------------------------
(* Rows in order                                                           *)

\* A nonempty set of rows has a first and a last one.
LEMMA FirstAndLast ==
    ASSUME NEW S \in SUBSET Rows, S # {}
    PROVE  /\ Min(S) \in S /\ \A i \in S : Min(S) <= i
           /\ Max(S) \in S /\ \A i \in S : i <= Max(S)
<1> USE RewriteAssumption DEF RewriteAssumption, Rows
<1>1. \E i \in S : \A j \in S : i <= j
  <2>1. S \in SUBSET Nat
    OBVIOUS
  <2> QED
    BY <2>1, LeastNumber
<1>2. \E i \in S : \A j \in S : i >= j
  <2> DEFINE N == {NumRows - i : i \in S}
  <2>1. N \in SUBSET Nat /\ N # {}
    <3>1. \A i \in S : NumRows - i \in Nat
      OBVIOUS
    <3> QED
      BY <3>1
  <2>2. PICK n \in N : \A m \in N : n <= m
    BY <2>1, LeastNumber
  <2>3. PICK i \in S : n = NumRows - i
    BY <2>2
  <2>4. \A j \in S : NumRows - i <= NumRows - j
    BY <2>2, <2>3
  <2> QED
    BY <2>4
<1>3. Min(S) \in S /\ \A i \in S : Min(S) <= i
  BY <1>1 DEF Min
<1>4. Max(S) \in S /\ \A i \in S : Max(S) >= i
  BY <1>2 DEF Max
<1> QED
  BY <1>3, <1>4

\* Sets of rows are finite.
LEMMA RowsAreFinite ==
    ASSUME NEW S \in SUBSET Rows
    PROVE  IsFiniteSet(S) /\ Cardinality(S) \in Nat
<1>1. IsFiniteSet(Rows)
  BY RewriteAssumption, FS_Interval DEF RewriteAssumption, Rows
<1> QED
  BY <1>1, FS_Subset, FS_CardinalityType

-----------------------------------------------------------------------------
(* actionSnapshotBatch                                                     *)

\* The batch the query and the two limits leave.
Batch == {i \in Selected : Taken(i)}

\* A batch takes the selected rows from the first on without a gap, and at
\* least one when there is any.
LEMMA BatchIsPrefix ==
    ASSUME RewriteInv
    PROVE  /\ Batch \in SUBSET Rows
           /\ \A i \in Batch : \A j \in Before(i) : j \in Batch
           /\ Selected # {} => Batch # {}
<1> USE RewriteAssumption DEF RewriteAssumption
<1>1. /\ Selected \in SUBSET Rows /\ Rows \in SUBSET Nat
      /\ \A i \in Rows : Before(i) \in SUBSET Selected
      /\ \A i \in Selected : Before(i) = {j \in Selected : j < i}
  BY DEF Selected, Before, Rows, RewriteInv
<1>2. ASSUME NEW i \in Batch, NEW j \in Before(i) PROVE j \in Batch
  <2>1. i \in Selected /\ j \in Selected /\ j < i /\ i \in Nat /\ j \in Nat
    BY <1>1 DEF Batch
  <2>2. Before(j) \cup {j} \subseteq Before(i)
    <3>1. \A k \in Selected : k < j => k < i
      BY <1>1, <2>1
    <3>2. Before(j) = {k \in Selected : k < j} /\ Before(i) = {k \in Selected : k < i}
      BY <1>1, <2>1
    <3> QED
      BY <2>1, <3>1, <3>2
  <2>3. Cardinality(Before(j)) <= Cardinality(Before(i))
    <3>1. IsFiniteSet(Before(i)) /\ Before(j) \subseteq Before(i)
      BY <1>1, <2>1, <2>2, RowsAreFinite
    <3> QED
      BY <3>1, FS_Subset
  <2>4. Cardinality(Before(i)) \in Nat /\ Cardinality(Before(j)) \in Nat
    BY <1>1, <2>1, RowsAreFinite
  <2>5. Cardinality(Before(i)) < BatchRows /\ \A k \in Before(i) \cup {i} : Fits(k)
    BY DEF Batch, Taken
  <2>6. Cardinality(Before(j)) < BatchRows
    BY <2>3, <2>4, <2>5
  <2> QED
    BY <2>1, <2>2, <2>5, <2>6 DEF Batch, Taken
<1>3. ASSUME Selected # {} PROVE Batch # {}
  <2> DEFINE i == Min(Selected)
  <2>1. i \in Selected /\ \A j \in Selected : i <= j
    BY <1>1, <1>3, FirstAndLast
  <2> HIDE DEF i
  <2>2. Before(i) = {}
    <3>1. \A j \in Selected : ~(j < i)
      BY <1>1, <2>1
    <3> QED
      BY <1>1, <2>1, <3>1
  <2>3. Fits(i) /\ Cardinality(Before(i)) < BatchRows
    BY <2>2, FS_EmptySet DEF Fits
  <2>4. Taken(i)
    BY <2>2, <2>3 DEF Taken
  <2> QED
    BY <2>1, <2>4 DEF Batch
<1> QED
  BY <1>1, <1>2, <1>3 DEF Batch

\* The limits hold for what is taken: the bytes of a batch are those of the
\* rows before its last one and that row, which Fits has weighed.
LEMMA BatchLimits ==
    ASSUME RewriteInv
    PROVE  /\ Cardinality(Batch) <= BatchRows
           /\ Bytes(Batch) <= BatchBytes \/ Cardinality(Batch) = 1
<1> USE RewriteAssumption DEF RewriteAssumption
<1>1. Batch \in SUBSET Rows /\ IsFiniteSet(Batch) /\ \A i \in Batch : size[i] \in Nat
  BY BatchIsPrefix, RowsAreFinite DEF RewriteInv
<1>2. CASE Batch = {}
  <2>1. Cardinality(Batch) = 0 /\ Bytes(Batch) = 0
    BY <1>1, <1>2, FS_EmptySet, SumValue DEF Bytes
  <2> QED
    BY <2>1
<1>3. CASE Batch # {}
  <2> DEFINE m == Max(Batch)
  <2>1. m \in Batch /\ \A i \in Batch : i <= m
    BY <1>1, <1>3, FirstAndLast
  <2> HIDE DEF m
  <2>2. Batch \ {m} = Before(m)
    <3>1. \A i \in Batch : i # m => i \in Before(m)
      <4>1. \A i \in Batch : i # m => i < m
        BY <1>1, <2>1 DEF Rows
      <4>2. \A i \in Batch : i \in Rows /\ after < i /\ form[i] # "none"
        BY DEF Batch, Selected, Before
      <4> QED
        BY <4>1, <4>2 DEF Before
    <3>2. m \notin Before(m)
      BY <1>1, <2>1 DEF Before, Rows
    <3>3. \A i \in Before(m) : i \in Batch
      BY <2>1, BatchIsPrefix
    <3> QED
      BY <3>1, <3>2, <3>3
  <2>3. Taken(m) /\ Fits(m) /\ Cardinality(Before(m)) < BatchRows
    BY <2>1 DEF Batch, Taken
  <2>4. /\ Cardinality(Batch) \in Nat /\ Cardinality(Before(m)) \in Nat
        /\ Cardinality(Before(m)) = Cardinality(Batch) - 1
    BY <1>1, <2>1, <2>2, FS_RemoveElement, FS_CardinalityType
  <2>5. /\ Bytes(Batch) = size[m] + Bytes(Before(m))
        /\ Bytes(Before(m)) \in Nat /\ size[m] \in Nat
    <3>1. /\ Bytes(Batch) = size[m] + Bytes(Batch \ {m})
      BY <1>1, <2>1, SumValue DEF Bytes
    <3>2. IsFiniteSet(Before(m)) /\ \A i \in Before(m) : size[i] \in Nat
      BY <1>1, <2>1, <2>2, FS_Subset
    <3>3. Bytes(Before(m)) \in Nat
      BY <3>2, SumValue DEF Bytes
    <3> QED
      BY <1>1, <2>1, <2>2, <3>1, <3>3
  <2>6. CASE Before(m) = {}
    <3>1. Cardinality(Before(m)) = 0
      BY <2>6, FS_EmptySet
    <3> QED
      BY <2>3, <2>4, <3>1
  <2>7. CASE /\ Bytes(Before(m)) < BatchBytes
             /\ size[m] <= BatchBytes - Bytes(Before(m))
    BY <2>3, <2>4, <2>5, <2>7
  <2> QED
    BY <2>3, <2>6, <2>7 DEF Fits
<1> QED
  BY <1>2, <1>3

-----------------------------------------------------------------------------
(* Nothing is left out                                                     *)

\* RewriteInv is inductive.
LEMMA RewriteInvStep == RewriteInv /\ [Next]_vars => RewriteInv'
<1> SUFFICES ASSUME RewriteInv, [Next]_vars PROVE RewriteInv'
  OBVIOUS
<1> USE DEF table
<1>1. CASE Start
  <2>1. /\ env' \in SUBSET Credentials /\ after' = 0 /\ batch' = {} /\ todo' = {}
        /\ phase' = IF env' = {} THEN "serving" ELSE "fetch"
        /\ UNCHANGED <<form, size, holds>>
    BY <1>1 DEF Start
  <2>2. \A i \in Rows : ~(i <= 0)
    BY DEF Rows
  <2> QED
    BY <2>1, <2>2 DEF RewriteInv, ServesScrubbed
<1>2. CASE Fetch
  <2>1. /\ batch' = Batch /\ todo' = batch' /\ phase = "fetch"
        /\ phase' = IF Batch = {} THEN "serving" ELSE "rewrite"
        /\ UNCHANGED <<form, size, holds, after, env>>
    BY <1>2 DEF Fetch, Batch
  <2>2. /\ Batch \in SUBSET Rows /\ (Selected # {} => Batch # {})
        /\ \A i \in Batch : \A j \in Before(i) : j \in Batch
    BY BatchIsPrefix
  <2>3. \A i \in Rows : Scrubbed(i) \/ i \in Selected
    BY <2>1, RewriteAssumption
    DEF RewriteInv, Selected, Before, Rows, RewriteAssumption, Scrubbed
  <2>4. CASE Batch = {}
    BY <2>1, <2>2, <2>3, <2>4 DEF RewriteInv, ServesScrubbed, Scrubbed
  <2>5. CASE Batch # {}
    <3>1. Max(Batch) \in Batch
      BY <2>2, <2>5, FirstAndLast
    <3>2. ASSUME NEW i \in Rows, i <= Max(Batch)
          PROVE  Scrubbed(i) \/ i \in Batch
      <4>1. CASE i = Max(Batch)
        BY <3>1, <4>1
      <4>2. CASE i < Max(Batch)
        <5>1. i \in Selected => i \in Before(Max(Batch))
          BY <4>2 DEF Selected, Before
        <5> QED
          BY <2>2, <2>3, <3>1, <5>1
      <4>3. i = Max(Batch) \/ i < Max(Batch)
        <5>1. Max(Batch) \in Rows
          BY <2>2, <3>1
        <5>2. i \in Nat /\ Max(Batch) \in Nat
          BY <5>1 DEF Rows
        <5> QED
          BY <3>2, <5>2
      <4> QED
        BY <4>1, <4>2, <4>3
    <3> QED
      BY <2>1, <2>2, <2>5, <3>2 DEF RewriteInv, ServesScrubbed, Scrubbed
  <2> QED
    BY <2>4, <2>5
<1>3. CASE Rewrite
  <2>1. PICK i \in Rows : i = Min(todo) /\ i \in todo /\ phase = "rewrite"
    BY <1>3, FirstAndLast DEF Rewrite, RewriteInv
  <2>2. UNCHANGED <<env, after, batch>>
    BY <1>3 DEF Rewrite
  <2>3. CASE form[i] = "bad"
    BY <1>3, <2>1, <2>2, <2>3 DEF Rewrite, RewriteInv, ServesScrubbed, Scrubbed
  <2>4. CASE form[i] # "bad"
    <3>1. todo' = todo \ {i} /\ phase' = phase
      BY <1>3, <2>1, <2>4 DEF Rewrite
    <3>2. /\ form' \in [Rows -> Forms] /\ size' \in [Rows -> Nat]
          /\ holds' \in [Rows -> SUBSET Credentials]
          /\ Scrubbed(i)' /\ (form'[i] = "none" => holds'[i] = {})
          /\ \A j \in Rows : j # i => form'[j] = form[j] /\ holds'[j] = holds[j]
      <4>1. CASE Changes(i)
        <5>1. PICK s \in Sizes, h \in Scrub(i) :
                 /\ size' = [size EXCEPT ![i] = s]
                 /\ holds' = [holds EXCEPT ![i] = h]
          BY <1>3, <2>1, <2>4, <4>1 DEF Rewrite
        <5>2. form' = [form EXCEPT ![i] = "new"]
          BY <1>3, <2>1, <2>4, <4>1 DEF Rewrite
        <5>3. h \in SUBSET Credentials /\ h \cap (env \ Embedded) = {}
          BY <2>1, RewriteAssumption DEF RewriteInv, RewriteAssumption, Scrub
        <5>4. /\ form'[i] = "new" /\ holds'[i] = h
              /\ \A j \in Rows : j # i => form'[j] = form[j] /\ holds'[j] = holds[j]
          BY <2>1, <5>1, <5>2 DEF RewriteInv
        <5>5. Scrubbed(i)'
          BY <2>2, <5>3, <5>4 DEF Scrubbed
        <5> QED
          BY <2>1, <5>1, <5>2, <5>3, <5>4, <5>5, RewriteAssumption
          DEF RewriteInv, RewriteAssumption, Forms
      <4>2. CASE ~Changes(i)
        <5>1. form' = form /\ size' = size /\ holds' = holds
          BY <1>3, <2>1, <2>4, <4>2 DEF Rewrite
        <5>2. form[i] \in {"none", "new"} /\ holds[i] \cap env = {}
          BY <2>1, <2>4, <4>2 DEF RewriteInv, Changes, Forms
        <5> QED
          BY <2>1, <2>2, <5>1, <5>2 DEF RewriteInv, Scrubbed
      <4> QED
        BY <4>1, <4>2
    <3>3. \A j \in Rows : Scrubbed(j) => Scrubbed(j)'
      BY <2>2, <3>2 DEF Scrubbed
    <3>4. \A j \in Rows : Scrubbed(j) \/ j \in todo => Scrubbed(j)' \/ j \in todo'
      BY <3>1, <3>2, <3>3
    <3>5. \A j \in Rows : form'[j] = "none" => holds'[j] = {}
      BY <3>2 DEF RewriteInv
    <3> QED
      BY <2>1, <2>2, <3>1, <3>2, <3>3, <3>4, <3>5 DEF RewriteInv, ServesScrubbed
  <2> QED
    BY <2>3, <2>4
<1>4. CASE Advance
  <2>1. Max(batch) \in Nat
    <3>1. batch \in SUBSET Rows /\ batch # {}
      BY <1>4 DEF Advance, RewriteInv
    <3>2. Max(batch) \in Rows
      BY <3>1, FirstAndLast
    <3> QED
      BY <3>2 DEF Rows
  <2>2. /\ phase = "rewrite" /\ todo = {} /\ after' = Max(batch) /\ phase' = "fetch"
        /\ UNCHANGED <<form, size, holds, env, batch, todo>>
    BY <1>4 DEF Advance, Cursor
  <2>3. \A i \in Rows : i <= Max(batch) => Scrubbed(i)
    BY <2>2 DEF RewriteInv
  <2> QED
    BY <2>1, <2>2, <2>3 DEF RewriteInv, ServesScrubbed, Scrubbed
<1>5. CASE Fault \/ Restart \/ UNCHANGED vars
  BY <1>5 DEF Fault, Restart, vars, RewriteInv, ServesScrubbed, Scrubbed
<1> QED
  BY <1>1, <1>2, <1>3, <1>4, <1>5 DEF Next

\* RewriteInv is an invariant.
LEMMA RewriteHolds == Spec => []RewriteInv
<1>1. Init => RewriteInv
  <2> SUFFICES ASSUME Init PROVE RewriteInv
    OBVIOUS
  <2>1. size \in [Rows -> Nat]
    BY RewriteAssumption DEF Init, RewriteAssumption
  <2> QED
    BY <2>1 DEF Init, RewriteInv, ServesScrubbed
<1> QED
  BY <1>1, RewriteInvStep, PTL DEF Spec

\* A process serves only once no stored snapshot holds a credential of its
\* environment (apart from a value that a reference contains), however the rows
\* fall into batches, wherever earlier startups died and whatever environments
\* they had.
THEOREM NoCredentialIsServed == Spec => []ServesScrubbed
<1>1. RewriteInv => ServesScrubbed
  BY DEF RewriteInv
<1> QED
  BY <1>1, RewriteHolds, PTL

\* No batch holds more than the two limits allow, except a single snapshot
\* that is larger than the byte limit by itself.
THEOREM BatchesAreBounded == Spec => []BatchIsBounded
<1>1. Init => BatchIsBounded
  BY FS_EmptySet, RewriteAssumption DEF Init, BatchIsBounded, RewriteAssumption
<1>2. RewriteInv /\ BatchIsBounded /\ [Next]_vars => BatchIsBounded'
  <2> SUFFICES ASSUME RewriteInv, BatchIsBounded, [Next]_vars PROVE BatchIsBounded'
    OBVIOUS
  <2>1. CASE Start
    BY <2>1, FS_EmptySet, RewriteAssumption DEF Start, BatchIsBounded, RewriteAssumption
  <2>2. CASE Fetch
    <3>1. batch' = Batch /\ held' = Bytes(Batch)
      BY <2>2 DEF Fetch, Batch, Bytes, table
    <3> QED
      BY <3>1, BatchLimits DEF BatchIsBounded
  <2>3. CASE Rewrite \/ Advance \/ Fault \/ Restart \/ UNCHANGED vars
    BY <2>3 DEF Rewrite, Advance, Fault, Restart, vars, BatchIsBounded
  <2> QED
    BY <2>1, <2>2, <2>3 DEF Next
<1> QED
  BY <1>1, <1>2, RewriteHolds, PTL DEF Spec

-----------------------------------------------------------------------------
(* The migration                                                           *)

\* The phases of migrate by what is finished when they are reached.
AfterLogs == {"status", "index", "open"}
AfterEvents == {"selectlogs", "logs"} \cup AfterLogs
AfterColumns == {"select", "events"} \cup AfterEvents
AfterTables == {"schema", "alter"} \cup AfterColumns

\* The tables and the columns migrate knows, as sets.
TableNames == {"events", "action_logs", "ready_check", "other"}
ColumnNames == {"received_at_ms", "processed_at_ms", "created_at_ms", "nonce"}

\* A time of the row that can be converted was not.  (NeedsTimes is also true of
\* a row whose processed_at is empty, for ever.)
LacksTimes(e) ==
    \/ "received_at_ms" \notin stamped[e]
    \/ HasTime(e) /\ "processed_at_ms" \notin stamped[e]

\* OpensMigrated speaks of the last phase only.  What carries it there is,
\* for each phase, what the statements before it have established and that
\* the rows a query returned and nobody has dealt with yet are exactly what
\* is still missing.
MigrateInv ==
    /\ tables \in SUBSET TableNames
    /\ columns \in [TableNames -> SUBSET ColumnNames]
    /\ \A t \in TableNames : columns[t] \subseteq Wanted[t]
    /\ stamped \in [EventRows -> SUBSET ColumnNames]
    /\ logged \subseteq StoredLogs
    /\ step \in AfterTables \cup {"create", "failed"}
    /\ at \in 1..3
    /\ step \in AfterTables => tables = TableNames
    /\ step \in {"schema", "alter"} => \A k \in 1..3 : k < at => Missing(Order[k]) = {}
    /\ step = "alter" => pending = Missing(Order[at])
    /\ step \in AfterColumns => \A k \in 1..3 : Missing(Order[k]) = {}
    /\ step = "events" => \A e \in Stored : LacksTimes(e) => e \in pending
    /\ step \in AfterEvents => \A e \in Stored : ~LacksTimes(e)
    /\ step = "logs" => pending = StoredLogs \ logged
    /\ step \in AfterLogs => StoredLogs = logged /\ ~hmacIndex
    /\ step \in {"index", "open"} => legacy = {}
    /\ step = "open" => indexed

\* What the constant tables of migrate say, with their domains.
LEMMA WantedColumns ==
    /\ Tables = TableNames
    /\ \A t \in TableNames : Wanted[t] \in SUBSET ColumnNames
    /\ Wanted["other"] = {}
    /\ Wanted = [t \in TableNames |-> Wanted[t]]
    /\ Len(Order) = 3 /\ \A k \in 1..3 : Order[k] \in TableNames
    /\ \A t \in TableNames : t # "other" => \E k \in 1..3 : Order[k] = t
  BY DEF Tables, Wanted, TableNames, ColumnNames, Order

\* Tables and columns are only ever added.
LEMMA SchemaSteps ==
    ASSUME MigrateInv,
           \/ \E t \in Tables : CreateTable(t)
           \/ TablesExist \/ ReadColumns \/ ColumnsExist
           \/ \E c \in Wanted["events"] \cup Wanted["action_logs"]
                       \cup Wanted["ready_check"] : AlterTable(c)
    PROVE  MigrateInv'
<1> USE WantedColumns
    DEF MigrateInv, AfterTables, AfterColumns, AfterEvents, AfterLogs, Missing, schema,
        texts, rows, Stored, StoredLogs, LacksTimes, HasTime
<1>1. ASSUME NEW t \in Tables, CreateTable(t) PROVE MigrateInv'
  BY <1>1 DEF CreateTable
<1>2. CASE TablesExist
  BY <1>2 DEF TablesExist
<1>3. CASE ReadColumns
  BY <1>3 DEF ReadColumns
<1>4. CASE ColumnsExist
  BY <1>4 DEF ColumnsExist
<1>5. ASSUME NEW c, AlterTable(c), c \in ColumnNames PROVE MigrateInv'
  <2>1. CASE c \in columns[Order[at]]
    BY <1>5, <2>1 DEF AlterTable
  <2>2. CASE c \notin columns[Order[at]]
    <3>1. /\ step = "alter" /\ step' = step /\ at' = at /\ tables' = tables
          /\ columns' = [columns EXCEPT ![Order[at]] = @ \cup {c}]
          /\ pending' = pending \ {c} /\ c \in pending
          /\ UNCHANGED <<rows, texts, indexed, hmacIndex>>
      BY <1>5, <2>2 DEF AlterTable
    <3>2. Order[at] \in TableNames /\ c \in Wanted[Order[at]]
      BY <1>5, <3>1
    <3> QED
      BY <3>1, <3>2
  <2> QED
    BY <2>1, <2>2
<1> QED
  BY <1>1, <1>2, <1>3, <1>4, <1>5 DEF TableNames

\* A row is taken off the list of a query only when its times are written.
LEMMA BackfillSteps ==
    ASSUME MigrateInv,
           \/ SelectEvents \/ BackfillLogsInSql \/ SelectLogs
           \/ \E e \in EventRows : BackfillEvent(e)
           \/ \E l \in LogRows : BackfillLog(l)
    PROVE  MigrateInv'
<1> USE DEF MigrateInv, AfterTables, AfterColumns, AfterEvents, AfterLogs, Missing, schema,
            texts, rows, Stored, StoredLogs, LacksTimes, HasTime
<1>1. CASE SelectEvents
  BY <1>1 DEF SelectEvents, NeedsTimes
<1>2. CASE BackfillLogsInSql
  BY <1>2 DEF BackfillLogsInSql
<1>3. CASE SelectLogs
  BY <1>3 DEF SelectLogs
<1>4. ASSUME NEW e \in EventRows, BackfillEvent(e) PROVE MigrateInv'
  <2>1. CASE "bad" \in {received[e], processed[e]}
    BY <1>4, <2>1 DEF BackfillEvent
  <2>2. CASE "bad" \notin {received[e], processed[e]}
    BY <1>4, <2>2 DEF BackfillEvent, ColumnNames
  <2> QED
    BY <2>1, <2>2
<1>5. ASSUME NEW l \in LogRows, BackfillLog(l) PROVE MigrateInv'
  <2>1. CASE created[l] = "bad"
    BY <1>5, <2>1 DEF BackfillLog
  <2>2. CASE created[l] # "bad"
    <3>1. /\ step = "logs" /\ l \in pending /\ logged' = logged \cup {l} /\ pending' = pending \ {l}
          /\ UNCHANGED <<step, schema, texts, stamped, legacy, at>>
      BY <1>5, <2>2 DEF BackfillLog
    <3> QED
      BY <3>1
  <2> QED
    BY <2>1, <2>2
<1> QED
  BY <1>1, <1>2, <1>3, <1>4, <1>5

\* MigrateInv is inductive; a failed start keeps what was committed and begins
\* again with the first statement.
LEMMA MigrateInvStep == MigrateInv /\ [MigrationNext]_migrationVars => MigrateInv'
<1> SUFFICES ASSUME MigrateInv, [MigrationNext]_migrationVars PROVE MigrateInv'
  OBVIOUS
<1>1. CASE \/ DropIndex \/ LegacyStatus \/ CreateIndexes
           \/ MigrationFault \/ MigrationRestart \/ UNCHANGED migrationVars
  BY <1>1 DEF DropIndex, LegacyStatus, CreateIndexes, MigrationFault, MigrationRestart, MigrateInv, AfterTables,
              AfterColumns, AfterEvents, AfterLogs, Missing, schema, texts, rows,
              migrationVars, Stored, StoredLogs, LacksTimes, HasTime
<1> QED
  BY <1>1, SchemaSteps, BackfillSteps DEF MigrationNext, Migrate

\* MigrateInv holds when the process opens a database of any age.
LEMMA MigrateInvInit == MigrationInit => MigrateInv
<1> SUFFICES ASSUME MigrationInit PROVE MigrateInv
  OBVIOUS
<1>1. /\ tables \in SUBSET TableNames
      /\ columns \in [TableNames -> SUBSET ColumnNames]
      /\ \A t \in TableNames : columns[t] \subseteq Wanted[t]
  BY WantedColumns DEF MigrationInit, TableNames
<1>2. stamped \in [EventRows -> SUBSET ColumnNames]
  BY <1>1 DEF MigrationInit, TableNames
<1> QED
  BY <1>1, <1>2 DEF MigrationInit, MigrateInv, AfterTables, AfterColumns, AfterEvents, AfterLogs

\* A store that opens is fully migrated, whichever release wrote the database
\* and however many starts died half way.
THEOREM OpenStoreIsMigrated == MigrationSpec => []OpensMigrated
<1>1. MigrateInv => OpensMigrated
  <2> SUFFICES ASSUME MigrateInv, step = "open"
               PROVE  /\ tables = Tables /\ columns = Wanted /\ indexed /\ ~hmacIndex
                      /\ \A e \in Stored : ~LacksTimes(e)
                      /\ logged = StoredLogs
                      /\ legacy = {}
    BY DEF OpensMigrated, LacksTimes
  <2>1. \A t \in TableNames : columns[t] = Wanted[t]
    <3>1. \A k \in 1..3 : Wanted[Order[k]] \subseteq columns[Order[k]]
      BY DEF MigrateInv, AfterColumns, AfterEvents, AfterLogs, Missing
    <3>2. \A t \in TableNames : columns[t] \subseteq Wanted[t]
      BY DEF MigrateInv
    <3>3. \A t \in TableNames : t # "other" => Wanted[t] \subseteq columns[t]
      BY <3>1, WantedColumns
    <3> QED
      BY <3>2, <3>3, WantedColumns
  <2>2. columns = [t \in TableNames |-> columns[t]]
    BY DEF MigrateInv
  <2>3. columns = Wanted
    BY <2>1, <2>2, WantedColumns
  <2> QED
    BY <2>3, WantedColumns DEF MigrateInv, AfterTables, AfterEvents, AfterLogs
<1> QED
  BY <1>1, MigrateInvInit, MigrateInvStep, PTL DEF MigrationSpec

=============================================================================
