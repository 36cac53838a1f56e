------------------------------ MODULE Migration ------------------------------
(***************************************************************************)
(* Open and migrate (store.go): the schema of a database that any earlier  *)
(* release may have written is brought up to date, one statement at a      *)
(* time.  There is no version number and no enclosing transaction: every   *)
(* statement commits by itself, and a start that fails or dies anywhere is *)
(* followed by one that begins again with the first statement.             *)
(*                                                                         *)
(* Columns and tables that nothing in migrate reads back are represented   *)
(* by nonce and by "other".  A stored time is what the backfill can make   *)
(* of its text:                                                            *)
(*   sql    SQLite's strftime and parseSQLiteTime read it                  *)
(*   go     only parseSQLiteTime reads it (Go's own formatting)            *)
(*   bad    neither does                                                   *)
(*   null   no value                                                       *)
(*   empty  an empty text (processed_at only)                              *)
(*   none   there is no such row                                           *)
(***************************************************************************)
EXTENDS Integers, FiniteSets, Sequences

CONSTANTS EventRows, LogRows,
          MaxDefects, \* bound: what the database has wrong with it
          MaxMishaps   \* bound: failures and crashes

ASSUME MigrationAssumption == MaxDefects \in Nat /\ MaxMishaps \in Nat

\* The columns that releases added, by table, in the order of migrate.
Wanted == [events |-> {"received_at_ms", "processed_at_ms"},
           action_logs |-> {"created_at_ms"},
           ready_check |-> {"nonce"},
           other |-> {}]
Tables == DOMAIN Wanted
Order == <<"events", "action_logs", "ready_check">>

VARIABLES
    tables,    \* the tables that exist
    columns,   \* columns[t]: which of Wanted[t] an existing table has
    received, processed,  \* the texts of each event row
    created,              \* and of each row of action_logs
    stamped,   \* stamped[e]: which of its two epoch columns are not NULL
    logged,    \* the rows of action_logs with created_at_ms
    legacy,    \* event rows with status 'received' or 'rejected'
    clash,     \* two event rows share a source and a delivery id
    indexed,   \* the indexes exist
    hmacIndex, \* so does an index that was given up
    step,      \* what migrate does next
    at,        \* the table of Order it is at
    pending,   \* what a query returned and was not dealt with yet
    mishaps

texts == <<received, processed, created, clash>>
rows == <<stamped, logged, legacy>>
schema == <<tables, columns, indexed, hmacIndex>>
migrationVars == <<schema, texts, rows, step, at, pending, mishaps>>

Stored == {e \in EventRows : received[e] # "none"}
StoredLogs == {l \in LogRows : created[l] # "none"}

\* What keeps a database from being opened.
Defects ==
    {e \in EventRows : "bad" \in {received[e], processed[e]}}
    \cup {l \in LogRows : created[l] = "bad"}
    \cup {x \in {"clash"} : clash}

\* processed_at holds a text to convert.
HasTime(e) == processed[e] \notin {"null", "empty"}

\* A new database, or what any release, or a start that died, left behind:
\* rows are in a table, a row has an epoch value only if the column exists,
\* and processed_at_ms is never written before received_at_ms.
MigrationInit ==
    /\ tables \in {{}, {"events"}, {"events", "action_logs"}, Tables}
    /\ columns \in {f \in [Tables -> UNION {SUBSET Wanted[t] : t \in Tables}] :
                      \A t \in Tables : f[t] \subseteq (IF t \in tables THEN Wanted[t] ELSE {})}
    /\ received \in [EventRows -> {"go", "bad", "none"}]
    /\ Stored # {} => "events" \in tables
    /\ processed \in [EventRows -> {"go", "bad", "null", "empty"}]
    /\ \A e \in EventRows \ Stored : processed[e] = "null"
    /\ created \in [LogRows -> {"sql", "go", "bad", "none"}]
    /\ StoredLogs # {} => "action_logs" \in tables
    /\ clash \in {c \in BOOLEAN : c => Cardinality(Stored) > 1}
    /\ Cardinality(Defects) <= MaxDefects
    /\ stamped \in [EventRows -> SUBSET columns["events"]]
    /\ \A e \in EventRows : /\ e \notin Stored => stamped[e] = {}
                            /\ "processed_at_ms" \in stamped[e] =>
                                  "received_at_ms" \in stamped[e] /\ HasTime(e)
    /\ logged \in SUBSET {l \in StoredLogs : "created_at_ms" \in columns["action_logs"]}
    /\ legacy \in SUBSET {e \in Stored : processed[e] = "null"}
    /\ indexed \in {i \in BOOLEAN : i => tables = Tables /\ columns = Wanted /\ ~clash}
    /\ hmacIndex \in {i \in BOOLEAN : i => "events" \in tables}
    /\ step = "create"
    /\ at = 1
    /\ pending = {}
    /\ mishaps = 0

-----------------------------------------------------------------------------
(* Tables and columns                                                      *)

\* CREATE TABLE IF NOT EXISTS, with the full set of columns.
CreateTable(t) ==
    /\ step = "create"
    /\ t \notin tables
    /\ tables' = tables \cup {t}
    /\ columns' = [columns EXCEPT ![t] = Wanted[t]]
    /\ UNCHANGED <<indexed, hmacIndex, texts, rows, step, at, pending, mishaps>>

TablesExist ==
    /\ step = "create"
    /\ tables = Tables
    /\ step' = "schema"
    /\ at' = 1
    /\ UNCHANGED <<schema, texts, rows, pending, mishaps>>

Missing_All(t) == Wanted[t]

Missing(t) == Wanted[t] \ columns[t]

\* ensureColumns: columnSet, then one ALTER TABLE per missing column, in the
\* order of a Go map.  Adding a column that exists is an error.
ReadColumns ==
    /\ step = "schema"
    /\ pending' = Missing(Order[at])
    /\ step' = "alter"
    /\ UNCHANGED <<schema, texts, rows, at, mishaps>>

AlterTable(c) ==
    /\ step = "alter"
    /\ c \in pending
    /\ IF c \in columns[Order[at]]
       THEN step' = "failed" /\ UNCHANGED <<columns, pending>>
       ELSE /\ columns' = [columns EXCEPT ![Order[at]] = @ \cup {c}]
            /\ pending' = pending \ {c}
            /\ UNCHANGED step
    /\ UNCHANGED <<tables, indexed, hmacIndex, texts, rows, at, mishaps>>

ColumnsExist ==
    /\ step = "alter"
    /\ pending = {}
    /\ IF at < Len(Order) THEN at' = at + 1 /\ step' = "schema"
                          ELSE step' = "select" /\ UNCHANGED at
    /\ UNCHANGED <<schema, texts, rows, pending, mishaps>>

-----------------------------------------------------------------------------
(* backfillEpochColumns                                                    *)

NeedsTimes_ReceivedOnly(e) == "received_at_ms" \notin stamped[e]

NeedsTimes(e) ==
    \/ "received_at_ms" \notin stamped[e]
    \/ processed[e] # "null" /\ "processed_at_ms" \notin stamped[e]

SelectEvents ==
    /\ step = "select"
    /\ pending' = {e \in Stored : NeedsTimes(e)}
    /\ step' = "events"
    /\ UNCHANGED <<schema, texts, rows, at, mishaps>>

\* Both epoch columns of a row are written in one UPDATE; a time that cannot
\* be read fails the start.  A row with an empty text keeps processed_at_ms NULL
\* and is selected again by every start.
BackfillEvent(e) ==
    /\ step = "events"
    /\ e \in pending
    /\ IF "bad" \in {received[e], processed[e]}
       THEN step' = "failed" /\ UNCHANGED <<stamped, pending>>
       ELSE /\ stamped' = [stamped EXCEPT ![e] =
                  {"received_at_ms"} \cup
                  IF HasTime(e) THEN {"processed_at_ms"} ELSE {}]
            /\ pending' = pending \ {e}
            /\ UNCHANGED step
    /\ UNCHANGED <<schema, texts, logged, legacy, at, mishaps>>

\* One UPDATE for all the rows of action_logs that SQLite can convert, and a
\* query for the others.
BackfillLogsInSql ==
    /\ step = "events"
    /\ pending = {}
    /\ logged' = logged \cup {l \in LogRows : created[l] = "sql"}
    /\ step' = "selectlogs"
    /\ UNCHANGED <<schema, texts, stamped, legacy, at, pending, mishaps>>

SelectLogs ==
    /\ step = "selectlogs"
    /\ pending' = StoredLogs \ logged
    /\ step' = "logs"
    /\ UNCHANGED <<schema, texts, rows, at, mishaps>>

BackfillLog(l) ==
    /\ step = "logs"
    /\ l \in pending
    /\ IF created[l] = "bad"
       THEN step' = "failed" /\ UNCHANGED <<logged, pending>>
       ELSE /\ logged' = logged \cup {l}
            /\ pending' = pending \ {l}
            /\ UNCHANGED step
    /\ UNCHANGED <<schema, texts, stamped, legacy, at, mishaps>>

-----------------------------------------------------------------------------
(* The end of migrate                                                      *)

DropIndex ==
    /\ step = "logs"
    /\ pending = {}
    /\ hmacIndex' = FALSE
    /\ step' = "status"
    /\ UNCHANGED <<tables, columns, indexed, texts, rows, at, pending, mishaps>>

LegacyStatus ==
    /\ step = "status"
    /\ legacy' = {}
    /\ step' = "index"
    /\ UNCHANGED <<schema, texts, stamped, logged, at, pending, mishaps>>

\* The unique index cannot be created over rows that clash.
CreateIndexes ==
    /\ step = "index"
    /\ IF clash THEN step' = "failed" /\ UNCHANGED indexed
                ELSE step' = "open" /\ indexed' = TRUE
    /\ UNCHANGED <<tables, columns, hmacIndex, texts, rows, at, pending, mishaps>>

\* A statement fails or the process dies, during the migration or later.
MigrationFault ==
    /\ step # "failed"
    /\ mishaps < MaxMishaps
    /\ mishaps' = mishaps + 1
    /\ step' = "failed"
    /\ UNCHANGED <<schema, texts, rows, at, pending>>

MigrationRestart ==
    /\ step = "failed"
    /\ step' = "create"
    /\ pending' = {}
    /\ UNCHANGED <<schema, texts, rows, at, mishaps>>

Migrate ==
    \/ \E t \in Tables : CreateTable(t)
    \/ TablesExist \/ ReadColumns \/ ColumnsExist
    \/ \E c \in Wanted["events"] \cup Wanted["action_logs"] \cup Wanted["ready_check"] :
          AlterTable(c)
    \/ SelectEvents \/ BackfillLogsInSql \/ SelectLogs
    \/ \E e \in EventRows : BackfillEvent(e)
    \/ \E l \in LogRows : BackfillLog(l)
    \/ DropIndex \/ LegacyStatus \/ CreateIndexes

MigrationNext == Migrate \/ MigrationFault \/ MigrationRestart

\* Startup waits for nothing, and the container is restarted whenever it exits.
MigrationSpec ==
    /\ MigrationInit
    /\ [][MigrationNext]_migrationVars
    /\ WF_migrationVars(Migrate \/ MigrationRestart)

-----------------------------------------------------------------------------
(* Properties                                                              *)

\* Whatever release wrote the database and wherever earlier starts died, an
\* opened store has every table, column and index that the other modules take
\* for granted, no row that ClaimPending, the retention pass or the listings
\* would overlook for want of an epoch time, no status they do not know, and
\* not the index that an earlier release left.
OpensMigrated ==
    step = "open" =>
        /\ tables = Tables /\ columns = Wanted /\ indexed /\ ~hmacIndex
        /\ \A e \in Stored :
              /\ "received_at_ms" \in stamped[e]
              /\ HasTime(e) => "processed_at_ms" \in stamped[e]
        /\ logged = StoredLogs
        /\ legacy = {}

\* Every start gets through in the end, although it begins again with
\* statements that an earlier one has executed already: only a time that
\* cannot be read or rows that clash keep the store closed.
EventuallyOpens ==
    Defects = {} => <>(step = "open")

=============================================================================
