----------------------------- MODULE SchemaOpening -----------------------------
(***************************************************************************)
(* How the processes that share a listings file open it: SqliteStore._conn *)
(* runs migrate() on first use.  The schema script and the ALTERs commit   *)
(* one statement at a time, so a crash, or another process opening the     *)
(* same file, can come between any two of them.                            *)
(*                                                                         *)
(* SQLite is modelled by its lock protocol (rollback journal, as no PRAGMA *)
(* is issued).  Of a connection's transaction, txn[p] says what it leaves  *)
(* locked between two statements: "begun" holds nothing, "reading" a       *)
(* SHARED lock, "writing" the RESERVED one, "pending" the PENDING lock of  *)
(* a commit that found readers.                                            *)
(***************************************************************************)
EXTENDS Naturals, Sequences, FiniteSets, Functions

CONSTANTS
  P,      \* processes, one connection each
  Files   \* the files found at the start: [tables, columns, version]

VARIABLES
  schema,  \* what the file holds: [tables, columns, version]
  at,      \* where each process is
  todo,    \* the columns migrate() found missing
  txn      \* the transaction each connection has open

openingVars == <<schema, at, todo, txn>>

SCHEMA_VERSION == 3
NoVersion == 0

\* _SCHEMA_SQL in its order; "records" stands for searches, recommendations,
\* feedback and cache_meta, and hydration_jobs includes its index.
Script == <<"listings", "agencies", "records", "schema_version", "hydration_jobs">>
\* The columns that version 1 lacked, in the order migrate() adds them.
AddedColumns == <<"completeness", "detail_fetched_at", "detail_fresh_until", "agency_kaiin_no">>

\* What a release left of a file, or nothing at all.  Version 1 had no such
\* columns; one of its files that lost the race to its first version row would
\* be taken for a current one, and is assumed away.
ASSUME FilesAssumption ==
  \A f \in Files :
    /\ f \in [tables : SUBSET Range(Script), columns : SUBSET Range(AddedColumns),
              version : {NoVersion} \union 1..SCHEMA_VERSION]
    /\ f.version # 1 /\ "listings" \in f.tables => f.columns = Range(AddedColumns)

Opening == {"closed", "script", "version", "stamp", "inspect", "alter"}
Transactions == {"none", "begun", "reading", "writing", "pending"}

OpeningTypeOK ==
  /\ schema \in [tables : SUBSET Range(Script), columns : SUBSET Range(AddedColumns),
                 version : {NoVersion} \union 1..SCHEMA_VERSION]
  /\ todo \in [P -> SUBSET Range(AddedColumns)]
  /\ txn \in [P -> Transactions]
  /\ Cardinality({p \in P : txn[p] \in {"writing", "pending"}}) <= 1

OpeningInit ==
  /\ schema \in Files
  /\ at = [p \in P |-> "closed"]
  /\ todo = [p \in P |-> {}]
  /\ txn = [p \in P |-> "none"]

-----------------------------------------------------------------------------
(* SQLite's locks.                                                          *)

CanRead(p) == \A q \in P \ {p} : txn[q] # "pending" \/ txn[p] = "reading"
CanWrite(p) == \A q \in P \ {p} : txn[q] \notin {"writing", "pending"}
CanCommit(p) == \A q \in P \ {p} : txn[q] # "reading"
\* A statement outside a transaction.
CanAutocommit(p) == CanWrite(p) /\ CanCommit(p)

\* Mutant: the connection is forgotten, not closed.
LeaveUnclosed(p) ==
  /\ at' = [at EXCEPT ![p] = "closed"]
  /\ todo' = [todo EXCEPT ![p] = {}]
  /\ UNCHANGED <<schema, txn>>
\* Close, an error while opening, or a crash: the connection is gone.
Leave(p) ==
  /\ at' = [at EXCEPT ![p] = "closed"]
  /\ todo' = [todo EXCEPT ![p] = {}]
  /\ txn' = [txn EXCEPT ![p] = "none"]
  /\ UNCHANGED schema

GoTo(p, next) == at' = [at EXCEPT ![p] = next] /\ UNCHANGED txn

-----------------------------------------------------------------------------
Connect(p) ==
  /\ at[p] = "closed" /\ GoTo(p, "script") /\ UNCHANGED <<schema, todo>>

\* The first of seq that is among the missing ones.
First(seq, missing) ==
  seq[CHOOSE i \in DOMAIN seq : /\ seq[i] \in missing
                               /\ \A j \in DOMAIN seq : seq[j] \in missing => i <= j]

Missing == Range(Script) \ schema.tables

\* A table of the script, each created IF NOT EXISTS.  A new listings table
\* has every column.
CreateTable(p) ==
  /\ at[p] = "script" /\ Missing # {} /\ CanAutocommit(p)
  /\ LET table == First(Script, Missing) IN
       schema' = [schema EXCEPT !.tables = @ \union {table},
                    !.columns = IF table = "listings" THEN Range(AddedColumns) ELSE @]
  /\ UNCHANGED <<at, todo, txn>>

ScriptDone(p) ==
  /\ at[p] = "script" /\ Missing = {} /\ CanRead(p)
  /\ GoTo(p, "version") /\ UNCHANGED <<schema, todo>>

\* _read_version, and the branch taken on it.
ReadVersion(p) ==
  /\ at[p] = "version" /\ CanRead(p)
  /\ GoTo(p, IF schema.version = NoVersion THEN "stamp"
             ELSE IF schema.version < 2 THEN "inspect" ELSE "idle")
  /\ UNCHANGED <<schema, todo>>

\* INSERT INTO schema_version.  Nothing updates the row of an older file: by
\* the time migrate() compares, its local version is SCHEMA_VERSION.
Stamp(p) ==
  /\ at[p] = "stamp" /\ CanAutocommit(p)
  /\ schema' = [schema EXCEPT !.version = SCHEMA_VERSION]
  /\ GoTo(p, "idle") /\ UNCHANGED todo

\* PRAGMA table_info(listings), once for all the columns.
Inspect(p) ==
  /\ at[p] = "inspect" /\ CanRead(p)
  /\ LET missing == Range(AddedColumns) \ schema.columns IN
       /\ todo' = [todo EXCEPT ![p] = missing]
       /\ GoTo(p, IF missing = {} THEN "idle" ELSE "alter")
  /\ UNCHANGED schema

\* ALTER TABLE listings ADD COLUMN, of the next one that was missing.
Column(p) == First(AddedColumns, todo[p])

AddColumn(p) ==
  /\ at[p] = "alter" /\ Column(p) \notin schema.columns /\ CanAutocommit(p)
  /\ schema' = [schema EXCEPT !.columns = @ \union {Column(p)}]
  /\ todo' = [todo EXCEPT ![p] = @ \ {Column(p)}]
  /\ GoTo(p, IF todo[p] = {Column(p)} THEN "idle" ELSE "alter")

\* Mutant: the error is taken to mean that the migration is done.
DuplicateColumnIgnored(p) ==
  /\ at[p] = "alter" /\ Column(p) \in schema.columns
  /\ todo' = [todo EXCEPT ![p] = {}]
  /\ GoTo(p, "idle") /\ UNCHANGED schema
\* Another process added the column since: OperationalError.
DuplicateColumn(p) ==
  /\ at[p] = "alter" /\ Column(p) \in schema.columns
  /\ Leave(p)

\* "database is locked", after the five seconds of sqlite3.connect.
OpeningRefused(p) ==
  /\ at[p] \in Opening \ {"closed"}
  /\ \/ ~CanRead(p)
     \/ /\ ~CanAutocommit(p)
        /\ \/ at[p] = "script" /\ Missing # {}
           \/ at[p] \in {"stamp", "alter"}
  /\ Leave(p)

OpeningNext(p) ==
  \/ Connect(p) \/ CreateTable(p) \/ ScriptDone(p) \/ ReadVersion(p) \/ Stamp(p)
  \/ Inspect(p) \/ AddColumn(p) \/ DuplicateColumn(p) \/ OpeningRefused(p)

Current(s) ==
  /\ s.tables = Range(Script) /\ s.columns = Range(AddedColumns)
  /\ s.version # NoVersion

\* No process works on the file before every table, column and the version row
\* exist, whatever the file was, whoever else is opening it, and wherever an
\* earlier migration was interrupted.
OpenedIsCurrent ==
  \A p \in P : at[p] \notin Opening => Current(schema)
===============================================================================
