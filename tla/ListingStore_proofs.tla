-------------------------- MODULE ListingStore_proofs --------------------------
(***************************************************************************)
(* Opening a file is safe for any number of processes, whatever release    *)
(* left the file and wherever processes die: whoever uses the file finds   *)
(* every table, column and the version row.  A lock is left behind only by *)
(* a constraint that broke.  What is committed is a store as BaseDataStore *)
(* promises it (StoreKeepsContract), loses nothing of an agency unless two *)
(* processes wrote it at once, and gives a row to another listing only by  *)
(* a race; all three from StoreInv.                                        *)
(***************************************************************************)
EXTENDS ListingStore, FiniteSetTheorems, TLAPS

AllTables == Range(Script)
AllColumns == Range(AddedColumns)

-----------------------------------------------------------------------------
(* The invariant: what a process that is opening the file already knows.    *)

SchemaKnown ==
  schema \in [tables : SUBSET AllTables, columns : SUBSET AllColumns,
              version : {NoVersion} \union 1..SCHEMA_VERSION]

\* Only a file of version 1 can have a listings table without the columns.
ColumnsDue == schema.version # 1 /\ "listings" \in schema.tables => schema.columns = AllColumns

TodoCovers(p) ==
  /\ todo[p] \subseteq AllColumns
  /\ at[p] = "alter" => todo[p] # {} /\ AllColumns \ todo[p] \subseteq schema.columns

Progressed(p) ==
  /\ at[p] \notin {"closed", "script"} => schema.tables = AllTables
  /\ at[p] = "stamp" => schema.version \in {NoVersion, SCHEMA_VERSION}
  /\ at[p] \in {"inspect", "alter"} => schema.version # NoVersion
  /\ at[p] \notin Opening => Current(schema)

OpenInv ==
  /\ SchemaKnown /\ ColumnsDue
  /\ \A p \in P : TodoCovers(p) /\ Progressed(p)
  /\ DOMAIN at = P /\ DOMAIN todo = P

-----------------------------------------------------------------------------
(* What a step may do to the opening of the file.                           *)

\* A process moves, and the others stay where they are.
Moves(p, next) == at' = [at EXCEPT ![p] = next]

\* Steps that use the file, or leave it.
Uses(p) ==
  /\ schema' = schema
  /\ \/ at' = at /\ todo' = todo
     \/ /\ at[p] \notin Opening /\ todo' = todo
        /\ \E next \in Calling : Moves(p, next)
     \/ Moves(p, "closed") /\ todo' = [todo EXCEPT ![p] = {}]

LEMMA ScriptMembers ==
  /\ AllTables = {"listings", "agencies", "records", "schema_version", "hydration_jobs"}
  /\ AllColumns = {"completeness", "detail_fetched_at", "detail_fresh_until", "agency_kaiin_no"}
  /\ DOMAIN Script = 1..5 /\ DOMAIN AddedColumns = 1..4
BY DEF AllTables, AllColumns, Script, AddedColumns, Range

\* First returns one of the missing ones.
LEMMA FirstTable ==
  ASSUME NEW missing \in SUBSET AllTables, missing # {}
  PROVE  First(Script, missing) \in missing
<1> DEFINE Before(i) == /\ Script[i] \in missing
                        /\ \A j \in DOMAIN Script : Script[j] \in missing => i <= j
<1>1. \E i \in 1..5 : Script[i] \in missing
  BY DEF AllTables, Script, Range
<1>2. \E i \in 1..5 : Before(i)
  BY <1>1, ScriptMembers
<1> QED
  BY <1>2, ScriptMembers DEF First

LEMMA FirstColumn ==
  ASSUME NEW missing \in SUBSET AllColumns, missing # {}
  PROVE  First(AddedColumns, missing) \in missing
<1> DEFINE Before(i) == /\ AddedColumns[i] \in missing
                        /\ \A j \in DOMAIN AddedColumns : AddedColumns[j] \in missing => i <= j
<1>1. \E i \in 1..4 : AddedColumns[i] \in missing
  BY DEF AllColumns, AddedColumns, Range
<1>2. \E i \in 1..4 : Before(i)
  BY <1>1, ScriptMembers
<1> QED
  BY <1>2, ScriptMembers DEF First

-----------------------------------------------------------------------------
LEMMA StoreStepsUse ==
  ASSUME NEW p \in P,
         \/ \E l \in Incoming : Upsert(p, l)
         \/ GetAgency(p) \/ PutAgency(p) \/ Lookup(p)
         \/ PutListing(p) \/ ListingConflict(p) \/ UpsertRefused(p)
         \/ Write(p) \/ CallRefused(p) \/ Read(p) \/ Close(p)
  PROVE  Uses(p)
<1> USE DEF Uses, Moves, Calling, Opening
<1>1. CASE \E l \in Incoming : Upsert(p, l)
  BY <1>1 DEF Upsert, Begins
<1>2. CASE GetAgency(p)
  BY <1>2 DEF GetAgency
<1>3. CASE PutAgency(p)
  BY <1>3 DEF PutAgency
<1>4. CASE Lookup(p)
  BY <1>4 DEF Lookup
<1>5. CASE PutListing(p)
  BY <1>5 DEF PutListing, Ends
<1>6. CASE ListingConflict(p)
  BY <1>6 DEF ListingConflict, Ends
<1>7. CASE UpsertRefused(p)
  BY <1>7 DEF UpsertRefused, Ends
<1>8. CASE Write(p) \/ CallRefused(p)
  BY <1>8 DEF Write, CallRefused, Begins, Ends
<1>9. CASE Read(p)
  BY <1>9 DEF Read
<1>10. CASE Close(p)
  BY <1>10 DEF Close, Leave
<1> QED
  BY <1>1, <1>2, <1>3, <1>4, <1>5, <1>6, <1>7, <1>8, <1>9, <1>10

LEMMA UsesKeep ==
  ASSUME OpenInv, NEW p \in P, Uses(p)
  PROVE  OpenInv'
<1> USE DEF OpenInv, SchemaKnown, ColumnsDue, TodoCovers, Progressed, Current, Opening
<1>1. CASE at' = at /\ todo' = todo
  BY <1>1 DEF Uses
<1>2. CASE /\ at[p] \notin Opening /\ todo' = todo
           /\ \E next \in Calling : Moves(p, next)
  BY <1>2 DEF Uses, Moves, Calling
<1>3. CASE Moves(p, "closed") /\ todo' = [todo EXCEPT ![p] = {}]
  BY <1>3 DEF Uses, Moves
<1> QED
  BY <1>1, <1>2, <1>3 DEF Uses

LEMMA ConnectKeeps ==
  ASSUME OpenInv, NEW p \in P, Connect(p)
  PROVE  OpenInv'
BY DEF Connect, GoTo, OpenInv, SchemaKnown, ColumnsDue, TodoCovers, Progressed, Current, Opening

LEMMA CreateTableKeeps ==
  ASSUME OpenInv, NEW p \in P, CreateTable(p)
  PROVE  OpenInv'
<1> DEFINE table == First(Script, Missing)
<1>1. table \in AllTables /\ table \notin schema.tables
  BY FirstTable DEF CreateTable, Missing, AllTables
<1>2. /\ schema'.tables = schema.tables \union {table}
      /\ schema'.columns = IF table = "listings" THEN AllColumns ELSE schema.columns
      /\ schema'.version = schema.version
      /\ SchemaKnown'
  BY <1>1 DEF CreateTable, OpenInv, SchemaKnown, AllColumns
<1>3. ColumnsDue'
  BY <1>1, <1>2 DEF OpenInv, ColumnsDue
<1>4. at' = at /\ todo' = todo /\ schema.columns \subseteq schema'.columns
  BY <1>2 DEF CreateTable, OpenInv, SchemaKnown
<1>5. \A q \in P : TodoCovers(q)'
  BY <1>4 DEF OpenInv, TodoCovers
<1>6. \A q \in P : Progressed(q)'
  BY <1>1, <1>2, <1>4 DEF OpenInv, Progressed, Current, Opening, AllTables
<1> QED
  BY <1>2, <1>3, <1>4, <1>5, <1>6 DEF OpenInv

LEMMA ScriptDoneKeeps ==
  ASSUME OpenInv, NEW p \in P, ScriptDone(p)
  PROVE  OpenInv'
<1>1. schema.tables = AllTables
  BY DEF ScriptDone, Missing, OpenInv, SchemaKnown, AllTables
<1> QED
  BY <1>1 DEF ScriptDone, GoTo, OpenInv, SchemaKnown, ColumnsDue, TodoCovers, Progressed,
              Current, Opening

LEMMA ReadVersionKeeps ==
  ASSUME OpenInv, NEW p \in P, ReadVersion(p)
  PROVE  OpenInv'
<1>1. schema.tables = AllTables
  BY DEF ReadVersion, OpenInv, Progressed
<1>2. CASE schema.version = NoVersion
  BY <1>1, <1>2 DEF ReadVersion, GoTo, OpenInv, SchemaKnown, ColumnsDue, TodoCovers, Progressed,
              Current, Opening
<1>3. CASE schema.version # NoVersion /\ schema.version < 2
  BY <1>1, <1>3 DEF ReadVersion, GoTo, OpenInv, SchemaKnown, ColumnsDue, TodoCovers, Progressed,
              Current, Opening
<1>4. CASE schema.version # NoVersion /\ ~(schema.version < 2)
  <2>1. Current(schema)
    BY <1>1, <1>4, ScriptMembers
       DEF OpenInv, SchemaKnown, ColumnsDue, Current, AllTables, AllColumns, SCHEMA_VERSION, NoVersion
  <2> QED
    BY <1>4, <2>1 DEF ReadVersion, GoTo, OpenInv, SchemaKnown, ColumnsDue, TodoCovers, Progressed,
              Current, Opening, AllTables
<1> QED
  BY <1>2, <1>3, <1>4

LEMMA StampKeeps ==
  ASSUME OpenInv, NEW p \in P, Stamp(p)
  PROVE  OpenInv'
<1>1. /\ schema'.tables = schema.tables /\ schema'.columns = schema.columns
      /\ schema'.version = SCHEMA_VERSION /\ SchemaKnown'
  BY DEF Stamp, OpenInv, SchemaKnown, SCHEMA_VERSION
<1>2. schema.tables = AllTables
  BY DEF Stamp, OpenInv, Progressed
<1>3. Current(schema')
  BY <1>1, <1>2, ScriptMembers
     DEF Stamp, OpenInv, Progressed, ColumnsDue, Current, AllTables, AllColumns, SCHEMA_VERSION,
         NoVersion
<1>4. ColumnsDue'
  BY <1>1, <1>3 DEF ColumnsDue, Current, AllColumns
<1>5. at' = [at EXCEPT ![p] = "idle"] /\ todo' = todo
  BY DEF Stamp, GoTo
<1>6. \A q \in P : TodoCovers(q)'
  BY <1>1, <1>5 DEF OpenInv, TodoCovers
<1>7. \A q \in P : Progressed(q)'
  BY <1>1, <1>2, <1>3, <1>5 DEF OpenInv, Progressed, SCHEMA_VERSION, NoVersion
<1> QED
  BY <1>1, <1>4, <1>5, <1>6, <1>7 DEF OpenInv

LEMMA InspectKeeps ==
  ASSUME OpenInv, NEW p \in P, Inspect(p)
  PROVE  OpenInv'
<1> DEFINE missing == AllColumns \ schema.columns
<1>1. /\ schema' = schema /\ todo' = [todo EXCEPT ![p] = missing]
      /\ at' = [at EXCEPT ![p] = IF missing = {} THEN "idle" ELSE "alter"]
      /\ at[p] = "inspect"
  BY DEF Inspect, GoTo, AllColumns
<1>2. schema.tables = AllTables /\ schema.version # NoVersion
  BY <1>1 DEF OpenInv, Progressed
<1>3. missing = {} => Current(schema)
  BY <1>2 DEF OpenInv, SchemaKnown, Current, AllTables, AllColumns
<1>4. \A q \in P : TodoCovers(q)'
  BY <1>1 DEF OpenInv, SchemaKnown, TodoCovers
<1>5. \A q \in P : Progressed(q)'
  BY <1>1, <1>2, <1>3 DEF OpenInv, Progressed, Opening
<1> QED
  BY <1>1, <1>4, <1>5 DEF OpenInv, SchemaKnown, ColumnsDue

LEMMA AddColumnKeeps ==
  ASSUME OpenInv, NEW p \in P, AddColumn(p)
  PROVE  OpenInv'
<1>1. at[p] = "alter" /\ TodoCovers(p)
  BY DEF AddColumn, OpenInv
<1>2. Column(p) \in todo[p] /\ Column(p) \in AllColumns
  BY <1>1, FirstColumn DEF TodoCovers, Column
<1>3. /\ schema'.tables = schema.tables /\ schema'.version = schema.version
      /\ schema'.columns = schema.columns \union {Column(p)}
      /\ SchemaKnown'
  BY <1>2 DEF AddColumn, OpenInv, SchemaKnown
<1>4. /\ todo' = [todo EXCEPT ![p] = @ \ {Column(p)}]
      /\ at' = [at EXCEPT ![p] = IF todo[p] = {Column(p)} THEN "idle" ELSE "alter"]
  BY DEF AddColumn, GoTo
<1>5. schema.tables = AllTables /\ schema.version # NoVersion
  BY <1>1 DEF OpenInv, Progressed
<1>6. todo[p] = {Column(p)} => Current(schema')
  BY <1>1, <1>3, <1>5 DEF TodoCovers, OpenInv, SchemaKnown, Current, AllTables, AllColumns
<1>7. \A q \in P : TodoCovers(q)'
  <2> SUFFICES ASSUME NEW q \in P PROVE TodoCovers(q)'
    OBVIOUS
  <2>1. TodoCovers(q)
    BY DEF OpenInv
  <2>2. AllColumns' = AllColumns
    BY DEF AllColumns
  <2>3. CASE q # p
    <3>1. at'[q] = at[q] /\ todo'[q] = todo[q]
      BY <1>4, <2>3
    <3> QED
      BY <1>3, <2>1, <2>2, <3>1 DEF TodoCovers
  <2>4. CASE q = p
    <3>1. todo'[p] = todo[p] \ {Column(p)}
      BY <1>4 DEF OpenInv
    <3>2. at'[p] = "alter" => todo[p] # {Column(p)}
      BY <1>4 DEF OpenInv
    <3>3. AllColumns \ todo[p] \subseteq schema.columns
      BY <1>1 DEF TodoCovers
    <3> QED
      BY <1>2, <1>3, <2>1, <2>2, <2>4, <3>1, <3>2, <3>3 DEF TodoCovers
  <2> QED
    BY <2>3, <2>4
<1>8. \A q \in P : Current(schema) => Current(schema')
  BY <1>2, <1>3 DEF Current, AllColumns
<1>9. \A q \in P : Progressed(q)'
  BY <1>3, <1>4, <1>5, <1>6, <1>8 DEF OpenInv, Progressed, Opening
<1>10. ColumnsDue'
  BY <1>2, <1>3 DEF OpenInv, SchemaKnown, ColumnsDue
<1> QED
  BY <1>3, <1>4, <1>7, <1>9, <1>10 DEF OpenInv

\* DuplicateColumn and OpeningRefused.
LEMMA LeaveKeeps ==
  ASSUME OpenInv, NEW p \in P, Leave(p)
  PROVE  OpenInv'
<1>1. Uses(p)
  BY DEF Leave, Uses, Moves
<1> QED
  BY <1>1, UsesKeep

-----------------------------------------------------------------------------
LEMMA OpenInvInitially == Init => OpenInv
<1> SUFFICES ASSUME Init PROVE OpenInv
  OBVIOUS
<1>1. schema \in Files /\ at = [p \in P |-> "closed"] /\ todo = [p \in P |-> {}]
  BY DEF Init, OpeningInit
<1>2. SchemaKnown /\ ColumnsDue
  BY <1>1, FilesAssumption DEF SchemaKnown, ColumnsDue, AllTables, AllColumns
<1> QED
  BY <1>1, <1>2 DEF OpenInv, TodoCovers, Progressed, Opening

LEMMA OpenInvKept == OpenInv /\ [Next]_vars => OpenInv'
<1> SUFFICES ASSUME OpenInv, [Next]_vars PROVE OpenInv'
  OBVIOUS
<1>1. CASE UNCHANGED vars
  BY <1>1 DEF vars, openingVars, OpenInv, SchemaKnown, ColumnsDue, TodoCovers, Progressed,
              Current, Opening
<1>2. ASSUME NEW p \in P, Open(p) PROVE OpenInv'
  <2>1. OpeningNext(p)
    BY <1>2 DEF Open
  <2>2. DuplicateColumn(p) \/ OpeningRefused(p) => Leave(p)
    BY DEF DuplicateColumn, OpeningRefused
  <2> QED
    BY <2>1, <2>2, ConnectKeeps, CreateTableKeeps, ScriptDoneKeeps, ReadVersionKeeps, StampKeeps,
       InspectKeeps, AddColumnKeeps, LeaveKeeps DEF OpeningNext
<1>3. ASSUME NEW p \in P,
             \/ \E l \in Incoming : Upsert(p, l)
             \/ GetAgency(p) \/ PutAgency(p) \/ Lookup(p)
             \/ PutListing(p) \/ ListingConflict(p) \/ UpsertRefused(p)
             \/ Write(p) \/ CallRefused(p) \/ Read(p) \/ Close(p)
      PROVE  OpenInv'
  BY <1>3, StoreStepsUse, UsesKeep
<1> QED
  BY <1>1, <1>2, <1>3 DEF Next

\* OpenedIsCurrent: SqliteStore._conn hands out no connection before the file is
\* current, for any number of processes and any file that a release has left.
THEOREM OpenedFileIsCurrent == Spec => []OpenedIsCurrent
<1>1. OpenInv => OpenedIsCurrent
  BY DEF OpenInv, Progressed, OpenedIsCurrent
<1> QED
  BY <1>1, OpenInvInitially, OpenInvKept, PTL DEF Spec

-----------------------------------------------------------------------------
(* Locks: until a constraint fails, no statement leaves one behind.         *)

LocksFree ==
  /\ DOMAIN txn = P /\ DOMAIN outcome = P /\ conflicted \in BOOLEAN
  /\ ~conflicted => \A p \in P : txn[p] = "none" /\ outcome[p] # "locked"

\* A step of p that leaves p's connection without a transaction and does not
\* fail on a lock, or one that breaks a constraint.
Clean(p) ==
  /\ \/ conflicted' = conflicted
     \/ conflicted' = TRUE
  /\ DOMAIN txn' = DOMAIN txn /\ DOMAIN outcome' = DOMAIN outcome
  /\ \A q \in P \ {p} : txn'[q] = txn[q] /\ outcome'[q] = outcome[q]
  /\ ~conflicted' => txn'[p] = "none" /\ outcome'[p] # "locked"

LEMMA CleanKeeps ==
  ASSUME LocksFree, NEW p \in P, Clean(p)
  PROVE  LocksFree'
<1>1. DOMAIN txn' = P /\ DOMAIN outcome' = P
  BY DEF LocksFree, Clean
<1>2. conflicted' \in BOOLEAN /\ (~conflicted' => ~conflicted)
  <2>1. CASE conflicted' = conflicted
    BY <2>1 DEF LocksFree
  <2>2. CASE conflicted' = TRUE
    BY <2>2
  <2> QED
    BY <2>1, <2>2 DEF Clean
<1>3. ASSUME ~conflicted', NEW q \in P PROVE txn'[q] = "none" /\ outcome'[q] # "locked"
  <2>1. txn[q] = "none" /\ outcome[q] # "locked"
    BY <1>2, <1>3 DEF LocksFree
  <2>2. CASE q = p
    BY <1>3, <2>2 DEF Clean
  <2>3. CASE q # p
    BY <2>1, <2>3 DEF Clean
  <2> QED
    BY <2>2, <2>3
<1> QED
  BY <1>1, <1>2, <1>3 DEF LocksFree

\* With no transaction open anywhere, no lock is refused.
LEMMA NothingRefused ==
  ASSUME LocksFree, ~conflicted, NEW p \in P
  PROVE  CanRead(p) /\ CanWrite(p) /\ CanCommit(p) /\ txn[p] = "none"
BY DEF LocksFree, CanRead, CanWrite, CanCommit

LEMMA StepIsClean ==
  ASSUME LocksFree, NEW p \in P,
         \/ Open(p) \/ (\E l \in Incoming : Upsert(p, l)) \/ GetAgency(p) \/ PutAgency(p)
         \/ Lookup(p) \/ PutListing(p) \/ ListingConflict(p) \/ UpsertRefused(p)
         \/ Write(p) \/ CallRefused(p) \/ Read(p) \/ Close(p)
  PROVE  Clean(p)
<1>1. DOMAIN txn = P /\ DOMAIN outcome = P
  BY DEF LocksFree
<1>2. ~conflicted => /\ CanRead(p) /\ CanWrite(p) /\ CanCommit(p)
                     /\ txn[p] = "none" /\ outcome[p] # "locked"
  BY NothingRefused DEF LocksFree
<1>3. CASE Open(p)
  <2>1. txn' = txn \/ txn' = [txn EXCEPT ![p] = "none"]
    BY <1>3 DEF Open, OpeningNext, Connect, CreateTable, ScriptDone, ReadVersion, Stamp, Inspect,
                AddColumn, DuplicateColumn, OpeningRefused, GoTo, Leave
  <2> QED
    BY <1>1, <1>2, <1>3, <2>1 DEF Open, Clean
<1>4. CASE \E l \in Incoming : Upsert(p, l)
  BY <1>1, <1>2, <1>4 DEF Upsert, Clean
<1>5. CASE GetAgency(p) \/ Lookup(p) \/ Read(p)
  <2>1. Selecting(p) /\ UNCHANGED <<outcome, conflicted>>
    BY <1>5 DEF GetAgency, Lookup, Read
  <2>2. \/ txn[p] = "begun" /\ txn' = [txn EXCEPT ![p] = "reading"]
        \/ txn[p] # "begun" /\ txn' = [txn EXCEPT ![p] = txn[p]]
    BY <2>1 DEF Selecting
  <2>3. /\ DOMAIN txn' = DOMAIN txn /\ \A q \in P \ {p} : txn'[q] = txn[q]
        /\ txn[p] = "none" => txn'[p] = "none"
    BY <1>1, <2>2
  <2> QED
    BY <1>1, <1>2, <2>1, <2>2, <2>3 DEF Clean
<1>6. CASE PutAgency(p)
  BY <1>1, <1>2, <1>6 DEF PutAgency, Committing, Clean
<1>7. CASE PutListing(p) \/ Write(p)
  <2>1. txn' = [txn EXCEPT ![p] = "none"] /\ outcome' = [outcome EXCEPT ![p] = "ok"]
    BY <1>7 DEF PutListing, Write, Committing, Ends
  <2>2. conflicted' = conflicted \/ conflicted' = TRUE
    BY <1>7 DEF PutListing, Write, LocksFree
  <2> QED
    BY <1>1, <2>1, <2>2 DEF Clean
<1>8. CASE ListingConflict(p)
  <2>1. conflicted' = TRUE /\ outcome' = [outcome EXCEPT ![p] = "conflict"]
    BY <1>8 DEF ListingConflict, Conflicting, Ends
  <2>2. DOMAIN txn' = DOMAIN txn /\ \A q \in P \ {p} : txn'[q] = txn[q]
    BY <1>1, <1>8 DEF ListingConflict, Conflicting
  <2> QED
    BY <1>1, <2>1, <2>2 DEF Clean
<1>9. CASE UpsertRefused(p) \/ CallRefused(p)
  <2>1. ~(CanRead(p) /\ CanWrite(p) /\ CanCommit(p)) /\ UNCHANGED conflicted
    BY <1>9 DEF UpsertRefused, CallRefused, WriteRefused, ReadRefused
  <2>2. outcome' = [outcome EXCEPT ![p] = "locked"]
    BY <1>9 DEF UpsertRefused, CallRefused, Ends
  <2>3. DOMAIN txn' = DOMAIN txn /\ \A q \in P \ {p} : txn'[q] = txn[q]
    BY <1>1, <1>9 DEF UpsertRefused, CallRefused, WriteRefused, ReadRefused
  <2> QED
    BY <1>1, <1>2, <2>1, <2>2, <2>3 DEF Clean, LocksFree
<1>10. CASE Close(p)
  BY <1>1, <1>10 DEF Close, Leave, Clean
<1> QED
  BY <1>3, <1>4, <1>5, <1>6, <1>7, <1>8, <1>9, <1>10

\* RefusedOnlyAfterConflict, for any number of processes: until some
\* upsert_listing, of any of them, has broken a constraint, no method raises
\* "database is locked" and no connection keeps a transaction open.  From the
\* first broken constraint on it promises nothing, of no connection.
THEOREM LocksAreFree == Spec => []RefusedOnlyAfterConflict
<1>1. Init => LocksFree
  <2> SUFFICES ASSUME Init PROVE LocksFree
    OBVIOUS
  <2>1. /\ txn = [p \in P |-> "none"] /\ outcome = [p \in P |-> "none"]
        /\ conflicted = FALSE
    BY DEF Init, OpeningInit
  <2>2. conflicted \in BOOLEAN
    BY <2>1
  <2> QED
    BY <2>1, <2>2 DEF LocksFree
<1>2. LocksFree /\ [Next]_vars => LocksFree'
  <2>1. ASSUME LocksFree, UNCHANGED vars PROVE LocksFree'
    BY <2>1 DEF vars, openingVars, LocksFree
  <2>2. ASSUME LocksFree, Next PROVE LocksFree'
    BY <2>2, StepIsClean, CleanKeeps DEF Next
  <2> QED
    BY <2>1, <2>2
<1>3. LocksFree => RefusedOnlyAfterConflict
  BY DEF LocksFree, RefusedOnlyAfterConflict
<1> QED
  BY <1>1, <1>2, <1>3, PTL DEF Spec

-----------------------------------------------------------------------------
(* The data: what a store is, on disk and in a connection's draft.          *)

Sources == Incoming \union Backlog
AllKeys == {l.key : l \in Sources}
AllUrls == {l.url : l \in Sources}
Details == {l.detail : l \in Sources}
Agencies == {l.agency : l \in Sources} \union {NoAgency}
AllFields == UNION {a.fields : a \in Agencies}

Identified == [id : IDs, key : AllKeys, url : AllUrls, detail : Details, agency : Agencies]
Payloads == [id : IDs, detail : Details, agency : Agencies]
RowSet == [key : AllKeys, url : AllUrls, payload : Payloads]
MetaSet == {SerializeCacheValue(v) : v \in CacheValues} \union {[t |-> "unset", v |-> 0]}
StoreFields == {"rows", "agencies", "feedback", "searches", "recommended", "meta"}

IsStore(d) ==
  /\ DOMAIN d = StoreFields
  /\ d.rows \in [IDs -> RowSet \union {NoRow}]
  /\ d.agencies \in [AgencyNos -> SUBSET AllFields]
  /\ d.feedback \in [IDs -> {"none", "save", "reject"}]
  /\ d.searches \in Nat
  /\ d.meta \in MetaSet
UniqueRows(d) ==
  \A i, j \in Rows(d) : d.rows[i].key = d.rows[j].key \/ d.rows[i].url = d.rows[j].url => i = j

-----------------------------------------------------------------------------
LEMMA NoRowIsNone == NoRow \notin RowSet
<1>1. \A r \in RowSet : DOMAIN r = {"key", "url", "payload"}
  BY DEF RowSet
<1>2. DOMAIN NoRow = {"key"}
  BY DEF NoRow
<1> QED
  BY <1>1, <1>2

LEMMA SourcesIdentified ==
  ASSUME NEW l \in Sources
  PROVE  l \in Identified
<1>1. /\ l = [id |-> l.id, key |-> l.key, url |-> l.url, detail |-> l.detail, agency |-> l.agency]
      /\ l.id \in IDs
  BY StoreAssumption DEF Sources
<1>2. l.key \in AllKeys /\ l.url \in AllUrls /\ l.detail \in Details /\ l.agency \in Agencies
  BY DEF AllKeys, AllUrls, Details, Agencies
<1>3. [id |-> l.id, key |-> l.key, url |-> l.url, detail |-> l.detail, agency |-> l.agency] \in Identified
  BY <1>1, <1>2 DEF Identified
<1> QED
  BY <1>1, <1>3

LEMMA SerializedRow ==
  ASSUME NEW l \in Identified
  PROVE  /\ Serialize(l) \in RowSet
         /\ Serialize(l).key = l.key /\ Serialize(l).url = l.url
BY DEF Identified, Serialize, RowSet, Payloads

LEMMA DeserializedRow ==
  ASSUME NEW r \in RowSet
  PROVE  /\ Deserialize(r) \in Identified
         /\ Deserialize(r).key = r.key /\ Deserialize(r).url = r.url
BY DEF RowSet, Payloads, Identified, Deserialize

LEMMA MergedListing ==
  ASSUME NEW e \in Identified, NEW l \in Identified
  PROVE  /\ MergeListing(e, l) \in Identified
         /\ \/ MergeListing(e, l).key = e.key /\ MergeListing(e, l).url = e.url
            \/ MergeListing(e, l).key = l.key /\ MergeListing(e, l).url = l.url
<1> DEFINE a == IF l.agency = NoAgency THEN e.agency ELSE l.agency
           m == [l EXCEPT !.agency = a]
<1>1. MergeListing(e, l) = e \/ MergeListing(e, l) = m
  BY DEF MergeListing
<1>2. a \in Agencies
  BY DEF Identified
<1> HIDE DEF a
<1>3. m \in Identified /\ m.key = l.key /\ m.url = l.url
  BY <1>2 DEF Identified
<1> QED
  BY <1>1, <1>3

-----------------------------------------------------------------------------
PutRow(d, i, r) == [d EXCEPT !.rows[i] = r]

LEMMA RowsAreRows ==
  ASSUME NEW d, IsStore(d), NEW i \in Rows(d)
  PROVE  i \in IDs /\ d.rows[i] \in RowSet
BY DEF Rows, IsStore

LEMMA PutRowFields ==
  ASSUME NEW d, IsStore(d), NEW i \in IDs, NEW r \in RowSet
  PROVE  LET e == PutRow(d, i, r) IN
         /\ IsStore(e)
         /\ e.rows = [d.rows EXCEPT ![i] = r]
         /\ Rows(e) = Rows(d) \union {i}
         /\ e.agencies = d.agencies /\ e.feedback = d.feedback /\ e.searches = d.searches
         /\ e.recommended = d.recommended /\ e.meta = d.meta
<1> DEFINE e == PutRow(d, i, r)
<1>1. DOMAIN d = StoreFields /\ d.rows \in [IDs -> RowSet \union {NoRow}]
  BY DEF IsStore
<1>2. /\ DOMAIN e = StoreFields
      /\ e.rows = [d.rows EXCEPT ![i] = r]
      /\ e.agencies = d.agencies /\ e.feedback = d.feedback /\ e.searches = d.searches
      /\ e.recommended = d.recommended /\ e.meta = d.meta
  BY <1>1 DEF PutRow, StoreFields
<1> HIDE DEF e
<1>3. e.rows \in [IDs -> RowSet \union {NoRow}]
  BY <1>1, <1>2
<1>4. IsStore(e)
  BY <1>2, <1>3 DEF IsStore
<1>5. Rows(e) = Rows(d) \union {i}
  BY <1>1, <1>2, NoRowIsNone DEF Rows
<1> QED
  BY <1>2, <1>4, <1>5 DEF e

\* A row with a key and a URL of its own.
Fits(d, i, r) == \A j \in Rows(d) \ {i} : d.rows[j].key # r.key /\ d.rows[j].url # r.url

LEMMA PutRowUnique ==
  ASSUME NEW d, IsStore(d), UniqueRows(d), NEW i \in IDs, NEW r \in RowSet, Fits(d, i, r)
  PROVE  UniqueRows(PutRow(d, i, r))
<1> DEFINE e == PutRow(d, i, r)
<1>1. Rows(e) = Rows(d) \union {i} /\ e.rows = [d.rows EXCEPT ![i] = r] /\ DOMAIN d.rows = IDs
  BY PutRowFields DEF IsStore
<1>2. Rows(d) \subseteq IDs
  BY DEF Rows
<1>3. \A j \in Rows(e) : e.rows[j] = IF j = i THEN r ELSE d.rows[j]
  BY <1>1, <1>2
<1> HIDE DEF e
<1>4. ASSUME NEW j \in Rows(e), NEW k \in Rows(e),
             e.rows[j].key = e.rows[k].key \/ e.rows[j].url = e.rows[k].url
      PROVE  j = k
  BY <1>1, <1>3, <1>4 DEF UniqueRows, Fits
<1> QED
  BY <1>4 DEF UniqueRows, e

-----------------------------------------------------------------------------
\* The abstract store of StoreContract, read off a store d.
Property(d, i) == [id |-> i, key |-> d.rows[i].key, url |-> d.rows[i].url]
KnownIn(d) == {Property(d, i) : i \in Rows(d)}

LEMMA KnownDistinct ==
  ASSUME NEW d, UniqueRows(d)
  PROVE  Contract!Distinct(KnownIn(d))
<1> SUFFICES ASSUME NEW i \in Rows(d), NEW j \in Rows(d),
                    \/ Property(d, i).id = Property(d, j).id
                    \/ Property(d, i).key = Property(d, j).key
                    \/ Property(d, i).url = Property(d, j).url
             PROVE  Property(d, i) = Property(d, j)
  BY DEF Contract!Distinct, KnownIn
<1>1. i = j
  BY DEF UniqueRows, Property
<1> QED
  BY <1>1

LEMMA PutRowKnown ==
  ASSUME NEW d, IsStore(d), NEW i \in IDs, NEW r \in RowSet
  PROVE  LET new == [id |-> i, key |-> r.key, url |-> r.url] IN
         KnownIn(PutRow(d, i, r)) =
           IF i \in Rows(d) THEN (KnownIn(d) \ {Property(d, i)}) \union {new}
           ELSE KnownIn(d) \union {new}
<1> DEFINE e == PutRow(d, i, r)
           new == [id |-> i, key |-> r.key, url |-> r.url]
<1>1. Rows(e) = Rows(d) \union {i} /\ e.rows = [d.rows EXCEPT ![i] = r] /\ DOMAIN d.rows = IDs
  BY PutRowFields DEF IsStore
<1>2. Property(e, i) = new
  BY <1>1 DEF Property
<1>3. \A j \in Rows(d) \ {i} : Property(e, j) = Property(d, j)
  BY <1>1 DEF Property, Rows
<1>4. \A j \in Rows(d) \ {i} : Property(d, j) # Property(d, i)
  BY DEF Property
<1> HIDE DEF e, new
<1>5. KnownIn(e) = {Property(d, j) : j \in Rows(d) \ {i}} \union {new}
  BY <1>1, <1>2, <1>3 DEF KnownIn
<1>6. i \in Rows(d) => {Property(d, j) : j \in Rows(d) \ {i}} = KnownIn(d) \ {Property(d, i)}
  BY <1>4 DEF KnownIn
<1>7. i \notin Rows(d) => {Property(d, j) : j \in Rows(d) \ {i}} = KnownIn(d)
  BY DEF KnownIn
<1> QED
  BY <1>5, <1>6, <1>7 DEF e, new

LEMMA KnownIDs ==
  ASSUME NEW d, NEW i, i \notin Rows(d), NEW x, x.id = i
  PROVE  x \notin KnownIn(d)
BY DEF KnownIn, Property

-----------------------------------------------------------------------------
(* What an action may do to what is committed and to the locks.             *)

Writers == {p \in P : txn[p] \in {"writing", "pending"}}

TxnOK == txn \in [P -> Transactions] /\ \A p, q \in Writers : p = q
DataOK ==
  /\ IsStore(disk) /\ IsStore(draft) /\ UniqueRows(disk) /\ UniqueRows(draft)
  /\ Rows(disk) \subseteq Rows(draft)
  /\ draft # disk => \E p \in P : txn[p] = "pending"

Good(old, new) == IsStore(new) /\ UniqueRows(new) /\ Rows(old) \subseteq Rows(new)

\* A statement that writes nothing, or is refused.
Keeps(p) ==
  /\ UNCHANGED <<disk, draft>>
  /\ \E t \in Transactions :
       /\ txn' = [txn EXCEPT ![p] = t]
       /\ t = txn[p] \/ {t, txn[p]} \intersect {"writing", "pending"} = {}
\* A write whose commit is refused.
Holds(p, d) ==
  /\ CanWrite(p) /\ disk' = disk /\ draft' = d
  /\ txn' = [txn EXCEPT ![p] = "pending"]
\* A write that breaks a constraint.
Breaks(p) ==
  /\ CanWrite(p) /\ disk' = disk /\ draft' = View(p)
  /\ txn' = [txn EXCEPT ![p] = IF @ = "pending" THEN @ ELSE "writing"]
\* The end of a connection.
Drops(p) ==
  /\ disk' = disk /\ draft' = IF txn[p] \in {"writing", "pending"} THEN disk ELSE draft
  /\ txn' = [txn EXCEPT ![p] = "none"]

Writes(p) == \E d : Good(View(p), d) /\ (Committing(p, d) \/ Holds(p, d))
Stays(p) == Keeps(p) \/ Writes(p) \/ Breaks(p)

\* Nobody but the writer of a pending commit sees anything uncommitted.
LEMMA ViewIsStore ==
  ASSUME TxnOK, DataOK, NEW p \in P
  PROVE  /\ IsStore(View(p)) /\ UniqueRows(View(p)) /\ Rows(disk) \subseteq Rows(View(p))
         /\ txn[p] # "pending" => View(p) = disk
<1>1. CASE txn[p] \notin {"writing", "pending"}
  BY <1>1 DEF View, DataOK
<1>2. CASE txn[p] = "pending"
  BY <1>2 DEF View, DataOK
<1>3. CASE txn[p] = "writing"
  <2>1. \A q \in P : txn[q] # "pending"
    BY <1>3 DEF TxnOK, Writers
  <2> QED
    BY <1>3, <2>1 DEF View, DataOK
<1> QED
  BY <1>1, <1>2, <1>3

\* A process that can write is the only one with something uncommitted.
LEMMA OthersSeeDisk ==
  ASSUME TxnOK, NEW p \in P, CanWrite(p), NEW q \in P \ {p}
  PROVE  View(q) = disk /\ q \notin Writers
BY DEF CanWrite, View, Writers

Sees(q) == Rows(View(q)) \subseteq Rows(View(q)')

LEMMA KeepsKeep ==
  ASSUME TxnOK, DataOK, NEW p \in P, Keeps(p)
  PROVE  /\ TxnOK' /\ DataOK' /\ \A q \in P \ {p} : txn'[q] = txn[q]
         /\ \A q \in P : View(q)' = View(q)
<1>1. PICK t \in Transactions :
        /\ txn' = [txn EXCEPT ![p] = t]
        /\ t = txn[p] \/ {t, txn[p]} \intersect {"writing", "pending"} = {}
  BY DEF Keeps
<1>2. \A q \in P : txn'[q] = txn[q] \/ {txn'[q], txn[q]} \intersect {"writing", "pending"} = {}
  BY <1>1 DEF TxnOK
<1>3. disk' = disk /\ draft' = draft
  BY DEF Keeps
<1>4. Writers' = Writers
  BY <1>2 DEF Writers
<1>5. TxnOK'
  BY <1>1, <1>4 DEF TxnOK
<1>6. \A q \in P : View(q)' = View(q)
  BY <1>2, <1>3 DEF View
<1>7. DataOK'
  BY <1>2, <1>3 DEF DataOK, IsStore, UniqueRows, Rows
<1>8. \A q \in P \ {p} : txn'[q] = txn[q]
  BY <1>1 DEF TxnOK
<1> QED
  BY <1>5, <1>6, <1>7, <1>8

LEMMA WritesKeep ==
  ASSUME TxnOK, DataOK, NEW p \in P, NEW d, Good(View(p), d), Committing(p, d) \/ Holds(p, d)
  PROVE  /\ TxnOK' /\ DataOK' /\ \A q \in P \ {p} : txn'[q] = txn[q]
         /\ View(p)' = d /\ \A q \in P \ {p} : View(q) = disk /\ View(q)' = disk'
         /\ \A q \in P : Sees(q)
<1>1. CanWrite(p) /\ draft' = d /\ disk' \in {disk, d}
  BY DEF Committing, CanAutocommit, Holds
<1>2. PICK t \in {"none", "pending"} :
        /\ txn' = [txn EXCEPT ![p] = t] /\ (t = "none" => disk' = d) /\ (t = "pending" => disk' = disk)
  BY DEF Committing, Holds
<1>3. \A q \in P \ {p} : txn'[q] = txn[q] /\ View(q) = disk /\ q \notin Writers
  BY <1>1, <1>2, OthersSeeDisk DEF TxnOK
<1>4. txn'[p] = t
  BY <1>2 DEF TxnOK
<1>5. \A q \in P \ {p} : q \notin Writers'
  BY <1>3 DEF Writers
<1>6. TxnOK'
  BY <1>2, <1>5 DEF TxnOK, Transactions, Writers
<1>7. View(p)' = d /\ \A q \in P \ {p} : View(q)' = disk'
  BY <1>1, <1>2, <1>4, <1>5 DEF View, Writers
<1>8. Rows(disk) \subseteq Rows(d)
  BY ViewIsStore DEF Good
<1>9. IsStore(disk) /\ UniqueRows(disk) /\ IsStore(d) /\ UniqueRows(d)
  BY DEF DataOK, Good
<1>10. DataOK'
  <2>1. CASE t = "none"
    BY <1>1, <1>2, <1>9, <2>1 DEF DataOK
  <2>2. CASE t = "pending"
    BY <1>1, <1>2, <1>4, <1>8, <1>9, <2>2 DEF DataOK
  <2> QED
    BY <2>1, <2>2
<1>11. \A q \in P : Sees(q)
  BY <1>1, <1>3, <1>7, <1>8 DEF Sees, Good
<1> QED
  BY <1>3, <1>6, <1>7, <1>10, <1>11

LEMMA BreaksKeep ==
  ASSUME TxnOK, DataOK, NEW p \in P, Breaks(p)
  PROVE  /\ TxnOK' /\ DataOK' /\ \A q \in P \ {p} : txn'[q] = txn[q]
         /\ \A q \in P : View(q)' = View(q)
<1>1. PICK t \in {"writing", "pending"} :
        /\ txn' = [txn EXCEPT ![p] = t] /\ (t = "pending" <=> txn[p] = "pending")
  <2>1. CASE txn[p] = "pending"
    BY <2>1 DEF Breaks
  <2>2. CASE txn[p] # "pending"
    BY <2>2 DEF Breaks
  <2> QED
    BY <2>1, <2>2
<1>2. \A q \in P \ {p} : txn'[q] = txn[q] /\ View(q) = disk /\ q \notin Writers
  BY <1>1, OthersSeeDisk DEF Breaks, TxnOK
<1>3. txn'[p] = t
  BY <1>1 DEF TxnOK
<1>4. TxnOK'
  BY <1>1, <1>2 DEF TxnOK, Transactions, Writers
<1>5. View(p)' = View(p) /\ \A q \in P \ {p} : View(q)' = View(q)
  BY <1>1, <1>2, <1>3 DEF View, Writers, Breaks
<1>6. disk' = disk /\ draft' = View(p)
  BY DEF Breaks
<1>7. View(p) # disk => txn'[p] = "pending"
  BY <1>1, <1>3, ViewIsStore
<1>8. DataOK'
  BY <1>6, <1>7, ViewIsStore DEF DataOK
<1> QED
  BY <1>2, <1>4, <1>5, <1>8

LEMMA DropsKeep ==
  ASSUME TxnOK, DataOK, NEW p \in P, Drops(p)
  PROVE  /\ TxnOK' /\ DataOK' /\ \A q \in P \ {p} : txn'[q] = txn[q] /\ View(q)' = View(q)
<1>1. \A q \in P \ {p} : txn'[q] = txn[q]
  BY DEF Drops, TxnOK
<1>2. txn'[p] = "none" /\ txn' \in [P -> Transactions]
  BY DEF Drops, TxnOK, Transactions
<1>3. TxnOK'
  BY <1>1, <1>2 DEF TxnOK, Writers
<1>4. CASE txn[p] \in {"writing", "pending"}
  <2>1. \A q \in P \ {p} : q \notin Writers
    BY <1>4 DEF TxnOK, Writers
  <2>2. \A q \in P \ {p} : View(q) = disk /\ View(q)' = disk'
    BY <1>1, <2>1 DEF View, Writers
  <2>3. disk' = disk /\ draft' = disk
    BY <1>4 DEF Drops
  <2>4. DataOK'
    BY <2>3 DEF DataOK
  <2> QED
    BY <1>1, <1>3, <2>2, <2>3, <2>4
<1>5. CASE txn[p] \notin {"writing", "pending"}
  <2>1. disk' = disk /\ draft' = draft
    BY <1>5 DEF Drops
  <2>2. \A q \in P \ {p} : View(q)' = View(q)
    BY <1>1, <2>1 DEF View
  <2>3. DataOK'
    BY <1>1, <1>5, <2>1 DEF DataOK
  <2> QED
    BY <1>1, <1>3, <2>2, <2>3
<1> QED
  BY <1>4, <1>5

-----------------------------------------------------------------------------
(* What a call under way holds.                                             *)

PlacesOK ==
  /\ at \in [P -> Opening \union Calling]
  /\ outcome \in [P -> {"none", "ok", "locked", "conflict"}]
  /\ \A p \in P : at[p] \in Opening => txn[p] = "none"

Calls == [listing : Identified \union {NoRow}, agency : SUBSET AllFields,
          row : IDs \union {"none"}, read : RowSet \union {NoRow}]

\* The row of an update was found by its key or URL, and what it is about to
\* become was made from what was read of it.
Found(p) ==
  /\ call[p].row \in Rows(View(p)) /\ call[p].read \in RowSet
  /\ \E l \in Incoming :
       /\ l.key = call[p].read.key \/ l.url = call[p].read.url
       /\ call[p].listing = MergeListing(Deserialize(call[p].read), l)

CallOK(p) ==
  /\ at[p] \in {"get_agency", "put_agency", "lookup", "insert"} => call[p].listing \in Incoming
  /\ at[p] \in {"get_agency", "put_agency"} => call[p].listing.agency # NoAgency
  /\ at[p] = "update" => Found(p)

CallsOK == call \in [P -> Calls] /\ \A p \in P : CallOK(p)

\* What callers were told was stored of an agency is in the database, in what is
\* about to be committed, and in the hands of whoever is about to write it.
AgencyOK ==
  /\ DOMAIN given = AgencyNos
  /\ ~overlapped =>
       /\ \A n \in AgencyNos :
            given[n] \subseteq disk.agencies[n] /\ given[n] \subseteq draft.agencies[n]
       /\ \A p \in P : at[p] = "put_agency" =>
            given[call[p].listing.agency.no] \subseteq call[p].agency

StoreInv == TxnOK /\ DataOK /\ PlacesOK /\ CallsOK /\ AgencyOK

LEMMA NoCallIsCall == NoCall \in Calls
BY DEF NoCall, Calls

LEMMA IncomingIdentified == Incoming \subseteq Identified /\ Backlog \subseteq Identified
BY SourcesIdentified DEF Sources

LEMMA AgencyKnown ==
  ASSUME NEW l \in Incoming, l.agency # NoAgency
  PROVE  l.agency.no \in AgencyNos /\ l.agency.fields \in SUBSET AllFields
<1>1. l.agency.no # "none"
  BY StoreAssumption
<1>2. l.agency \in Agencies
  BY DEF Agencies, Sources
<1> QED
  BY <1>1, <1>2 DEF AgencyNos, AllFields

\* The others keep what they hold, and see no row less.
LEMMA OthersKeep ==
  ASSUME NEW q \in P, CallOK(q), at'[q] = at[q], call'[q] = call[q], Sees(q)
  PROVE  CallOK(q)'
<1>1. Found(q) => Found(q)'
  BY DEF Found, Sees
<1> QED
  BY <1>1 DEF CallOK

\* A step that leaves p without a call.
LEMMA EndsKeep ==
  ASSUME CallsOK, NEW p \in P, call' = [call EXCEPT ![p] = NoCall],
         NEW next \in {"idle", "closed"}, at \in [P -> Opening \union Calling],
         at' = [at EXCEPT ![p] = next], \A q \in P \ {p} : Sees(q)
  PROVE  CallsOK'
<1>1. call' \in [P -> Calls]
  BY NoCallIsCall DEF CallsOK
<1>2. at'[p] = next /\ \A q \in P \ {p} : at'[q] = at[q] /\ call'[q] = call[q]
  BY DEF CallsOK
<1>3. CallOK(p)'
  BY <1>2 DEF CallOK
<1>4. ASSUME NEW q \in P \ {p} PROVE CallOK(q)'
  BY <1>2, OthersKeep DEF CallsOK
<1> QED
  BY <1>1, <1>3, <1>4 DEF CallsOK

-----------------------------------------------------------------------------
(* The rows a call writes.                                                  *)

\* The row i it writes keeps its key or its URL, unless the row looked up has
\* changed since.
SameOrRaced(p, d, i, r) ==
  i \in Rows(d) => \/ d.rows[i].key = r.key \/ d.rows[i].url = r.url
                   \/ call[p].read # d.rows[call[p].row]

LEMMA NewRowsPut ==
  ASSUME TxnOK, DataOK, CallsOK, NEW p \in P, at[p] \in {"insert", "update"}, Writable(p)
  PROVE  \E i \in IDs, r \in RowSet :
           /\ NewRows(p) = PutRow(View(p), i, r)
           /\ Fits(View(p), i, r)
           /\ at[p] = "insert" => i \notin Rows(View(p))
           /\ at[p] = "update" => SameOrRaced(p, View(p), i, r)
<1> DEFINE v == View(p)
           l == call[p].listing
<1>1. IsStore(v) /\ UniqueRows(v)
  BY ViewIsStore
<1>2. CASE at[p] = "insert"
  <2>1. l \in Identified
    BY <1>2, IncomingIdentified DEF CallsOK, CallOK
  <2>2. /\ l.id \in IDs /\ Serialize(l) \in RowSet
        /\ Serialize(l).key = l.key /\ Serialize(l).url = l.url
    BY <2>1, SerializedRow DEF Identified
  <2>3. Insertable(p)
    BY <1>2 DEF Writable
  <2>4. Fits(v, l.id, Serialize(l)) /\ l.id \notin Rows(v)
    BY <2>2, <2>3 DEF Insertable, Unique, Fits, Rows
  <2>5. NewRows(p) = PutRow(v, l.id, Serialize(l))
    BY <1>2 DEF NewRows, Inserted, PutRow
  <2> QED
    BY <1>2, <2>2, <2>4, <2>5
<1>3. CASE at[p] = "update"
  <2>1. Found(p)
    BY <1>3 DEF CallsOK, CallOK
  <2>2. PICK m \in Incoming :
          /\ m.key = call[p].read.key \/ m.url = call[p].read.url
          /\ l = MergeListing(Deserialize(call[p].read), m)
    BY <2>1 DEF Found
  <2>3. Deserialize(call[p].read) \in Identified /\ m \in Identified
        /\ Deserialize(call[p].read).key = call[p].read.key
        /\ Deserialize(call[p].read).url = call[p].read.url
    BY <2>1, DeserializedRow, IncomingIdentified DEF Found
  <2>4. l \in Identified /\ (l.key = call[p].read.key \/ l.url = call[p].read.url)
    BY <2>2, <2>3, MergedListing
  <2> HIDE DEF l
  <2>5. Serialize(l) \in RowSet /\ Serialize(l).key = l.key /\ Serialize(l).url = l.url
    BY <2>4, SerializedRow
  <2>6. call[p].row \in Rows(v) /\ call[p].row \in IDs
    BY <2>1 DEF Found, Rows
  <2>7. CASE Updatable(p)
    <3>1. Fits(v, call[p].row, Serialize(l))
      BY <2>5, <2>7 DEF Updatable, Unique, Fits, l
    <3>2. NewRows(p) = PutRow(v, call[p].row, Serialize(l))
      BY <1>3, <2>7 DEF NewRows, Updated, PutRow, l
    <3>3. SameOrRaced(p, v, call[p].row, Serialize(l))
      BY <2>4, <2>5 DEF SameOrRaced
    <3> QED
      BY <1>3, <2>5, <2>6, <3>1, <3>2, <3>3
  <2>8. CASE ~Updatable(p)
    <3> DEFINE i == KeyOwner(p)
               r == [Serialize(l) EXCEPT !.key = v.rows[i].key]
    <3>1. Redirectable(p)
      BY <1>3, <2>8 DEF Writable
    <3>2. i \in Rows(v)
      <4> DEFINE owners == {j \in Rows(v) : v.rows[j].key = l.key}
      <4>1. i = IF owners = {} THEN call[p].row ELSE CHOOSE j \in owners : TRUE
        BY DEF KeyOwner, l
      <4>2. owners # {} => (CHOOSE j \in owners : TRUE) \in owners
        OBVIOUS
      <4> QED
        BY <2>6, <4>1, <4>2
    <3>3. i \in IDs /\ v.rows[i] \in RowSet
      BY <1>1, <3>2, RowsAreRows
    <3>4. r \in RowSet /\ r.key = v.rows[i].key /\ r.url = l.url
      BY <2>5, <3>3 DEF RowSet
    <3>5. \A j \in Rows(v) \ {i} : v.rows[j].url # l.url
      BY <3>1 DEF Redirectable, l
    <3>6. NewRows(p) = PutRow(v, i, r)
      BY <1>3, <2>8 DEF NewRows, Redirected, PutRow, l
    <3> HIDE DEF i, r, v
    <3>7. Fits(v, i, r)
      BY <1>1, <3>2, <3>4, <3>5 DEF Fits, UniqueRows
    <3>8. SameOrRaced(p, v, i, r)
      BY <3>4 DEF SameOrRaced
    <3> QED
      BY <1>3, <3>3, <3>4, <3>6, <3>7, <3>8 DEF v
  <2> QED
    BY <2>7, <2>8
<1> QED
  BY <1>2, <1>3

LEMMA NewRowsGood ==
  ASSUME TxnOK, DataOK, CallsOK, NEW p \in P, at[p] \in {"insert", "update"}, Writable(p)
  PROVE  Good(View(p), NewRows(p)) /\ NewRows(p).agencies = View(p).agencies
<1>1. PICK i \in IDs, r \in RowSet : NewRows(p) = PutRow(View(p), i, r) /\ Fits(View(p), i, r)
  BY NewRowsPut
<1>2. IsStore(View(p)) /\ UniqueRows(View(p))
  BY ViewIsStore
<1>3. IsStore(PutRow(View(p), i, r)) /\ Rows(PutRow(View(p), i, r)) = Rows(View(p)) \union {i}
      /\ PutRow(View(p), i, r).agencies = View(p).agencies
  BY <1>2, PutRowFields
<1>4. UniqueRows(PutRow(View(p), i, r))
  BY <1>1, <1>2, PutRowUnique
<1> QED
  BY <1>1, <1>3, <1>4 DEF Good

LEMMA WithAgencyGood ==
  ASSUME TxnOK, DataOK, CallsOK, NEW p \in P, at[p] = "put_agency"
  PROVE  LET a == call[p].listing.agency
             d == WithAgency(p)
         IN /\ Good(View(p), d) /\ Rows(d) = Rows(View(p))
            /\ d.rows = View(p).rows /\ d.feedback = View(p).feedback
            /\ d.searches = View(p).searches /\ d.recommended = View(p).recommended
            /\ d.meta = View(p).meta
            /\ a.no \in AgencyNos
            /\ d.agencies = [View(p).agencies EXCEPT ![a.no] = call[p].agency \union a.fields]
<1> DEFINE a == call[p].listing.agency
           v == View(p)
           d == WithAgency(p)
<1>1. IsStore(v) /\ UniqueRows(v)
  BY ViewIsStore
<1>2. a.no \in AgencyNos /\ a.fields \in SUBSET AllFields
  BY AgencyKnown DEF CallsOK, CallOK
<1>3. call[p].agency \in SUBSET AllFields
  BY DEF CallsOK, Calls
<1>4. /\ DOMAIN d = DOMAIN v
      /\ d.agencies = [v.agencies EXCEPT ![a.no] = call[p].agency \union a.fields]
      /\ d.rows = v.rows /\ d.feedback = v.feedback /\ d.searches = v.searches
      /\ d.recommended = v.recommended /\ d.meta = v.meta
  <2> DEFINE new == [v.agencies EXCEPT ![a.no] = call[p].agency \union a.fields]
  <2>1. d = [v EXCEPT !.agencies = new]
    BY DEF WithAgency, MergeAgency
  <2>2. DOMAIN v = StoreFields
    BY <1>1 DEF IsStore
  <2> HIDE DEF d, v, new
  <2>3. DOMAIN d = DOMAIN v /\ d.agencies = new
    BY <2>1, <2>2 DEF StoreFields
  <2>4. /\ d.rows = v.rows /\ d.feedback = v.feedback /\ d.searches = v.searches
        /\ d.recommended = v.recommended /\ d.meta = v.meta
    BY <2>1, <2>2 DEF StoreFields
  <2> QED
    BY <2>3, <2>4 DEF new
<1> HIDE DEF a, v, d
<1>5. d.agencies \in [AgencyNos -> SUBSET AllFields]
  BY <1>1, <1>2, <1>3, <1>4 DEF IsStore
<1>6. IsStore(d)
  BY <1>1, <1>4, <1>5 DEF IsStore
<1>7. Rows(d) = Rows(v) /\ UniqueRows(d)
  BY <1>1, <1>4 DEF Rows, UniqueRows
<1> QED
  BY <1>2, <1>4, <1>6, <1>7 DEF Good, a, v, d

\* The contract's step of a call of one statement, on the stores before and after.
Recorded(d, e) ==
  \/ /\ \E i \in IDs, c \in {"none", "save", "reject"} : e.feedback = [d.feedback EXCEPT ![i] = c]
     /\ e.searches = d.searches /\ e.recommended = d.recommended /\ e.meta = d.meta
  \/ /\ e.searches = d.searches + 1
     /\ e.feedback = d.feedback /\ e.recommended = d.recommended /\ e.meta = d.meta
  \/ /\ \E s \in 1..d.searches, ids \in SUBSET IDs :
          e.recommended = d.recommended \union ({s} \X ids)
     /\ e.feedback = d.feedback /\ e.searches = d.searches /\ e.meta = d.meta
  \/ /\ \E v \in CacheValues : e.meta = SerializeCacheValue(v)
     /\ e.feedback = d.feedback /\ e.searches = d.searches /\ e.recommended = d.recommended

LEMMA ResultsGood ==
  ASSUME NEW d, IsStore(d), UniqueRows(d), NEW e \in Results(d)
  PROVE  Good(d, e) /\ e.rows = d.rows /\ e.agencies = d.agencies /\ Recorded(d, e)
<1>1. DOMAIN d = StoreFields /\ d.feedback \in [IDs -> {"none", "save", "reject"}] /\ d.searches \in Nat
  BY DEF IsStore
<1>2. CASE e \in SaveOrReject(d) \union ClearFeedback(d)
  <2>1. PICK i \in IDs, c \in {"none", "save", "reject"} : e = [d EXCEPT !.feedback[i] = c]
    BY <1>2 DEF SaveOrReject, ClearFeedback
  <2>2. /\ DOMAIN e = DOMAIN d /\ e.feedback = [d.feedback EXCEPT ![i] = c]
        /\ e.rows = d.rows /\ e.agencies = d.agencies
        /\ e.searches = d.searches /\ e.recommended = d.recommended /\ e.meta = d.meta
    BY <1>1, <2>1 DEF StoreFields
  <2>3. e.feedback \in [IDs -> {"none", "save", "reject"}]
    BY <1>1, <2>2
  <2>4. IsStore(e) /\ Rows(e) = Rows(d) /\ UniqueRows(e)
    BY <2>2, <2>3 DEF IsStore, Rows, UniqueRows
  <2> QED
    BY <2>2, <2>4 DEF Good, Recorded
<1>3. CASE e \in RecordSearch(d)
  <2>1. e = [d EXCEPT !.searches = @ + 1]
    BY <1>3 DEF RecordSearch
  <2>2. /\ DOMAIN e = DOMAIN d /\ e.searches = d.searches + 1
        /\ e.rows = d.rows /\ e.agencies = d.agencies
        /\ e.feedback = d.feedback /\ e.recommended = d.recommended /\ e.meta = d.meta
    BY <1>1, <2>1 DEF StoreFields
  <2>3. e.searches \in Nat
    BY <1>1, <2>2
  <2>4. IsStore(e) /\ Rows(e) = Rows(d) /\ UniqueRows(e)
    BY <2>2, <2>3 DEF IsStore, Rows, UniqueRows
  <2> QED
    BY <2>2, <2>4 DEF Good, Recorded
<1>4. CASE e \in RecordRecommendation(d)
  <2>1. PICK s \in 1..d.searches, ids \in SUBSET Rows(d) \ {{}} :
          e = [d EXCEPT !.recommended = @ \union ({s} \X ids)]
    BY <1>4 DEF RecordRecommendation
  <2>2. ids \in SUBSET IDs
    BY DEF Rows
  <2>3. /\ DOMAIN e = DOMAIN d /\ e.recommended = d.recommended \union ({s} \X ids)
        /\ e.rows = d.rows /\ e.agencies = d.agencies
        /\ e.feedback = d.feedback /\ e.searches = d.searches /\ e.meta = d.meta
    BY <1>1, <2>1 DEF StoreFields
  <2>4. IsStore(e) /\ Rows(e) = Rows(d) /\ UniqueRows(e)
    BY <2>3 DEF IsStore, Rows, UniqueRows
  <2> QED
    BY <2>2, <2>3, <2>4 DEF Good, Recorded
<1>5. CASE e \in SetCacheMeta(d)
  <2>1. PICK v \in CacheValues : e = [d EXCEPT !.meta = SerializeCacheValue(v)]
    BY <1>5 DEF SetCacheMeta
  <2>2. /\ DOMAIN e = DOMAIN d /\ e.meta = SerializeCacheValue(v)
        /\ e.rows = d.rows /\ e.agencies = d.agencies
        /\ e.feedback = d.feedback /\ e.searches = d.searches /\ e.recommended = d.recommended
    BY <1>1, <2>1 DEF StoreFields
  <2>3. e.meta \in MetaSet
    BY <2>2 DEF MetaSet
  <2>4. IsStore(e) /\ Rows(e) = Rows(d) /\ UniqueRows(e)
    BY <2>2, <2>3 DEF IsStore, Rows, UniqueRows
  <2> QED
    BY <2>2, <2>4 DEF Good, Recorded
<1> QED
  BY <1>2, <1>3, <1>4, <1>5 DEF Results

-----------------------------------------------------------------------------
(* The invariant is kept.                                                   *)

LEMMA StaysOrDrops ==
  ASSUME TxnOK, DataOK, NEW p \in P, Stays(p) \/ Drops(p)
  PROVE  /\ TxnOK' /\ DataOK'
         /\ \A q \in P \ {p} : txn'[q] = txn[q] /\ Sees(q)
         /\ Stays(p) => Sees(p)
<1>1. CASE Keeps(p)
  BY <1>1, KeepsKeep DEF Sees, Rows
<1>2. CASE Writes(p)
  BY <1>2, WritesKeep DEF Writes
<1>3. CASE Breaks(p)
  BY <1>3, BreaksKeep DEF Sees, Rows
<1>4. CASE Drops(p)
  <2>1. TxnOK' /\ DataOK' /\ \A q \in P \ {p} : txn'[q] = txn[q] /\ View(q)' = View(q)
    BY <1>4, DropsKeep
  <2>2. ~Stays(p) \/ Keeps(p) \/ Writes(p) \/ Breaks(p)
    BY DEF Stays
  <2> QED
    BY <1>1, <1>2, <1>3, <2>1, <2>2 DEF Sees, Rows
<1> QED
  BY <1>1, <1>2, <1>3, <1>4 DEF Stays

\* What a step of p says of the calls: the others keep theirs, and p's is in order.
Moved(p, next) ==
  /\ at' = [at EXCEPT ![p] = next]
  /\ next \in Calling \/ (next \in Opening /\ txn'[p] = "none")
  /\ outcome' \in [P -> {"none", "ok", "locked", "conflict"}]
  /\ call' \in [P -> Calls] /\ \A q \in P \ {p} : call'[q] = call[q]
  /\ CallOK(p)'

LEMMA MovedKeep ==
  ASSUME TxnOK, DataOK, PlacesOK, CallsOK, NEW p \in P, NEW next,
         Stays(p) \/ Drops(p), Moved(p, next)
  PROVE  TxnOK' /\ DataOK' /\ PlacesOK' /\ CallsOK'
<1>1. TxnOK' /\ DataOK' /\ \A q \in P \ {p} : txn'[q] = txn[q] /\ Sees(q)
  BY StaysOrDrops
<1>2. at' \in [P -> Opening \union Calling] /\ at'[p] = next /\ \A q \in P \ {p} : at'[q] = at[q]
  BY DEF Moved, PlacesOK
<1>3. PlacesOK'
  BY <1>1, <1>2 DEF Moved, PlacesOK, Opening, Calling
<1>4. \A q \in P \ {p} : CallOK(q)'
  BY <1>1, <1>2, OthersKeep DEF Moved, CallsOK
<1>5. CallsOK'
  BY <1>4 DEF Moved, CallsOK
<1> QED
  BY <1>1, <1>3, <1>5

\* The end of a call.
LEMMA NoCallOK ==
  ASSUME CallsOK, PlacesOK, NEW p \in P, NEW next \in {"idle", "closed"},
         NEW how \in {"none", "ok", "locked", "conflict"},
         at' = [at EXCEPT ![p] = next], call' = [call EXCEPT ![p] = NoCall],
         outcome' = [outcome EXCEPT ![p] = how],
         next = "closed" => txn'[p] = "none"
  PROVE  Moved(p, next) /\ at'[p] = next
<1>1. call' \in [P -> Calls] /\ \A q \in P \ {p} : call'[q] = call[q]
  BY NoCallIsCall DEF CallsOK
<1>2. at'[p] = next
  BY DEF PlacesOK
<1>3. CallOK(p)'
  BY <1>2 DEF CallOK
<1>4. outcome' \in [P -> {"none", "ok", "locked", "conflict"}]
  BY DEF PlacesOK
<1>5. next \in Calling \/ (next \in Opening /\ txn'[p] = "none")
  BY DEF Calling, Opening
<1> QED
  BY <1>1, <1>2, <1>3, <1>4, <1>5 DEF Moved

\* Statements that are refused, and those that only read.
LEMMA SelectingKeeps ==
  ASSUME TxnOK, NEW p \in P, Selecting(p)
  PROVE  Keeps(p)
<1>1. CASE txn[p] = "begun"
  BY <1>1 DEF Selecting, Keeps, Transactions
<1>2. CASE txn[p] # "begun"
  BY <1>2 DEF Selecting, Keeps, TxnOK
<1> QED
  BY <1>1, <1>2

LEMMA NothingKeeps ==
  ASSUME TxnOK, NEW p \in P, UNCHANGED <<txn, disk, draft>>
  PROVE  Keeps(p)
<1>1. txn' = [txn EXCEPT ![p] = txn[p]] /\ txn[p] \in Transactions
  BY DEF TxnOK
<1> QED
  BY <1>1 DEF Keeps

LEMMA RefusedStays ==
  ASSUME TxnOK, DataOK, NEW p \in P, NEW d, WriteRefused(p, d), CanWrite(p) => Good(View(p), d)
  PROVE  Stays(p) /\ disk' = disk /\ (draft' = draft \/ (CanWrite(p) /\ draft' = d))
<1>1. CASE ~CanWrite(p)
  <2>1. Keeps(p)
    <3>1. CASE txn[p] = "none"
      BY <1>1, <3>1 DEF WriteRefused, Keeps, Transactions
    <3>2. CASE txn[p] # "none"
      BY <1>1, <3>2 DEF WriteRefused, Keeps, TxnOK
    <3> QED
      BY <3>1, <3>2
  <2> QED
    BY <1>1, <2>1 DEF WriteRefused, Stays
<1>2. CASE CanWrite(p)
  BY <1>2 DEF WriteRefused, Stays, Writes, Holds
<1> QED
  BY <1>1, <1>2

\* AgencyOK needs to look only at what a step does to the agencies.
LEMMA AgencyKeeps ==
  ASSUME AgencyOK, PlacesOK, CallsOK, NEW p \in P, NEW next, Moved(p, next),
         given' = given, overlapped' = overlapped,
         disk'.agencies \in {disk.agencies, draft.agencies},
         draft'.agencies \in {disk.agencies, draft.agencies},
         next = "put_agency" /\ ~overlapped =>
           given[call'[p].listing.agency.no] \subseteq call'[p].agency
  PROVE  AgencyOK'
<1>1. at'[p] = next /\ \A q \in P \ {p} : at'[q] = at[q] /\ call'[q] = call[q]
  BY DEF Moved, PlacesOK
<1> QED
  BY <1>1 DEF AgencyOK

LEMMA ViewAgencies ==
  ASSUME NEW p \in P
  PROVE  View(p) \in {disk, draft}
BY DEF View

-----------------------------------------------------------------------------
LEMMA UpsertKeeps ==
  ASSUME StoreInv, NEW p \in P, NEW l \in Incoming, Upsert(p, l)
  PROVE  StoreInv'
<1> USE DEF StoreInv
<1> DEFINE next == IF l.agency = NoAgency THEN "lookup" ELSE "get_agency"
<1>1. at' = [at EXCEPT ![p] = next] /\ call' = [call EXCEPT ![p].listing = l]
      /\ outcome' = [outcome EXCEPT ![p] = "none"] /\ UNCHANGED <<txn, disk, draft, given, overlapped>>
  BY DEF Upsert
<1>2. Stays(p)
  BY <1>1, NothingKeeps DEF Stays
<1>3. call' \in [P -> Calls] /\ call'[p].listing = l /\ \A q \in P \ {p} : call'[q] = call[q]
  <2>1. l \in Identified
    BY IncomingIdentified
  <2>2. [call[p] EXCEPT !.listing = l] \in Calls /\ [call[p] EXCEPT !.listing = l].listing = l
    BY <2>1 DEF CallsOK, Calls
  <2> HIDE DEF Calls
  <2> QED
    BY <1>1, <2>2 DEF CallsOK
<1>4. at'[p] = next
  BY <1>1 DEF PlacesOK
<1>5. CallOK(p)'
  BY <1>3, <1>4 DEF CallOK
<1>6. Moved(p, next)
  BY <1>1, <1>3, <1>5 DEF Moved, Calling, PlacesOK
<1>7. AgencyOK'
  BY <1>1, <1>6, AgencyKeeps
<1> QED
  BY <1>2, <1>6, <1>7, MovedKeep

LEMMA GetAgencyKeeps ==
  ASSUME StoreInv, NEW p \in P, GetAgency(p)
  PROVE  StoreInv'
<1> USE DEF StoreInv
<1> DEFINE l == call[p].listing
           known == View(p).agencies[l.agency.no]
<1>1. Keeps(p)
  BY SelectingKeeps DEF GetAgency
<1>2. l \in Incoming /\ l.agency # NoAgency /\ l.agency.no \in AgencyNos
  BY AgencyKnown DEF GetAgency, CallsOK, CallOK
<1>3. IsStore(View(p))
  BY ViewIsStore
<1>4. known \in SUBSET AllFields
  BY <1>2, <1>3 DEF IsStore
<1>5. /\ at' = [at EXCEPT ![p] = "put_agency"] /\ call' = [call EXCEPT ![p].agency = known]
      /\ outcome' = outcome /\ disk' = disk /\ draft' = draft
      /\ given' = given /\ overlapped' = overlapped
  BY <1>1 DEF GetAgency, Keeps
<1> HIDE DEF known, l
<1>6. call' \in [P -> Calls] /\ call'[p].agency = known /\ call'[p].listing = l
      /\ \A q \in P \ {p} : call'[q] = call[q]
  <2>1. /\ [call[p] EXCEPT !.agency = known] \in Calls
        /\ [call[p] EXCEPT !.agency = known].agency = known
        /\ [call[p] EXCEPT !.agency = known].listing = l
    BY <1>4 DEF CallsOK, Calls, l
  <2> QED
    BY <1>5, <2>1 DEF CallsOK
<1>7. at'[p] = "put_agency"
  BY <1>5 DEF PlacesOK
<1>8. CallOK(p)'
  BY <1>2, <1>6, <1>7 DEF CallOK
<1>9. Moved(p, "put_agency")
  BY <1>5, <1>6, <1>8 DEF Moved, Calling, PlacesOK
<1>10. ~overlapped => given[l.agency.no] \subseteq known
  BY <1>2, ViewAgencies DEF AgencyOK, known
<1>11. AgencyOK'
  BY <1>5, <1>6, <1>9, <1>10, AgencyKeeps
<1> QED
  BY <1>1, <1>9, <1>11, MovedKeep DEF Stays

LEMMA PutAgencyKeeps ==
  ASSUME StoreInv, NEW p \in P, PutAgency(p)
  PROVE  StoreInv'
<1> USE DEF StoreInv
<1> DEFINE l == call[p].listing
           a == l.agency
           d == WithAgency(p)
<1>1. at[p] = "put_agency" /\ Committing(p, d)
  BY DEF PutAgency
<1>2. Good(View(p), d)
  BY <1>1, WithAgencyGood
<1>3. Stays(p)
  BY <1>1, <1>2 DEF Stays, Writes
<1>4. at' = [at EXCEPT ![p] = "lookup"] /\ call' = call /\ outcome' = outcome
  BY DEF PutAgency
<1>5. at'[p] = "lookup" /\ \A q \in P \ {p} : at'[q] = at[q]
  BY <1>4 DEF PlacesOK
<1>6. CallOK(p)'
  BY <1>1, <1>4, <1>5 DEF CallOK, CallsOK
<1>7. Moved(p, "lookup")
  BY <1>4, <1>6 DEF Moved, Calling, PlacesOK, CallsOK
<1>8. /\ a.no \in AgencyNos
      /\ d.agencies = [View(p).agencies EXCEPT ![a.no] = call[p].agency \union a.fields]
      /\ DOMAIN View(p).agencies = AgencyNos
  BY <1>1, WithAgencyGood, ViewIsStore DEF IsStore
<1>9. disk' = d /\ draft' = d
  BY <1>1 DEF Committing
<1>10. /\ given' = [given EXCEPT ![a.no] = given[a.no] \union a.fields]
       /\ overlapped' = (overlapped \/ \E q \in P \ {p} :
            at[q] = "put_agency" /\ call[q].listing.agency.no = a.no)
  BY DEF PutAgency
<1> HIDE DEF a, d
<1>11. DOMAIN given' = AgencyNos
  BY <1>10 DEF AgencyOK
<1>12. ASSUME ~overlapped', NEW n \in AgencyNos
       PROVE  given'[n] \subseteq disk'.agencies[n] /\ given'[n] \subseteq draft'.agencies[n]
  <2>1. ~overlapped
    BY <1>10, <1>12
  <2>2. given[n] \subseteq View(p).agencies[n]
    BY <2>1, ViewAgencies DEF AgencyOK
  <2>3. given[a.no] \subseteq call[p].agency
    BY <1>1, <2>1 DEF AgencyOK, a
  <2>4. given'[n] = IF n = a.no THEN given[n] \union a.fields ELSE given[n]
    BY <1>10 DEF AgencyOK
  <2>5. d.agencies[n] = IF n = a.no THEN call[p].agency \union a.fields ELSE View(p).agencies[n]
    BY <1>8
  <2> QED
    BY <1>9, <2>2, <2>3, <2>4, <2>5
<1>13. ASSUME ~overlapped', NEW q \in P, at'[q] = "put_agency"
       PROVE  given'[call'[q].listing.agency.no] \subseteq call'[q].agency
  <2>1. ~overlapped
    BY <1>10, <1>13
  <2>2. q # p /\ at[q] = "put_agency"
    BY <1>5, <1>13
  <2>3. call[q].listing.agency.no # a.no
    BY <1>10, <1>13, <2>2
  <2>4. call[q].listing.agency.no \in AgencyNos
    BY <2>2, AgencyKnown DEF CallsOK, CallOK
  <2>5. given'[call[q].listing.agency.no] = given[call[q].listing.agency.no]
    BY <1>10, <2>3, <2>4 DEF AgencyOK
  <2> QED
    BY <1>4, <2>1, <2>2, <2>5 DEF AgencyOK
<1>14. AgencyOK'
  BY <1>11, <1>12, <1>13 DEF AgencyOK
<1> QED
  BY <1>3, <1>7, <1>14, MovedKeep

LEMMA LookupKeeps ==
  ASSUME StoreInv, NEW p \in P, Lookup(p)
  PROVE  StoreInv'
<1> USE DEF StoreInv
<1> DEFINE v == View(p)
           l == call[p].listing
<1>1. Keeps(p)
  BY SelectingKeeps DEF Lookup
<1>2. l \in Incoming /\ l \in Identified
  BY IncomingIdentified DEF Lookup, CallsOK, CallOK
<1>3. IsStore(v) /\ v' = v
  BY <1>1, ViewIsStore, KeepsKeep
<1>4. disk' = disk /\ draft' = draft /\ given' = given /\ overlapped' = overlapped /\ outcome' = outcome
  BY <1>1 DEF Lookup, Keeps
<1>5. CASE at' = [at EXCEPT ![p] = "insert"] /\ UNCHANGED call
  <2>1. at'[p] = "insert"
    BY <1>5 DEF PlacesOK
  <2>2. CallOK(p)'
    BY <1>2, <1>5, <2>1 DEF CallOK
  <2>3. Moved(p, "insert")
    BY <1>4, <1>5, <2>2 DEF Moved, Calling, PlacesOK, CallsOK
  <2>4. AgencyOK'
    BY <1>4, <2>3, AgencyKeeps
  <2> QED
    BY <1>1, <2>3, <2>4, MovedKeep DEF Stays
<1>6. ASSUME NEW i \in Matches(v, l), at' = [at EXCEPT ![p] = "update"],
             call' = [call EXCEPT ![p].row = i, ![p].read = v.rows[i],
                        ![p].listing = MergeListing(Deserialize(v.rows[i]), @)]
      PROVE  StoreInv'
  <2> DEFINE m == MergeListing(Deserialize(v.rows[i]), l)
             c == [[[call[p] EXCEPT !.row = i] EXCEPT !.read = v.rows[i]] EXCEPT !.listing = m]
  <2>1. i \in Rows(v) /\ i \in IDs /\ v.rows[i] \in RowSet
        /\ (v.rows[i].key = l.key \/ v.rows[i].url = l.url)
    BY <1>3, <1>6, RowsAreRows DEF Matches
  <2>2. m \in Identified
    BY <1>2, <2>1, DeserializedRow, MergedListing
  <2>3. call' = [call EXCEPT ![p] = c]
    BY <1>6 DEF CallsOK, Calls
  <2> HIDE DEF m
  <2>4. c \in Calls /\ c.row = i /\ c.read = v.rows[i] /\ c.listing = m
    BY <2>1, <2>2 DEF CallsOK, Calls
  <2> HIDE DEF c
  <2>5. call' \in [P -> Calls] /\ call'[p] = c /\ \A q \in P \ {p} : call'[q] = call[q]
    BY <2>3, <2>4 DEF CallsOK
  <2>6. at'[p] = "update"
    BY <1>6 DEF PlacesOK
  <2>7. Found(p)'
    <3>1. call'[p].row \in Rows(v') /\ call'[p].read \in RowSet
      BY <1>3, <2>1, <2>4, <2>5
    <3>2. call'[p].listing = MergeListing(Deserialize(call'[p].read), l)
      BY <2>4, <2>5 DEF m
    <3>3. l.key = call'[p].read.key \/ l.url = call'[p].read.url
      BY <2>1, <2>4, <2>5
    <3> QED
      BY <1>2, <3>1, <3>2, <3>3 DEF Found
  <2>8. CallOK(p)'
    BY <2>6, <2>7 DEF CallOK
  <2>9. Moved(p, "update")
    BY <1>4, <1>6, <2>5, <2>8 DEF Moved, Calling, PlacesOK
  <2>10. AgencyOK'
    BY <1>4, <2>9, AgencyKeeps
  <2> QED
    BY <1>1, <2>9, <2>10, MovedKeep DEF Stays
<1> QED
  BY <1>5, <1>6 DEF Lookup

LEMMA PutListingKeeps ==
  ASSUME StoreInv, NEW p \in P, PutListing(p)
  PROVE  StoreInv'
<1> USE DEF StoreInv
<1>1. at[p] \in {"insert", "update"} /\ Writable(p) /\ Committing(p, NewRows(p)) /\ Ends(p, "ok")
  BY DEF PutListing
<1>2. Good(View(p), NewRows(p)) /\ NewRows(p).agencies = View(p).agencies
  BY <1>1, NewRowsGood
<1>3. Stays(p)
  BY <1>1, <1>2 DEF Stays, Writes
<1>4. Moved(p, "idle")
  BY <1>1, NoCallOK DEF Ends
<1>5. AgencyOK'
  <2>1. disk' = NewRows(p) /\ draft' = NewRows(p)
    BY <1>1 DEF Committing
  <2>2. disk'.agencies \in {disk.agencies, draft.agencies} /\ draft'.agencies \in {disk.agencies, draft.agencies}
    BY <1>2, <2>1, ViewAgencies
  <2> QED
    BY <1>4, <2>2, AgencyKeeps DEF PutListing
<1> QED
  BY <1>3, <1>4, <1>5, MovedKeep

LEMMA ListingConflictKeeps ==
  ASSUME StoreInv, NEW p \in P, ListingConflict(p)
  PROVE  StoreInv'
<1> USE DEF StoreInv
<1>1. Breaks(p)
  BY DEF ListingConflict, Conflicting, Breaks
<1>2. Moved(p, "idle")
  BY NoCallOK DEF ListingConflict, Ends
<1>3. disk' = disk /\ draft' \in {disk, draft}
  BY <1>1, ViewAgencies DEF Breaks
<1>4. AgencyOK'
  BY <1>2, <1>3, AgencyKeeps DEF ListingConflict
<1> QED
  BY <1>1, <1>2, <1>4, MovedKeep DEF Stays

LEMMA UpsertRefusedKeeps ==
  ASSUME StoreInv, NEW p \in P, UpsertRefused(p)
  PROVE  StoreInv'
<1> USE DEF StoreInv
<1>1. Moved(p, "idle") /\ at'[p] = "idle" /\ given' = given /\ overlapped' = overlapped
  BY NoCallOK DEF UpsertRefused, Ends
<1>2. CASE ReadRefused(p)
  <2>1. Keeps(p) /\ disk' = disk /\ draft' = draft
    BY <1>2, NothingKeeps DEF ReadRefused
  <2>2. AgencyOK'
    BY <1>1, <2>1, AgencyKeeps
  <2> QED
    BY <1>1, <2>1, <2>2, MovedKeep DEF Stays
<1>3. CASE at[p] = "put_agency" /\ WriteRefused(p, WithAgency(p))
  <2> DEFINE a == call[p].listing.agency
             d == WithAgency(p)
  <2>1. Good(View(p), d)
    BY <1>3, WithAgencyGood
  <2>2. Stays(p) /\ disk' = disk /\ draft' \in {draft, d}
    BY <1>3, <2>1, RefusedStays
  <2>3. /\ a.no \in AgencyNos
        /\ d.agencies = [View(p).agencies EXCEPT ![a.no] = call[p].agency \union a.fields]
        /\ DOMAIN View(p).agencies = AgencyNos
    BY <1>3, WithAgencyGood, ViewIsStore DEF IsStore
  <2> HIDE DEF d, a
  <2>4. ASSUME ~overlapped, NEW n \in AgencyNos PROVE given[n] \subseteq d.agencies[n]
    <3>1. given[n] \subseteq View(p).agencies[n]
      BY <2>4, ViewAgencies DEF AgencyOK
    <3>2. given[a.no] \subseteq call[p].agency
      BY <1>3, <2>4 DEF AgencyOK, a
    <3> QED
      BY <2>3, <3>1, <3>2
  <2>5. \A q \in P \ {p} : at'[q] = at[q] /\ call'[q] = call[q]
    BY <1>1 DEF Moved, PlacesOK
  <2>6. AgencyOK'
    BY <1>1, <2>2, <2>4, <2>5 DEF AgencyOK
  <2> QED
    BY <1>1, <2>2, <2>6, MovedKeep
<1>4. CASE at[p] \in {"insert", "update"} /\ Writable(p) /\ WriteRefused(p, NewRows(p))
  <2>1. Good(View(p), NewRows(p)) /\ NewRows(p).agencies = View(p).agencies
    BY <1>4, NewRowsGood
  <2>2. Stays(p) /\ disk' = disk /\ draft' \in {draft, NewRows(p)}
    BY <1>4, <2>1, RefusedStays
  <2>3. draft'.agencies \in {disk.agencies, draft.agencies}
    BY <2>1, <2>2, ViewAgencies
  <2>4. AgencyOK'
    BY <1>1, <2>2, <2>3, AgencyKeeps
  <2> QED
    BY <1>1, <2>2, <2>4, MovedKeep
<1>5. CASE ~CanWrite(p) /\ WriteRefused(p, disk)
  <2>1. Stays(p) /\ disk' = disk /\ draft' = draft
    BY <1>5, RefusedStays
  <2>2. AgencyOK'
    BY <1>1, <2>1, AgencyKeeps
  <2> QED
    BY <1>1, <2>1, <2>2, MovedKeep
<1> QED
  BY <1>2, <1>3, <1>4, <1>5 DEF UpsertRefused

LEMMA WriteKeeps ==
  ASSUME StoreInv, NEW p \in P, Write(p)
  PROVE  StoreInv'
<1> USE DEF StoreInv
<1>1. PICK d \in Results(View(p)) : Committing(p, d)
  BY DEF Write
<1>2. Good(View(p), d) /\ d.agencies = View(p).agencies
  BY ResultsGood, ViewIsStore
<1>3. Stays(p)
  BY <1>1, <1>2 DEF Stays, Writes
<1>4. Moved(p, "idle")
  BY NoCallOK DEF Write, Ends
<1>5. AgencyOK'
  <2>1. disk' = d /\ draft' = d
    BY <1>1 DEF Committing
  <2>2. disk'.agencies \in {disk.agencies, draft.agencies} /\ draft'.agencies \in {disk.agencies, draft.agencies}
    BY <1>2, <2>1, ViewAgencies
  <2> QED
    BY <1>4, <2>2, AgencyKeeps DEF Write
<1> QED
  BY <1>3, <1>4, <1>5, MovedKeep

LEMMA CallRefusedKeeps ==
  ASSUME StoreInv, NEW p \in P, CallRefused(p)
  PROVE  StoreInv'
<1> USE DEF StoreInv
<1>1. Moved(p, "idle") /\ given' = given /\ overlapped' = overlapped
  BY NoCallOK DEF CallRefused, Ends
<1>2. CASE ReadRefused(p)
  <2>1. Keeps(p) /\ disk' = disk /\ draft' = draft
    BY <1>2, NothingKeeps DEF ReadRefused
  <2>2. AgencyOK'
    BY <1>1, <2>1, AgencyKeeps
  <2> QED
    BY <1>1, <2>1, <2>2, MovedKeep DEF Stays
<1>3. ASSUME NEW d \in Results(View(p)), WriteRefused(p, d) PROVE StoreInv'
  <2>1. Good(View(p), d) /\ d.agencies = View(p).agencies
    BY ResultsGood, ViewIsStore
  <2>2. Stays(p) /\ disk' = disk /\ draft' \in {draft, d}
    BY <1>3, <2>1, RefusedStays
  <2>3. draft'.agencies \in {disk.agencies, draft.agencies}
    BY <2>1, <2>2, ViewAgencies
  <2>4. AgencyOK'
    BY <1>1, <2>2, <2>3, AgencyKeeps
  <2> QED
    BY <1>1, <2>2, <2>4, MovedKeep
<1> QED
  BY <1>2, <1>3 DEF CallRefused

LEMMA ReadKeeps ==
  ASSUME StoreInv, NEW p \in P, Read(p)
  PROVE  StoreInv'
<1> USE DEF StoreInv
<1>1. Keeps(p)
  BY SelectingKeeps DEF Read
<1>2. at' = [at EXCEPT ![p] = "idle"] /\ UNCHANGED <<at, call, outcome, given, overlapped>>
  BY DEF Read, PlacesOK
<1>3. CallOK(p)'
  BY <1>2 DEF Read, CallOK
<1>4. Moved(p, "idle")
  BY <1>2, <1>3 DEF Moved, Calling, CallsOK, PlacesOK
<1>5. AgencyOK'
  BY <1>1, <1>2, <1>4, AgencyKeeps DEF Keeps
<1> QED
  BY <1>1, <1>4, <1>5, MovedKeep DEF Stays

LEMMA CloseKeeps ==
  ASSUME StoreInv, NEW p \in P, Close(p)
  PROVE  StoreInv'
<1> USE DEF StoreInv
<1>1. Drops(p)
  BY DEF Close, Leave, Drops
<1>2. txn'[p] = "none"
  BY DEF Close, Leave, TxnOK
<1>3. Moved(p, "closed")
  BY <1>2, NoCallOK DEF Close, Leave
<1>4. AgencyOK'
  BY <1>1, <1>3, AgencyKeeps DEF Close, Drops
<1> QED
  BY <1>1, <1>3, <1>4, MovedKeep

LEMMA OpenKeeps ==
  ASSUME StoreInv, NEW p \in P, Open(p)
  PROVE  StoreInv'
<1> USE DEF StoreInv
<1>1. UNCHANGED <<disk, draft, call, outcome, given, overlapped>> /\ at[p] \in Opening
  BY DEF Open, OpeningNext, Connect, CreateTable, ScriptDone, ReadVersion, Stamp, Inspect,
         AddColumn, DuplicateColumn, OpeningRefused, Opening
<1>2. txn[p] = "none"
  BY <1>1 DEF PlacesOK
<1>3. txn' = txn
  <2>1. CASE Leave(p)
    BY <1>2, <2>1 DEF Leave, TxnOK
  <2>2. CASE ~Leave(p)
    BY <2>2 DEF Open, OpeningNext, Connect, CreateTable, ScriptDone, ReadVersion, Stamp, Inspect,
         AddColumn, DuplicateColumn, OpeningRefused, GoTo
  <2> QED
    BY <2>1, <2>2
<1>4. \E next \in Opening \union {"idle"} : at' = [at EXCEPT ![p] = next]
  <2>1. at = [at EXCEPT ![p] = at[p]]
    BY DEF PlacesOK
  <2> QED
    BY <1>1, <2>1 DEF Open, OpeningNext, Connect, CreateTable, ScriptDone, ReadVersion, Stamp, Inspect,
         AddColumn, DuplicateColumn, OpeningRefused, GoTo, Leave, Opening
<1>5. PICK next \in Opening \union {"idle"} : at' = [at EXCEPT ![p] = next]
  BY <1>4
<1>6. at'[p] = next
  BY <1>5 DEF PlacesOK
<1>7. CallOK(p)'
  BY <1>6 DEF CallOK, Opening
<1>8. txn'[p] = "none"
  BY <1>2, <1>3
<1>9. Moved(p, next)
  BY <1>1, <1>5, <1>7, <1>8 DEF Moved, PlacesOK, CallsOK, Calling
<1>10. Stays(p)
  BY <1>1, <1>3, NothingKeeps DEF Stays
<1>11. AgencyOK'
  BY <1>1, <1>5, <1>9, AgencyKeeps DEF Opening
<1> QED
  BY <1>9, <1>10, <1>11, MovedKeep

LEMMA StoreInvKept == StoreInv /\ [Next]_vars => StoreInv'
<1> SUFFICES ASSUME StoreInv, [Next]_vars PROVE StoreInv'
  OBVIOUS
<1>1. CASE UNCHANGED vars
  BY <1>1 DEF vars, openingVars, StoreInv, TxnOK, DataOK, PlacesOK, CallsOK, AgencyOK, Writers,
              IsStore, UniqueRows, Rows, CallOK, Found, View
<1>2. CASE Next
  BY <1>2, OpenKeeps, UpsertKeeps, GetAgencyKeeps, PutAgencyKeeps, LookupKeeps, PutListingKeeps,
     ListingConflictKeeps, UpsertRefusedKeeps, WriteKeeps, CallRefusedKeeps, ReadKeeps, CloseKeeps
     DEF Next
<1> QED
  BY <1>1, <1>2

-----------------------------------------------------------------------------
\* A file as a release left it, or an empty one, is a store.
LEMMA DataOfStore ==
  ASSUME NEW stored, stored \in {{}, Backlog}
  PROVE  LET d == DataOf(stored) IN
         /\ IsStore(d) /\ UniqueRows(d)
         /\ KnownIn(d) = {[id |-> l.id, key |-> l.key, url |-> l.url] : l \in stored}
         /\ d.feedback = [i \in IDs |-> "none"] /\ d.searches = 0 /\ d.recommended = {}
         /\ DeserializeCacheValue(d.meta) = Unset
<1> DEFINE d == DataOf(stored)
           L(i) == CHOOSE l \in stored : l.id = i
           Has(i) == \E l \in stored : l.id = i
<1>1. \A i : Has(i) => L(i) \in stored /\ L(i).id = i /\ L(i) \in Identified
  BY IncomingIdentified
<1>2. /\ DOMAIN d = StoreFields
      /\ d.rows = [i \in IDs |-> IF Has(i) THEN Serialize(L(i)) ELSE NoRow]
      /\ d.agencies = [n \in AgencyNos |-> {}] /\ d.feedback = [i \in IDs |-> "none"]
      /\ d.searches = 0 /\ d.recommended = {} /\ d.meta = [t |-> "unset", v |-> 0]
  BY DEF DataOf, StoreFields
<1> HIDE DEF d, L
<1>3. \A i \in IDs : Has(i) => /\ d.rows[i] \in RowSet
                               /\ d.rows[i].key = L(i).key /\ d.rows[i].url = L(i).url
  BY <1>1, <1>2, SerializedRow
<1>4. \A i \in IDs : ~Has(i) => d.rows[i] = NoRow
  BY <1>2
<1>5. Rows(d) = {i \in IDs : Has(i)}
  BY <1>3, <1>4, NoRowIsNone DEF Rows
<1>6. IsStore(d)
  <2>1. d.rows \in [IDs -> RowSet \union {NoRow}]
    BY <1>2, <1>3, <1>4
  <2> QED
    BY <1>2, <2>1 DEF IsStore, MetaSet
<1>7. \A a, b \in stored : a.id = b.id \/ a.key = b.key \/ a.url = b.url => a = b
  BY StoreAssumption
<1>8. UniqueRows(d)
  <2> SUFFICES ASSUME NEW i \in Rows(d), NEW j \in Rows(d),
                      d.rows[i].key = d.rows[j].key \/ d.rows[i].url = d.rows[j].url
               PROVE  i = j
    BY DEF UniqueRows
  <2>1. L(i) = L(j)
    BY <1>1, <1>3, <1>5, <1>7
  <2> QED
    BY <1>1, <1>5, <2>1
<1>9. KnownIn(d) = {[id |-> l.id, key |-> l.key, url |-> l.url] : l \in stored}
  <2>1. \A i \in Rows(d) :
          L(i) \in stored /\ Property(d, i) = [id |-> L(i).id, key |-> L(i).key, url |-> L(i).url]
    BY <1>1, <1>3, <1>5 DEF Property
  <2>2. \A l \in stored : l.id \in Rows(d) /\ L(l.id) = l
    BY <1>1, <1>5, <1>7, StoreAssumption
  <2> QED
    BY <2>1, <2>2 DEF KnownIn
<1> QED
  BY <1>2, <1>6, <1>8, <1>9 DEF d, DeserializeCacheValue, Unset

LEMMA StoreInvInitially == Init => StoreInv
<1> SUFFICES ASSUME Init PROVE StoreInv
  OBVIOUS
<1>1. PICK stored \in {{}, Backlog} : disk = DataOf(stored) /\ draft = disk /\ given = disk.agencies
  BY DEF Init
<1>2. /\ txn = [p \in P |-> "none"] /\ at = [p \in P |-> "closed"] /\ call = [p \in P |-> NoCall]
      /\ outcome = [p \in P |-> "none"]
  BY DEF Init, OpeningInit
<1>3. IsStore(disk) /\ UniqueRows(disk)
  BY <1>1, DataOfStore
<1>4. TxnOK
  BY <1>2 DEF TxnOK, Writers, Transactions
<1>5. DataOK
  BY <1>1, <1>3 DEF DataOK
<1>6. PlacesOK
  BY <1>2 DEF PlacesOK, Opening
<1>7. CallsOK
  BY <1>2, NoCallIsCall DEF CallsOK, CallOK
<1>8. AgencyOK
  BY <1>1, <1>2, <1>3 DEF AgencyOK, IsStore
<1> QED
  BY <1>4, <1>5, <1>6, <1>7, <1>8 DEF StoreInv

\* AgencyLossNeedsOverlap: MergeAgency and the single commit of upsert_agency
\* forget nothing a caller was told is stored, unless another process wrote the
\* same agency between the read and the write of it.
THEOREM AgencyKept == Spec => []AgencyLossNeedsOverlap
<1>1. StoreInv => AgencyLossNeedsOverlap
  BY DEF StoreInv, AgencyOK, AgencyLossNeedsOverlap
<1> QED
  BY <1>1, StoreInvInitially, StoreInvKept, PTL DEF Spec

-----------------------------------------------------------------------------
(* The types.                                                               *)

TodoOK == todo \in [P -> SUBSET AllColumns]

LEMMA TodoKept == TodoOK /\ [Next]_vars => TodoOK'
<1> SUFFICES ASSUME TodoOK, [Next]_vars PROVE TodoOK'
  OBVIOUS
<1>1. CASE todo' = todo
  BY <1>1 DEF TodoOK
<1>2. ASSUME NEW p \in P, NEW columns \in SUBSET AllColumns, todo' = [todo EXCEPT ![p] = columns]
      PROVE  TodoOK'
  BY <1>2 DEF TodoOK
<1>3. ASSUME NEW p \in P, Open(p) PROVE TodoOK'
  <2>1. CASE Inspect(p)
    BY <1>2, <2>1 DEF Inspect, AllColumns
  <2>2. CASE AddColumn(p)
    BY <1>2, <2>2 DEF AddColumn, TodoOK
  <2>3. CASE Leave(p)
    BY <1>2, <2>3 DEF Leave
  <2>4. CASE todo' = todo
    BY <1>1, <2>4
  <2> QED
    BY <1>3, <2>1, <2>2, <2>3, <2>4
       DEF Open, OpeningNext, Connect, CreateTable, ScriptDone, ReadVersion, Stamp, DuplicateColumn,
           OpeningRefused
<1>4. ASSUME NEW p \in P,
             \/ \E l \in Incoming : Upsert(p, l)
             \/ GetAgency(p) \/ PutAgency(p) \/ Lookup(p)
             \/ PutListing(p) \/ ListingConflict(p) \/ UpsertRefused(p)
             \/ Write(p) \/ CallRefused(p) \/ Read(p) \/ Close(p)
      PROVE  TodoOK'
  BY <1>1, <1>2, <1>4, StoreStepsUse DEF Uses
<1> QED
  BY <1>1, <1>3, <1>4 DEF Next, vars, openingVars

\* TypeOK: at most one connection has anything uncommitted, and one that is not
\* open keeps no lock.
THEOREM StoreTypes == Spec => []TypeOK
<1>1. Init => TodoOK
  BY DEF Init, OpeningInit, TodoOK
<1>2. ASSUME StoreInv, OpenInv, TodoOK PROVE TypeOK
  <2>1. Cardinality(Writers) <= 1
    <3>1. CASE Writers = {}
      BY <3>1, FS_EmptySet
    <3>2. ASSUME NEW p \in Writers PROVE Cardinality(Writers) <= 1
      <4>1. Writers = {p}
        BY <1>2 DEF StoreInv, TxnOK
      <4>2. Cardinality({p}) = 1
        BY FS_Singleton
      <4> HIDE DEF Writers
      <4> QED
        BY <4>1, <4>2
    <3> QED
      BY <3>1, <3>2
  <2>2. OpeningTypeOK
    BY <1>2, <2>1
       DEF OpenInv, SchemaKnown, TodoOK, AllTables, AllColumns, StoreInv, TxnOK, OpeningTypeOK, Writers
  <2>3. (\A p \in P : txn[p] \notin {"writing", "pending"}) => draft = disk
    BY <1>2 DEF StoreInv, DataOK
  <2> QED
    BY <1>2, <2>2, <2>3 DEF StoreInv, PlacesOK, TypeOK
<1> QED
  BY <1>1, <1>2, StoreInvInitially, StoreInvKept, OpenInvInitially, OpenInvKept, TodoKept,
     PTL DEF Spec

-----------------------------------------------------------------------------
(* What a step does to what is committed.                                   *)

\* A listing's row or the result of one statement is written over what is
\* committed; nothing else changes it but a late commit.
Commits(p) ==
  /\ at[p] \in {"insert", "update"} => at'[p] = "idle"
  /\ \/ /\ at[p] \in {"insert", "update"} /\ Writable(p) /\ disk' = NewRows(p)
     \/ /\ at[p] = "put_agency" /\ disk' = WithAgency(p)
     \/ /\ at[p] = "idle" /\ disk' \in Results(disk)

LEMMA DiskChanges ==
  ASSUME StoreInv, [Next]_vars, disk' # disk, ~LateCommit
  PROVE  \E p \in P : Commits(p) /\ View(p) = disk
<1> USE DEF StoreInv
<1>1. ~UNCHANGED vars /\ Next
  BY DEF vars
<1>2. PICK p \in P : PutAgency(p) \/ PutListing(p) \/ Write(p)
  <2>1. \A p \in P :
          ~(\/ Open(p) \/ (\E l \in Incoming : Upsert(p, l)) \/ GetAgency(p) \/ Lookup(p)
            \/ ListingConflict(p) \/ UpsertRefused(p) \/ CallRefused(p) \/ Read(p) \/ Close(p))
    BY DEF Open, Upsert, GetAgency, Lookup, Selecting, ListingConflict, Conflicting, UpsertRefused,
           WriteRefused, ReadRefused, CallRefused, Read, Close
  <2> QED
    BY <1>1, <2>1 DEF Next
<1>3. txn'[p] = "none"
  BY <1>2 DEF PutAgency, PutListing, Write, Committing, TxnOK
<1>4. txn[p] # "pending"
  BY <1>3 DEF LateCommit
<1>5. View(p) = disk
  BY <1>4, ViewIsStore
<1>6. at[p] \in {"insert", "update"} => at'[p] = "idle"
  BY <1>2 DEF PutAgency, PutListing, Write, Begins, Ends, PlacesOK
<1>7. CASE PutAgency(p)
  BY <1>5, <1>6, <1>7 DEF PutAgency, Committing, Commits
<1>8. CASE PutListing(p)
  BY <1>5, <1>6, <1>8 DEF PutListing, Committing, Commits
<1>9. CASE Write(p)
  BY <1>5, <1>6, <1>9 DEF Write, Begins, Committing, Commits
<1> QED
  BY <1>2, <1>5, <1>7, <1>8, <1>9

\* IdentityMovesByRace: a row that was found under a key or URL and updated
\* keeps one of the two, unless it changed after it was looked up.
THEOREM IdentityKeptUnlessRaced == Spec => IdentityMovesByRace
<1> DEFINE Moves1 == [\A i \in Rows(disk) :
       \/ disk.rows[i].key = disk'.rows[i].key \/ disk.rows[i].url = disk'.rows[i].url
       \/ \E p \in P : /\ at[p] = "update" /\ at'[p] = "idle"
                       /\ call[p].read # View(p).rows[call[p].row]
       \/ LateCommit]_disk
<1>1. ASSUME StoreInv, [Next]_vars PROVE Moves1
  <2> USE <1>1 DEF StoreInv
  <2> SUFFICES ASSUME disk' # disk, ~LateCommit, NEW j \in Rows(disk)
               PROVE  \/ disk.rows[j].key = disk'.rows[j].key \/ disk.rows[j].url = disk'.rows[j].url
                      \/ \E p \in P : /\ at[p] = "update" /\ at'[p] = "idle"
                                      /\ call[p].read # View(p).rows[call[p].row]
    OBVIOUS
  <2>1. PICK p \in P : Commits(p) /\ View(p) = disk
    BY <1>1, DiskChanges
  <2>2. IsStore(disk) /\ UniqueRows(disk)
    BY DEF DataOK
  <2>3. CASE at[p] \in {"insert", "update"} /\ Writable(p) /\ disk' = NewRows(p)
    <3>1. PICK i \in IDs, r \in RowSet :
            /\ disk' = PutRow(disk, i, r)
            /\ at[p] = "insert" => i \notin Rows(disk)
            /\ at[p] = "update" => SameOrRaced(p, disk, i, r)
      BY <2>1, <2>3, NewRowsPut
    <3>2. disk'.rows = [disk.rows EXCEPT ![i] = r] /\ DOMAIN disk.rows = IDs
      BY <2>2, <3>1, PutRowFields DEF IsStore
    <3>3. CASE j # i
      BY <3>2, <3>3 DEF Rows
    <3>4. CASE j = i
      <4>1. at[p] = "update" /\ at'[p] = "idle" /\ disk'.rows[j] = r
        BY <2>1, <2>3, <3>1, <3>2, <3>4 DEF Commits
      <4> QED
        BY <2>1, <3>1, <3>4, <4>1 DEF SameOrRaced
    <3> QED
      BY <3>3, <3>4
  <2>4. CASE at[p] = "put_agency" /\ disk' = WithAgency(p)
    BY <2>1, <2>4, WithAgencyGood
  <2>5. CASE disk' \in Results(disk)
    BY <2>2, <2>5, ResultsGood
  <2> QED
    BY <2>1, <2>3, <2>4, <2>5 DEF Commits
<1>2. StoreInv /\ [Next]_vars => Moves1
  BY <1>1
<1> QED
  BY <1>2, StoreInvInitially, StoreInvKept, PTL DEF Spec, IdentityMovesByRace

\* KeepsContract: whatever the processes do to each other, the store changes
\* only as BaseDataStore promises (StoreContract), but for a late commit.
THEOREM StoreKeepsContract == Spec => KeepsContract
<1>1. Init => Contract!Init
  <2> SUFFICES ASSUME Init PROVE Contract!Init
    OBVIOUS
  <2>1. PICK stored \in {{}, Backlog} : disk = DataOf(stored)
    BY DEF Init
  <2> QED
    BY <2>1, DataOfStore DEF Contract!Init, StoredProperties, KnownIn, Property
<1>2. ASSUME StoreInv, [Next]_vars
      PROVE  [Contract!Next \/ LateCommit]_(Contract!vars)
  <2> USE <1>2 DEF StoreInv
  <2>1. StoredProperties = KnownIn(disk) /\ StoredProperties' = KnownIn(disk')
    BY DEF StoredProperties, KnownIn, Property
  <2>2. CASE disk' = disk
    BY <2>1, <2>2 DEF Contract!vars
  <2>3. ASSUME disk' # disk, ~LateCommit
        PROVE  Contract!Next \/ UNCHANGED Contract!vars
    <3>1. PICK p \in P : Commits(p) /\ View(p) = disk
      BY <1>2, <2>3, DiskChanges
    <3>2. IsStore(disk) /\ UniqueRows(disk)
      BY DEF DataOK
    <3>3. CASE at[p] \in {"insert", "update"} /\ Writable(p) /\ disk' = NewRows(p)
      <4>1. PICK i \in IDs, r \in RowSet : disk' = PutRow(disk, i, r) /\ Fits(disk, i, r)
        BY <3>1, <3>3, NewRowsPut
      <4> DEFINE new == [id |-> i, key |-> r.key, url |-> r.url]
      <4>2. /\ disk'.feedback = disk.feedback /\ disk'.searches = disk.searches
            /\ disk'.recommended = disk.recommended /\ disk'.meta = disk.meta
        BY <3>2, <4>1, PutRowFields
      <4>3. Contract!Distinct(KnownIn(disk'))
        BY <3>2, <4>1, PutRowUnique, KnownDistinct
      <4>4. KnownIn(disk') = IF i \in Rows(disk) THEN (KnownIn(disk) \ {Property(disk, i)}) \union {new}
                             ELSE KnownIn(disk) \union {new}
        BY <3>2, <4>1, PutRowKnown
      <4>5. new \in [id : IDs, key : {l.key : l \in Incoming \union Backlog},
                     url : {l.url : l \in Incoming \union Backlog}]
        BY DEF RowSet, AllKeys, AllUrls, Sources
      <4>6. CASE i \in Rows(disk)
        <5>1. Property(disk, i) \in KnownIn(disk) /\ Property(disk, i).id = new.id
          BY <4>6 DEF KnownIn, Property
        <5>2. Contract!UpsertKnown
          BY <2>1, <4>2, <4>3, <4>4, <4>5, <4>6, <5>1 DEF Contract!UpsertKnown
        <5> QED
          BY <5>2 DEF Contract!Next
      <4>7. CASE i \notin Rows(disk)
        <5>1. new \notin KnownIn(disk)
          BY <4>7, KnownIDs
        <5>2. Contract!UpsertNew
          BY <2>1, <4>2, <4>3, <4>4, <4>5, <4>7, <5>1 DEF Contract!UpsertNew
        <5> QED
          BY <5>2 DEF Contract!Next
      <4> QED
        BY <4>6, <4>7
    <3>4. CASE at[p] = "put_agency" /\ disk' = WithAgency(p)
      <4>1. /\ disk'.rows = disk.rows /\ disk'.feedback = disk.feedback
            /\ disk'.searches = disk.searches /\ disk'.recommended = disk.recommended
            /\ disk'.meta = disk.meta
        BY <3>1, <3>4, WithAgencyGood
      <4>2. KnownIn(disk') = KnownIn(disk)
        BY <4>1 DEF KnownIn, Rows, Property
      <4> QED
        BY <2>1, <4>1, <4>2 DEF Contract!vars
    <3>5. CASE disk' \in Results(disk)
      <4>1. disk'.rows = disk.rows /\ Recorded(disk, disk')
        BY <3>2, <3>5, ResultsGood
      <4>2. StoredProperties' = StoredProperties
        BY <2>1, <4>1 DEF KnownIn, Rows, Property
      <4>3. \A v \in CacheValues : DeserializeCacheValue(SerializeCacheValue(v)) = v
        BY StoreAssumption DEF DeserializeCacheValue, SerializeCacheValue
      <4> QED
        BY <4>1, <4>2, <4>3
           DEF Recorded, Contract!Next, Contract!Decide, Contract!RecordSearch,
               Contract!RecordRecommendation, Contract!SetCacheMeta, Contract!Decisions
    <3> QED
      BY <3>1, <3>3, <3>4, <3>5 DEF Commits
  <2> QED
    BY <2>2, <2>3
<1>3. StoreInv /\ [Next]_vars => [Contract!Next \/ LateCommit]_(Contract!vars)
  BY <1>2
<1> QED
  BY <1>1, <1>3, StoreInvInitially, StoreInvKept, PTL DEF Spec, KeepsContract
===============================================================================
