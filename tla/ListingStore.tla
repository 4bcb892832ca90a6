----------------------------- MODULE ListingStore ------------------------------
(***************************************************************************)
(* SqliteStore as several processes use it on one file: upsert_listing in  *)
(* its separate statements (read the agency, write it, look the listing    *)
(* up, write it), the other writes in one statement each, and what each    *)
(* connection leaves locked when a statement fails.  The processes open    *)
(* the file as in SchemaOpening.                                           *)
(*                                                                         *)
(* `disk` is what is committed, `draft` what the one connection that may   *)
(* be writing sees.  A listing is its ID, key, URL, whether its detail is  *)
(* complete, and its agency: a number and the fields known of it.          *)
(***************************************************************************)
EXTENDS SchemaOpening, TLC

CONSTANTS
  IDs, Incoming,  \* internal IDs, and the listings that callers pass
  Backlog,        \* the listings of an old file, with different IDs and no agency
  CacheValues,    \* values for a cache_meta key: [type, value]
  MaxOps          \* bound: calls made in all

Unset == [type |-> "unset", value |-> 0]
NoRow == [key |-> "none"]
NoAgency == [no |-> "none", fields |-> {}]

\* Callers pass listings with an ID and, if any, an agency with a number; an old
\* file has one row for each key and URL.
ASSUME StoreAssumption ==
  /\ \A l \in Incoming \union Backlog :
       /\ l = [id |-> l.id, key |-> l.key, url |-> l.url, detail |-> l.detail, agency |-> l.agency]
       /\ l.id \in IDs
       /\ l.agency # NoAgency => l.agency.no # "none"
  /\ \A a, b \in Backlog : a.id = b.id \/ a.key = b.key \/ a.url = b.url => a = b
  /\ \A v \in CacheValues : v = [type |-> v.type, value |-> v.value]

AgencyNos == {l.agency.no : l \in Incoming} \ {"none"}

VARIABLES
  disk, draft,
  call,     \* the upsert each process has under way
  outcome,  \* how each process's last call ended
  ops,      \* calls made in all
  given,    \* history: agency fields written and committed
  overlapped, \* history: an agency was written while another process was
              \* between its read and its write of it
  conflicted  \* history: a write broke a UNIQUE constraint

vars == <<openingVars, disk, draft, call, outcome, ops, given, overlapped, conflicted>>

NoCall == [listing |-> NoRow, agency |-> {}, row |-> "none", read |-> NoRow]

\* A payload and the listing read back from it.
Serialize(listing) ==
  [key |-> listing.key, url |-> listing.url,
   payload |-> [id |-> listing.id, detail |-> listing.detail, agency |-> listing.agency]]
Deserialize(row) ==
  [id |-> row.payload.id, key |-> row.key, url |-> row.url,
   detail |-> row.payload.detail, agency |-> row.payload.agency]

DataOf(stored) ==
  [rows |-> [i \in IDs |-> IF \E l \in stored : l.id = i
                             THEN Serialize(CHOOSE l \in stored : l.id = i) ELSE NoRow],
   agencies |-> [n \in AgencyNos |-> {}],
   feedback |-> [i \in IDs |-> "none"],
   searches |-> 0, recommended |-> {},
   meta |-> [t |-> "unset", v |-> 0]]

Init ==
  /\ OpeningInit
  /\ disk = DataOf(IF schema.tables = {} THEN {} ELSE Backlog) /\ draft = disk
  /\ call = [p \in P |-> NoCall] /\ outcome = [p \in P |-> "none"] /\ ops = 0
  /\ given = disk.agencies /\ overlapped = FALSE /\ conflicted = FALSE

-----------------------------------------------------------------------------
(* A statement of connection p.                                             *)

View(p) == IF txn[p] \in {"writing", "pending"} THEN draft ELSE disk

\* A SELECT locks only inside a transaction, and then to its end.
Selecting(p) ==
  /\ CanRead(p)
  /\ txn' = [txn EXCEPT ![p] = IF @ = "begun" THEN "reading" ELSE @]
  /\ UNCHANGED <<disk, draft>>

\* Mutant: a method that returns without its commit.
NeverCommitted(p, data) ==
  /\ CanWrite(p) /\ draft' = data
  /\ txn' = [txn EXCEPT ![p] = "writing"] /\ UNCHANGED disk

\* The implicit BEGIN, the statement and the commit.
Committing(p, data) ==
  /\ CanAutocommit(p)
  /\ disk' = data /\ draft' = data
  /\ txn' = [txn EXCEPT ![p] = "none"]

\* "database is locked": by the statement, which leaves the transaction it
\* began open, or by the commit, which keeps what was written uncommitted.
WriteRefused(p, data) ==
  /\ \/ /\ ~CanWrite(p) /\ UNCHANGED draft
        /\ txn' = [txn EXCEPT ![p] = IF @ = "none" THEN "begun" ELSE @]
     \/ /\ CanWrite(p) /\ ~CanCommit(p) /\ draft' = data
        /\ txn' = [txn EXCEPT ![p] = "pending"]
  /\ UNCHANGED disk

ReadRefused(p) == ~CanRead(p) /\ UNCHANGED <<txn, disk, draft>>

\* A UNIQUE constraint fails: nothing is written, and nothing is rolled back.
Conflicting(p) ==
  /\ CanWrite(p) /\ conflicted' = TRUE
  /\ draft' = View(p)
  /\ txn' = [txn EXCEPT ![p] = IF @ = "pending" THEN @ ELSE "writing"]
  /\ UNCHANGED disk

Ends(p, how) ==
  /\ at' = [at EXCEPT ![p] = "idle"]
  /\ call' = [call EXCEPT ![p] = NoCall]
  /\ outcome' = [outcome EXCEPT ![p] = how]
Begins(p) == at[p] = "idle" /\ ops < MaxOps /\ ops' = ops + 1

-----------------------------------------------------------------------------
(* upsert_listing.                                                          *)

Upsert(p, listing) ==
  /\ Begins(p)
  /\ at' = [at EXCEPT ![p] = IF listing.agency = NoAgency THEN "lookup" ELSE "get_agency"]
  /\ call' = [call EXCEPT ![p].listing = listing]
  /\ outcome' = [outcome EXCEPT ![p] = "none"]
  /\ UNCHANGED <<schema, todo, txn, disk, draft, given, overlapped, conflicted>>

\* upsert_agency, its read ...
GetAgency(p) ==
  /\ at[p] = "get_agency" /\ Selecting(p)
  /\ at' = [at EXCEPT ![p] = "put_agency"]
  /\ call' = [call EXCEPT ![p].agency = View(p).agencies[call[p].listing.agency.no]]
  /\ UNCHANGED <<schema, todo, outcome, ops, given, overlapped, conflicted>>

\* Mutant: the incoming agency replaces the stored one.
IncomingAgency(existing, incoming) == incoming
\* _merge_agency: a value that is present wins, an absent one erases nothing.
MergeAgency(existing, incoming) == existing \union incoming

\* ... and its write.
WithAgency(p) ==
  LET a == call[p].listing.agency
  IN [View(p) EXCEPT !.agencies[a.no] = MergeAgency(call[p].agency, a.fields)]

PutAgency(p) ==
  /\ at[p] = "put_agency" /\ Committing(p, WithAgency(p))
  /\ at' = [at EXCEPT ![p] = "lookup"]
  /\ LET a == call[p].listing.agency IN
       /\ given' = [given EXCEPT ![a.no] = @ \union a.fields]
       /\ overlapped' = (overlapped \/ \E q \in P \ {p} :
            at[q] = "put_agency" /\ call[q].listing.agency.no = a.no)
  /\ UNCHANGED <<schema, todo, call, outcome, ops, conflicted>>

\* Mutant: a listing is recognised by its internal ID.
MatchesByID(data, listing) == {i \in IDs : data.rows[i] # NoRow /\ i = listing.id}
Rows(data) == {i \in IDs : data.rows[i] # NoRow}
Matches(data, listing) ==
  {i \in Rows(data) : data.rows[i].key = listing.key \/ data.rows[i].url = listing.url}

\* _merge_listing: a complete detail is not replaced by a summary.
MergeListing(existing, incoming) ==
  IF existing.detail /\ ~incoming.detail THEN existing
  ELSE [incoming EXCEPT !.agency = IF @ = NoAgency THEN existing.agency ELSE @]

\* SELECT ... WHERE athome_key = ? OR url = ?: any of the rows that match.
Lookup(p) ==
  /\ at[p] = "lookup" /\ Selecting(p)
  /\ LET found == Matches(View(p), call[p].listing) IN
       \/ /\ found = {} /\ at' = [at EXCEPT ![p] = "insert"] /\ UNCHANGED call
       \/ \E i \in found :
            /\ at' = [at EXCEPT ![p] = "update"]
            /\ call' = [call EXCEPT ![p].row = i, ![p].read = View(p).rows[i],
                 ![p].listing = MergeListing(Deserialize(View(p).rows[i]), @)]
  /\ UNCHANGED <<schema, todo, outcome, ops, given, overlapped, conflicted>>

\* The constraints on athome_key and url, for a row i about to hold them.
Unique(data, i, key, url) ==
  \A j \in Rows(data) \ {i} : data.rows[j].key # key /\ data.rows[j].url # url

Insertable(p) ==
  LET l == call[p].listing
  IN View(p).rows[l.id] = NoRow /\ Unique(View(p), l.id, l.key, l.url)
Inserted(p) ==
  LET l == call[p].listing IN [View(p) EXCEPT !.rows[l.id] = Serialize(l)]

\* Mutant: the row takes the ID of the listing passed in.
UpdateRenumbering(p) ==
  LET l == call[p].listing
  IN [View(p) EXCEPT !.rows = [i \in IDs |-> IF i = l.id THEN Serialize(l)
                                 ELSE IF i = call[p].row THEN NoRow ELSE @[i]]]
Updated(p) ==
  [View(p) EXCEPT !.rows[call[p].row] = Serialize(call[p].listing)]

\* The UPDATE can be made; or the one after an IntegrityError, of the row that
\* has the key, whose key it leaves alone.
Updatable(p) ==
  LET l == call[p].listing IN Unique(View(p), call[p].row, l.key, l.url)
KeyOwner(p) ==
  LET owners == {i \in Rows(View(p)) : View(p).rows[i].key = call[p].listing.key}
  IN IF owners = {} THEN call[p].row ELSE CHOOSE i \in owners : TRUE
Redirectable(p) ==
  \A j \in Rows(View(p)) \ {KeyOwner(p)} : View(p).rows[j].url # call[p].listing.url
Redirected(p) ==
  LET i == KeyOwner(p)
  IN [View(p) EXCEPT !.rows[i] = [Serialize(call[p].listing) EXCEPT !.key = View(p).rows[i].key]]

NewRows(p) ==
  IF at[p] = "insert" THEN Inserted(p)
  ELSE IF Updatable(p) THEN Updated(p) ELSE Redirected(p)
Writable(p) ==
  IF at[p] = "insert" THEN Insertable(p) ELSE Updatable(p) \/ Redirectable(p)

PutListing(p) ==
  /\ at[p] \in {"insert", "update"} /\ Writable(p) /\ Committing(p, NewRows(p))
  /\ conflicted' = (conflicted \/ (at[p] = "update" /\ ~Updatable(p)))
  /\ Ends(p, "ok")
  /\ UNCHANGED <<schema, todo, ops, given, overlapped>>

\* IntegrityError out of upsert_listing.
ListingConflict(p) ==
  /\ at[p] \in {"insert", "update"} /\ ~Writable(p) /\ Conflicting(p)
  /\ Ends(p, "conflict")
  /\ UNCHANGED <<schema, todo, ops, given, overlapped>>

UpsertRefused(p) ==
  /\ \/ at[p] \in {"get_agency", "lookup"} /\ ReadRefused(p)
     \/ at[p] = "put_agency" /\ WriteRefused(p, WithAgency(p))
     \/ at[p] \in {"insert", "update"} /\ Writable(p) /\ WriteRefused(p, NewRows(p))
     \/ at[p] \in {"insert", "update"} /\ ~Writable(p) /\ ~CanWrite(p) /\ WriteRefused(p, disk)
  /\ Ends(p, "locked")
  /\ UNCHANGED <<schema, todo, ops, given, overlapped, conflicted>>

-----------------------------------------------------------------------------
(* The writes of one statement.  A caller passes record_recommendation a    *)
(* search it recorded.                                                      *)

SaveOrReject(data) ==
  {[data EXCEPT !.feedback[i] = d] : i \in IDs, d \in {"save", "reject"}}
ClearFeedback(data) == {[data EXCEPT !.feedback[i] = "none"] : i \in IDs}
RecordSearch(data) == {[data EXCEPT !.searches = @ + 1]}
RecordRecommendation(data) ==
  {[data EXCEPT !.recommended = @ \union ({s} \X ids)] :
     s \in 1..data.searches, ids \in SUBSET Rows(data) \ {{}}}

SerializeCacheValue(v) == [t |-> v.type, v |-> v.value]
DeserializeCacheValue(p) == [type |-> p.t, value |-> p.v]
SetCacheMeta(data) == {[data EXCEPT !.meta = SerializeCacheValue(v)] : v \in CacheValues}

Results(data) ==
  SaveOrReject(data) \union ClearFeedback(data) \union RecordSearch(data)
    \union RecordRecommendation(data) \union SetCacheMeta(data)

Write(p) ==
  /\ Begins(p)
  /\ \E data \in Results(View(p)) : Committing(p, data)
  /\ Ends(p, "ok")
  /\ UNCHANGED <<schema, todo, given, overlapped, conflicted>>

CallRefused(p) ==
  /\ Begins(p)
  /\ \/ \E data \in Results(View(p)) : WriteRefused(p, data)
     \/ ReadRefused(p)
  /\ Ends(p, "locked")
  /\ UNCHANGED <<schema, todo, given, overlapped, conflicted>>

\* Any of the reads; it matters here for the lock it may keep.
Read(p) ==
  /\ at[p] = "idle" /\ txn[p] = "begun" /\ Selecting(p)
  /\ UNCHANGED <<schema, at, todo, call, outcome, ops, given, overlapped, conflicted>>

\* close(), or the process dies in the middle of anything.  What was not
\* committed is gone.
Close(p) ==
  /\ at[p] # "closed" /\ Leave(p)
  /\ draft' = IF txn[p] \in {"writing", "pending"} THEN disk ELSE draft
  /\ call' = [call EXCEPT ![p] = NoCall]
  /\ outcome' = [outcome EXCEPT ![p] = "none"]
  /\ UNCHANGED <<disk, ops, given, overlapped, conflicted>>

Open(p) ==
  /\ OpeningNext(p)
  /\ UNCHANGED <<disk, draft, call, outcome, ops, given, overlapped, conflicted>>

Next ==
  \E p \in P :
    \/ Open(p) \/ (\E l \in Incoming : Upsert(p, l)) \/ GetAgency(p) \/ PutAgency(p)
    \/ Lookup(p) \/ PutListing(p) \/ ListingConflict(p) \/ UpsertRefused(p)
    \/ Write(p) \/ CallRefused(p) \/ Read(p) \/ Close(p)

Spec == Init /\ [][Next]_vars

-----------------------------------------------------------------------------
Calling == {"idle", "get_agency", "put_agency", "lookup", "insert", "update"}

\* The types; at most one connection has anything uncommitted, and a store that
\* is not open, closed or refused while opening, keeps no lock.
TypeOK ==
  /\ OpeningTypeOK
  /\ at \in [P -> Opening \union Calling]
  /\ outcome \in [P -> {"none", "ok", "locked", "conflict"}]
  /\ (\A p \in P : txn[p] \notin {"writing", "pending"}) => draft = disk
  /\ \A p \in P : at[p] \in Opening => txn[p] = "none"

\* What is committed is a store as BaseDataStore promises it, and changes only
\* as it promises, however the statements of the processes interleave and
\* wherever they die: IDs are for good, keys and URLs unique, a decision is the
\* latest, nothing recorded is lost.  One exception: what a call wrote before
\* its commit was refused appears with the next commit of that connection.
StoredProperties ==
  {[id |-> i, key |-> disk.rows[i].key, url |-> disk.rows[i].url] : i \in Rows(disk)}

Contract == INSTANCE StoreContract
  WITH Properties <- [id : IDs, key : {l.key : l \in Incoming \union Backlog},
                      url : {l.url : l \in Incoming \union Backlog}],
       Backlog <- {[id |-> l.id, key |-> l.key, url |-> l.url] : l \in Backlog},
       known <- StoredProperties, decision <- disk.feedback,
       searches <- disk.searches, recommended <- disk.recommended,
       meta <- DeserializeCacheValue(disk.meta)

LateCommit == \E p \in P : txn[p] = "pending" /\ txn'[p] = "none"

KeepsContract ==
  Contract!Init /\ [][Contract!Next \/ LateCommit]_(Contract!vars)

\* A row passes to a listing with another key and another URL only when it
\* changed between that upsert's lookup and its UPDATE (or with a late commit
\* of such an upsert).
IdentityMovesByRace ==
  [][\A i \in Rows(disk) :
       \/ disk.rows[i].key = disk'.rows[i].key \/ disk.rows[i].url = disk'.rows[i].url
       \/ \E p \in P : /\ at[p] = "update" /\ at'[p] = "idle"
                       /\ call[p].read # View(p).rows[call[p].row]
       \/ LateCommit]_disk

\* What callers told of an agency is lost only when two processes wrote it at
\* once: sparse updates in sequence, crashes and refused writes erase nothing.
AgencyLossNeedsOverlap ==
  \A n \in AgencyNos : given[n] \subseteq disk.agencies[n] \/ overlapped

\* A call is refused a lock only after some upsert broke a constraint and left
\* its transaction open: in every other history the statements of two processes
\* wait for each other and none leaves a lock behind.
RefusedOnlyAfterConflict ==
  (\E p \in P : outcome[p] = "locked" \/ txn[p] # "none") => conflicted

\* The comment in upsert_listing: when the key of an update belongs to a
\* different row, the listing is merged into that row.
ConflictIsMerged ==
  [][\A p \in P : at[p] = "update" => outcome'[p] # "conflict"]_vars
===============================================================================
