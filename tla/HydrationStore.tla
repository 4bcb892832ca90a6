--------------------------- MODULE HydrationStore ---------------------------
(***************************************************************************)
(* The part of SqliteStore that detail hydration shares between processes: *)
(* the rows of `listings` and of `hydration_jobs`, and the SQL statements  *)
(* that read and write them.  Every action here is ONE statement, or one   *)
(* explicit transaction, of sqlite_store.py; a method that runs several    *)
(* statements outside a transaction is a sequence of them, and the module  *)
(* DetailHydration interleaves those sequences.                            *)
(*                                                                         *)
(* Time is relative: instead of timestamps compared with now(), a lease    *)
(* and a detail's freshness hold the ticks they have left, so that         *)
(* `lease_until <= now` is lease = 0 and `detail_fresh_until > now` is     *)
(* fresh > 0.  A listing is identified by its AtHome key; the parsers use  *)
(* that key as internal_id and derive the URL from it.                     *)
(***************************************************************************)
EXTENDS Naturals, FiniteSets

CONSTANTS
  Keys,         \* AtHome listing IDs
  MaxAttempts,  \* enqueue_hydration's max_attempts (3 in the code)
  LeaseTicks,   \* claim_hydration's lease_seconds (300 in the code)
  FreshTicks,   \* detail_fresh_until - detail_fetched_at (14 days)
  Backlog       \* Backlog[k]: position of k's job in the queue an earlier run
                \* left in the file, 0 for a listing without a job

ASSUME KeysFinite == IsFiniteSet(Keys)
ASSUME LimitsPositive == /\ MaxAttempts \in Nat \ {0}
                         /\ LeaseTicks \in Nat \ {0}
                         /\ FreshTicks \in Nat \ {0}
ASSUME BacklogOrdered ==
         /\ Backlog \in [Keys -> 0 .. Cardinality(Keys)]
         /\ \A j, k \in Keys : Backlog[j] = Backlog[k] => j = k \/ Backlog[j] = 0

VARIABLES
  listing,  \* the listings table: Keys -> Row
  job,      \* the hydration_jobs table: Keys -> Job
  nextId    \* the AUTOINCREMENT counter of hydration_jobs

storeVars == <<listing, job, nextId>>

-----------------------------------------------------------------------------
(* Rows                                                                    *)

\* Completeness levels; both summary levels (partial, complete) are "summary".
Level == {"absent", "summary", "detail"}
Row == [level : Level, fresh : 0 .. FreshTicks]

NoRow      == [level |-> "absent", fresh |-> 0]
SummaryRow == [level |-> "summary", fresh |-> 0]
\* Mutant: the worker forgets to raise the completeness.
DetailRowKeepsLevel == [level |-> "summary", fresh |-> FreshTicks]
DetailRow  == [level |-> "detail", fresh |-> FreshTicks]

Status == {"none", "queued", "leased", "succeeded", "skipped", "failed", "cancelled"}
Live == {"queued", "leased"}
Settled == {"succeeded", "failed", "cancelled"}

\* token: the uuid4 of a claim, modelled by the number of that claim of the
\* job, which no other claim of the job shares; 0 is NULL.
Job == [status : Status, attempts : Nat, token : Nat, lease : 0 .. LeaseTicks,
        id : Nat]

NoJob == [status |-> "none", attempts |-> 0, token |-> 0, lease |-> 0, id |-> 0]
NewJob(i) == [status |-> "queued", attempts |-> 0, token |-> 0, lease |-> 0, id |-> i]

StoreTypeOK ==
  /\ listing \in [Keys -> Row]
  /\ job \in [Keys -> Job]
  /\ nextId \in Nat

StoreInit ==
  /\ listing = [k \in Keys |-> IF Backlog[k] = 0 THEN NoRow ELSE SummaryRow]
  /\ job = [k \in Keys |-> IF Backlog[k] = 0 THEN NoJob ELSE NewJob(Backlog[k])]
  /\ nextId = Cardinality(Keys) + 1

-----------------------------------------------------------------------------
(* The listings table                                                      *)

\* _merge_listing: what upsert_listing stores over `existing`.
MergeListing(existing, incoming) ==
  IF existing.level = "detail" /\ incoming.level # "detail"
  THEN existing
  ELSE [level |-> IF existing.level = "detail" THEN "detail" ELSE incoming.level,
        fresh |-> IF incoming.level = "detail" THEN incoming.fresh ELSE existing.fresh]

\* A draft is what upsert_listing will write after its SELECT: a new row, or
\* the merge of the row it read.
Draft == [insert : BOOLEAN, row : Row]
NoDraft == [insert |-> FALSE, row |-> NoRow]
DraftOf(k, incoming) ==
  IF listing[k] = NoRow
  THEN [insert |-> TRUE, row |-> incoming]
  ELSE [insert |-> FALSE, row |-> MergeListing(listing[k], incoming)]

\* An INSERT over a row that has appeared since the SELECT is an
\* IntegrityError.
Conflicts(k, draft) == draft.insert /\ listing[k] # NoRow

WriteListing(k, draft) == listing' = [listing EXCEPT ![k] = draft.row]

\* get_fresh_detail, and _fresh_detail, which does not look at completeness:
\* only a detail record carries detail_fresh_until.
FreshDetail(k) == listing[k].level = "detail" /\ listing[k].fresh > 0
FreshUntilAhead(k) == listing[k].fresh > 0

-----------------------------------------------------------------------------
(* The hydration_jobs table                                                *)

\* Mutants: lease_until is not compared; an expired lease is not reclaimed; a
\* failed job is picked up again.
ClaimableAnyLease(k) == job[k].status \in Live
ClaimableQueuedOnly(k) == job[k].status = "queued"
ClaimableFailedToo(k) ==
  \/ job[k].status \in {"queued", "failed"}
  \/ job[k].status = "leased" /\ job[k].lease = 0
\* The WHERE clause of claim_hydration ...
Claimable(k) ==
  \/ job[k].status = "queued"
  \/ job[k].status = "leased" /\ job[k].lease = 0

\* Mutant: the newest job first.
OldestReversed(k) ==
  /\ Claimable(k)
  /\ \A j \in Keys : Claimable(j) => job[j].id <= job[k].id
\* ... and its ORDER BY created_at, id LIMIT 1.
Oldest(k) ==
  /\ Claimable(k)
  /\ \A j \in Keys : Claimable(j) => job[k].id <= job[j].id

\* The two UPDATEs of claim_hydration.
LeaseJob(k) ==
  job' = [job EXCEPT ![k] =
            [status |-> "leased", attempts |-> @.attempts + 1,
             token |-> @.attempts + 1, lease |-> LeaseTicks, id |-> @.id]]

\* Mutant: the lease columns are left as they are.
SetStatusOnly(k, status) == job' = [job EXCEPT ![k].status = status]

\* The skipping UPDATE of claim_hydration and of enqueue_hydration, the
\* UPDATE of _transition_claimed and that of cancel_hydration: none looks at
\* the status the row has by then, and each clears the lease.
SetStatus(k, status) ==
  job' = [job EXCEPT ![k] =
            [status |-> status, attempts |-> @.attempts, token |-> 0,
             lease |-> 0, id |-> @.id]]

\* The INSERT of enqueue_hydration.
InsertJob(k) ==
  /\ job' = [job EXCEPT ![k] = NewJob(nextId)]
  /\ nextId' = nextId + 1

\* The WHERE clause of _transition_claimed.
HoldsLease(k, token) == job[k].status = "leased" /\ job[k].token = token

\* Mutants: one attempt too many; no limit at all.
StatusAfterFailureOneMore(k) ==
  IF job[k].attempts <= MaxAttempts THEN "queued" ELSE "failed"
StatusAfterFailureAlwaysRetry(k) == "queued"
\* The status record_hydration_failure chooses for the job it has read.
StatusAfterFailure(k) ==
  IF job[k].attempts < MaxAttempts THEN "queued" ELSE "failed"

\* One tick of the clock: what is left of a row's freshness, and the tables.
Older(row) == [row EXCEPT !.fresh = IF @ > 0 THEN @ - 1 ELSE 0]
AgeTables ==
  /\ listing' = [k \in Keys |-> Older(listing[k])]
  /\ job' = [k \in Keys |-> [job[k] EXCEPT !.lease = IF @ > 0 THEN @ - 1 ELSE 0]]
=============================================================================
