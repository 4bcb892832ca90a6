----------------------- MODULE DetailHydration_proofs -----------------------
(***************************************************************************)
(* Proofs about DetailHydration for every number of listings, workers and  *)
(* sessions and every value of the limits: type correctness, strict FIFO;  *)
(* when no worker outlives its lease, the exclusive claim, the attempt     *)
(* budget and who may still change a closed job; without live sessions,    *)
(* that a succeeded job has its detail.                                    *)
(***************************************************************************)
EXTENDS DetailHydration, FiniteSetTheorems, TLAPS

-----------------------------------------------------------------------------
(* The inductive invariants.                                               *)

\* A job in a worker's hands exists and has been claimed; a session about to
\* skip a job has seen it.
JobsInHand ==
  /\ \A w \in Workers : pc[w] \in Busy => job[key[w]].attempts > 0
  /\ \A k \in Keys : job[k].attempts > 0 => job[k].status # "none"
  /\ \A s \in Sessions :
       \/ pc[s] = "skip"
       \/ pc[s] = "check" /\ saw[s] # "none"
       => job[key[s]].status # "none"

\* Jobs have distinct ids, all of them below the counter.
IdsDistinct ==
  /\ \A k \in Keys : job[k].id < nextId
  /\ \A j, k \in Keys :
       job[j].status # "none" /\ job[k].status # "none" /\ job[j].id = job[k].id
       => j = k

FifoInv == TypeOK /\ JobsInHand /\ IdsDistinct /\ FifoFirstClaim

\* Without overruns: the worker that has a job in hand holds its unexpired
\* lease, unless a session has skipped the job.
LeaseInHand ==
  \A w \in Workers :
    pc[w] \in Busy =>
      \/ HoldsLease(key[w], token[w]) /\ job[key[w]].lease > 0
      \/ job[key[w]].status = "skipped"

\* What a worker is about to write was true when it read the job, and still is.
VerdictsValid ==
  \A w \in Workers : pc[w] = "requeue" => job[key[w]].attempts < MaxAttempts

\* A leased job that nobody has in hand was lost with a killed worker.
Orphan(k) ==
  /\ job[k].status = "leased"
  /\ \A w \in Workers : pc[w] \in Busy => key[w] # k
OrphansPaid ==
  \A k \in Keys : Orphan(k) => job[k].attempts < MaxAttempts + crashes

LeaseInv ==
  /\ TypeOK /\ JobsInHand /\ OneWorkerPerJob /\ LeaseInHand /\ VerdictsValid
  /\ RequeueWithinBudget /\ OrphansPaid /\ AttemptsPaidByCrashes
-----------------------------------------------------------------------------
(* What the statements do to the tables.                                   *)

\* The clearing UPDATE changes one row: its status, token and lease.
LEMMA SetStatusEffect ==
  ASSUME NEW k \in Keys, NEW st \in Status, job \in [Keys -> Job], SetStatus(k, st)
  PROVE  /\ job' \in [Keys -> Job]
         /\ job'[k].status = st /\ job'[k].token = 0 /\ job'[k].lease = 0
         /\ job'[k].attempts = job[k].attempts /\ job'[k].id = job[k].id
         /\ \A j \in Keys : j # k => job'[j] = job[j]
  BY LimitsPositive DEF SetStatus, Job

\* A claim changes one row, whose attempts are its new token.
LEMMA LeaseJobEffect ==
  ASSUME NEW k \in Keys, job \in [Keys -> Job], LeaseJob(k)
  PROVE  /\ job' \in [Keys -> Job]
         /\ job'[k].status = "leased" /\ job'[k].lease = LeaseTicks
         /\ job'[k].attempts = job[k].attempts + 1
         /\ job'[k].token = job[k].attempts + 1 /\ job'[k].id = job[k].id
         /\ \A j \in Keys : j # k => job'[j] = job[j]
  BY LimitsPositive DEF LeaseJob, Job, Status

\* The INSERT fills one row and moves the counter.
LEMMA InsertJobEffect ==
  ASSUME NEW k \in Keys, job \in [Keys -> Job], nextId \in Nat, InsertJob(k)
  PROVE  /\ job' \in [Keys -> Job] /\ nextId' = nextId + 1
         /\ job'[k].status = "queued" /\ job'[k].lease = 0 /\ job'[k].token = 0
         /\ job'[k].attempts = 0 /\ job'[k].id = nextId
         /\ \A j \in Keys : j # k => job'[j] = job[j]
  BY LimitsPositive DEF InsertJob, NewJob, Job, Status

\* A write keeps the listings table a table.
LEMMA WriteListingEffect ==
  ASSUME NEW k \in Keys, NEW d \in Draft, listing \in [Keys -> Row], WriteListing(k, d)
  PROVE  listing' \in [Keys -> Row]
  BY DEF WriteListing, Draft, Row

\* A row stays a row as it ages.
LEMMA OlderType == \A r \in Row : Older(r) \in Row
<1> SUFFICES ASSUME NEW r \in Row PROVE Older(r) \in Row
  OBVIOUS
<1>1. r.fresh > 0 => r.fresh - 1 \in 0 .. FreshTicks
  BY LimitsPositive DEF Row
<1>2. 0 \in 0 .. FreshTicks
  BY LimitsPositive
<1>3. QED
  BY <1>1, <1>2 DEF Older, Row

\* A tick changes lease and freshness only, and leases only downwards.
LEMMA AgeTablesEffect ==
  ASSUME listing \in [Keys -> Row], job \in [Keys -> Job], AgeTables
  PROVE  /\ listing' \in [Keys -> Row] /\ job' \in [Keys -> Job]
         /\ \A k \in Keys :
              /\ job'[k].status = job[k].status /\ job'[k].token = job[k].token
              /\ job'[k].attempts = job[k].attempts /\ job'[k].id = job[k].id
              /\ job'[k].lease = IF job[k].lease > 0 THEN job[k].lease - 1 ELSE 0
<1> DEFINE row(k) == [job[k] EXCEPT !.lease = IF @ > 0 THEN @ - 1 ELSE 0]
<1>1. job' = [k \in Keys |-> row(k)] /\ listing' = [k \in Keys |-> Older(listing[k])]
  BY DEF AgeTables
<1>2. ASSUME NEW k \in Keys
      PROVE  /\ row(k) \in Job
             /\ row(k).status = job[k].status /\ row(k).token = job[k].token
             /\ row(k).attempts = job[k].attempts /\ row(k).id = job[k].id
             /\ row(k).lease = IF job[k].lease > 0 THEN job[k].lease - 1 ELSE 0
  <2>1. job[k] \in Job
    OBVIOUS
  <2>2. QED
    BY <2>1, LimitsPositive DEF Job
<1> HIDE DEF row
<1>3. QED
  BY <1>1, <1>2, OlderType

\* The rows the processes write are rows, and the draft upsert_listing makes of
\* a row it has read is a draft.
LEMMA DraftTypes ==
  /\ NoDraft \in Draft
  /\ DetailRow \in Row /\ SummaryRow \in Row
  BY LimitsPositive DEF NoDraft, NoRow, DetailRow, SummaryRow, Draft, Row, Level

LEMMA DraftOfType ==
  ASSUME NEW k \in Keys, NEW r \in Row, listing \in [Keys -> Row]
  PROVE  DraftOf(k, r) \in Draft
  BY DEF DraftOf, Draft, MergeListing, Row, Level

-----------------------------------------------------------------------------
(* Type correctness.                                                       *)

LEMMA InitType == Init => TypeOK
<1> SUFFICES ASSUME Init PROVE TypeOK
  OBVIOUS
<1>1. Cardinality(Keys) \in Nat
  BY KeysFinite, FS_CardinalityType
<1>2. StoreTypeOK
  BY <1>1, BacklogOrdered, LimitsPositive
  DEF Init, StoreInit, StoreTypeOK, NoRow, SummaryRow, Row, Level, NoJob, NewJob, Job, Status
<1>3. \A k \in Keys : /\ job[k].token # 0 <=> job[k].status = "leased"
                      /\ job[k].lease > 0 => job[k].status = "leased"
  BY DEF Init, StoreInit, NoJob, NewJob
<1>4. QED
  BY <1>2, <1>3, LimitsPositive
  DEF Init, TypeOK, Procs, WorkerPC, SessionPC, InHand, Busy, NoDraft, NoRow, Draft, Row, Level

\* TypeOK in two halves: the tables, and what the processes hold.
TablesOK ==
  /\ StoreTypeOK
  /\ \A k \in Keys : /\ job[k].token # 0 <=> job[k].status = "leased"
                     /\ job[k].lease > 0 => job[k].status = "leased"
LocalsOK ==
  /\ pc \in [Procs -> WorkerPC \cup SessionPC]
  /\ \A w \in Workers : pc[w] \in WorkerPC
  /\ \A s \in Sessions : pc[s] \in SessionPC
  /\ key \in [Procs -> Keys \cup {NoKey}]
  /\ \A p \in Procs : pc[p] \in InHand => key[p] \in Keys
  /\ draft \in [Procs -> Draft]
  /\ token \in [Workers -> Nat]
  /\ cards \in [Sessions -> SUBSET Keys]
  /\ intents \in [Sessions -> SUBSET Keys]
  /\ saw \in [Sessions -> {"none", "live", "done"}]
  /\ crashes \in Nat

LEMMA TypeHalves == TypeOK <=> TablesOK /\ LocalsOK
  BY DEF TypeOK, TablesOK, LocalsOK

\* The tables keep their type under every statement.
LEMMA TablesKept ==
  ASSUME TablesOK,
         NEW k \in Keys,
         \/ UNCHANGED storeVars
         \/ (\E st \in Status \ {"leased"} : SetStatus(k, st)) /\ UNCHANGED <<listing, nextId>>
         \/ LeaseJob(k) /\ UNCHANGED <<listing, nextId>>
         \/ InsertJob(k) /\ UNCHANGED listing
         \/ (\E d \in Draft : WriteListing(k, d)) /\ UNCHANGED <<job, nextId>>
         \/ AgeTables /\ UNCHANGED nextId
  PROVE  TablesOK'
<1>1. listing \in [Keys -> Row] /\ job \in [Keys -> Job] /\ nextId \in Nat
  BY DEF TablesOK, StoreTypeOK
<1>2. CASE UNCHANGED storeVars
  BY <1>2 DEF storeVars, TablesOK, StoreTypeOK
<1>3. CASE (\E st \in Status \ {"leased"} : SetStatus(k, st)) /\ UNCHANGED <<listing, nextId>>
  <2> PICK st \in Status \ {"leased"} : SetStatus(k, st)
    BY <1>3
  <2> QED
    BY <1>1, <1>3, SetStatusEffect DEF TablesOK, StoreTypeOK
<1>4. CASE LeaseJob(k) /\ UNCHANGED <<listing, nextId>>
  <2>1. job[k].attempts \in Nat
    BY <1>1 DEF Job
  <2>2. QED
    BY <2>1, <1>1, <1>4, LeaseJobEffect DEF TablesOK, StoreTypeOK
<1>5. CASE InsertJob(k) /\ UNCHANGED listing
  BY <1>1, <1>5, InsertJobEffect DEF TablesOK, StoreTypeOK
<1>6. CASE (\E d \in Draft : WriteListing(k, d)) /\ UNCHANGED <<job, nextId>>
  BY <1>1, <1>6, WriteListingEffect DEF TablesOK, StoreTypeOK
<1>7. CASE AgeTables /\ UNCHANGED nextId
  <2>1. \A j \in Keys : job[j].lease \in Nat
    BY <1>1 DEF Job
  <2>2. QED
    BY <2>1, <1>1, <1>7, AgeTablesEffect DEF TablesOK, StoreTypeOK
<1>8. QED
  BY <1>2, <1>3, <1>4, <1>5, <1>6, <1>7

\* Leaving a job, and leaving a detail, empties the hands of the process.
LEMMA LeaveJobType ==
  ASSUME LocalsOK, NEW w \in Workers, NEW label \in {"idle"} \cup Down,
         LeaveJob(w, label), crashes' \in Nat
  PROVE  LocalsOK'
<1>1. NoDraft \in Draft
  BY DraftTypes
<1>2. label \in WorkerPC /\ label \notin InHand
  BY DEF WorkerPC, Down, InHand, Busy
<1>3. w \in Procs /\ w \notin Sessions
  BY ProcessesDistinct DEF Procs
<1>4. /\ pc' = [pc EXCEPT ![w] = label] /\ key' = [key EXCEPT ![w] = NoKey]
      /\ token' = [token EXCEPT ![w] = 0] /\ draft' = [draft EXCEPT ![w] = NoDraft]
      /\ cards' = cards /\ intents' = intents /\ saw' = saw
  BY DEF LeaveJob, Goto
<1>5. /\ pc' \in [Procs -> WorkerPC \cup SessionPC]
      /\ \A v \in Workers : pc'[v] \in WorkerPC
      /\ \A s \in Sessions : pc'[s] \in SessionPC
      /\ \A p \in Procs : pc'[p] \in InHand => key'[p] \in Keys
  BY <1>2, <1>3, <1>4 DEF LocalsOK, Procs
<1>6. QED
  BY <1>1, <1>3, <1>4, <1>5 DEF LocalsOK

LEMMA LeaveDetailType ==
  ASSUME LocalsOK, NEW s \in Sessions, LeaveDetail(s), crashes' \in Nat
  PROVE  LocalsOK'
<1>1. NoDraft \in Draft
  BY DraftTypes
<1>2. "idle" \in SessionPC /\ "idle" \notin InHand
  BY DEF SessionPC, InHand, Busy
<1>3. s \in Procs /\ s \notin Workers
  BY ProcessesDistinct DEF Procs
<1>4. /\ pc' = [pc EXCEPT ![s] = "idle"] /\ key' = [key EXCEPT ![s] = NoKey]
      /\ token' = token /\ draft' = [draft EXCEPT ![s] = NoDraft]
      /\ cards' = [cards EXCEPT ![s] = {}] /\ intents' = [intents EXCEPT ![s] = {}]
      /\ saw' = [saw EXCEPT ![s] = "none"]
  BY DEF LeaveDetail, Goto
<1>5. /\ pc' \in [Procs -> WorkerPC \cup SessionPC]
      /\ \A v \in Workers : pc'[v] \in WorkerPC
      /\ \A r \in Sessions : pc'[r] \in SessionPC
      /\ \A p \in Procs : pc'[p] \in InHand => key'[p] \in Keys
  BY <1>2, <1>3, <1>4 DEF LocalsOK, Procs
<1>6. QED
  BY <1>1, <1>3, <1>4, <1>5 DEF LocalsOK

\* What each step needs of TypeOK.
LEMMA TypeFacts ==
  ASSUME TypeOK
  PROVE  /\ TablesOK /\ LocalsOK
         /\ \A w \in Workers : w \in Procs /\ w \notin Sessions
         /\ \A s \in Sessions : s \in Procs /\ s \notin Workers
         /\ listing \in [Keys -> Row] /\ job \in [Keys -> Job] /\ nextId \in Nat
         /\ \A k \in Keys : job[k].attempts \in Nat /\ job[k].token \in Nat
         /\ crashes \in Nat
         /\ \A p \in Procs : draft[p] \in Draft
  BY TypeHalves, ProcessesDistinct DEF TablesOK, StoreTypeOK, Job, LocalsOK, Procs

\* upsert_listing's SELECT, by a worker or a session.
LEMMA ReadListingType == ASSUME TypeOK, NEW p \in Procs, ReadListing(p) PROVE TypeOK'
<1>0. key[p] \in Keys
  BY TypeFacts DEF ReadListing, LocalsOK, InHand, Busy
<1>1. DraftOf(key[p], DetailRow) \in Draft
  BY <1>0, TypeFacts, DraftTypes, DraftOfType
<1>2. TablesOK'
  BY TypeFacts DEF ReadListing, TablesOK, StoreTypeOK, storeVars
<1>3. LocalsOK'
  BY <1>1, TypeFacts DEF ReadListing, Goto, LocalsOK, WorkerPC, SessionPC, InHand, Busy
<1>4. QED
  BY <1>2, <1>3 DEF TypeOK, TablesOK, LocalsOK

\* The steps of a worker.
LEMMA WorkerType ==
  ASSUME TypeOK, NEW w \in Workers, WorkerStep(w) \/ Kill(w) \/ Restart(w)
  PROVE  TypeOK'
<1> USE DEF Procs
<1>1. ASSUME NEW k \in Keys, ClaimSkip(w, k) PROVE TypeOK'
  <2>1. SetStatus(k, "skipped") /\ UNCHANGED <<listing, nextId>> /\ UNCHANGED <<locals, crashes>>
    BY <1>1 DEF ClaimSkip
  <2>2. TablesOK'
    BY TypeFacts, <2>1, TablesKept DEF Status
  <2>3. LocalsOK'
    BY TypeFacts, <2>1 DEF LocalsOK, locals
  <2>4. QED
    BY <2>2, <2>3, TypeHalves DEF TypeOK, TablesOK, LocalsOK
<1>2. ASSUME NEW k \in Keys, ClaimLease(w, k) PROVE TypeOK'
  <2>1. TablesOK'
    BY TypeFacts, <1>2, TablesKept DEF ClaimLease
  <2>2. LocalsOK'
    BY TypeFacts, <1>2 DEF ClaimLease, Goto, LocalsOK, WorkerPC, InHand, Busy
  <2>3. QED
    BY <2>1, <2>2 DEF TypeOK, TablesOK, LocalsOK
<1>3. ASSUME ClaimRead(w) PROVE TypeOK'
  <2>0. key[w] \in Keys
    BY TypeFacts, <1>3 DEF ClaimRead, LocalsOK, InHand, Busy
  <2>1. TablesOK'
    BY TypeFacts, <1>3, <2>0, TablesKept DEF ClaimRead
  <2>2. LocalsOK'
    <3>1. CASE job[key[w]].token # 0
      BY TypeFacts, <1>3, <2>0, <3>1
      DEF ClaimRead, Goto, LocalsOK, WorkerPC, InHand, Busy
    <3>2. CASE job[key[w]].token = 0
      BY TypeFacts, <1>3, <3>2, LeaveJobType DEF ClaimRead, Down
    <3>3. QED
      BY <3>1, <3>2
  <2>3. QED
    BY <2>1, <2>2 DEF TypeOK, TablesOK, LocalsOK
<1>4. ASSUME CancelUnavailable(w) PROVE TypeOK'
  <2>0. key[w] \in Keys
    BY TypeFacts, <1>4 DEF CancelUnavailable, LocalsOK, InHand, Busy
  <2>1. TablesOK'
    BY TypeFacts, <1>4, <2>0, TablesKept DEF CancelUnavailable, Status
  <2>2. LocalsOK'
    BY TypeFacts, <1>4, LeaveJobType DEF CancelUnavailable
  <2>3. QED
    BY <2>1, <2>2 DEF TypeOK, TablesOK, LocalsOK
<1>5. ASSUME WriteDetail(w) PROVE TypeOK'
  <2>0. key[w] \in Keys /\ draft[w] \in Draft /\ NoDraft \in Draft
    BY TypeFacts, <1>5, DraftTypes DEF WriteDetail, LocalsOK, InHand, Busy
  <2>1. TablesOK'
    BY TypeFacts, <1>5, <2>0, TablesKept DEF WriteDetail, storeVars
  <2>2. LocalsOK'
    BY TypeFacts, <1>5, <2>0 DEF WriteDetail, Goto, LocalsOK, WorkerPC, InHand, Busy
  <2>3. QED
    BY <2>1, <2>2 DEF TypeOK, TablesOK, LocalsOK
<1>6. ASSUME AckSelect(w) PROVE TypeOK'
  <2>0. key[w] \in Keys
    BY TypeFacts, <1>6 DEF AckSelect, LocalsOK, InHand, Busy
  <2>1. TablesOK'
    BY TypeFacts, <1>6, <2>0, TablesKept DEF AckSelect
  <2>2. LocalsOK'
    BY TypeFacts, <1>6, <2>0 DEF AckSelect, Goto, LocalsOK, WorkerPC, InHand, Busy
  <2>3. QED
    BY <2>1, <2>2 DEF TypeOK, TablesOK, LocalsOK
<1>7. ASSUME FailSelect(w) PROVE TypeOK'
  <2>0. key[w] \in Keys
    BY TypeFacts, <1>7 DEF FailSelect, LocalsOK, InHand, Busy
  <2>1. TablesOK'
    BY TypeFacts, <1>7, <2>0, TablesKept DEF FailSelect
  <2>2. LocalsOK'
    <3>1. CASE HoldsLease(key[w], token[w])
      BY TypeFacts, <1>7, <2>0, <3>1
      DEF FailSelect, Goto, LocalsOK, WorkerPC, InHand, Busy
    <3>2. CASE ~HoldsLease(key[w], token[w])
      BY TypeFacts, <1>7, <3>2, LeaveJobType DEF FailSelect, Down
    <3>3. QED
      BY <3>1, <3>2
  <2>3. QED
    BY <2>1, <2>2 DEF TypeOK, TablesOK, LocalsOK
<1>8. ASSUME SettleJob(w) PROVE TypeOK'
  <2>0. key[w] \in Keys
    BY TypeFacts, <1>8 DEF SettleJob, LocalsOK, InHand, Busy
  <2>1. TablesOK'
    BY TypeFacts, <1>8, <2>0, TablesKept DEF SettleJob, Status
  <2>2. LocalsOK'
    BY TypeFacts, <1>8, LeaveJobType DEF SettleJob
  <2>3. QED
    BY <2>1, <2>2 DEF TypeOK, TablesOK, LocalsOK
<1>9. ASSUME Kill(w) PROVE TypeOK'
  <2>0. key[w] \in Keys
    BY TypeFacts, <1>9 DEF Kill, LocalsOK, InHand
  <2>1. TablesOK'
    BY TypeFacts, <1>9, <2>0, TablesKept DEF Kill
  <2>2. LocalsOK'
    BY TypeFacts, <1>9, LeaveJobType DEF Kill, Down
  <2>3. QED
    BY <2>1, <2>2 DEF TypeOK, TablesOK, LocalsOK
<1>10. ASSUME Restart(w) PROVE TypeOK'
  <2>1. TablesOK'
    BY TypeFacts, <1>10 DEF Restart, TablesOK, StoreTypeOK, storeVars
  <2>2. LocalsOK'
    BY TypeFacts, <1>10 DEF Restart, Goto, LocalsOK, WorkerPC, InHand, Busy
  <2>3. QED
    BY <2>1, <2>2 DEF TypeOK, TablesOK, LocalsOK
<1>11. QED
  BY <1>1, <1>2, <1>3, <1>4, <1>5, <1>6, <1>7, <1>8, <1>9, <1>10, TypeFacts, ReadListingType
  DEF WorkerStep

\* The steps of a session.
LEMMA SessionType == ASSUME TypeOK, NEW s \in Sessions, SessionStep(s) PROVE TypeOK'
<1> USE DEF Procs
<1>1. ASSUME NEW k \in Keys, Lookup(s, k) PROVE TypeOK'
  <2>1. TablesOK'
    BY <1>1, TypeFacts DEF Lookup, TablesOK, StoreTypeOK, storeVars
  <2>2. LocalsOK'
    BY <1>1, TypeFacts DEF Lookup, Goto, LocalsOK, SessionPC, InHand, Busy
  <2>3. QED
    BY <2>1, <2>2 DEF TypeOK, TablesOK, LocalsOK
<1>2. ASSUME NEW k \in Keys, ReadCard(s, k) PROVE TypeOK'
  <2>1. DraftOf(k, SummaryRow) \in Draft
    BY TypeFacts, DraftTypes, DraftOfType
  <2>2. TablesOK'
    BY <1>2, TypeFacts DEF ReadCard, TablesOK, StoreTypeOK, storeVars
  <2>3. LocalsOK'
    BY <1>2, <2>1, TypeFacts DEF ReadCard, Goto, LocalsOK, SessionPC, InHand, Busy
  <2>4. QED
    BY <2>2, <2>3 DEF TypeOK, TablesOK, LocalsOK
<1>3. ASSUME NEW k \in Keys, EnqueueRead(s, k) PROVE TypeOK'
  <2>1. TablesOK'
    BY <1>3, TypeFacts DEF EnqueueRead, TablesOK, StoreTypeOK, storeVars
  <2>2. LocalsOK'
    BY <1>3, TypeFacts DEF EnqueueRead, Goto, LocalsOK, SessionPC, InHand, Busy
  <2>3. QED
    BY <2>1, <2>2 DEF TypeOK, TablesOK, LocalsOK
<1>4. ASSUME NEW C \in SUBSET Keys, StoreDetail(s, C) PROVE TypeOK'
  <2>1. key[s] \in Keys
    BY <1>4, TypeFacts DEF StoreDetail, LocalsOK, InHand, Busy
  <2>2. TablesOK'
    BY <1>4, <2>1, TypeFacts, TablesKept DEF StoreDetail
  <2>3. LocalsOK'
    BY <1>4, TypeFacts, DraftTypes DEF StoreDetail, Goto, LocalsOK, SessionPC, InHand, Busy
  <2>4. QED
    BY <2>2, <2>3 DEF TypeOK, TablesOK, LocalsOK
<1>5. ASSUME StoreDetailOnly(s) PROVE TypeOK'
  <2>1. key[s] \in Keys
    BY <1>5, TypeFacts DEF StoreDetailOnly, LocalsOK, InHand, Busy
  <2>2. TablesOK'
    BY <1>5, <2>1, TypeFacts, TablesKept DEF StoreDetailOnly
  <2>3. LocalsOK'
    BY <1>5, TypeFacts, LeaveDetailType DEF StoreDetailOnly
  <2>4. QED
    BY <2>2, <2>3 DEF TypeOK, TablesOK, LocalsOK
<1>6. ASSUME StoreCard(s) PROVE TypeOK'
  <2>1. key[s] \in Keys
    BY <1>6, TypeFacts DEF StoreCard, LocalsOK, InHand
  <2>2. TablesOK'
    BY <1>6, <2>1, TypeFacts, TablesKept DEF StoreCard
  <2>3. LocalsOK'
    BY <1>6, <2>1, TypeFacts, DraftTypes DEF StoreCard, Goto, LocalsOK, SessionPC, InHand, Busy
  <2>4. QED
    BY <2>2, <2>3 DEF TypeOK, TablesOK, LocalsOK
<1>7. ASSUME NextIntent(s), crashes' \in Nat PROVE LocalsOK'
  <2>1. CASE intents[s] = {key[s]}
    BY <1>7, <2>1, TypeFacts, LeaveDetailType DEF NextIntent
  <2>2. CASE intents[s] # {key[s]}
    BY <1>7, <2>2, TypeFacts DEF NextIntent, Goto, LocalsOK, SessionPC, InHand, Busy
  <2>3. QED
    BY <2>1, <2>2
<1>8. ASSUME EnqueueCheck(s) PROVE TypeOK'
  <2>1. TablesOK'
    BY <1>8, TypeFacts DEF EnqueueCheck, TablesOK, StoreTypeOK, storeVars
  <2>2. LocalsOK'
    <3>1. CASE NextIntent(s)
      BY <1>7, <1>8, <3>1, TypeFacts DEF EnqueueCheck
    <3>2. CASE /\ \E label \in {"skip", "insert"} : Goto(s, label)
               /\ UNCHANGED <<key, draft, token, cards, intents, saw>>
      <4>1. pc[s] \in InHand
        BY <1>8 DEF EnqueueCheck, InHand
      <4>2. QED
        BY <1>8, <3>2, <4>1, TypeFacts
        DEF EnqueueCheck, Goto, LocalsOK, SessionPC, InHand, Busy
    <3>3. QED
      BY <1>8, <3>1, <3>2 DEF EnqueueCheck
  <2>3. QED
    BY <2>1, <2>2 DEF TypeOK, TablesOK, LocalsOK
<1>9. ASSUME EnqueueInsert(s) PROVE TypeOK'
  <2>1. key[s] \in Keys
    BY <1>9, TypeFacts DEF EnqueueInsert, LocalsOK, InHand
  <2>2. TablesOK'
    BY <1>9, <2>1, TypeFacts, TablesKept DEF EnqueueInsert
  <2>3. LocalsOK'
    BY <1>7, <1>9, TypeFacts DEF EnqueueInsert
  <2>4. QED
    BY <2>2, <2>3 DEF TypeOK, TablesOK, LocalsOK
<1>10. ASSUME EnqueueSkip(s) PROVE TypeOK'
  <2>1. key[s] \in Keys
    BY <1>10, TypeFacts DEF EnqueueSkip, LocalsOK, InHand
  <2>2. TablesOK'
    BY <1>10, <2>1, TypeFacts, TablesKept DEF EnqueueSkip, Status
  <2>3. LocalsOK'
    BY <1>7, <1>10, TypeFacts DEF EnqueueSkip
  <2>4. QED
    BY <2>2, <2>3 DEF TypeOK, TablesOK, LocalsOK
<1>11. ASSUME GiveUpDetail(s) PROVE TypeOK'
  <2>1. TablesOK'
    BY <1>11, TypeFacts DEF GiveUpDetail, TablesOK, StoreTypeOK, storeVars
  <2>2. LocalsOK'
    BY <1>11, TypeFacts, LeaveDetailType DEF GiveUpDetail
  <2>3. QED
    BY <2>1, <2>2 DEF TypeOK, TablesOK, LocalsOK
<1>12. QED
  BY <1>1, <1>2, <1>3, <1>4, <1>5, <1>6, <1>8, <1>9, <1>10, <1>11, TypeFacts, ReadListingType
  DEF SessionStep

\* The clock.
LEMMA TickType == ASSUME TypeOK, Tick PROVE TypeOK'
<1>1. TablesOK'
  BY TypeFacts, AgeTablesEffect DEF Tick, TablesOK, StoreTypeOK, Job
<1>2. ASSUME NEW p \in Procs PROVE draft'[p] \in Draft
  <2>1. draft[p] \in Draft /\ draft'[p] = [draft[p] EXCEPT !.row = Older(@)]
    BY TypeFacts DEF Tick
  <2>2. Older(draft[p].row) \in Row
    BY <2>1, OlderType DEF Draft
  <2>3. QED
    BY <2>1, <2>2 DEF Draft
<1>3. LocalsOK'
  BY <1>2, TypeFacts DEF Tick, LocalsOK
<1>4. QED
  BY <1>1, <1>3 DEF TypeOK, TablesOK, LocalsOK

LEMMA TypeStep == TypeOK /\ [Next]_vars => TypeOK'
<1> SUFFICES ASSUME TypeOK, [Next]_vars PROVE TypeOK'
  OBVIOUS
<1>1. CASE UNCHANGED vars
  BY <1>1 DEF vars, locals, storeVars, TypeOK, StoreTypeOK
<1>2. CASE Next
  BY <1>2, WorkerType, SessionType, TickType DEF Next
<1>3. QED
  BY <1>1, <1>2

\* Every variable keeps its type, and a job has a token exactly while it is
\* leased, in every behaviour: the lease columns that claim_hydration sets
\* together are cleared together.
THEOREM TypeCorrect == Spec => []TypeOK
  BY InitType, TypeStep, PTL DEF Spec

-----------------------------------------------------------------------------
(* Strict FIFO.                                                            *)

\* What one step can do to the jobs.
JobChange ==
  \/ UNCHANGED <<job, nextId>>
  \/ AgeTables /\ UNCHANGED nextId
  \/ \E k \in Keys, st \in Status \ {"none", "leased"} :
       /\ SetStatus(k, st) /\ UNCHANGED nextId
       /\ job[k].status # "none"
       /\ st = "queued" => job[k].attempts > 0
  \/ \E k \in Keys : LeaseJob(k) /\ Oldest(k) /\ UNCHANGED nextId
  \/ \E k \in Keys : InsertJob(k) /\ job[k].status = "none"

\* A process with a job in hand has it from the table.
LEMMA KeyInHand ==
  ASSUME TypeOK
  PROVE  /\ \A w \in Workers : pc[w] \in Busy => key[w] \in Keys
         /\ \A s \in Sessions : pc[s] \in {"check", "insert", "skip"} => key[s] \in Keys
  BY TypeFacts DEF LocalsOK, InHand, Busy, Procs

LEMMA JobChanges == ASSUME TypeOK, JobsInHand, [Next]_vars PROVE JobChange
<1>1. CASE UNCHANGED vars
  BY <1>1 DEF vars, storeVars, JobChange
<1>2. ASSUME NEW w \in Workers, WorkerStep(w) \/ Kill(w) \/ Restart(w)
      PROVE  JobChange
  <2>1. ASSUME NEW k \in Keys, ClaimSkip(w, k) PROVE JobChange
    BY <2>1 DEF ClaimSkip, JobChange, Status, Oldest, Claimable
  <2>2. ASSUME NEW k \in Keys, ClaimLease(w, k) PROVE JobChange
    BY <2>2 DEF ClaimLease, JobChange
  <2>3. ASSUME CancelUnavailable(w) PROVE JobChange
    <3>1. key[w] \in Keys /\ job[key[w]].status # "none"
      BY <2>3, KeyInHand DEF CancelUnavailable, Busy, JobsInHand
    <3>2. QED
      BY <2>3, <3>1 DEF CancelUnavailable, JobChange, Status
  <2>4. ASSUME SettleJob(w) PROVE JobChange
    <3>1. key[w] \in Keys /\ job[key[w]].attempts > 0 /\ job[key[w]].status # "none"
      BY <2>4, KeyInHand DEF SettleJob, Busy, JobsInHand
    <3>2. QED
      BY <2>4, <3>1 DEF SettleJob, JobChange, Status
  <2>5. ASSUME \/ ClaimRead(w) \/ ReadListing(w) \/ WriteDetail(w) \/ AckSelect(w)
               \/ FailSelect(w) \/ Kill(w) \/ Restart(w)
        PROVE  JobChange
    BY <2>5 DEF ClaimRead, ReadListing, WriteDetail, AckSelect, FailSelect, Kill, Restart,
                storeVars, JobChange
  <2>6. QED
    BY <1>2, <2>1, <2>2, <2>3, <2>4, <2>5 DEF WorkerStep
<1>3. ASSUME NEW s \in Sessions, SessionStep(s) PROVE JobChange
  <2>1. ASSUME EnqueueInsert(s) PROVE JobChange
    BY <2>1, KeyInHand DEF EnqueueInsert, JobChange
  <2>2. ASSUME EnqueueSkip(s) PROVE JobChange
    <3>1. key[s] \in Keys /\ job[key[s]].status # "none"
      BY <2>2, KeyInHand DEF EnqueueSkip, JobsInHand
    <3>2. QED
      BY <2>2, <3>1 DEF EnqueueSkip, JobChange, Status
  <2>3. ASSUME \/ \E k \in Keys : Lookup(s, k) \/ ReadCard(s, k) \/ EnqueueRead(s, k)
               \/ ReadListing(s)
               \/ \E C \in SUBSET Keys : StoreDetail(s, C)
               \/ StoreDetailOnly(s) \/ StoreCard(s) \/ EnqueueCheck(s) \/ GiveUpDetail(s)
        PROVE  JobChange
    BY <2>3 DEF Lookup, ReadCard, EnqueueRead, ReadListing, StoreDetail, StoreDetailOnly,
                StoreCard, EnqueueCheck, GiveUpDetail, storeVars, JobChange
  <2>4. QED
    BY <1>3, <2>1, <2>2, <2>3 DEF SessionStep
<1>4. CASE Tick
  BY <1>4 DEF Tick, JobChange
<1>5. QED
  BY <1>1, <1>2, <1>3, <1>4 DEF Next

\* A job is never deleted, and its claims are only counted up.
LEMMA JobsGrow ==
  ASSUME TypeOK, JobsInHand, JobChange, NEW k \in Keys
  PROVE  /\ job[k].status # "none" => job'[k].status # "none"
         /\ job[k].attempts > 0 => job'[k].attempts > 0
         /\ job'[k].attempts > 0 => job'[k].status # "none"
<1> DEFINE Grown == /\ job[k].status # "none" => job'[k].status # "none"
                    /\ job[k].attempts > 0 => job'[k].attempts > 0
                    /\ job'[k].attempts > 0 => job'[k].status # "none"
<1>1. job \in [Keys -> Job] /\ listing \in [Keys -> Row] /\ nextId \in Nat
  BY TypeFacts
<1>2. job[k].attempts \in Nat /\ (job[k].attempts > 0 => job[k].status # "none")
  BY TypeFacts DEF JobsInHand
<1>3. CASE UNCHANGED <<job, nextId>>
  BY <1>2, <1>3
<1>4. CASE AgeTables /\ UNCHANGED nextId
  BY <1>1, <1>2, <1>4, AgeTablesEffect
<1>5. ASSUME NEW j \in Keys, NEW st \in Status \ {"none", "leased"}, SetStatus(j, st)
      PROVE  Grown
  BY <1>1, <1>2, <1>5, SetStatusEffect
<1>6. ASSUME NEW j \in Keys, LeaseJob(j) PROVE Grown
  <2>1. job[j].attempts \in Nat
    BY TypeFacts
  <2>2. QED
    BY <1>1, <1>2, <1>6, <2>1, LeaseJobEffect
<1>7. ASSUME NEW j \in Keys, InsertJob(j), job[j].status = "none" PROVE Grown
  BY <1>1, <1>2, <1>7, InsertJobEffect
<1>8. QED
  BY <1>3, <1>4, <1>5, <1>6, <1>7 DEF JobChange

\* Distinct ids, and the order of first claims, survive every change of a job:
\* a claim takes the oldest waiting job, and a new job is the youngest.
LEMMA OrderKept ==
  ASSUME TypeOK, JobsInHand, IdsDistinct, FifoFirstClaim, JobChange
  PROVE  IdsDistinct' /\ FifoFirstClaim'
<1>1. job \in [Keys -> Job] /\ listing \in [Keys -> Row] /\ nextId \in Nat
  BY TypeFacts
<1>2. \A k \in Keys : job[k].attempts > 0 => job[k].status # "none"
  BY DEF JobsInHand
<1>id. \A k \in Keys : job[k].id \in Int
  BY <1>1 DEF Job
<1>3. CASE UNCHANGED <<job, nextId>>
  BY <1>3 DEF IdsDistinct, FifoFirstClaim
<1>4. CASE AgeTables /\ UNCHANGED nextId
  BY <1>1, <1>4, AgeTablesEffect DEF IdsDistinct, FifoFirstClaim
<1>5. ASSUME NEW i \in Keys, NEW st \in Status \ {"none", "leased"},
             SetStatus(i, st), UNCHANGED nextId, job[i].status # "none",
             st = "queued" => job[i].attempts > 0
      PROVE  IdsDistinct' /\ FifoFirstClaim'
  BY <1>1, <1>2, <1>id, <1>5, SetStatusEffect DEF IdsDistinct, FifoFirstClaim
<1>6. ASSUME NEW i \in Keys, LeaseJob(i), Oldest(i), UNCHANGED nextId
      PROVE  IdsDistinct' /\ FifoFirstClaim'
  <2>1. \A j \in Keys : job[j].status = "queued" => job[i].id <= job[j].id
    BY <1>6 DEF Oldest, Claimable
  <2>2. job[i].status # "none"
    BY <1>6 DEF Oldest, Claimable
  <2>3. /\ \A k \in Keys : job'[k].id = job[k].id
        /\ job'[i].status = "leased"
        /\ \A k \in Keys : k # i => job'[k] = job[k]
    BY <1>1, <1>6, LeaseJobEffect
  <2>4. IdsDistinct'
    BY <1>2, <1>id, <1>6, <2>2, <2>3 DEF IdsDistinct
  <2>5. FifoFirstClaim'
    <3>1. SUFFICES ASSUME NEW j \in Keys, NEW k \in Keys,
                          job'[j].status = "queued", job'[j].attempts = 0,
                          job'[k].attempts > 0
                   PROVE  job[k].id < job[j].id
      BY <2>3 DEF FifoFirstClaim
    <3>2. j # i /\ job[j].status = "queued" /\ job[j].attempts = 0
      BY <3>1, <2>3
    <3>3. CASE k = i
      <4>1. job[i].id <= job[j].id /\ job[i].id # job[j].id
        BY <2>1, <2>2, <3>2 DEF IdsDistinct
      <4>2. QED
        BY <1>2, <1>id, <3>3, <4>1
    <3>4. CASE k # i
      BY <2>3, <3>1, <3>2, <3>4 DEF FifoFirstClaim
    <3>5. QED
      BY <3>3, <3>4
  <2>6. QED
    BY <2>4, <2>5
<1>7. ASSUME NEW i \in Keys, InsertJob(i), job[i].status = "none"
      PROVE  IdsDistinct' /\ FifoFirstClaim'
  <2>1. /\ nextId' = nextId + 1
        /\ job'[i].id = nextId /\ job'[i].attempts = 0
        /\ \A k \in Keys : k # i => job'[k] = job[k]
    BY <1>1, <1>7, InsertJobEffect
  <2>2. \A k \in Keys : job[k].id < nextId
    BY DEF IdsDistinct
  <2>3. IdsDistinct'
    <3>1. \A k \in Keys : job'[k].id < nextId'
      BY <1>1, <1>2, <1>id, <2>1, <2>2
    <3>2. \A j, k \in Keys : /\ job'[j].status # "none" /\ job'[k].status # "none"
                            /\ job'[j].id = job'[k].id
                            => j = k
      BY <1>1, <1>2, <1>id, <2>1, <2>2 DEF IdsDistinct
    <3>3. QED
      BY <3>1, <3>2 DEF IdsDistinct
  <2>4. FifoFirstClaim'
    BY <1>1, <1>2, <1>id, <2>1, <2>2 DEF FifoFirstClaim
  <2>5. QED
    BY <2>3, <2>4
<1>8. QED
  BY <1>3, <1>4, <1>5, <1>6, <1>7 DEF JobChange

\* Only a claim puts a job into a worker's hands.
LEMMA BusyKept ==
  ASSUME TypeOK, [Next]_vars, NEW w \in Workers, pc'[w] \in Busy,
         ~ \E k \in Keys : ClaimLease(w, k)
  PROVE  pc[w] \in Busy /\ key'[w] = key[w]
<1> USE DEF Procs
<1>1. CASE UNCHANGED vars
  BY <1>1 DEF vars, locals
<1>2. ASSUME NEW v \in Workers, WorkerStep(v) \/ Kill(v) \/ Restart(v)
      PROVE  pc[w] \in Busy /\ key'[w] = key[w]
  <2>1. CASE v # w
    BY <1>2, <2>1, TypeFacts
    DEF WorkerStep, ClaimSkip, ClaimLease, ClaimRead, CancelUnavailable, ReadListing, WriteDetail,
        AckSelect, FailSelect, SettleJob, Kill, Restart, LeaveJob, Goto, locals, LocalsOK
  <2>2. CASE v = w
    BY <1>2, <2>2, TypeFacts
    DEF WorkerStep, ClaimSkip, ClaimRead, CancelUnavailable, ReadListing, WriteDetail,
        AckSelect, FailSelect, SettleJob, Kill, Restart, LeaveJob, Goto, locals, LocalsOK, Busy, Down
  <2>3. QED
    BY <2>1, <2>2
<1>3. ASSUME NEW s \in Sessions, SessionStep(s)
      PROVE  pc[w] \in Busy /\ key'[w] = key[w]
  BY <1>3, TypeFacts
  DEF SessionStep, Lookup, ReadCard, EnqueueRead, ReadListing, StoreDetail, StoreDetailOnly,
      StoreCard, EnqueueCheck, EnqueueInsert, EnqueueSkip, GiveUpDetail, NextIntent, LeaveDetail,
      Goto, LocalsOK
<1>4. CASE Tick
  BY <1>4 DEF Tick
<1>5. QED
  BY <1>1, <1>2, <1>3, <1>4 DEF Next

\* What a process has in hand stays in the table.
LEMMA HandsKept ==
  ASSUME TypeOK, JobsInHand, [Next]_vars
  PROVE  JobsInHand'
<1> USE DEF Procs
<1>0. JobChange
  BY JobChanges
<1>1. /\ \A k \in Keys : job[k].attempts > 0 => job'[k].attempts > 0
      /\ \A k \in Keys : job[k].status # "none" => job'[k].status # "none"
      /\ \A k \in Keys : job'[k].attempts > 0 => job'[k].status # "none"
  BY <1>0, JobsGrow
<1>2. ASSUME NEW w \in Workers, pc'[w] \in Busy PROVE job'[key'[w]].attempts > 0
  <2>1. CASE \E k \in Keys : ClaimLease(w, k)
    <3>1. PICK k \in Keys : ClaimLease(w, k)
      BY <2>1
    <3>2. key'[w] = k
      BY <3>1, TypeFacts DEF ClaimLease, LocalsOK
    <3>3. job \in [Keys -> Job] /\ job[k].attempts \in Nat
      BY TypeFacts
    <3>4. job'[k].attempts = job[k].attempts + 1
      <4>1. LeaseJob(k)
        BY <3>1 DEF ClaimLease
      <4>2. QED
        BY <3>3, <4>1, LeaseJobEffect
    <3>5. QED
      BY <3>2, <3>3, <3>4
  <2>2. CASE ~ \E k \in Keys : ClaimLease(w, k)
    <3>1. pc[w] \in Busy /\ key'[w] = key[w]
      BY <1>2, <2>2, BusyKept
    <3>2. key[w] \in Keys /\ job[key[w]].attempts > 0
      BY <3>1, KeyInHand DEF JobsInHand
    <3>3. QED
      BY <1>1, <3>1, <3>2
  <2>3. QED
    BY <2>1, <2>2
<1>3. ASSUME NEW s \in Sessions, pc'[s] = "skip" \/ (pc'[s] = "check" /\ saw'[s] # "none")
      PROVE  job'[key'[s]].status # "none"
  <2>1. CASE UNCHANGED vars
    BY <1>3, <2>1 DEF vars, locals, storeVars, JobsInHand
  <2>2. CASE pc'[s] = pc[s] /\ key'[s] = key[s] /\ saw'[s] = saw[s]
    <3>1. key[s] \in Keys /\ job[key[s]].status # "none"
      BY <1>3, <2>2, KeyInHand DEF JobsInHand
    <3>2. QED
      BY <1>1, <2>2, <3>1
  <2>3. ASSUME NEW c \in Keys, EnqueueRead(s, c) PROVE job'[key'[s]].status # "none"
    <3>1. key'[s] = c /\ job' = job /\ saw'[s] # "none" /\ job[c].status # "none"
      BY <1>3, <2>3, TypeFacts DEF EnqueueRead, Goto, LocalsOK, storeVars
    <3>2. QED
      BY <3>1
  <2>4. ASSUME EnqueueCheck(s) PROVE job'[key'[s]].status # "none"
    <3>1. pc[s] = "check" /\ saw[s] = "live" /\ key'[s] = key[s] /\ job' = job
      BY <1>3, <2>4, TypeFacts
      DEF EnqueueCheck, NextIntent, LeaveDetail, Goto, LocalsOK, storeVars
    <3>2. QED
      BY <3>1 DEF JobsInHand
  <2>5. CASE SessionStep(s)
    <3>1. CASE ~ EnqueueCheck(s) /\ ~ \E c \in Keys : EnqueueRead(s, c)
      BY <1>3, <2>5, <3>1, TypeFacts
      DEF SessionStep, Lookup, ReadCard, ReadListing, StoreDetail, StoreDetailOnly, StoreCard,
          EnqueueInsert, EnqueueSkip, GiveUpDetail, NextIntent, LeaveDetail, Goto, LocalsOK
    <3>2. QED
      BY <2>3, <2>4, <3>1
  <2>6. ASSUME NEW w \in Workers, WorkerStep(w) \/ Kill(w) \/ Restart(w)
        PROVE  pc'[s] = pc[s] /\ key'[s] = key[s] /\ saw'[s] = saw[s]
    BY <2>6, TypeFacts
    DEF WorkerStep, ClaimSkip, ClaimLease, ClaimRead, CancelUnavailable, ReadListing, WriteDetail,
        AckSelect, FailSelect, SettleJob, Kill, Restart, LeaveJob, Goto, locals, LocalsOK
  <2>7. ASSUME NEW r \in Sessions, r # s, SessionStep(r)
        PROVE  pc'[s] = pc[s] /\ key'[s] = key[s] /\ saw'[s] = saw[s]
    BY <2>7, TypeFacts
    DEF SessionStep, Lookup, ReadCard, EnqueueRead, ReadListing, StoreDetail, StoreDetailOnly,
        StoreCard, EnqueueCheck, EnqueueInsert, EnqueueSkip, GiveUpDetail, NextIntent,
        LeaveDetail, Goto, LocalsOK
  <2>8. CASE Tick
    BY <2>2, <2>8 DEF Tick
  <2>9. QED
    BY <2>1, <2>2, <2>5, <2>6, <2>7, <2>8 DEF Next
<1>4. QED
  BY <1>2, <1>3, <1>1 DEF JobsInHand

LEMMA InitFifo == Init => FifoInv
<1> SUFFICES ASSUME Init PROVE FifoInv
  OBVIOUS
<1>1. TypeOK
  BY InitType
<1>2. Cardinality(Keys) \in Nat
  BY KeysFinite, FS_CardinalityType
<1>3. /\ \A k \in Keys : Backlog[k] \in 0 .. Cardinality(Keys)
      /\ \A k \in Keys : job[k] = IF Backlog[k] = 0 THEN NoJob ELSE NewJob(Backlog[k])
  BY BacklogOrdered DEF Init, StoreInit
<1>4. \A k \in Keys : job[k].attempts = 0 /\ job[k].id = Backlog[k]
  <2> SUFFICES ASSUME NEW k \in Keys PROVE job[k].attempts = 0 /\ job[k].id = Backlog[k]
    OBVIOUS
  <2>1. CASE Backlog[k] = 0
    BY <1>3, <2>1 DEF NoJob
  <2>2. CASE Backlog[k] # 0
    <3>1. job[k] = NewJob(Backlog[k])
      BY <1>3, <2>2
    <3>2. QED
      BY <3>1 DEF NewJob
  <2>3. QED
    BY <2>1, <2>2
<1>0. \A k \in Keys : ~ (job[k].attempts > 0)
  BY <1>4
<1>5. JobsInHand
  <2>1. \A p \in Procs : pc[p] = "idle"
    BY DEF Init
  <2>2. QED
    BY <1>0, <2>1 DEF JobsInHand, Busy, Procs
<1>6. IdsDistinct
  <2>1. \A k \in Keys : job[k].id < nextId
    BY <1>2, <1>3, <1>4 DEF Init, StoreInit
  <2>2. \A k \in Keys : job[k].status # "none" => Backlog[k] # 0
    BY <1>3 DEF NoJob
  <2>3. QED
    BY <1>4, <2>1, <2>2, BacklogOrdered DEF IdsDistinct
<1>7. FifoFirstClaim
  BY <1>4 DEF FifoFirstClaim
<1>8. QED
  BY <1>1, <1>5, <1>6, <1>7 DEF FifoInv

LEMMA FifoStep == FifoInv /\ [Next]_vars => FifoInv'
<1> SUFFICES ASSUME FifoInv, [Next]_vars PROVE FifoInv'
  OBVIOUS
<1>1. TypeOK /\ JobsInHand /\ IdsDistinct /\ FifoFirstClaim
  BY DEF FifoInv
<1>2. QED
  BY <1>1, TypeStep, JobChanges, HandsKept, OrderKept DEF FifoInv

\* Strict FIFO for any number of jobs and workers, overruns and kills
\* included: claim_hydration's ORDER BY created_at, id never lets a job be
\* claimed while one enqueued earlier still waits for its first claim.
THEOREM StrictFifo == Spec => []FifoFirstClaim
<1>1. Spec => []FifoInv
  BY InitFifo, FifoStep, PTL DEF Spec
<1>2. FifoInv => FifoFirstClaim
  BY DEF FifoInv
<1>3. QED
  BY <1>1, <1>2, PTL

-----------------------------------------------------------------------------
(* The lease: one worker per job, and the attempt budget.                  *)

\* The workers of W keep the jobs they have in hand, and a verdict to requeue
\* is based on the attempts the job has.
Keeping(W) ==
  \A w \in W :
    /\ pc'[w] \in Busy <=> pc[w] \in Busy
    /\ pc[w] \in Busy => key'[w] = key[w] /\ token'[w] = token[w]
    /\ pc'[w] = "requeue" => pc[w] = "requeue" \/ job[key[w]].attempts < MaxAttempts

\* What a step is to the queue.
Quiet == Keeping(Workers) /\ UNCHANGED <<job, crashes>>
Skipping(k) ==
  /\ Keeping(Workers) /\ UNCHANGED crashes
  /\ job[k].status # "none" /\ SetStatus(k, "skipped")
  /\ Claimable(k) \/ \E s \in Sessions : pc[s] = "skip" /\ key[s] = k
Enqueueing(k) ==
  /\ Keeping(Workers) /\ UNCHANGED crashes
  /\ job[k].status = "none" /\ InsertJob(k)
Aging ==
  /\ Keeping(Workers) /\ UNCHANGED crashes
  /\ \A w \in Workers :
       pc[w] \in Busy /\ HoldsLease(key[w], token[w]) => job[key[w]].lease > 1
  /\ AgeTables
Claiming(w, k) ==
  /\ Keeping(Workers \ {w}) /\ UNCHANGED crashes
  /\ pc[w] \notin Busy /\ pc'[w] = "reread"
  /\ key'[w] = k /\ token'[w] = job[k].attempts + 1
  /\ Claimable(k) /\ LeaseJob(k)
Leaving(w) == Keeping(Workers \ {w}) /\ pc[w] \in Busy /\ pc'[w] \notin Busy
Settling(w) ==
  /\ Leaving(w) /\ UNCHANGED crashes
  /\ \E st \in Settled \cup {"queued"} :
       /\ st = "queued" => job[key[w]].attempts < MaxAttempts
       /\ SetStatus(key[w], st)
Losing(w) == Leaving(w) /\ UNCHANGED <<job, crashes>> /\ ~ HoldsLease(key[w], token[w])
Dying(w) == Leaving(w) /\ UNCHANGED job /\ crashes' = crashes + 1

QueueStep ==
  \/ Quiet
  \/ \E k \in Keys : Skipping(k) \/ Enqueueing(k)
  \/ Aging
  \/ \E w \in Workers, k \in Keys : Claiming(w, k)
  \/ \E w \in Workers : Settling(w) \/ Losing(w) \/ Dying(w)

\* A session leaves the workers alone.
LEMMA SessionsKeep ==
  ASSUME TypeOK, NEW s \in Sessions, SessionStep(s)
  PROVE  Keeping(Workers) /\ UNCHANGED crashes
  BY TypeFacts
  DEF SessionStep, Lookup, ReadCard, EnqueueRead, ReadListing, StoreDetail, StoreDetailOnly,
      StoreCard, EnqueueCheck, EnqueueInsert, EnqueueSkip, GiveUpDetail, NextIntent, LeaveDetail,
      Goto, LocalsOK, Keeping, Procs

\* A worker leaves the other workers alone.
LEMMA WorkersKeep ==
  ASSUME TypeOK, NEW w \in Workers, WorkerStep(w) \/ Kill(w) \/ Restart(w)
  PROVE  Keeping(Workers \ {w})
  BY TypeFacts
  DEF WorkerStep, ClaimSkip, ClaimLease, ClaimRead, CancelUnavailable, ReadListing, WriteDetail,
      AckSelect, FailSelect, SettleJob, Kill, Restart, LeaveJob, Goto, locals, LocalsOK, Keeping,
      Procs

\* Every step is one of these, when no worker outlives its lease.
LEMMA QueueSteps ==
  ASSUME ~Overruns, TypeOK, JobsInHand, LeaseInHand, VerdictsValid, [Next]_vars
  PROVE  QueueStep
<1> USE DEF Procs
<1>1. CASE UNCHANGED vars
  BY <1>1 DEF vars, locals, storeVars, Keeping, Quiet, QueueStep
<1>2. CASE Tick
  <2>1. Aging
    BY <1>2 DEF Tick, Keeping, Aging
  <2>2. QED
    BY <2>1 DEF QueueStep
<1>3. ASSUME NEW s \in Sessions, SessionStep(s) PROVE QueueStep
  <2>0. Keeping(Workers) /\ UNCHANGED crashes
    BY <1>3, SessionsKeep
  <2>1. ASSUME EnqueueInsert(s) PROVE QueueStep
    <3>1. Enqueueing(key[s]) /\ key[s] \in Keys
      BY <2>0, <2>1, KeyInHand DEF EnqueueInsert, Enqueueing
    <3>2. QED
      BY <3>1 DEF QueueStep
  <2>2. ASSUME EnqueueSkip(s) PROVE QueueStep
    <3>1. key[s] \in Keys /\ pc[s] = "skip" /\ job[key[s]].status # "none"
      BY <2>2, KeyInHand DEF EnqueueSkip, JobsInHand
    <3>2. SetStatus(key[s], "skipped")
      BY <2>2 DEF EnqueueSkip
    <3>3. Skipping(key[s])
      BY <2>0, <3>1, <3>2 DEF Skipping
    <3>4. QED
      BY <3>1, <3>3 DEF QueueStep
  <2>3. ASSUME UNCHANGED job PROVE QueueStep
    BY <2>0, <2>3 DEF Quiet, QueueStep
  <2>4. EnqueueInsert(s) \/ EnqueueSkip(s) \/ UNCHANGED job
    BY <1>3
    DEF SessionStep, Lookup, ReadCard, EnqueueRead, ReadListing, StoreDetail, StoreDetailOnly,
        StoreCard, EnqueueCheck, GiveUpDetail, storeVars
  <2>5. QED
    BY <2>1, <2>2, <2>3, <2>4
<1>4. ASSUME NEW w \in Workers, WorkerStep(w) \/ Kill(w) \/ Restart(w) PROVE QueueStep
  <2>0. Keeping(Workers \ {w})
    BY <1>4, WorkersKeep
  <2>q. ASSUME UNCHANGED <<job, crashes>>, Keeping({w}) PROVE QueueStep
    BY <2>0, <2>q DEF Keeping, Quiet, QueueStep
  <2>l. ASSUME UNCHANGED <<job, crashes>>, pc[w] \in Busy, pc'[w] \notin Busy,
               ~ HoldsLease(key[w], token[w])
        PROVE  QueueStep
    BY <2>0, <2>l DEF Leaving, Losing, QueueStep
  <2>1. ASSUME NEW k \in Keys, ClaimSkip(w, k) PROVE QueueStep
    <3>1. job[k].status # "none" /\ Claimable(k)
      BY <2>1 DEF ClaimSkip, Oldest, Claimable
    <3>2. Keeping(Workers)
      BY <2>1 DEF ClaimSkip, locals, Keeping
    <3>3. Skipping(k)
      BY <2>1, <3>1, <3>2 DEF ClaimSkip, Skipping
    <3>4. QED
      BY <3>3 DEF QueueStep
  <2>2. ASSUME NEW k \in Keys, ClaimLease(w, k) PROVE QueueStep
    <3>1. Claiming(w, k)
      BY <2>0, <2>2, TypeFacts DEF ClaimLease, Oldest, Goto, LocalsOK, Claiming, Busy
    <3>2. QED
      BY <3>1 DEF QueueStep
  <2>3. ASSUME ClaimRead(w) PROVE QueueStep
    <3>0. pc[w] \in Busy /\ key[w] \in Keys /\ UNCHANGED <<job, crashes>>
      BY <2>3, KeyInHand DEF ClaimRead, Busy, storeVars
    <3>1. CASE job[key[w]].token # 0
      <4>1. HoldsLease(key[w], token[w])
        BY <3>0, <3>1 DEF LeaseInHand, TypeOK
      <4>2. Keeping({w})
        BY <2>3, <3>1, <4>1, TypeFacts DEF ClaimRead, HoldsLease, Goto, LocalsOK, Keeping, Busy
      <4>3. QED
        BY <2>q, <3>0, <4>2
    <3>2. CASE job[key[w]].token = 0
      <4>1. ~ HoldsLease(key[w], token[w])
        BY <3>0, <3>2 DEF HoldsLease, TypeOK
      <4>2. pc'[w] \notin Busy
        BY <2>3, <3>2, TypeFacts DEF ClaimRead, LeaveJob, Goto, LocalsOK, Busy
      <4>3. QED
        BY <2>l, <3>0, <4>1, <4>2
    <3>3. QED
      BY <3>1, <3>2
  <2>4. ASSUME CancelUnavailable(w) PROVE QueueStep
    <3>1. Settling(w)
      BY <2>0, <2>4, TypeFacts
      DEF CancelUnavailable, LeaveJob, Goto, LocalsOK, Busy, Leaving, Settling, Settled
    <3>2. QED
      BY <3>1 DEF QueueStep
  <2>5. ASSUME ReadListing(w) \/ WriteDetail(w) \/ AckSelect(w) \/ Restart(w) PROVE QueueStep
    <3>1. Keeping({w}) /\ UNCHANGED <<job, crashes>>
      BY <2>5, TypeFacts
      DEF ReadListing, WriteDetail, AckSelect, Restart, Goto, LocalsOK, Keeping, Busy, Down, storeVars
    <3>2. QED
      BY <2>q, <3>1
  <2>6. ASSUME FailSelect(w) PROVE QueueStep
    <3>0. pc[w] \in Busy /\ UNCHANGED <<job, crashes>>
      BY <2>6 DEF FailSelect, Busy, storeVars
    <3>1. CASE HoldsLease(key[w], token[w])
      <4>1. Keeping({w})
        BY <2>6, <3>1, TypeFacts
        DEF FailSelect, StatusAfterFailure, Goto, LocalsOK, Keeping, Busy
      <4>2. QED
        BY <2>q, <3>0, <4>1
    <3>2. CASE ~ HoldsLease(key[w], token[w])
      <4>1. pc'[w] \notin Busy
        BY <2>6, <3>2, TypeFacts DEF FailSelect, LeaveJob, Goto, LocalsOK, Busy
      <4>2. QED
        BY <2>l, <3>0, <3>2, <4>1
    <3>3. QED
      BY <3>1, <3>2
  <2>7. ASSUME SettleJob(w) PROVE QueueStep
    <3>1. Leaving(w) /\ UNCHANGED crashes
      BY <2>0, <2>7, TypeFacts DEF SettleJob, LeaveJob, Goto, LocalsOK, Busy, Leaving
    <3>2. CASE pc[w] = "requeue"
      <4>1. SetStatus(key[w], "queued") /\ job[key[w]].attempts < MaxAttempts
        BY <2>7, <3>2 DEF SettleJob, VerdictsValid
      <4>2. QED
        BY <3>1, <4>1 DEF Settling, QueueStep
    <3>3. CASE pc[w] # "requeue"
      <4>1. \E st \in {"succeeded", "failed"} : SetStatus(key[w], st)
        BY <2>7, <3>3 DEF SettleJob
      <4>2. QED
        BY <3>1, <4>1 DEF Settling, Settled, QueueStep
    <3>4. QED
      BY <3>2, <3>3
  <2>8. ASSUME Kill(w) PROVE QueueStep
    <3>1. Dying(w)
      BY <2>0, <2>8, TypeFacts
      DEF Kill, LeaveJob, Goto, LocalsOK, Busy, Leaving, Dying, storeVars
    <3>2. QED
      BY <3>1 DEF QueueStep
  <2>9. QED
    BY <1>4, <2>1, <2>2, <2>3, <2>4, <2>5, <2>6, <2>7, <2>8 DEF WorkerStep
<1>5. QED
  BY <1>1, <1>2, <1>3, <1>4 DEF Next

\* Each kind of step keeps the invariant: the worker that has a job in hand
\* holds its lease, so nobody else can claim it, and a leased job in nobody's
\* hands was lost with a killed worker, which pays for its next claim.
LeaseParts ==
  /\ OneWorkerPerJob /\ LeaseInHand /\ VerdictsValid
  /\ RequeueWithinBudget /\ OrphansPaid /\ AttemptsPaidByCrashes

LEMMA LeaseFacts ==
  ASSUME LeaseInv
  PROVE  /\ TypeOK /\ JobsInHand /\ LeaseParts
         /\ job \in [Keys -> Job] /\ listing \in [Keys -> Row] /\ nextId \in Nat
         /\ \A k \in Keys : job[k].attempts \in Int
         /\ \A k \in Keys : job[k].lease \in Int
         /\ MaxAttempts \in Int /\ MaxAttempts > 0 /\ crashes \in Int /\ crashes >= 0
         /\ \A w \in Workers : pc[w] \in Busy => key[w] \in Keys
<1>1. TypeOK
  BY DEF LeaseInv
<1>2. job \in [Keys -> Job]
  BY <1>1, TypeFacts
<1>3. \A k \in Keys : job[k].attempts \in Int
  BY <1>2 DEF Job
<1>4. \A k \in Keys : job[k].lease \in Int
  BY <1>2 DEF Job
<1>5. crashes \in Nat
  BY <1>1, TypeFacts
<1>6. QED
  BY <1>1, <1>2, <1>3, <1>4, <1>5, TypeFacts, KeyInHand, LimitsPositive DEF LeaseInv, LeaseParts

LEMMA QuietKeeps ==
  ASSUME LeaseInv, Quiet
  PROVE  LeaseParts'
<1>f. LeaseParts
  BY LeaseFacts
<1>1. OneWorkerPerJob'
  BY <1>f, LeaseFacts
  DEF LeaseParts, OneWorkerPerJob, Quiet, Keeping
<1>2. LeaseInHand'
  BY <1>f, LeaseFacts
  DEF LeaseParts, LeaseInHand, HoldsLease, Quiet, Keeping
<1>3. VerdictsValid'
  BY <1>f, LeaseFacts
  DEF LeaseParts, VerdictsValid, Busy, Quiet, Keeping
<1>4. RequeueWithinBudget'
  BY <1>f, LeaseFacts
  DEF LeaseParts, RequeueWithinBudget, Quiet, Keeping
<1>5. OrphansPaid'
  BY <1>f, LeaseFacts
  DEF LeaseParts, OrphansPaid, Orphan, AttemptsPaidByCrashes, HoldsLease, Quiet, Keeping
<1>6. AttemptsPaidByCrashes'
  BY <1>f, LeaseFacts
  DEF LeaseParts, AttemptsPaidByCrashes, Quiet, Keeping
<1>7. QED
  BY <1>1, <1>2, <1>3, <1>4, <1>5, <1>6 DEF LeaseParts

LEMMA SkippingKeeps ==
  ASSUME LeaseInv, NEW k \in Keys, Skipping(k)
  PROVE  LeaseParts'
<1>f. LeaseParts
  BY LeaseFacts
<1>j. /\ job'[k].status = "skipped" /\ job'[k].attempts = job[k].attempts
      /\ \A j \in Keys : j # k => job'[j] = job[j]
  <2>1. "skipped" \in Status
    BY DEF Status
  <2>2. QED
    BY <2>1, LeaseFacts, SetStatusEffect DEF Skipping
<1>1. OneWorkerPerJob'
  BY <1>f, <1>j, LeaseFacts
  DEF LeaseParts, OneWorkerPerJob, Skipping, Keeping
<1>2. LeaseInHand'
  BY <1>f, <1>j, LeaseFacts
  DEF LeaseParts, LeaseInHand, HoldsLease, Skipping, Keeping
<1>3. VerdictsValid'
  BY <1>f, <1>j, LeaseFacts
  DEF LeaseParts, VerdictsValid, Busy, Skipping, Keeping
<1>4. RequeueWithinBudget'
  BY <1>f, <1>j, LeaseFacts
  DEF LeaseParts, RequeueWithinBudget, Skipping, Keeping
<1>5. OrphansPaid'
  BY <1>f, <1>j, LeaseFacts
  DEF LeaseParts, OrphansPaid, Orphan, AttemptsPaidByCrashes, HoldsLease, Skipping, Keeping
<1>6. AttemptsPaidByCrashes'
  BY <1>f, <1>j, LeaseFacts
  DEF LeaseParts, AttemptsPaidByCrashes, Skipping, Keeping
<1>7. QED
  BY <1>1, <1>2, <1>3, <1>4, <1>5, <1>6 DEF LeaseParts

LEMMA EnqueueingKeeps ==
  ASSUME LeaseInv, NEW k \in Keys, Enqueueing(k)
  PROVE  LeaseParts'
<1>f. LeaseParts
  BY LeaseFacts
<1>j. /\ job'[k].status = "queued" /\ job'[k].attempts = 0
      /\ \A j \in Keys : j # k => job'[j] = job[j]
  BY LeaseFacts, InsertJobEffect DEF Enqueueing
<1>n. \A w \in Workers : pc[w] \in Busy => key[w] # k
  BY <1>f DEF LeaseParts, LeaseInHand, HoldsLease, Enqueueing
<1>1. OneWorkerPerJob'
  BY <1>f, <1>j, <1>n, LeaseFacts
  DEF LeaseParts, OneWorkerPerJob, Enqueueing, Keeping
<1>2. LeaseInHand'
  BY <1>f, <1>j, <1>n, LeaseFacts
  DEF LeaseParts, LeaseInHand, HoldsLease, Enqueueing, Keeping
<1>3. VerdictsValid'
  BY <1>f, <1>j, <1>n, LeaseFacts
  DEF LeaseParts, VerdictsValid, Busy, Enqueueing, Keeping
<1>4. RequeueWithinBudget'
  BY <1>f, <1>j, <1>n, LeaseFacts
  DEF LeaseParts, RequeueWithinBudget, Enqueueing, Keeping
<1>5. OrphansPaid'
  BY <1>f, <1>j, <1>n, LeaseFacts
  DEF LeaseParts, OrphansPaid, Orphan, AttemptsPaidByCrashes, HoldsLease, Enqueueing, Keeping
<1>6. AttemptsPaidByCrashes'
  BY <1>f, <1>j, <1>n, LeaseFacts
  DEF LeaseParts, AttemptsPaidByCrashes, Enqueueing, Keeping
<1>7. QED
  BY <1>1, <1>2, <1>3, <1>4, <1>5, <1>6 DEF LeaseParts

LEMMA AgingKeeps ==
  ASSUME LeaseInv, Aging
  PROVE  LeaseParts'
<1>f. LeaseParts
  BY LeaseFacts
<1>j. \A k \in Keys :
        /\ job'[k].status = job[k].status /\ job'[k].token = job[k].token
        /\ job'[k].attempts = job[k].attempts
        /\ job'[k].lease = IF job[k].lease > 0 THEN job[k].lease - 1 ELSE 0
  BY LeaseFacts, AgeTablesEffect DEF Aging
<1>1. OneWorkerPerJob'
  BY <1>f, <1>j, LeaseFacts
  DEF LeaseParts, OneWorkerPerJob, Aging, Keeping
<1>2. LeaseInHand'
  BY <1>f, <1>j, LeaseFacts
  DEF LeaseParts, LeaseInHand, HoldsLease, Aging, Keeping
<1>3. VerdictsValid'
  BY <1>f, <1>j, LeaseFacts
  DEF LeaseParts, VerdictsValid, Busy, Aging, Keeping
<1>4. RequeueWithinBudget'
  BY <1>f, <1>j, LeaseFacts
  DEF LeaseParts, RequeueWithinBudget, Aging, Keeping
<1>5. OrphansPaid'
  BY <1>f, <1>j, LeaseFacts
  DEF LeaseParts, OrphansPaid, Orphan, AttemptsPaidByCrashes, HoldsLease, Aging, Keeping
<1>6. AttemptsPaidByCrashes'
  BY <1>f, <1>j, LeaseFacts
  DEF LeaseParts, AttemptsPaidByCrashes, Aging, Keeping
<1>7. QED
  BY <1>1, <1>2, <1>3, <1>4, <1>5, <1>6 DEF LeaseParts

LEMMA ClaimingKeeps ==
  ASSUME LeaseInv, NEW w \in Workers, NEW k \in Keys, Claiming(w, k)
  PROVE  LeaseParts'
<1>f. LeaseParts
  BY LeaseFacts
<1>j. /\ job'[k].status = "leased" /\ job'[k].lease = LeaseTicks
      /\ job'[k].attempts = job[k].attempts + 1 /\ job'[k].token = job[k].attempts + 1
      /\ \A j \in Keys : j # k => job'[j] = job[j]
  BY LeaseFacts, LeaseJobEffect DEF Claiming
<1>n. \A v \in Workers : pc[v] \in Busy => key[v] # k
  BY <1>f, LeaseFacts DEF LeaseParts, LeaseInHand, HoldsLease, Claiming, Claimable
<1>1. OneWorkerPerJob'
  BY <1>f, <1>j, <1>n, LeaseFacts
  DEF LeaseParts, OneWorkerPerJob, Claiming, Claimable, Keeping
<1>2. LeaseInHand'
  <2>1. SUFFICES ASSUME NEW v \in Workers, pc'[v] \in Busy
                 PROVE  \/ HoldsLease(key[v], token[v])' /\ (job[key[v]].lease > 0)'
                        \/ (job[key[v]].status = "skipped")'
    BY DEF LeaseInHand
  <2>2. CASE v = w
    BY <1>j, <2>2, LimitsPositive DEF HoldsLease, Claiming
  <2>3. CASE v # w
    <3>1. pc[v] \in Busy /\ key'[v] = key[v] /\ token'[v] = token[v]
      BY <2>1, <2>3 DEF Claiming, Keeping
    <3>2. key[v] \in Keys /\ key[v] # k
      BY <1>n, <3>1, LeaseFacts
    <3>3. job'[key[v]] = job[key[v]]
      BY <1>j, <3>2
    <3>4. QED
      BY <1>f, <3>1, <3>3 DEF LeaseParts, LeaseInHand, HoldsLease
  <2>4. QED
    BY <2>2, <2>3
<1>3. VerdictsValid'
  BY <1>f, <1>j, <1>n, LeaseFacts
  DEF LeaseParts, VerdictsValid, Busy, Claiming, Claimable, Keeping
<1>4. RequeueWithinBudget'
  BY <1>f, <1>j, <1>n, LeaseFacts
  DEF LeaseParts, RequeueWithinBudget, Claiming, Claimable, Keeping
<1>5. OrphansPaid'
  <2>1. SUFFICES ASSUME NEW j \in Keys, Orphan(j)'
                 PROVE  job'[j].attempts < MaxAttempts + crashes'
    BY DEF OrphansPaid
  <2>2. j # k /\ job'[j] = job[j]
    BY <1>j, <2>1 DEF Orphan, Claiming, Busy
  <2>3. Orphan(j)
    BY <2>1, <2>2 DEF Orphan, Claiming, Keeping
  <2>4. QED
    BY <1>f, <2>2, <2>3 DEF LeaseParts, OrphansPaid, Claiming
<1>6. AttemptsPaidByCrashes'
  <2>1. CASE job[k].status = "queued"
    <3>1. job[k].attempts < MaxAttempts
      BY <1>f, <2>1 DEF LeaseParts, RequeueWithinBudget
    <3>2. QED
      BY <1>f, <1>j, <3>1, LeaseFacts DEF LeaseParts, AttemptsPaidByCrashes, Claiming
  <2>2. CASE job[k].status = "leased"
    <3>1. job[k].attempts < MaxAttempts + crashes
      BY <1>f, <1>n, <2>2 DEF LeaseParts, OrphansPaid, Orphan
    <3>2. QED
      BY <1>f, <1>j, <3>1, LeaseFacts DEF LeaseParts, AttemptsPaidByCrashes, Claiming
  <2>3. QED
    BY <2>1, <2>2 DEF Claiming, Claimable
<1>7. QED
  BY <1>1, <1>2, <1>3, <1>4, <1>5, <1>6 DEF LeaseParts

LEMMA SettlingKeeps ==
  ASSUME LeaseInv, NEW w \in Workers, Settling(w)
  PROVE  LeaseParts'
<1>f. LeaseParts
  BY LeaseFacts
<1>j. /\ key[w] \in Keys /\ job'[key[w]].status # "leased"
      /\ job'[key[w]].attempts = job[key[w]].attempts
      /\ job'[key[w]].status = "queued" => job[key[w]].attempts < MaxAttempts
      /\ \A j \in Keys : j # key[w] => job'[j] = job[j]
  <2>1. PICK st \in Settled \cup {"queued"} :
          (st = "queued" => job[key[w]].attempts < MaxAttempts) /\ SetStatus(key[w], st)
    BY DEF Settling
  <2>2. key[w] \in Keys
    BY LeaseFacts DEF Settling, Leaving
  <2>3. st \in Status /\ st # "leased"
    BY DEF Settled, Status
  <2>4. QED
    BY <2>1, <2>2, <2>3, LeaseFacts, SetStatusEffect
<1>1. OneWorkerPerJob'
  BY <1>f, <1>j, LeaseFacts
  DEF LeaseParts, OneWorkerPerJob, Settling, Leaving, Keeping
<1>2. LeaseInHand'
  <2>1. SUFFICES ASSUME NEW v \in Workers, pc'[v] \in Busy
                 PROVE  \/ HoldsLease(key[v], token[v])' /\ (job[key[v]].lease > 0)'
                        \/ (job[key[v]].status = "skipped")'
    BY DEF LeaseInHand
  <2>2. v # w /\ pc[v] \in Busy /\ key'[v] = key[v] /\ token'[v] = token[v]
    BY <2>1 DEF Settling, Leaving, Keeping
  <2>3. key[v] \in Keys /\ key[v] # key[w]
    BY <1>f, <2>2, LeaseFacts DEF LeaseParts, OneWorkerPerJob, Settling, Leaving
  <2>4. job'[key[v]] = job[key[v]]
    BY <1>j, <2>3
  <2>5. QED
    BY <1>f, <2>2, <2>4 DEF LeaseParts, LeaseInHand, HoldsLease
<1>3. VerdictsValid'
  BY <1>f, <1>j, LeaseFacts
  DEF LeaseParts, VerdictsValid, Busy, Settling, Leaving, Keeping
<1>4. RequeueWithinBudget'
  BY <1>f, <1>j, LeaseFacts
  DEF LeaseParts, RequeueWithinBudget, Settling, Leaving, Keeping
<1>5. OrphansPaid'
  BY <1>f, <1>j, LeaseFacts
  DEF LeaseParts, OrphansPaid, Orphan, AttemptsPaidByCrashes, HoldsLease, Settling, Leaving, Keeping
<1>6. AttemptsPaidByCrashes'
  BY <1>f, <1>j, LeaseFacts
  DEF LeaseParts, AttemptsPaidByCrashes, Settling, Leaving, Keeping
<1>7. QED
  BY <1>1, <1>2, <1>3, <1>4, <1>5, <1>6 DEF LeaseParts

LEMMA LosingKeeps ==
  ASSUME LeaseInv, NEW w \in Workers, Losing(w)
  PROVE  LeaseParts'
<1>f. LeaseParts
  BY LeaseFacts
<1>n. job[key[w]].status = "skipped"
  BY <1>f DEF LeaseParts, LeaseInHand, Losing, Leaving
<1>1. OneWorkerPerJob'
  BY <1>f, <1>n, LeaseFacts
  DEF LeaseParts, OneWorkerPerJob, Losing, Leaving, Keeping
<1>2. LeaseInHand'
  BY <1>f, <1>n, LeaseFacts
  DEF LeaseParts, LeaseInHand, HoldsLease, Losing, Leaving, Keeping
<1>3. VerdictsValid'
  BY <1>f, <1>n, LeaseFacts
  DEF LeaseParts, VerdictsValid, Busy, Losing, Leaving, Keeping
<1>4. RequeueWithinBudget'
  BY <1>f, <1>n, LeaseFacts
  DEF LeaseParts, RequeueWithinBudget, Losing, Leaving, Keeping
<1>5. OrphansPaid'
  BY <1>f, <1>n, LeaseFacts
  DEF LeaseParts, OrphansPaid, Orphan, AttemptsPaidByCrashes, HoldsLease, Losing, Leaving, Keeping
<1>6. AttemptsPaidByCrashes'
  BY <1>f, <1>n, LeaseFacts
  DEF LeaseParts, AttemptsPaidByCrashes, Losing, Leaving, Keeping
<1>7. QED
  BY <1>1, <1>2, <1>3, <1>4, <1>5, <1>6 DEF LeaseParts

LEMMA DyingKeeps ==
  ASSUME LeaseInv, NEW w \in Workers, Dying(w)
  PROVE  LeaseParts'
<1>f. LeaseParts
  BY LeaseFacts
<1>1. OneWorkerPerJob'
  BY <1>f, LeaseFacts
  DEF LeaseParts, OneWorkerPerJob, Dying, Leaving, Keeping
<1>2. LeaseInHand'
  BY <1>f, LeaseFacts
  DEF LeaseParts, LeaseInHand, HoldsLease, Dying, Leaving, Keeping
<1>3. VerdictsValid'
  BY <1>f, LeaseFacts
  DEF LeaseParts, VerdictsValid, Busy, Dying, Leaving, Keeping
<1>4. RequeueWithinBudget'
  BY <1>f, LeaseFacts
  DEF LeaseParts, RequeueWithinBudget, Dying, Leaving, Keeping
<1>5. OrphansPaid'
  BY <1>f, LeaseFacts
  DEF LeaseParts, OrphansPaid, Orphan, AttemptsPaidByCrashes, HoldsLease, Dying, Leaving, Keeping
<1>6. AttemptsPaidByCrashes'
  BY <1>f, LeaseFacts
  DEF LeaseParts, AttemptsPaidByCrashes, Dying, Leaving, Keeping
<1>7. QED
  BY <1>1, <1>2, <1>3, <1>4, <1>5, <1>6 DEF LeaseParts

LEMMA InitLease == Init => LeaseInv
<1> SUFFICES ASSUME Init PROVE LeaseInv
  OBVIOUS
<1>1. TypeOK /\ JobsInHand
  BY InitFifo DEF FifoInv
<1>2. /\ \A w \in Workers : pc[w] = "idle"
      /\ \A k \in Keys : job[k].status \in {"none", "queued"} /\ job[k].attempts = 0
      /\ crashes = 0
  BY DEF Init, StoreInit, NoJob, NewJob, Procs
<1>3. OneWorkerPerJob /\ LeaseInHand /\ VerdictsValid
  BY <1>2 DEF OneWorkerPerJob, LeaseInHand, VerdictsValid, Busy
<1>4. RequeueWithinBudget /\ OrphansPaid /\ AttemptsPaidByCrashes
  BY <1>2, LimitsPositive DEF RequeueWithinBudget, OrphansPaid, Orphan, AttemptsPaidByCrashes
<1>5. QED
  BY <1>1, <1>3, <1>4 DEF LeaseInv

LEMMA LeaseStep == ASSUME ~Overruns PROVE LeaseInv /\ [Next]_vars => LeaseInv'
<1> SUFFICES ASSUME LeaseInv, [Next]_vars PROVE LeaseInv'
  OBVIOUS
<1>1. TypeOK' /\ JobsInHand'
  BY LeaseFacts, TypeStep, HandsKept
<1>2. QueueStep
  BY LeaseFacts, QueueSteps DEF LeaseParts
<1>3. LeaseParts'
  BY <1>2, QuietKeeps, SkippingKeeps, EnqueueingKeeps, AgingKeeps, ClaimingKeeps, SettlingKeeps,
     LosingKeeps, DyingKeeps
  DEF QueueStep
<1>4. QED
  BY <1>1, <1>3 DEF LeaseInv, LeaseParts

LEMMA LeaseInvariant == ASSUME ~Overruns PROVE Spec => []LeaseInv
  BY InitLease, LeaseStep, PTL DEF Spec

\* "Claims are atomic across SQLite processes", for any number of workers,
\* sessions and listings: if no worker outlives its lease, claim_hydration
\* never gives a job to a second worker while the first has it in hand.
THEOREM ExclusiveClaim == ASSUME ~Overruns PROVE Spec => []OneWorkerPerJob
<1>1. LeaseInv => OneWorkerPerJob
  BY DEF LeaseInv
<1>2. QED
  BY <1>1, LeaseInvariant, PTL

\* record_hydration_failure never puts a job that has used up max_attempts
\* back into the queue, though it decides before it writes.
THEOREM RequeueBudget == ASSUME ~Overruns PROVE Spec => []RequeueWithinBudget
<1>1. LeaseInv => RequeueWithinBudget
  BY DEF LeaseInv
<1>2. QED
  BY <1>1, LeaseInvariant, PTL

\* The true ceiling of attempts: max_attempts and one more for every worker
\* killed with a job in hand, since claim_hydration compares nothing with
\* max_attempts.
THEOREM AttemptsBound == ASSUME ~Overruns PROVE Spec => []AttemptsPaidByCrashes
<1>1. LeaseInv => AttemptsPaidByCrashes
  BY DEF LeaseInv
<1>2. QED
  BY <1>1, LeaseInvariant, PTL

\* A job that succeeded, failed or was cancelled is never queued or leased
\* again: the unguarded UPDATEs of _transition_claimed and cancel_hydration
\* only ever reach a job that is leased or skipped.
THEOREM SettledClosed == ASSUME ~Overruns PROVE Spec => SettledStaysClosed
<1> DEFINE Closed == \A k \in Keys : job[k].status \in Settled => job'[k].status \notin Live
<1>1. ASSUME LeaseInv, [Next]_vars PROVE Closed
  <2> SUFFICES ASSUME NEW k \in Keys, job[k].status \in Settled
               PROVE  job'[k].status \notin Live
    OBVIOUS
  <2>0. job[k].status \notin {"none", "queued", "leased", "skipped"}
    BY DEF Settled
  <2>1. QueueStep
    BY <1>1, LeaseFacts, QueueSteps DEF LeaseParts
  <2>2. CASE UNCHANGED job
    BY <2>0, <2>2 DEF Live
  <2>3. ASSUME NEW j \in Keys, Skipping(j) PROVE job'[k].status \notin Live
    <3>1. job'[j].status = "skipped" /\ (k # j => job'[k] = job[k])
      BY <1>1, <2>3, LeaseFacts, SetStatusEffect DEF Skipping, Status
    <3>2. QED
      BY <2>0, <3>1 DEF Live
  <2>4. ASSUME NEW j \in Keys, Enqueueing(j) PROVE job'[k].status \notin Live
    <3>1. k # j => job'[k] = job[k]
      BY <1>1, <2>4, LeaseFacts, InsertJobEffect DEF Enqueueing
    <3>2. QED
      BY <2>0, <2>4, <3>1 DEF Enqueueing, Live
  <2>5. CASE Aging
    <3>1. job'[k].status = job[k].status
      BY <1>1, <2>5, LeaseFacts, AgeTablesEffect DEF Aging
    <3>2. QED
      BY <2>0, <3>1 DEF Live
  <2>6. ASSUME NEW w \in Workers, NEW j \in Keys, Claiming(w, j)
        PROVE  job'[k].status \notin Live
    <3>1. k # j
      BY <2>0, <2>6 DEF Claiming, Claimable
    <3>2. job'[k] = job[k]
      BY <1>1, <2>6, <3>1, LeaseFacts, LeaseJobEffect DEF Claiming
    <3>3. QED
      BY <2>0, <3>2 DEF Live
  <2>7. ASSUME NEW w \in Workers, Settling(w) PROVE job'[k].status \notin Live
    <3>1. key[w] \in Keys /\ job[key[w]].status \in {"leased", "skipped"}
      BY <1>1, <2>7, LeaseFacts DEF Settling, Leaving, LeaseParts, LeaseInHand, HoldsLease
    <3>2. k # key[w]
      BY <2>0, <3>1
    <3>3. PICK st \in Settled \cup {"queued"} : SetStatus(key[w], st)
      BY <2>7 DEF Settling
    <3>4. job'[k] = job[k]
      BY <1>1, <3>1, <3>2, <3>3, LeaseFacts, SetStatusEffect DEF Settled, Status
    <3>5. QED
      BY <2>0, <3>4 DEF Live
  <2>8. QED
    BY <2>1, <2>2, <2>3, <2>4, <2>5, <2>6, <2>7 DEF QueueStep, Quiet, Losing, Dying
<1>2. LeaseInv /\ [Next]_vars => [Closed]_vars
  BY <1>1
<1>3. QED
  BY <1>2, LeaseInvariant, PTL DEF Spec, SettledStaysClosed

\* The worker with a job in hand is the one of the job's last claim: a revoked
\* job keeps its attempts, and is not claimed again while it is revoked.
LastClaim ==
  \A w \in Workers : pc[w] \in Busy => token[w] = job[key[w]].attempts

LEMMA LastClaimKept == ASSUME LeaseInv, LastClaim, QueueStep PROVE LastClaim'
<1> SUFFICES ASSUME NEW v \in Workers, pc'[v] \in Busy
             PROVE  token'[v] = job'[key'[v]].attempts
  BY DEF LastClaim
<1>f. LeaseParts
  BY LeaseFacts
<1>1. ASSUME pc[v] \in Busy, key'[v] = key[v], token'[v] = token[v],
             job'[key[v]].attempts = job[key[v]].attempts
      PROVE  token'[v] = job'[key'[v]].attempts
  BY <1>1 DEF LastClaim
<1>2. CASE Quiet
  BY <1>1, <1>2 DEF Quiet, Keeping
<1>3. ASSUME NEW k \in Keys, Skipping(k) PROVE token'[v] = job'[key'[v]].attempts
  <2>1. pc[v] \in Busy /\ key'[v] = key[v] /\ token'[v] = token[v]
    BY <1>3 DEF Skipping, Keeping
  <2>2. "skipped" \in Status
    BY DEF Status
  <2>3. job'[key[v]].attempts = job[key[v]].attempts
    BY <1>3, <2>1, <2>2, LeaseFacts, SetStatusEffect DEF Skipping
  <2> QED
    BY <1>1, <2>1, <2>3
<1>4. ASSUME NEW k \in Keys, Enqueueing(k) PROVE token'[v] = job'[key'[v]].attempts
  <2>1. pc[v] \in Busy /\ key'[v] = key[v] /\ token'[v] = token[v]
    BY <1>4 DEF Enqueueing, Keeping
  <2>2. key[v] \in Keys /\ job[key[v]].status # "none"
    BY <2>1, LeaseFacts DEF JobsInHand
  <2>3. job'[key[v]] = job[key[v]]
    BY <1>4, <2>2, LeaseFacts, InsertJobEffect DEF Enqueueing
  <2> QED
    BY <1>1, <2>1, <2>3
<1>5. CASE Aging
  <2>1. pc[v] \in Busy /\ key'[v] = key[v] /\ token'[v] = token[v]
    BY <1>5 DEF Aging, Keeping
  <2>2. job'[key[v]].attempts = job[key[v]].attempts
    BY <1>5, <2>1, LeaseFacts, AgeTablesEffect DEF Aging
  <2> QED
    BY <1>1, <2>1, <2>2
<1>6. ASSUME NEW w \in Workers, NEW k \in Keys, Claiming(w, k)
      PROVE  token'[v] = job'[key'[v]].attempts
  <2>1. job'[k].attempts = job[k].attempts + 1 /\ \A j \in Keys : j # k => job'[j] = job[j]
    BY <1>6, LeaseFacts, LeaseJobEffect DEF Claiming
  <2>2. CASE v = w
    BY <1>6, <2>1, <2>2 DEF Claiming
  <2>3. CASE v # w
    <3>1. pc[v] \in Busy /\ key'[v] = key[v] /\ token'[v] = token[v]
      BY <1>6, <2>3 DEF Claiming, Keeping
    <3>2. key[v] \in Keys /\ key[v] # k
      BY <1>f, <1>6, <3>1, LeaseFacts
      DEF LeaseParts, LeaseInHand, HoldsLease, Claiming, Claimable
    <3> QED
      BY <1>1, <2>1, <3>1, <3>2
  <2> QED
    BY <2>2, <2>3
<1>7. ASSUME NEW w \in Workers, Settling(w) PROVE token'[v] = job'[key'[v]].attempts
  <2>1. v # w /\ pc[v] \in Busy /\ key'[v] = key[v] /\ token'[v] = token[v]
    BY <1>7 DEF Settling, Leaving, Keeping
  <2>2. key[w] \in Keys /\ key[v] \in Keys /\ key[v] # key[w]
    BY <1>f, <1>7, <2>1, LeaseFacts DEF LeaseParts, OneWorkerPerJob, Settling, Leaving
  <2>3. PICK st \in Settled \cup {"queued"} : SetStatus(key[w], st)
    BY <1>7 DEF Settling
  <2>4. st \in Status
    BY DEF Settled, Status
  <2>5. job'[key[v]] = job[key[v]]
    BY <2>2, <2>3, <2>4, LeaseFacts, SetStatusEffect
  <2> QED
    BY <1>1, <2>1, <2>5
<1>8. ASSUME NEW w \in Workers, Losing(w) \/ Dying(w)
      PROVE  token'[v] = job'[key'[v]].attempts
  BY <1>1, <1>8 DEF Losing, Dying, Leaving, Keeping
<1> QED
  BY <1>2, <1>3, <1>4, <1>5, <1>6, <1>7, <1>8 DEF QueueStep

\* A settled or revoked job is only changed by who had it in hand when it was
\* closed: a revoking session, or, over a revocation, the worker of the job's
\* last claim, though neither's UPDATE looks at the status it overwrites.
THEOREM ClosedJobs == ASSUME ~Overruns PROVE Spec => ClosedByLastHands
<1> DEFINE Hands ==
             \A k \in Keys :
               job[k].status \in Settled \cup {"skipped"} /\ job'[k].status # job[k].status
               => \/ /\ job'[k].status = "skipped"
                     /\ \E s \in Sessions : pc[s] = "skip" /\ key[s] = k
                  \/ /\ job[k].status = "skipped"
                     /\ \E w \in Workers :
                          pc[w] \in Busy /\ key[w] = k /\ token[w] = job[k].attempts
<1>1. Init => LeaseInv /\ LastClaim
  <2>1. Init => LastClaim
    BY DEF Init, Procs, LastClaim, Busy
  <2> QED
    BY <2>1, InitLease
<1>2. LeaseInv /\ LastClaim /\ [Next]_vars => LeaseInv' /\ LastClaim'
  <2>1. LeaseInv /\ [Next]_vars => QueueStep
    BY LeaseFacts, QueueSteps DEF LeaseParts
  <2> QED
    BY <2>1, LeaseStep, LastClaimKept
<1>3. ASSUME LeaseInv, LastClaim, [Next]_vars PROVE Hands
  <2> SUFFICES ASSUME NEW k \in Keys, job[k].status \in Settled \cup {"skipped"},
                      job'[k].status # job[k].status
               PROVE  \/ /\ job'[k].status = "skipped"
                         /\ \E s \in Sessions : pc[s] = "skip" /\ key[s] = k
                      \/ /\ job[k].status = "skipped"
                         /\ \E w \in Workers :
                              pc[w] \in Busy /\ key[w] = k /\ token[w] = job[k].attempts
    OBVIOUS
  <2> DEFINE Revoked == \E s \in Sessions : pc[s] = "skip" /\ key[s] = k
             LastWorker == \E w \in Workers :
                             pc[w] \in Busy /\ key[w] = k /\ token[w] = job[k].attempts
             Change == \/ job'[k].status = "skipped" /\ Revoked
                       \/ job[k].status = "skipped" /\ LastWorker
  <2>0. job[k].status \notin {"none", "queued", "leased"}
    BY DEF Settled
  <2>1. QueueStep
    BY <1>3, LeaseFacts, QueueSteps DEF LeaseParts
  <2>2. ~UNCHANGED job
    OBVIOUS
  <2>3. ASSUME NEW j \in Keys, Skipping(j) PROVE Change
    <3>1. job'[j].status = "skipped" /\ (k # j => job'[k] = job[k])
      BY <1>3, <2>3, LeaseFacts, SetStatusEffect DEF Skipping, Status
    <3>2. k = j /\ ~Claimable(k)
      BY <2>0, <3>1 DEF Claimable
    <3> QED
      BY <2>3, <3>1, <3>2 DEF Skipping
  <2>4. ASSUME NEW j \in Keys, Enqueueing(j) PROVE FALSE
    <3>1. k # j => job'[k] = job[k]
      BY <1>3, <2>4, LeaseFacts, InsertJobEffect DEF Enqueueing
    <3> QED
      BY <2>0, <2>4, <3>1 DEF Enqueueing
  <2>5. ~Aging
    BY <1>3, LeaseFacts, AgeTablesEffect DEF Aging
  <2>6. ASSUME NEW w \in Workers, NEW j \in Keys, Claiming(w, j) PROVE FALSE
    <3>1. k # j
      BY <2>0, <2>6 DEF Claiming, Claimable
    <3> QED
      BY <1>3, <2>6, <3>1, LeaseFacts, LeaseJobEffect DEF Claiming
  <2>7. ASSUME NEW w \in Workers, Settling(w) PROVE Change
    <3>1. pc[w] \in Busy /\ key[w] \in Keys /\ token[w] = job[key[w]].attempts
      BY <1>3, <2>7, LeaseFacts DEF Settling, Leaving, LastClaim
    <3>2. job[key[w]].status \in {"leased", "skipped"}
      BY <1>3, <3>1, LeaseFacts DEF LeaseParts, LeaseInHand, HoldsLease
    <3>3. PICK st \in Settled \cup {"queued"} : SetStatus(key[w], st)
      BY <2>7 DEF Settling
    <3>4. k = key[w]
      BY <1>3, <3>1, <3>3, LeaseFacts, SetStatusEffect DEF Settled, Status
    <3> QED
      BY <2>0, <3>1, <3>2, <3>4
  <2> QED
    BY <2>1, <2>2, <2>3, <2>4, <2>5, <2>6, <2>7 DEF QueueStep, Quiet, Losing, Dying
<1>4. LeaseInv /\ LastClaim /\ [Next]_vars => [Hands]_vars
  BY <1>3
<1> QED
  BY <1>1, <1>2, <1>4, PTL DEF Spec, ClosedByLastHands

-----------------------------------------------------------------------------
(* Jobs and stored details, overruns included: what succeeds has a detail.  *)


HasDetail(k) == listing[k].level = "detail"

\* A worker that has stored its detail finds one stored ever after, and what
\* it is about to store is one: without sessions nobody writes a summary.
DetailsStored ==
  \A w \in Workers :
    /\ pc[w] \in {"ack", "succeed"} => HasDetail(key[w])
    /\ pc[w] = "write" => draft[w].row.level = "detail"

DetailInv == TypeOK /\ DetailsStored /\ SucceededHasDetail

\* All that a step of worker w can do to listings and jobs.
ListingChange(w) ==
  \/ listing' = listing
  \/ /\ pc[w] = "write" /\ key[w] \in Keys /\ WriteListing(key[w], draft[w])
JobsChange(w) ==
  \/ job' = job
  \/ \E k \in Keys : LeaseJob(k)
  \/ \E k \in Keys, st \in Status \ {"succeeded"} : SetStatus(k, st)
  \/ pc[w] = "succeed" /\ key[w] \in Keys /\ SetStatus(key[w], "succeeded")
\* Where it goes, and with what.
HandsChange(w) ==
  /\ \A v \in Workers \ {w} : pc'[v] = pc[v] /\ key'[v] = key[v] /\ draft'[v] = draft[v]
  /\ pc'[w] \in {"ack", "succeed"} =>
       /\ key'[w] = key[w]
       /\ pc[w] = "ack" \/ (pc[w] = "write" /\ WriteListing(key[w], draft[w]))
  /\ pc'[w] = "write" => draft'[w].row.level = "detail"

LEMMA DetailDraft ==
  ASSUME NEW k
  PROVE  DraftOf(k, DetailRow).row.level = "detail"
BY DEF DraftOf, DetailRow, MergeListing

LEMMA WorkerChanges ==
  ASSUME TypeOK, NEW w \in Workers, WorkerStep(w) \/ Kill(w) \/ Restart(w)
  PROVE  ListingChange(w) /\ JobsChange(w) /\ HandsChange(w)
<1>1. /\ w \in Procs /\ Workers \subseteq Procs
      /\ DOMAIN pc = Procs /\ DOMAIN key = Procs /\ DOMAIN draft = Procs
      /\ pc[w] \in Busy => key[w] \in Keys
  BY KeyInHand DEF TypeOK, Procs
<1>2. ASSUME NEW k \in Keys, ClaimSkip(w, k)
      PROVE  ListingChange(w) /\ JobsChange(w) /\ HandsChange(w)
  BY <1>2 DEF ClaimSkip, ListingChange, JobsChange, HandsChange, Status, locals
<1>3. ASSUME NEW k \in Keys, ClaimLease(w, k)
      PROVE  ListingChange(w) /\ JobsChange(w) /\ HandsChange(w)
  BY <1>1, <1>3 DEF ClaimLease, Goto, ListingChange, JobsChange, HandsChange
<1>4. CASE ClaimRead(w)
  BY <1>1, <1>4 DEF ClaimRead, Goto, LeaveJob, storeVars, ListingChange, JobsChange, HandsChange
<1>5. CASE CancelUnavailable(w)
  <2>1. key[w] \in Keys /\ SetStatus(key[w], "cancelled") /\ listing' = listing
    BY <1>1, <1>5 DEF CancelUnavailable, Busy
  <2>2. HandsChange(w)
    BY <1>1, <1>5 DEF CancelUnavailable, LeaveJob, Goto, HandsChange
  <2> QED
    BY <2>1, <2>2 DEF ListingChange, JobsChange, Status
<1>6. CASE ReadListing(w)
  BY <1>1, <1>6, DetailDraft
     DEF ReadListing, Goto, storeVars, ListingChange, JobsChange, HandsChange
<1>7. CASE WriteDetail(w)
  BY <1>1, <1>7 DEF WriteDetail, Goto, ListingChange, JobsChange, HandsChange, Busy
<1>8. CASE AckSelect(w)
  BY <1>1, <1>8 DEF AckSelect, Goto, storeVars, ListingChange, JobsChange, HandsChange
<1>9. CASE FailSelect(w)
  BY <1>1, <1>9 DEF FailSelect, LeaveJob, Goto, storeVars, ListingChange, JobsChange, HandsChange
<1>10. CASE SettleJob(w)
  <2>1. /\ key[w] \in Keys /\ listing' = listing
        /\ \/ pc[w] = "succeed" /\ SetStatus(key[w], "succeeded")
           \/ SetStatus(key[w], "queued")
           \/ SetStatus(key[w], "failed")
    BY <1>1, <1>10 DEF SettleJob, Busy
  <2>2. HandsChange(w)
    BY <1>1, <1>10 DEF SettleJob, LeaveJob, Goto, HandsChange
  <2> QED
    BY <2>1, <2>2 DEF ListingChange, JobsChange, Status
<1>11. CASE Kill(w) \/ Restart(w)
  BY <1>1, <1>11 DEF Kill, Restart, LeaveJob, Goto, storeVars, ListingChange, JobsChange, HandsChange
<1> QED
  BY <1>2, <1>3, <1>4, <1>5, <1>6, <1>7, <1>8, <1>9, <1>10, <1>11 DEF WorkerStep

\* A write by a worker stores a detail, so a stored detail stays one.
LEMMA DetailsStay ==
  ASSUME DetailInv, NEW w \in Workers, ListingChange(w), NEW k, HasDetail(k)
  PROVE  HasDetail(k)'
<1>1. listing \in [Keys -> Row]
  BY TypeFacts DEF DetailInv
<1>2. CASE listing' = listing
  BY <1>2 DEF HasDetail
<1>3. CASE pc[w] = "write" /\ key[w] \in Keys /\ WriteListing(key[w], draft[w])
  <2>1. draft[w].row.level = "detail"
    BY <1>3 DEF DetailInv, DetailsStored
  <2> QED
    BY <1>1, <1>3, <2>1 DEF WriteListing, HasDetail
<1> QED
  BY <1>2, <1>3 DEF ListingChange

LEMMA WorkerKeepsDetails ==
  ASSUME DetailInv, NEW w \in Workers, WorkerStep(w) \/ Kill(w) \/ Restart(w)
  PROVE  DetailInv'
<1>1. TypeOK'
  BY WorkerType DEF DetailInv
<1>2. ListingChange(w) /\ JobsChange(w) /\ HandsChange(w)
  BY WorkerChanges DEF DetailInv
<1>3. listing \in [Keys -> Row] /\ job \in [Keys -> Job]
  BY TypeFacts DEF DetailInv
<1>4. SucceededHasDetail'
  <2> SUFFICES ASSUME NEW k \in Keys, job'[k].status = "succeeded" PROVE HasDetail(k)'
    BY DEF SucceededHasDetail, HasDetail
  <2>1. CASE job[k].status = "succeeded"
    BY <1>2, <2>1, DetailsStay DEF DetailInv, SucceededHasDetail, HasDetail
  <2>2. CASE job[k].status # "succeeded"
    <3>1. ASSUME NEW j \in Keys, LeaseJob(j) PROVE FALSE
      BY <1>3, <2>2, <3>1, LeaseJobEffect
    <3>2. ASSUME NEW j \in Keys, NEW st \in Status \ {"succeeded"}, SetStatus(j, st) PROVE FALSE
      BY <1>3, <2>2, <3>2, SetStatusEffect
    <3>3. pc[w] = "succeed" /\ key[w] \in Keys /\ SetStatus(key[w], "succeeded")
      BY <1>2, <2>2, <3>1, <3>2 DEF JobsChange
    <3>4. key[w] = k
      BY <1>3, <2>2, <3>3, SetStatusEffect DEF Status
    <3>5. HasDetail(k)
      BY <3>3, <3>4 DEF DetailInv, DetailsStored
    <3> QED
      BY <1>2, <3>5, DetailsStay
  <2> QED
    BY <2>1, <2>2
<1>5. DetailsStored'
  <2> SUFFICES ASSUME NEW v \in Workers
               PROVE  /\ pc'[v] \in {"ack", "succeed"} => HasDetail(key[v])'
                      /\ pc'[v] = "write" => draft'[v].row.level = "detail"
    BY DEF DetailsStored
  <2>1. CASE v # w
    <3>1. pc'[v] = pc[v] /\ key'[v] = key[v] /\ draft'[v] = draft[v]
      BY <1>2, <2>1 DEF HandsChange
    <3>2. HasDetail(key[v]) => (listing'[key[v]]).level = "detail"
      BY <1>2, DetailsStay DEF HasDetail
    <3> QED
      BY <3>1, <3>2 DEF DetailInv, DetailsStored, HasDetail
  <2>2. CASE v = w
    <3>1. pc'[w] = "write" => draft'[w].row.level = "detail"
      BY <1>2 DEF HandsChange
    <3>2. ASSUME pc'[w] \in {"ack", "succeed"} PROVE (listing'[key'[w]]).level = "detail"
      <4>1. /\ key'[w] = key[w]
            /\ pc[w] = "ack" \/ (pc[w] = "write" /\ WriteListing(key[w], draft[w]))
        BY <1>2, <3>2 DEF HandsChange
      <4>2. CASE pc[w] = "ack"
        <5>1. HasDetail(key[w])
          BY <4>2 DEF DetailInv, DetailsStored
        <5>2. (listing'[key[w]]).level = "detail"
          BY <1>2, <5>1, DetailsStay DEF HasDetail
        <5> QED
          BY <4>1, <5>2
      <4>3. CASE pc[w] = "write" /\ WriteListing(key[w], draft[w])
        <5>1. draft[w].row.level = "detail" /\ key[w] \in Keys
          BY <4>3, KeyInHand DEF DetailInv, DetailsStored, Busy
        <5> QED
          BY <1>3, <4>1, <4>3, <5>1 DEF WriteListing
      <4> QED
        BY <4>1, <4>2, <4>3
    <3> QED
      BY <2>2, <3>1, <3>2 DEF HasDetail
  <2> QED
    BY <2>1, <2>2
<1> QED
  BY <1>1, <1>4, <1>5 DEF DetailInv

LEMMA DetailsInitially == Init => DetailInv
<1> SUFFICES ASSUME Init PROVE DetailInv
  OBVIOUS
<1>1. DetailsStored
  BY DEF Init, DetailsStored, Procs
<1>2. SucceededHasDetail
  BY DEF Init, StoreInit, NoJob, NewJob, SucceededHasDetail
<1> QED
  BY <1>1, <1>2, InitType DEF DetailInv

\* Freshness runs out, completeness does not.
LEMMA TickKeepsDetails ==
  ASSUME DetailInv, Tick
  PROVE  DetailInv'
<1>1. TypeOK'
  BY TickType DEF DetailInv
<1>2. listing \in [Keys -> Row] /\ job \in [Keys -> Job] /\ draft \in [Procs -> Draft]
  BY TypeFacts DEF DetailInv, LocalsOK
<1>3. \A k \in Keys : (listing'[k]).level = listing[k].level
  BY <1>2 DEF Tick, AgeTables, Older, Row
<1>4. \A w \in Workers : (draft'[w]).row.level = draft[w].row.level
  BY <1>2 DEF Tick, Older, Draft, Row, Procs
<1>5. \A k \in Keys : (job'[k]).status = job[k].status
  BY <1>2, AgeTablesEffect DEF Tick
<1>6. \A w \in Workers : pc[w] \in {"ack", "succeed"} => key[w] \in Keys
  BY KeyInHand DEF DetailInv, Busy
<1>7. DetailsStored'
  BY <1>3, <1>4, <1>6 DEF Tick, DetailInv, DetailsStored, HasDetail
<1>8. SucceededHasDetail'
  BY <1>3, <1>5 DEF DetailInv, SucceededHasDetail
<1> QED
  BY <1>1, <1>7, <1>8 DEF DetailInv

LEMMA DetailInvKept == ASSUME Sessions = {} PROVE DetailInv /\ [Next]_vars => DetailInv'
<1> SUFFICES ASSUME DetailInv, [Next]_vars PROVE DetailInv'
  OBVIOUS
<1>1. CASE UNCHANGED vars
  <2>1. TypeOK'
    BY TypeStep DEF DetailInv
  <2> QED
    BY <1>1, <2>1 DEF vars, locals, storeVars, DetailInv, DetailsStored, HasDetail,
                      SucceededHasDetail
<1>2. CASE Next
  BY <1>2, WorkerKeepsDetails, TickKeepsDetails DEF Next
<1> QED
  BY <1>1, <1>2

\* SucceededHasDetail: whatever the number of workers, and however long each of
\* them outlives its leases, acknowledge_hydration_success settles a job only
\* after _process has stored a detail for it.  Without live sessions: the
\* write of a recommendation card puts a summary back (DetailNotOverwritten).
THEOREM SucceededIsDetailed == ASSUME Sessions = {} PROVE Spec => []SucceededHasDetail
<1>1. DetailInv => SucceededHasDetail
  BY DEF DetailInv
<1> QED
  BY <1>1, DetailsInitially, DetailInvKept, PTL DEF Spec

=============================================================================
