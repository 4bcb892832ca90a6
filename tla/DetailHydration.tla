--------------------------- MODULE DetailHydration ---------------------------
(***************************************************************************)
(* The processes that share one SQLite file: background workers            *)
(* (DetailHydrationWorker) that claim hydration jobs, fetch a detail page, *)
(* store it and settle the job, and live sessions (SearchSession) that     *)
(* scrape details themselves and enqueue the recommendation cards of each  *)
(* page.  A step of a process is one SQL statement, or one explicit        *)
(* transaction; everything a process holds between two steps is in its     *)
(* local variables below.                                                  *)
(***************************************************************************)
EXTENDS HydrationStore

CONSTANTS
  Workers, Sessions,  \* worker processes, live session processes
  NoKey,              \* a process with no listing in hand
  Overruns,           \* may a worker still be at work when its lease expires?
  MaxCrashes,         \* bound: how often a worker process is killed
  MaxClaims           \* bound: claims of one job (never reached unless Overruns)

ASSUME ProcessesDistinct == Workers \cap Sessions = {} /\ NoKey \notin Keys \cup Workers
ASSUME BoundsNatural == /\ Overruns \in BOOLEAN
                        /\ MaxCrashes \in Nat /\ MaxClaims \in Nat

Procs == Workers \cup Sessions

VARIABLES
  pc,       \* what each process does next
  key,      \* the listing it has in hand
  draft,    \* the row upsert_listing is about to write
  token,    \* the worker's lease token, 0 without one
  cards,    \* recommendation cards a session has still to store
  intents,  \* hydration intents a session has still to enqueue
  saw,      \* the job state enqueue_hydration has read
  crashes   \* worker processes killed so far

locals == <<pc, key, draft, token, cards, intents, saw>>
vars == <<storeVars, locals, crashes>>

\* Points of DetailHydrationWorker._process at which a claimed job is in hand.
Busy == {"reread", "hold", "write", "ack", "succeed", "failing", "requeue", "giveup"}
\* The run ended in an uncaught exception, of _process's assertion or of a lost
\* lease, or the process was killed.
Down == {"asserted", "raised", "killed"}
WorkerPC == {"idle"} \cup Busy \cup Down
SessionPC == {"idle", "hold", "write", "cards", "cardwrite", "enqueue", "check",
              "insert", "skip"}
\* Points at which a process has a listing in hand.
InHand == Busy \cup {"cardwrite", "check", "insert", "skip"}

Init ==
  /\ StoreInit
  /\ pc = [p \in Procs |-> "idle"]
  /\ key = [p \in Procs |-> NoKey]
  /\ draft = [p \in Procs |-> NoDraft]
  /\ token = [w \in Workers |-> 0]
  /\ cards = [s \in Sessions |-> {}]
  /\ intents = [s \in Sessions |-> {}]
  /\ saw = [s \in Sessions |-> "none"]
  /\ crashes = 0

Goto(p, label) == pc' = [pc EXCEPT ![p] = label]

\* The worker leaves _process, with or without an exception.
LeaveJob(w, label) ==
  /\ Goto(w, label)
  /\ key' = [key EXCEPT ![w] = NoKey]
  /\ token' = [token EXCEPT ![w] = 0]
  /\ draft' = [draft EXCEPT ![w] = NoDraft]
  /\ UNCHANGED <<cards, intents, saw>>

-----------------------------------------------------------------------------
(* Background workers.  A claim that finds nothing changes nothing and is  *)
(* left out; so is the sleep between jobs, which Tick covers.  "idle"      *)
(* stands both for the next turn of _run's loop and for the next run.      *)

\* claim_hydration on a job whose detail is fresh: skipped, and None returned.
ClaimSkip(w, k) ==
  /\ pc[w] = "idle"
  /\ Oldest(k)
  /\ FreshUntilAhead(k)
  /\ SetStatus(k, "skipped")
  /\ UNCHANGED <<listing, nextId, locals, crashes>>

\* claim_hydration's transaction on any other job.
ClaimLease(w, k) ==
  /\ pc[w] = "idle"
  /\ Oldest(k)
  /\ ~FreshUntilAhead(k)
  /\ job[k].attempts < MaxClaims
  /\ LeaseJob(k)
  /\ Goto(w, "reread")
  /\ key' = [key EXCEPT ![w] = k]
  /\ token' = [token EXCEPT ![w] = job[k].attempts + 1]
  /\ UNCHANGED <<listing, nextId, draft, cards, intents, saw, crashes>>

\* claim_hydration returns the row as it finds it AFTER its commit; _process
\* asserts that this row has a lease token, outside its try block.
ClaimRead(w) ==
  /\ pc[w] = "reread"
  /\ IF job[key[w]].token # 0
     THEN /\ Goto(w, "hold")
          /\ token' = [token EXCEPT ![w] = job[key[w]].token]
          /\ UNCHANGED <<key, draft, cards, intents, saw>>
     ELSE LeaveJob(w, "asserted")
  /\ UNCHANGED <<storeVars, crashes>>

\* The page carries an unavailable marker: cancel_hydration takes no token.
CancelUnavailable(w) ==
  /\ pc[w] = "hold"
  /\ SetStatus(key[w], "cancelled")
  /\ LeaveJob(w, "idle")
  /\ UNCHANGED <<listing, nextId, crashes>>

\* The page parsed: upsert_listing's SELECT and merge.  A process that is a
\* session takes the same step for the page it fetched itself.
ReadListing(p) ==
  /\ pc[p] = "hold"
  /\ draft' = [draft EXCEPT ![p] = DraftOf(key[p], DetailRow)]
  /\ Goto(p, "write")
  /\ UNCHANGED <<storeVars, key, token, cards, intents, saw, crashes>>

\* upsert_listing's INSERT or UPDATE in a worker; the lease is not looked at.
WriteDetail(w) ==
  /\ pc[w] = "write"
  /\ IF Conflicts(key[w], draft[w])
     THEN Goto(w, "failing") /\ UNCHANGED listing
     ELSE Goto(w, "ack") /\ WriteListing(key[w], draft[w])
  /\ draft' = [draft EXCEPT ![w] = NoDraft]
  /\ UNCHANGED <<job, nextId, key, token, cards, intents, saw, crashes>>

\* _transition_claimed's SELECT for acknowledge_hydration_success; the
\* ValueError of a lost lease is caught by _process, which records a failure.
AckSelect(w) ==
  /\ pc[w] = "ack"
  /\ Goto(w, IF HoldsLease(key[w], token[w]) THEN "succeed" ELSE "failing")
  /\ UNCHANGED <<storeVars, key, draft, token, cards, intents, saw, crashes>>

\* record_hydration_failure's reads.  Its own check and that of
\* _transition_claimed look for the same lease and raise the same error, and a
\* job under the same token has the same attempts.  The ValueError of a lost
\* lease leaves an except block of _process, and nothing catches it.
FailSelect(w) ==
  /\ pc[w] \in {"hold", "failing"}
  /\ IF HoldsLease(key[w], token[w])
     THEN /\ Goto(w, IF StatusAfterFailure(key[w]) = "queued" THEN "requeue" ELSE "giveup")
          /\ UNCHANGED <<key, draft, token, cards, intents, saw>>
     ELSE LeaveJob(w, "raised")
  /\ UNCHANGED <<storeVars, crashes>>

\* _transition_claimed's UPDATE, which names the row by its id only.
SettleJob(w) ==
  /\ pc[w] \in {"succeed", "requeue", "giveup"}
  /\ SetStatus(key[w], CASE pc[w] = "succeed" -> "succeeded"
                         [] pc[w] = "requeue" -> "queued"
                         [] pc[w] = "giveup" -> "failed")
  /\ LeaveJob(w, "idle")
  /\ UNCHANGED <<listing, nextId, crashes>>

\* The process is killed with a job in hand.
Kill(w) ==
  /\ pc[w] \in Busy
  /\ crashes < MaxCrashes
  /\ LeaveJob(w, "killed")
  /\ crashes' = crashes + 1
  /\ UNCHANGED storeVars

\* The operator starts the worker again.
Restart(w) ==
  /\ pc[w] \in Down
  /\ Goto(w, "idle")
  /\ UNCHANGED <<storeVars, key, draft, token, cards, intents, saw, crashes>>

-----------------------------------------------------------------------------
(* Live sessions: SearchSession._scrape_details, one summary at a time.    *)

LeaveDetail(s) ==
  /\ Goto(s, "idle")
  /\ key' = [key EXCEPT ![s] = NoKey]
  /\ draft' = [draft EXCEPT ![s] = NoDraft]
  /\ cards' = [cards EXCEPT ![s] = {}]
  /\ intents' = [intents EXCEPT ![s] = {}]
  /\ saw' = [saw EXCEPT ![s] = "none"]
  /\ UNCHANGED token

\* get_fresh_detail missed, so the page is fetched.
Lookup(s, k) ==
  /\ pc[s] = "idle"
  /\ ~FreshDetail(k)
  /\ key' = [key EXCEPT ![s] = k]
  /\ Goto(s, "hold")
  /\ UNCHANGED <<storeVars, draft, token, cards, intents, saw, crashes>>

\* The detail is written; its page recommends the listings in C.
StoreDetail(s, C) ==
  /\ pc[s] = "write"
  /\ ~Conflicts(key[s], draft[s])
  /\ C \subseteq Keys \ {key[s]} /\ C # {}
  /\ WriteListing(key[s], draft[s])
  /\ Goto(s, "cards")
  /\ cards' = [cards EXCEPT ![s] = C]
  /\ key' = [key EXCEPT ![s] = NoKey]
  /\ draft' = [draft EXCEPT ![s] = NoDraft]
  /\ UNCHANGED <<job, nextId, token, intents, saw, crashes>>

\* The same for a page without cards.
StoreDetailOnly(s) ==
  /\ pc[s] = "write"
  /\ ~Conflicts(key[s], draft[s])
  /\ WriteListing(key[s], draft[s])
  /\ LeaveDetail(s)
  /\ UNCHANGED <<job, nextId, crashes>>

\* ingest_recommendation_cards: upsert_listing's SELECT for one card ...
ReadCard(s, c) ==
  /\ pc[s] = "cards"
  /\ c \in cards[s]
  /\ key' = [key EXCEPT ![s] = c]
  /\ draft' = [draft EXCEPT ![s] = DraftOf(c, SummaryRow)]
  /\ Goto(s, "cardwrite")
  /\ UNCHANGED <<storeVars, token, cards, intents, saw, crashes>>

\* ... and its write; after the last card come the intents.
StoreCard(s) ==
  /\ pc[s] = "cardwrite"
  /\ ~Conflicts(key[s], draft[s])
  /\ WriteListing(key[s], draft[s])
  /\ cards' = [cards EXCEPT ![s] = @ \ {key[s]}]
  /\ intents' = [intents EXCEPT ![s] = @ \cup {key[s]}]
  /\ Goto(s, IF cards[s] = {key[s]} THEN "enqueue" ELSE "cards")
  /\ key' = [key EXCEPT ![s] = NoKey]
  /\ draft' = [draft EXCEPT ![s] = NoDraft]
  /\ UNCHANGED <<job, nextId, token, saw, crashes>>

\* enqueue_hydration, first statement: the existing job.
EnqueueRead(s, c) ==
  /\ pc[s] = "enqueue"
  /\ c \in intents[s]
  /\ key' = [key EXCEPT ![s] = c]
  /\ saw' = [saw EXCEPT ![s] = IF job[c].status = "none" THEN "none"
                               ELSE IF job[c].status \in Live THEN "live" ELSE "done"]
  /\ Goto(s, "check")
  /\ UNCHANGED <<storeVars, draft, token, cards, intents, crashes>>

\* The session is done with the intent in hand.
NextIntent(s) ==
  IF intents[s] = {key[s]}
  THEN LeaveDetail(s)
  ELSE /\ Goto(s, "enqueue")
       /\ intents' = [intents EXCEPT ![s] = @ \ {key[s]}]
       /\ key' = [key EXCEPT ![s] = NoKey]
       /\ saw' = [saw EXCEPT ![s] = "none"]
       /\ UNCHANGED <<draft, token, cards>>

\* Second statement: the freshness of the listing, which with the job read
\* before decides between an INSERT, a skipping UPDATE and nothing at all.
EnqueueCheck(s) ==
  /\ pc[s] = "check"
  /\ CASE FreshUntilAhead(key[s]) /\ saw[s] = "live" ->
            Goto(s, "skip") /\ UNCHANGED <<key, draft, token, cards, intents, saw>>
       [] ~FreshUntilAhead(key[s]) /\ saw[s] = "none" ->
            Goto(s, "insert") /\ UNCHANGED <<key, draft, token, cards, intents, saw>>
       [] OTHER -> NextIntent(s)
  /\ UNCHANGED <<storeVars, crashes>>

EnqueueInsert(s) ==
  /\ pc[s] = "insert"
  /\ job[key[s]].status = "none"
  /\ InsertJob(key[s])
  /\ NextIntent(s)
  /\ UNCHANGED <<listing, crashes>>

EnqueueSkip(s) ==
  /\ pc[s] = "skip"
  /\ SetStatus(key[s], "skipped")
  /\ NextIntent(s)
  /\ UNCHANGED <<listing, nextId, crashes>>

\* Anything that ends the detail early: a failed fetch or parse, an
\* IntegrityError of upsert_listing or of the INSERT (both caught by
\* _scrape_details), or the end of the session.
GiveUpDetail(s) ==
  /\ pc[s] # "idle"
  /\ LeaveDetail(s)
  /\ UNCHANGED <<storeVars, crashes>>

-----------------------------------------------------------------------------
\* Unless Overruns, no lease expires under the worker that holds it: a job
\* takes less than lease_seconds.
Tick ==
  /\ \/ Overruns
     \/ \A w \in Workers :
          pc[w] \in Busy /\ HoldsLease(key[w], token[w]) => job[key[w]].lease > 1
  /\ AgeTables
  /\ draft' = [p \in Procs |-> [draft[p] EXCEPT !.row = Older(@)]]
  /\ UNCHANGED <<nextId, pc, key, token, cards, intents, saw, crashes>>

\* What a worker does by itself once it runs.
WorkerStep(w) ==
  \/ \E k \in Keys : ClaimSkip(w, k) \/ ClaimLease(w, k)
  \/ ClaimRead(w)
  \/ CancelUnavailable(w)
  \/ ReadListing(w)
  \/ WriteDetail(w)
  \/ AckSelect(w)
  \/ FailSelect(w)
  \/ SettleJob(w)

SessionStep(s) ==
  \/ \E k \in Keys : Lookup(s, k) \/ ReadCard(s, k) \/ EnqueueRead(s, k)
  \/ ReadListing(s)
  \/ \E C \in SUBSET Keys : StoreDetail(s, C)
  \/ StoreDetailOnly(s)
  \/ StoreCard(s)
  \/ EnqueueCheck(s)
  \/ EnqueueInsert(s)
  \/ EnqueueSkip(s)
  \/ GiveUpDetail(s)

Next ==
  \/ \E w \in Workers : WorkerStep(w) \/ Kill(w) \/ Restart(w)
  \/ \E s \in Sessions : SessionStep(s)
  \/ Tick

Spec == Init /\ [][Next]_vars

\* A worker that runs goes on, one that is down is started again, and time
\* passes.  Sessions and kills are the environment's: nothing is assumed of
\* them.
Fairness ==
  /\ \A w \in Workers : WF_vars(WorkerStep(w)) /\ WF_vars(Restart(w))
  /\ WF_vars(Tick)

FairSpec == Spec /\ Fairness

-----------------------------------------------------------------------------
(* Properties.                                                             *)

\* Every variable has its type, and the lease columns go together: a job has
\* a token exactly while it is leased, and lease time only then.
TypeOK ==
  /\ StoreTypeOK
  /\ \A k \in Keys : /\ job[k].token # 0 <=> job[k].status = "leased"
                     /\ job[k].lease > 0 => job[k].status = "leased"
  /\ pc \in [Procs -> WorkerPC \cup SessionPC]
  /\ \A w \in Workers : pc[w] \in WorkerPC
  /\ \A s \in Sessions : pc[s] \in SessionPC
  /\ key \in [Procs -> Keys \cup {NoKey}]
  /\ \A p \in Procs : pc[p] \in InHand => key[p] \in Keys
  /\ draft \in [Procs -> Draft]
  /\ token \in [Workers -> Nat]
  /\ cards \in [Sessions -> SUBSET Keys]
  /\ intents \in [Sessions -> SUBSET Keys]
  /\ saw \in [Sessions -> {"none", "live", "done"}]
  /\ crashes \in Nat

\* "Claims are atomic across SQLite processes": no two workers ever have the
\* same job in hand, from the claim to the last write.  Needs ~Overruns.
OneWorkerPerJob ==
  \A v, w \in Workers :
    pc[v] \in Busy /\ pc[w] \in Busy /\ key[v] = key[w] => v = w

\* A job goes back to the queue only while it has an attempt left, however
\* claims, failures and revocations interleave.  Needs ~Overruns.
RequeueWithinBudget ==
  \A k \in Keys : job[k].status = "queued" => job[k].attempts < MaxAttempts

\* Only a killed worker costs a job an attempt beyond its budget: claims do
\* not look at max_attempts, so a job whose worker dies is claimed once more.
\* Needs ~Overruns.
AttemptsPaidByCrashes ==
  \A k \in Keys : job[k].attempts <= MaxAttempts + crashes

\* Strict FIFO: once a job has been claimed, no job enqueued before it is
\* still waiting for its first claim.
FifoFirstClaim ==
  \A j, k \in Keys :
    /\ job[j].status = "queued" /\ job[j].attempts = 0
    /\ job[k].attempts > 0
    => job[k].id < job[j].id

\* A succeeded job has its detail stored, whatever worker stored it and in
\* whatever order the steps of workers that outlived their leases came.
\* Holds between workers; a session's summary write can undo it (see
\* DetailNotOverwritten).
SucceededHasDetail ==
  \A k \in Keys : job[k].status = "succeeded" => listing[k].level = "detail"

\* A job that succeeded, failed or was cancelled never becomes claimable
\* again, though no UPDATE looks at the status it overwrites.  Needs
\* ~Overruns.
SettledStaysClosed ==
  [][\A k \in Keys : job[k].status \in Settled => job'[k].status \notin Live]_vars

\* The UPDATEs that close a job name it by its id only, and the check before
\* them is a statement of its own or, in cancel_hydration, missing.  Still a
\* job that is closed is only changed by who had it in hand when it was closed:
\* a session that read it as live and now revokes it, or, over a revocation,
\* the worker of its last claim; never the worker of an earlier claim, and
\* never a claim.  Needs ~Overruns.
ClosedByLastHands ==
  [][\A k \in Keys :
       job[k].status \in Settled \cup {"skipped"} /\ job'[k].status # job[k].status
       => \/ /\ job'[k].status = "skipped"
             /\ \E s \in Sessions : pc[s] = "skip" /\ key[s] = k
          \/ /\ job[k].status = "skipped"
             /\ \E w \in Workers :
                  pc[w] \in Busy /\ key[w] = k /\ token[w] = job[k].attempts]_vars

\* Every job that waits or is leased is settled or skipped in the end, kills
\* and lost leases included.  Needs ~Overruns: a worker that keeps outliving
\* its leases never settles anything.
EveryJobSettles ==
  \A k \in Keys : job[k].status \in Live ~> job[k].status \notin Live

-----------------------------------------------------------------------------
(* What the documentation says of these steps and the code does not keep.  *)

\* docs/reference/server-app-state.md: a card "must never overwrite a richer
\* detail_complete record".
DetailNotOverwritten ==
  [][\A k \in Keys : listing[k].level = "detail" => listing'[k].level = "detail"]_vars

\* docs/reference/server-app-state.md: a worker must "Mark a job successful
\* when another live request already produced fresh detail": such a refresh
\* never ends the worker's run with an uncaught exception.
RefreshIsNoError == \A w \in Workers : pc[w] # "raised"
=============================================================================
