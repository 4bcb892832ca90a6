-------------------- MODULE HydrationRefinement_proofs --------------------
(***************************************************************************)
(* Proof that DetailHydration implements WorkBoard when no worker outlives *)
(* its lease.  The invariant and the classification of steps are those of  *)
(* DetailHydration_proofs; each kind of step is one action of the board.   *)
(***************************************************************************)
EXTENDS HydrationRefinement, DetailHydration_proofs

LEMMA NoOwner == TheOwner({}) = NoKey
  BY DEF TheOwner

LEMMA OneOwner == ASSUME NEW w PROVE TheOwner({w}) = w
  BY DEF TheOwner

\* Exactly the worker that has a job in hand is its owner on the board.
LEMMA HolderIsOwner ==
  ASSUME OneWorkerPerJob, NEW w \in Workers, pc[w] \in Busy
  PROVE  Holders(key[w]) = {w}
  BY DEF OneWorkerPerJob, Holders

LEMMA BoardStates ==
  /\ BoardState("none") = "none"
  /\ BoardState("queued") = "open" /\ BoardState("leased") = "open"
  /\ BoardState("skipped") = "parked"
  /\ \A st \in Settled : BoardState(st) = "closed"
  BY DEF BoardState, Live, Settled

\* The board is empty of owners at first.
LEMMA BoardInit == Init => Board!Init
<1> SUFFICES ASSUME Init PROVE Board!Init
  OBVIOUS
<1>1. /\ \A k \in Keys : job[k].status \in {"none", "queued"}
      /\ \A k \in Keys : job[k].attempts = 0
      /\ crashes = 0
  <2>1. \A k \in Keys : job[k] = NoJob \/ job[k] = NewJob(Backlog[k])
    BY DEF Init, StoreInit
  <2>2. /\ \A i : NewJob(i).status = "queued" /\ NewJob(i).attempts = 0
        /\ NoJob.status = "none" /\ NoJob.attempts = 0
    BY DEF NoJob, NewJob
  <2>3. QED
    BY <2>1, <2>2 DEF Init
<1>2. \A k \in Keys : BoardState(job[k].status) \in {"none", "open"}
  BY <1>1, BoardStates
<1>3. \A k \in Keys : Holders(k) = {}
  BY DEF Init, Holders, Busy, Procs
<1>4. QED
  BY <1>1, <1>2, <1>3, NoOwner DEF Board!Init, boardState, boardOwner, boardTakes

\* The owners do not change while every worker keeps what it has ...
LEMMA OwnersKept == ASSUME Keeping(Workers) PROVE boardOwner' = boardOwner
<1>1. \A k \in Keys : Holders(k)' = Holders(k)
  BY DEF Keeping, Holders
<1>2. QED
  BY <1>1 DEF boardOwner

\* ... one owner is gone when a worker leaves its job ...
LEMMA OwnerLeaves ==
  ASSUME OneWorkerPerJob, NEW w \in Workers, NEW k \in Keys, key[w] = k, Leaving(w)
  PROVE  /\ boardOwner[k] # NoKey
         /\ boardOwner' = [boardOwner EXCEPT ![k] = NoKey]
<1>0. w # NoKey
  BY ProcessesDistinct
<1>1. Holders(k) = {w}
  BY HolderIsOwner DEF Leaving
<1>2. Holders(k)' = {}
  <2>1. ASSUME NEW v \in Workers, pc'[v] \in Busy, key'[v] = k PROVE FALSE
    <3>1. v # w /\ pc[v] \in Busy /\ key[v] = k
      BY <2>1 DEF Leaving, Keeping
    <3>2. QED
      BY <3>1 DEF OneWorkerPerJob, Leaving
  <2>2. QED
    BY <2>1 DEF Holders
<1>3. \A j \in Keys : j # k => Holders(j)' = Holders(j)
  BY DEF Leaving, Keeping, Holders
<1>4. /\ boardOwner = [j \in Keys |-> TheOwner(Holders(j))]
      /\ boardOwner' = [j \in Keys |-> TheOwner(Holders(j)')]
  BY DEF boardOwner
<1>5. boardOwner[k] = w /\ boardOwner'[k] = NoKey
  BY <1>1, <1>2, <1>4, NoOwner, OneOwner
<1>6. \A j \in Keys : j # k => boardOwner'[j] = boardOwner[j]
  BY <1>3, <1>4
<1>7. QED
  BY <1>0, <1>4, <1>5, <1>6

\* ... and one is new when a worker claims a job nobody has in hand.
LEMMA OwnerClaims ==
  ASSUME NEW w \in Workers, NEW k \in Keys, Claiming(w, k), Holders(k) = {}
  PROVE  /\ boardOwner[k] = NoKey
         /\ boardOwner' = [boardOwner EXCEPT ![k] = w]
<1>1. Holders(k)' = {w}
  <2>1. pc'[w] \in Busy /\ key'[w] = k
    BY DEF Claiming, Busy
  <2>2. ASSUME NEW v \in Workers, v # w, pc'[v] \in Busy, key'[v] = k PROVE FALSE
    BY <2>2 DEF Claiming, Keeping, Holders
  <2>3. QED
    BY <2>1, <2>2 DEF Holders
<1>2. \A j \in Keys : j # k => Holders(j)' = Holders(j)
  BY DEF Claiming, Keeping, Holders, Busy
<1>3. /\ boardOwner = [j \in Keys |-> TheOwner(Holders(j))]
      /\ boardOwner' = [j \in Keys |-> TheOwner(Holders(j)')]
  BY DEF boardOwner
<1>4. boardOwner[k] = NoKey /\ boardOwner'[k] = w
  BY <1>1, <1>3, NoOwner, OneOwner
<1>5. \A j \in Keys : j # k => boardOwner'[j] = boardOwner[j]
  BY <1>2, <1>3
<1>6. QED
  BY <1>3, <1>4, <1>5

\* A step that changes one job changes one task.
LEMMA TaskChanges ==
  ASSUME NEW k \in Keys, \A j \in Keys : j # k => job'[j] = job[j]
  PROVE  /\ boardState' = [boardState EXCEPT ![k] = BoardState(job'[k].status)]
         /\ boardTakes' = [boardTakes EXCEPT ![k] = job'[k].attempts]
<1>1. /\ boardState' = [j \in Keys |-> BoardState(job'[j].status)]
      /\ boardTakes' = [j \in Keys |-> job'[j].attempts]
  BY DEF boardState, boardTakes
<1>2. QED
  BY <1>1 DEF boardState, boardTakes

\* Each kind of step is an action of the board, or nothing to it.
LEMMA BoardStep ==
  ASSUME ~Overruns, LeaseInv, [Next]_vars
  PROVE  [Board!Next]_(Board!board)
<1> DEFINE Goal == [Board!Next]_(Board!board)
<1>0. LeaseParts
  BY LeaseFacts
<1>1. QueueStep
  BY <1>0, LeaseFacts, QueueSteps DEF LeaseParts
<1>2. CASE Quiet
  <2>1. boardOwner' = boardOwner
    BY <1>2, OwnersKept DEF Quiet
  <2>2. boardState' = boardState /\ boardTakes' = boardTakes /\ crashes' = crashes
    BY <1>2 DEF Quiet, boardState, boardTakes
  <2>3. QED
    BY <2>1, <2>2 DEF Board!board
<1>3. CASE Aging
  <2>1. boardOwner' = boardOwner
    BY <1>3, OwnersKept DEF Aging
  <2>2. \A k \in Keys : job'[k].status = job[k].status /\ job'[k].attempts = job[k].attempts
    BY <1>3, LeaseFacts, AgeTablesEffect DEF Aging
  <2>3. boardState' = boardState /\ boardTakes' = boardTakes /\ crashes' = crashes
    BY <1>3, <2>2 DEF Aging, boardState, boardTakes
  <2>4. QED
    BY <2>1, <2>3 DEF Board!board
<1>4. ASSUME NEW k \in Keys, Skipping(k) PROVE Goal
  <2>1. /\ job'[k].status = "skipped" /\ job'[k].attempts = job[k].attempts
        /\ \A j \in Keys : j # k => job'[j] = job[j]
    BY <1>4, LeaseFacts, SetStatusEffect DEF Skipping, Status
  <2>2. boardState' = [boardState EXCEPT ![k] = "parked"] /\ boardTakes' = boardTakes
    BY <2>1, TaskChanges, BoardStates DEF boardTakes
  <2>3. boardState[k] # "none"
    <3>1. job[k] \in Job /\ job[k].status # "none"
      BY <1>4, LeaseFacts DEF Skipping
    <3>2. job[k].status \in {"queued", "leased", "skipped"} \cup Settled
      BY <3>1 DEF Job, Status, Settled
    <3>3. BoardState(job[k].status) \in {"open", "parked", "closed"}
      BY <3>2, BoardStates
    <3>4. QED
      BY <3>3 DEF boardState
  <2>4. boardOwner' = boardOwner /\ crashes' = crashes
    BY <1>4, OwnersKept DEF Skipping
  <2>5. Board!Park(k)
    BY <2>2, <2>3, <2>4 DEF Board!Park
  <2>6. QED
    BY <2>5 DEF Board!Next
<1>5. ASSUME NEW k \in Keys, Enqueueing(k) PROVE Goal
  <2>1. /\ job'[k].status = "queued" /\ job'[k].attempts = 0
        /\ \A j \in Keys : j # k => job'[j] = job[j]
    BY <1>5, LeaseFacts, InsertJobEffect DEF Enqueueing
  <2>2. job[k].attempts = 0 /\ job[k].status = "none"
    <3>1. job[k].attempts \in Nat
      BY LeaseFacts, TypeFacts
    <3>2. ~ (job[k].attempts > 0)
      BY <1>5, LeaseFacts DEF JobsInHand, Enqueueing
    <3>3. QED
      BY <1>5, <3>1, <3>2 DEF Enqueueing
  <2>3. boardState' = [boardState EXCEPT ![k] = "open"] /\ boardTakes' = boardTakes
    <3>1. /\ boardState' = [boardState EXCEPT ![k] = "open"]
          /\ boardTakes' = [boardTakes EXCEPT ![k] = 0]
      BY <2>1, TaskChanges, BoardStates
    <3>2. boardTakes = [boardTakes EXCEPT ![k] = 0]
      BY <2>2 DEF boardTakes
    <3>3. QED
      BY <3>1, <3>2
  <2>4. boardState[k] = "none"
    BY <2>2, BoardStates DEF boardState
  <2>5. boardOwner' = boardOwner /\ crashes' = crashes
    BY <1>5, OwnersKept DEF Enqueueing
  <2>6. Board!Post(k)
    BY <2>3, <2>4, <2>5 DEF Board!Post
  <2>7. QED
    BY <2>6 DEF Board!Next
<1>6. ASSUME NEW w \in Workers, NEW k \in Keys, Claiming(w, k) PROVE Goal
  <2>1. /\ job'[k].status = "leased" /\ job'[k].attempts = job[k].attempts + 1
        /\ \A j \in Keys : j # k => job'[j] = job[j]
    BY <1>6, LeaseFacts, LeaseJobEffect DEF Claiming
  <2>2. job[k].status \in {"queued", "leased"}
    BY <1>6 DEF Claiming, Claimable
  <2>3. Holders(k) = {}
    BY <1>0, <1>6, LeaseFacts
    DEF LeaseParts, LeaseInHand, HoldsLease, Claiming, Claimable, Holders
  <2>4. job[k].attempts < MaxAttempts + crashes
    <3>1. CASE job[k].status = "queued"
      BY <1>0, <3>1, LeaseFacts DEF LeaseParts, RequeueWithinBudget
    <3>2. CASE job[k].status = "leased"
      BY <1>0, <2>3, <3>2 DEF LeaseParts, OrphansPaid, Orphan, Holders
    <3>3. QED
      BY <2>2, <3>1, <3>2
  <2>5. /\ boardState[k] = "open" /\ boardTakes[k] = job[k].attempts
        /\ boardState' = boardState
        /\ boardTakes' = [boardTakes EXCEPT ![k] = job[k].attempts + 1]
    <3>1. boardState[k] = "open" /\ boardTakes[k] = job[k].attempts
      BY <2>2, BoardStates DEF boardState, boardTakes
    <3>2. /\ boardState' = [boardState EXCEPT ![k] = "open"]
          /\ boardTakes' = [boardTakes EXCEPT ![k] = job[k].attempts + 1]
      BY <2>1, TaskChanges, BoardStates
    <3>3. boardState = [boardState EXCEPT ![k] = "open"]
      BY <3>1 DEF boardState
    <3>4. QED
      BY <3>1, <3>2, <3>3
  <2>6. /\ boardOwner[k] = NoKey /\ boardOwner' = [boardOwner EXCEPT ![k] = w]
    BY <1>6, <2>3, OwnerClaims
  <2>7. Board!Take(w, k)
    BY <1>6, <2>4, <2>5, <2>6 DEF Board!Take, Claiming
  <2>8. QED
    BY <2>7 DEF Board!Next
<1>7. ASSUME NEW w \in Workers, NEW k \in Keys, key[w] = k, Leaving(w)
      PROVE  boardOwner[k] # NoKey /\ boardOwner' = [boardOwner EXCEPT ![k] = NoKey]
  BY <1>0, <1>7, OwnerLeaves DEF LeaseParts
<1>8. ASSUME NEW w \in Workers, NEW k \in Keys, key[w] = k, Settling(w) PROVE Goal
  <2>1. PICK st \in Settled \cup {"queued"} : SetStatus(k, st)
    BY <1>8 DEF Settling
  <2>2. /\ job'[k].status = st /\ job'[k].attempts = job[k].attempts
        /\ \A j \in Keys : j # k => job'[j] = job[j]
    BY <2>1, LeaseFacts, SetStatusEffect DEF Settled, Status
  <2>3. BoardState(st) \in {"open", "closed"}
    BY BoardStates
  <2>4. /\ boardState' = [boardState EXCEPT ![k] = BoardState(st)]
        /\ boardTakes' = boardTakes
    BY <2>2, TaskChanges DEF boardTakes
  <2>5. Board!Release(k)
    BY <1>7, <1>8, <2>3, <2>4 DEF Board!Release, Settling
  <2>6. QED
    BY <2>5 DEF Board!Next
<1>9. ASSUME NEW w \in Workers, NEW k \in Keys, key[w] = k, Losing(w) PROVE Goal
  <2>1. job[k].status = "skipped"
    BY <1>0, <1>9 DEF LeaseParts, LeaseInHand, Losing, Leaving
  <2>2. boardState[k] = "parked"
    BY <2>1, BoardStates DEF boardState
  <2>3. boardState' = boardState /\ boardTakes' = boardTakes /\ crashes' = crashes
    BY <1>9 DEF Losing, boardState, boardTakes
  <2>4. Board!Drop(k)
    BY <1>7, <1>9, <2>2, <2>3 DEF Board!Drop, Losing
  <2>5. QED
    BY <2>4 DEF Board!Next
<1>10. ASSUME NEW w \in Workers, NEW k \in Keys, key[w] = k, Dying(w) PROVE Goal
  <2>1. boardState' = boardState /\ boardTakes' = boardTakes /\ crashes' = crashes + 1
    BY <1>10 DEF Dying, boardState, boardTakes
  <2>2. Board!Die(k)
    BY <1>7, <1>10, <2>1 DEF Board!Die, Dying
  <2>3. QED
    BY <2>2 DEF Board!Next
<1>11. \A w \in Workers : Settling(w) \/ Losing(w) \/ Dying(w) => key[w] \in Keys
  BY LeaseFacts DEF Settling, Losing, Dying, Leaving
<1>12. QED
  BY <1>1, <1>2, <1>3, <1>4, <1>5, <1>6, <1>8, <1>9, <1>10, <1>11 DEF QueueStep

\* The whole protocol of leases, tokens, retries and revocations keeps the
\* promises of the plain work board, for any number of listings, workers and
\* sessions: a task has one owner, only its owner gives it back or closes it,
\* and it is taken at most max_attempts times plus once per killed owner.
THEOREM Implements == ASSUME ~Overruns PROVE Spec => ImplementsWorkBoard
  BY BoardInit, BoardStep, LeaseInvariant, PTL DEF Spec, ImplementsWorkBoard, Board!Spec
=============================================================================
