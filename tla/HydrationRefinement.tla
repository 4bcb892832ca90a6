------------------------ MODULE HydrationRefinement ------------------------
(***************************************************************************)
(* DetailHydration, without overruns, implements WorkBoard: a job is open  *)
(* while it is queued or leased, parked while it is skipped, and owned by  *)
(* the worker that has it in hand.                                         *)
(***************************************************************************)
EXTENDS DetailHydration

BoardState(status) ==
  CASE status = "none" -> "none"
    [] status \in Live -> "open"
    [] status = "skipped" -> "parked"
    [] status \in Settled -> "closed"

Holders(k) == {w \in Workers : pc[w] \in Busy /\ key[w] = k}
TheOwner(H) == IF H = {} THEN NoKey ELSE CHOOSE w \in H : TRUE

boardState == [k \in Keys |-> BoardState(job[k].status)]
boardOwner == [k \in Keys |-> TheOwner(Holders(k))]
boardTakes == [k \in Keys |-> job[k].attempts]

Board == INSTANCE WorkBoard WITH
  Tasks <- Keys, Owners <- Workers, Nobody <- NoKey, Budget <- MaxAttempts,
  state <- boardState, owner <- boardOwner, takes <- boardTakes, deaths <- crashes

\* The promises of WorkBoard, kept through every interleaving of workers,
\* sessions, kills and lease expiries.
ImplementsWorkBoard == Board!Spec
=============================================================================
