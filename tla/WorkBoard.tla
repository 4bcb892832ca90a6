----------------------------- MODULE WorkBoard -----------------------------
(***************************************************************************)
(* What the hydration queue promises its workers, without leases, tokens   *)
(* or tables: a task has at most one owner, an owner alone gives it back   *)
(* or closes it, a closed task is never taken again, and a task is taken   *)
(* at most Budget times, plus once for every owner that died.              *)
(***************************************************************************)
EXTENDS Naturals

CONSTANTS Tasks, Owners, Nobody, Budget

VARIABLES
  state,  \* "none", "open", "parked" (its result exists already), "closed"
  owner,  \* who works on it, or Nobody
  takes,  \* how often it was taken
  deaths  \* owners that died

board == <<state, owner, takes, deaths>>

States == {"none", "open", "parked", "closed"}

\* Tasks may have been posted before.
Init ==
  /\ state \in [Tasks -> {"none", "open"}]
  /\ owner = [t \in Tasks |-> Nobody]
  /\ takes = [t \in Tasks |-> 0]
  /\ deaths = 0

Post(t) ==
  /\ state[t] = "none"
  /\ state' = [state EXCEPT ![t] = "open"]
  /\ UNCHANGED <<owner, takes, deaths>>

Take(o, t) ==
  /\ state[t] = "open" /\ owner[t] = Nobody
  /\ takes[t] < Budget + deaths
  /\ owner' = [owner EXCEPT ![t] = o]
  /\ takes' = [takes EXCEPT ![t] = @ + 1]
  /\ UNCHANGED <<state, deaths>>

\* Somebody else has produced the result; the owner, if any, works on.
Park(t) ==
  /\ state[t] # "none"
  /\ state' = [state EXCEPT ![t] = "parked"]
  /\ UNCHANGED <<owner, takes, deaths>>

\* The owner closes the task or opens it for another try.
Release(t) ==
  /\ owner[t] # Nobody
  /\ \E verdict \in {"open", "closed"} : state' = [state EXCEPT ![t] = verdict]
  /\ owner' = [owner EXCEPT ![t] = Nobody]
  /\ UNCHANGED <<takes, deaths>>

\* The owner gives up a task that is no longer its own.
Drop(t) ==
  /\ owner[t] # Nobody /\ state[t] = "parked"
  /\ owner' = [owner EXCEPT ![t] = Nobody]
  /\ UNCHANGED <<state, takes, deaths>>

Die(t) ==
  /\ owner[t] # Nobody
  /\ owner' = [owner EXCEPT ![t] = Nobody]
  /\ deaths' = deaths + 1
  /\ UNCHANGED <<state, takes>>

Next ==
  \E t \in Tasks : \/ Post(t) \/ Park(t) \/ Release(t) \/ Drop(t) \/ Die(t)
                   \/ \E o \in Owners : Take(o, t)

Spec == Init /\ [][Next]_board
=============================================================================
