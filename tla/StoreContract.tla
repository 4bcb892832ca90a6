----------------------------- MODULE StoreContract -----------------------------
(***************************************************************************)
(* What BaseDataStore promises its callers, with no tables, transactions   *)
(* or processes: each property has one ID for good, no two share a key or  *)
(* a URL, a decision is replaced by the next one, and searches and the     *)
(* recommendations made for them are only ever added.                      *)
(***************************************************************************)
EXTENDS Naturals, FiniteSets

CONSTANTS IDs, Properties, CacheValues, Unset, Backlog

VARIABLES
  known,     \* the properties stored: a set of [id, key, url]
  decision,  \* the current feedback of each ID
  searches,  \* how many searches were recorded; their IDs are 1..searches
  recommended, \* the pairs <<search, listing ID>>
  meta       \* the value of a cache_meta key

vars == <<known, decision, searches, recommended, meta>>

Decisions == {"none", "save", "reject"}

Init ==
  /\ known \in {{}, Backlog} /\ decision = [i \in IDs |-> "none"]
  /\ searches = 0 /\ recommended = {} /\ meta = Unset

Distinct(props) ==
  \A a, b \in props : a.id = b.id \/ a.key = b.key \/ a.url = b.url => a = b

\* A property not met before.
UpsertNew ==
  /\ \E new \in Properties : known' = known \union {new} /\ new \notin known
  /\ Distinct(known')
  /\ UNCHANGED <<decision, searches, recommended, meta>>

\* A property met before keeps its ID, whatever key and URL it has now.
UpsertKnown ==
  /\ \E old \in known, new \in Properties :
       /\ old.id = new.id
       /\ known' = (known \ {old}) \union {new}
  /\ Distinct(known')
  /\ UNCHANGED <<decision, searches, recommended, meta>>

Decide ==
  /\ \E i \in IDs, d \in Decisions : decision' = [decision EXCEPT ![i] = d]
  /\ UNCHANGED <<known, searches, recommended, meta>>

RecordSearch ==
  /\ searches' = searches + 1
  /\ UNCHANGED <<known, decision, recommended, meta>>

\* All the recommendations of a search appear at once.
RecordRecommendation ==
  /\ \E s \in 1..searches, ids \in SUBSET IDs :
       recommended' = recommended \union ({s} \X ids)
  /\ UNCHANGED <<known, decision, searches, meta>>

SetCacheMeta ==
  /\ meta' \in CacheValues
  /\ UNCHANGED <<known, decision, searches, recommended>>

Next == \/ UpsertNew \/ UpsertKnown \/ Decide
        \/ RecordSearch \/ RecordRecommendation \/ SetCacheMeta

Spec == Init /\ [][Next]_vars
===============================================================================
