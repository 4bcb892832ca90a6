------------------------- MODULE SearchSession_proofs -------------------------
(***************************************************************************)
(* Theorems of SearchSession, for any listings, sites, answers of the      *)
(* model and budgets.  The inductive invariant SessionInv says, stage by   *)
(* stage, which search each of run, last, report and store speaks of;      *)
(* EncodingInv, that the plan and the request are of the answer and of a   *)
(* valid map, so that the rest is about the filters alone.                 *)
(***************************************************************************)
EXTENDS SearchSession, DataInduction, TLAPS

\* Before the harvest, last is that of the last completed search; after it,
\* that of the running one, more and more.
Early == {"load", "prompt", "parse", "confirm", "encode", "refused", "page"}
Late == {"persist", "record_search", "shortlist", "detail", "recommend", "remember",
         "report", "record"}
Detailing == {"detail", "recommend", "remember", "report", "record"}
Searching == {"page", "persist", "record_search", "remember", "record"}

RunOK ==
  /\ DOMAIN run = DOMAIN Idle
  /\ run.verb \in {"none", "search", "more_like"}
  /\ run.page \in 1..MaxPages /\ run.partial \in BOOLEAN
  /\ run.found \subseteq Listings /\ run.short \subseteq Listings
  /\ run.recs \in Seq(Listings) /\ run.search \in Nat
LastOK ==
  /\ DOMAIN last = DOMAIN Fresh
  /\ last.query \in 0..MaxClauses
  /\ last.harvest \subseteq Listings /\ last.short \subseteq Listings
  /\ last.recs \in Seq(Listings)
StoreOK ==
  /\ DOMAIN store = DOMAIN EmptyStore
  /\ store.seen \subseteq Listings /\ store.rejected \subseteq Listings
  /\ store.searches \in Seq([query : 1..MaxClauses, flow : Flows])
  /\ store.ranked \subseteq [search : Nat, rank : Nat, listing : Listings]
RestOK ==
  /\ filterMap \in Maps /\ site \in Sites
  /\ pc \in Stages \union {"load", "prompt", "closing", "ended"}
  /\ report.recs \in Seq(Listings)
  /\ status \in {"none", "aborted", "partial", "ok", "raised"}
VerbsOK ==
  /\ pc \in Stages => run.verb \in {"search", "more_like"}
  /\ pc \in Stages /\ run.verb = "search" => run.query \in 1..MaxClauses
  /\ pc \in {"parse", "confirm", "encode", "refused"} \union Searching => run.verb = "search"
Typed == RunOK /\ LastOK /\ StoreOK /\ RestOK /\ VerbsOK

\* The pages fetched so far all showed listings, and those are what was found.
Paging ==
  /\ pc \in {"parse", "confirm", "encode"} => run.page = 1 /\ run.found = {}
  /\ pc = "page" =>
       /\ \A i \in 1..(run.page - 1) :
            i \in DOMAIN site[run.plan.flow] /\ site[run.plan.flow][i] # {}
       /\ run.found = UNION {site[run.plan.flow][i] : i \in 1..(run.page - 1)}

Planned == pc \in {"confirm", "encode", "refused", "page"} \union Late => run.plan.flow \in Flows

\* What the running command holds comes from its own pages, and what the user
\* rejected is not in it.
Harvesting ==
  pc \in Late =>
    /\ run.found \subseteq PagesShown(run.plan.flow)
    /\ ~run.partial /\ run.verb = "search" => run.found = PagesShown(run.plan.flow)
    /\ last.harvest = run.found
    /\ run.verb = "more_like" => last.plan = run.plan
Selecting ==
  /\ pc \in Detailing => /\ run.short \subseteq run.found \ store.rejected
                         /\ last.short \subseteq last.harvest
  /\ pc = "shortlist" /\ run.verb = "more_like" => last.short \subseteq last.harvest
  /\ pc \in {"remember", "report", "record"} =>
       last.recs = run.recs /\ \A i \in Ranks(run.recs) : run.recs[i] \in run.short
  /\ pc \in {"report", "record"} => last.plan = run.plan
  /\ pc = "record" => report.recs = run.recs

Coherent ==
  pc \in Early =>
    /\ report.recs = last.recs
    /\ last.short \subseteq last.harvest
    /\ \A i \in Ranks(last.recs) : last.recs[i] \in last.harvest
    /\ last.plan = NoPlan => last.recs = <<>>
    /\ last.plan # NoPlan => /\ last.plan.flow \in Flows
                             /\ last.harvest \subseteq PagesShown(last.plan.flow)

\* The running search is recorded under its flow, and what it found is stored.
Recorded ==
  /\ pc \in Late \ {"persist"} /\ run.verb = "search" => run.found \subseteq store.seen
  /\ pc \in Late \ {"persist", "record_search"} /\ run.verb = "search" =>
       /\ run.search \in DOMAIN store.searches
       /\ store.searches[run.search].flow = run.plan.flow

SessionInv ==
  /\ Typed /\ Paging /\ Planned /\ Harvesting /\ Selecting /\ Coherent /\ Recorded
  /\ ReportNamesItsPlan /\ HistoryIsSound

-----------------------------------------------------------------------------
(* Sites, rankings, shapes.                                                 *)

LEMMA SitePages ==
  ASSUME site \in Sites, NEW flow \in Flows
  PROVE  /\ site[flow] \in Seq(SUBSET Listings)
         /\ PagesShown(flow) \subseteq Listings
<1>1. site[flow] \in Seq(SUBSET Listings)
  BY SessionAssumption
<1>2. \A n \in DOMAIN site[flow] : site[flow][n] \subseteq Listings
  BY <1>1
<1> QED
  BY <1>1, <1>2 DEF PagesShown

\* A prefix of pages that all show something is shown; when the next one shows
\* nothing, or does not exist, it is all that is shown.
LEMMA PrefixShown ==
  ASSUME site \in Sites, NEW flow \in Flows, NEW n \in Nat,
         \A i \in 1..n : i \in DOMAIN site[flow] /\ site[flow][i] # {}
  PROVE  /\ UNION {site[flow][i] : i \in 1..n} \subseteq PagesShown(flow)
         /\ (n + 1 \in DOMAIN site[flow] => site[flow][n + 1] = {})
              => UNION {site[flow][i] : i \in 1..n} = PagesShown(flow)
<1> DEFINE pages == site[flow]
           shown == {m \in DOMAIN pages : \A i \in 1..m : pages[i] # {}}
<1>1. PagesShown(flow) = UNION {pages[m] : m \in shown}
  BY DEF PagesShown
<1>2. DOMAIN pages = 1..Len(pages) /\ Len(pages) \in Nat
  BY SitePages
<1>3. \A m \in 1..n : m \in shown
  OBVIOUS
<1>4. UNION {pages[i] : i \in 1..n} \subseteq PagesShown(flow)
  BY <1>1, <1>3
<1>5. ASSUME n + 1 \in DOMAIN pages => pages[n + 1] = {}
      PROVE  shown \subseteq 1..n
  <2> SUFFICES ASSUME NEW m \in shown PROVE m \in 1..n
    OBVIOUS
  <2>1. m \in 1..Len(pages) /\ \A i \in 1..m : pages[i] # {}
    BY <1>2
  <2>2. CASE m > n
    <3>1. n + 1 \in 1..m /\ n + 1 \in DOMAIN pages
      BY <1>2, <2>1, <2>2
    <3> QED
      BY <1>5, <2>1, <3>1
  <2> QED
    BY <2>1, <2>2
<1>6. ASSUME shown \subseteq 1..n
      PROVE  PagesShown(flow) \subseteq UNION {pages[i] : i \in 1..n}
  BY <1>1, <1>6
<1> QED
  BY <1>4, <1>5, <1>6

LEMMA PrefixGrows ==
  ASSUME NEW pages, NEW n \in Nat
  PROVE  UNION {pages[i] : i \in 1..(n + 1)} = (UNION {pages[i] : i \in 1..n}) \union pages[n + 1]
<1>1. \A i : i \in 1..(n + 1) <=> i \in 1..n \/ i = n + 1
  OBVIOUS
<1>2. \A x : x \in UNION {pages[i] : i \in 1..(n + 1)} <=> \E i \in 1..(n + 1) : x \in pages[i]
  OBVIOUS
<1>3. \A x : x \in UNION {pages[i] : i \in 1..n} <=> \E i \in 1..n : x \in pages[i]
  OBVIOUS
<1> QED
  BY <1>1, <1>2, <1>3

LEMMA RankingKnown ==
  ASSUME NEW S, NEW n \in Nat, NEW recs \in Rankings(S, n)
  PROVE  recs \in Seq(S) /\ \A i \in Ranks(recs) : recs[i] \in S
<1>1. PICK k \in 0..n : recs \in [1..k -> S]
  BY DEF Rankings
<1>2. recs \in Seq(S)
  BY <1>1
<1> QED
  BY <1>2 DEF Ranks

LEMMA Shapes ==
  /\ DOMAIN Idle = {"verb", "query", "answer", "plan", "params", "page", "found", "partial",
                    "short", "recs", "search"}
  /\ DOMAIN Fresh = {"query", "plan", "harvest", "short", "recs"}
  /\ DOMAIN EmptyStore = {"seen", "rejected", "searches", "ranked"}
  /\ NoPlan.flow \notin Flows
BY DEF Idle, Fresh, EmptyStore, NoPlan, Flows

\* The sites do not change, nor what they show.
LEMMA SiteStays ==
  ASSUME UNCHANGED site
  PROVE  \A flow : PagesShown(flow)' = PagesShown(flow)
BY DEF PagesShown

-----------------------------------------------------------------------------
(* The process, and the commands that end at once.                          *)

LEMMA IdleTyped ==
  ASSUME run' = Idle
  PROVE  RunOK'
<1>1. /\ run'.verb = "none" /\ run'.page = 1 /\ run'.found = {}
      /\ run'.short = {} /\ run'.recs = <<>> /\ run'.search = 0
      /\ DOMAIN run' = DOMAIN Idle
  BY DEF Idle
<1>2. 1 \in 1..MaxPages
  BY SessionAssumption DEF MaxPages
<1>3. (DOMAIN Idle)' = DOMAIN Idle /\ MaxPages' = MaxPages
  BY DEF Idle, MaxPages
<1>4. <<>> \in Seq(Listings)
  OBVIOUS
<1>5. run'.partial \in BOOLEAN
  BY DEF Idle
<1>6. run'.page \in 1..MaxPages'
  BY <1>1, <1>2, <1>3
<1>7. run'.recs \in Seq(Listings)
  BY <1>1, <1>4
<1> QED
  BY <1>1, <1>3, <1>5, <1>6, <1>7 DEF RunOK

\* Load, Fail, Quit, Close, and the ways a search ends before its harvest.
LEMMA LeavingKeeps ==
  ASSUME SessionInv, UNCHANGED <<filterMap, site, last, store, report>>,
         run' = Idle \/ run' = run,
         \/ pc' \in {"closing", "ended"}
         \/ pc' = "prompt" /\ pc \in Early,
         status' \in {"none", "aborted", "partial", "ok", "raised"}
  PROVE  SessionInv'
<1>1. RunOK'
  <2>1. CASE run' = Idle
    BY <2>1, IdleTyped
  <2>2. CASE run' = run
    BY <2>2 DEF SessionInv, Typed, RunOK, Idle, MaxPages
  <2> QED
    BY <2>1, <2>2
<1>2. LastOK' /\ StoreOK'
  BY DEF SessionInv, Typed, LastOK, StoreOK
<1>3. RestOK' /\ VerbsOK'
  BY DEF SessionInv, Typed, RestOK, VerbsOK, Stages, Searching
<1>4. Paging' /\ Planned' /\ Harvesting' /\ Selecting' /\ Recorded'
  BY DEF Paging, Planned, Harvesting, Selecting, Recorded, Early, Late, Detailing
<1>5. Coherent'
  BY SiteStays DEF SessionInv, Coherent, Early, Ranks
<1>6. ReportNamesItsPlan' /\ HistoryIsSound'
  BY SiteStays DEF SessionInv, ReportNamesItsPlan, HistoryIsSound, Ranks
<1> QED
  BY <1>1, <1>2, <1>3, <1>4, <1>5, <1>6 DEF SessionInv, Typed

\* A stage before the harvest leads to another one.
LEMMA EarlyKeeps ==
  ASSUME SessionInv, UNCHANGED <<filterMap, site, last, store, report, status>>,
         pc \in Early, pc' \in Early \ {"load", "prompt"},
         RunOK', VerbsOK', Planned', Paging'
  PROVE  SessionInv'
<1>1. LastOK' /\ StoreOK' /\ RestOK'
  BY DEF SessionInv, Typed, LastOK, StoreOK, RestOK, Early, Stages
<1>2. Harvesting' /\ Selecting' /\ Recorded'
  BY DEF Harvesting, Selecting, Recorded, Early, Late, Detailing
<1>3. Coherent'
  BY SiteStays DEF SessionInv, Coherent, Ranks
<1>4. ReportNamesItsPlan' /\ HistoryIsSound'
  BY SiteStays DEF SessionInv, ReportNamesItsPlan, HistoryIsSound, Ranks
<1> QED
  BY <1>1, <1>2, <1>3, <1>4 DEF SessionInv, Typed

LEMMA BeginKeeps ==
  ASSUME SessionInv, NEW query \in 0..MaxClauses, Begin(query)
  PROVE  SessionInv'
<1>1. CASE query = 0
  BY <1>1, LeavingKeeps DEF Begin, Ended, Early
<1>2. CASE query # 0
  <2>1. /\ pc = "prompt" /\ pc' = "parse"
        /\ UNCHANGED <<filterMap, site, last, store, report, status>>
        /\ run' = [Idle EXCEPT !.verb = "search", !.query = query]
    BY <1>2 DEF Begin, Goto
  <2>2. /\ run'.verb = "search" /\ run'.query = query /\ run'.page = 1 /\ run'.found = {}
        /\ run'.short = {} /\ run'.recs = <<>> /\ run'.search = 0 /\ DOMAIN run' = DOMAIN Idle
    BY <2>1 DEF Idle
  <2>3. run'.partial \in BOOLEAN
    BY <2>1 DEF Idle
  <2>4. 1 \in 1..MaxPages /\ MaxPages' = MaxPages /\ (DOMAIN Idle)' = DOMAIN Idle
    BY SessionAssumption DEF MaxPages, Idle
  <2>5. RunOK'
    <3>1. run'.page \in 1..MaxPages' /\ run'.recs \in Seq(Listings)
      BY <2>2, <2>4
    <3> QED
      BY <2>2, <2>3, <2>4, <3>1 DEF RunOK
  <2>6. VerbsOK' /\ Planned' /\ Paging'
    BY <1>2, <2>1, <2>2 DEF VerbsOK, Planned, Paging, Searching, Late
  <2> QED
    BY <2>1, <2>5, <2>6, EarlyKeeps DEF Early
<1> QED
  BY <1>1, <1>2

LEMMA ParseKeeps == SessionInv /\ Parse => SessionInv'
<1> SUFFICES ASSUME SessionInv, Parse PROVE SessionInv'
  OBVIOUS
<1>1. PICK flow \in Flows, answer \in Answers :
        IF answer.ambiguous THEN Ended("aborted")
        ELSE /\ run' = [run EXCEPT !.answer = answer,
                                   !.plan = ResolvePlan(answer, filterMap, flow)]
             /\ Goto("confirm") /\ UNCHANGED status
  BY DEF Parse
<1>2. pc = "parse" /\ UNCHANGED <<filterMap, site, last, store, report>>
  BY DEF Parse
<1>3. CASE answer.ambiguous
  BY <1>1, <1>2, <1>3, LeavingKeeps DEF Ended, Early
<1>4. CASE ~answer.ambiguous
  <2>1. /\ run' = [run EXCEPT !.answer = answer, !.plan = ResolvePlan(answer, filterMap, flow)]
        /\ pc' = "confirm" /\ UNCHANGED status
    BY <1>1, <1>4 DEF Goto
  <2>2. run'.plan.flow = flow
    BY <2>1, Shapes DEF SessionInv, Typed, RunOK, ResolvePlan
  <2>3. /\ run'.verb = run.verb /\ run'.query = run.query /\ run'.page = run.page
        /\ run'.found = run.found /\ run'.short = run.short /\ run'.recs = run.recs
        /\ run'.search = run.search /\ DOMAIN run' = DOMAIN run
    BY <2>1, Shapes DEF SessionInv, Typed, RunOK
  <2>4. run'.partial = run.partial
    BY <2>1
  <2>5. RunOK'
    BY <2>3, <2>4 DEF SessionInv, Typed, RunOK, Idle, MaxPages
  <2>6. VerbsOK' /\ Planned' /\ Paging'
    BY <1>2, <2>1, <2>2, <2>3 DEF SessionInv, Typed, VerbsOK, Planned, Paging, Searching, Stages
  <2> QED
    BY <1>2, <2>1, <2>5, <2>6, EarlyKeeps DEF Early
<1> QED
  BY <1>3, <1>4

LEMMA ConfirmKeeps == SessionInv /\ Confirm => SessionInv'
<1> SUFFICES ASSUME SessionInv, Confirm PROVE SessionInv'
  OBVIOUS
<1>1. pc = "confirm" /\ UNCHANGED <<filterMap, site, last, store, report>>
  BY DEF Confirm
<1>2. CASE Ended("aborted")
  BY <1>1, <1>2, LeavingKeeps DEF Ended, Early
<1>3. CASE Goto("encode") /\ UNCHANGED <<run, status>>
  <2>1. RunOK'
    BY <1>3 DEF SessionInv, Typed, RunOK, Idle, MaxPages
  <2>2. VerbsOK' /\ Planned' /\ Paging'
    BY <1>1, <1>3 DEF Goto, SessionInv, Typed, VerbsOK, Planned, Paging, Searching, Stages
  <2> QED
    BY <1>1, <1>3, <2>1, <2>2, EarlyKeeps DEF Goto, Early
<1> QED
  BY <1>2, <1>3 DEF Confirm

LEMMA EncodeKeeps == SessionInv /\ Encode => SessionInv'
<1> SUFFICES ASSUME SessionInv, Encode PROVE SessionInv'
  OBVIOUS
<1>1. /\ pc = "encode" /\ pc' \in {"page", "refused"}
      /\ UNCHANGED <<filterMap, site, last, store, report, status>>
      /\ run' = [run EXCEPT !.params = EncodePlan(run.plan, filterMap).pairs]
  BY DEF Encode, Goto
<1>2. /\ run'.verb = run.verb /\ run'.query = run.query /\ run'.page = run.page
      /\ run'.found = run.found /\ run'.short = run.short /\ run'.recs = run.recs
      /\ run'.search = run.search /\ run'.plan = run.plan /\ DOMAIN run' = DOMAIN run
  BY <1>1, Shapes DEF SessionInv, Typed, RunOK
<1>3. run'.partial = run.partial
  BY <1>1
<1>4. RunOK'
  BY <1>2, <1>3 DEF SessionInv, Typed, RunOK, Idle, MaxPages
<1>5. VerbsOK' /\ Planned'
  BY <1>1, <1>2 DEF SessionInv, Typed, VerbsOK, Planned, Searching, Stages
<1>6. Paging'
  BY <1>1, <1>2 DEF SessionInv, Paging
<1> QED
  BY <1>1, <1>4, <1>5, <1>6, EarlyKeeps DEF Early

-----------------------------------------------------------------------------
(* The harvest.                                                             *)

\* It ends with what it found and says whether that is everything.
LEMMA HarvestedKeeps ==
  ASSUME SessionInv, pc = "page", UNCHANGED <<filterMap, site, store, report, status>>,
         NEW found, NEW partial \in BOOLEAN, Harvested(found, partial),
         found \subseteq PagesShown(run.plan.flow),
         ~partial => found = PagesShown(run.plan.flow)
  PROVE  SessionInv'
<1>1. run.verb = "search" /\ run.plan.flow \in Flows
  BY DEF SessionInv, Typed, VerbsOK, Searching, Planned
<1>2. /\ pc' = "persist" /\ run' = [run EXCEPT !.found = found, !.partial = partial]
      /\ last' = [last EXCEPT !.harvest = found]
  BY DEF Harvested, Goto
<1>3. /\ run'.verb = run.verb /\ run'.query = run.query /\ run'.page = run.page
      /\ run'.found = found /\ run'.short = run.short /\ run'.recs = run.recs
      /\ run'.search = run.search /\ run'.plan = run.plan /\ DOMAIN run' = DOMAIN run
  BY <1>2, Shapes DEF SessionInv, Typed, RunOK
<1>4. run'.partial = partial
  BY <1>2, Shapes DEF SessionInv, Typed, RunOK
<1>5. /\ last'.query = last.query /\ last'.harvest = found /\ last'.short = last.short
      /\ last'.recs = last.recs /\ DOMAIN last' = DOMAIN last
  BY <1>2, Shapes DEF SessionInv, Typed, LastOK
<1>6. found \subseteq Listings
  BY <1>1, SitePages DEF SessionInv, Typed, RestOK
<1>7. RunOK' /\ LastOK'
  BY <1>3, <1>4, <1>5, <1>6 DEF SessionInv, Typed, RunOK, LastOK, Idle, Fresh, MaxPages
<1>8. StoreOK' /\ RestOK' /\ VerbsOK'
  BY <1>1, <1>2, <1>3 DEF SessionInv, Typed, StoreOK, RestOK, VerbsOK, Searching, Stages
<1>9. Paging' /\ Planned' /\ Coherent' /\ Recorded'
  BY <1>1, <1>2, <1>3 DEF Paging, Planned, Coherent, Recorded, Early, Late
<1>10. Harvesting'
  <2>1. PagesShown(run.plan.flow)' = PagesShown(run.plan.flow)
    BY <1>3 DEF PagesShown
  <2>2. run'.partial = FALSE => run'.found = PagesShown(run.plan.flow)
    BY <1>3, <1>4
  <2> QED
    BY <1>1, <1>3, <1>5, <2>1, <2>2 DEF Harvesting
<1>11. Selecting'
  BY <1>2 DEF Selecting, Detailing
<1>12. ReportNamesItsPlan' /\ HistoryIsSound'
  BY SiteStays DEF SessionInv, ReportNamesItsPlan, HistoryIsSound, Ranks
<1> QED
  BY <1>7, <1>8, <1>9, <1>10, <1>11, <1>12 DEF SessionInv, Typed

LEMMA PageKeeps == SessionInv /\ NextPage => SessionInv'
<1> SUFFICES ASSUME SessionInv, NextPage PROVE SessionInv'
  OBVIOUS
<1> DEFINE flow == run.plan.flow
           pages == site[flow]
           shown == Served(ListUrl(run.plan, run.params, run.page))
           n == run.page - 1
<1>1. pc = "page" /\ UNCHANGED <<filterMap, site, store, report, status>>
  BY DEF NextPage, CutShort, FetchPage
<1>2. /\ flow \in Flows /\ site \in Sites /\ n \in Nat /\ run.page = n + 1
      /\ run.page \in 1..MaxPages /\ MaxPages \in Nat
  BY <1>1, SessionAssumption
     DEF SessionInv, Typed, RunOK, RestOK, Planned, MaxPages
<1>3. \A i \in 1..n : i \in DOMAIN pages /\ pages[i] # {}
  BY <1>1 DEF SessionInv, Paging
<1>4. run.found = UNION {pages[i] : i \in 1..n}
  BY <1>1 DEF SessionInv, Paging
<1>5. shown = IF n + 1 \in DOMAIN pages THEN pages[n + 1] ELSE {}
  BY <1>2 DEF Served, ListUrl, Flows
<1>6. /\ run.found \subseteq PagesShown(flow)
      /\ shown = {} => run.found = PagesShown(flow)
  BY <1>2, <1>3, <1>4, <1>5, PrefixShown
<1>7. CASE CutShort
  BY <1>1, <1>6, <1>7, HarvestedKeeps DEF CutShort
<1>8. CASE FetchPage /\ shown = {}
  <2>1. Harvested(run.found \union shown, FALSE)
    BY <1>8 DEF FetchPage
  <2>2. run.found \union shown = PagesShown(flow)
    BY <1>6, <1>8
  <2> QED
    BY <1>1, <2>1, <2>2, HarvestedKeeps
<1>9. CASE FetchPage /\ shown # {}
  <2>1. n + 1 \in DOMAIN pages /\ pages[n + 1] = shown
    BY <1>5, <1>9
  <2>2. \A i \in 1..(n + 1) : i \in DOMAIN pages /\ pages[i] # {}
    BY <1>2, <1>3, <1>9, <2>1
  <2>3. run.found \union shown = UNION {pages[i] : i \in 1..(n + 1)}
    BY <1>2, <1>4, <2>1, PrefixGrows
  <2>4. run.found \union shown \subseteq PagesShown(flow)
    <3>1. UNION {pages[i] : i \in 1..(n + 1)} \subseteq PagesShown(flow)
      <4> HIDE DEF n, pages, flow
      <4>1. n + 1 \in Nat /\ flow \in Flows
        BY <1>2
      <4> DEFINE m == n + 1
      <4>2. m \in Nat /\ \A i \in 1..m : i \in DOMAIN site[flow] /\ site[flow][i] # {}
        BY <4>1, <2>2 DEF pages
      <4> HIDE DEF m
      <4>3. UNION {site[flow][i] : i \in 1..m} \subseteq PagesShown(flow)
        BY <1>2, <4>1, <4>2, PrefixShown
      <4> QED
        BY <4>3 DEF m, pages
    <3> QED
      BY <2>3, <3>1
  <2>5. CASE run.page >= MaxPages
    <3>1. Harvested(run.found \union shown, TRUE)
      BY <1>9, <2>5 DEF FetchPage
    <3> QED
      BY <1>1, <2>4, <3>1, HarvestedKeeps
  <2>6. CASE ~(run.page >= MaxPages)
    <3>1. /\ run' = [run EXCEPT !.found = run.found \union shown, !.page = @ + 1]
          /\ UNCHANGED <<pc, last>>
      BY <1>9, <2>6 DEF FetchPage
    <3>2. /\ run'.verb = run.verb /\ run'.query = run.query /\ run'.page = run.page + 1
          /\ run'.found = run.found \union shown /\ run'.short = run.short
          /\ run'.recs = run.recs /\ run'.search = run.search /\ run'.plan = run.plan
          /\ DOMAIN run' = DOMAIN run
      BY <3>1, Shapes DEF SessionInv, Typed, RunOK
    <3>3. run'.partial = run.partial
      BY <3>1
    <3>4. run.page + 1 \in 1..MaxPages /\ run.found \union shown \subseteq Listings
      BY <1>2, <2>4, <2>6, SitePages
    <3>5. RunOK'
      BY <3>2, <3>3, <3>4 DEF SessionInv, Typed, RunOK, Idle, MaxPages
    <3>6. VerbsOK' /\ Planned'
      BY <1>1, <3>1, <3>2 DEF SessionInv, Typed, VerbsOK, Planned, Searching, Stages
    <3>7. Paging'
      <4>1. run'.page - 1 = n + 1 /\ (site[run.plan.flow])' = pages
        BY <1>1, <1>2, <3>2
      <4> QED
        BY <1>1, <2>2, <2>3, <3>1, <3>2, <4>1 DEF Paging
    <3> QED
      BY <1>1, <3>1, <3>5, <3>6, <3>7, EarlyKeeps DEF Early
  <2> QED
    BY <2>5, <2>6
<1> QED
  BY <1>7, <1>8, <1>9 DEF NextPage

-----------------------------------------------------------------------------
(* What is kept and recommended.                                            *)

LEMMA HistoryKept ==
  ASSUME HistoryIsSound, UNCHANGED site, store'.ranked = store.ranked,
         store.seen \subseteq store'.seen,
         \A i \in DOMAIN store.searches :
           i \in DOMAIN store'.searches /\ store'.searches[i] = store.searches[i]
  PROVE  HistoryIsSound'
BY SiteStays DEF HistoryIsSound

LEMMA PersistKeeps == SessionInv /\ Persist => SessionInv'
<1> SUFFICES ASSUME SessionInv, Persist PROVE SessionInv'
  OBVIOUS
<1>1. /\ pc = "persist" /\ pc' \in {"persist", "record_search"}
      /\ UNCHANGED <<filterMap, site, run, last, report, status>>
  BY DEF Persist, Goto
<1>2. /\ DOMAIN store' = DOMAIN store /\ store'.rejected = store.rejected
      /\ store'.searches = store.searches /\ store'.ranked = store.ranked
      /\ store.seen \subseteq store'.seen /\ store'.seen \subseteq store.seen \union run.found
      /\ pc' = "record_search" => run.found \subseteq store'.seen
  BY Shapes DEF Persist, Goto, SessionInv, Typed, StoreOK
<1>3. RunOK' /\ LastOK' /\ RestOK' /\ VerbsOK'
  BY <1>1 DEF SessionInv, Typed, RunOK, LastOK, RestOK, VerbsOK, Idle, Fresh, MaxPages,
              Searching, Stages
<1>4. StoreOK'
  BY <1>2 DEF SessionInv, Typed, RunOK, StoreOK, EmptyStore
<1>5. Paging' /\ Coherent' /\ Selecting'
  BY <1>1 DEF Paging, Coherent, Selecting, Early, Detailing
<1>6. Planned' /\ Harvesting'
  BY <1>1, SiteStays DEF SessionInv, Planned, Harvesting, Late
<1>7. Recorded'
  BY <1>1, <1>2 DEF Recorded
<1>8. ReportNamesItsPlan'
  BY <1>1, SiteStays DEF SessionInv, ReportNamesItsPlan, Ranks
<1>9. HistoryIsSound'
  BY <1>1, <1>2, HistoryKept DEF SessionInv
<1> QED
  BY <1>3, <1>4, <1>5, <1>6, <1>7, <1>8, <1>9 DEF SessionInv, Typed

LEMMA RecordSearchKeeps == SessionInv /\ RecordSearch => SessionInv'
<1> SUFFICES ASSUME SessionInv, RecordSearch PROVE SessionInv'
  OBVIOUS
<1> DEFINE entry == [query |-> run.query, flow |-> run.plan.flow]
<1>1. /\ pc = "record_search" /\ pc' = "shortlist"
      /\ UNCHANGED <<filterMap, site, last, report, status>>
      /\ store' = [store EXCEPT !.searches = Append(@, entry)]
      /\ run' = [run EXCEPT !.search = Len(store.searches) + 1]
  BY DEF RecordSearch, Goto
<1>2. run.verb = "search" /\ run.query \in 1..MaxClauses /\ run.plan.flow \in Flows
  BY <1>1 DEF SessionInv, Typed, VerbsOK, Searching, Stages, Planned, Late
<1>3. /\ DOMAIN store' = DOMAIN store /\ store'.rejected = store.rejected
      /\ store'.searches = Append(store.searches, entry) /\ store'.ranked = store.ranked
      /\ store'.seen = store.seen
  BY <1>1, Shapes DEF SessionInv, Typed, StoreOK
<1>4. entry \in [query : 1..MaxClauses, flow : Flows]
  BY <1>2
<1>5. store.searches \in Seq([query : 1..MaxClauses, flow : Flows])
  BY DEF SessionInv, Typed, StoreOK
<1>6. /\ store'.searches \in Seq([query : 1..MaxClauses, flow : Flows])
      /\ \A i \in DOMAIN store.searches :
           i \in DOMAIN store'.searches /\ store'.searches[i] = store.searches[i]
      /\ Len(store.searches) + 1 \in DOMAIN store'.searches
      /\ store'.searches[Len(store.searches) + 1] = entry
      /\ Len(store.searches) + 1 \in Nat
  <2> HIDE DEF entry
  <2> QED
    BY <1>3, <1>4, <1>5
<1>7. /\ run'.verb = run.verb /\ run'.query = run.query /\ run'.page = run.page
      /\ run'.found = run.found /\ run'.short = run.short /\ run'.recs = run.recs
      /\ run'.search = Len(store.searches) + 1 /\ run'.plan = run.plan
      /\ DOMAIN run' = DOMAIN run
  BY <1>1, Shapes DEF SessionInv, Typed, RunOK
<1>8. run'.partial = run.partial
  BY <1>1
<1>9. RunOK' /\ StoreOK'
  BY <1>3, <1>6, <1>7, <1>8 DEF SessionInv, Typed, RunOK, StoreOK, Idle, EmptyStore, MaxPages
<1>10. LastOK' /\ RestOK' /\ VerbsOK'
  BY <1>1, <1>2, <1>7 DEF SessionInv, Typed, LastOK, RestOK, VerbsOK, Fresh, Searching, Stages
<1>11. Paging' /\ Coherent' /\ Selecting'
  BY <1>1, <1>2, <1>7 DEF Paging, Coherent, Selecting, Early, Detailing
<1>12. Planned' /\ Harvesting'
  <2>1. PagesShown(run.plan.flow)' = PagesShown(run.plan.flow)
    BY <1>1, <1>7 DEF PagesShown
  <2> QED
    BY <1>1, <1>2, <1>7, <1>8, <2>1 DEF SessionInv, Planned, Harvesting, Late
<1>13. Recorded'
  <2>1. run.found \subseteq store.seen
    BY <1>1, <1>2 DEF SessionInv, Recorded, Late
  <2> QED
    BY <1>1, <1>3, <1>6, <1>7, <2>1 DEF Recorded
<1>14. ReportNamesItsPlan'
  BY <1>1, SiteStays DEF SessionInv, ReportNamesItsPlan, Ranks
<1>15. HistoryIsSound'
  BY <1>1, <1>3, <1>6, HistoryKept DEF SessionInv
<1> QED
  BY <1>9, <1>10, <1>11, <1>12, <1>13, <1>14, <1>15 DEF SessionInv, Typed

LEMMA ShortlistKeeps == SessionInv /\ Shortlist => SessionInv'
<1> SUFFICES ASSUME SessionInv, Shortlist PROVE SessionInv'
  OBVIOUS
<1>1. PICK short \in SUBSET Candidates :
        /\ run' = [run EXCEPT !.short = short]
        /\ last' = IF run.verb = "search" THEN [last EXCEPT !.short = short] ELSE last
  BY DEF Shortlist
<1>2. /\ pc = "shortlist" /\ pc' = "detail"
      /\ UNCHANGED <<filterMap, site, store, report, status>>
  BY DEF Shortlist, Goto
<1>3. /\ run'.verb = run.verb /\ run'.query = run.query /\ run'.page = run.page
      /\ run'.found = run.found /\ run'.short = short /\ run'.recs = run.recs
      /\ run'.search = run.search /\ run'.plan = run.plan /\ DOMAIN run' = DOMAIN run
  BY <1>1, Shapes DEF SessionInv, Typed, RunOK
<1>4. run'.partial = run.partial
  BY <1>1
<1>5. /\ last'.query = last.query /\ last'.harvest = last.harvest /\ last'.plan = last.plan
      /\ last'.short = (IF run.verb = "search" THEN short ELSE last.short)
      /\ last'.recs = last.recs /\ DOMAIN last' = DOMAIN last
  BY <1>1, Shapes DEF SessionInv, Typed, LastOK
<1>6. short \subseteq run.found \ store.rejected /\ short \subseteq Listings
  BY DEF Candidates, SessionInv, Typed, RunOK
<1>7. RunOK' /\ LastOK'
  BY <1>3, <1>4, <1>5, <1>6 DEF SessionInv, Typed, RunOK, LastOK, Idle, Fresh, MaxPages
<1>8. StoreOK' /\ RestOK' /\ VerbsOK'
  BY <1>2, <1>3 DEF SessionInv, Typed, StoreOK, RestOK, VerbsOK, EmptyStore, Searching, Stages
<1>9. Paging' /\ Coherent'
  BY <1>2 DEF Paging, Coherent, Early
<1>10. Planned' /\ Harvesting'
  <2>1. PagesShown(run.plan.flow)' = PagesShown(run.plan.flow)
    BY <1>2, <1>3 DEF PagesShown
  <2> QED
    BY <1>2, <1>3, <1>4, <1>5, <2>1 DEF SessionInv, Planned, Harvesting, Late
<1>11. Selecting'
  <2>1. run.verb \in {"search", "more_like"} /\ last.harvest = run.found
    BY <1>2 DEF SessionInv, Typed, VerbsOK, Stages, Harvesting, Late
  <2>2. run.verb = "more_like" => last.short \subseteq last.harvest
    BY <1>2 DEF SessionInv, Selecting
  <2>3. last'.short \subseteq last'.harvest
    BY <1>5, <1>6, <2>1, <2>2
  <2> QED
    BY <1>2, <1>3, <1>6, <2>3 DEF Selecting
<1>12. Recorded'
  BY <1>2, <1>3 DEF SessionInv, Recorded, Late
<1>13. ReportNamesItsPlan' /\ HistoryIsSound'
  BY <1>2, SiteStays DEF SessionInv, ReportNamesItsPlan, HistoryIsSound, Ranks
<1> QED
  BY <1>7, <1>8, <1>9, <1>10, <1>11, <1>12, <1>13 DEF SessionInv, Typed

LEMMA DetailsKeep == SessionInv /\ Details => SessionInv'
<1> SUFFICES ASSUME SessionInv, Details PROVE SessionInv'
  OBVIOUS
<1>1. PICK cards \in IF run.short = {} THEN {{}} ELSE Cards :
        store' = [store EXCEPT !.seen = @ \cup cards]
  BY DEF Details
<1>2. /\ pc = "detail" /\ pc' = "recommend"
      /\ UNCHANGED <<filterMap, site, run, last, report, status>>
  BY DEF Details, Goto
<1>3. /\ DOMAIN store' = DOMAIN store /\ store'.rejected = store.rejected
      /\ store'.searches = store.searches /\ store'.ranked = store.ranked
      /\ store'.seen = store.seen \union cards
  BY <1>1, Shapes DEF SessionInv, Typed, StoreOK
<1>4. cards \subseteq Listings
  BY SessionAssumption
<1>5. RunOK' /\ LastOK' /\ RestOK' /\ VerbsOK'
  BY <1>2 DEF SessionInv, Typed, RunOK, LastOK, RestOK, VerbsOK, Idle, Fresh, MaxPages,
              Searching, Stages
<1>6. StoreOK'
  BY <1>3, <1>4 DEF SessionInv, Typed, StoreOK, EmptyStore
<1>7. Paging' /\ Coherent'
  BY <1>2 DEF Paging, Coherent, Early
<1>8. Planned' /\ Harvesting'
  BY <1>2, SiteStays DEF SessionInv, Planned, Harvesting, Late
<1>9. Selecting'
  BY <1>2, <1>3 DEF SessionInv, Selecting, Detailing
<1>10. Recorded'
  BY <1>2, <1>3 DEF SessionInv, Recorded, Late
<1>11. ReportNamesItsPlan'
  BY <1>2, SiteStays DEF SessionInv, ReportNamesItsPlan, Ranks
<1>12. HistoryIsSound'
  BY <1>2, <1>3, HistoryKept DEF SessionInv
<1> QED
  BY <1>5, <1>6, <1>7, <1>8, <1>9, <1>10, <1>11, <1>12 DEF SessionInv, Typed

\* What Recommend puts into run and last.
LEMMA RecommendEffect ==
  ASSUME SessionInv, Recommend
  PROVE  /\ pc = "recommend" /\ pc' = (IF run.verb = "search" THEN "remember" ELSE "report")
         /\ UNCHANGED <<filterMap, site, store, report, status>>
         /\ run'.recs \in Seq(run.short) /\ \A i \in Ranks(run'.recs) : run'.recs[i] \in run.short
         /\ last'.recs = run'.recs
         /\ run'.verb = run.verb /\ run'.query = run.query /\ run'.page = run.page
         /\ run'.found = run.found /\ run'.short = run.short /\ run'.partial = run.partial
         /\ run'.search = run.search /\ run'.plan = run.plan /\ DOMAIN run' = DOMAIN run
         /\ last'.query = last.query /\ last'.harvest = last.harvest /\ last'.plan = last.plan
         /\ last'.short = last.short /\ DOMAIN last' = DOMAIN last
<1>1. PICK recs \in Rankings(run.short, Budgets.recommendations_count) :
        /\ run' = [run EXCEPT !.recs = recs]
        /\ last' = [last EXCEPT !.recs = recs]
  BY DEF Recommend
<1>2. recs \in Seq(run.short) /\ \A i \in Ranks(recs) : recs[i] \in run.short
  BY RankingKnown, SessionAssumption
<1>3. run'.recs = recs /\ last'.recs = recs
  BY <1>1, Shapes DEF SessionInv, Typed, RunOK, LastOK
<1>4. /\ run'.verb = run.verb /\ run'.query = run.query /\ run'.page = run.page
      /\ run'.found = run.found /\ run'.short = run.short
      /\ run'.search = run.search /\ run'.plan = run.plan /\ DOMAIN run' = DOMAIN run
  BY <1>1, Shapes DEF SessionInv, Typed, RunOK
<1>5. run'.partial = run.partial
  BY <1>1
<1>6. /\ last'.query = last.query /\ last'.harvest = last.harvest /\ last'.plan = last.plan
      /\ last'.short = last.short /\ DOMAIN last' = DOMAIN last
  BY <1>1, Shapes DEF SessionInv, Typed, LastOK
<1>7. /\ pc = "recommend" /\ pc' = (IF run.verb = "search" THEN "remember" ELSE "report")
      /\ UNCHANGED <<filterMap, site, store, report, status>>
  BY DEF Recommend, Goto
<1> QED
  BY <1>2, <1>3, <1>4, <1>5, <1>6, <1>7

LEMMA RecommendKeeps == SessionInv /\ Recommend => SessionInv'
<1> SUFFICES ASSUME SessionInv, Recommend PROVE SessionInv'
  OBVIOUS
<1>1. run.verb \in {"search", "more_like"} /\ run.short \subseteq Listings
  BY RecommendEffect DEF SessionInv, Typed, RunOK, VerbsOK, Stages
<1>2. run'.recs \in Seq(Listings)
  BY <1>1, RecommendEffect
<1>3. RunOK' /\ LastOK'
  BY <1>2, RecommendEffect DEF SessionInv, Typed, RunOK, LastOK, Idle, Fresh, MaxPages
<1>4. StoreOK' /\ RestOK' /\ VerbsOK'
  BY <1>1, RecommendEffect
     DEF SessionInv, Typed, StoreOK, RestOK, VerbsOK, EmptyStore, Searching, Stages
<1>5. Paging' /\ Coherent'
  BY RecommendEffect DEF Paging, Coherent, Early
<1>6. Planned' /\ Harvesting'
  <2>1. PagesShown(run.plan.flow)' = PagesShown(run.plan.flow)
    BY RecommendEffect DEF PagesShown
  <2> QED
    BY RecommendEffect, <2>1 DEF SessionInv, Planned, Harvesting, Late
<1>7. Selecting'
  <2>1. /\ run.short \subseteq run.found \ store.rejected
        /\ last.short \subseteq last.harvest
    BY RecommendEffect DEF SessionInv, Selecting, Detailing
  <2>2. run.verb = "more_like" => last.plan = run.plan
    BY RecommendEffect DEF SessionInv, Harvesting, Late
  <2> QED
    BY RecommendEffect, <1>1, <2>1, <2>2 DEF Selecting, Ranks
<1>8. Recorded'
  BY RecommendEffect DEF SessionInv, Recorded, Late
<1>9. ReportNamesItsPlan' /\ HistoryIsSound'
  BY RecommendEffect, SiteStays DEF SessionInv, ReportNamesItsPlan, HistoryIsSound, Ranks
<1> QED
  BY <1>3, <1>4, <1>5, <1>6, <1>7, <1>8, <1>9 DEF SessionInv, Typed

LEMMA RememberKeeps == SessionInv /\ Remember => SessionInv'
<1> SUFFICES ASSUME SessionInv, Remember PROVE SessionInv'
  OBVIOUS
<1>1. /\ pc = "remember" /\ pc' = "report"
      /\ UNCHANGED <<filterMap, site, run, store, report, status>>
      /\ last' = [last EXCEPT !.query = run.query, !.plan = run.plan]
  BY DEF Remember, Goto
<1>2. run.verb = "search" /\ run.query \in 1..MaxClauses
  BY <1>1 DEF SessionInv, Typed, VerbsOK, Searching, Stages
<1>3. /\ last'.query = run.query /\ last'.harvest = last.harvest /\ last'.plan = run.plan
      /\ last'.short = last.short /\ last'.recs = last.recs /\ DOMAIN last' = DOMAIN last
  BY <1>1, Shapes DEF SessionInv, Typed, LastOK
<1>4. run.query \in 0..MaxClauses
  BY <1>2
<1>5. RunOK' /\ LastOK'
  BY <1>1, <1>3, <1>4 DEF SessionInv, Typed, RunOK, LastOK, Idle, Fresh, MaxPages
<1>6. StoreOK' /\ RestOK' /\ VerbsOK'
  BY <1>1, <1>2 DEF SessionInv, Typed, StoreOK, RestOK, VerbsOK, EmptyStore, Searching, Stages
<1>7. Paging' /\ Coherent'
  BY <1>1 DEF Paging, Coherent, Early
<1>8. Planned' /\ Harvesting'
  BY <1>1, <1>3, SiteStays DEF SessionInv, Planned, Harvesting, Late
<1>9. Selecting'
  BY <1>1, <1>3 DEF SessionInv, Selecting, Detailing, Ranks
<1>10. Recorded'
  BY <1>1 DEF SessionInv, Recorded, Late
<1>11. ReportNamesItsPlan' /\ HistoryIsSound'
  BY <1>1, SiteStays DEF SessionInv, ReportNamesItsPlan, HistoryIsSound, Ranks
<1> QED
  BY <1>5, <1>6, <1>7, <1>8, <1>9, <1>10, <1>11 DEF SessionInv, Typed

\* The recommendations a report is written for were shown under its plan.
LEMMA ReportedAreShown ==
  ASSUME SessionInv, pc \in {"report", "record"}
  PROVE  /\ run.plan.flow \in Flows /\ last.plan = run.plan /\ last.recs = run.recs
         /\ \A i \in Ranks(run.recs) : /\ run.recs[i] \in run.found
                                       /\ run.recs[i] \in PagesShown(run.plan.flow)
         /\ last.harvest = run.found /\ last.short \subseteq last.harvest
         /\ run.found \subseteq PagesShown(run.plan.flow)
         /\ last.plan # NoPlan
<1>1. run.plan.flow \in Flows
  BY DEF SessionInv, Planned, Late
<1>2. /\ run.found \subseteq PagesShown(run.plan.flow) /\ last.harvest = run.found
  BY DEF SessionInv, Harvesting, Late
<1>3. /\ run.short \subseteq run.found /\ last.short \subseteq last.harvest
      /\ last.recs = run.recs /\ \A i \in Ranks(run.recs) : run.recs[i] \in run.short
      /\ last.plan = run.plan
  BY DEF SessionInv, Selecting, Detailing
<1>4. last.plan # NoPlan
  BY <1>1, <1>3, Shapes
<1> QED
  BY <1>1, <1>2, <1>3, <1>4

LEMMA WriteReportKeeps == SessionInv /\ WriteReport => SessionInv'
<1> SUFFICES ASSUME SessionInv, WriteReport PROVE SessionInv'
  OBVIOUS
<1>1. pc = "report" /\ UNCHANGED <<filterMap, site, last, store>>
  BY DEF WriteReport
<1>2. CASE ~Renders(run.recs)
  <2>1. pc' = "closing" /\ run' = Idle /\ status' = "raised" /\ UNCHANGED report
    BY <1>2 DEF WriteReport
  <2> QED
    BY <1>1, <2>1, LeavingKeeps
<1>3. CASE Renders(run.recs)
  <2>1. /\ report' = [recs |-> run.recs, plan |-> last.plan] /\ UNCHANGED status
        /\ IF run.verb = "search" THEN pc' = "record" /\ UNCHANGED run
           ELSE pc' = "prompt" /\ run' = Idle
    BY <1>3 DEF WriteReport, Goto
  <2>2. run.recs \in Seq(Listings) /\ report'.recs = run.recs /\ report'.plan = last.plan
    BY <2>1 DEF SessionInv, Typed, RunOK
  <2>3. RunOK'
    <3>1. CASE run' = Idle
      BY <3>1, IdleTyped
    <3>2. CASE run' = run
      BY <3>2 DEF SessionInv, Typed, RunOK, Idle, MaxPages
    <3> QED
      BY <2>1, <3>1, <3>2
  <2>4. LastOK' /\ StoreOK' /\ RestOK' /\ VerbsOK'
    BY <1>1, <2>1, <2>2 DEF SessionInv, Typed, LastOK, StoreOK, RestOK, VerbsOK, Fresh,
                            EmptyStore, Searching, Stages
  <2>5. Paging'
    BY <2>1 DEF Paging
  <2>6. Planned' /\ Harvesting' /\ Recorded'
    BY <1>1, <2>1, SiteStays DEF SessionInv, Planned, Harvesting, Recorded, Late
  <2>7. Selecting'
    BY <1>1, <2>1, <2>2 DEF SessionInv, Selecting, Detailing, Ranks
  <2>8. Coherent'
    BY <1>1, <2>1, <2>2, ReportedAreShown, SiteStays DEF Coherent, Early, Ranks
  <2>9. ReportNamesItsPlan'
    BY <1>1, <2>2, ReportedAreShown, SiteStays DEF ReportNamesItsPlan, Ranks
  <2>10. HistoryIsSound'
    BY <1>1, SiteStays DEF SessionInv, HistoryIsSound
  <2> QED
    BY <2>3, <2>4, <2>5, <2>6, <2>7, <2>8, <2>9, <2>10 DEF SessionInv, Typed
<1> QED
  BY <1>2, <1>3

LEMMA RecordKeeps == SessionInv /\ RecordRecommendations => SessionInv'
<1> SUFFICES ASSUME SessionInv, RecordRecommendations PROVE SessionInv'
  OBVIOUS
<1> DEFINE new == {[search |-> run.search, rank |-> i, listing |-> run.recs[i]] :
                     i \in Ranks(run.recs)}
<1>1. /\ pc = "record" /\ pc' = "prompt" /\ run' = Idle /\ status' \in {"partial", "ok"}
      /\ UNCHANGED <<filterMap, site, last, report>>
      /\ store' = [store EXCEPT !.ranked = @ \union new]
  BY DEF RecordRecommendations, Ended
<1>2. /\ DOMAIN store' = DOMAIN store /\ store'.rejected = store.rejected
      /\ store'.searches = store.searches /\ store'.seen = store.seen
      /\ store'.ranked = store.ranked \union new
  BY <1>1, Shapes DEF SessionInv, Typed, StoreOK
<1>3. /\ run.verb = "search" /\ run.search \in Nat /\ run.found \subseteq store.seen
      /\ run.search \in DOMAIN store.searches
      /\ store.searches[run.search].flow = run.plan.flow
      /\ run.recs \in Seq(Listings)
  BY <1>1 DEF SessionInv, Typed, RunOK, VerbsOK, Searching, Recorded, Late
<1>4. \A i \in Ranks(run.recs) :
        /\ i \in Nat /\ run.recs[i] \in Listings /\ run.recs[i] \in store.seen
        /\ run.recs[i] \in PagesShown(run.plan.flow)
        /\ \A k \in 1..i : k \in Ranks(run.recs)
  BY <1>1, <1>3, ReportedAreShown DEF Ranks
<1>5. new \subseteq [search : Nat, rank : Nat, listing : Listings]
  BY <1>3, <1>4
<1>6. RunOK'
  BY <1>1, IdleTyped
<1>7. StoreOK'
  BY <1>2, <1>5 DEF SessionInv, Typed, StoreOK, EmptyStore
<1>8. LastOK' /\ RestOK' /\ VerbsOK'
  BY <1>1 DEF SessionInv, Typed, LastOK, RestOK, VerbsOK, Fresh, Searching, Stages
<1>9. Paging' /\ Planned' /\ Harvesting' /\ Selecting' /\ Recorded'
  BY <1>1 DEF Paging, Planned, Harvesting, Selecting, Recorded, Late, Detailing
<1>10. Coherent'
  <2>1. report.recs = run.recs
    BY <1>1 DEF SessionInv, Selecting
  <2> QED
    BY <1>1, <2>1, ReportedAreShown, SiteStays DEF Coherent, Ranks
<1>11. ReportNamesItsPlan'
  BY <1>1, SiteStays DEF SessionInv, ReportNamesItsPlan, Ranks
<1>12. HistoryIsSound'
  <2> SUFFICES ASSUME NEW r \in store'.ranked
               PROVE  /\ r.search \in DOMAIN store.searches
                      /\ r.listing \in store.seen
                      /\ r.listing \in PagesShown(store.searches[r.search].flow)
                      /\ \A k \in 1..r.rank :
                           \E q \in store'.ranked : q.search = r.search /\ q.rank = k
    BY <1>1, <1>2, SiteStays DEF HistoryIsSound
  <2>1. CASE r \in store.ranked
    BY <1>2, <2>1 DEF SessionInv, HistoryIsSound
  <2>2. CASE r \in new
    <3>1. PICK i \in Ranks(run.recs) :
            r = [search |-> run.search, rank |-> i, listing |-> run.recs[i]]
      BY <2>2
    <3>2. r.search = run.search /\ r.rank = i /\ r.listing = run.recs[i]
      BY <3>1
    <3>3. ASSUME NEW k \in 1..i
          PROVE  \E q \in new : q.search = run.search /\ q.rank = k
      <4>1. [search |-> run.search, rank |-> k, listing |-> run.recs[k]] \in new
        BY <1>4
      <4> QED
        BY <4>1
    <3> QED
      BY <1>2, <1>3, <1>4, <3>2, <3>3
  <2> QED
    BY <1>2, <2>1, <2>2
<1> QED
  BY <1>6, <1>7, <1>8, <1>9, <1>10, <1>11, <1>12 DEF SessionInv, Typed

-----------------------------------------------------------------------------
(* Feedback, "more like", and a new process.                                *)

LEMMA FeedbackKeeps ==
  ASSUME SessionInv, pc = "prompt", NEW rank \in Ranks(last.recs),
         UNCHANGED <<filterMap, site, pc, run, last, report, status>>,
         \/ store' = [store EXCEPT !.rejected = @ \ {last.recs[rank]}]
         \/ store' = [store EXCEPT !.rejected = @ \union {last.recs[rank]}]
  PROVE  SessionInv'
<1>1. /\ DOMAIN store' = DOMAIN store /\ store'.searches = store.searches
      /\ store'.seen = store.seen /\ store'.ranked = store.ranked
      /\ store'.rejected \subseteq store.rejected \union {last.recs[rank]}
  BY Shapes DEF SessionInv, Typed, StoreOK
<1>2. last.recs[rank] \in Listings
  BY DEF SessionInv, Typed, LastOK, Ranks
<1>3. RunOK' /\ LastOK' /\ RestOK' /\ VerbsOK'
  BY DEF SessionInv, Typed, RunOK, LastOK, RestOK, VerbsOK, Idle, Fresh, MaxPages,
         Searching, Stages
<1>4. StoreOK'
  BY <1>1, <1>2 DEF SessionInv, Typed, StoreOK, EmptyStore
<1>5. Paging' /\ Planned' /\ Harvesting' /\ Selecting' /\ Recorded'
  BY DEF Paging, Planned, Harvesting, Selecting, Recorded, Late, Detailing
<1>6. Coherent' /\ ReportNamesItsPlan'
  BY SiteStays DEF SessionInv, Coherent, ReportNamesItsPlan, Ranks
<1>7. HistoryIsSound'
  BY <1>1, HistoryKept DEF SessionInv
<1> QED
  BY <1>3, <1>4, <1>5, <1>6, <1>7 DEF SessionInv, Typed

LEMMA MoreLikeKeeps ==
  ASSUME SessionInv, NEW rank, MoreLike(rank)
  PROVE  SessionInv'
<1>1. /\ pc = "prompt" /\ last.plan # NoPlan /\ pc' = "shortlist"
      /\ run' = [Idle EXCEPT !.verb = "more_like", !.plan = last.plan, !.found = last.harvest]
      /\ UNCHANGED <<filterMap, site, last, store, report, status>>
  BY DEF MoreLike, Goto
<1>2. /\ run'.verb = "more_like" /\ run'.page = 1 /\ run'.found = last.harvest
      /\ run'.plan = last.plan /\ run'.short = {} /\ run'.recs = <<>> /\ run'.search = 0
      /\ DOMAIN run' = DOMAIN Idle
  BY <1>1 DEF Idle
<1>3. run'.partial \in BOOLEAN
  BY <1>1 DEF Idle
<1>4. 1 \in 1..MaxPages /\ MaxPages' = MaxPages /\ (DOMAIN Idle)' = DOMAIN Idle
  BY SessionAssumption DEF MaxPages, Idle
<1>5. RunOK'
  <2>1. run'.page \in 1..MaxPages' /\ run'.recs \in Seq(Listings) /\ last.harvest \subseteq Listings
    BY <1>2, <1>4 DEF SessionInv, Typed, LastOK
  <2> QED
    BY <1>2, <1>3, <1>4, <2>1 DEF RunOK
<1>6. LastOK' /\ StoreOK' /\ RestOK' /\ VerbsOK'
  BY <1>1, <1>2 DEF SessionInv, Typed, LastOK, StoreOK, RestOK, VerbsOK, Fresh, EmptyStore,
                    Searching, Stages
<1>7. /\ last.plan.flow \in Flows /\ last.harvest \subseteq PagesShown(last.plan.flow)
      /\ last.short \subseteq last.harvest
  BY <1>1 DEF SessionInv, Coherent, Early
<1>8. PagesShown(last.plan.flow)' = PagesShown(last.plan.flow)
  BY <1>1 DEF PagesShown
<1>9. Planned' /\ Harvesting' /\ Selecting' /\ Recorded'
  BY <1>1, <1>2, <1>7, <1>8 DEF Planned, Harvesting, Selecting, Recorded, Detailing
<1>10. Paging' /\ Coherent'
  BY <1>1 DEF Paging, Coherent, Early
<1>11. ReportNamesItsPlan' /\ HistoryIsSound'
  BY <1>1, SiteStays DEF SessionInv, ReportNamesItsPlan, HistoryIsSound, Ranks
<1> QED
  BY <1>5, <1>6, <1>9, <1>10, <1>11 DEF SessionInv, Typed

LEMMA RestartKeeps == SessionInv /\ Restart => SessionInv'
<1> SUFFICES ASSUME SessionInv, Restart PROVE SessionInv'
  OBVIOUS
<1>1. /\ pc' = "load" /\ run' = Idle /\ last' = Fresh /\ status' = "none" /\ report' = NoReport
      /\ UNCHANGED <<filterMap, site, store>>
  BY DEF Restart
<1>2. /\ last'.query = 0 /\ last'.plan = NoPlan /\ last'.harvest = {} /\ last'.short = {}
      /\ last'.recs = <<>> /\ DOMAIN last' = DOMAIN Fresh /\ report'.recs = <<>>
  BY <1>1 DEF Fresh, NoReport
<1>3. 0 \in 0..MaxClauses /\ <<>> \in Seq(Listings) /\ Ranks(<<>>) = {}
  BY SessionAssumption DEF Ranks
<1>4. RunOK'
  BY <1>1, IdleTyped
<1>5. LastOK'
  BY <1>2, <1>3 DEF LastOK, Fresh
<1>6. StoreOK' /\ RestOK' /\ VerbsOK'
  BY <1>1, <1>2, <1>3 DEF SessionInv, Typed, StoreOK, RestOK, VerbsOK, EmptyStore, Stages, Searching
<1>7. Paging' /\ Planned' /\ Harvesting' /\ Selecting' /\ Recorded'
  BY <1>1 DEF Paging, Planned, Harvesting, Selecting, Recorded, Late, Detailing
<1>8. Coherent' /\ ReportNamesItsPlan'
  BY <1>1, <1>2, <1>3 DEF Coherent, ReportNamesItsPlan, Ranks
<1>9. HistoryIsSound'
  BY <1>1, SiteStays DEF SessionInv, HistoryIsSound
<1> QED
  BY <1>4, <1>5, <1>6, <1>7, <1>8, <1>9 DEF SessionInv, Typed

-----------------------------------------------------------------------------
(* The invariant, and what follows from it.                                 *)

LEMMA SessionInvInitially == Init => SessionInv
<1> SUFFICES ASSUME Init PROVE SessionInv
  OBVIOUS
<1>1. /\ pc = "load" /\ run = Idle /\ last = Fresh /\ store = EmptyStore /\ report = NoReport
      /\ status = "none" /\ filterMap \in Maps /\ site \in Sites
  BY DEF Init
<1>2. /\ last.query = 0 /\ last.plan = NoPlan /\ last.harvest = {} /\ last.short = {}
      /\ last.recs = <<>> /\ report.recs = <<>>
      /\ store.seen = {} /\ store.rejected = {} /\ store.searches = <<>> /\ store.ranked = {}
  BY <1>1 DEF Fresh, NoReport, EmptyStore
<1>3. /\ run.verb = "none" /\ run.page = 1 /\ run.found = {}
      /\ run.short = {} /\ run.recs = <<>> /\ run.search = 0
  BY <1>1 DEF Idle
<1>4. run.partial \in BOOLEAN
  BY <1>1 DEF Idle
<1>5. 1 \in 1..MaxPages /\ 0 \in 0..MaxClauses /\ Ranks(<<>>) = {}
  BY SessionAssumption DEF MaxPages, Ranks
<1>6. /\ <<>> \in Seq(Listings)
      /\ <<>> \in Seq([query : 1..MaxClauses, flow : Flows])
  OBVIOUS
<1>7. RunOK
  BY <1>1, <1>3, <1>4, <1>5, <1>6 DEF RunOK
<1>8. LastOK /\ StoreOK /\ RestOK /\ VerbsOK
  BY <1>1, <1>2, <1>5, <1>6 DEF LastOK, StoreOK, RestOK, VerbsOK, Stages, Searching
<1>9. Paging /\ Planned /\ Harvesting /\ Selecting /\ Recorded
  BY <1>1 DEF Paging, Planned, Harvesting, Selecting, Recorded, Late, Detailing
<1>10. Coherent /\ ReportNamesItsPlan /\ HistoryIsSound
  BY <1>2, <1>5 DEF Coherent, ReportNamesItsPlan, HistoryIsSound
<1> QED
  BY <1>7, <1>8, <1>9, <1>10 DEF SessionInv, Typed

LEMMA SessionInvKept == SessionInv /\ [Next]_vars => SessionInv'
<1> SUFFICES ASSUME SessionInv, [Next]_vars PROVE SessionInv'
  OBVIOUS
<1>1. pc \in Stages \union {"load", "prompt", "closing", "ended"}
      /\ status \in {"none", "aborted", "partial", "ok", "raised"}
  BY DEF SessionInv, Typed, RestOK
<1>2. CASE UNCHANGED vars
  <2>1. Typed'
    BY <1>2 DEF vars, SessionInv, Typed, RunOK, LastOK, StoreOK, RestOK, VerbsOK, Idle, Fresh,
                EmptyStore, MaxPages, Stages, Searching
  <2>2. (Paging /\ Planned /\ Selecting)'
    BY <1>2 DEF vars, SessionInv, Paging, Planned, Selecting, Ranks
  <2>3. (Harvesting /\ Coherent /\ Recorded)'
    BY <1>2, SiteStays DEF vars, SessionInv, Harvesting, Coherent, Recorded, Ranks
  <2>4. (ReportNamesItsPlan /\ HistoryIsSound)'
    BY <1>2, SiteStays DEF vars, SessionInv, ReportNamesItsPlan, HistoryIsSound, Ranks
  <2> QED
    BY <2>1, <2>2, <2>3, <2>4 DEF SessionInv
<1>3. CASE Load \/ Quit \/ Fail \/ Close \/ Refused
  BY <1>1, <1>3, LeavingKeeps DEF Load, Quit, Fail, Close, Refused, Ended, Goto, Early
<1>4. CASE Search \/ Refine
  <2>1. last.query \in 0..MaxClauses /\ MaxClauses \in Nat \ {0}
    BY SessionAssumption DEF SessionInv, Typed, LastOK
  <2>2. \A query \in 0..1 : query \in 0..MaxClauses
    BY <2>1
  <2>3. last.query < MaxClauses => last.query + 1 \in 0..MaxClauses
    BY <2>1
  <2> QED
    BY <1>4, <2>2, <2>3, BeginKeeps DEF Search, Refine
<1>5. ASSUME NEW rank, Save(rank) \/ Reject(rank) \/ MoreLike(rank)
      PROVE  SessionInv'
  <2>1. CASE MoreLike(rank)
    BY <2>1, MoreLikeKeeps
  <2>2. CASE Save(rank) \/ Reject(rank)
    BY <2>2, FeedbackKeeps DEF Save, Reject
  <2> QED
    BY <1>5, <2>1, <2>2
<1>6. CASE Stage
  BY <1>3, <1>6, ParseKeeps, ConfirmKeeps, EncodeKeeps, PageKeeps, PersistKeeps,
     RecordSearchKeeps, ShortlistKeeps, DetailsKeep, RecommendKeeps, RememberKeeps,
     WriteReportKeeps, RecordKeeps DEF Stage
<1> QED
  BY <1>2, <1>3, <1>4, <1>5, <1>6, RestartKeeps DEF Next, Command

LEMMA SessionInvariant == Spec => []SessionInv
BY SessionInvInitially, SessionInvKept, PTL DEF Spec

\* TypeOK: for one, no search asks for a page beyond its budget.
THEOREM SessionTypes == Spec => []TypeOK
<1>1. SessionInv => TypeOK
  BY DEF SessionInv, Typed, RunOK, LastOK, StoreOK, RestOK, TypeOK
<1> QED
  BY <1>1, SessionInvariant, PTL

\* OkMeansEverything: Harvester.harvest reports a full harvest only when it has
\* seen the end of the results, whatever the site, the budgets and the failures.
THEOREM NothingHidden == Spec => []OkMeansEverything
<1>1. SessionInv => OkMeansEverything
  BY DEF SessionInv, Typed, VerbsOK, Searching, Harvesting, Late, OkMeansEverything
<1> QED
  BY <1>1, SessionInvariant, PTL

\* SessionCoherent: at the prompt of interactive() a rank, the last report, the
\* shortlist and the pool of SearchSession belong to one search.
THEOREM RanksAreOfTheReport == Spec => []SessionCoherent
<1>1. SessionInv => SessionCoherent
  <2> SUFFICES ASSUME SessionInv, pc = "prompt" PROVE SessionCoherent
    BY DEF SessionCoherent
  <2> QED
    BY DEF SessionInv, Coherent, Early, SessionCoherent, Ranks
<1> QED
  BY <1>1, SessionInvariant, PTL

\* ReportNamesItsPlan: the report that _write_report left names the plan its
\* listings were found with, whatever searches have failed since.
THEOREM ReportsAreOfOnePlan == Spec => []ReportNamesItsPlan
BY SessionInvariant, PTL DEF SessionInv

\* HistoryIsSound: wherever a search is cut off, the rows of record_recommendation
\* are of a recorded search, of stored listings, and ranked from 1 without a gap.
THEOREM HistoryFits == Spec => []HistoryIsSound
BY SessionInvariant, PTL DEF SessionInv

\* RejectedStayOut: list_rejected is read before the shortlist and nothing in
\* between adds a listing, so none that was rejected is recommended.
THEOREM RejectionLasts == Spec => RejectedStayOut
<1> DEFINE Step == last'.recs # last.recs =>
                     \A i \in Ranks(last'.recs) : last'.recs[i] \notin store.rejected
<1>1. ASSUME SessionInv, [Next]_vars PROVE [Step]_vars
  <2> SUFFICES ASSUME Next, last'.recs # last.recs,
                      NEW i \in Ranks(last'.recs)
               PROVE  last'.recs[i] \notin store.rejected
    BY <1>1
  <2>1. CASE Recommend
    BY <1>1, <2>1, RecommendEffect DEF SessionInv, Selecting, Detailing
  <2>2. CASE Restart
    <3>1. last'.recs = <<>>
      BY <2>2 DEF Restart, Fresh
    <3> QED
      BY <3>1 DEF Ranks
  <2>3. ASSUME ~Recommend, ~Restart PROVE last'.recs = last.recs
    <3>1. DOMAIN last = DOMAIN Fresh
      BY <1>1 DEF SessionInv, Typed, LastOK
    <3>2. CASE Load \/ Command \/ Fail \/ Close
      BY <3>2 DEF Load, Command, Fail, Close, Search, Refine, Begin, Quit, Save, Reject, MoreLike
    <3>3. CASE NextPage
      BY <3>1, <3>3, Shapes DEF NextPage, CutShort, FetchPage, Harvested
    <3>4. CASE Shortlist \/ Remember
      BY <3>1, <3>4, Shapes DEF Shortlist, Remember
    <3>5. CASE Parse \/ Confirm \/ Encode \/ Refused \/ Persist \/ RecordSearch \/ Details
               \/ WriteReport \/ RecordRecommendations
      BY <3>5 DEF Parse, Confirm, Encode, Refused, Persist, RecordSearch, Details,
                  WriteReport, RecordRecommendations
    <3> QED
      BY <2>3, <3>2, <3>3, <3>4, <3>5 DEF Next, Stage
  <2> QED
    BY <2>1, <2>2, <2>3
<1> QED
  BY <1>1, SessionInvariant, PTL DEF Spec, RejectedStayOut
-----------------------------------------------------------------------------
(* The filters: labels become codes, codes become pairs.                    *)

\* The first option of a label exists: next() over the options finds it.
LEMMA FirstIsOne ==
  ASSUME NEW S \in SUBSET Nat, S # {}
  PROVE  First(S) \in S
<1>1. SUFFICES ASSUME \A i \in S : \E j \in S : j < i PROVE FALSE
  <2>1. \A i, j \in S : ~ (j < i) => i <= j
    OBVIOUS
  <2> QED
    BY <2>1 DEF First
<1> DEFINE N == {n \in Nat : \A i \in S : n < i}
           M == {n \in Nat : \A i \in S : n <= i}
<1>2. 0 \in M /\ \A n \in M : n + 1 \in M
  <2>1. 0 \in M
    OBVIOUS
  <2>2. ASSUME NEW n \in M PROVE n + 1 \in M
    <3>1. n \notin S
      BY <1>1
    <3>2. \A i \in S : i \in Nat /\ n <= i /\ i # n
      BY <3>1
    <3> QED
      BY <3>2
  <2> QED
    BY <2>1, <2>2
<1>3. M = Nat
  <2> HIDE DEF M
  <2>1. M \in SUBSET Nat
    BY DEF M
  <2> QED
    BY <1>2, <2>1, NatSetInduction
<1>4. PICK i \in S : TRUE
  OBVIOUS
<1>5. i \in Nat /\ i + 1 \in M
  BY <1>3
<1> QED
  BY <1>5

LEMMA CodeIsOfLabel ==
  ASSUME NEW options \in Seq(FilterOption), NEW label, Matches(options, label) # {}
  PROVE  \E i \in DOMAIN options :
           options[i].label = label /\ options[i].code = CodeOf(options, label)
<1>1. Matches(options, label) \in SUBSET Nat
  BY DEF Matches
<1>2. First(Matches(options, label)) \in Matches(options, label)
  BY <1>1, FirstIsOne
<1> QED
  BY <1>2 DEF Matches, CodeOf

\* What the codes of the first k labels are.
CodesUpTo(codes, options, labels, k) ==
  /\ codes \in Seq({o.code : o \in FilterOption})
  /\ \A i \in DOMAIN codes : \E j \in 1..k :
       Matches(options, labels[j]) # {} /\ codes[i] = CodeOf(options, labels[j])
  /\ \A j \in 1..k : Matches(options, labels[j]) # {} =>
       \E i \in DOMAIN codes : codes[i] = CodeOf(options, labels[j])

LEMMA CodesOfMore ==
  ASSUME NEW options \in Seq(FilterOption), NEW labels \in Seq(Label),
         NEW k \in 1..Len(labels), NEW codes, CodesUpTo(codes, options, labels, k - 1)
  PROVE  CodesUpTo(AddCode(options, codes, labels[k]), options, labels, k)
<1> DEFINE C == {o.code : o \in FilterOption}
           more == Append(codes, CodeOf(options, labels[k]))
<1>0. /\ k \in Nat /\ k - 1 \in Nat /\ codes \in Seq(C)
      /\ \A j : j \in 1..k <=> j \in 1..(k - 1) \/ j = k
  BY DEF CodesUpTo
<1>1. CASE Matches(options, labels[k]) = {}
  <2>1. AddCode(options, codes, labels[k]) = codes
    BY <1>1 DEF AddCode
  <2> HIDE DEF C
  <2> QED
    BY <1>0, <1>1, <2>1 DEF CodesUpTo
<1>2. CASE Matches(options, labels[k]) # {}
  <2>1. CodeOf(options, labels[k]) \in C
    BY <1>2, CodeIsOfLabel
  <2>2. /\ more \in Seq(C) /\ DOMAIN more = DOMAIN codes \union {Len(codes) + 1}
        /\ \A i \in DOMAIN codes : more[i] = codes[i]
        /\ more[Len(codes) + 1] = CodeOf(options, labels[k])
    <3> HIDE DEF C
    <3>1. Len(codes) \in Nat /\ DOMAIN codes = 1..Len(codes)
      BY <1>0
    <3>2. more \in Seq(C) /\ DOMAIN more = 1..(Len(codes) + 1)
      BY <1>0, <2>1
    <3>3. \A i \in 1..Len(codes) : more[i] = codes[i]
      BY <1>0, <2>1
    <3>4. more[Len(codes) + 1] = CodeOf(options, labels[k])
      BY <1>0, <2>1
    <3> QED
      BY <3>1, <3>2, <3>3, <3>4
  <2> HIDE DEF more
  <2>3. ASSUME NEW i \in DOMAIN more
        PROVE  \E j \in 1..k :
                 Matches(options, labels[j]) # {} /\ more[i] = CodeOf(options, labels[j])
    <3>1. CASE i \in DOMAIN codes
      <4>1. PICK j \in 1..(k - 1) :
              Matches(options, labels[j]) # {} /\ codes[i] = CodeOf(options, labels[j])
        BY <3>1 DEF CodesUpTo
      <4> QED
        BY <1>0, <2>2, <3>1, <4>1
    <3>2. CASE i = Len(codes) + 1
      BY <1>0, <1>2, <2>2, <3>2
    <3> QED
      BY <2>2, <3>1, <3>2
  <2>4. ASSUME NEW j \in 1..k, Matches(options, labels[j]) # {}
        PROVE  \E i \in DOMAIN more : more[i] = CodeOf(options, labels[j])
    <3>1. CASE j \in 1..(k - 1)
      <4>1. PICK i \in DOMAIN codes : codes[i] = CodeOf(options, labels[j])
        BY <2>4, <3>1 DEF CodesUpTo
      <4> QED
        BY <2>2, <4>1
    <3>2. CASE j = k
      BY <2>2, <3>2
    <3> QED
      BY <1>0, <3>1, <3>2
  <2>5. AddCode(options, codes, labels[k]) = more
    BY <1>2 DEF AddCode, more
  <2> QED
    BY <2>2, <2>3, <2>4, <2>5 DEF CodesUpTo
<1> QED
  BY <1>1, <1>2

\* The loop over the labels of a field, to its end.
LEMMA CodesOfAll ==
  ASSUME NEW options \in Seq(FilterOption), NEW labels \in Seq(Label)
  PROVE  CodesUpTo(Codes(options, labels), options, labels, Len(labels))
<1> DEFINE n == Len(labels)
           A == Seq({o.code : o \in FilterOption})
           Good(k) == {codes \in A : CodesUpTo(codes, options, labels, k)}
           AddTo(codes, k) == AddCode(options, codes, labels[k])
           step == [kc \in (1..n) \X A |->
                      IF AddTo(kc[2], kc[1]) \in A THEN AddTo(kc[2], kc[1]) ELSE <<>>]
           pick == [T \in SUBSET (1..n) |-> Max(T)]
           rec == CHOOSE it : it = [T \in SUBSET (1..n) |->
                    IF T = {} THEN <<>>
                    ELSE AddCode(options, it[T \ {Max(T)}], labels[Max(T)])]
<1> HIDE DEF A
<1>1. n \in Nat /\ DOMAIN labels = 1..n
  OBVIOUS
<1>2. <<>> \in A
  BY DEF A
<1>3. \A k \in 1..n : \A codes \in A : AddTo(codes, k) \in A
  <2> SUFFICES ASSUME NEW k \in 1..n, NEW codes \in A PROVE AddTo(codes, k) \in A
    OBVIOUS
  <2>1. CASE Matches(options, labels[k]) = {}
    BY <2>1 DEF AddCode
  <2>2. CASE Matches(options, labels[k]) # {}
    <3>1. CodeOf(options, labels[k]) \in {o.code : o \in FilterOption}
      BY <2>2, CodeIsOfLabel
    <3>2. Append(codes, CodeOf(options, labels[k])) \in A
      BY <3>1 DEF A
    <3> QED
      BY <2>2, <3>2 DEF AddCode
  <2> QED
    BY <2>1, <2>2
<1>4. step \in [(1..n) \X A -> A] /\ \A k \in 1..n : \A codes \in A : step[<<k, codes>>] = AddTo(codes, k)
  <2> HIDE DEF AddTo
  <2> QED
    BY <1>2, <1>3
<1>5. Picks(pick, 1..n) /\ IsFiniteSet(1..n)
  BY <1>1, MaxPicks
<1>6. Codes(options, labels) = rec[1..n]
  BY <1>1 DEF Codes, FoldLeft, MapThenFoldSet
<1> HIDE DEF n, step, pick
<1>7. PICK it \in [SUBSET (1..n) -> A] : Folds(it, 1..n, <<>>, step, pick)
  BY <1>1, <1>2, <1>4, <1>5, FoldExists
<1>8. ASSUME NEW T \in SUBSET (1..n)
      PROVE  it[T] = IF T = {} THEN <<>>
                     ELSE AddCode(options, it[T \ {Max(T)}], labels[Max(T)])
  <2>1. CASE T = {}
    BY <1>7, <2>1 DEF Folds
  <2>2. CASE T # {}
    <3>1. pick[T] = Max(T) /\ Max(T) \in 1..n
      BY <1>5, <2>2 DEF Picks, pick
    <3>2. it[T] = step[<<Max(T), it[T \ {Max(T)}]>>] /\ it[T \ {Max(T)}] \in A
      BY <1>7, <2>2, <3>1 DEF Folds
    <3> QED
      BY <1>4, <2>2, <3>1, <3>2
  <2> QED
    BY <2>1, <2>2
<1>9. it = [T \in SUBSET (1..n) |->
             IF T = {} THEN <<>> ELSE AddCode(options, it[T \ {Max(T)}], labels[Max(T)])]
  BY <1>8
<1>10. rec = [T \in SUBSET (1..n) |->
              IF T = {} THEN <<>> ELSE AddCode(options, rec[T \ {Max(T)}], labels[Max(T)])]
  BY <1>9
<1> HIDE DEF rec
<1>11. \A T \in SUBSET (1..n) :
         rec[T] = IF T = {} THEN <<>>
                  ELSE AddCode(options, rec[T \ {Max(T)}], labels[Max(T)])
  BY <1>10
<1>12. ASSUME NEW T \in SUBSET (1..n), T # {}, rec[T \ {Max(T)}] \in A
       PROVE  rec[T] = step[<<Max(T), rec[T \ {Max(T)}]>>]
  <2>1. Max(T) \in 1..n
    BY <1>5, <1>12 DEF Picks, pick
  <2> QED
    BY <1>4, <1>11, <1>12, <2>1
<1>13. FoldsLeft(rec, n, A, <<>>, step)
  BY <1>1, <1>2, <1>4, <1>11, <1>12 DEF FoldsLeft
<1> DEFINE path == FoldedSoFar(rec, n)
<1>14. Path(path, n, A, <<>>, step)
  BY <1>13, FoldIsPath
<1>15. path[n] = Codes(options, labels)
  BY <1>1, <1>6 DEF FoldedSoFar
<1> HIDE DEF path
<1> DEFINE E == {k \in 0..n : CodesUpTo(path[k], options, labels, k)}
<1>16. 0 \in E
  <2>1. path[0] = <<>> /\ 0 \in 0..n
    BY <1>1, <1>14 DEF Path
  <2>2. CodesUpTo(<<>>, options, labels, 0)
    BY DEF CodesUpTo
  <2> QED
    BY <2>1, <2>2
<1>17. ASSUME NEW k \in 1..n, k - 1 \in E PROVE k \in E
  <2>1. k \in 1..Len(labels) /\ k \in 0..n /\ k - 1 \in 0..n
    BY <1>1 DEF n
  <2>2. path[k] = AddCode(options, path[k - 1], labels[k])
    BY <1>4, <1>14, <2>1 DEF Path
  <2>3. CodesUpTo(path[k - 1], options, labels, k - 1)
    BY <1>17
  <2>4. CodesUpTo(path[k], options, labels, k)
    BY <2>1, <2>2, <2>3, CodesOfMore
  <2> QED
    BY <2>1, <2>4
<1> HIDE DEF E
<1>18. n \in E
  <2>1. \A k \in 1..n : k - 1 \in E => k \in E
    BY <1>17
  <2>2. \A k \in 0..n : k \in E
    BY <1>1, <1>16, <2>1, PrefixInduction
  <2> QED
    BY <1>1, <2>2
<1> QED
  BY <1>15, <1>18 DEF E, n

-----------------------------------------------------------------------------
\* What the encoder's table says of a field.
LEMMA ConditionKinds ==
  ASSUME NEW flow \in Flows, NEW name \in DOMAIN CONDITIONS[flow]
  PROVE  /\ CONDITIONS[flow][name].cardinality \in {"single", "multi", "range", "bool"}
         /\ CONDITIONS[flow][name].cardinality = "bool" => CONDITIONS[flow][name].prefix = "ak"
         /\ CONDITIONS[flow][name].aliases \subseteq {"PRICE_RANGE"}
         /\ name # "PRICE_RANGE"
<1> DEFINE Fine(c) == /\ c.cardinality \in {"single", "multi", "range", "bool"}
                      /\ c.cardinality = "bool" => c.prefix = "ak"
                      /\ c.aliases \subseteq {"PRICE_RANGE"}
<1>1. \A base : /\ Fine(Condition("single", "kc", base)) /\ Fine(Condition("single", "kp", base))
                /\ Fine(Condition("multi", "km", base)) /\ Fine(Condition("bool", "ak", base))
  BY DEF Condition
<1>2. Fine(PriceRange)
  BY DEF PriceRange, Condition
<1> HIDE DEF Fine
<1>3. CASE flow = "rent"
  <2>1. CONDITIONS[flow] =
          [PRICEFROM |-> Condition("single", "kc", "PRICEFROM"),
           PRICETO |-> Condition("single", "kc", "PRICETO"),
           PRICE |-> PriceRange,
           MADORI |-> Condition("multi", "km", "MADORI"),
           RENOVATION |-> Condition("bool", "ak", "REFORM")]
    BY <1>3 DEF CONDITIONS
  <2>2. name \in {"PRICEFROM", "PRICETO", "PRICE", "MADORI", "RENOVATION"}
    BY <2>1
  <2>3. Fine(CONDITIONS[flow][name])
    BY <1>1, <1>2, <2>1, <2>2
  <2> QED
    BY <2>2, <2>3 DEF Fine
<1>4. CASE flow = "buy"
  <2>1. CONDITIONS[flow] =
          [PRICEFROM |-> Condition("single", "kp", "PRICEFROM"),
           PRICETO |-> Condition("single", "kp", "PRICETO"),
           PRICE |-> PriceRange,
           MADORI |-> Condition("multi", "km", "MADORI")]
    BY <1>4 DEF CONDITIONS
  <2>2. name \in {"PRICEFROM", "PRICETO", "PRICE", "MADORI"}
    BY <2>1
  <2>3. Fine(CONDITIONS[flow][name])
    BY <1>1, <1>2, <2>1, <2>2
  <2> QED
    BY <2>2, <2>3 DEF Fine
<1> QED
  BY <1>3, <1>4 DEF Flows

LEMMA ConditionFacts ==
  ASSUME NEW flow \in Flows, NEW name \in DOMAIN CONDITIONS[flow]
  PROVE  /\ CONDITIONS[flow][name].cardinality \in {"single", "multi", "range", "bool"}
         /\ CONDITIONS[flow][name].cardinality = "bool" => CONDITIONS[flow][name].prefix = "ak"
         /\ Canonical(flow, name) = {name}
<1>1. \A f \in DOMAIN CONDITIONS[flow] : name \notin CONDITIONS[flow][f].aliases
  BY ConditionKinds
<1> QED
  BY <1>1, ConditionKinds DEF Canonical

\* A field of a valid map: it is in the table, and a code is of one option.
LEMMA FieldFacts ==
  ASSUME NEW m \in Maps, Validate(m), NEW flow \in Flows, NEW name \in DOMAIN m.mappings[flow]
  PROVE  /\ m.mappings[flow][name] \in Seq(FilterOption)
         /\ name \in DOMAIN CONDITIONS[flow]
         /\ OptionsOf(m, flow, name) = m.mappings[flow][name]
         /\ ValidateField(CONDITIONS[flow][name], m.mappings[flow][name])
<1>1. flow \in DOMAIN m.mappings /\ ValidateFlow(flow, m.mappings[flow])
  BY DEF Validate
<1> QED
  BY <1>1, SessionAssumption DEF ValidateFlow, OptionsOf

\* Codes are unique in a field, so that a code says one label.
LEMMA CodeMeansItsLabel ==
  ASSUME NEW options \in Seq(FilterOption), NEW condition, ValidateField(condition, options),
         NEW label, Matches(options, label) # {}
  PROVE  {o.label : o \in {p \in Range(options) : p.code = CodeOf(options, label)}} = {label}
<1>1. PICK i \in DOMAIN options :
        options[i].label = label /\ options[i].code = CodeOf(options, label)
  BY CodeIsOfLabel
<1>2. \A j \in DOMAIN options : options[j].code = CodeOf(options, label) => j = i
  BY <1>1 DEF ValidateField
<1>3. {p \in Range(options) : p.code = CodeOf(options, label)} = {options[i]}
  BY <1>1, <1>2 DEF Range
<1> QED
  BY <1>1, <1>3

LEMMA NotEmptyHasFirst ==
  ASSUME NEW C, NEW s \in Seq(C), s # <<>>
  PROVE  1 \in DOMAIN s
OBVIOUS

\* What the parser's plan holds, field by field and label by label.
PlanOfAnswer(plan, answer, fields) ==
  /\ \A name \in DOMAIN plan.hard :
       /\ name \in DOMAIN answer.hard /\ name \in DOMAIN fields
       /\ plan.hard[name] \in Seq({o.code : o \in FilterOption}) /\ plan.hard[name] # <<>>
       /\ \A i \in DOMAIN plan.hard[name] : \E l \in LabelsOf(answer.hard[name]) :
            Matches(fields[name], l) # {} /\ plan.hard[name][i] = CodeOf(fields[name], l)
  /\ \A name \in DOMAIN answer.hard : \A l \in LabelsOf(answer.hard[name]) :
       IF name \in DOMAIN fields /\ Matches(fields[name], l) # {}
         THEN /\ <<name, l>> \notin plan.soft /\ name \in DOMAIN plan.hard
              /\ \E i \in DOMAIN plan.hard[name] : plan.hard[name][i] = CodeOf(fields[name], l)
         ELSE <<name, l>> \in plan.soft

LEMMA PlanIsOfAnswer ==
  ASSUME NEW m \in Maps, Validate(m), NEW answer \in Answers, NEW flow \in Flows
  PROVE  /\ ResolvePlan(answer, m, flow).flow = flow
         /\ PlanOfAnswer(ResolvePlan(answer, m, flow), answer, m.mappings[flow])
<1> DEFINE plan == ResolvePlan(answer, m, flow)
           fields == m.mappings[flow]
           opts(name) == OptionsOf(m, flow, name)
           codes(name) == Codes(opts(name), answer.hard[name])
           C == {o.code : o \in FilterOption}
<1>1. /\ plan.flow = flow
      /\ DOMAIN plan.hard = {x \in DOMAIN answer.hard : codes(x) # <<>>}
      /\ \A name \in DOMAIN plan.hard : plan.hard[name] = codes(name)
      /\ plan.soft = UNION {Demoted(x, opts(x), answer.hard[x]) : x \in DOMAIN answer.hard}
  BY DEF ResolvePlan
<1> HIDE DEF plan
<1>2. \A name \in DOMAIN answer.hard :
        /\ opts(name) \in Seq(FilterOption) /\ answer.hard[name] \in Seq(Label)
        /\ name \notin DOMAIN fields => opts(name) = <<>>
        /\ name \in DOMAIN fields => opts(name) = fields[name]
  <2> SUFFICES ASSUME NEW name \in DOMAIN answer.hard
               PROVE  /\ opts(name) \in Seq(FilterOption) /\ answer.hard[name] \in Seq(Label)
                      /\ name \notin DOMAIN fields => opts(name) = <<>>
                      /\ name \in DOMAIN fields => opts(name) = fields[name]
    OBVIOUS
  <2>1. answer.hard[name] \in Seq(Label)
    BY SessionAssumption
  <2>2. CASE name \in DOMAIN fields
    BY <2>1, <2>2, FieldFacts
  <2>3. CASE name \notin DOMAIN fields
    BY <2>1, <2>3 DEF OptionsOf
  <2> QED
    BY <2>2, <2>3
<1>3. \A name \in DOMAIN answer.hard :
        CodesUpTo(codes(name), opts(name), answer.hard[name], Len(answer.hard[name]))
  BY <1>2, CodesOfAll
<1>4. \A name \in DOMAIN answer.hard : \A l :
        l \in LabelsOf(answer.hard[name])
          <=> \E j \in 1..Len(answer.hard[name]) : answer.hard[name][j] = l
  BY <1>2 DEF LabelsOf
<1>5. \A name, l : Matches(<<>>, l) = {}
  BY DEF Matches
<1> HIDE DEF opts, codes, fields
<1>6. ASSUME NEW name \in DOMAIN plan.hard
      PROVE  /\ name \in DOMAIN answer.hard /\ name \in DOMAIN fields
             /\ plan.hard[name] \in Seq(C) /\ plan.hard[name] # <<>>
             /\ \A i \in DOMAIN plan.hard[name] : \E l \in LabelsOf(answer.hard[name]) :
                  Matches(fields[name], l) # {} /\ plan.hard[name][i] = CodeOf(fields[name], l)
  <2>1. name \in DOMAIN answer.hard /\ plan.hard[name] = codes(name) /\ codes(name) # <<>>
    BY <1>1
  <2>2. codes(name) \in Seq(C)
    BY <1>3, <2>1 DEF CodesUpTo
  <2>3. \A i \in DOMAIN codes(name) : \E l \in LabelsOf(answer.hard[name]) :
          Matches(opts(name), l) # {} /\ codes(name)[i] = CodeOf(opts(name), l)
    <3> SUFFICES ASSUME NEW i \in DOMAIN codes(name)
                 PROVE  \E l \in LabelsOf(answer.hard[name]) :
                          Matches(opts(name), l) # {} /\ codes(name)[i] = CodeOf(opts(name), l)
      OBVIOUS
    <3>1. PICK j \in 1..Len(answer.hard[name]) :
            /\ Matches(opts(name), answer.hard[name][j]) # {}
            /\ codes(name)[i] = CodeOf(opts(name), answer.hard[name][j])
      BY <1>3, <2>1 DEF CodesUpTo
    <3>2. answer.hard[name][j] \in LabelsOf(answer.hard[name])
      BY <1>4, <2>1
    <3> QED
      BY <3>1, <3>2
  <2>4. \E i : i \in DOMAIN codes(name)
    BY <2>1, <2>2, NotEmptyHasFirst
  <2>5. name \in DOMAIN fields
    BY <1>2, <1>5, <2>1, <2>3, <2>4
  <2> QED
    BY <1>2, <2>1, <2>2, <2>3, <2>5
<1>7. ASSUME NEW name \in DOMAIN answer.hard, NEW l \in LabelsOf(answer.hard[name])
      PROVE  IF name \in DOMAIN fields /\ Matches(fields[name], l) # {}
               THEN /\ <<name, l>> \notin plan.soft /\ name \in DOMAIN plan.hard
                    /\ \E i \in DOMAIN plan.hard[name] : plan.hard[name][i] = CodeOf(fields[name], l)
               ELSE <<name, l>> \in plan.soft
  <2>1. \A x \in DOMAIN answer.hard :
          Demoted(x, opts(x), answer.hard[x])
            = {<<x, k>> : k \in {k \in LabelsOf(answer.hard[x]) : Matches(opts(x), k) = {}}}
    BY DEF Demoted
  <2>2. <<name, l>> \in plan.soft <=> Matches(opts(name), l) = {}
    BY <1>1, <2>1
  <2>3. CASE name \in DOMAIN fields /\ Matches(fields[name], l) # {}
    <3>1. opts(name) = fields[name] /\ Matches(opts(name), l) # {}
      BY <1>2, <2>3
    <3>2. PICK j \in 1..Len(answer.hard[name]) : answer.hard[name][j] = l
      BY <1>4
    <3>3. PICK i \in DOMAIN codes(name) : codes(name)[i] = CodeOf(opts(name), l)
      BY <1>3, <3>1, <3>2 DEF CodesUpTo
    <3>4. codes(name) # <<>>
      BY <3>3
    <3> QED
      BY <1>1, <2>2, <2>3, <3>1, <3>3, <3>4
  <2>4. CASE ~(name \in DOMAIN fields /\ Matches(fields[name], l) # {})
    BY <1>2, <1>5, <2>2, <2>4
  <2> QED
    BY <2>3, <2>4
<1> QED
  BY <1>1, <1>6, <1>7 DEF PlanOfAnswer, plan, fields

\* What the encoder makes of the codes of one field.
Carries(pairs, codes, keys) ==
  /\ \A pair \in pairs : pair[1] \in keys /\ \E i \in DOMAIN codes : pair[2] = codes[i]
  /\ \A i \in DOMAIN codes : \E pair \in pairs : pair[1] \in keys /\ pair[2] = codes[i]
Misshapen(condition, codes) ==
  /\ condition.cardinality # "multi"
  /\ Len(codes) > 1 \/ condition.cardinality \in {"bool", "range"}

\* One pair for each code, under a key of the field.
LEMMA PairsCarry ==
  ASSUME NEW codes, NEW keyOf, NEW keys, \A i \in DOMAIN codes : keyOf[i] \in keys
  PROVE  Carries({<<keyOf[i], codes[i]>> : i \in DOMAIN codes}, codes, keys)
<1> DEFINE pairs == {<<keyOf[i], codes[i]>> : i \in DOMAIN codes}
<1>1. ASSUME NEW pair \in pairs
      PROVE  pair[1] \in keys /\ \E i \in DOMAIN codes : pair[2] = codes[i]
  <2>1. PICK i \in DOMAIN codes : pair = <<keyOf[i], codes[i]>>
    OBVIOUS
  <2> QED
    BY <2>1
<1>2. ASSUME NEW i \in DOMAIN codes
      PROVE  \E pair \in pairs : pair[1] \in keys /\ pair[2] = codes[i]
  <2>1. <<keyOf[i], codes[i]>> \in pairs
    OBVIOUS
  <2> QED
    BY <2>1
<1> QED
  BY <1>1, <1>2 DEF Carries

LEMMA FieldEncoded ==
  ASSUME NEW m \in Maps, Validate(m), NEW flow \in Flows, NEW name \in DOMAIN m.mappings[flow],
         NEW codes \in Seq({o.code : o \in FilterOption}), codes # <<>>,
         \A i \in DOMAIN codes : \E j \in DOMAIN m.mappings[flow][name] :
           codes[i] = m.mappings[flow][name][j].code
  PROVE  IF EncodeField(m, flow, name, codes).ok
           THEN Carries(EncodeField(m, flow, name, codes).pairs, codes, Keys(flow, name))
           ELSE Misshapen(CONDITIONS[flow][name], codes)
<1> DEFINE condition == CONDITIONS[flow][name]
           encoded == EncodeField(m, flow, name, codes)
           C == {o.code : o \in FilterOption}
<1>1. /\ m.mappings[flow][name] \in Seq(FilterOption) /\ name \in DOMAIN CONDITIONS[flow]
      /\ OptionsOf(m, flow, name) = m.mappings[flow][name]
      /\ ValidateField(condition, m.mappings[flow][name])
  BY FieldFacts
<1>2. /\ condition.cardinality \in {"single", "multi", "range", "bool"}
      /\ condition.cardinality = "bool" => condition.prefix = "ak"
      /\ Canonical(flow, name) = {name}
  BY <1>1, ConditionFacts
<1>3. Canonical(flow, name) # {} /\ (CHOOSE c \in Canonical(flow, name) : TRUE) = name
  BY <1>2
<1>4. \A i \in DOMAIN codes : KnownCode(m, flow, name, codes[i])
  BY <1>1 DEF KnownCode
<1>5. Len(codes) \in Nat /\ DOMAIN codes = 1..Len(codes) /\ Len(codes) # 0
  <2> HIDE DEF C
  <2>1. codes \in Seq(C)
    BY DEF C
  <2> QED
    BY <2>1
<1>6. /\ ~Unencodable.ok
      /\ \A pairs : Params(pairs).ok /\ Params(pairs).pairs = pairs
  BY DEF Unencodable, Params
<1>7. CASE condition.cardinality = "single"
  <2>1. encoded = EncodeSingle(m, flow, name, codes)
    BY <1>3, <1>7 DEF EncodeField
  <2>2. Keys(flow, name) = {condition.base}
    BY <1>7 DEF Keys
  <2>3. CASE Len(codes) = 1
    <3>1. 1 \in DOMAIN codes /\ \A i \in DOMAIN codes : i = 1
      BY <1>5, <2>3
    <3>2. encoded = Params({<<condition.base, codes[1]>>})
      BY <1>4, <2>1, <2>3, <3>1 DEF EncodeSingle
    <3> DEFINE keyOf == [i \in DOMAIN codes |-> condition.base]
               pairs == {<<keyOf[i], codes[i]>> : i \in DOMAIN codes}
    <3>3. pairs = {<<condition.base, codes[1]>>}
      BY <3>1
    <3>4. \A i \in DOMAIN codes : keyOf[i] \in Keys(flow, name)
      BY <2>2
    <3> HIDE DEF keyOf
    <3>5. Carries(pairs, codes, Keys(flow, name))
      BY <3>4, PairsCarry
    <3> QED
      BY <1>6, <3>2, <3>3, <3>5
  <2>4. CASE Len(codes) # 1
    <3>1. ~encoded.ok /\ Len(codes) > 1
      BY <1>5, <1>6, <2>1, <2>4 DEF EncodeSingle
    <3> QED
      BY <1>7, <3>1 DEF Misshapen
  <2> QED
    BY <2>3, <2>4
<1>8. CASE condition.cardinality = "multi"
  <2>1. encoded = EncodeMulti(m, flow, name, codes)
    BY <1>3, <1>8 DEF EncodeField
  <2>2. Keys(flow, name) = {condition.base}
    BY <1>8 DEF Keys
  <2>3. encoded = Params({<<condition.base, codes[i]>> : i \in DOMAIN codes})
    BY <1>4, <2>1 DEF EncodeMulti
  <2> DEFINE keyOf == [i \in DOMAIN codes |-> condition.base]
             pairs == {<<keyOf[i], codes[i]>> : i \in DOMAIN codes}
  <2>4. pairs = {<<condition.base, codes[i]>> : i \in DOMAIN codes}
    OBVIOUS
  <2>5. \A i \in DOMAIN codes : keyOf[i] \in Keys(flow, name)
    BY <2>2
  <2> HIDE DEF keyOf
  <2>6. Carries(pairs, codes, Keys(flow, name))
    BY <2>5, PairsCarry
  <2> QED
    BY <1>6, <2>3, <2>4, <2>6
<1>9. CASE condition.cardinality = "range"
  <2>1. encoded = EncodeRange(m, flow, codes)
    BY <1>3, <1>9 DEF EncodeField
  <2>2. Keys(flow, name) = {PricePair[1], PricePair[2]}
    BY <1>9 DEF Keys
  <2>3. CASE encoded.ok
    <3>1. Len(codes) = 2 /\ encoded = Params({<<PricePair[i], codes[i]>> : i \in 1..2})
      BY <1>6, <2>1, <2>3 DEF EncodeRange
    <3>2. DOMAIN codes = 1..2 /\ 1..2 = {1, 2}
      BY <1>5, <3>1
    <3>3. \A i \in DOMAIN codes : PricePair[i] \in Keys(flow, name)
      BY <2>2, <3>2
    <3>4. Carries({<<PricePair[i], codes[i]>> : i \in DOMAIN codes}, codes, Keys(flow, name))
      BY <3>3, PairsCarry
    <3> QED
      BY <1>6, <2>3, <3>1, <3>2, <3>4
  <2>4. CASE ~encoded.ok
    BY <1>9, <2>4 DEF Misshapen
  <2> QED
    BY <2>3, <2>4
<1>10. CASE condition.cardinality = "bool"
  <2>1. encoded = EncodeBool(m, flow, name, codes)
    BY <1>3, <1>10 DEF EncodeField
  <2>2. 1 \in DOMAIN codes
    BY <1>5
  <2>3. codes[1][1] = "ak"
    BY <1>1, <1>2, <1>10, <2>2 DEF ValidateField, ValidateOption
  <2>4. codes[1] \notin TrueWords \union FalseWords
    BY <2>3 DEF TrueWords, FalseWords
  <2>5. ~encoded.ok
    BY <1>6, <2>1, <2>4 DEF EncodeBool
  <2> QED
    BY <1>10, <2>5 DEF Misshapen
<1> QED
  BY <1>2, <1>7, <1>8, <1>9, <1>10

\* A request, or a refusal, of a valid map and any answer.
LEMMA RequestIsOfAnswer ==
  ASSUME NEW m \in Maps, Validate(m), NEW answer \in Answers, NEW flow \in Flows,
         NEW plan, plan = ResolvePlan(answer, m, flow)
  PROVE  IF EncodePlan(plan, m).ok
           THEN Matching(m.mappings[flow], plan, answer.hard, EncodePlan(plan, m).pairs)
           ELSE \E name \in DOMAIN plan.hard :
                  /\ name \in DOMAIN CONDITIONS[flow]
                  /\ Misshapen(CONDITIONS[flow][name], plan.hard[name])
<1> DEFINE fields == m.mappings[flow]
           enc(name) == EncodeField(m, flow, name, plan.hard[name])
           pairs == UNION {enc(name).pairs : name \in DOMAIN plan.hard}
<1>1. plan.flow = flow /\ PlanOfAnswer(plan, answer, fields)
  BY PlanIsOfAnswer
<1>2. \A name \in DOMAIN fields :
        /\ fields[name] \in Seq(FilterOption) /\ name \in DOMAIN CONDITIONS[flow]
        /\ ValidateField(CONDITIONS[flow][name], fields[name])
  BY FieldFacts
<1>3. \A name \in DOMAIN plan.hard :
        /\ name \in DOMAIN answer.hard /\ name \in DOMAIN fields
        /\ plan.hard[name] \in Seq({o.code : o \in FilterOption}) /\ plan.hard[name] # <<>>
        /\ \A i \in DOMAIN plan.hard[name] : \E l \in LabelsOf(answer.hard[name]) :
             Matches(fields[name], l) # {} /\ plan.hard[name][i] = CodeOf(fields[name], l)
  BY <1>1 DEF PlanOfAnswer
<1>4. ASSUME NEW name \in DOMAIN plan.hard
      PROVE  IF enc(name).ok THEN Carries(enc(name).pairs, plan.hard[name], Keys(flow, name))
             ELSE Misshapen(CONDITIONS[flow][name], plan.hard[name])
  <2>1. ASSUME NEW i \in DOMAIN plan.hard[name]
        PROVE  \E j \in DOMAIN fields[name] : plan.hard[name][i] = fields[name][j].code
    <3>1. PICK l : Matches(fields[name], l) # {} /\ plan.hard[name][i] = CodeOf(fields[name], l)
      BY <1>3
    <3>2. PICK j \in DOMAIN fields[name] : fields[name][j].code = CodeOf(fields[name], l)
      BY <1>2, <1>3, <3>1, CodeIsOfLabel
    <3> QED
      BY <3>1, <3>2
  <2> QED
    BY <1>3, <2>1, FieldEncoded
<1> HIDE DEF enc
<1>5. /\ EncodePlan(plan, m).ok <=> \A name \in DOMAIN plan.hard : enc(name).ok
      /\ EncodePlan(plan, m).ok => EncodePlan(plan, m).pairs = pairs
  <2> DEFINE encoded == {enc(name) : name \in DOMAIN plan.hard}
  <2>1. EncodePlan(plan, m) = IF \A e \in encoded : e.ok
                                THEN Params(UNION {e.pairs : e \in encoded}) ELSE Unencodable
    BY <1>1 DEF EncodePlan, enc
  <2>2. UNION {e.pairs : e \in encoded} = pairs
    OBVIOUS
  <2>3. (\A e \in encoded : e.ok) <=> \A name \in DOMAIN plan.hard : enc(name).ok
    OBVIOUS
  <2> HIDE DEF encoded, pairs
  <2> QED
    BY <2>1, <2>2, <2>3 DEF Params, Unencodable
<1>6. ASSUME NEW name \in DOMAIN fields, NEW l, Matches(fields[name], l) # {},
             NEW pair, pair[1] \in Keys(flow, name), pair[2] = CodeOf(fields[name], l)
      PROVE  Meaning(fields, flow, name, pair) = {l}
  <2>1. {o.label : o \in {p \in Range(fields[name]) : p.code = CodeOf(fields[name], l)}} = {l}
    BY <1>2, <1>6, CodeMeansItsLabel
  <2> QED
    BY <1>6, <2>1 DEF Meaning
<1>7. ASSUME NEW name, NEW l, NEW pair, l \in Meaning(fields, flow, name, pair)
      PROVE  name \in DOMAIN fields /\ Matches(fields[name], l) # {}
  BY <1>7 DEF Meaning, Matches, Range
<1> HIDE DEF fields, pairs
<1>8. ASSUME EncodePlan(plan, m).ok
      PROVE  Matching(fields, plan, answer.hard, pairs)
  <2>1. \A name \in DOMAIN plan.hard :
          Carries(enc(name).pairs, plan.hard[name], Keys(flow, name))
    BY <1>4, <1>5, <1>8
  <2>2. ASSUME NEW name \in DOMAIN answer.hard, NEW l \in LabelsOf(answer.hard[name])
        PROVE  <<name, l>> \notin plan.soft
                 <=> \E pair \in pairs : l \in Meaning(fields, flow, name, pair)
    <3>1. CASE name \in DOMAIN fields /\ Matches(fields[name], l) # {}
      <4>1. <<name, l>> \notin plan.soft /\ name \in DOMAIN plan.hard
        BY <1>1, <3>1 DEF PlanOfAnswer
      <4>2. PICK i \in DOMAIN plan.hard[name] : plan.hard[name][i] = CodeOf(fields[name], l)
        BY <1>1, <3>1 DEF PlanOfAnswer
      <4>3. PICK pair \in enc(name).pairs :
              pair[1] \in Keys(flow, name) /\ pair[2] = plan.hard[name][i]
        BY <2>1, <4>1 DEF Carries
      <4>4. pair \in pairs /\ Meaning(fields, flow, name, pair) = {l}
        BY <1>6, <3>1, <4>1, <4>2, <4>3 DEF pairs
      <4> QED
        BY <4>1, <4>4
    <3>2. CASE ~(name \in DOMAIN fields /\ Matches(fields[name], l) # {})
      <4>1. <<name, l>> \in plan.soft
        BY <1>1, <3>2 DEF PlanOfAnswer
      <4> QED
        BY <1>7, <3>2, <4>1
    <3> QED
      BY <3>1, <3>2
  <2>3. ASSUME NEW pair \in pairs
        PROVE  \E name \in DOMAIN answer.hard :
                 /\ Meaning(fields, flow, name, pair) # {}
                 /\ Meaning(fields, flow, name, pair) \subseteq LabelsOf(answer.hard[name])
    <3>1. PICK name \in DOMAIN plan.hard : pair \in enc(name).pairs
      BY DEF pairs
    <3>2. pair[1] \in Keys(flow, name)
      BY <2>1, <3>1 DEF Carries
    <3>3. PICK i \in DOMAIN plan.hard[name] : pair[2] = plan.hard[name][i]
      BY <2>1, <3>1 DEF Carries
    <3>4. PICK l \in LabelsOf(answer.hard[name]) :
            Matches(fields[name], l) # {} /\ plan.hard[name][i] = CodeOf(fields[name], l)
      BY <1>3
    <3>5. name \in DOMAIN answer.hard /\ name \in DOMAIN fields
      BY <1>3
    <3>6. Meaning(fields, flow, name, pair) = {l}
      BY <1>6, <3>2, <3>3, <3>4, <3>5
    <3> QED
      BY <3>4, <3>5, <3>6
  <2> QED
    BY <1>1, <2>2, <2>3 DEF Matching
<1>9. ASSUME ~EncodePlan(plan, m).ok
      PROVE  \E name \in DOMAIN plan.hard :
               /\ name \in DOMAIN CONDITIONS[flow]
               /\ Misshapen(CONDITIONS[flow][name], plan.hard[name])
  <2>1. PICK name \in DOMAIN plan.hard : ~enc(name).ok
    BY <1>5, <1>9
  <2> QED
    BY <1>2, <1>3, <1>4, <2>1
<1> QED
  BY <1>5, <1>8, <1>9 DEF fields

-----------------------------------------------------------------------------
(* Encoding, in the session.                                                *)

\* Nothing is searched for with a map that was not validated; from its
\* confirmation to its harvest a search keeps the plan of its answer.
EncodingInv ==
  /\ pc \in Stages \union {"prompt"} => Validate(filterMap)
  /\ pc \in {"confirm", "encode", "refused", "page"} =>
       /\ run.answer \in Answers /\ run.plan.flow \in Flows
       /\ run.plan = ResolvePlan(run.answer, filterMap, run.plan.flow)
  /\ pc = "refused" => ~EncodePlan(run.plan, filterMap).ok
  /\ pc = "page" => /\ EncodePlan(run.plan, filterMap).ok
                    /\ run.params = EncodePlan(run.plan, filterMap).pairs

LEMMA EncodingInitially == Init => EncodingInv
BY DEF Init, EncodingInv, Stages

\* A step that leaves the answer, the plan and the map alone.
LEMMA SamePlanKeeps ==
  ASSUME EncodingInv, UNCHANGED filterMap,
         run'.answer = run.answer, run'.plan = run.plan,
         \/ pc' = "encode" /\ pc = "confirm"
         \/ pc' = "page" /\ pc = "page" /\ run'.params = run.params
         \/ UNCHANGED pc /\ run'.params = run.params
  PROVE  EncodingInv'
<1>1. pc' \in Stages \union {"prompt"} => pc \in Stages \union {"prompt"}
  BY DEF Stages
<1>2. (Stages \union {"prompt"})' = Stages \union {"prompt"}
  BY DEF Stages
<1>3. (pc \in Stages \union {"prompt"} => Validate(filterMap))'
  BY <1>1, <1>2 DEF EncodingInv, Validate
<1> QED
  BY <1>3 DEF EncodingInv

\* A step out of these stages, or that begins a command.
LEMMA OutsideKeeps ==
  ASSUME EncodingInv, UNCHANGED filterMap,
         pc' \notin {"confirm", "encode", "refused", "page"},
         pc \in Stages \union {"prompt"} \/ pc' \notin Stages \union {"prompt"}
  PROVE  EncodingInv'
<1>1. (pc \in Stages \union {"prompt"} => Validate(filterMap))'
  BY DEF EncodingInv, Stages, Validate
<1> QED
  BY <1>1 DEF EncodingInv

LEMMA EncodingKept == SessionInv /\ EncodingInv /\ [Next]_vars => EncodingInv'
<1> SUFFICES ASSUME SessionInv, EncodingInv, [Next]_vars PROVE EncodingInv'
  OBVIOUS
<1>0. DOMAIN run = DOMAIN Idle
  BY DEF SessionInv, Typed, RunOK
<1>1. CASE UNCHANGED vars
  BY <1>1, SamePlanKeeps DEF vars
<1>2. CASE Load
  <2>1. UNCHANGED filterMap /\ pc' \in {"prompt", "ended"} /\ (pc' = "prompt" => Validate(filterMap))
    BY <1>2 DEF Load, Goto
  <2>2. Validate(filterMap)' = Validate(filterMap)
    BY <2>1 DEF Validate
  <2> QED
    BY <2>1, <2>2 DEF EncodingInv, Stages
<1>3. CASE Fail \/ Quit \/ Close \/ Restart
  BY <1>3, OutsideKeeps DEF Fail, Quit, Close, Restart, Goto, Stages
<1>4. CASE Search \/ Refine
  <2>1. PICK query : Begin(query)
    BY <1>4 DEF Search, Refine
  <2> QED
    BY <2>1, OutsideKeeps DEF Begin, Goto, Ended, Stages
<1>5. ASSUME NEW rank, Save(rank) \/ Reject(rank) \/ MoreLike(rank) PROVE EncodingInv'
  BY <1>5, OutsideKeeps DEF Save, Reject, MoreLike, Goto, Stages
<1>6. CASE Parse
  <2>1. PICK flow \in Flows, answer \in Answers :
          IF answer.ambiguous THEN Ended("aborted")
          ELSE /\ run' = [run EXCEPT !.answer = answer,
                                     !.plan = ResolvePlan(answer, filterMap, flow)]
               /\ Goto("confirm") /\ UNCHANGED status
    BY <1>6 DEF Parse
  <2>2. pc = "parse" /\ UNCHANGED filterMap
    BY <1>6 DEF Parse
  <2>3. CASE answer.ambiguous
    BY <2>1, <2>2, <2>3, OutsideKeeps DEF Ended, Stages
  <2>4. CASE ~answer.ambiguous
    <3>1. pc' = "confirm" /\ run'.answer = answer /\ run'.plan = ResolvePlan(answer, filterMap, flow)
      BY <1>0, <2>1, <2>4, Shapes DEF Goto
    <3>2. run'.plan.flow = flow
      BY <3>1 DEF ResolvePlan
    <3>3. (pc \in Stages \union {"prompt"} => Validate(filterMap))'
      BY <2>2 DEF EncodingInv, Stages, Validate
    <3>4. ResolvePlan(run.answer, filterMap, run.plan.flow)' = ResolvePlan(answer, filterMap, flow)
      BY <2>2, <3>1, <3>2
    <3> QED
      BY <3>1, <3>2, <3>3, <3>4 DEF EncodingInv
  <2> QED
    BY <2>3, <2>4
<1>7. CASE Confirm
  <2>1. pc = "confirm" /\ UNCHANGED filterMap
    BY <1>7 DEF Confirm
  <2>2. CASE Ended("aborted")
    BY <2>1, <2>2, OutsideKeeps DEF Ended, Stages
  <2>3. CASE Goto("encode") /\ UNCHANGED <<run, status>>
    BY <2>1, <2>3, SamePlanKeeps DEF Goto
  <2> QED
    BY <1>7, <2>2, <2>3 DEF Confirm
<1>8. CASE Encode
  <2>1. /\ pc = "encode" /\ UNCHANGED filterMap
        /\ pc' = IF EncodePlan(run.plan, filterMap).ok THEN "page" ELSE "refused"
        /\ run' = [run EXCEPT !.params = EncodePlan(run.plan, filterMap).pairs]
    BY <1>8 DEF Encode, Goto
  <2>2. /\ run'.params = EncodePlan(run.plan, filterMap).pairs
        /\ run'.answer = run.answer /\ run'.plan = run.plan
    BY <1>0, <2>1, Shapes
  <2>3. (pc \in Stages \union {"prompt"} => Validate(filterMap))'
    BY <2>1 DEF EncodingInv, Stages, Validate
  <2>4. /\ EncodePlan(run.plan, filterMap)' = EncodePlan(run.plan, filterMap)
        /\ ResolvePlan(run.answer, filterMap, run.plan.flow)'
             = ResolvePlan(run.answer, filterMap, run.plan.flow)
    BY <2>1, <2>2
  <2> QED
    BY <2>1, <2>2, <2>3, <2>4 DEF EncodingInv
<1>9. CASE NextPage
  <2>1. pc = "page" /\ UNCHANGED filterMap
    BY <1>9 DEF NextPage, CutShort, FetchPage
  <2>2. CASE pc' = "persist"
    BY <2>1, <2>2, OutsideKeeps DEF Stages
  <2>3. CASE pc' # "persist"
    <3>1. UNCHANGED pc /\ \E found : run' = [run EXCEPT !.found = found, !.page = @ + 1]
      BY <1>9, <2>3 DEF NextPage, CutShort, FetchPage, Harvested, Goto
    <3>2. run'.answer = run.answer /\ run'.plan = run.plan /\ run'.params = run.params
      BY <1>0, <3>1, Shapes
    <3> QED
      BY <2>1, <3>1, <3>2, SamePlanKeeps
  <2> QED
    BY <2>2, <2>3
<1>10. CASE Refused \/ Persist \/ RecordSearch \/ Shortlist \/ Details \/ Recommend
            \/ Remember \/ WriteReport \/ RecordRecommendations
  BY <1>10, OutsideKeeps
     DEF Refused, Persist, RecordSearch, Shortlist, Details, Recommend, Remember, WriteReport,
         RecordRecommendations, Goto, Ended, Stages
<1> QED
  BY <1>1, <1>2, <1>3, <1>4, <1>5, <1>6, <1>7, <1>8, <1>9, <1>10 DEF Next, Command, Stage

LEMMA EncodingInvariant == Spec => [](SessionInv /\ EncodingInv)
<1>1. Init => SessionInv /\ EncodingInv
  BY SessionInvInitially, EncodingInitially
<1>2. (SessionInv /\ EncodingInv) /\ [Next]_vars => (SessionInv /\ EncodingInv)'
  BY SessionInvKept, EncodingKept
<1> QED
  BY <1>1, <1>2, PTL DEF Spec

\* RequestMatchesQuery: for any valid map, any answer of the model and either
\* flow, _resolve_plan and encode_plan between them lose no label, double none,
\* and put nothing into the request that was not asked for.
THEOREM RequestsMatchQueries == Spec => []RequestMatchesQuery
<1>1. SessionInv /\ EncodingInv => RequestMatchesQuery
  <2> SUFFICES ASSUME SessionInv, EncodingInv, pc = "page"
               PROVE  Matching(filterMap.mappings[run.plan.flow], run.plan, run.answer.hard,
                               run.params)
    BY DEF RequestMatchesQuery
  <2>1. filterMap \in Maps /\ Validate(filterMap)
    BY DEF SessionInv, Typed, RestOK, EncodingInv, Stages
  <2>2. /\ run.answer \in Answers /\ run.plan.flow \in Flows
        /\ run.plan = ResolvePlan(run.answer, filterMap, run.plan.flow)
        /\ EncodePlan(run.plan, filterMap).ok
        /\ run.params = EncodePlan(run.plan, filterMap).pairs
    BY DEF EncodingInv
  <2> QED
    BY <2>1, <2>2, RequestIsOfAnswer
<1> QED
  BY <1>1, EncodingInvariant, PTL

\* RefusedOnlyForShape: UnknownFilter and UnknownFilterValue are raised for a
\* plan of the parser only by a second value or by a toggle or a range, never
\* for a filter or a code that the map lacks.
THEOREM RefusalsAreOfShape == Spec => []RefusedOnlyForShape
<1>1. SessionInv /\ EncodingInv => RefusedOnlyForShape
  <2> SUFFICES ASSUME SessionInv, EncodingInv, pc = "refused" PROVE RefusedOnlyForShape
    BY DEF RefusedOnlyForShape
  <2>1. filterMap \in Maps /\ Validate(filterMap)
    BY DEF SessionInv, Typed, RestOK, EncodingInv, Stages
  <2>2. /\ run.answer \in Answers /\ run.plan.flow \in Flows
        /\ run.plan = ResolvePlan(run.answer, filterMap, run.plan.flow)
        /\ ~EncodePlan(run.plan, filterMap).ok
    BY DEF EncodingInv
  <2>3. \E name \in DOMAIN run.plan.hard :
          /\ name \in DOMAIN CONDITIONS[run.plan.flow]
          /\ Misshapen(CONDITIONS[run.plan.flow][name], run.plan.hard[name])
    BY <2>1, <2>2, RequestIsOfAnswer
  <2> QED
    BY <2>3 DEF RefusedOnlyForShape, Misshapen
<1> QED
  BY <1>1, EncodingInvariant, PTL
===============================================================================
