---------------------------- MODULE SearchSession -----------------------------
(***************************************************************************)
(* The interactive loop and SearchSession: a query is parsed, encoded,     *)
(* harvested page by page, stored, shortlisted, detailed, recommended,     *)
(* reported and recorded, and what the last completed search left behind   *)
(* is what the feedback commands work on.                                  *)
(*                                                                         *)
(* interactive() catches nothing: an exception of any stage, or Ctrl-C,    *)
(* ends the loop after its finally has closed the fetch and the store.     *)
(* The database outlives the process; the session does not.                *)
(*                                                                         *)
(* A query is the number of its clauses: only "refine" looks at it.  The   *)
(* pages of a site are what parse_list_page returns for them, the answers  *)
(* of the language model are nondeterministic (LLMBatches models how they  *)
(* are asked for), and so is the detail scrape (LiveFetch models it).      *)
(***************************************************************************)
EXTENDS FilterEncoding, Functions

CONSTANTS
  Listings,     \* internal IDs
  Maps,         \* filter maps the file may hold
  Sites,        \* [Flows -> Seq(SUBSET Listings)]: the pages of each flow
  Answers,      \* parser outputs: [ambiguous, hard: field -> Seq(label)]
  Cards,        \* sets of listings the cards of detail pages may show
  NoFigure,     \* listings with a deposit or key money that is no amount
  Budgets,      \* [max_pages, shortlist_size, recommendations_count]
  MaxClauses,   \* bound: clauses of a query
  MaxSearches   \* bound: recorded searches

ASSUME SessionAssumption ==
  /\ \A m \in Maps : \A flow \in DOMAIN m.mappings : \A name \in DOMAIN m.mappings[flow] :
       m.mappings[flow][name] \in Seq(FilterOption)
  /\ \A answer \in Answers : \A name \in DOMAIN answer.hard :
       answer.hard[name] \in Seq(Label)
  /\ NoFigure \subseteq Listings /\ Cards \subseteq SUBSET Listings
  /\ Sites \subseteq [Flows -> Seq(SUBSET Listings)]
  /\ Budgets \in [max_pages : Nat, shortlist_size : Nat, recommendations_count : Nat]
  /\ MaxClauses \in Nat \ {0} /\ MaxSearches \in Nat

VARIABLES
  filterMap, site,
  pc,       \* the stage the process is in
  run,      \* locals of the command that runs
  last,     \* SearchSession.last_*
  store,    \* the tables the session writes
  report,   \* the last report-*.md and report-*.json
  status    \* of the last search that returned

vars == <<filterMap, site, pc, run, last, store, report, status>>

-----------------------------------------------------------------------------
Ranks(recs) == 1..Len(recs)
NoPlan == [flow |-> "none", hard |-> <<>>, soft |-> {}]
NoAnswer == [ambiguous |-> FALSE, hard |-> <<>>]
Idle == [verb |-> "none", query |-> 0, answer |-> NoAnswer, plan |-> NoPlan,
         params |-> {}, page |-> 1, found |-> {}, partial |-> FALSE,
         short |-> {}, recs |-> <<>>, search |-> 0]
\* SearchSession.__init__
Fresh == [query |-> 0, plan |-> NoPlan, harvest |-> {}, short |-> {}, recs |-> <<>>]
NoReport == [recs |-> <<>>, plan |-> NoPlan]
EmptyStore == [seen |-> {}, rejected |-> {}, searches |-> <<>>, ranked |-> {}]

Stages == {"parse", "confirm", "encode", "refused", "page", "persist", "record_search",
           "shortlist", "detail", "recommend", "remember", "report", "record"}
Running == pc \in Stages

Init ==
  /\ filterMap \in Maps /\ site \in Sites
  /\ pc = "load" /\ run = Idle /\ last = Fresh /\ store = EmptyStore
  /\ report = NoReport /\ status = "none"

Goto(stage) == pc' = stage
Ended(outcome) == pc' = "prompt" /\ run' = Idle /\ status' = outcome

-----------------------------------------------------------------------------
(* The process.                                                             *)

Load ==
  /\ pc = "load"
  /\ Goto(IF Validate(filterMap) THEN "prompt" ELSE "ended")
  /\ UNCHANGED <<filterMap, site, run, last, store, report, status>>

\* Ctrl-C anywhere, or an exception no handler of search or more_like takes:
\* a language model that gave up, a page the list parser chokes on, a locked
\* database, a file that cannot be written; and at the prompt a line such as
\* "save" followed by a superscript digit, which isdigit() accepts and int()
\* does not.
FailResumes ==
  /\ Running \/ pc = "prompt"
  /\ pc' = "prompt" /\ run' = Idle
  /\ UNCHANGED <<filterMap, site, last, store, report, status>>
Fail ==
  /\ Running \/ pc = "prompt"
  /\ pc' = "closing" /\ run' = Idle
  /\ UNCHANGED <<filterMap, site, last, store, report, status>>

Quit ==
  /\ pc = "prompt" /\ Goto("closing")
  /\ UNCHANGED <<filterMap, site, run, last, store, report, status>>

Close ==
  /\ pc = "closing" /\ Goto("ended")
  /\ UNCHANGED <<filterMap, site, run, last, store, report, status>>

\* A new process on the same database.
Restart ==
  /\ pc = "ended"
  /\ pc' = "load" /\ run' = Idle /\ last' = Fresh /\ status' = "none" /\ report' = NoReport
  /\ UNCHANGED <<filterMap, site, store>>

-----------------------------------------------------------------------------
(* The commands.                                                            *)

Begin(query) ==
  /\ pc = "prompt" /\ Len(store.searches) < MaxSearches
  /\ IF query = 0 THEN Ended("aborted")
     ELSE /\ Goto("parse")
          /\ run' = [Idle EXCEPT !.verb = "search", !.query = query]
          /\ UNCHANGED status
  /\ UNCHANGED <<filterMap, site, last, store, report>>

\* An empty line is a search for nothing.
Search == \E query \in 0..1 : Begin(query)
Refine == last.query < MaxClauses /\ Begin(last.query + 1)

\* _listing_at_rank; a rank outside the last recommendations does nothing.
\* A listing has one feedback row, the last word counts, and the session
\* reads only who is rejected: to save is to un-reject.
Save(rank) ==
  /\ pc = "prompt" /\ rank \in Ranks(last.recs)
  /\ store' = [store EXCEPT !.rejected = @ \ {last.recs[rank]}]
  /\ UNCHANGED <<filterMap, site, pc, run, last, report, status>>

Reject(rank) ==
  /\ pc = "prompt" /\ rank \in Ranks(last.recs)
  /\ store' = [store EXCEPT !.rejected = @ \cup {last.recs[rank]}]
  /\ UNCHANGED <<filterMap, site, pc, run, last, report, status>>

MoreLike(rank) ==
  /\ pc = "prompt" /\ rank \in Ranks(last.recs) /\ last.plan # NoPlan
  /\ Goto("shortlist")
  /\ run' = [Idle EXCEPT !.verb = "more_like", !.plan = last.plan, !.found = last.harvest]
  /\ UNCHANGED <<filterMap, site, last, store, report, status>>

-----------------------------------------------------------------------------
(* search: the plan.                                                        *)

\* The flow is detected by a call of its own; the clarifying question ends
\* the search.
Parse ==
  /\ pc = "parse"
  /\ \E flow \in Flows, answer \in Answers :
       IF answer.ambiguous THEN Ended("aborted")
       ELSE /\ run' = [run EXCEPT !.answer = answer,
                                  !.plan = ResolvePlan(answer, filterMap, flow)]
            /\ Goto("confirm") /\ UNCHANGED status
  /\ UNCHANGED <<filterMap, site, last, store, report>>

Confirm ==
  /\ pc = "confirm"
  /\ \/ Ended("aborted")
     \/ Goto("encode") /\ UNCHANGED <<run, status>>
  /\ UNCHANGED <<filterMap, site, last, store, report>>

Encode ==
  /\ pc = "encode"
  /\ LET encoded == EncodePlan(run.plan, filterMap)
     IN /\ Goto(IF encoded.ok THEN "page" ELSE "refused")
        /\ run' = [run EXCEPT !.params = encoded.pairs]
  /\ UNCHANGED <<filterMap, site, last, store, report, status>>

Refused ==
  /\ pc = "refused" /\ Ended("aborted")
  /\ UNCHANGED <<filterMap, site, last, store, report>>

-----------------------------------------------------------------------------
(* Harvester.harvest, one iteration per page.                               *)

MaxPages == IF Budgets.max_pages > 1 THEN Budgets.max_pages ELSE 1

\* What the request of this page returns: nothing after the last page.
Served(url) ==
  LET pages == site[IF url.path = "chintai" THEN "rent" ELSE "buy"]
  IN IF url.page \in DOMAIN pages THEN pages[url.page] ELSE {}

Harvested(found, partial) ==
  /\ Goto("persist")
  /\ run' = [run EXCEPT !.found = found, !.partial = partial]
  /\ last' = [last EXCEPT !.harvest = found]

\* The runtime budget is spent before the page, or the fetch raises, or what
\* it returned is a challenge: the pages so far are all there is.
CutShortQuietly == pc = "page" /\ Harvested(run.found, FALSE)
CutShortRestarts ==
  pc = "page" /\ run' = [run EXCEPT !.page = 1] /\ UNCHANGED <<pc, last>>
CutShort == pc = "page" /\ Harvested(run.found, TRUE)

FetchPageOver ==
  /\ pc = "page"
  /\ LET shown == Served(ListUrl(run.plan, run.params, run.page))
         found == run.found \cup shown
     IN IF shown = {} THEN Harvested(found, FALSE)
        ELSE IF run.page > MaxPages THEN Harvested(found, TRUE)
        ELSE /\ run' = [run EXCEPT !.found = found, !.page = @ + 1]
             /\ UNCHANGED <<pc, last>>
FetchPage ==
  /\ pc = "page"
  /\ LET shown == Served(ListUrl(run.plan, run.params, run.page))
         found == run.found \cup shown
     IN IF shown = {} THEN Harvested(found, FALSE)
        ELSE IF run.page >= MaxPages THEN Harvested(found, TRUE)
        ELSE /\ run' = [run EXCEPT !.found = found, !.page = @ + 1]
             /\ UNCHANGED <<pc, last>>

NextPage ==
  /\ CutShort \/ FetchPage
  /\ UNCHANGED <<filterMap, site, store, report, status>>

-----------------------------------------------------------------------------
(* search: what is kept and recommended.                                    *)

\* Each listing is a transaction of its own.
PersistNothing ==
  /\ pc = "persist" /\ Goto("record_search")
  /\ UNCHANGED <<filterMap, site, run, last, store, report, status>>
Persist ==
  /\ pc = "persist"
  /\ IF run.found \subseteq store.seen THEN Goto("record_search") /\ UNCHANGED store
     ELSE /\ \E l \in run.found \ store.seen : store' = [store EXCEPT !.seen = @ \cup {l}]
          /\ UNCHANGED pc
  /\ UNCHANGED <<filterMap, site, run, last, report, status>>

RecordSearch ==
  /\ pc = "record_search" /\ Goto("shortlist")
  /\ store' = [store EXCEPT !.searches = Append(@, [query |-> run.query, flow |-> run.plan.flow])]
  /\ run' = [run EXCEPT !.search = Len(store.searches) + 1]
  /\ UNCHANGED <<filterMap, site, last, report, status>>

CandidatesAll == run.found
Candidates == run.found \ store.rejected

\* Only search remembers its shortlist.
Shortlist ==
  /\ pc = "shortlist" /\ Goto("detail")
  /\ \E short \in SUBSET Candidates :
       /\ Cardinality(short) <= Budgets.shortlist_size
       /\ run' = [run EXCEPT !.short = short]
       /\ last' = IF run.verb = "search" THEN [last EXCEPT !.short = short] ELSE last
  /\ UNCHANGED <<filterMap, site, store, report, status>>

\* Every target has a detail or a fallback; the pages also show cards, whose
\* listings are stored.
Details ==
  /\ pc = "detail" /\ Goto("recommend")
  /\ \E cards \in IF run.short = {} THEN {{}} ELSE Cards :
       store' = [store EXCEPT !.seen = @ \cup cards]
  /\ UNCHANGED <<filterMap, site, run, last, report, status>>

Rankings(S, n) == UNION {{r \in [1..k -> S] : IsInjective(r)} : k \in 0..n}

RecommendReportsFirst ==
  /\ pc = "recommend" /\ Goto("report")
  /\ \E recs \in Rankings(run.short, Budgets.recommendations_count) :
       /\ run' = [run EXCEPT !.recs = recs]
       /\ last' = [last EXCEPT !.recs = recs]
  /\ UNCHANGED <<filterMap, site, store, report, status>>
Recommend ==
  /\ pc = "recommend"
  /\ \E recs \in Rankings(run.short, Budgets.recommendations_count) :
       /\ run' = [run EXCEPT !.recs = recs]
       /\ last' = [last EXCEPT !.recs = recs]
  /\ Goto(IF run.verb = "search" THEN "remember" ELSE "report")
  /\ UNCHANGED <<filterMap, site, store, report, status>>

Remember ==
  /\ pc = "remember" /\ Goto("report")
  /\ last' = [last EXCEPT !.query = run.query, !.plan = run.plan]
  /\ UNCHANGED <<filterMap, site, run, store, report, status>>

\* render_markdown formats the deposit and the key money as numbers.
Renders(recs) == \A i \in Ranks(recs) : recs[i] \notin NoFigure

\* The report says which plan was executed: last_plan.
WriteReport ==
  /\ pc = "report"
  /\ IF Renders(run.recs)
       THEN /\ report' = [recs |-> run.recs, plan |-> last.plan] /\ UNCHANGED status
            /\ IF run.verb = "search" THEN Goto("record") /\ UNCHANGED run
               ELSE Goto("prompt") /\ run' = Idle
       ELSE pc' = "closing" /\ run' = Idle /\ status' = "raised" /\ UNCHANGED report
  /\ UNCHANGED <<filterMap, site, last, store>>

RecordRecommendations ==
  /\ pc = "record"
  /\ store' = [store EXCEPT !.ranked =
                 @ \cup {[search |-> run.search, rank |-> i, listing |-> run.recs[i]] :
                           i \in Ranks(run.recs)}]
  /\ Ended(IF run.partial THEN "partial" ELSE "ok")
  /\ UNCHANGED <<filterMap, site, last, report>>

Stage ==
  \/ Parse \/ Confirm \/ Encode \/ Refused \/ NextPage \/ Persist \/ RecordSearch
  \/ Shortlist \/ Details \/ Recommend \/ Remember \/ WriteReport \/ RecordRecommendations

Command ==
  \/ Search \/ Refine \/ Quit
  \/ \E rank \in 1..Budgets.recommendations_count : Save(rank) \/ Reject(rank) \/ MoreLike(rank)

Next == Load \/ Command \/ Stage \/ Fail \/ Close \/ Restart

\* The user need not type, nothing need fail; every stage and the closing
\* are sequential code with bounded waits.
Fairness == WF_vars(Stage) /\ WF_vars(Load) /\ WF_vars(Close)
Spec == Init /\ [][Next]_vars /\ Fairness

-----------------------------------------------------------------------------
(* Properties.                                                              *)

\* Shape of the session, the store and the running command.
TypeOK ==
  /\ filterMap \in Maps /\ site \in Sites
  /\ pc \in Stages \cup {"load", "prompt", "closing", "ended"}
  /\ run.verb \in {"none", "search", "more_like"}
  /\ run.page \in 1..MaxPages /\ run.partial \in BOOLEAN
  /\ \A s \in {run.found, run.short, last.harvest, last.short, store.seen,
               store.rejected} : s \subseteq Listings
  /\ \A s \in {run.recs, last.recs, report.recs} : s \in Seq(Listings)
  /\ last.query \in 0..MaxClauses
  /\ store.searches \in Seq([query : 1..MaxClauses, flow : Flows])
  /\ store.ranked \subseteq [search : Nat, rank : Nat, listing : Listings]
  /\ status \in {"none", "aborted", "partial", "ok", "raised"}

\* What was asked for is requested or kept as a preference, never both and never
\* neither: a label of the answer is behind a pair of the request, under a key
\* of its own field, unless it is a soft preference; and a pair of the request
\* stands, as a value of some field of the answer, for nothing that was not asked
\* of that field.  The parser, the flow's map, its validation and the encoder
\* all have to agree for it.
Keys(flow, name) ==
  IF CONDITIONS[flow][name].cardinality = "range" THEN {PricePair[1], PricePair[2]}
  ELSE {CONDITIONS[flow][name].base}
Meaning(fields, flow, name, pair) ==
  IF name \in DOMAIN fields /\ pair[1] \in Keys(flow, name)
    THEN {option.label : option \in {o \in Range(fields[name]) : o.code = pair[2]}}
    ELSE {}
Matching(fields, plan, hard, pairs) ==
  /\ \A name \in DOMAIN hard : \A l \in LabelsOf(hard[name]) :
       <<name, l>> \notin plan.soft
         <=> \E pair \in pairs : l \in Meaning(fields, plan.flow, name, pair)
  /\ \A pair \in pairs : \E name \in DOMAIN hard :
       /\ Meaning(fields, plan.flow, name, pair) # {}
       /\ Meaning(fields, plan.flow, name, pair) \subseteq LabelsOf(hard[name])
RequestMatchesQuery ==
  pc = "page" =>
    Matching(filterMap.mappings[run.plan.flow], run.plan, run.answer.hard, run.params)

\* A parsed plan is refused only for two labels of a select or for a toggle,
\* never for a field or a code that the map does not know: what the map
\* cannot express has become a preference.
RefusedOnlyForShape ==
  pc = "refused" =>
    \E name \in DOMAIN run.plan.hard :
      /\ name \in DOMAIN CONDITIONS[run.plan.flow]
      /\ CONDITIONS[run.plan.flow][name].cardinality # "multi"
      /\ \/ Len(run.plan.hard[name]) > 1
         \/ CONDITIONS[run.plan.flow][name].cardinality \in {"bool", "range"}

\* "ok" hides nothing: the listings of a search that reports no partial
\* result are those of every page up to the first that showed none.
PagesShown(flow) ==
  LET pages == site[flow]
      Up(n) == \A i \in 1..n : pages[i] # {}
  IN UNION {pages[n] : n \in {n \in DOMAIN pages : Up(n)}}
OkMeansEverything ==
  (pc = "record" /\ ~run.partial) => run.found = PagesShown(run.plan.flow)

\* A listing the user has rejected is not recommended again, by a later
\* search, by "more like", or after a restart.
RejectedStayOut ==
  [][last'.recs # last.recs =>
       \A i \in Ranks(last'.recs) : last'.recs[i] \notin store.rejected]_vars

\* Whenever the user can type, the recommendations, the shortlist and the
\* pool are those of one and the same search and the ranks the user reads in
\* the last report are the ones a command looks up.
SessionCoherent ==
  pc = "prompt" =>
    /\ report.recs = last.recs
    /\ last.short \subseteq last.harvest
    /\ \A i \in Ranks(last.recs) :
         /\ last.recs[i] \in last.harvest
         /\ last.recs[i] \in PagesShown(last.plan.flow)

\* The plan a report names is the plan its listings were found with.
ReportNamesItsPlan ==
  \A i \in Ranks(report.recs) :
    report.plan.flow \in Flows /\ report.recs[i] \in PagesShown(report.plan.flow)

\* What the database says of the past holds at any time, also of a search
\* that was cut off: recommendations belong to a recorded search of their
\* flow, their listings are stored, and their ranks are 1..n.
HistoryIsSound ==
  \A r \in store.ranked :
    /\ r.search \in DOMAIN store.searches
    /\ r.listing \in store.seen
    /\ r.listing \in PagesShown(store.searches[r.search].flow)
    /\ \A k \in 1..r.rank : \E q \in store.ranked : q.search = r.search /\ q.rank = k

\* A search that was started comes back to the prompt or the program ends.
CommandReturns == Running ~> pc \in {"prompt", "ended"}

\* What the site delivers does not end the program by an exception.
SiteNeverRaises == status # "raised"
===============================================================================
