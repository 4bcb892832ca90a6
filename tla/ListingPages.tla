----------------------------- MODULE ListingPages ------------------------------
(***************************************************************************)
(* The facts about a listing, from the pages they are read from to the     *)
(* row they are kept in and the details the recommender is shown: searches *)
(* that harvest list pages, live detail pages that may be blocked, broken, *)
(* about another listing or half empty, recommendation cards, and details  *)
(* that go stale.                                                          *)
(*                                                                         *)
(* One session, one call after another (DetailHydration interleaves the    *)
(* same calls with workers); here the data of a row is what matters.       *)
(***************************************************************************)
EXTENDS PageParsing

CONSTANTS ListPages, DetailPages  \* what the site may answer

\* A heading is over units of its own building; a detail page shows one listing,
\* but the state embedded in it may be of another, with that one's facts.
OwnHouse(k) == {House[k], Absent}
UnitCells == [key : Keys \union {Absent}, rent : STRING, term : Terms, facility : STRING]
Blocks ==
  {b \in [house : Houses, titled : BOOLEAN, station : BOOLEAN, age : STRING,
          units : Seq(UnitCells)] :
     \A i \in DOMAIN b.units : b.units[i].key # Absent => House[b.units[i].key] = b.house}
CellsOf(k) ==
  [title : OwnHouse(k), station : OwnHouse(k), age : STRING, rent : STRING, term : Terms]
CardCells == [key : Keys, station : BOOLEAN, flagged : BOOLEAN, term : Terms]
StateOf(state, k) ==
  /\ {state.title, state.station} \subseteq OwnHouse(k)
  /\ state.age \in STRING /\ state.term \in Terms
DetailPage(page) ==
  /\ page.raises \in BOOLEAN /\ page.key \in Keys
  /\ page.house = House[page.key] /\ page.heading \in OwnHouse(page.key)
  /\ page.legacy \in CellsOf(page.key) /\ page.current \in CellsOf(page.key)
  /\ {page.state.readable, page.state.named, page.state.priced, page.state.located} \subseteq BOOLEAN
  /\ page.state.id \in Keys => StateOf(page.state, page.state.id)
  /\ page.state.agency \in Houses \union {Absent}
  /\ page.state.cards \subseteq CardCells /\ IsFiniteSet(page.state.cards)

ASSUME PagesAssumption ==
  /\ ListPages \subseteq [legacy : Seq(Blocks), current : Seq(Blocks)]
  /\ \A page \in DetailPages : DetailPage(page)

VARIABLES
  row,        \* the listings table
  candidates, \* the summaries of the current search
  details     \* what _scrape_details has returned of them

vars == <<row, candidates, details>>

Nothing == [id |-> Absent]
Levels == {"partial", "complete", "detail"}
Rank(level) == CASE level = "partial" -> 0 [] level = "complete" -> 1 [] OTHER -> 2

Init ==
  /\ row = [k \in Keys |-> Nothing]
  /\ candidates = [k \in Keys |-> Nothing]
  /\ details = [k \in Keys |-> Nothing]

-----------------------------------------------------------------------------
(* _merge_listing, field by field.                                          *)

Texts == {"title", "station", "age", "display", "agency"}
Lists == {"tags", "negatives"}
Empty(f, value) == IF f \in Lists THEN value = {} ELSE value = Absent

\* Mutant: the incoming value, meaningful or not.
MergeIncoming(f, existing, incoming) == incoming
MergeOptional(f, existing, incoming) == IF Empty(f, incoming) THEN existing ELSE incoming

Merge(existing, incoming) ==
  IF existing.level = "detail" /\ incoming.level # "detail" THEN existing
  ELSE [f \in DOMAIN existing |->
          CASE f = "level" -> IF Rank(incoming.level) > Rank(existing.level)
                                THEN incoming.level ELSE existing.level
            [] f = "fresh" -> incoming.fresh \/ existing.fresh
            [] f = "price" -> IF existing.level = "detail" THEN existing.price ELSE incoming.price
            [] f \in Texts \union Lists -> MergeOptional(f, existing[f], incoming[f])
            [] OTHER -> existing[f]]

Stored(rows, listing) ==
  [rows EXCEPT ![listing.id] = IF @ = Nothing THEN listing ELSE Merge(@, listing)]

-----------------------------------------------------------------------------
(* A search.                                                                *)

\* A later unit of the same key replaces an earlier one.
ByKey(summaries) ==
  [k \in Keys |-> LET mine == {i \in DOMAIN summaries : summaries[i].id = k}
                  IN IF mine = {} THEN Nothing ELSE summaries[Max(mine)]]

Search ==
  \E page \in ListPages :
    LET found == ByKey(ParseListPage(page)) IN
      /\ row' = [k \in Keys |-> IF found[k] = Nothing THEN row[k]
                                ELSE Stored(row, found[k])[k]]
      /\ candidates' = found
      /\ details' = [k \in Keys |-> Nothing]

-----------------------------------------------------------------------------
(* _scrape_details, for one candidate.                                      *)

\* _hydrate_detail: display, age_raw and construction_date are not among its
\* fields; price and area always have a value.
Hydrated == {"title", "station", "age", "tags", "negatives", "agency"}

Hydrate(summary, detail) ==
  [f \in DOMAIN summary |->
     CASE f \in Hydrated -> MergeOptional(f, summary[f], detail[f])
       [] f \in {"price", "level"} -> detail[f]
       [] f = "fresh" -> detail.fresh \/ summary.fresh
       [] OTHER -> summary[f]]

Cached(k) == row[k] # Nothing /\ row[k].level = "detail" /\ row[k].fresh

Returned(listing, ok) ==
  [f \in DOMAIN listing \union {"flag"} |-> IF f = "flag" THEN ok ELSE listing[f]]

FromCache(k) ==
  /\ candidates[k] # Nothing /\ details[k] = Nothing /\ Cached(k)
  /\ details' = [details EXCEPT ![k] = Returned(Hydrate(candidates[k], row[k]), TRUE)]
  /\ UNCHANGED <<row, candidates>>

\* Mutant: a page of whatever listing is taken for the one asked for.
AnyIdentity(k, parsed) == parsed.title # Absent
Identified(k, parsed) == parsed.id = candidates[k].id /\ parsed.title # Absent

Observed(k, page) ==
  [Hydrate(candidates[k], ParseDetailPage(page)) EXCEPT
     !.level = "detail", !.fresh = TRUE, !.agency = ParseAgency(page)]

Waiting(k) == candidates[k] # Nothing /\ details[k] = Nothing /\ ~Cached(k)
Usable(k, page) == ~page.raises /\ Identified(k, ParseDetailPage(page))

AfterPage(k, page, cards) ==
  FoldSet(LAMBDA card, rows : Stored(rows, NormalizeCard(card)),
          Stored(row, Observed(k, page)), cards)

FromPage(k) ==
  /\ Waiting(k)
  /\ \E page \in DetailPages :
       /\ Usable(k, page)
       /\ row' = AfterPage(k, page, ParseCards(page, k))
       /\ details' = [details EXCEPT ![k] = Returned(Observed(k, page), TRUE)]
  /\ UNCHANGED candidates

\* Mutant: the summary goes on at the level the page was to give it.
AsDetail(k) == Returned([candidates[k] EXCEPT !.level = "detail"], FALSE)
\* The summary, marked as partial, with the reason.
Fallback(k) == Returned([candidates[k] EXCEPT !.level = "partial"], FALSE)

\* A challenge, an error while fetching or parsing, another listing's page.
GiveUp(k) ==
  /\ Waiting(k)
  /\ \E page \in DetailPages : ~Usable(k, page)
  /\ details' = [details EXCEPT ![k] = Fallback(k)]
  /\ UNCHANGED <<row, candidates>>

\* The store or a card raises after the detail, and some of the cards, were stored.
GiveUpLate(k) ==
  /\ Waiting(k)
  /\ \E page \in DetailPages : \E cards \in SUBSET ParseCards(page, k) :
       Usable(k, page) /\ row' = AfterPage(k, page, cards)
  /\ details' = [details EXCEPT ![k] = Fallback(k)]
  /\ UNCHANGED candidates

\* detail_fresh_until passes.
Expire(k) ==
  /\ row[k] # Nothing /\ row[k].fresh
  /\ row' = [row EXCEPT ![k].fresh = FALSE]
  /\ UNCHANGED <<candidates, details>>

Next == Search \/ \E k \in Keys : FromCache(k) \/ FromPage(k)
                                \/ GiveUp(k) \/ GiveUpLate(k) \/ Expire(k)

Spec == Init /\ [][Next]_vars

-----------------------------------------------------------------------------
Prices == [of : Keys, rent : {0, 1}, yen : {0, 1, NoAmount}, raw : Terms]
Listings ==
  [id : Keys, level : Levels, fresh : BOOLEAN, title : Houses \union {Absent}, station : Houses \union {Absent},
   age : Houses \union {Absent}, display : Houses \union {Absent}, price : Prices,
   tags : SUBSET {"facility"}, negatives : SUBSET {"facility"}, agency : Houses \union {Absent}]

\* An upfront term has an amount of its own exactly when its text names one.
Readable(price) == price.yen = 1 <=> price.raw \in {"man", "yen"}
\* And it is 0 yen only when the page says that there is none to pay: a term of
\* months, and one the page does not show, has no amount.
Exact(price) == price.yen = 0 => price.raw = "none"

\* Every listing kept or shown is whole, with prices that can be read back, and
\* exact ones in a detail.  Below that level they need not be exact: of a list
\* page of the old layout, months and a missing term become 0 yen.
TypeOK ==
  \A k \in Keys :
    /\ row[k] # Nothing =>
         /\ row[k] \in Listings /\ Readable(row[k].price)
         /\ row[k].level = "detail" => Exact(row[k].price)
    /\ candidates[k] # Nothing => candidates[k] \in Listings /\ Readable(candidates[k].price)
    /\ details[k] # Nothing =>
         /\ Readable(details[k].price)
         /\ details[k].flag => details[k].title # Absent /\ Exact(details[k].price)

\* Whatever pages the site answers with, the title, station, age and price that
\* are kept or shown of a listing are its own.
OwnFacts(k, l) ==
  /\ l.id = k /\ l.price.of = k
  /\ {l.title, l.station, l.age, l.display} \subseteq {House[k], Absent}
OwnFactsOnly ==
  \A k \in Keys : \A l \in {row[k], candidates[k], details[k]} : l = Nothing \/ OwnFacts(k, l)

\* A listing is shown as hydrated exactly when it is at detail level, and then
\* the store has its detail; otherwise it is shown with the facts of the list
\* page, unchanged.
FlagTellsDetail ==
  \A k \in Keys : details[k] # Nothing =>
    /\ details[k].flag <=> details[k].level = "detail"
    /\ details[k].flag => row[k].level = "detail"
    /\ ~details[k].flag => \A f \in DOMAIN candidates[k] \ {"level"} :
                             details[k][f] = candidates[k][f]

\* Updates of a row neither lower its level nor lose a fact it had, and a detail
\* is left as it is by list pages, cards and failures of any age: only the passing
\* of detail_fresh_until, or then a newer detail, changes it.
StoredOnlyGrows ==
  [][\A k \in Keys : row[k] # Nothing =>
       /\ Rank(row'[k].level) >= Rank(row[k].level)
       /\ \A f \in Texts \union Lists :
            ~Empty(f, row[k][f]) => ~Empty(f, row'[k][f])
       /\ row[k].level = "detail" /\ row'[k] # row[k] => row'[k].fresh # row[k].fresh]_row
===============================================================================
