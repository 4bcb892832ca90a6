----------------------------- MODULE PageParsing -------------------------------
(***************************************************************************)
(* What list_parser, detail_parser, server_app_state and                   *)
(* recommendation_cards read from a page: no state, only functions from    *)
(* what the page shows to the listing it becomes.                          *)
(*                                                                         *)
(* A value is the name of the thing it was read about: a price is about a  *)
(* listing, a title, station or age about a house, and "" is an absent     *)
(* value.  One upfront term stands for deposit and key money, rent for     *)
(* rent and management fee, station for every optional text.  What a cell  *)
(* displays is a kind of text; the amounts are 1, 0 and NoAmount.          *)
(***************************************************************************)
EXTENDS Naturals, Sequences, FiniteSets, SequencesExt

CONSTANTS
  Keys,   \* AtHome listing numbers
  House   \* House[k]: the building of k

Absent == ""
ASSUME HouseAssumption == House \in [Keys -> STRING] /\ Keys \subseteq STRING \ {Absent}

NoAmount == 9
Houses == {House[k] : k \in Keys}
Terms == {"", "none", "man", "yen", "months"}

-----------------------------------------------------------------------------
(* Cells.                                                                   *)

Amount(rent) == IF rent = "man" THEN 1 ELSE 0

\* list_parser._parse_optional_yen, with the text beside it.
ListTerm(cell) ==
  [yen |-> IF cell \in {"man", "yen"} THEN 1 ELSE 0, raw |-> cell]

\* _parse_optional_current_term, and detail_parser._parse_optional_yen.
OptionalTerm(cell) ==
  [yen |-> CASE cell \in {"man", "yen"} -> 1
             [] cell = "none" -> 0
             [] OTHER -> NoAmount,
   raw |-> cell]

\* Mutant: the first number of the text is the amount.
CardTermDigits(cell) ==
  [yen |-> IF cell \in {"man", "yen", "months"} THEN 1 ELSE NoAmount, raw |-> cell]
\* recommendation_cards._optional_yen: no amount for a displayed "none".
CardTerm(cell) ==
  [yen |-> IF cell \in {"man", "yen"} THEN 1 ELSE NoAmount, raw |-> cell]

Price(k, rent, term) == [of |-> k, rent |-> Amount(rent), yen |-> term.yen, raw |-> term.raw]

\* detail_parser._age_metadata: a construction date gives years and a text to
\* display, a number of years only years.
AgeOf(house, cell) ==
  [age |-> IF cell \in {"date", "years"} THEN house ELSE Absent,
   display |-> IF cell = "date" THEN house ELSE Absent]

\* Facility items: an enabled one is a tag, a disabled one a probable negative.
Tags(facility) == IF facility = "on" THEN {"facility"} ELSE {}
Negatives(facility) == IF facility = "off" THEN {"facility"} ELSE {}

Shown(present, value) == IF present THEN value ELSE Absent

-----------------------------------------------------------------------------
(* List pages: [legacy, current], each a sequence of blocks, a heading over *)
(* its units.                                                               *)

\* Here only a construction date gives an age.
Built(block) == Shown(block.age = "date", block.house)

Summary(block, unit, term, facility) ==
  [id |-> unit.key, level |-> "partial", fresh |-> FALSE,
   title |-> Shown(block.titled, block.house), station |-> Shown(block.station, block.house),
   age |-> Built(block), display |-> Built(block),
   price |-> Price(unit.key, unit.rent, term),
   tags |-> Tags(facility), negatives |-> Negatives(facility), agency |-> Absent]

\* A unit without data-bukken-no, or a room without a link to /chintai/, is
\* left out; anything else it lacks is not.
Listed(unit, listing) == IF unit.key = Absent THEN <<>> ELSE <<listing>>

ParseUnit(block, unit) == Summary(block, unit, ListTerm(unit.term), unit.facility)
ParseCurrentRoom(block, unit) == Summary(block, unit, OptionalTerm(unit.term), "unknown")

Units(block) ==
  FlattenSeq([i \in DOMAIN block.units |->
                Listed(block.units[i], ParseUnit(block, block.units[i]))])
CurrentRooms(block) ==
  FlattenSeq([i \in DOMAIN block.units |->
                Listed(block.units[i], ParseCurrentRoom(block, block.units[i]))])

\* The markup of before, if the page has any of it, or that of today.
ParseListPage(page) ==
  IF page.legacy # <<>>
    THEN FlattenSeq([b \in DOMAIN page.legacy |-> Units(page.legacy[b])])
    ELSE FlattenSeq([b \in DOMAIN page.current |-> CurrentRooms(page.current[b])])

-----------------------------------------------------------------------------
(* Detail pages: the key in brackets in the title, the tables of before     *)
(* and of today, and the state embedded for the site's own scripts.         *)

\* extract_server_app_detail.
UsableState(page) ==
  /\ page.state.readable /\ page.state.id = page.key
  /\ page.state.named /\ page.state.priced

\* fields: the state over the tables of today over the tables of before, each
\* only where it has something to say.
Field(page, name) ==
  IF UsableState(page) /\ page.state[name] # Absent THEN page.state[name]
  ELSE IF page.current[name] # Absent THEN page.current[name] ELSE page.legacy[name]

\* A state with a line and a station has the last word, even with an empty one.
StationField(page) ==
  IF UsableState(page) /\ page.state.located THEN page.state.station ELSE Field(page, "station")

\* _extract_price reads the price block of today only when the one of before
\* shows no rent, and then field by field.
DomPrice(page) ==
  LET read == IF Amount(page.legacy.rent) = 0 /\ page.current.term # Absent
                THEN page.current.term ELSE page.legacy.term
      rent == IF Amount(page.legacy.rent) = 0 THEN page.current.rent ELSE page.legacy.rent
  IN Price(page.key, rent, OptionalTerm(read))

DetailPrice(page) ==
  IF UsableState(page) THEN Price(page.state.id, "man", OptionalTerm(page.state.term))
  ELSE DomPrice(page)

Pickup(page) == IF UsableState(page) THEN page.state.pickup ELSE "unknown"

ParseDetailPage(page) ==
  LET title == Field(page, "title")
      age == AgeOf(page.house, Field(page, "age"))
  IN [id |-> page.key, level |-> "detail", fresh |-> FALSE,
      title |-> IF title = Absent THEN page.heading ELSE title,
      station |-> StationField(page), age |-> age.age, display |-> age.display,
      price |-> DetailPrice(page),
      tags |-> Tags(page.facility) \union Tags(Pickup(page)),
      negatives |-> Negatives(page.facility) \union Negatives(Pickup(page)),
      agency |-> IF UsableState(page) THEN page.state.agency ELSE Absent]

\* extract_server_app_agency, which does not ask whose state it is.
ParseAgency(page) == IF page.state.readable THEN page.state.agency ELSE Absent

\* extract_server_app_recommendation_cards.
ParseCards(page, expected) ==
  IF UsableState([page EXCEPT !.key = expected]) THEN page.state.cards ELSE {}

\* normalize_recommendation_card, whose tags are the marks of the card.
NormalizeCard(card) ==
  [id |-> card.key, level |-> "complete", fresh |-> FALSE,
   title |-> House[card.key], station |-> Shown(card.station, House[card.key]),
   age |-> Absent, display |-> Absent,
   price |-> Price(card.key, "man", CardTerm(card.term)),
   tags |-> IF card.flagged THEN {"facility"} ELSE {}, negatives |-> {}, agency |-> Absent]
===============================================================================
