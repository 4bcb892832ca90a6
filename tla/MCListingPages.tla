---------------------------- MODULE MCListingPages -----------------------------
(* Bounds for ListingPages: two listings in two houses, list pages of both  *)
(* layouts, and detail pages that are complete, sparse, broken, about the   *)
(* other listing, or carry the state of another one.                        *)
EXTENDS ListingPages

MCKeys == {"k1", "k2"}
MCHouse == [k1 |-> "h1", k2 |-> "h2"]

Unit(key, term, facility) == [key |-> key, rent |-> "man", term |-> term, facility |-> facility]
Block(house, full, units) ==
  [house |-> house, titled |-> TRUE, station |-> full, age |-> IF full THEN "date" ELSE "", units |-> units]

MCListPages ==
  {[legacy |-> <<Block("h1", TRUE, <<Unit("k1", "months", "on"), Unit("", "none", "on")>>),
                 Block("h2", FALSE, <<Unit("k2", "none", "off")>>)>>, current |-> <<>>],
   [legacy |-> <<>>, current |-> <<Block("h1", FALSE, <<Unit("k1", "man", "on")>>)>>],
   [legacy |-> <<>>, current |-> <<>>]}

Fields(title, station, age, rent, term) ==
  [title |-> title, station |-> station, age |-> age, rent |-> rent, term |-> term]
NoFields == Fields("", "", "", "", "")
State(id, station, age, term, pickup, agency, cards) ==
  [readable |-> id # "", named |-> TRUE, priced |-> TRUE, located |-> station # "", id |-> id,
   title |-> House[IF id = "" THEN "k1" ELSE id], station |-> station, age |-> age,
   term |-> term, pickup |-> pickup, agency |-> agency, cards |-> cards]
NoState == State("", "", "", "", "unknown", "", {})
Page(k, legacy, current, state) ==
  [raises |-> FALSE, key |-> k, house |-> House[k], heading |-> House[k],
   legacy |-> legacy, current |-> current, facility |-> "on", state |-> state]
Card(k) == [key |-> k, station |-> TRUE, flagged |-> TRUE, term |-> "months"]

Other(k) == IF k = "k1" THEN "k2" ELSE "k1"
MCDetailPages ==
  UNION {{Page(k, NoFields, NoFields, NoState),
          Page(k, Fields(House[k], House[k], "years", "man", "months"), NoFields, NoState),
          Page(k, NoFields, Fields("", House[k], "date", "man", "yen"), NoState),
          Page(k, NoFields, NoFields,
               State(k, House[k], "date", "none", "off", House[k], {Card(Other(k))})),
          Page(k, NoFields, Fields("", House[k], "date", "man", "yen"),
               [State(k, "", "", "months", "on", "", {}) EXCEPT !.located = TRUE]),
          Page(k, NoFields, NoFields,
               State(Other(k), House[Other(k)], "date", "man", "on", House[Other(k)], {Card(k)})),
          [Page(k, NoFields, NoFields, NoState) EXCEPT !.heading = ""],
          [Page(k, NoFields, NoFields, NoState) EXCEPT !.raises = TRUE]} : k \in Keys}

-----------------------------------------------------------------------------
SmallUnits == {Unit(k, t, f) : k \in Keys \union {""}, t \in Terms, f \in {"on", "off"}}
UnitSeqs == UNION {[1..n -> SmallUnits] : n \in 0..2}
KeysOf(units) ==
  SelectSeq([i \in DOMAIN units |-> units[i].key], LAMBDA key : key # "")
IdsOf(summaries) == [i \in DOMAIN summaries |-> summaries[i].id]

\* Every unit with a key is listed, once, in the order of the page, in both
\* layouts, and its price can be read back as displayed; exactly so only of the
\* layout of today, as the parser of the old one has no missing amount.
ASSUME ListingIsComplete ==
  \A units \in UnitSeqs, extra \in SmallUnits :
    LET blocks == <<Block("h1", TRUE, units), Block("h1", FALSE, <<>>), Block("h1", TRUE, <<extra>>)>>
        legacy == ParseListPage([legacy |-> blocks, current |-> <<>>])
        current == ParseListPage([legacy |-> <<>>, current |-> blocks])
    IN /\ IdsOf(legacy) = KeysOf(units) \o KeysOf(<<extra>>)
       /\ IdsOf(current) = IdsOf(legacy)
       /\ \A i \in DOMAIN legacy : /\ Readable(legacy[i].price)
                                    /\ Readable(current[i].price) /\ Exact(current[i].price)

Cells == {"", "none", "man", "months"}
\* Whatever mix of tables and state a page of k1 has, the price read from it is
\* exact, and a term of months keeps its text.
ASSUME PricesAreReadable ==
  \A a, b, c \in Cells, rent \in {"", "man"}, id \in Keys :
    LET page == Page("k1", Fields("", "", "", rent, a), Fields("", "", "", "man", b),
                     State(id, "", "", c, "on", "", {}))
        price == ParseDetailPage(page).price
    IN /\ Readable(price) /\ Exact(price) /\ price.of = "k1"
       /\ id = "k1" => price.raw = c
       /\ id = "k2" /\ rent = "man" => price.raw = a
===============================================================================
