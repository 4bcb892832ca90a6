------------------------- MODULE ListingPages_proofs --------------------------
(***************************************************************************)
(* Theorems of ListingPages, for any listings, houses and pages: whatever  *)
(* the site answers, facts stay with their listing, rows only grow, and    *)
(* the flag of a detail tells what was read.                               *)
(***************************************************************************)
EXTENDS ListingPages, DataInduction, TLAPS

AllFields == {"id", "level", "fresh", "title", "station", "age", "display", "price",
              "tags", "negatives", "agency"}

\* A listing with its own facts only, a price that can be read back, and a title
\* and an exact price when its detail was read.
Own(k) == {l \in Listings : /\ OwnFacts(k, l) /\ Readable(l.price)
                            /\ l.level = "detail" => l.title # Absent /\ Exact(l.price)}

\* What is known of a listing by its fields.
Whole(k, l) ==
  /\ l = [f \in AllFields |-> l[f]]
  /\ l.id = k /\ l.level \in Levels /\ l.fresh \in BOOLEAN
  /\ l.title \in OwnHouse(k) /\ l.station \in OwnHouse(k)
  /\ l.age \in OwnHouse(k) /\ l.display \in OwnHouse(k)
  /\ l.price \in Prices /\ l.price.of = k /\ Readable(l.price)
  /\ l.tags \in SUBSET {"facility"} /\ l.negatives \in SUBSET {"facility"}
  /\ l.agency \in Houses \union {Absent}
  /\ l.level = "detail" => l.title # Absent /\ Exact(l.price)

LEMMA OwnListing ==
  ASSUME NEW k \in Keys, NEW l, Whole(k, l)
  PROVE  l \in Own(k) /\ l # Nothing
<1>1. OwnHouse(k) \subseteq Houses \union {Absent}
  BY DEF OwnHouse, Houses
<1>2. l \in Listings
  <2> HIDE DEF Houses, Prices, Levels
  <2>1. /\ l.title \in Houses \union {Absent} /\ l.station \in Houses \union {Absent}
        /\ l.age \in Houses \union {Absent} /\ l.display \in Houses \union {Absent}
        /\ l.id \in Keys
    BY <1>1 DEF Whole
  <2>2. l = [id |-> l.id, level |-> l.level, fresh |-> l.fresh, title |-> l.title,
             station |-> l.station, age |-> l.age, display |-> l.display, price |-> l.price,
             tags |-> l.tags, negatives |-> l.negatives, agency |-> l.agency]
    BY DEF AllFields, Whole
  <2> QED
    BY <2>1, <2>2 DEF Listings, Whole
<1>3. OwnFacts(k, l)
  BY DEF OwnFacts, OwnHouse, Whole
<1>4. l # Nothing
  <2>1. Nothing.id = Absent
    BY DEF Nothing
  <2> QED
    BY <2>1, HouseAssumption DEF Whole
<1> QED
  BY <1>2, <1>3, <1>4 DEF Own, Whole

LEMMA OwnFields ==
  ASSUME NEW k \in Keys, NEW l \in Own(k)
  PROVE  Whole(k, l) /\ DOMAIN l = AllFields
<1>1. /\ l \in Listings /\ OwnFacts(k, l) /\ Readable(l.price)
      /\ l.level = "detail" => l.title # Absent /\ Exact(l.price)
  BY DEF Own
<1>2. /\ DOMAIN l = AllFields /\ l.level \in Levels /\ l.fresh \in BOOLEAN
      /\ l.price \in Prices /\ l.tags \in SUBSET {"facility"}
      /\ l.negatives \in SUBSET {"facility"} /\ l.agency \in Houses \union {Absent}
  BY <1>1 DEF Listings, AllFields
<1>3. l = [f \in AllFields |-> l[f]]
  BY <1>1 DEF Listings, AllFields
<1>4. /\ l.id = k /\ l.price.of = k /\ l.title \in OwnHouse(k) /\ l.station \in OwnHouse(k)
      /\ l.age \in OwnHouse(k) /\ l.display \in OwnHouse(k)
  BY <1>1 DEF OwnFacts, OwnHouse
<1> QED
  BY <1>1, <1>2, <1>3, <1>4 DEF Whole

-----------------------------------------------------------------------------
(* What cells say.                                                          *)

\* The text stays beside the amount, and tells whether it is one of yen.
TermOf(term, cell) ==
  /\ term.raw = cell /\ term.yen \in {0, 1, NoAmount}
  /\ term.yen = 1 <=> cell \in {"man", "yen"}

LEMMA ListTermRead ==
  ASSUME NEW cell \in Terms PROVE TermOf(ListTerm(cell), cell)
BY DEF TermOf, ListTerm, NoAmount

LEMMA OptionalTermRead ==
  ASSUME NEW cell \in Terms PROVE TermOf(OptionalTerm(cell), cell)
<1>1. CASE cell \in {"man", "yen"}
  BY <1>1 DEF TermOf, OptionalTerm, NoAmount
<1>2. CASE cell = "none"
  BY <1>2 DEF TermOf, OptionalTerm, NoAmount
<1>3. CASE cell \notin {"man", "yen", "none"}
  BY <1>3 DEF TermOf, OptionalTerm, NoAmount
<1> QED
  BY <1>1, <1>2, <1>3

LEMMA CardTermRead ==
  ASSUME NEW cell \in Terms PROVE TermOf(CardTerm(cell), cell)
BY DEF TermOf, CardTerm, NoAmount

LEMMA PriceIs ==
  ASSUME NEW k \in Keys, NEW rent, NEW cell \in Terms, NEW term, TermOf(term, cell)
  PROVE  /\ Price(k, rent, term) \in Prices /\ Price(k, rent, term).of = k
         /\ Readable(Price(k, rent, term))
<1>1. Amount(rent) \in {0, 1}
  BY DEF Amount
<1>2. term.raw \in Terms /\ term.yen \in {0, 1, NoAmount}
  BY DEF TermOf
<1>3. Price(k, rent, term) \in Prices
  <2> HIDE DEF Terms, NoAmount
  <2> QED
    BY <1>1, <1>2 DEF Price, Prices
<1>4. Readable(Price(k, rent, term))
  <2>1. Price(k, rent, term).raw = cell /\ Price(k, rent, term).yen = term.yen
    BY DEF Price, TermOf
  <2>2. NoAmount # 1
    BY DEF NoAmount
  <2> HIDE DEF NoAmount
  <2> QED
    BY <2>1, <2>2 DEF Readable, TermOf
<1> QED
  BY <1>3, <1>4 DEF Price

LEMMA OptionalTermExact ==
  ASSUME NEW k \in Keys, NEW rent, NEW cell \in Terms
  PROVE  Exact(Price(k, rent, OptionalTerm(cell)))
<1>1. /\ Price(k, rent, OptionalTerm(cell)).raw = cell
      /\ Price(k, rent, OptionalTerm(cell)).yen = OptionalTerm(cell).yen
  BY DEF Price, OptionalTerm
<1>2. OptionalTerm(cell).yen = 0 => cell = "none"
  BY DEF OptionalTerm, NoAmount
<1> QED
  BY <1>1, <1>2 DEF Exact

LEMMA TagsOf ==
  ASSUME NEW facility
  PROVE  Tags(facility) \in SUBSET {"facility"} /\ Negatives(facility) \in SUBSET {"facility"}
BY DEF Tags, Negatives

-----------------------------------------------------------------------------
(* Merging and hydrating.                                                   *)

\* A row and a later one: what StoredOnlyGrows says of the level and the facts.
Grown(a, b) ==
  a # Nothing =>
    /\ b # Nothing
    /\ Rank(b.level) >= Rank(a.level)
    /\ \A f \in Texts \union Lists : ~Empty(f, a[f]) => ~Empty(f, b[f])

\* Between them nothing was stored over a detail but one over a stale one.
Renewed(a, b) ==
  a # Nothing /\ a.level = "detail" /\ b # a => b.fresh /\ ~a.fresh

LEMMA RenewedReflexive == \A a : Renewed(a, a)
BY DEF Renewed

LEMMA RankOfLevels ==
  ASSUME NEW a \in Levels, NEW b \in Levels
  PROVE  /\ Rank(a) \in Nat /\ Rank(b) \in Nat
         /\ a = "detail" /\ Rank(b) >= Rank(a) => b = "detail"
         /\ Rank(b) > Rank(a) => a # "detail"
         /\ b = "detail" /\ ~(Rank(b) > Rank(a)) => a = "detail"
BY DEF Levels, Rank

LEMMA GrownReflexive == \A a : Grown(a, a)
<1> SUFFICES ASSUME NEW a PROVE Rank(a.level) >= Rank(a.level)
  BY DEF Grown
<1> QED
  BY DEF Rank

LEMMA GrownTransitive ==
  ASSUME NEW k \in Keys, NEW a \in Own(k) \union {Nothing}, NEW b \in Own(k) \union {Nothing},
         NEW c \in Own(k) \union {Nothing}, Grown(a, b), Grown(b, c)
  PROVE  /\ Grown(a, c)
         /\ Renewed(a, b) /\ Renewed(b, c) => Renewed(a, c)
<1> SUFFICES ASSUME a # Nothing
             PROVE  Grown(a, c) /\ (Renewed(a, b) /\ Renewed(b, c) => Renewed(a, c))
  BY DEF Grown, Renewed
<1>1. b # Nothing /\ c # Nothing
  BY DEF Grown
<1>2. a.level \in Levels /\ b.level \in Levels /\ c.level \in Levels
  BY <1>1, OwnFields DEF Whole
<1>3. Rank(b.level) >= Rank(a.level) /\ Rank(c.level) >= Rank(b.level)
  BY <1>1 DEF Grown
<1>4. /\ Rank(a.level) \in Nat /\ Rank(b.level) \in Nat /\ Rank(c.level) \in Nat
      /\ a.level = "detail" => b.level = "detail"
  BY <1>2, <1>3, RankOfLevels
<1>5. Rank(c.level) >= Rank(a.level)
  BY <1>3, <1>4
<1>6. \A f \in Texts \union Lists : ~Empty(f, a[f]) => ~Empty(f, c[f])
  BY <1>1 DEF Grown
<1>7. Renewed(a, b) /\ Renewed(b, c) => Renewed(a, c)
  BY <1>1, <1>4 DEF Renewed
<1> QED
  BY <1>1, <1>5, <1>6, <1>7 DEF Grown

LEMMA OneOfTwo ==
  ASSUME NEW f, NEW a, NEW b
  PROVE  /\ MergeOptional(f, a, b) \in {a, b}
         /\ ~Empty(f, a) => ~Empty(f, MergeOptional(f, a, b))
         /\ ~Empty(f, b) => ~Empty(f, MergeOptional(f, a, b))
BY DEF MergeOptional

\* What may be stored over a row: over a fresh detail no other detail.
Due(a, b) ==
  b.level = "detail" => b.fresh /\ (a # Nothing /\ a.level = "detail" => ~a.fresh)

LEMMA MergeKeeps ==
  ASSUME NEW k \in Keys, NEW a \in Own(k), NEW b \in Own(k), Due(a, b)
  PROVE  /\ Merge(a, b) \in Own(k) /\ Grown(a, Merge(a, b)) /\ Renewed(a, Merge(a, b))
         /\ b.level = "detail" => Merge(a, b).level = "detail"
<1>1. Whole(k, a) /\ Whole(k, b) /\ DOMAIN a = AllFields
  BY OwnFields
<1>2. a.level \in Levels /\ b.level \in Levels
  BY <1>1 DEF Whole
<1>3. CASE a.level = "detail" /\ b.level # "detail"
  <2>1. Merge(a, b) = a
    BY <1>3 DEF Merge
  <2> QED
    BY <1>3, <2>1, GrownReflexive, RenewedReflexive
<1>4. CASE ~(a.level = "detail" /\ b.level # "detail")
  <2> DEFINE m == Merge(a, b)
  <2>1. m = [f \in AllFields |->
          CASE f = "level" -> IF Rank(b.level) > Rank(a.level) THEN b.level ELSE a.level
            [] f = "fresh" -> b.fresh \/ a.fresh
            [] f = "price" -> IF a.level = "detail" THEN a.price ELSE b.price
            [] f \in Texts \union Lists -> MergeOptional(f, a[f], b[f])
            [] OTHER -> a[f]]
    BY <1>1, <1>4 DEF Merge
  <2> HIDE DEF m
  <2>2. /\ m.level = IF Rank(b.level) > Rank(a.level) THEN b.level ELSE a.level
        /\ m.fresh = (b.fresh \/ a.fresh)
        /\ m.price = IF a.level = "detail" THEN a.price ELSE b.price
        /\ m.id = a.id
    BY <2>1 DEF AllFields, Texts, Lists
  <2>3. \A f \in Texts \union Lists : m[f] = MergeOptional(f, a[f], b[f])
    BY <2>1 DEF AllFields, Texts, Lists
  <2>4. m = [f \in AllFields |-> m[f]]
    BY <2>1
  <2>5. \A f \in Texts \union Lists :
          /\ m[f] \in {a[f], b[f]}
          /\ ~Empty(f, a[f]) => ~Empty(f, m[f])
          /\ ~Empty(f, b[f]) => ~Empty(f, m[f])
    BY <2>3, OneOfTwo
  <2>6. m.level \in Levels /\ (m.level = "detail" => a.level = "detail" \/ b.level = "detail")
    BY <1>2, <2>2
  <2>7. /\ m.title \in {a.title, b.title} /\ m.station \in {a.station, b.station}
        /\ m.age \in {a.age, b.age} /\ m.display \in {a.display, b.display}
        /\ m.tags \in {a.tags, b.tags} /\ m.negatives \in {a.negatives, b.negatives}
        /\ m.agency \in {a.agency, b.agency}
        /\ (a.title # Absent \/ b.title # Absent) => m.title # Absent
    BY <2>5 DEF Texts, Lists, Empty
  <2>8. m.level = "detail" => m.title # Absent /\ Exact(m.price)
    BY <1>1, <1>4, <2>2, <2>6, <2>7 DEF Whole
  <2>9. m.price \in {a.price, b.price} /\ m.fresh \in BOOLEAN
    BY <2>2
  <2>10. m \in Own(k) /\ m # Nothing
    <3>1. /\ m.title \in OwnHouse(k) /\ m.station \in OwnHouse(k)
          /\ m.age \in OwnHouse(k) /\ m.display \in OwnHouse(k)
      BY <1>1, <2>7 DEF Whole
    <3>2. /\ m.tags \in SUBSET {"facility"} /\ m.negatives \in SUBSET {"facility"}
          /\ m.agency \in Houses \union {Absent}
      BY <1>1, <2>7 DEF Whole
    <3>3. m.price \in Prices /\ m.price.of = k /\ Readable(m.price) /\ m.id = k
      BY <1>1, <2>2, <2>9 DEF Whole
    <3>4. Whole(k, m)
      BY <2>4, <2>6, <2>8, <2>9, <3>1, <3>2, <3>3 DEF Whole
    <3> QED
      BY <3>4, OwnListing
  <2>11. Grown(a, m)
    <3>1. Rank(m.level) >= Rank(a.level)
      BY <1>2, <2>2, RankOfLevels
    <3> QED
      BY <2>2, <2>5, <2>10, <3>1 DEF Grown
  <2>12. b.level = "detail" => m.level = "detail"
    BY <1>2, <2>2, RankOfLevels
  <2>13. Renewed(a, m)
    BY <1>4, <2>2 DEF Due, Renewed
  <2> QED
    BY <2>10, <2>11, <2>12, <2>13 DEF m
<1> QED
  BY <1>3, <1>4

LEMMA HydrateKeeps ==
  ASSUME NEW k \in Keys, NEW summary \in Own(k), NEW detail, Whole(k, detail),
         detail.level = "detail"
  PROVE  LET h == Hydrate(summary, detail)
         IN Whole(k, h) /\ h.level = "detail"
<1> DEFINE h == Hydrate(summary, detail)
<1>1. Whole(k, summary) /\ DOMAIN summary = AllFields
  BY OwnFields
<1>2. h = [f \in AllFields |->
        CASE f \in Hydrated -> MergeOptional(f, summary[f], detail[f])
          [] f \in {"price", "level"} -> detail[f]
          [] f = "fresh" -> detail.fresh \/ summary.fresh
          [] OTHER -> summary[f]]
  BY <1>1 DEF Hydrate
<1> HIDE DEF h
<1>3. /\ h.price = detail.price /\ h.level = detail.level
      /\ h.fresh = (detail.fresh \/ summary.fresh)
      /\ h.id = summary.id /\ h.display = summary.display
  BY <1>2 DEF AllFields, Hydrated
<1>4. \A f \in Hydrated : h[f] = MergeOptional(f, summary[f], detail[f])
  BY <1>2 DEF AllFields, Hydrated
<1>5. \A f \in Hydrated : h[f] \in {summary[f], detail[f]} /\ (~Empty(f, detail[f]) => ~Empty(f, h[f]))
  BY <1>4, OneOfTwo
<1>6. /\ h.title \in {summary.title, detail.title} /\ h.station \in {summary.station, detail.station}
      /\ h.age \in {summary.age, detail.age} /\ h.tags \in {summary.tags, detail.tags}
      /\ h.negatives \in {summary.negatives, detail.negatives}
      /\ h.agency \in {summary.agency, detail.agency}
      /\ detail.title # Absent => h.title # Absent
  BY <1>5 DEF Hydrated, Empty, Lists
<1>7. h = [f \in AllFields |-> h[f]]
  BY <1>2
<1>8. /\ h.title \in OwnHouse(k) /\ h.station \in OwnHouse(k)
      /\ h.age \in OwnHouse(k) /\ h.display \in OwnHouse(k)
  BY <1>1, <1>3, <1>6 DEF Whole
<1>9. /\ h.tags \in SUBSET {"facility"} /\ h.negatives \in SUBSET {"facility"}
      /\ h.agency \in Houses \union {Absent}
  BY <1>1, <1>6 DEF Whole
<1>10. /\ h.price \in Prices /\ h.price.of = k /\ Readable(h.price) /\ h.id = k
       /\ h.level \in Levels /\ h.fresh \in BOOLEAN /\ h.title # Absent /\ Exact(h.price)
  BY <1>1, <1>3, <1>6 DEF Whole
<1>11. Whole(k, h)
  BY <1>7, <1>8, <1>9, <1>10 DEF Whole
<1> QED
  BY <1>3, <1>11 DEF h

-----------------------------------------------------------------------------
(* Rows.                                                                    *)

Rows == Listings \union {Nothing}
OwnRow(k) == Own(k) \union {Nothing}

\* A table of listings that keep to themselves, and one reached from it.
OwnRows == {rows \in [Keys -> Rows] : \A k \in Keys : rows[k] \in OwnRow(k)}
RowsFrom(base) ==
  {rows \in OwnRows : \A k \in Keys : Grown(base[k], rows[k]) /\ Renewed(base[k], rows[k])}

LEMMA RowsFromBase ==
  ASSUME NEW base \in OwnRows
  PROVE  base \in RowsFrom(base)
BY GrownReflexive, RenewedReflexive DEF RowsFrom

LEMMA RowsFromTransitive ==
  ASSUME NEW a \in OwnRows, NEW b \in RowsFrom(a), NEW c \in RowsFrom(b)
  PROVE  c \in RowsFrom(a)
<1> SUFFICES ASSUME NEW k \in Keys PROVE Grown(a[k], c[k]) /\ Renewed(a[k], c[k])
  BY DEF RowsFrom
<1>1. a[k] \in OwnRow(k) /\ b[k] \in OwnRow(k) /\ c[k] \in OwnRow(k)
  BY DEF OwnRows, RowsFrom
<1>2. Grown(a[k], b[k]) /\ Grown(b[k], c[k]) /\ Renewed(a[k], b[k]) /\ Renewed(b[k], c[k])
  BY DEF RowsFrom
<1> QED
  BY <1>1, <1>2, GrownTransitive DEF OwnRow

\* A detail stays one.
LEMMA DetailStays ==
  ASSUME NEW a \in OwnRows, NEW b \in OwnRows, NEW k \in Keys, Grown(a[k], b[k]),
         a[k] # Nothing, a[k].level = "detail"
  PROVE  b[k] # Nothing /\ b[k].level = "detail"
<1>1. b[k] # Nothing /\ Rank(b[k].level) >= Rank(a[k].level)
  BY DEF Grown
<1>2. a[k] \in Own(k) /\ b[k] \in Own(k)
  BY <1>1 DEF OwnRows, OwnRow
<1>3. a[k].level \in Levels /\ b[k].level \in Levels
  BY <1>2, OwnFields DEF Whole
<1> QED
  BY <1>1, <1>3, RankOfLevels

LEMMA StoredKeeps ==
  ASSUME NEW rows \in OwnRows, NEW k \in Keys, NEW l \in Own(k), Due(rows[k], l)
  PROVE  LET new == Stored(rows, l)
         IN /\ new \in RowsFrom(rows) /\ new[k] # Nothing
            /\ l.level = "detail" => new[k].level = "detail"
            /\ \A j \in Keys : j # k => new[j] = rows[j]
<1> DEFINE new == Stored(rows, l)
           it == IF rows[k] = Nothing THEN l ELSE Merge(rows[k], l)
<1>1. l.id = k /\ l # Nothing
  BY OwnFields, OwnListing DEF Whole
<1>2. rows \in [Keys -> Rows] /\ rows[k] \in OwnRow(k)
  BY DEF OwnRows
<1>3. new = [rows EXCEPT ![k] = it]
  BY <1>1 DEF Stored
<1>4. /\ it \in Own(k) /\ it # Nothing /\ Grown(rows[k], it) /\ Renewed(rows[k], it)
      /\ l.level = "detail" => it.level = "detail"
  <2>1. CASE rows[k] = Nothing
    BY <1>1, <2>1 DEF Grown, Renewed
  <2>2. CASE rows[k] # Nothing
    <3>1. rows[k] \in Own(k)
      BY <1>2, <2>2 DEF OwnRow
    <3>2. /\ it \in Own(k) /\ Grown(rows[k], it) /\ Renewed(rows[k], it)
          /\ l.level = "detail" => it.level = "detail"
      BY <2>2, <3>1, MergeKeeps
    <3>3. it # Nothing
      BY <3>2, OwnFields, OwnListing
    <3> QED
      BY <3>2, <3>3
  <2> QED
    BY <2>1, <2>2
<1> HIDE DEF it, new
<1>5. new[k] = it /\ \A j \in Keys : j # k => new[j] = rows[j]
  BY <1>2, <1>3
<1>6. new \in [Keys -> Rows]
  <2>1. it \in Rows
    BY <1>4 DEF Rows, Own
  <2> QED
    BY <1>2, <1>3, <2>1
<1>7. \A j \in Keys :
        new[j] \in OwnRow(j) /\ Grown(rows[j], new[j]) /\ Renewed(rows[j], new[j])
  <2> SUFFICES ASSUME NEW j \in Keys
               PROVE  new[j] \in OwnRow(j) /\ Grown(rows[j], new[j]) /\ Renewed(rows[j], new[j])
    OBVIOUS
  <2>1. CASE j = k
    BY <1>4, <1>5, <2>1 DEF OwnRow
  <2>2. CASE j # k
    <3>1. new[j] = rows[j] /\ rows[j] \in OwnRow(j)
      BY <1>5, <2>2 DEF OwnRows
    <3> QED
      BY <3>1, GrownReflexive, RenewedReflexive
  <2> QED
    BY <2>1, <2>2
<1>8. new \in RowsFrom(rows)
  BY <1>6, <1>7 DEF RowsFrom, OwnRows
<1> QED
  BY <1>4, <1>5, <1>8 DEF new

-----------------------------------------------------------------------------
(* Pages.                                                                   *)

\* What a list page gives: listings with their own facts, without a detail.
Read == {l \in UNION {Own(k) : k \in Keys} : l.level = "partial"}

\* The listings of a sequence, and the listing numbers a page shows.
Ids(s) == {l.id : l \in Range(s)}
KeysOf(block) == {block.units[i].key : i \in DOMAIN block.units} \ {Absent}
KeysOn(page) ==
  LET blocks == IF page.legacy # <<>> THEN page.legacy ELSE page.current
  IN UNION {KeysOf(blocks[b]) : b \in DOMAIN blocks}

LEMMA OwnOfRead ==
  ASSUME NEW l \in Read, NEW k \in Keys, l.id = k
  PROVE  l \in Own(k) /\ l.level = "partial"
<1>1. PICK j \in Keys : l \in Own(j)
  BY DEF Read
<1>2. l.id = j
  BY <1>1, OwnFields DEF Whole
<1> QED
  BY <1>1, <1>2 DEF Read

LEMMA SummaryIsOwn ==
  ASSUME NEW block \in Blocks, NEW i \in DOMAIN block.units, block.units[i].key # Absent,
         NEW term, TermOf(term, block.units[i].term), NEW facility
  PROVE  /\ Summary(block, block.units[i], term, facility) \in Read
         /\ Summary(block, block.units[i], term, facility).id = block.units[i].key
<1> DEFINE unit == block.units[i]
           l == Summary(block, unit, term, facility)
<1>1. unit \in UnitCells /\ block.units \in Seq(UnitCells)
  BY DEF Blocks
<1>2. /\ unit.key \in Keys /\ unit.term \in Terms
      /\ House[unit.key] = block.house
  BY <1>1 DEF UnitCells, Blocks
<1>3. \A p : Shown(p, block.house) \in OwnHouse(unit.key)
  BY <1>2 DEF Shown, OwnHouse
<1>4. /\ Price(unit.key, unit.rent, term) \in Prices
      /\ Price(unit.key, unit.rent, term).of = unit.key
      /\ Readable(Price(unit.key, unit.rent, term))
  BY <1>2, PriceIs
<1>5. Tags(facility) \in SUBSET {"facility"} /\ Negatives(facility) \in SUBSET {"facility"}
  BY TagsOf
<1> HIDE DEF unit
<1>6. /\ l.id = unit.key /\ l.level = "partial" /\ l.fresh = FALSE
      /\ l.title = Shown(block.titled, block.house)
      /\ l.station = Shown(block.station, block.house)
      /\ l.age = Shown(block.age = "date", block.house)
      /\ l.display = Shown(block.age = "date", block.house)
      /\ l.price = Price(unit.key, unit.rent, term)
      /\ l.tags = Tags(facility) /\ l.negatives = Negatives(facility) /\ l.agency = Absent
      /\ l = [f \in AllFields |-> l[f]]
  BY DEF Summary, Built, AllFields
<1> HIDE DEF l
<1>7. Whole(unit.key, l)
  <2>1. "partial" \in Levels /\ "partial" # "detail"
    BY DEF Levels
  <2>2. /\ l.title \in OwnHouse(unit.key) /\ l.station \in OwnHouse(unit.key)
        /\ l.age \in OwnHouse(unit.key) /\ l.display \in OwnHouse(unit.key)
    BY <1>3, <1>6
  <2>3. /\ l.price \in Prices /\ l.price.of = unit.key /\ Readable(l.price)
        /\ l.tags \in SUBSET {"facility"} /\ l.negatives \in SUBSET {"facility"}
    BY <1>4, <1>5, <1>6
  <2>4. l.fresh \in BOOLEAN /\ l.level \in Levels /\ l.agency \in Houses \union {Absent} /\ l.id = unit.key
    BY <1>6, <2>1
  <2> QED
    BY <1>6, <2>1, <2>2, <2>3, <2>4 DEF Whole
<1>8. l \in Own(unit.key)
  BY <1>2, <1>7, OwnListing
<1> QED
  BY <1>2, <1>6, <1>8 DEF Read, l, unit

\* Each element gives no listing or one, that of its own number.
Single(s, key) ==
  /\ s \in Seq(Read)
  /\ key = Absent => Range(s) = {}
  /\ key # Absent => Ids(s) = {key}

LEMMA ListedIsSingle ==
  ASSUME NEW unit, NEW l, unit.key # Absent => l \in Read /\ l.id = unit.key
  PROVE  Single(Listed(unit, l), unit.key)
<1>1. CASE unit.key = Absent
  <2>1. Listed(unit, l) = <<>> /\ Range(<<>>) = {} /\ <<>> \in Seq(Read)
    BY <1>1 DEF Listed, Range
  <2> QED
    BY <1>1, <2>1 DEF Single
<1>2. CASE unit.key # Absent
  <2>1. Listed(unit, l) = <<l>> /\ <<l>> \in Seq(Read)
    BY <1>2 DEF Listed
  <2>2. Range(<<l>>) = {l}
    BY DEF Range
  <2>3. Ids(<<l>>) = {unit.key}
    BY <1>2, <2>2 DEF Ids
  <2> QED
    BY <1>2, <2>1, <2>3 DEF Single
<1> QED
  BY <1>1, <1>2

LEMMA FlattenSingles ==
  ASSUME NEW n \in Nat, NEW f, f = [i \in 1..n |-> f[i]], NEW keys,
         \A i \in 1..n : Single(f[i], keys[i])
  PROVE  FlattenSeq(f) \in Seq(Read) /\ Ids(FlattenSeq(f)) = {keys[i] : i \in 1..n} \ {Absent}
<1>1. f \in Seq(Seq(Read)) /\ Len(f) = n
  <2>1. \A i \in 1..n : f[i] \in Seq(Read)
    BY DEF Single
  <2> QED
    BY <2>1
<1>2. FlattenSeq(f) \in Seq(Read)
  <2>1. <<>> \in Seq(Read)
    OBVIOUS
  <2> QED
    BY <1>1, <2>1, FlattenAppend
<1>3. Range(FlattenSeq(f)) = UNION {Range(f[i]) : i \in 1..n}
  BY <1>1, FlattenRange
<1>4. Ids(FlattenSeq(f)) \subseteq {keys[i] : i \in 1..n} \ {Absent}
  <2> SUFFICES ASSUME NEW l \in Range(FlattenSeq(f))
               PROVE  l.id \in {keys[i] : i \in 1..n} \ {Absent}
    BY DEF Ids
  <2>1. PICK i \in 1..n : l \in Range(f[i])
    BY <1>3
  <2>2. keys[i] # Absent /\ l.id \in {keys[i]}
    BY <2>1 DEF Single, Ids
  <2> QED
    BY <2>2
<1>5. {keys[i] : i \in 1..n} \ {Absent} \subseteq Ids(FlattenSeq(f))
  <2> SUFFICES ASSUME NEW i \in 1..n, keys[i] # Absent PROVE keys[i] \in Ids(FlattenSeq(f))
    OBVIOUS
  <2>1. PICK l \in Range(f[i]) : l.id = keys[i]
    BY DEF Single, Ids
  <2>2. l \in Range(FlattenSeq(f))
    BY <1>3
  <2> QED
    BY <2>1, <2>2 DEF Ids
<1> QED
  BY <1>2, <1>4, <1>5

LEMMA UnitsAreRead ==
  ASSUME NEW block \in Blocks
  PROVE  /\ Units(block) \in Seq(Read) /\ Ids(Units(block)) = KeysOf(block)
         /\ CurrentRooms(block) \in Seq(Read) /\ Ids(CurrentRooms(block)) = KeysOf(block)
<1> DEFINE n == Len(block.units)
           keys == [i \in 1..n |-> block.units[i].key]
           old == [i \in DOMAIN block.units |->
                     Listed(block.units[i], ParseUnit(block, block.units[i]))]
           new == [i \in DOMAIN block.units |->
                     Listed(block.units[i], ParseCurrentRoom(block, block.units[i]))]
<1>1. n \in Nat /\ DOMAIN block.units = 1..n /\ block.units \in Seq(UnitCells)
  BY DEF Blocks
<1>2. ASSUME NEW i \in 1..n PROVE Single(old[i], keys[i]) /\ Single(new[i], keys[i])
  <2> DEFINE unit == block.units[i]
  <2>1. unit.term \in Terms
    <3>1. unit \in UnitCells
      BY <1>1
    <3> QED
      BY <3>1 DEF UnitCells
  <2>2. TermOf(ListTerm(unit.term), unit.term) /\ TermOf(OptionalTerm(unit.term), unit.term)
    BY <2>1, ListTermRead, OptionalTermRead
  <2>3. unit.key # Absent =>
          /\ ParseUnit(block, unit) \in Read /\ ParseUnit(block, unit).id = unit.key
          /\ ParseCurrentRoom(block, unit) \in Read /\ ParseCurrentRoom(block, unit).id = unit.key
    BY <1>1, <2>2, SummaryIsOwn DEF ParseUnit, ParseCurrentRoom
  <2>4. old[i] = Listed(unit, ParseUnit(block, unit)) /\ new[i] = Listed(unit, ParseCurrentRoom(block, unit))
    BY <1>1
  <2> HIDE DEF unit
  <2>5. Single(old[i], unit.key) /\ Single(new[i], unit.key)
    BY <2>3, <2>4, ListedIsSingle
  <2> QED
    BY <2>5 DEF unit
<1>3. old = [i \in 1..n |-> old[i]] /\ new = [i \in 1..n |-> new[i]]
  BY <1>1
<1>4. KeysOf(block) = {keys[i] : i \in 1..n} \ {Absent}
  BY <1>1 DEF KeysOf
<1> HIDE DEF old, new, keys, n
<1>5. /\ FlattenSeq(old) \in Seq(Read) /\ Ids(FlattenSeq(old)) = {keys[i] : i \in 1..n} \ {Absent}
      /\ FlattenSeq(new) \in Seq(Read) /\ Ids(FlattenSeq(new)) = {keys[i] : i \in 1..n} \ {Absent}
  BY <1>1, <1>2, <1>3, FlattenSingles
<1> QED
  BY <1>4, <1>5 DEF Units, CurrentRooms, old, new

LEMMA FlattenBlocks ==
  ASSUME NEW blocks \in Seq(Blocks), NEW f, f = [b \in DOMAIN blocks |-> f[b]],
         \A b \in DOMAIN blocks : f[b] \in Seq(Read) /\ Ids(f[b]) = KeysOf(blocks[b])
  PROVE  /\ FlattenSeq(f) \in Seq(Read)
         /\ Ids(FlattenSeq(f)) = UNION {KeysOf(blocks[b]) : b \in DOMAIN blocks}
<1>1. DOMAIN blocks = 1..Len(blocks) /\ Len(blocks) \in Nat
  OBVIOUS
<1>2. f \in Seq(Seq(Read)) /\ Len(f) = Len(blocks)
  BY <1>1
<1>3. FlattenSeq(f) \in Seq(Read)
  <2>1. <<>> \in Seq(Read)
    OBVIOUS
  <2> QED
    BY <1>2, <2>1, FlattenAppend
<1>4. Range(FlattenSeq(f)) = UNION {Range(f[b]) : b \in 1..Len(blocks)}
  BY <1>2, FlattenRange
<1>5. Ids(FlattenSeq(f)) = UNION {Ids(f[b]) : b \in DOMAIN blocks}
  <2>1. ASSUME NEW l \in Range(FlattenSeq(f))
        PROVE  l.id \in UNION {Ids(f[b]) : b \in DOMAIN blocks}
    <3>1. PICK b \in DOMAIN blocks : l \in Range(f[b])
      BY <1>1, <1>4
    <3>2. l.id \in Ids(f[b])
      BY <3>1 DEF Ids
    <3> QED
      BY <3>2
  <2>2. ASSUME NEW b \in DOMAIN blocks, NEW l \in Range(f[b])
        PROVE  l.id \in Ids(FlattenSeq(f))
    <3>1. l \in Range(FlattenSeq(f))
      BY <1>1, <1>4
    <3> QED
      BY <3>1 DEF Ids
  <2>3. Ids(FlattenSeq(f)) \subseteq UNION {Ids(f[b]) : b \in DOMAIN blocks}
    BY <2>1 DEF Ids
  <2>4. \A b \in DOMAIN blocks : Ids(f[b]) \subseteq Ids(FlattenSeq(f))
    <3> SUFFICES ASSUME NEW b \in DOMAIN blocks, NEW id \in Ids(f[b])
                 PROVE  id \in Ids(FlattenSeq(f))
      OBVIOUS
    <3>1. PICK l \in Range(f[b]) : id = l.id
      BY DEF Ids
    <3> QED
      BY <2>2, <3>1
  <2> QED
    BY <2>3, <2>4
<1>6. UNION {Ids(f[b]) : b \in DOMAIN blocks} = UNION {KeysOf(blocks[b]) : b \in DOMAIN blocks}
  OBVIOUS
<1> QED
  BY <1>3, <1>5, <1>6

LEMMA ListPageIsRead ==
  ASSUME NEW page \in ListPages
  PROVE  ParseListPage(page) \in Seq(Read) /\ Ids(ParseListPage(page)) = KeysOn(page)
<1> DEFINE old == [b \in DOMAIN page.legacy |-> Units(page.legacy[b])]
           new == [b \in DOMAIN page.current |-> CurrentRooms(page.current[b])]
<1>1. page.legacy \in Seq(Blocks) /\ page.current \in Seq(Blocks)
  BY PagesAssumption
<1>2. /\ \A b \in DOMAIN page.legacy : page.legacy[b] \in Blocks
      /\ \A b \in DOMAIN page.current : page.current[b] \in Blocks
  BY <1>1
<1>3. /\ old = [b \in DOMAIN page.legacy |-> old[b]]
      /\ \A b \in DOMAIN page.legacy : old[b] \in Seq(Read) /\ Ids(old[b]) = KeysOf(page.legacy[b])
      /\ new = [b \in DOMAIN page.current |-> new[b]]
      /\ \A b \in DOMAIN page.current : new[b] \in Seq(Read) /\ Ids(new[b]) = KeysOf(page.current[b])
  BY <1>2, UnitsAreRead
<1>4. ParseListPage(page) = IF page.legacy # <<>> THEN FlattenSeq(old) ELSE FlattenSeq(new)
  BY DEF ParseListPage
<1> HIDE DEF old, new
<1>5. /\ FlattenSeq(old) \in Seq(Read)
      /\ Ids(FlattenSeq(old)) = UNION {KeysOf(page.legacy[b]) : b \in DOMAIN page.legacy}
  BY <1>1, <1>3, FlattenBlocks
<1>6. /\ FlattenSeq(new) \in Seq(Read)
      /\ Ids(FlattenSeq(new)) = UNION {KeysOf(page.current[b]) : b \in DOMAIN page.current}
  BY <1>1, <1>3, FlattenBlocks
<1> QED
  BY <1>4, <1>5, <1>6 DEF KeysOn

LEMMA ByKeyIsOwn ==
  ASSUME NEW s \in Seq(Read)
  PROVE  /\ ByKey(s) \in OwnRows
         /\ \A k \in Keys : ByKey(s)[k] # Nothing <=> k \in Ids(s)
         /\ \A k \in Keys : ByKey(s)[k] # Nothing => ByKey(s)[k].level = "partial"
<1> DEFINE mine(k) == {i \in DOMAIN s : s[i].id = k}
<1>1. ByKey(s) = [k \in Keys |-> IF mine(k) = {} THEN Nothing ELSE s[Max(mine(k))]]
  BY DEF ByKey
<1>2. DOMAIN s = 1..Len(s) /\ Len(s) \in Nat
  OBVIOUS
<1>3. ASSUME NEW k \in Keys, mine(k) # {}
      PROVE  s[Max(mine(k))] \in Own(k) /\ s[Max(mine(k))].level = "partial"
  <2>1. mine(k) \in SUBSET (1..Len(s))
    BY <1>2
  <2>2. Max(mine(k)) \in mine(k)
    <3> HIDE DEF mine
    <3> QED
      BY <1>2, <1>3, <2>1, MaxOfNumbers
  <2>3. Max(mine(k)) \in DOMAIN s /\ s[Max(mine(k))].id = k
    BY <2>2
  <2>4. s[Max(mine(k))] \in Read
    BY <2>3
  <2> QED
    BY <2>3, <2>4, OwnOfRead
<1>4. \A k \in Keys : ByKey(s)[k] \in OwnRow(k)
  BY <1>1, <1>3 DEF OwnRow
<1>5. \A k \in Keys : OwnRow(k) \subseteq Rows
  BY DEF OwnRow, Rows, Own
<1>6. ASSUME NEW k \in Keys PROVE ByKey(s)[k] # Nothing <=> k \in Ids(s)
  <2>1. mine(k) # {} <=> k \in Ids(s)
    BY DEF Ids, Range
  <2>2. mine(k) # {} => ByKey(s)[k] # Nothing
    BY <1>1, <1>3, OwnFields, OwnListing
  <2> QED
    BY <1>1, <2>1, <2>2
<1>7. \A k \in Keys : ByKey(s)[k] # Nothing => ByKey(s)[k].level = "partial"
  BY <1>1, <1>3
<1> QED
  BY <1>1, <1>4, <1>5, <1>6, <1>7 DEF OwnRows

LEMMA PageFields ==
  ASSUME NEW page \in DetailPages
  PROVE  LET k == page.key IN
         /\ k \in Keys /\ page.house \in OwnHouse(k) /\ page.heading \in OwnHouse(k)
         /\ Field(page, "title") \in OwnHouse(k) /\ StationField(page) \in OwnHouse(k)
         /\ page.legacy.term \in Terms /\ page.current.term \in Terms
         /\ UsableState(page) => page.state.id = k /\ page.state.term \in Terms
         /\ page.state.agency \in Houses \union {Absent}
         /\ \A j : /\ ParseCards(page, j) \subseteq CardCells
                   /\ IsFiniteSet(ParseCards(page, j))
<1> DEFINE k == page.key
<1>1. DetailPage(page)
  BY PagesAssumption
<1>2. k \in Keys /\ page.house \in OwnHouse(k) /\ page.heading \in OwnHouse(k)
  BY <1>1 DEF DetailPage, OwnHouse
<1>3. page.legacy \in CellsOf(k) /\ page.current \in CellsOf(k)
  BY <1>1 DEF DetailPage
<1>4. /\ page.legacy.term \in Terms /\ page.current.term \in Terms
      /\ page.legacy.title \in OwnHouse(k) /\ page.current.title \in OwnHouse(k)
      /\ page.legacy.station \in OwnHouse(k) /\ page.current.station \in OwnHouse(k)
  BY <1>3 DEF CellsOf
<1>5. ASSUME UsableState(page)
      PROVE  /\ page.state.id = k /\ page.state.term \in Terms
             /\ page.state.title \in OwnHouse(k) /\ page.state.station \in OwnHouse(k)
  <2>1. page.state.id = k
    BY <1>5 DEF UsableState
  <2>2. StateOf(page.state, k)
    BY <1>1, <1>2, <2>1 DEF DetailPage
  <2> QED
    BY <2>1, <2>2 DEF StateOf
<1>6. \A name \in {"title", "station"} : Field(page, name) \in OwnHouse(k)
  <2>1. ASSUME NEW name \in {"title", "station"} PROVE Field(page, name) \in OwnHouse(k)
    <3>1. CASE name = "title"
      BY <1>4, <1>5, <3>1 DEF Field
    <3>2. CASE name = "station"
      BY <1>4, <1>5, <3>2 DEF Field
    <3> QED
      BY <3>1, <3>2
  <2> QED
    BY <2>1
<1>7. page.state.agency \in Houses \union {Absent}
  BY <1>1 DEF DetailPage
<1>8. \A j : ParseCards(page, j) \subseteq CardCells /\ IsFiniteSet(ParseCards(page, j))
  <2>1. page.state.cards \subseteq CardCells /\ IsFiniteSet(page.state.cards)
    BY <1>1 DEF DetailPage
  <2>2. IsFiniteSet({})
    BY FS_EmptySet
  <2>3. \A j : ParseCards(page, j) \in {page.state.cards, {}}
    <3> SUFFICES ASSUME NEW j PROVE ParseCards(page, j) \in {page.state.cards, {}}
      OBVIOUS
    <3> DEFINE asked == UsableState([page EXCEPT !.key = j])
    <3>1. ParseCards(page, j) = IF asked THEN page.state.cards ELSE {}
      BY DEF ParseCards
    <3> HIDE DEF asked
    <3> QED
      BY <3>1
  <2> QED
    BY <2>1, <2>2, <2>3
<1>9. StationField(page) \in OwnHouse(k)
  BY <1>5, <1>6 DEF StationField
<1> QED
  BY <1>2, <1>4, <1>5, <1>6, <1>7, <1>8, <1>9

LEMMA DetailPriceIs ==
  ASSUME NEW page \in DetailPages
  PROVE  /\ DetailPrice(page) \in Prices /\ DetailPrice(page).of = page.key
         /\ Readable(DetailPrice(page)) /\ Exact(DetailPrice(page))
<1>1. /\ page.key \in Keys /\ page.legacy.term \in Terms /\ page.current.term \in Terms
      /\ UsableState(page) => page.state.id = page.key /\ page.state.term \in Terms
  BY PageFields
<1>2. CASE UsableState(page)
  <2>1. page.state.id = page.key /\ page.state.term \in Terms
    BY <1>1, <1>2
  <2>2. TermOf(OptionalTerm(page.state.term), page.state.term)
    BY <2>1, OptionalTermRead
  <2>3. DetailPrice(page) = Price(page.key, "man", OptionalTerm(page.state.term))
    BY <1>2, <2>1 DEF DetailPrice
  <2> QED
    BY <1>1, <2>1, <2>2, <2>3, PriceIs, OptionalTermExact
<1>3. CASE ~UsableState(page)
  <2> DEFINE read == IF Amount(page.legacy.rent) = 0 /\ page.current.term # Absent
                       THEN page.current.term ELSE page.legacy.term
             rent == IF Amount(page.legacy.rent) = 0 THEN page.current.rent ELSE page.legacy.rent
  <2>1. DetailPrice(page) = Price(page.key, rent, OptionalTerm(read))
    BY <1>3 DEF DetailPrice, DomPrice
  <2>2. read \in Terms
    BY <1>1
  <2> HIDE DEF read, rent
  <2>3. TermOf(OptionalTerm(read), read)
    BY <2>2, OptionalTermRead
  <2> QED
    BY <1>1, <2>1, <2>2, <2>3, PriceIs, OptionalTermExact
<1> QED
  BY <1>2, <1>3

LEMMA DetailPageIsOwn ==
  ASSUME NEW page \in DetailPages, ParseDetailPage(page).title # Absent
  PROVE  Whole(page.key, ParseDetailPage(page)) /\ ParseDetailPage(page).level = "detail"
<1> DEFINE k == page.key
           l == ParseDetailPage(page)
           age == AgeOf(page.house, Field(page, "age"))
           title == Field(page, "title")
           tags == Tags(page.facility) \union Tags(Pickup(page))
           negatives == Negatives(page.facility) \union Negatives(Pickup(page))
<1>1. /\ k \in Keys /\ page.house \in OwnHouse(k) /\ page.heading \in OwnHouse(k)
      /\ Field(page, "title") \in OwnHouse(k) /\ StationField(page) \in OwnHouse(k)
      /\ page.state.agency \in Houses \union {Absent}
  BY PageFields
<1>2. /\ DetailPrice(page) \in Prices /\ DetailPrice(page).of = k
      /\ Readable(DetailPrice(page)) /\ Exact(DetailPrice(page))
  BY DetailPriceIs
<1>3. age.age \in OwnHouse(k) /\ age.display \in OwnHouse(k)
  <2>1. Absent \in OwnHouse(k)
    BY DEF OwnHouse
  <2> QED
    BY <1>1, <2>1 DEF AgeOf
<1>4. tags \in SUBSET {"facility"} /\ negatives \in SUBSET {"facility"}
  <2>1. \A f : Tags(f) \in SUBSET {"facility"} /\ Negatives(f) \in SUBSET {"facility"}
    BY TagsOf
  <2>2. /\ Tags(page.facility) \in SUBSET {"facility"} /\ Tags(Pickup(page)) \in SUBSET {"facility"}
        /\ Negatives(page.facility) \in SUBSET {"facility"} /\ Negatives(Pickup(page)) \in SUBSET {"facility"}
    BY <2>1
  <2> QED
    BY <2>2
<1> HIDE DEF age, title, tags, negatives
<1>5. l = [id |-> k, level |-> "detail", fresh |-> FALSE,
      title |-> IF title = Absent THEN page.heading ELSE title,
      station |-> StationField(page), age |-> age.age, display |-> age.display,
      price |-> DetailPrice(page), tags |-> tags, negatives |-> negatives,
      agency |-> IF UsableState(page) THEN page.state.agency ELSE Absent]
  BY DEF ParseDetailPage, age, title, tags, negatives
<1> HIDE DEF k
<1>6. /\ l.id = k /\ l.level = "detail" /\ l.fresh = FALSE
      /\ l.title = (IF title = Absent THEN page.heading ELSE title)
      /\ l.station = StationField(page) /\ l.age = age.age /\ l.display = age.display
      /\ l.price = DetailPrice(page) /\ l.tags = tags /\ l.negatives = negatives
      /\ l.agency = (IF UsableState(page) THEN page.state.agency ELSE Absent)
      /\ l = [f \in AllFields |-> l[f]]
  BY <1>5 DEF AllFields
<1>7. l.title # Absent
  OBVIOUS
<1> HIDE DEF l
<1>8. /\ l.title \in OwnHouse(k) /\ l.station \in OwnHouse(k)
      /\ l.age \in OwnHouse(k) /\ l.display \in OwnHouse(k)
  BY <1>1, <1>3, <1>6 DEF title
<1>9. /\ l.price \in Prices /\ l.price.of = k /\ Readable(l.price) /\ Exact(l.price)
      /\ l.tags \in SUBSET {"facility"} /\ l.negatives \in SUBSET {"facility"}
      /\ l.agency \in Houses \union {Absent}
  BY <1>1, <1>2, <1>4, <1>6
<1>10. "detail" \in Levels
  BY DEF Levels
<1>11. Whole(k, l)
  BY <1>6, <1>7, <1>8, <1>9, <1>10 DEF Whole
<1> QED
  BY <1>6, <1>11 DEF k, l

LEMMA CardIsOwn ==
  ASSUME NEW card \in CardCells
  PROVE  /\ card.key \in Keys /\ NormalizeCard(card) \in Own(card.key)
         /\ NormalizeCard(card).level # "detail"
<1> DEFINE k == card.key
           l == NormalizeCard(card)
           tags == IF card.flagged THEN {"facility"} ELSE {}
<1>1. k \in Keys /\ card.term \in Terms
  BY DEF CardCells
<1>2. TermOf(CardTerm(card.term), card.term)
  BY <1>1, CardTermRead
<1>3. /\ Price(k, "man", CardTerm(card.term)) \in Prices
      /\ Price(k, "man", CardTerm(card.term)).of = k
      /\ Readable(Price(k, "man", CardTerm(card.term)))
  BY <1>1, <1>2, PriceIs
<1>4. \A p : Shown(p, House[k]) \in OwnHouse(k)
  BY DEF Shown, OwnHouse
<1>t. tags \in SUBSET {"facility"}
  OBVIOUS
<1> HIDE DEF k, tags
<1>5. /\ l.id = k /\ l.level = "complete" /\ l.fresh = FALSE /\ l.title = House[k]
      /\ l.station = Shown(card.station, House[k]) /\ l.age = Absent /\ l.display = Absent
      /\ l.price = Price(k, "man", CardTerm(card.term))
      /\ l.tags = tags /\ l.negatives = {} /\ l.agency = Absent
      /\ l = [f \in AllFields |-> l[f]]
  BY DEF NormalizeCard, AllFields, k, tags
<1> HIDE DEF l
<1>6. /\ l.title \in OwnHouse(k) /\ l.station \in OwnHouse(k)
      /\ l.age \in OwnHouse(k) /\ l.display \in OwnHouse(k)
  BY <1>4, <1>5 DEF OwnHouse
<1>7. l.level \in Levels /\ l.level # "detail"
  BY <1>5 DEF Levels
<1>8. /\ l.price \in Prices /\ l.price.of = k /\ Readable(l.price)
      /\ l.tags \in SUBSET {"facility"} /\ l.negatives \in SUBSET {"facility"}
      /\ l.agency \in Houses \union {Absent} /\ l.fresh \in BOOLEAN
  BY <1>3, <1>5, <1>t
<1>9. Whole(k, l)
  BY <1>5, <1>6, <1>7, <1>8 DEF Whole
<1> QED
  BY <1>1, <1>7, <1>9, OwnListing DEF k, l

-----------------------------------------------------------------------------
(* Storing what a detail page gave.                                         *)

LEMMA ObservedIsOwn ==
  ASSUME NEW k \in Keys, candidates[k] \in Own(k), NEW page \in DetailPages, Usable(k, page)
  PROVE  /\ Observed(k, page) \in Own(k) /\ Observed(k, page).level = "detail"
         /\ Observed(k, page).fresh
<1> DEFINE parsed == ParseDetailPage(page)
           h == Hydrate(candidates[k], parsed)
           l == Observed(k, page)
<1>1. parsed.title # Absent /\ parsed.id = candidates[k].id
  BY DEF Usable, Identified
<1>2. Whole(page.key, parsed) /\ parsed.level = "detail"
  BY <1>1, DetailPageIsOwn
<1>3. page.key = k
  BY <1>1, <1>2, OwnFields DEF Whole
<1>4. Whole(k, h) /\ h.level = "detail"
  <2> HIDE DEF parsed
  <2> QED
    BY <1>2, <1>3, HydrateKeeps
<1>5. l = [h EXCEPT !.level = "detail", !.fresh = TRUE, !.agency = ParseAgency(page)]
  BY DEF Observed
<1>6. ParseAgency(page) \in Houses \union {Absent}
  BY PageFields DEF ParseAgency
<1> HIDE DEF h, l
<1>7. h = [f \in AllFields |-> h[f]]
  BY <1>4 DEF Whole
<1>8. l = [f \in AllFields |-> IF f = "level" THEN "detail"
                               ELSE IF f = "fresh" THEN TRUE
                               ELSE IF f = "agency" THEN ParseAgency(page) ELSE h[f]]
  BY <1>5, <1>7 DEF AllFields
<1>9. /\ l.id = h.id /\ l.level = "detail" /\ l.fresh = TRUE /\ l.title = h.title
      /\ l.station = h.station /\ l.age = h.age /\ l.display = h.display /\ l.price = h.price
      /\ l.tags = h.tags /\ l.negatives = h.negatives /\ l.agency = ParseAgency(page)
      /\ l = [f \in AllFields |-> l[f]]
  BY <1>8 DEF AllFields
<1>10. h.title # Absent /\ Exact(h.price) /\ h.level \in Levels
  BY <1>4 DEF Whole
<1>11. Whole(k, l)
  BY <1>4, <1>6, <1>9, <1>10 DEF Whole
<1> QED
  BY <1>9, <1>11, OwnListing DEF l

\* Every table on the way is reached from the one before the first card.
LEMMA AfterPageKeeps ==
  ASSUME NEW k \in Keys, candidates[k] \in Own(k), row \in OwnRows, ~Cached(k),
         NEW page \in DetailPages, Usable(k, page),
         NEW cards, cards \subseteq CardCells, IsFiniteSet(cards)
  PROVE  LET new == AfterPage(k, page, cards)
         IN new \in RowsFrom(row) /\ new[k] # Nothing /\ new[k].level = "detail"
<1> DEFINE base == Stored(row, Observed(k, page))
           A == RowsFrom(base)
           step == [cr \in cards \X A |-> Stored(cr[2], NormalizeCard(cr[1]))]
           pick == [T \in SUBSET cards |-> CHOOSE x \in T : TRUE]
           rec == CHOOSE it : it = [T \in SUBSET cards |->
                    IF T = {} THEN base
                    ELSE Stored(it[T \ {CHOOSE x \in T : TRUE}],
                                NormalizeCard(CHOOSE x \in T : TRUE))]
<1>1. AfterPage(k, page, cards) = rec[cards]
  BY DEF AfterPage, FoldSet, MapThenFoldSet
<1>2. base \in RowsFrom(row) /\ base[k] # Nothing /\ base[k].level = "detail"
  <2>1. Observed(k, page) \in Own(k) /\ Observed(k, page).level = "detail"
    BY ObservedIsOwn
  <2>2. Due(row[k], Observed(k, page))
    BY ObservedIsOwn DEF Due, Cached
  <2> QED
    BY <2>1, <2>2, StoredKeeps
<1> HIDE DEF base
<1>3. base \in OwnRows /\ base \in A
  BY <1>2, RowsFromBase DEF RowsFrom
<1>4. ASSUME NEW card \in cards, NEW rows \in A PROVE Stored(rows, NormalizeCard(card)) \in A
  <2>1. card \in CardCells
    OBVIOUS
  <2>2. /\ card.key \in Keys /\ NormalizeCard(card) \in Own(card.key)
        /\ Due(rows[card.key], NormalizeCard(card))
    BY <2>1, CardIsOwn DEF Due
  <2>3. rows \in OwnRows
    BY DEF RowsFrom
  <2>4. Stored(rows, NormalizeCard(card)) \in RowsFrom(rows)
    BY <2>2, <2>3, StoredKeeps
  <2> QED
    BY <1>3, <2>3, <2>4, RowsFromTransitive
<1> HIDE DEF A
<1>5. step \in [cards \X A -> A] /\ \A card \in cards : \A rows \in A :
        step[<<card, rows>>] = Stored(rows, NormalizeCard(card))
  BY <1>4
<1>6. Picks(pick, cards)
  BY DEF Picks
<1>7. PICK it \in [SUBSET cards -> A] : Folds(it, cards, base, step, pick)
  <2> HIDE DEF step, pick
  <2> QED
    BY <1>3, <1>5, <1>6, FoldExists
<1>8. ASSUME NEW T \in SUBSET cards
      PROVE  it[T] = IF T = {} THEN base
                     ELSE Stored(it[T \ {CHOOSE x \in T : TRUE}],
                                 NormalizeCard(CHOOSE x \in T : TRUE))
  <2>1. CASE T = {}
    BY <1>7, <2>1 DEF Folds
  <2>2. CASE T # {}
    <3>1. pick[T] = (CHOOSE x \in T : TRUE) /\ pick[T] \in cards
      BY <2>2
    <3> HIDE DEF step, pick
    <3>2. it[T] = step[<<pick[T], it[T \ {pick[T]}]>>]
      BY <1>7, <2>2 DEF Folds
    <3>3. it[T \ {pick[T]}] \in A
      <4>1. T \ {pick[T]} \in SUBSET cards
        OBVIOUS
      <4> QED
        BY <1>7, <4>1
    <3>4. it[T] = Stored(it[T \ {pick[T]}], NormalizeCard(pick[T]))
      BY <1>5, <3>1, <3>2, <3>3
    <3> QED
      BY <2>2, <3>1, <3>4
  <2> QED
    BY <2>1, <2>2
<1>9. it = [T \in SUBSET cards |->
              IF T = {} THEN base
              ELSE Stored(it[T \ {CHOOSE x \in T : TRUE}],
                          NormalizeCard(CHOOSE x \in T : TRUE))]
  BY <1>7, <1>8
<1>10. rec = [T \in SUBSET cards |->
                IF T = {} THEN base
                ELSE Stored(rec[T \ {CHOOSE x \in T : TRUE}],
                            NormalizeCard(CHOOSE x \in T : TRUE))]
  BY <1>9
<1>11. \A T \in SUBSET cards : rec[T] = it[T]
  <2> DEFINE E == {T \in SUBSET cards : rec[T] = it[T]}
  <2>1. {} \in E
    BY <1>8, <1>10
  <2>2. \A T \in SUBSET cards : T # {} /\ T \ {pick[T]} \in E => T \in E
    <3> SUFFICES ASSUME NEW T \in SUBSET cards, T # {}, T \ {pick[T]} \in E PROVE rec[T] = it[T]
      OBVIOUS
    <3>1. rec[T \ {CHOOSE x \in T : TRUE}] = it[T \ {CHOOSE x \in T : TRUE}]
      OBVIOUS
    <3>2. it[T] = Stored(it[T \ {CHOOSE x \in T : TRUE}], NormalizeCard(CHOOSE x \in T : TRUE))
      BY <1>8
    <3>3. rec[T] = Stored(rec[T \ {CHOOSE x \in T : TRUE}], NormalizeCard(CHOOSE x \in T : TRUE))
      BY <1>10
    <3> QED
      BY <3>1, <3>2, <3>3
  <2>3. E \in SUBSET SUBSET cards
    OBVIOUS
  <2> HIDE DEF E, pick
  <2>4. E = SUBSET cards
    BY <1>6, <2>1, <2>2, <2>3, PickInduction
  <2> QED
    BY <2>4 DEF E
<1>12. rec[cards] \in RowsFrom(base)
  <2>1. rec[cards] \in A
    BY <1>7, <1>11
  <2> QED
    BY <2>1 DEF A
<1> HIDE DEF rec
<1>13. rec[cards] \in RowsFrom(row)
  BY <1>2, <1>12, RowsFromTransitive
<1>14. rec[cards][k] # Nothing /\ rec[cards][k].level = "detail"
  BY <1>2, <1>3, <1>12, DetailStays DEF RowsFrom
<1> QED
  BY <1>1, <1>13, <1>14

-----------------------------------------------------------------------------
(* The invariant.                                                           *)

\* d may be shown of k while r is its row and c its summary.
FitToShow(k, d, r, c) ==
  /\ OwnFacts(k, d) /\ Readable(d.price)
  /\ d.flag \in BOOLEAN /\ (d.flag <=> d.level = "detail")
  /\ d.flag => r # Nothing /\ r.level = "detail" /\ d.title # Absent /\ Exact(d.price)
  /\ ~d.flag => c # Nothing /\ \A f \in DOMAIN c \ {"level"} : d[f] = c[f]

\* Rows and summaries keep to themselves, and a row at detail level has the title
\* that _scrape_details asks of a page before it stores anything.
PagesInv ==
  /\ row \in OwnRows /\ candidates \in OwnRows
  /\ details = [k \in Keys |-> details[k]]
  /\ \A k \in Keys : details[k] # Nothing => FitToShow(k, details[k], row[k], candidates[k])

LEMMA InvGivesProperties == PagesInv => TypeOK /\ OwnFactsOnly /\ FlagTellsDetail
<1> SUFFICES ASSUME PagesInv PROVE TypeOK /\ OwnFactsOnly /\ FlagTellsDetail
  OBVIOUS
<1>1. ASSUME NEW k \in Keys, NEW rows \in OwnRows, rows[k] # Nothing
      PROVE  /\ rows[k] \in Listings /\ Readable(rows[k].price) /\ OwnFacts(k, rows[k])
             /\ rows[k].level = "detail" => Exact(rows[k].price)
  BY <1>1 DEF OwnRows, OwnRow, Own
<1>2. ASSUME NEW k \in Keys, details[k] # Nothing
      PROVE  FitToShow(k, details[k], row[k], candidates[k])
  BY <1>2 DEF PagesInv
<1>3. row \in OwnRows /\ candidates \in OwnRows
  BY DEF PagesInv
<1>4. TypeOK
  BY <1>1, <1>2, <1>3 DEF TypeOK, FitToShow
<1>5. OwnFactsOnly
  <2> SUFFICES ASSUME NEW k \in Keys, NEW l \in {row[k], candidates[k], details[k]}, l # Nothing
               PROVE  OwnFacts(k, l)
    BY DEF OwnFactsOnly
  <2> QED
    BY <1>1, <1>2, <1>3 DEF FitToShow
<1>6. FlagTellsDetail
  BY <1>2 DEF FlagTellsDetail, FitToShow
<1> QED
  BY <1>4, <1>5, <1>6

LEMMA InitPages == Init => PagesInv
<1> SUFFICES ASSUME Init PROVE PagesInv
  OBVIOUS
<1>1. [k \in Keys |-> Nothing] \in OwnRows
  BY DEF OwnRows, OwnRow, Rows
<1> QED
  BY <1>1 DEF Init, PagesInv

LEMMA ReturnedFields ==
  ASSUME NEW l, NEW ok, DOMAIN l = AllFields
  PROVE  /\ \A f \in AllFields : Returned(l, ok)[f] = l[f]
         /\ Returned(l, ok).flag = ok
BY DEF Returned, AllFields

LEMMA HydratedIsFit ==
  ASSUME NEW k \in Keys, NEW l \in Own(k), l.level = "detail", NEW r, r # Nothing,
         r.level = "detail", NEW c
  PROVE  FitToShow(k, Returned(l, TRUE), r, c)
<1>1. Whole(k, l) /\ DOMAIN l = AllFields /\ OwnFacts(k, l)
  BY OwnFields DEF Own
<1>2. (\A f \in AllFields : Returned(l, TRUE)[f] = l[f]) /\ Returned(l, TRUE).flag = TRUE
  BY <1>1, ReturnedFields
<1> DEFINE d == Returned(l, TRUE)
<1> HIDE DEF d
<1>3. /\ d.id = l.id /\ d.level = l.level /\ d.title = l.title /\ d.station = l.station
      /\ d.age = l.age /\ d.display = l.display /\ d.price = l.price /\ d.flag = TRUE
  BY <1>2 DEF d, AllFields
<1>4. OwnFacts(k, d) /\ Readable(d.price) /\ d.title # Absent /\ Exact(d.price)
  BY <1>1, <1>3 DEF OwnFacts, Whole
<1>5. FitToShow(k, d, r, c)
  BY <1>3, <1>4 DEF FitToShow
<1> QED
  BY <1>5 DEF d

LEMMA FallbackIsFit ==
  ASSUME NEW k \in Keys, candidates[k] \in Own(k), NEW r
  PROVE  FitToShow(k, Fallback(k), r, candidates[k])
<1> DEFINE c == candidates[k]
           p == [c EXCEPT !.level = "partial"]
           d == Returned(p, FALSE)
<1>1. Whole(k, c) /\ DOMAIN c = AllFields /\ OwnFacts(k, c) /\ c # Nothing
  BY OwnFields, OwnListing DEF Own
<1> HIDE DEF c
<1>2. DOMAIN p = AllFields /\ p.level = "partial" /\ \A f \in AllFields \ {"level"} : p[f] = c[f]
  BY <1>1 DEF AllFields
<1> HIDE DEF p
<1>3. (\A f \in AllFields : d[f] = p[f]) /\ d.flag = FALSE
  BY <1>2, ReturnedFields
<1> HIDE DEF d
<1>4. \A f \in AllFields \ {"level"} : d[f] = c[f]
  BY <1>2, <1>3
<1>5. d.level = "partial"
  BY <1>2, <1>3 DEF AllFields
<1>6. /\ d.id = c.id /\ d.title = c.title /\ d.station = c.station
      /\ d.age = c.age /\ d.display = c.display /\ d.price = c.price
  BY <1>4 DEF AllFields
<1>7. OwnFacts(k, d) /\ Readable(d.price)
  BY <1>1, <1>6 DEF OwnFacts, Whole
<1>8. FitToShow(k, d, r, c)
  BY <1>1, <1>3, <1>4, <1>5, <1>7 DEF FitToShow
<1>9. Fallback(k) = d
  BY DEF Fallback, d, p, c
<1> QED
  BY <1>8, <1>9 DEF c

\* A table reached from the rows, and one more detail shown.
LEMMA ShownKeeps ==
  ASSUME PagesInv, NEW k \in Keys, NEW d, row' \in RowsFrom(row), candidates' = candidates,
         details' = [details EXCEPT ![k] = d], FitToShow(k, d, row'[k], candidates[k])
  PROVE  PagesInv'
<1>1. row \in OwnRows /\ candidates \in OwnRows /\ details = [j \in Keys |-> details[j]]
  BY DEF PagesInv
<1>2. row' \in OwnRows
  BY DEF RowsFrom
<1>3. /\ details' = [j \in Keys |-> details'[j]] /\ details'[k] = d
      /\ \A j \in Keys : j # k => details'[j] = details[j]
  BY <1>1
<1>4. ASSUME NEW j \in Keys, details'[j] # Nothing
      PROVE  FitToShow(j, details'[j], row'[j], candidates'[j])
  <2>1. CASE j = k
    BY <1>3, <2>1
  <2>2. CASE j # k
    <3>1. FitToShow(j, details[j], row[j], candidates[j]) /\ details'[j] = details[j]
      BY <1>3, <1>4, <2>2 DEF PagesInv
    <3>2. row[j] # Nothing /\ row[j].level = "detail" => row'[j] # Nothing /\ row'[j].level = "detail"
      BY <1>1, <1>2, DetailStays DEF RowsFrom
    <3> QED
      BY <3>1, <3>2 DEF FitToShow
  <2> QED
    BY <2>1, <2>2
<1> QED
  BY <1>1, <1>2, <1>3, <1>4 DEF PagesInv

LEMMA SearchKeeps ==
  ASSUME PagesInv, Search
  PROVE  PagesInv' /\ row' \in RowsFrom(row)
<1>1. PICK page \in ListPages :
        LET found == ByKey(ParseListPage(page)) IN
          /\ row' = [k \in Keys |-> IF found[k] = Nothing THEN row[k]
                                    ELSE Stored(row, found[k])[k]]
          /\ candidates' = found
          /\ details' = [k \in Keys |-> Nothing]
  BY DEF Search
<1> DEFINE found == ByKey(ParseListPage(page))
<1>2. found \in OwnRows /\ \A k \in Keys : found[k] # Nothing => found[k].level = "partial"
  BY ListPageIsRead, ByKeyIsOwn
<1>3. /\ row' = [k \in Keys |-> IF found[k] = Nothing THEN row[k] ELSE Stored(row, found[k])[k]]
      /\ candidates' = found /\ details' = [k \in Keys |-> Nothing]
  BY <1>1
<1> HIDE DEF found
<1>4. row \in OwnRows
  BY DEF PagesInv
<1>5. ASSUME NEW k \in Keys
      PROVE  row'[k] \in OwnRow(k) /\ Grown(row[k], row'[k]) /\ Renewed(row[k], row'[k])
  <2>1. CASE found[k] = Nothing
    <3>1. row'[k] = row[k]
      BY <1>3, <2>1
    <3> QED
      BY <1>4, <3>1, GrownReflexive, RenewedReflexive DEF OwnRows
  <2>2. CASE found[k] # Nothing
    <3>1. found[k] \in Own(k) /\ Due(row[k], found[k])
      BY <1>2, <2>2 DEF OwnRows, OwnRow, Due
    <3>2. Stored(row, found[k]) \in RowsFrom(row)
      BY <1>4, <3>1, StoredKeeps
    <3>3. row'[k] = Stored(row, found[k])[k]
      BY <1>3, <2>2
    <3> QED
      BY <3>2, <3>3 DEF RowsFrom, OwnRows
  <2> QED
    BY <2>1, <2>2
<1>6. row' \in [Keys -> Rows]
  <2>1. \A k \in Keys : OwnRow(k) \subseteq Rows
    BY DEF OwnRow, Rows, Own
  <2>2. \A k \in Keys : row'[k] \in Rows
    BY <1>5, <2>1
  <2>3. row' = [k \in Keys |-> row'[k]]
    BY <1>3
  <2> QED
    BY <2>2, <2>3
<1>7. row' \in RowsFrom(row)
  BY <1>5, <1>6 DEF RowsFrom, OwnRows
<1>8. PagesInv'
  <2>1. row' \in OwnRows /\ candidates' \in OwnRows
    BY <1>2, <1>3, <1>7 DEF RowsFrom
  <2>2. details' = [k \in Keys |-> details'[k]] /\ \A k \in Keys : details'[k] = Nothing
    BY <1>3
  <2> QED
    BY <2>1, <2>2 DEF PagesInv
<1> QED
  BY <1>7, <1>8

LEMMA CandidateIsOwn ==
  ASSUME PagesInv, NEW k \in Keys, candidates[k] # Nothing
  PROVE  candidates[k] \in Own(k)
BY DEF PagesInv, OwnRows, OwnRow

LEMMA FromCacheKeeps ==
  ASSUME PagesInv, NEW k \in Keys, FromCache(k)
  PROVE  PagesInv' /\ row' \in RowsFrom(row)
<1> DEFINE h == Hydrate(candidates[k], row[k])
<1>1. /\ candidates[k] \in Own(k) /\ row[k] # Nothing /\ row[k].level = "detail"
      /\ row \in OwnRows /\ row' = row /\ candidates' = candidates
      /\ details' = [details EXCEPT ![k] = Returned(h, TRUE)]
  BY CandidateIsOwn DEF FromCache, Cached, PagesInv
<1>2. row[k] \in Own(k)
  BY <1>1 DEF OwnRows, OwnRow
<1>3. Whole(k, h) /\ h.level = "detail"
  BY <1>1, <1>2, OwnFields, HydrateKeeps
<1> HIDE DEF h
<1>4. h \in Own(k)
  BY <1>3, OwnListing
<1>5. FitToShow(k, Returned(h, TRUE), row'[k], candidates[k])
  BY <1>1, <1>3, <1>4, HydratedIsFit
<1>6. row' \in RowsFrom(row)
  BY <1>1, RowsFromBase
<1> QED
  BY <1>1, <1>5, <1>6, ShownKeeps

LEMMA FromPageKeeps ==
  ASSUME PagesInv, NEW k \in Keys, FromPage(k)
  PROVE  PagesInv' /\ row' \in RowsFrom(row)
<1>1. PICK page \in DetailPages :
        /\ Usable(k, page) /\ row' = AfterPage(k, page, ParseCards(page, k))
        /\ details' = [details EXCEPT ![k] = Returned(Observed(k, page), TRUE)]
  BY DEF FromPage
<1>2. candidates[k] \in Own(k) /\ candidates' = candidates /\ row \in OwnRows /\ ~Cached(k)
  BY CandidateIsOwn DEF FromPage, Waiting, PagesInv
<1>3. ParseCards(page, k) \subseteq CardCells /\ IsFiniteSet(ParseCards(page, k))
  BY PageFields
<1>4. row' \in RowsFrom(row) /\ row'[k] # Nothing /\ row'[k].level = "detail"
  BY <1>1, <1>2, <1>3, AfterPageKeeps
<1>5. Observed(k, page) \in Own(k) /\ Observed(k, page).level = "detail"
  BY <1>1, <1>2, ObservedIsOwn
<1>6. FitToShow(k, Returned(Observed(k, page), TRUE), row'[k], candidates[k])
  BY <1>4, <1>5, HydratedIsFit
<1> QED
  BY <1>1, <1>2, <1>4, <1>6, ShownKeeps

LEMMA GiveUpKeeps ==
  ASSUME PagesInv, NEW k \in Keys, GiveUp(k)
  PROVE  PagesInv' /\ row' \in RowsFrom(row)
<1>1. /\ candidates[k] \in Own(k) /\ candidates' = candidates /\ row' = row /\ row \in OwnRows
      /\ details' = [details EXCEPT ![k] = Fallback(k)]
  BY CandidateIsOwn DEF GiveUp, Waiting, PagesInv
<1>2. row' \in RowsFrom(row)
  BY <1>1, RowsFromBase
<1>3. FitToShow(k, Fallback(k), row'[k], candidates[k])
  BY <1>1, FallbackIsFit
<1> QED
  BY <1>1, <1>2, <1>3, ShownKeeps

LEMMA GiveUpLateKeeps ==
  ASSUME PagesInv, NEW k \in Keys, GiveUpLate(k)
  PROVE  PagesInv' /\ row' \in RowsFrom(row)
<1>1. /\ candidates[k] \in Own(k) /\ candidates' = candidates /\ row \in OwnRows /\ ~Cached(k)
      /\ details' = [details EXCEPT ![k] = Fallback(k)]
  BY CandidateIsOwn DEF GiveUpLate, Waiting, PagesInv
<1>2. PICK page \in DetailPages : \E cards \in SUBSET ParseCards(page, k) :
        Usable(k, page) /\ row' = AfterPage(k, page, cards)
  BY DEF GiveUpLate
<1>3. PICK cards \in SUBSET ParseCards(page, k) :
        Usable(k, page) /\ row' = AfterPage(k, page, cards)
  BY <1>2
<1>4. cards \subseteq CardCells /\ IsFiniteSet(cards)
  <2>1. ParseCards(page, k) \subseteq CardCells /\ IsFiniteSet(ParseCards(page, k))
    BY PageFields
  <2> QED
    BY <2>1, FS_Subset
<1>5. row' \in RowsFrom(row)
  BY <1>1, <1>3, <1>4, AfterPageKeeps
<1>6. FitToShow(k, Fallback(k), row'[k], candidates[k])
  BY <1>1, FallbackIsFit
<1> QED
  BY <1>1, <1>5, <1>6, ShownKeeps

\* What StoredOnlyGrows says of a detail.
Refreshed(a, b) == a # Nothing /\ a.level = "detail" /\ b # a => b.fresh # a.fresh

LEMMA ExpireKeeps ==
  ASSUME PagesInv, NEW k \in Keys, Expire(k)
  PROVE  PagesInv' /\ (\A j \in Keys : Grown(row[j], row'[j]) /\ Refreshed(row[j], row'[j]))
<1> DEFINE r == [row[k] EXCEPT !.fresh = FALSE]
<1>1. /\ row[k] # Nothing /\ row[k].fresh /\ row \in OwnRows /\ candidates' = candidates /\ details' = details
      /\ row' = [row EXCEPT ![k] = r]
  BY DEF Expire, PagesInv
<1>2. row[k] \in Own(k) /\ row \in [Keys -> Rows]
  BY <1>1 DEF OwnRows, OwnRow
<1>3. Whole(k, row[k]) /\ DOMAIN row[k] = AllFields
  BY <1>2, OwnFields
<1>4. r.fresh = FALSE /\ DOMAIN r = AllFields /\ \A f \in AllFields \ {"fresh"} : r[f] = row[k][f]
  BY <1>3 DEF AllFields
<1>5. r = [f \in AllFields |-> r[f]]
  BY <1>3
<1> HIDE DEF r
<1>6. /\ r.id = row[k].id /\ r.level = row[k].level /\ r.title = row[k].title
      /\ r.station = row[k].station /\ r.age = row[k].age /\ r.display = row[k].display
      /\ r.price = row[k].price /\ r.tags = row[k].tags /\ r.negatives = row[k].negatives
      /\ r.agency = row[k].agency
  BY <1>4 DEF AllFields
<1>7. Whole(k, r)
  BY <1>3, <1>4, <1>5, <1>6 DEF Whole
<1>8. r \in Own(k) /\ r # Nothing
  BY <1>7, OwnListing
<1>9. Grown(row[k], r)
  <2>1. \A f \in Texts \union Lists : r[f] = row[k][f]
    BY <1>4 DEF Texts, Lists, AllFields
  <2>2. Rank(r.level) >= Rank(row[k].level)
    BY <1>6, GrownReflexive, <1>1 DEF Grown
  <2> QED
    BY <1>6, <1>8, <2>1, <2>2 DEF Grown
<1>10. row' \in OwnRows /\ \A j \in Keys : Grown(row[j], row'[j]) /\ Refreshed(row[j], row'[j])
  <2>1. r \in Rows /\ r \in OwnRow(k)
    BY <1>8 DEF Rows, Own, OwnRow
  <2>2. row' \in [Keys -> Rows]
    BY <1>1, <1>2, <2>1
  <2>3. ASSUME NEW j \in Keys
        PROVE  row'[j] \in OwnRow(j) /\ Grown(row[j], row'[j]) /\ Refreshed(row[j], row'[j])
    <3>1. CASE j = k
      BY <1>1, <1>2, <1>4, <1>9, <2>1, <3>1 DEF Refreshed
    <3>2. CASE j # k
      <4>1. row'[j] = row[j] /\ row[j] \in OwnRow(j)
        BY <1>1, <1>2, <3>2 DEF OwnRows
      <4> QED
        BY <4>1, GrownReflexive DEF Refreshed
    <3> QED
      BY <3>1, <3>2
  <2> QED
    BY <2>2, <2>3 DEF OwnRows
<1>11. ASSUME NEW j \in Keys, details'[j] # Nothing
       PROVE  FitToShow(j, details'[j], row'[j], candidates'[j])
  <2>1. FitToShow(j, details[j], row[j], candidates[j]) /\ details'[j] = details[j]
    BY <1>1, <1>11 DEF PagesInv
  <2>2. row[j] # Nothing /\ row[j].level = "detail" => row'[j] # Nothing /\ row'[j].level = "detail"
    BY <1>1, <1>10, DetailStays
  <2> QED
    BY <1>1, <2>1, <2>2 DEF FitToShow
<1>12. PagesInv'
  <2>1. row' \in OwnRows /\ candidates' \in OwnRows /\ details' = [j \in Keys |-> details'[j]]
    BY <1>1, <1>10 DEF PagesInv
  <2> QED
    BY <1>11, <2>1 DEF PagesInv
<1> QED
  BY <1>10, <1>12

LEMMA NextPages ==
  PagesInv /\ [Next]_vars =>
    PagesInv' /\ \A j \in Keys : Grown(row[j], row'[j]) /\ Refreshed(row[j], row'[j])
<1> DEFINE Kept == \A j \in Keys : Grown(row[j], row'[j]) /\ Refreshed(row[j], row'[j])
<1> SUFFICES ASSUME PagesInv, [Next]_vars PROVE PagesInv' /\ Kept
  OBVIOUS
<1>0. ASSUME row' \in RowsFrom(row) PROVE Kept
  <2> SUFFICES ASSUME NEW j \in Keys PROVE Grown(row[j], row'[j]) /\ Refreshed(row[j], row'[j])
    OBVIOUS
  <2>1. Grown(row[j], row'[j]) /\ Renewed(row[j], row'[j])
    BY <1>0 DEF RowsFrom
  <2> QED
    BY <2>1 DEF Renewed, Refreshed
<1>1. CASE Search
  BY <1>1, <1>0, SearchKeeps
<1>2. ASSUME NEW k \in Keys, FromCache(k) PROVE PagesInv' /\ Kept
  BY <1>2, <1>0, FromCacheKeeps
<1>3. ASSUME NEW k \in Keys, FromPage(k) PROVE PagesInv' /\ Kept
  BY <1>3, <1>0, FromPageKeeps
<1>4. ASSUME NEW k \in Keys, GiveUp(k) PROVE PagesInv' /\ Kept
  BY <1>4, <1>0, GiveUpKeeps
<1>5. ASSUME NEW k \in Keys, GiveUpLate(k) PROVE PagesInv' /\ Kept
  BY <1>5, <1>0, GiveUpLateKeeps
<1>6. ASSUME NEW k \in Keys, Expire(k) PROVE PagesInv' /\ Kept
  BY <1>6, ExpireKeeps
<1>7. CASE UNCHANGED vars
  <2>1. row' = row /\ candidates' = candidates /\ details' = details
    BY <1>7 DEF vars
  <2>2. row' \in RowsFrom(row)
    BY <2>1, RowsFromBase DEF PagesInv
  <2>3. PagesInv'
    BY <2>1 DEF PagesInv
  <2> QED
    BY <1>0, <2>2, <2>3
<1> QED
  BY <1>1, <1>2, <1>3, <1>4, <1>5, <1>6, <1>7 DEF Next

-----------------------------------------------------------------------------

\* Whatever pages the site answers with, the listings kept and shown are whole,
\* with an amount of an upfront term exactly where its text names one; in a detail
\* 0 yen is never months or a term that was not shown (the parsers, _merge_listing,
\* _hydrate_detail).
THEOREM ListingsAreWhole == Spec => []TypeOK
<1>1. Init => PagesInv
  BY InitPages
<1>2. PagesInv /\ [Next]_vars => PagesInv'
  BY NextPages
<1>3. PagesInv => TypeOK
  BY InvGivesProperties
<1> QED
  BY <1>1, <1>2, <1>3, PTL DEF Spec

\* No listing is kept or shown with the title, station, age or price of another,
\* whichever state a detail page embeds and whichever cards it recommends
\* (_scrape_details, _save_recommendation_cards, _merge_listing).
THEOREM FactsStayWithTheirListing == Spec => []OwnFactsOnly
<1>1. Init => PagesInv
  BY InitPages
<1>2. PagesInv /\ [Next]_vars => PagesInv'
  BY NextPages
<1>3. PagesInv => OwnFactsOnly
  BY InvGivesProperties
<1> QED
  BY <1>1, <1>2, <1>3, PTL DEF Spec

\* detail_hydrated tells whether the detail of the listing was read and is in the
\* store; a listing without it is shown with the facts of the list page
\* (_scrape_details).
THEOREM FlagTellsWhatWasRead == Spec => []FlagTellsDetail
<1>1. Init => PagesInv
  BY InitPages
<1>2. PagesInv /\ [Next]_vars => PagesInv'
  BY NextPages
<1>3. PagesInv => FlagTellsDetail
  BY InvGivesProperties
<1> QED
  BY <1>1, <1>2, <1>3, PTL DEF Spec

\* Every listing number on a list page, of either layout, becomes a summary of the
\* search, and no other does (parse_list_page, harvest).
THEOREM ListPagesLoseNothing ==
  ASSUME NEW page \in ListPages, NEW k \in Keys
  PROVE  ByKey(ParseListPage(page))[k] # Nothing <=> k \in KeysOn(page)
BY ListPageIsRead, ByKeyIsOwn

\* No call lowers the level of a row or empties a field it had, and nothing but its
\* age, or then a newer detail, changes a detail (_merge_listing, _scrape_details,
\* whoever calls it).
THEOREM RowsOnlyGrow == Spec => StoredOnlyGrows
<1>1. Init => PagesInv
  BY InitPages
<1>2. PagesInv /\ [Next]_vars => PagesInv'
  BY NextPages
<1>3. PagesInv /\ [Next]_vars =>
        [\A k \in Keys : row[k] # Nothing =>
           /\ Rank(row'[k].level) >= Rank(row[k].level)
           /\ \A f \in Texts \union Lists :
                ~Empty(f, row[k][f]) => ~Empty(f, row'[k][f])
           /\ row[k].level = "detail" /\ row'[k] # row[k] => row'[k].fresh # row[k].fresh]_row
  <2> SUFFICES ASSUME PagesInv, [Next]_vars, NEW k \in Keys, row[k] # Nothing
               PROVE  /\ Rank(row'[k].level) >= Rank(row[k].level)
                      /\ \A f \in Texts \union Lists :
                           ~Empty(f, row[k][f]) => ~Empty(f, row'[k][f])
                      /\ row[k].level = "detail" /\ row'[k] # row[k]
                           => row'[k].fresh # row[k].fresh
    OBVIOUS
  <2>1. Grown(row[k], row'[k]) /\ Refreshed(row[k], row'[k])
    BY NextPages
  <2> QED
    BY <2>1 DEF Grown, Refreshed
<1> QED
  BY <1>1, <1>2, <1>3, PTL DEF Spec, StoredOnlyGrows
===============================================================================
