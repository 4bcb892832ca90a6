---------------------------- MODULE MCListingStore -----------------------------
(* Bounds for ListingStore: two properties met under two identities, one    *)
(* listing that has the key of the first and the URL of the second, an      *)
(* agency told in two halves, and every file migrate() may find.            *)
EXTENDS ListingStore

CONSTANTS p1, p2

Processes == Permutations({p1, p2})

Agency(fields) == [no |-> "a", fields |-> fields]
Listing(id, key, url, detail, agency) ==
  [id |-> id, key |-> key, url |-> url, detail |-> detail, agency |-> agency]

MCIncoming ==
  {Listing("i1", "k1", "u1", TRUE, Agency({"name"})),
   Listing("i2", "k2", "u2", FALSE, NoAgency),
   Listing("i2", "k1", "u2", FALSE, Agency({"phone"})),
   Listing("i1", "k3", "u3", FALSE, NoAgency)}

MCBacklog == {Listing("i1", "k1", "u1", FALSE, NoAgency)}

MCCacheValues == {[type |-> "int", value |-> 1]}

Tables(n) == {Script[i] : i \in 1..n}
File(tables, columns, version) == [tables |-> tables, columns |-> columns, version |-> version]

\* The tables a file of version 1 has: the script of then, without the two
\* that later versions added.
Version1 == Tables(5) \ {"agencies", "hydration_jobs"}

MCFiles ==
  {File({}, {}, NoVersion),
   File(Version1, {}, 1),
   File(Tables(4), Range(AddedColumns), 2)}
===============================================================================
