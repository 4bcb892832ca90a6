---------------------------- MODULE MCSearchSession ---------------------------
(* Bounds for SearchSession: two flows with listings of their own, a site   *)
(* with an empty page in the middle, maps with a wrong version, a repeated  *)
(* code, a foreign prefix, a field of the other flow and labels out of      *)
(* order, and answers for every cardinality.                                *)
EXTENDS SearchSession

CONSTANTS r1, r2, r3, b1

MCSites ==
  {[rent |-> <<{r1}, {r2}>>, buy |-> <<{b1}>>],
   [rent |-> <<{r1}, {}, {r3}>>, buy |-> <<>>]}

Named(unit, n) == [unit |-> unit, n |-> n]
Option(prefix, n, label) == [code |-> <<prefix, n>>, label |-> label]

Low == Named("man", 3)
High == Named("thousand", 50)
NoLimit == Named("no lower limit", 0)
Wide == Named("room", 2)
Narrow == Named("room", 1)
Renovated == Named("renovated", 0)

Rent == [PRICEFROM |-> <<Option("kc", 0, NoLimit), Option("kc", 1, Low), Option("kc", 2, High)>>,
         PRICETO |-> <<Option("kc", 1, Low), Option("kc", 2, High)>>,
         MADORI |-> <<Option("km", 1, Narrow), Option("km", 2, Wide)>>,
         RENOVATION |-> <<Option("ak", 1, Renovated)>>]
Buy == [PRICEFROM |-> <<Option("kp", 1, Low)>>,
        PRICETO |-> <<Option("kp", 1, Low)>>,
        MADORI |-> <<Option("km", 2, Wide)>>]
GoodMap == [version |-> 1, mappings |-> [rent |-> Rent, buy |-> Buy]]

RentWith(name, options) == [GoodMap EXCEPT !.mappings.rent = [@ EXCEPT ![name] = options]]
MCMaps ==
  {GoodMap,
   [GoodMap EXCEPT !.version = 2],
   [GoodMap EXCEPT !.mappings = [rent |-> Rent]],
   [GoodMap EXCEPT !.mappings.buy =
      [n \in DOMAIN Buy \cup {"RENOVATION"} |->
         IF n = "RENOVATION" THEN Rent.RENOVATION ELSE Buy[n]]],
   [GoodMap EXCEPT !.mappings.buy =
      [n \in DOMAIN Buy \cup {"PRICE"} |->
         IF n = "PRICE" THEN <<Option("kp", 1, Low), Option("kp", 2, High)>> ELSE Buy[n]]],
   RentWith("MADORI", <<Option("km", 1, Narrow), Option("km", 2, Wide), Option("km", 2, Low)>>),
   RentWith("MADORI", <<Option("kc", 1, Narrow)>>),
   RentWith("MADORI", <<Option("km", 1, Empty)>>),
   RentWith("PRICEFROM", <<Option("kc", 2, High), Option("kc", 1, Low)>>)}

Answer(hard) == [ambiguous |-> FALSE, hard |-> hard]
MCAnswers ==
  {[ambiguous |-> TRUE, hard |-> <<>>],
   Answer([PRICEFROM |-> <<Low>>, PRICETO |-> <<High>>, MADORI |-> <<Wide, Narrow>>,
          PRICE |-> <<Low, Low>>]),
   Answer([PRICETO |-> <<Low, Low>>]),
   Answer([RENOVATION |-> <<Renovated>>])}

MCBudgets == [max_pages |-> 2, shortlist_size |-> 2, recommendations_count |-> 2]
===============================================================================
