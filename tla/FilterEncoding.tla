---------------------------- MODULE FilterEncoding ----------------------------
(***************************************************************************)
(* From what the model understood of a query to the address of a results   *)
(* page: the filter map and its validation, the resolution of option       *)
(* labels to codes, and the encoding of the plan.  Everything here is pure.*)
(*                                                                         *)
(* A code is <<prefix, number>>, a label [unit, n]: "3 million" is         *)
(* [unit |-> "man", n |-> 3] in the scale of Unit.  CONDITIONS keeps one   *)
(* field of each cardinality; the order and the repetition of pairs in a   *)
(* request, which the site ignores, are left out.                          *)
(***************************************************************************)
EXTENDS Naturals, FiniteSets, SequencesExt

Flows == {"rent", "buy"}
SupportedVersion == 1

\* FieldCondition: what is known of a field beside its options.
Condition(cardinality, prefix, base) ==
  [cardinality |-> cardinality, prefix |-> prefix, base |-> base,
   monotonic |-> cardinality = "single", aliases |-> {}]
PriceRange == [Condition("range", "", "PRICE") EXCEPT !.aliases = {"PRICE_RANGE"}]
PricePair == <<"PRICEFROM", "PRICETO">>

\* The same field name has codes of its own in each flow.
CONDITIONS ==
  [rent |-> [PRICEFROM |-> Condition("single", "kc", "PRICEFROM"),
             PRICETO |-> Condition("single", "kc", "PRICETO"),
             PRICE |-> PriceRange,
             MADORI |-> Condition("multi", "km", "MADORI"),
             RENOVATION |-> Condition("bool", "ak", "REFORM")],
   buy |-> [PRICEFROM |-> Condition("single", "kp", "PRICEFROM"),
            PRICETO |-> Condition("single", "kp", "PRICETO"),
            PRICE |-> PriceRange,
            MADORI |-> Condition("multi", "km", "MADORI")]]
RequiredFilters == {"PRICEFROM", "PRICETO", "MADORI"}

-----------------------------------------------------------------------------
(* The filter map.                                                          *)

Label == [unit : STRING, n : Nat]
FilterOption == [code : STRING \X Nat, label : Label]
Empty == [unit |-> "", n |-> 0]
Unit == [man |-> 10, thousand |-> 1, oku |-> 100000, yen |-> 1]

\* _label_magnitude; a placeholder such as "no lower limit" has none.
HasMagnitude(label) == label.unit \in {"new"} \cup DOMAIN Unit
Magnitude(label) == IF label.unit = "new" THEN 0 ELSE label.n * Unit[label.unit]

CheckMonotonic(options) ==
  \A i, j \in DOMAIN options :
    (i < j /\ HasMagnitude(options[i].label) /\ HasMagnitude(options[j].label))
      => Magnitude(options[i].label) < Magnitude(options[j].label)

ValidateOption(condition, option) ==
  /\ condition.prefix # "" => option.code[1] = condition.prefix
  /\ option.label # Empty

ValidateFieldLoose(condition, options) ==
  /\ \A i \in DOMAIN options : ValidateOption(condition, options[i])
  /\ condition.monotonic => CheckMonotonic(options)
ValidateField(condition, options) ==
  /\ \A i \in DOMAIN options : ValidateOption(condition, options[i])
  /\ \A i, j \in DOMAIN options : i # j => options[i].code # options[j].code
  /\ condition.monotonic => CheckMonotonic(options)

ValidateFlowLoose(flow, fields) ==
  /\ RequiredFilters \subseteq DOMAIN fields
  /\ \A f \in DOMAIN fields \cap DOMAIN CONDITIONS[flow] :
       ValidateField(CONDITIONS[flow][f], fields[f])
ValidateFlow(flow, fields) ==
  /\ RequiredFilters \subseteq DOMAIN fields
  /\ DOMAIN fields \subseteq DOMAIN CONDITIONS[flow]
  /\ \A f \in DOMAIN fields : ValidateField(CONDITIONS[flow][f], fields[f])

Validate(filterMap) ==
  /\ filterMap.version = SupportedVersion
  /\ DOMAIN filterMap.mappings = Flows
  /\ \A flow \in Flows : ValidateFlow(flow, filterMap.mappings[flow])

-----------------------------------------------------------------------------
(* QueryParser: the labels the model chose become codes of the flow, and    *)
(* what has no option becomes a soft preference.                            *)

First(S) == CHOOSE i \in S : \A j \in S : i <= j
Matches(options, label) == {i \in DOMAIN options : options[i].label = label}
CodeOf(options, label) == options[First(Matches(options, label))].code

\* fields.get(name): a field the flow's map lacks has no option to match.
OptionsOf(filterMap, flow, name) ==
  LET fields == filterMap.mappings[flow]
  IN IF name \in DOMAIN fields THEN fields[name] ELSE <<>>

\* A label takes the first option that carries it; one that no option carries
\* gives no code.
AddCode(options, codes, label) ==
  IF Matches(options, label) = {} THEN codes ELSE Append(codes, CodeOf(options, label))
Codes(options, labels) ==
  FoldLeft(LAMBDA codes, label : AddCode(options, codes, label), <<>>, labels)
LabelsOf(labels) == {labels[i] : i \in DOMAIN labels}
Demoted(name, options, labels) ==
  {<<name, l>> : l \in {l \in LabelsOf(labels) : Matches(options, l) = {}}}

\* A flow differing from the detected one is ignored: detected wins.
ResolvePlan(answer, filterMap, flow) ==
  LET opts(name) == OptionsOf(filterMap, flow, name)
      asked == DOMAIN answer.hard
  IN [flow |-> flow,
      hard |-> [name \in {x \in asked : Codes(opts(x), answer.hard[x]) # <<>>} |->
                  Codes(opts(name), answer.hard[name])],
      soft |-> UNION {Demoted(name, opts(name), answer.hard[name]) : name \in asked}]

-----------------------------------------------------------------------------
(* encode_plan.                                                             *)

Params(pairs) == [ok |-> TRUE, pairs |-> pairs]
Unencodable == [ok |-> FALSE, pairs |-> {}]

\* Conditions are looked up by their name or by an alias.
Canonical(flow, name) ==
  {f \in DOMAIN CONDITIONS[flow] : name = f \/ name \in CONDITIONS[flow][f].aliases}

KnownCode(filterMap, flow, name, code) ==
  \E i \in DOMAIN OptionsOf(filterMap, flow, name) :
    OptionsOf(filterMap, flow, name)[i].code = code

EncodeSingle(filterMap, flow, f, codes) ==
  IF Len(codes) = 1 /\ KnownCode(filterMap, flow, f, codes[1])
    THEN Params({<<CONDITIONS[flow][f].base, codes[1]>>}) ELSE Unencodable

EncodeMulti(filterMap, flow, f, codes) ==
  IF \A i \in DOMAIN codes : KnownCode(filterMap, flow, f, codes[i])
    THEN Params({<<CONDITIONS[flow][f].base, codes[i]>> : i \in DOMAIN codes})
    ELSE Unencodable

EncodeRange(filterMap, flow, codes) ==
  IF Len(codes) = 2 /\ \A i \in 1..2 : KnownCode(filterMap, flow, PricePair[i], codes[i])
    THEN Params({<<PricePair[i], codes[i]>> : i \in 1..2}) ELSE Unencodable

\* A toggle is spelled true or false; a code, as the parser delivers it, is
\* neither.
TrueWords == {<<"true", 0>>}
FalseWords == {<<"false", 0>>}
EncodeBool(filterMap, flow, f, codes) ==
  LET options == OptionsOf(filterMap, flow, f)
  IN IF Len(codes) # 1 \/ codes[1] \notin TrueWords \cup FalseWords THEN Unencodable
     ELSE IF codes[1] \in FalseWords THEN Params({})
     ELSE IF Len(options) # 1 THEN Unencodable
     ELSE Params({<<CONDITIONS[flow][f].base, options[1].code>>})

EncodeField(filterMap, flow, name, codes) ==
  IF Canonical(flow, name) = {} THEN Unencodable
  ELSE LET f == CHOOSE c \in Canonical(flow, name) : TRUE
       IN CASE CONDITIONS[flow][f].cardinality = "single" -> EncodeSingle(filterMap, flow, f, codes)
            [] CONDITIONS[flow][f].cardinality = "multi" -> EncodeMulti(filterMap, flow, f, codes)
            [] CONDITIONS[flow][f].cardinality = "range" -> EncodeRange(filterMap, flow, codes)
            [] CONDITIONS[flow][f].cardinality = "bool" -> EncodeBool(filterMap, flow, f, codes)

\* One field that cannot be encoded refuses the whole plan.
EncodePlan(plan, filterMap) ==
  LET encoded == {EncodeField(filterMap, plan.flow, name, plan.hard[name]) :
                    name \in DOMAIN plan.hard}
  IN IF \A e \in encoded : e.ok THEN Params(UNION {e.pairs : e \in encoded})
     ELSE Unencodable

\* _build_plan_list_url
ListUrl(plan, pairs, page) ==
  [path |-> IF plan.flow = "rent" THEN "chintai" ELSE "mansion",
   pairs |-> pairs, page |-> page]
===============================================================================
