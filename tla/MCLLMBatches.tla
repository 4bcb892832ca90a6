---------------------------- MODULE MCLLMBatches -----------------------------
(* Bounds for LLMBatches: two or three batches on two threads, verdicts on  *)
(* own, foreign and unknown listings, and packing over all small inputs.    *)
EXTENDS LLMBatches

Listing(id, chars) == [id |-> id, chars |-> chars]
Entry(id, score) == [id |-> id, score |-> score]

MCPools == {<<>>, <<Listing(1, 2), Listing(2, 9)>>, <<Listing(1, 2), Listing(2, 9), Listing(3, 2)>>}
MCVerdicts == {{Entry(1, 1)}, {Entry(1, 2), Entry(2, 2), Entry(9, 5)}}
MCSettings ==
  {[api_key |-> k, base_url |-> TRUE, timeout_s |-> 1, max_tokens |-> m, reasoning_effort |-> "low"] :
     k \in BOOLEAN, m \in {"none", "zero"}}

ASSUME PackingIsComplete ==
  \A n \in 0..4 : \A chars \in [1..n -> {0, 1, 4, 9}] :
    LET listings == [i \in 1..n |-> Listing(i, chars[i])]
    IN Packed(listings, PackBatches(listings))
===============================================================================
