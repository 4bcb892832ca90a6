------------------------------ MODULE LLMBatches -------------------------------
(***************************************************************************)
(* Shortlister.shortlist over BaseLLMProvider.complete_json over the       *)
(* OpenAI-compatible transport: the candidates are packed into batches,    *)
(* a pool of threads scores them through one provider, and the caller      *)
(* merges the verdicts as they complete.                                   *)
(*                                                                         *)
(* A thread is a batch: its request with one transport retry, the usage    *)
(* it adds to the provider's total by a read and a write, the parse, and   *)
(* one repair.  Listing IDs are numbers, so that the final order, by score *)
(* and then by ID, is one; a token count stands for prompt and completion. *)
(***************************************************************************)
EXTENDS Naturals, FiniteSets, Sequences, SequencesExt

CONSTANTS
  Pools,         \* sets of candidates: sequences of [id, chars]
  PrefChars,     \* length of the serialized preferences
  CharsPerToken, MaxBatchTokens, MaxWorkers, TopX,
  Verdicts,      \* what a model may answer: sets of [id, score]
  Tokens,        \* what a call may cost
  Settings       \* constructor arguments of the provider

MaxTransportAttempts == 2
MaxRepairs == 1

ASSUME BatchesAssumption ==
  /\ {PrefChars, CharsPerToken, MaxBatchTokens, MaxWorkers, TopX} \subseteq Nat \ {0}
  /\ Tokens \subseteq Nat
  /\ \A pool \in Pools : pool \in Seq([id : Nat, chars : Nat])
  /\ \A v \in Verdicts : IsFiniteSet(v) /\ v \subseteq [id : Nat, score : Nat]

VARIABLES
  main,       \* where shortlist is
  settings, candidates,
  call,       \* one record per batch
  total,      \* provider._total_usage
  billed,     \* history: the usage the transport read from the answers received
  unrecorded, \* history: the part of it that came without usable content
  overlapped, \* history: an addition began while another was under way
  merged,     \* batches whose outcome the caller has seen
  best,       \* best_by_id
  selection   \* what shortlist returns

vars == <<main, settings, candidates, call, total, billed, unrecorded, overlapped,
          merged, best, selection>>

-----------------------------------------------------------------------------
(* Packing.                                                                 *)

\* _estimate_tokens
Estimate(chars) ==
  LET up == (chars + CharsPerToken - 1) \div CharsPerToken IN IF up < 1 THEN 1 ELSE up

CostOf(batch) ==
  FoldLeft(LAMBDA sum, l : sum + Estimate(l.chars), Estimate(PrefChars), batch)

AddToPack(packed, listing) ==
  IF packed.current # <<>> /\ CostOf(packed.current) + Estimate(listing.chars) > MaxBatchTokens
    THEN [full |-> Append(packed.full, packed.current), current |-> <<listing>>]
    ELSE [packed EXCEPT !.current = Append(@, listing)]

PackBatches(listings) ==
  LET packed == FoldLeft(AddToPack, [full |-> <<>>, current |-> <<>>], listings)
  IN IF packed.current = <<>> THEN packed.full ELSE Append(packed.full, packed.current)

\* What packing has to achieve, whatever the sizes.
Packed(listings, batches) ==
  /\ FlattenSeq(batches) = listings
  /\ \A b \in DOMAIN batches :
       /\ batches[b] # <<>>
       /\ CostOf(batches[b]) <= MaxBatchTokens \/ Len(batches[b]) = 1

-----------------------------------------------------------------------------
Queued == [pc |-> "queued", attempt |-> 1, repairs |-> 0,
           valid |-> FALSE, usage |-> 0, seen |-> 0, entries |-> {}]

Batches == DOMAIN call
Active == {"post", "read", "add"}
Settled == {"answered", "failed"}
Adding == {b \in Batches : call[b].pc = "add"}
Known == {candidates[i].id : i \in DOMAIN candidates}

Init ==
  /\ main = "new" /\ settings \in Settings /\ candidates \in Pools
  /\ call = <<>> /\ total = 0 /\ billed = 0 /\ unrecorded = 0 /\ overlapped = FALSE
  /\ merged = {} /\ best = {} /\ selection = <<>>

\* OpenAICompatibleProvider.__init__
Constructible(s) ==
  /\ s.api_key /\ s.base_url
  /\ s.timeout_s >= 0
  /\ s.max_tokens = "none" \/ s.max_tokens = "positive"
  /\ s.reasoning_effort \in {"low", "medium", "high"}

Configure ==
  /\ main = "new" /\ main' = IF Constructible(settings) THEN "idle" ELSE "rejected"
  /\ UNCHANGED <<settings, candidates, call, total, billed, unrecorded, overlapped,
                 merged, best, selection>>

Submitted(n) == [b \in 1..n |-> Queued]

\* Every batch is submitted before the first is merged; the pool takes them in
\* order.
Submit ==
  /\ main = "idle"
  /\ IF candidates = <<>> THEN main' = "returned" /\ UNCHANGED call
     ELSE main' = "collect" /\ call' = Submitted(Len(PackBatches(candidates)))
  /\ UNCHANGED <<settings, candidates, total, billed, unrecorded, overlapped, merged,
                 best, selection>>

\* Ctrl-C between two submissions: the pool has some of the batches, or none.
InterruptSubmission ==
  /\ main = "idle" /\ main' = "exiting" /\ candidates # <<>>
  /\ \E n \in 0..Len(PackBatches(candidates)) : call' = Submitted(n)
  /\ UNCHANGED <<settings, candidates, total, billed, unrecorded, overlapped, merged,
                 best, selection>>

-----------------------------------------------------------------------------
(* A thread of the pool.                                                    *)

Set(b, c) == call' = [call EXCEPT ![b] = c]
Local == <<main, settings, candidates, merged, best, selection>>

Start(b) ==
  /\ call[b].pc = "queued" /\ \A a \in 1..(b - 1) : call[a].pc # "queued"
  /\ Cardinality({a \in Batches : call[a].pc \in Active}) < MaxWorkers
  /\ Set(b, [call[b] EXCEPT !.pc = "post"])
  /\ UNCHANGED <<Local, total, billed, unrecorded, overlapped>>

\* A transport error or a 5xx is tried once more.
PostUnavailableNoLimit(b) ==
  /\ call[b].pc = "post"
  /\ Set(b, [call[b] EXCEPT !.attempt = @ + 1])
  /\ UNCHANGED <<Local, total, billed, unrecorded, overlapped>>
PostUnavailable(b) ==
  /\ call[b].pc = "post"
  /\ IF call[b].attempt < MaxTransportAttempts
       THEN Set(b, [call[b] EXCEPT !.attempt = @ + 1])
       ELSE Set(b, [call[b] EXCEPT !.pc = "failed", !.attempt = 1])
  /\ UNCHANGED <<Local, total, billed, unrecorded, overlapped>>

\* Any other status, or a body or a usage that cannot be read: what such an
\* answer costs the transport never learns.
PostRefused(b) ==
  /\ call[b].pc = "post" /\ Set(b, [call[b] EXCEPT !.pc = "failed", !.attempt = 1])
  /\ UNCHANGED <<Local, total, billed, unrecorded, overlapped>>

\* A 200 answer whose usage is read and which then has no usable content: the
\* transport raises before complete_json can record what it cost.
PostEmpty(b) ==
  /\ call[b].pc = "post" /\ Set(b, [call[b] EXCEPT !.pc = "failed", !.attempt = 1])
  /\ \E usage \in Tokens :
       billed' = billed + usage /\ unrecorded' = unrecorded + usage
  /\ UNCHANGED <<Local, total, overlapped>>

\* A completion, valid for the schema or not; no usage block counts as none.
PostAnswered(b) ==
  /\ call[b].pc = "post"
  /\ \E usage \in Tokens :
       /\ billed' = billed + usage
       /\ \/ \E entries \in Verdicts :
               Set(b, [call[b] EXCEPT !.pc = "read", !.usage = usage, !.valid = TRUE,
                                      !.entries = entries])
          \/ Set(b, [call[b] EXCEPT !.pc = "read", !.usage = usage, !.valid = FALSE])
  /\ UNCHANGED <<Local, total, unrecorded, overlapped>>

\* _record_usage reads the total ...
ReadTotal(b) ==
  /\ call[b].pc = "read" /\ Set(b, [call[b] EXCEPT !.pc = "add", !.seen = total])
  /\ overlapped' = (overlapped \/ Adding # {})
  /\ UNCHANGED <<Local, total, billed, unrecorded>>

\* ... and replaces it; then the text is parsed, and an invalid one is sent
\* back for the single repair, a call with retries of its own.
AfterParse(c) ==
  LET parsed == [c EXCEPT !.attempt = 1, !.usage = 0, !.seen = 0]
  IN IF c.valid THEN [parsed EXCEPT !.pc = "answered"]
     ELSE IF c.repairs < MaxRepairs THEN [parsed EXCEPT !.pc = "post", !.repairs = @ + 1]
     ELSE [parsed EXCEPT !.pc = "failed"]
AddTotalMerged(b) ==
  /\ call[b].pc = "add" /\ total' = call[b].seen + call[b].usage * (1 + call[b].repairs)
  /\ Set(b, AfterParse(call[b]))
  /\ UNCHANGED <<Local, billed, unrecorded, overlapped>>
AddTotal(b) ==
  /\ call[b].pc = "add" /\ total' = call[b].seen + call[b].usage
  /\ Set(b, AfterParse(call[b]))
  /\ UNCHANGED <<Local, billed, unrecorded, overlapped>>

Thread(b) ==
  \/ Start(b) \/ PostUnavailable(b) \/ PostRefused(b) \/ PostEmpty(b)
  \/ PostAnswered(b) \/ ReadTotal(b) \/ AddTotal(b)

-----------------------------------------------------------------------------
(* The caller.                                                              *)

\* The best score per listing; entries of unknown listings are skipped.
BestOf(entries) ==
  {e \in entries : e.id \in Known /\ \A f \in entries : f.id = e.id => f.score <= e.score}

\* A batch that failed costs its own verdicts and nothing else.
MergeLastWins(b) ==
  /\ main = "collect" /\ b \notin merged /\ call[b].pc \in Settled
  /\ merged' = merged \cup {b}
  /\ LET new == {e \in call[b].entries : e.id \in Known}
     IN best' = IF call[b].pc = "failed" THEN best
                ELSE new \cup {e \in best : \A f \in new : f.id # e.id}
  /\ UNCHANGED <<main, settings, candidates, call, total, billed, unrecorded,
                 overlapped, selection>>
MergeAnswered(b) ==
  /\ main = "collect" /\ b \notin merged /\ call[b].pc = "answered"
  /\ merged' = merged \cup {b} /\ best' = BestOf(best \cup call[b].entries)
  /\ UNCHANGED <<main, settings, candidates, call, total, billed, unrecorded,
                 overlapped, selection>>
Merge(b) ==
  /\ main = "collect" /\ b \notin merged /\ call[b].pc \in Settled
  /\ merged' = merged \cup {b}
  /\ best' = IF call[b].pc = "failed" THEN best ELSE BestOf(best \cup call[b].entries)
  /\ UNCHANGED <<main, settings, candidates, call, total, billed, unrecorded,
                 overlapped, selection>>

Before(e, f) == e.score > f.score \/ (e.score = f.score /\ e.id < f.id)
Top(entries) ==
  LET ranked == CHOOSE s \in SetToSeqs(entries) :
                  \A i, j \in DOMAIN s : i < j => Before(s[i], s[j])
  IN SubSeq(ranked, 1, IF Len(ranked) < TopX THEN Len(ranked) ELSE TopX)

Return ==
  /\ main = "collect" /\ merged = Batches
  /\ main' = "returned" /\ selection' = Top(best)
  /\ UNCHANGED <<settings, candidates, call, total, billed, unrecorded, overlapped,
                 merged, best>>

\* Ctrl-C while the caller waits or merges: leaving the pool's with block waits
\* for every batch, the queued ones included.
Interrupt ==
  /\ main = "collect" /\ main' = "exiting"
  /\ UNCHANGED <<settings, candidates, call, total, billed, unrecorded, overlapped,
                 merged, best, selection>>

ExitPoolAtOnce ==
  /\ main = "exiting" /\ main' = "raised"
  /\ UNCHANGED <<settings, candidates, call, total, billed, unrecorded, overlapped,
                 merged, best, selection>>
ExitPool ==
  /\ main = "exiting" /\ \A b \in Batches : call[b].pc \in Settled
  /\ main' = "raised"
  /\ UNCHANGED <<settings, candidates, call, total, billed, unrecorded, overlapped,
                 merged, best, selection>>

\* Ctrl-C again, out of that wait: the caller is gone, and the threads go on with
\* what was submitted.
InterruptAgain ==
  /\ main = "exiting" /\ main' = "abandoned"
  /\ UNCHANGED <<settings, candidates, call, total, billed, unrecorded, overlapped,
                 merged, best, selection>>

Caller == Configure \/ Submit \/ Return \/ ExitPool \/ \E b \in Batches : Merge(b)
Interrupted == InterruptSubmission \/ Interrupt \/ InterruptAgain
Next == Caller \/ Interrupted \/ \E b \in Batches : Thread(b)

\* The pool's threads and the caller run on; requests have a timeout.
Spec == Init /\ [][Next]_vars /\ WF_vars(Caller) /\ WF_vars(\E b \in Batches : Thread(b))

-----------------------------------------------------------------------------
(* Properties.                                                              *)

Done == main \in {"returned", "raised", "abandoned", "rejected"}

\* Shape of the calls and of what the caller holds; two attempts, and two
\* more for the single repair, bound what a batch can cost.
TypeOK ==
  /\ main \in {"new", "idle", "collect", "exiting", "returned", "raised", "abandoned",
              "rejected"}
  /\ candidates \in Pools /\ settings \in Settings
  /\ \A b \in Batches :
       /\ call[b].pc \in {"queued"} \cup Active \cup Settled
       /\ call[b].attempt \in 1..MaxTransportAttempts /\ call[b].repairs \in 0..MaxRepairs
       /\ call[b].entries = {} \/ call[b].entries \in Verdicts
       /\ call[b].usage \in Tokens \cup {0}
  /\ {total, billed, unrecorded} \subseteq Nat /\ overlapped \in BOOLEAN
  /\ merged \subseteq Batches /\ \A e \in best : e.id \in Known

\* Whatever the order in which the batches complete, and whichever fail, the
\* selection is the best TopX of all verdicts on candidates that valid
\* answers gave, also of a batch that judged a listing of another.
OrderDoesNotMatter ==
  main = "returned" =>
    selection = Top(BestOf(UNION {call[b].entries :
                                    b \in {b \in Batches : call[b].pc = "answered"}}))

\* Every token that was billed is in the total, on its way there, or in an answer
\* without content; none is invented, and none is missing besides unless two
\* threads were between the read and the write at the same time.
UsageAccountedFor ==
  LET pending == FoldFunction(+, 0, [b \in Batches |->
                   IF call[b].pc \in {"read", "add"} THEN call[b].usage ELSE 0])
  IN /\ total + pending + unrecorded <= billed
     /\ ~overlapped => total + pending + unrecorded = billed

\* No thread of the pool outlives the shortlist, be it done or interrupted while
\* it submits, waits or merges: nothing uses the provider when the program goes
\* on to close things.  Only a second Ctrl-C, during the wait that the first has
\* led to, leaves threads behind.
NoThreadOutlives ==
  Done /\ main # "abandoned" => \A b \in Batches : call[b].pc \in Settled

\* The shortlist comes back, also when it is interrupted, and every batch that
\* was submitted ends, also under a caller that is gone.
ShortlistReturns == <>(Done /\ \A b \in Batches : call[b].pc \in Settled)
===============================================================================
