# Formal model of the AtHome agent harness

TLA+ specifications of `src/src/athome_harness`, checked with TLC and proved
with TLAPS. The program searches a rental portal from a chat-like command
line, scrapes listings under a bot-protected site, ranks them with an LLM and
keeps what it found in one SQLite file that background workers share with the
live sessions.

## 1. Inventory

Paths are relative to `src/src/athome_harness/`.

| component | state it keeps | operations | hard behaviours | what makes it correct |
|---|---|---|---|---|
| **Hydration queue** `store/sqlite_store.py` 506-654 | table `hydration_jobs`: status, attempts, lease token, lease end, id | `enqueue_hydration`, `claim_hydration`, `acknowledge_hydration_success`, `record_hydration_failure`, `cancel_hydration` | several processes; only the claim is one transaction; leases run out; a live refresh revokes a lease | exclusive claims, attempt budget, FIFO, settled jobs stay settled, every job is settled |
| **Hydration worker** `scraping/detail_hydration_worker.py` | the claimed job and its token | `run_once`, `run_loop`, `_process`, `_failure` | dies anywhere, outlives its lease, loses it to a session | stores before it acknowledges; never works on fresh details |
| **Live detail scraping** `cli.py` 475-547, `scraping/recommendation_cards.py` | summaries in hand, cards, intents | `_scrape_details`, `ingest_recommendation_cards` | writes to the same rows as the workers | never replaces a detail by a summary; leaves a job for what it cannot fetch |
| **Listings store** `store/sqlite_store.py` 358-482, 656-865 | `listings`, `agencies`, `searches`, `recommendations`, `feedback`, `cache_meta` | `upsert_listing`, `upsert_agency`, `link_listing_agency`, `record_*`, `set_feedback`, ... | read-merge-write in separate statements; a failed INSERT leaves a transaction open | one row per listing, no lost update, no downgrade |
| **Migration** `store/sqlite_store.py` 136-192, 339-354 | schema version | `migrate`, lazy `_conn`, `close` | two first openers; an interrupted upgrade | every opener ends with the newest schema |
| **Session refarmer** `scraping/session_refarmer.py` | `_active` adapter, `_handoff` | `fetch_html`, `fetch_binary`, `close` | a block in the middle of a session, a farm that fails | bounded refarms; one adapter open; nothing blocked is used again |
| **HTTP adapter** `scraping/http_adapter.py`, `challenge.py`, `base.py` | curl client and the proxy it is bound to | `_request_bytes`, `_http_get` | block signatures, proxy rotation, transport retries | no blocked body reaches a parser; bounded requests; direct first |
| **Proxy provider** `scraping/proxy/` | `_retries_used` | `get_proxy`, `report_block`, `reset` | the counter outlives a request | at most `proxy_retries` rotations |
| **Browser farm** `scraping/playwright_cookie_fetcher.py`, `playwright_shared.py`, `session_state.py`, `cookie_handoff.py` | browser, context, captured cookies | `farm`, settle loop, render validation | navigation while reading; a challenge that never ends | a handoff only from a settled, unblocked page; the browser is always closed |
| **Harvester** `scraping/harvester.py` | listings by id, pages, abort reason | `harvest` | budgets, blocks and empty pages in one loop | `partial` and `abort_reason` agree; budget respected |
| **Rate limiter** `scraping/rate_limiter.py` | tokens, last time | `acquire` | zero rates, clock granularity, threads | no more than a burst plus the rate in any interval |
| **Search session** `cli.py` | last plan, harvest, recommendations, turns | `search`, `refine`, `more_like`, `save`, `reject`, the command loop | failure of any step of the pipeline | ranks always refer to what was last shown; results degrade rather than vanish |
| **LLM client** `llm/base.py`, `openai_compat.py` | usage totals | `complete_text`, `complete_json` | transport retries, one repair, threads share the totals | bounded calls; every token in the totals |
| **Shortlister** `llm/shortlister.py` | batches, verdicts | `shortlist` | batches run in parallel, fail, answer with foreign ids | the selection is a subset of the candidates, of the size asked for |
| **Recommender, query parser** `llm/recommender.py`, `query_parser.py` | none | `recommend`, `parse` | answers that do not validate | only known listings and known filters come out |
| **Filter encoder** `filters/` | none | `validate`, `encode_plan` | labels become codes in the parser, codes are looked up again in the encoder, and the map is a file | what was asked is what is requested, or kept as a preference |
| **Page parsers** `scraping/list_parser.py`, `detail_parser.py`, `server_app_state.py`, `age.py`, `recommendation_cards.py` | none | `parse_list_page`, `parse_detail_page`, `extract_server_app_*`, `normalize_recommendation_card` | two layouts, embedded state of another listing, terms that are no amount | facts stay with their listing; an amount is one that the text names |
| Projection, debug files, provider subclasses, scripts | none | - | - | text in, text out: not modelled |

How they interact. `SearchSession` calls the query parser, the encoder, the
harvester, the shortlister and the recommender one after the other, and the
store in between. The harvester and `_scrape_details` share one fetch function:
refarmer, adapter, proxy provider, browser farm, nested in that order. The LLM
client is shared by the threads of the shortlister. The only state shared
between *processes* is the SQLite file: sessions and hydration workers meet in
the rows of `listings` and `hydration_jobs`, with no lock of their own around
anything but `claim_hydration`. That is where an order of steps nobody tested
is easiest to come by, and so the project begins there.

`PROJECT.json` lists the components with their status and every hazard at the
line where it bites.

## 2. Modules

| module | models | composed with | stated as |
|---|---|---|---|
| `HydrationStore` | the rows of `listings` and `hydration_jobs`, one operator per statement | - | - |
| `DetailHydration` | workers, live sessions, kills, time, interleaved by statement | `HydrationStore` | implements `WorkBoard` through `HydrationRefinement` |
| `LiveFetch` | refarmer, HTTP adapter and proxy provider over a site that answers as it likes | - | invariants |
| `FilterEncoding` | the filter map, its validation, label to code to request | - | pure operators |
| `SearchSession` | the command loop, the search pipeline, the harvester, restarts | `FilterEncoding` | invariants, one liveness property |
| `LLMBatches` | shortlist batches, thread pool, transport retries, repair, usage total | - | invariants, one liveness property |
| `SchemaOpening` | lazy opening and migration of a file under SQLite's locks | - | invariant |
| `ListingStore` | the writes of `SqliteStore` by several processes, refused statements | `SchemaOpening` | implements `StoreContract`, up to one exception |
| `PageParsing` | what the parsers read from a page | - | pure operators |
| `ListingPages` | a listing from page to row to what the recommender sees | `PageParsing` | invariants |

`MC*` modules and `.cfg` files hold the values for TLC, `*_proofs` modules the
theorems, and `DataInduction` the induction lemmas that those share (section 9).
Every module takes its sizes and limits as CONSTANTS with named
assumptions, has one action per statement or handler and uses no RECURSIVE
operator. Operators whose comment says "Mutant", or that stand before the
definition they vary under a name derived from it, are the wrong variants named
under `mutants` in `PROJECT.json`: with one of them in place of the definition,
the property listed there is violated.

The components meet at three seams. What `_scrape_details` does to the store is
in `DetailHydration` (with workers in between) and in `ListingPages` (with the
contents of the rows); what the fetch function does is `LiveFetch`, which those
two see as a page or an error; what the shortlister returns is `LLMBatches`,
which `SearchSession` sees as some subset of the candidates or an error.

## 3. The hydration protocol

### Modules

| module | role |
|---|---|
| `HydrationStore` | the rows of the two tables and each SQL statement on them |
| `DetailHydration` | the processes, one action per statement, transaction or early return; the properties |
| `WorkBoard` | abstract specification: tasks, owners, a budget; no tables, leases or tokens |
| `HydrationRefinement` | the refinement mapping from the former to the latter |
| `MCDetailHydration` | values for TLC |
| `DetailHydration_proofs`, `HydrationRefinement_proofs` | theorems |

### State and code

- `listing[k]` is the row of listing `k`: how complete it is and how many ticks
  `detail_fresh_until` lies ahead. `job[k]` is its hydration job; `nextId` the
  AUTOINCREMENT counter. Time is relative: `lease = 0` is `lease_until <= now`.
- A claim's uuid is the number of that claim of the job: unique per job, which
  is all that `_transition_claimed` tells apart.
- `pc`, `key`, `draft`, `token`, `cards`, `intents`, `saw` are the local
  variables of `_process`, `upsert_listing`, `_scrape_details`,
  `ingest_recommendation_cards` and `enqueue_hydration` at the points where
  another process can step in.

| code | actions |
|---|---|
| `claim_hydration` (one IMMEDIATE transaction, then a read) | `ClaimSkip`, `ClaimLease`; `ClaimRead` |
| `_process`: unavailable page | `CancelUnavailable` |
| `upsert_listing` (SELECT; INSERT or UPDATE) | `ReadListing`; `WriteDetail`, `StoreDetail`, `StoreDetailOnly`, and for a card `ReadCard`; `StoreCard` |
| `acknowledge_hydration_success` | `AckSelect`; `SettleJob` |
| `record_hydration_failure`, for a block, a challenge, a wrong identity, a transport or a parser error | `FailSelect`; `SettleJob` |
| `enqueue_hydration` (two reads; INSERT or UPDATE) | `EnqueueRead`, `EnqueueCheck`; `EnqueueInsert` or `EnqueueSkip` |
| `except Exception` of `_scrape_details`, end of the session | `GiveUpDetail` |
| kill, restart, clock | `Kill`, `Restart`, `Tick` |

### What is abstracted

- The two summary levels are one; payload, price, agency and error columns,
  counters and log markers are left out. The agency write that precedes a
  listing's is a different table and is in `ListingStore`.
- A listing has one identity, its AtHome key (the parsers derive the internal id
  and the URL from it), so the UPDATE of `upsert_listing` cannot conflict.
- `created_at` is taken in the order of insertion, so `created_at, id` is the
  order of ids.
- A claim that finds nothing changes nothing and is left out.
- `record_hydration_failure` checks the lease and `_transition_claimed` checks it
  again. Both raise the same error, and a token that is gone never comes back,
  so one read stands for both, and for the second call of `_failure` that the
  `except Exception` clause makes when the first one raised.
- Statements of one connection that SQLite would make wait for another's lock
  are simply later steps. The write transaction that a failed INSERT leaves open
  is in `ListingStore`.
- The summaries a *search* upserts before it scrapes details are writes of the
  same kind as a card's, and are left out here.

### Overruns

`lease_seconds` is 300 and a job is one page fetch; the code nowhere checks that
the one is longer than the other. The constant `Overruns` says which world is
meant: FALSE lets no lease expire under a worker that still holds it (`Tick`
waits), TRUE puts no limit on anybody's speed. Exclusive claims, the budget and
what may happen to a closed job need FALSE and are stated so; "succeeded means stored" is
checked under TRUE. It is stated of workers only: with sessions it is false, for
the reason `card_overwrites_detail` shows. Types and FIFO are proved for both.

### Runs

All of them use `MCDetailHydration` with two listings.

| run | instance | shows |
|---|---|---|
| `hydration_safety` | 2 workers, 1 session, budget 2, lease 2 ticks, freshness 1, 1 kill | types, `OneWorkerPerJob`, `RequeueWithinBudget`, `AttemptsPaidByCrashes`, `FifoFirstClaim`, `SettledStaysClosed`, `ClosedByLastHands`, `ImplementsWorkBoard` |
| `hydration_overruns` | 2 workers, backlog of 2, leases and freshness 2, overruns, at most 4 claims of a job | `SucceededHasDetail` |
| `hydration_progress` | 1 worker, 1 session, 1 kill, fairness | `EveryJobSettles` |
| `card_overwrites_detail` | violation | a card's write puts a summary over a detail stored meanwhile |
| `refresh_raises` | violation | a live refresh makes the worker's run end in an uncaught `ValueError` |

`SettledStaysClosed` says that a closed job is not opened again, and
`ClosedByLastHands` who may still change one that is closed, revoked ones
included. The verdict of a worker whose lease a session revoked can be written
over the revocation, and a revocation over a verdict, because the lease is
checked one statement before the status is set; but it is always the worker of
the job's last claim, never one whose job was requeued or claimed again since.
The recheck of a detail's freshness before a claim is the guard of `ClaimLease`
and no property of its own.

Bounds. Two workers are the fewest that can meet, and the session is a third
writer. Two listings give every page a card, and the queue an order. With a
budget of 2 both verdicts of a failure occur; one kill is enough to use up an
attempt without a verdict. Freshness 1 or 2 lets details go stale during a run.
`MaxClaims` only cuts where overruns let claims go on for ever: without them the
budget and the kills bound the claims below it. Symmetry (listings, workers) is
used in the safety run only. Every run checks for deadlock.

Fairness. A worker that runs goes on (`WF` of `WorkerStep`: its calls have
timeouts, those of curl included), a worker that is down is started again (the
operator's loop around `scripts/detail_hydration_worker.py`), and time passes.
Nothing is assumed of sessions, of kills or of pages: a page may fail for ever,
and the attempt budget is what ends it.

### What the code does otherwise than it is said to

Two runs of kind `violation`, `card_overwrites_detail` and `refresh_raises`, are
entries under `findings`. Two more differences follow from the actions and need
no search: `claim_hydration` never compares `attempts` with `max_attempts`, so a
job whose worker was killed is claimed beyond it (`AttemptsPaidByCrashes` says by
how much; `docs/reference/data-models.md:189` calls it the maximum), and
`enqueue_hydration` returns an existing job of any status, so a listing once
settled is never queued again when its detail goes stale (`EnqueueCheck`;
`README.md:127` of the repository says stale details are enqueued).

## 4. Fetching a page

`LiveFetch` is one page fetch, over and over, of a session's fetch function
(`build_production_fetch`): `SessionRefarmer`, which keeps an adapter;
`HttpDomAdapter`, which repeats a blocked request through proxies; the proxy
provider, whose counter lives as long as the session; the site and the browser
farm, which answer as they like.

State and code. `active` and `handoff` are the refarmer's attributes; an adapter
is its handoff and the exit its curl session was built with; `used` is the
provider's `_retries_used`; `proxy`, `attempt`, `tries`, `refarms` are the local
variables of the three nested loops. `open`, `sent` and `outcome` only record.

| code | actions |
|---|---|
| `_fetch` up to the first call | `StartFetch` |
| one `_client.get` of `_http_get`: a page, a block, a `RequestsError` | `GetPage`; `GetBlock`; `GetErrorRetry`, `GetErrorFirst`, `GetErrorRebound` |
| `_request_bytes` after a block, with `report_block` | `Rotate`; `RaiseBlock` |
| `except BlockDetected` of `_fetch` | `Farm`, `FarmFails`; `GiveUp` |
| `close` of the fetch function | `Close` |

`GetErrorFirst` and `GetErrorRebound` differ because the `except Exception` clause
of `_fetch` does not cover what is raised inside its `except BlockDetected`
clause: an error of the farm or of the rebound call closes nothing.

Abstracted: bodies and signatures (the site says whether an answer is a block),
backoff, debug files. A handoff's own exit is direct, since the only farmer in the
program is built without a proxy. No provider and an empty pool are both
`PoolSize = 0`. `get_proxy` and `reset` of the provider have no caller.

| run | instance | shows |
|---|---|---|
| `live_fetch` | two proxies, three rotations, two refarms, three tries | `OneClientOpen`, `HandoffInForce`, `BoundIdentity`, `BrowserIsLastResort`, `RequestsBounded` |

Nothing bounds the number of fetches: all counters are the program's own. A pool
shorter than the budget makes the last proxy serve twice, and two refarms replace
one bound adapter by another; `build_production_fetch` itself has one proxy and
one refarm. No fairness is
assumed: `RequestsBounded` is a safety property, and as each round of the three
loops sends a request it is also the reason a fetch ends.

A fetch may begin through the proxy that an earlier one rotated to, since the
client stays as it was rebuilt (`Via`); `docs/specs/001-athome-home-finder/spec.md:232` says direct first, always.

## 5. Searching: `FilterEncoding`, `SearchSession`

`SearchSession` is one process of `interactive()` at a time on one database: it
loads the filter map, takes commands, runs a search stage by stage, ends by an
exception, Ctrl-C or `quit`, and is started again on the same database.

State and code. `run` holds the local variables of the command under way (plan,
request parameters, page number, listings found, `partial`, shortlist, ranking,
`search_id`); `last` is `SearchSession.last_*`; `store` the tables as far as the
session reads or promises them; `report` the last report written; `status` what
the last search returned. `filterMap` and `site` are chosen once.

| code | actions |
|---|---|
| `_load_filter_map` with `validate` | `Load` |
| `parse_command`; `search`, `refine`, `save`, `reject`, `more_like` up to their first step | `Search`, `Refine`, `Save`, `Reject`, `MoreLike`, `Quit` |
| `QueryParser.parse`, the confirmation, `encode_plan` and its error | `Parse`, `Confirm`, `Encode`, `Refused` |
| `Harvester.harvest`, one iteration: a page; a block, an error, the runtime budget | `FetchPage`; `CutShort` |
| `search` after the harvest, in its order | `Persist` (once per listing), `RecordSearch`, `Shortlist`, `Details`, `Recommend`, `Remember`, `WriteReport`, `RecordRecommendations` |
| an exception at any of these, or at the prompt; the `finally` of `interactive` | `Fail`; `Close` |
| a new process | `Restart` |

`FilterEncoding` is the pure part: `Validate` is `map_schema.validate`,
`ResolvePlan` is `_resolve_plan` (label by label: the code of the first option
that has it, or a soft preference; `AddCode` is one turn of that loop), `EncodePlan` is `encode_plan` with its four
cardinalities. `CONDITIONS` keeps one field of each cardinality and two flows
whose codes differ.

Abstracted. A query is the number of its clauses. What the model answers, which
shortlist it leads to and which ranking comes back are nondeterministic within
what the code lets pass. Listings are names; their contents are `ListingPages`.
A listing has one feedback row, of which only "rejected" matters here.

| run | instance | shows |
|---|---|---|
| `search_session` | two sites (two pages; an empty page before a full one), nine filter maps of which eight are damaged or odd, four answers, budgets of two | the nine properties below |
| `report_raises` | violation, same instance | a term without a figure ends the program |

- `RequestMatchesQuery`: of every label the model asked for, either a pair of the
  request stands for it under a key of its own field, or it is kept as a
  preference, never both; and every pair stands for nothing but labels asked for.
  It relates the parser, the map's validation and the encoder, and fails if
  validation let a code be listed twice. The key matters: the two ends of a price
  range are fields of their own that share their codes, as they do in the map the
  program is shipped with.
- `RefusedOnlyForShape`: a plan is refused only for its cardinality (two values of
  a select, a toggle by its label), never because a label or field is unknown. The
  toggle is what the parser and the encoder really disagree on: the one delivers a
  code, the other wants "true" or "false", so every such plan is refused.
- `OkMeansEverything`, `SessionCoherent`, `ReportNamesItsPlan`, `HistoryIsSound`,
  `RejectedStayOut`: what was shown, remembered and stored belongs together over
  searches that fail half-way and restarts.
- `CommandReturns`: a search ends. Fairness is weak fairness of the stages, of
  loading and of closing: sequential code whose waits have timeouts. Nothing is
  assumed of the user, and nothing needs to fail.

Bounds. Two recorded searches let the second meet what the first left. With a
budget of two pages the budget ends the loop on the first site, and the empty
page ends it on the second.

## 6. Asking the model: `LLMBatches`

`Shortlister.shortlist` over `complete_json` over `complete_text`. A batch is a
thread: `call[b]` is where it is, the attempt and repair it is at, the usage of
the answer it holds and the total it has read. `main`, `merged`, `best` and
`selection` are the caller's; `billed`, `unrecorded` and `overlapped` only record:
`billed` is the usage that the transport has read from answers, `unrecorded` the
part of it that came with answers without usable content. What an answer costs
whose usage cannot be read, nobody in the program knows, and `billed` leaves it out.

| code | actions |
|---|---|
| `OpenAICompatibleProvider.__init__` | `Configure` |
| `_pack_batches`, `submit` | `PackBatches`, `Submit`; `Start` (at most `max_workers`, in order) |
| one POST: transport error or 5xx; another refusal, or an answer whose body or usage cannot be read; an answer with usage and without content; an answer | `PostUnavailable`; `PostRefused`; `PostEmpty`; `PostAnswered` |
| `_record_usage`: read, write; then parse, repair or give up | `ReadTotal`; `AddTotal` with `AfterParse` |
| `as_completed`, in any order; the final sort | `Merge`; `Return` |
| Ctrl-C in the `with` block, while it submits or while it waits; its `__exit__`; Ctrl-C again, in that `__exit__` | `InterruptSubmission`, `Interrupt`; `ExitPool`; `InterruptAgain` |

The run `llm_batches` has pools of none, two and three candidates that pack into
up to three batches on two threads, answers about own, foreign and unknown
listings, and settings of which some are refused. `OrderDoesNotMatter`: the
selection is a function of the set of valid answers. `UsageAccountedFor`:
every token billed is in the total, on its way there, or came with an answer without
content; tokens are never invented, and any others are missing only if two threads stood
between the read and the write of the total (they can: `_record_usage` takes no lock,
and the property holds because it says so). `NoThreadOutlives`: when the shortlist is
over, also after a Ctrl-C, no thread of it posts any more, unless a second Ctrl-C cut
short the wait in the pool's `__exit__` (`shutdown(wait=True)`, `main = "abandoned"`).
Then threads are left that go on posting what was submitted; what the program
closes under them before the interpreter joins them on its way out is not modelled.
`ShortlistReturns`: it is over at last, and every batch submitted ends, under an
abandoned pool as well. The packing itself is
checked against its purpose (`Packed`: nothing lost or reordered, no batch over
the limit unless it is one listing) by the assumption `PackingIsComplete`, over
all inputs of up to four listings of four sizes.

Fairness: the pool's threads and the caller run on; a request has a timeout.
CHECK_DEADLOCK is off, since a shortlist that has returned is over. Of interrupts
nothing is assumed: there may be none, one or two, at any point.

What the code does otherwise than it is said to. `docs/reference/llm.md:25` calls
`total_usage` the cumulative usage across `complete_json` calls. Two losses contradict
that: additions that overlap, and a 200 answer whose usage `openai_compat.py:245` reads
before `:253` raises on its missing content, so that `_record_usage` (`base.py:180`) is
never reached (`PostEmpty`). Both follow from single actions, and
`UsageAccountedFor` says exactly how much they take.

## 7. The store: `SchemaOpening`, `ListingStore`, `StoreContract`

Several processes on one file, each with one connection, from opening to closing
or dying. What makes this hard is SQLite's locking together with Python's implicit
transactions, so both are modelled.

- `txn[p]` is what connection `p` leaves locked between two statements: nothing
  (`none`, or `begun` after an implicit BEGIN whose statement was refused), SHARED
  (`reading`: a SELECT inside such a transaction), RESERVED (`writing`: an UPDATE
  or INSERT that broke a constraint), PENDING (`pending`: a commit refused for a
  reader). `CanRead`, `CanWrite`, `CanCommit` are the compatibility of these; the
  file has a rollback journal, as no PRAGMA changes that.
- `Committing` is a write and its commit; `WriteRefused`, `ReadRefused` are
  "database is locked", for each point at which it can come; `Conflicting` is an
  IntegrityError, which rolls nothing back.
- `disk` is what is committed, `draft` what the one writing connection sees.

| code | actions |
|---|---|
| `_conn`; `migrate`: the script, `_read_version`, the version row, the ALTERs | `Connect`; `CreateTable`, `ScriptDone`, `ReadVersion`, `Stamp`, `Inspect`, `AddColumn`, `DuplicateColumn`, `OpeningRefused` |
| `upsert_listing`: agency read and write; SELECT; INSERT, UPDATE or the UPDATE after an IntegrityError | `Upsert`, `GetAgency`, `PutAgency`; `Lookup`; `PutListing`, `ListingConflict`, `UpsertRefused` |
| `save_listing`, `reject_listing`, `clear_feedback`, `record_search`, `record_recommendation`, `set_cache_meta` | `Write`, `CallRefused` |
| a read inside a transaction left open; `close`, death of the process | `Read`; `Close` |

Each statement of the script and each ALTER commits by itself, so a migration can
be cut off or met half-way anywhere. `StoreContract` is what `BaseDataStore`
promises, with no tables or processes; `KeepsContract` is the refinement, with
`known`, `decision`, `searches`, `recommended`, `meta` read off `disk`, and one
exception, `LateCommit`: what a call wrote before its commit was refused comes
out with the next commit of the same connection.

| run | instance | shows |
|---|---|---|
| `store_file` | two processes, a new file, one of version 1 and one of version 2; four incoming listings of which one has the key of one and the URL of another; four calls in all | `OpenedIsCurrent`, `KeepsContract`, `RefusedOnlyAfterConflict`, `AgencyLossNeedsOverlap`, `IdentityMovesByRace` |
| `conflict_raises` | violation, one process, three calls | the IntegrityError branch raises again |

`FilesAssumption` says which files there are; a version 1 file that was stamped 3
by a race between two newer processes before it had its columns is not among
them. Four calls are the fewest in which one process breaks a constraint, a
second is refused and reads, a commit of the first is refused, and its next one
publishes what that left; agencies need two calls, a row that changes identity three. The two processes are symmetric,
and no property names one. `StoreAssumption` says what callers pass (a listing has
an ID, an agency it names has a number) and that an old file has one row for each
listing. No fairness is assumed. Not in this model: freshness
(in `DetailHydration`), the field merge (in `ListingPages`), and the table of
hydration jobs. So its `RefusedOnlyAfterConflict` speaks of the constraints of the other
tables: an `enqueue_hydration` whose INSERT (`sqlite_store.py:547`) meets a job that
another process has inserted since its SELECT breaks a UNIQUE constraint too, and leaves
its write lock in the same way.

## 8. Pages and rows: `PageParsing`, `ListingPages`

`PageParsing` has the parsers as functions from symbolic pages to listings. A
value is the name of what it is about, so "the price of `k1`" and "the price of
`k2`" differ and a mix-up shows; a cell that displays an upfront term is one of
nothing, "none", an amount in units of ten thousand, an amount in yen, or months. What is
modelled is which cell feeds which field, in what order sources are preferred
(embedded state, the tables of today, those of before), when a unit is left out
and what each of the three readings of a term makes of it; selectors and regular
expressions are not.

`ListingPages` follows one session: `Search` (harvest by key, upsert), then for
each candidate a detail `FromCache`, `FromPage` with its cards, `GiveUp` or
`GiveUpLate` (an error after the detail was stored), and `Expire`. `Merge` is
`_merge_listing` field by field, `Hydrate` is `_hydrate_detail`.

The run `listing_pages` has two listings in two houses, three list pages of both
layouts, and seven kinds of detail page for each listing: whole, sparse, broken,
without a title, with the state of another listing. `OwnFactsOnly`: no title,
station, age or price is ever another listing's. `FlagTellsDetail`: a detail is
flagged as hydrated exactly when the store has one. `StoredOnlyGrows`: no order of
pages, cards and details lowers a level or loses a fact, and a detail changes only by
going stale or by a newer detail of a stale one. `TypeOK` has what is demanded of
upfront terms: an amount of its own exactly when the text names one (`Readable`), and,
in a detail, 0 yen only when the page says that there is nothing to pay (`Exact`). `HouseAssumption` and
`PagesAssumption` say what pages are: a heading stands over units of its own
building, a detail page shows one listing, and the state embedded in it may be of
another, with that one's facts. `ListingIsComplete` and
`PricesAreReadable` are reference checks of the pure part, over all pages of up to
three units and all mixes of four cells, two rents and two states.

What the code does otherwise than it is said to. Two differences follow from a
definition each.

- `docs/reference/parsers.md:37-39`, `docs/reference/data-models.md:22-31` and
  `SPEC.md:159-160` say that a term of months is never an amount of yen: the field is
  `None`. The list parser of the old layout returns 0 yen for months, and for a term that
  is not shown (`scraping/list_parser.py:431-443`, `ListTerm`), so that a listing known
  from such a page only seems to ask for no deposit. `Readable` allows that, since 0 is
  not an amount named elsewhere; `Exact`, which does not, holds from the detail level up
  (and of everything the current layout and the cards give).
- `docs/reference/store.md:101-103` and `docs/reference/server-app-state.md:253-255` say
  that the detail of a stale listing is fetched again and the current one stored.
  `_merge_listing` keeps the price of a stored detail against any newer one
  (`store/sqlite_store.py:271`, `Merge`), while `detail_fresh_until` is renewed: the price
  of the first detail is served as fresh from then on. No property demands this, nor
  forbids it.

The agency of a listing is deliberately not among its own facts:
`extract_server_app_agency` does not ask whose state it reads (`ParseAgency`).

## 9. Proofs

### Hydration

For every set of listings, workers and sessions, and every value of the limits:

| theorem | states | needs |
|---|---|---|
| `TypeCorrect` | `[]TypeOK` | - |
| `StrictFifo` | `[]FifoFirstClaim` | - |
| `ExclusiveClaim` | `[]OneWorkerPerJob` | `~Overruns` |
| `RequeueBudget` | `[]RequeueWithinBudget` | `~Overruns` |
| `AttemptsBound` | `[]AttemptsPaidByCrashes` | `~Overruns` |
| `SettledClosed` | `SettledStaysClosed` | `~Overruns` |
| `ClosedJobs` | `ClosedByLastHands` | `~Overruns` |
| `SucceededIsDetailed` | `[]SucceededHasDetail` | no sessions |
| `Implements` | `ImplementsWorkBoard` | `~Overruns` |

### Fetching a page

`FetchTypes`, `NoClientLost`, `HandoffKept`, `IdentityKept`, `LastResort` and
`PoliteFetch` state `TypeOK`, `OneClientOpen`, `HandoffInForce`, `BoundIdentity`,
`BrowserIsLastResort` and `RequestsBounded` for every set of handoffs and all
budgets. `FetchInv` adds what those lack to be inductive: a fetch under way has an
adapter, bound once a refarm has happened (`AdapterAtWork`); every round of the
adapter's loop was paid for with one proxy of the provider, so the provider says
no before the loop runs out (`RoundsPaid`); the requests sent are at most
`_TRANSIENT_RETRIES` for each round so far (`RequestsPaid`), where the products need
`OneRoundMore` and `MoreRounds`.

### Assumptions and the argument for the hydration protocol

Assumptions used: `KeysFinite`, `LimitsPositive`, `BacklogOrdered`,
`ProcessesDistinct`.

Argument.

1. *What a statement does to the tables* (`SetStatusEffect`, `LeaseJobEffect`,
   `InsertJobEffect`, `AgeTablesEffect`, ...): one lemma for each statement; the
   rest of the proofs cites these and never expands a row.
2. *Types*: one step for each action, the tables and the local variables apart.
3. *FIFO*: `FifoFirstClaim` is not inductive: a new job must be the youngest and
   ids must be distinct (`IdsDistinct`), and a requeued job must have been
   claimed, which needs `JobsInHand`. `JobChanges` sorts all steps into five
   kinds of change; `OrderKept` treats those.
4. *Leases*: "no two workers have the job" is not inductive either. The reason it
   holds is that a worker with a job in hand holds its unexpired lease unless a
   session has skipped the job (`LeaseInHand`); that a verdict to requeue, taken
   one statement before it is written, still holds (`VerdictsValid`); and that a
   leased job in nobody's hands was lost with a killed worker (`OrphansPaid`),
   which is what pays for the claim beyond the budget. `QueueSteps` sorts all
   steps into eight kinds (quiet, skipping, enqueueing, aging, claiming,
   settling, losing, dying), and one lemma for each shows `LeaseInv` kept.
5. *Refinement*: each of the eight kinds is one action of the board or a stutter.

6. *Details*: `DetailInv` adds that a worker past its
   write has a listing with a detail, and one about to write carries a detail
   (`DetailsStored`). It needs no lease and so holds for overruns: a detail once
   stored stays one, because without sessions nobody writes a summary.
7. *Closed jobs*: `ClosedJobs` needs one invariant more, `LastClaim`: the token of a
   worker with a job in hand is the number of the job's last claim, since a job is not
   claimed while its lease runs and a revoked job is never queued again. A status
   that is closed is then changed by a session's skip or by that worker.

### The search session

`SessionTypes`, `NothingHidden`, `RanksAreOfTheReport`, `ReportsAreOfOnePlan`,
`HistoryFits` and `RejectionLasts` state `TypeOK`, `OkMeansEverything`,
`SessionCoherent`, `ReportNamesItsPlan`, `HistoryIsSound` and `RejectedStayOut`,
for every site, map, set of answers and budgets. None of them is inductive: what
the user sees at the prompt depends on what each stage had in hand. `SessionInv`
says so stage by stage: while pages are fetched `run.found` is the union of
those so far, none of them empty (`Paging`); after the harvest it is part of what
the pages show, and all of it unless the harvest was cut short (`Harvesting`); the
shortlist is part of the candidates and the ranking part of the shortlist
(`Selecting`); the running search is recorded under its flow and its listings are
stored (`Recorded`). `last` belongs to one search until the harvest replaces its
pool and again at the prompt (`Coherent`); in between only an exit of the process can
interrupt, which is why `Fail` leads to `closing`. `RejectionLasts` is the step
`Recommend`, with the candidates fixed since `Shortlist`.


`RequestsMatchQueries` and `RefusalsAreOfShape` state `RequestMatchesQuery` and
`RefusedOnlyForShape`. Their invariant (`EncodingInv`) is short: past the parser the
plan is the resolution of one answer under a valid map, and past the encoder the
request is that plan's. The rest is about the filters: that the codes of a list of
labels are those of its known labels and the preferences the unknown ones
(`CodesOfAll`, by induction over the loop); that in a valid map a code is an option's
of one label, so that a pair can be read back; and, for each of the four
cardinalities, which pairs a field becomes (`FieldEncoded`). A plan is refused for
shape only because a resolved plan has no unknown field or code left to refuse.

### The shortlist

`BatchTypes` and `PoolIsJoined` state `TypeOK`, with at most two attempts for a
call and one repair for a batch, and `NoThreadOutlives`. The invariant (`BatchInv`) adds that
a batch merged is settled, and that the caller is past the pool only when every
batch is, or when it was interrupted in its wait for that.

`PackingLosesNothing`: for listings of any number and sizes, the batches joined are
the candidates in their order, none is empty, and one over the limit is a single
listing. It is an induction along the fold of `_pack_batches` (`Packed` of the
batches closed so far together with the open one).

`UsageIsAccountedFor` states `UsageAccountedFor`. The equation that the
property asks for at the end is `UsageOK` on the way: the total and what is still to be
added (`Pending`, a sum over the batches) make up, with `unrecorded`, at most what was billed, even if
every thread adds to the total *it* has read, and exactly that as long as no two
additions have overlapped, since then at most one thread stands between its read
and its write and what it has read is the total.

`MergeOrderDoesNotMatter` states `OrderDoesNotMatter`. The invariant (`SelectionOK`) is that
`best_by_id` is `BestOf` the verdicts merged so far, which holds because
`BestOf(BestOf(X) \union Y) = BestOf(X \union Y)`: an entry that `best_by_id` has dropped is
dominated by one that it kept (`Dominated`), which for a finite set of verdicts is
an induction over its subsets.

### The store

`OpenedFileIsCurrent` states `OpenedIsCurrent`: for any number of processes and
any files allowed by `FilesAssumption`, whoever has opened the file finds it
complete. The invariant (`OpenInv`) is what each process knows at each point of
`migrate`: past the script every table exists; at the ALTERs, the columns outside
its list exist; and only a file of version 1 can lack columns, which is why a
process that reads version 2 or 3 need not look. `LocksAreFree` states
`RefusedOnlyAfterConflict`: as long as no constraint has broken every connection
is outside a transaction (`LocksFree`), so that no statement is ever refused. It speaks
of all connections together: after the first broken constraint, by whichever
of them, it promises nothing of any.

`StoreTypes`, `AgencyKept`, `IdentityKeptUnlessRaced` and `StoreKeepsContract` state `TypeOK`,
`AgencyLossNeedsOverlap`, `IdentityMovesByRace` and the refinement `KeepsContract`. One
invariant, `StoreInv`, carries all four:

- at most one connection is writing or has a commit pending (`TxnOK`), and what is
  being written differs from what is on disk only under a pending commit
  (`DataOK`), which is why a late commit is the only way to publish anything but
  one statement;
- IDs, keys and URLs stay unique in both, and no row ever disappears (`DataOK`);
- the row of an update under way was found by its key or URL, and what it is about to
  become was merged from what was read of it (`CallsOK`): if the row has not
  changed since, its identity has not either, which is `IdentityKeptUnlessRaced`;
- while no two processes have written one agency at once, what was ever committed
  of it is on disk, in the draft, and in the hands of whoever is about to write it
  (`AgencyOK`).

One lemma for each kind of step (nothing written, a statement committed, one held by a
refused commit, a connection closed) says what it does to the two copies, and
`DiskChanges` that anything but a late commit publishes exactly one statement of one
call. The refinement is over those statements: a listing written is `UpsertNew` or
`UpsertKnown` of `StoreContract`, an agency is nothing to it, and each other write is an
action of its own.

### Pages and rows

`ListingsAreWhole`, `FactsStayWithTheirListing`, `FlagTellsWhatWasRead` and `RowsOnlyGrow` state
`TypeOK`, `OwnFactsOnly`, `FlagTellsDetail` and `StoredOnlyGrows` for any listings, houses,
list pages and detail pages as `PagesAssumption` describes them.

`Own(k)` is the set of listings that have only `k`'s facts, a price that can be read
back and, at detail level, a title and an exact price. The parsers produce nothing else
(`ListPageIsRead`, `DetailPageIsOwn` for a page that `_scrape_details` accepts,
`CardIsOwn`), and merging and hydrating stay inside (`MergeKeeps`, `HydrateKeeps`). A
page may carry the state of another listing: that state's facts are not used, because
`UsableState` compares the listing numbers before any field is taken, and the check of
the parsed number comes before anything is stored. `Grown` is what `StoredOnlyGrows`
says of the level and the facts of one row; it is transitive only among rows of `Own(k)`, where a level is one of
three. A page's cards are stored one after the other, in no particular order: every
table on the way is one of `RowsFrom` the table before (`AfterPageKeeps`, the fold as a
path in that set). `Renewed` is what it says of a detail, and holds of that path because a
page whose detail is fresh is never read (`Due`).

`PagesInv` has rows and summaries in `Own(k)` and, of every listing shown, what
`FlagTellsDetail` says. It needs the title in `Own`: a detail served from the cache is not
parsed again, and it has a title only because none was stored without. It needs
`Grown` as well: that a flagged listing has its detail in the store stays true only
because no later search or card lowers a level.

`ListPagesLoseNothing`: every listing number on a list page, in either layout and in
whichever block, becomes a summary of the search, and no other does.

### Induction

`DataInduction` has what the proofs above need about data. The induction theorems of
the library take the property as an operator, which the provers cannot instantiate, so
the lemmas here speak of the *set* of numbers, of prefixes or of finite subsets that have
the property (`NatSetInduction`, `PrefixInduction`, `FiniteSubsetInduction`), and that is a value.
`MapThenFoldSet`, `FoldLeft` and `FlattenSeq` are defined by a CHOOSE of a recursive
function; `FoldExists`, `PathExists` and `FlattenIsPath` show that there is one, given
only that a step stays within a set `A`. With `A` the set of the results one wants, the
fold's result is in it (`AfterPageKeeps`); where more is to be known, an induction follows the path.
`SumsExist` to `SumExcept` are the sum of a function over a finite set, `FlattenAppend` and
`FlattenRange` what flattening does.

### Only model-checked

- `EveryJobSettles`, `CommandReturns`, `ShortlistReturns`: liveness under fairness, which the
  prover does not reach.
- The parts of `ListingIsComplete` that speak of the order of the listings on a page, and
  that both layouts agree.
- The violations, of course.

Every invariant and action property of a passing run is stated by a theorem.

Assumptions of the other proofs: `HandoffsDistinct`, `BudgetsNatural`,
`SessionAssumption` (labels and options of maps and answers, pages, budgets),
`BatchesAssumption` (sizes are numbers, an answer's verdicts are finitely many),
`FilesAssumption`, `StoreAssumption`, `HouseAssumption`, `PagesAssumption`. TLC evaluates every
assumption on the run whose module declares it.

## 10. Findings

Each is a run of kind `violation` and an entry under `findings`, with the line of
the code and the line it contradicts.

| run | what the code does |
|---|---|
| `card_overwrites_detail` | `upsert_listing` writes back a merge of a row that has changed: a card replaces a detail |
| `refresh_raises` | a live refresh makes a worker's run end in an uncaught `ValueError` |
| `report_raises` | a key money in months is formatted as a number: the report raises, the program ends |
| `conflict_raises` | the second UPDATE of `upsert_listing` breaks a constraint as well, and leaves the write lock behind |

## 11. Not modelled

- **Browser farm, cookie handoff, session state.** What decides there is when a
  third party's page navigates under a browser that is a third party's too;
  `LiveFetch` has the outside of it, a handoff or an error. One hazard stays
  uncovered: every save goes through one temporary name
  (`scraping/cookie_handoff.py:157`).
- **Rate limiter.** Real time and floating point under one lock, used by one
  thread; with the lock held for all of `acquire` there is nothing to interleave.
  An interval of zero divides by zero (`scraping/rate_limiter.py:76`), which
  `Budgets` does not forbid.
- **`link_listing_agency`**, `get_proxy`, `reset`: no caller in the program. The
  first is the only write of `SqliteStore` without an action.
- **Prompts, projection, debug files, report layout; provider subclasses; reading
  the environment; scripts and probes**: stateless text, or command lines around
  what is modelled.
- **Fields outside the models.** A detail page without rent or area still replaces
  the summary's (`cli.py:130`), `age_display` is never hydrated, and the agency
  comes from a state whose listing nobody checked (`cli.py:498`). The models have
  these as the code does (`Hydrate`, `DetailPrice`, `ParseAgency`), so the agency
  is left out of `OwnFactsOnly` and the price of a summary out of
  `StoredOnlyGrows`, where they would be false.
