------------------------------ MODULE LiveFetch ------------------------------
(***************************************************************************)
(* One page fetch of a live session: SessionRefarmer over HttpDomAdapter   *)
(* over the proxy provider, and the site behind them.  A blocked request   *)
(* is repeated through the provider's proxies, and when those are used up  *)
(* through a session farmed with a browser.  Adapter, handoff and the      *)
(* provider's counter outlive the fetch.  A step is one request with its   *)
(* answer, or what the code does between two requests.                     *)
(***************************************************************************)
EXTENDS Naturals

CONSTANTS
  Handoffs,         \* browser sessions that can be farmed
  NoHandoff,        \* an adapter, or a refarmer, without one
  MaxRefarms,       \* SessionRefarmer(max_refarms=...)
  ProxyRetries,     \* Budgets.proxy_retries
  PoolSize,         \* candidates of the provider, 0 without a provider
  TransientRetries  \* _TRANSIENT_RETRIES

ASSUME HandoffsDistinct == NoHandoff \notin Handoffs
ASSUME BudgetsNatural == /\ MaxRefarms \in Nat /\ ProxyRetries \in Nat
                         /\ PoolSize \in Nat /\ TransientRetries \in Nat \ {0}

VARIABLES
  pc,       \* where _fetch is: "idle" between fetches
  active,   \* SessionRefarmer._active
  handoff,  \* SessionRefarmer._handoff
  used,     \* BaseProxyProvider._retries_used
  proxy,    \* _request_bytes: proxy_url
  attempt,  \* _request_bytes: index of its loop
  tries,    \* _http_get: index of its loop
  refarms,  \* _fetch: iterations of its loop begun
  open,     \* curl sessions built and not closed
  sent,     \* requests of this fetch
  outcome   \* how the last fetch ended

adapterVars == <<active, handoff, open>>
loopVars == <<proxy, attempt, tries, refarms>>
vars == <<pc, adapterVars, used, loopVars, sent, outcome>>

Direct == 0
Exit == 0..PoolSize
Handoff == Handoffs \cup {NoHandoff}

\* An HttpDomAdapter: its handoff and the exit its curl session is built with.
\* A farm of build_production_fetch has no proxy, and so neither has a handoff.
Adapter == [handoff : Handoff, exit : Exit]
BuildAdapter(h) == [handoff |-> h, exit |-> Direct]
NoAdapter == [handoff |-> NoHandoff, exit |-> PoolSize + 1]

Init ==
  /\ pc = "idle" /\ active = NoAdapter /\ handoff = NoHandoff
  /\ used = 0 /\ proxy = Direct /\ attempt = 0 /\ tries = 0 /\ refarms = 0
  /\ open = 0 /\ sent = 0 /\ outcome = "none"

-----------------------------------------------------------------------------
(* What the adapter and the refarmer do.                                    *)

\* An adapter bound to a handoff has no provider.
HasProvider == PoolSize > 0 /\ active.handoff = NoHandoff

\* report_block returns a proxy; the last candidate serves every further attempt.
OffersProxyOneLess == used + 1 < ProxyRetries
OffersProxyOneMore == used <= ProxyRetries
OffersProxy == used < ProxyRetries
Candidate(n) == IF n < PoolSize THEN n ELSE PoolSize

\* The exit of the next request.  curl uses the session's unless the request
\* names one, for which _http_get has built a session of its own.
Via == IF proxy = Direct THEN active.exit ELSE proxy

\* close() of the refarmer.
Discard ==
  /\ active' = NoAdapter /\ handoff' = NoHandoff
  /\ open' = IF active = NoAdapter THEN open ELSE open - 1

\* An adapter with the farmed handoff replaces the old one: one session is built
\* and one closed.
RebindForgetsHandoff(h) ==
  /\ active' = BuildAdapter(h) /\ UNCHANGED <<handoff, open>>
RebindLeaksAdapter(h) ==
  /\ active' = BuildAdapter(h) /\ handoff' = h
  /\ open' = open + 1
RebindKeepsSession(h) ==
  /\ active' = [active EXCEPT !.handoff = h] /\ handoff' = h
  /\ UNCHANGED open
Rebind(h) ==
  /\ active' = BuildAdapter(h) /\ handoff' = h
  /\ UNCHANGED open

\* A call of _request_bytes begins.
NewCall == proxy' = Direct /\ attempt' = 0 /\ tries' = 0

Finish(how) == pc' = "idle" /\ outcome' = how

-----------------------------------------------------------------------------
(* Steps.                                                                   *)

StartFetch ==
  /\ pc = "idle"
  /\ IF active = NoAdapter
       THEN active' = BuildAdapter(handoff) /\ open' = open + 1
       ELSE UNCHANGED <<active, open>>
  /\ NewCall
  /\ pc' = "get" /\ refarms' = 0 /\ sent' = 0 /\ outcome' = "none"
  /\ UNCHANGED <<handoff, used>>

\* A request is sent and answered.
Send ==
  /\ pc = "get"
  /\ sent' = sent + 1

Answered ==
  /\ Send
  /\ active' = [active EXCEPT !.exit = Via]
  /\ UNCHANGED <<handoff, open, used>>

GetPage ==
  /\ Answered
  /\ Finish("page")
  /\ UNCHANGED loopVars

GetBlock ==
  /\ Answered
  /\ pc' = "blocked"
  /\ UNCHANGED <<loopVars, outcome>>

\* A RequestsError is retried a few times.
TriesLeftOneMore == tries < TransientRetries
TriesLeft == tries + 1 < TransientRetries

GetErrorRetry ==
  /\ Answered
  /\ TriesLeft
  /\ tries' = tries + 1
  /\ UNCHANGED <<pc, proxy, attempt, refarms, outcome>>

\* The last error of a first call makes _fetch close the adapter ...
GetErrorFirst ==
  /\ Send
  /\ ~TriesLeft /\ refarms = 0
  /\ Discard
  /\ Finish("error")
  /\ UNCHANGED <<used, loopVars>>

\* ... that of a rebound call leaves through the handler and closes nothing.
GetErrorRebound ==
  /\ Answered
  /\ ~TriesLeft /\ refarms > 0
  /\ Finish("error")
  /\ UNCHANGED loopVars

\* A block with a proxy left: the loop goes on, or ends after its last round.
Rotate ==
  /\ pc = "blocked"
  /\ HasProvider /\ OffersProxy
  /\ used' = used + 1
  /\ proxy' = Candidate(used')
  /\ IF attempt < ProxyRetries
       THEN pc' = "get" /\ attempt' = attempt + 1 /\ tries' = 0
       ELSE pc' = "refarm" /\ UNCHANGED <<attempt, tries>>
  /\ UNCHANGED <<adapterVars, refarms, sent, outcome>>

\* The adapter raises BlockDetected.
RaiseBlock ==
  /\ pc = "blocked"
  /\ ~(HasProvider /\ OffersProxy)
  /\ pc' = "refarm"
  /\ UNCHANGED <<adapterVars, used, loopVars, sent, outcome>>

\* _fetch catches it; the same page is fetched with the farmed session.
Farm(h) ==
  /\ pc = "refarm" /\ refarms < MaxRefarms
  /\ Rebind(h)
  /\ NewCall
  /\ refarms' = refarms + 1
  /\ pc' = "get"
  /\ UNCHANGED <<used, sent, outcome>>

\* The error of the farm is raised; the blocked adapter stays.
FarmFails ==
  /\ pc = "refarm" /\ refarms < MaxRefarms
  /\ Finish("nofarm")
  /\ UNCHANGED <<adapterVars, used, loopVars, sent>>

\* The first block is raised; the adapter is closed, its handoff kept.
GiveUp ==
  /\ pc = "refarm" /\ refarms >= MaxRefarms
  /\ active' = NoAdapter /\ open' = open - 1
  /\ Finish("blocked")
  /\ UNCHANGED <<handoff, used, loopVars, sent>>

\* The owner closes the fetch function at the end of its session.
Close ==
  /\ pc = "idle" /\ active # NoAdapter
  /\ Discard
  /\ UNCHANGED <<pc, used, loopVars, sent, outcome>>

FetchStep ==
  \/ GetPage \/ GetBlock
  \/ GetErrorRetry \/ GetErrorFirst \/ GetErrorRebound
  \/ Rotate \/ RaiseBlock
  \/ \E h \in Handoffs : Farm(h)
  \/ FarmFails \/ GiveUp

Next == StartFetch \/ FetchStep \/ Close

Spec == Init /\ [][Next]_vars

-----------------------------------------------------------------------------
(* Properties.                                                              *)

\* Every variable keeps its type; the provider hands out at most its budget.
TypeOK ==
  /\ pc \in {"idle", "get", "blocked", "refarm"}
  /\ active \in Adapter \cup {NoAdapter}
  /\ handoff \in Handoff
  /\ used \in 0..ProxyRetries
  /\ proxy \in Exit
  /\ attempt \in 0..ProxyRetries
  /\ tries \in 0..(TransientRetries - 1)
  /\ refarms \in 0..MaxRefarms
  /\ open \in Nat /\ sent \in Nat
  /\ outcome \in {"none", "page", "error", "blocked", "nofarm"}

\* No curl session is lost: whatever path a fetch takes through its handlers,
\* the only open one is that of the adapter the refarmer holds.
OneClientOpen == open = IF active = NoAdapter THEN 0 ELSE 1

\* The handoff the refarmer would rebuild from is the one its adapter sends.
HandoffInForce == active # NoAdapter => active.handoff = handoff

\* Cookies of a browser session never leave through another exit than the one
\* they were farmed on, although the provider's proxies are engaged before it.
BoundIdentity ==
  active.handoff # NoHandoff => proxy = Direct /\ active.exit = Direct

\* The browser is started for a blocked page only when the budget of proxies is
\* spent: the adapter's own count of rounds never ends the rotation first,
\* although the provider's counter is older than the request.
BrowserIsLastResort ==
  (pc = "refarm" /\ active.handoff = NoHandoff /\ PoolSize > 0) => used = ProxyRetries

\* Transport retries, rotations and refarms multiply to no more requests for a
\* page than this; each of the nested loops sends one in every round, so that this
\* is also why a fetch ends.
RequestsBounded == sent <= TransientRetries * (1 + ProxyRetries + MaxRefarms)
=============================================================================
