--------------------------- MODULE LiveFetch_proofs ---------------------------
(***************************************************************************)
(* Theorems of LiveFetch, for any set of handoffs and any budgets.  Their  *)
(* common inductive invariant is FetchInv below.                           *)
(***************************************************************************)
EXTENDS LiveFetch, TLAPS

\* A fetch under way has an adapter, which a refarm has bound to a handoff.
AdapterAtWork ==
  /\ pc # "idle" => active # NoAdapter
  /\ (pc # "idle" /\ refarms > 0) => active.handoff # NoHandoff

\* Every round of the loop after the first was paid for with a proxy, and an
\* adapter with a handoff has one round only.
RoundsPaid ==
  /\ pc # "idle" => attempt <= used
  /\ (pc # "idle" /\ active.handoff # NoHandoff) => attempt = 0

\* Rounds of requests that lie before the present one.
RoundsBefore == IF refarms = 0 THEN attempt ELSE ProxyRetries + refarms

\* The requests sent are at most those of the rounds before and of this one.
RequestsPaid ==
  /\ pc = "get" => sent <= TransientRetries * RoundsBefore + tries
  /\ pc \in {"blocked", "refarm"} => sent <= TransientRetries * (RoundsBefore + 1)

FetchInv ==
  /\ TypeOK
  /\ OneClientOpen
  /\ HandoffInForce
  /\ BoundIdentity
  /\ BrowserIsLastResort
  /\ AdapterAtWork
  /\ RoundsPaid
  /\ RequestsPaid
  /\ RequestsBounded

-----------------------------------------------------------------------------
(* Facts about adapters and products.                                       *)

LEMMA AdapterBuilt ==
  /\ \A h \in Handoff : /\ BuildAdapter(h) \in Adapter
                        /\ BuildAdapter(h) # NoAdapter
                        /\ BuildAdapter(h).handoff = h
                        /\ BuildAdapter(h).exit = Direct
  /\ NoAdapter \notin Adapter /\ NoAdapter.handoff = NoHandoff
BY BudgetsNatural DEF BuildAdapter, NoAdapter, Adapter, Handoff, Exit, Direct

LEMMA OneRoundMore ==
  ASSUME NEW t \in Nat, NEW n \in Nat
  PROVE  /\ t * n \in Nat
         /\ t * (n + 1) = t * n + t
OBVIOUS

LEMMA MoreRounds ==
  ASSUME NEW t \in Nat, NEW m \in Nat, NEW n \in Nat, m <= n
  PROVE  t * m <= t * n
<1> DEFINE d == n - m
<1>1. d \in Nat /\ n = m + d
  OBVIOUS
<1>2. t * d \in Nat
  BY <1>1
<1>3. t * (m + d) = t * m + t * d
  BY <1>1
<1> QED
  BY <1>1, <1>2, <1>3

-----------------------------------------------------------------------------
(* A step keeps each part.                                                  *)

\* What an answered request does to the adapter.
LEMMA AnsweredEffect ==
  ASSUME FetchInv, Answered
  PROVE  /\ active \in Adapter /\ active' \in Adapter
         /\ active' # NoAdapter
         /\ active'.handoff = active.handoff
         /\ active'.exit = IF proxy = Direct THEN active.exit ELSE proxy
         /\ UNCHANGED <<handoff, open, used>> /\ sent' = sent + 1
<1>1. pc = "get" /\ active # NoAdapter /\ active \in Adapter
  BY DEF Answered, Send, FetchInv, TypeOK, AdapterAtWork
<1>2. active' = [active EXCEPT !.exit = Via] /\ Via \in Exit
  BY <1>1 DEF Answered, Via, FetchInv, TypeOK, Adapter
<1> QED
  BY <1>1, <1>2, AdapterBuilt DEF Answered, Send, Via, Adapter

LEMMA TypeStep == FetchInv /\ [Next]_vars => TypeOK'
<1> SUFFICES ASSUME FetchInv, [Next]_vars PROVE TypeOK'
  OBVIOUS
<1> USE BudgetsNatural, AdapterBuilt
<1>1. CASE StartFetch
  BY <1>1 DEF StartFetch, NewCall, FetchInv, TypeOK, Exit, Direct
<1>2. CASE GetPage
  BY <1>2, AnsweredEffect DEF GetPage, Finish, loopVars, FetchInv, TypeOK
<1>3. CASE GetBlock
  BY <1>3, AnsweredEffect DEF GetBlock, loopVars, FetchInv, TypeOK
<1>4. CASE GetErrorRetry
  BY <1>4, AnsweredEffect DEF GetErrorRetry, TriesLeft, FetchInv, TypeOK
<1>5. CASE GetErrorFirst
  BY <1>5 DEF GetErrorFirst, Send, Discard, Finish, loopVars, FetchInv, TypeOK,
              OneClientOpen, Handoff
<1>6. CASE GetErrorRebound
  BY <1>6, AnsweredEffect DEF GetErrorRebound, Finish, loopVars, FetchInv, TypeOK
<1>7. CASE Rotate
  BY <1>7 DEF Rotate, OffersProxy, HasProvider, Candidate, adapterVars, Exit,
              FetchInv, TypeOK
<1>8. CASE RaiseBlock
  BY <1>8 DEF RaiseBlock, adapterVars, loopVars, FetchInv, TypeOK
<1>9. ASSUME NEW h \in Handoffs, Farm(h) PROVE TypeOK'
  BY <1>9 DEF Farm, Rebind, NewCall, FetchInv, TypeOK, Handoff, Exit,
              Direct
<1>10. CASE FarmFails
  BY <1>10 DEF FarmFails, Finish, adapterVars, loopVars, FetchInv, TypeOK
<1>11. CASE GiveUp
  BY <1>11 DEF GiveUp, Finish, loopVars, FetchInv, TypeOK, OneClientOpen,
               AdapterAtWork
<1>12. CASE Close
  BY <1>12 DEF Close, Discard, loopVars, FetchInv, TypeOK, OneClientOpen, Handoff
<1>13. CASE UNCHANGED vars
  BY <1>13 DEF vars, adapterVars, loopVars, FetchInv, TypeOK
<1> QED
  BY <1>1, <1>2, <1>3, <1>4, <1>5, <1>6, <1>7, <1>8, <1>9, <1>10, <1>11, <1>12,
     <1>13 DEF Next, FetchStep

\* The adapter, the refarmer's handoff and the open session go together.
AdapterKept == OneClientOpen /\ HandoffInForce /\ BoundIdentity /\ AdapterAtWork

LEMMA AdapterStep == FetchInv /\ [Next]_vars => AdapterKept'
<1> SUFFICES ASSUME FetchInv, [Next]_vars PROVE AdapterKept'
  OBVIOUS
<1> USE AdapterBuilt DEF AdapterKept, OneClientOpen, HandoffInForce, BoundIdentity,
                         AdapterAtWork
<1>1. CASE StartFetch
  BY <1>1 DEF StartFetch, NewCall, FetchInv, TypeOK
<1>2. CASE GetPage
  BY <1>2, AnsweredEffect DEF GetPage, Finish, loopVars, FetchInv, Answered, Send
<1>3. CASE GetBlock
  BY <1>3, AnsweredEffect DEF GetBlock, loopVars, FetchInv, Answered, Send
<1>4. CASE GetErrorRetry
  BY <1>4, AnsweredEffect DEF GetErrorRetry, FetchInv, Answered, Send
<1>5. CASE GetErrorFirst
  BY <1>5 DEF GetErrorFirst, Send, Discard, Finish, loopVars, FetchInv, TypeOK
<1>6. CASE GetErrorRebound
  BY <1>6, AnsweredEffect DEF GetErrorRebound, Finish, loopVars, FetchInv, Answered,
                              Send
<1>7. CASE Rotate
  BY <1>7 DEF Rotate, HasProvider, adapterVars, FetchInv
<1>8. CASE RaiseBlock
  BY <1>8 DEF RaiseBlock, adapterVars, loopVars, FetchInv
<1>9. ASSUME NEW h \in Handoffs, Farm(h) PROVE AdapterKept'
  <2>1. h \in Handoff /\ h # NoHandoff
    BY HandoffsDistinct DEF Handoff
  <2>2. open = 1 /\ open' = 1
    BY <1>9 DEF Farm, Rebind, FetchInv
  <2> QED
    BY <1>9, <2>1, <2>2 DEF Farm, Rebind, NewCall, FetchInv
<1>10. CASE FarmFails
  BY <1>10 DEF FarmFails, Finish, adapterVars, loopVars, FetchInv
<1>11. CASE GiveUp
  BY <1>11 DEF GiveUp, Finish, loopVars, FetchInv, TypeOK
<1>12. CASE Close
  BY <1>12 DEF Close, Discard, loopVars, FetchInv, TypeOK
<1>13. CASE UNCHANGED vars
  BY <1>13 DEF vars, adapterVars, loopVars, FetchInv
<1> QED
  BY <1>1, <1>2, <1>3, <1>4, <1>5, <1>6, <1>7, <1>8, <1>9, <1>10, <1>11, <1>12,
     <1>13 DEF Next, FetchStep

\* The rotation ends with the provider's budget and not before.
RotationKept == BrowserIsLastResort /\ RoundsPaid

LEMMA RotationStep == FetchInv /\ [Next]_vars => RotationKept'
<1> SUFFICES ASSUME FetchInv, [Next]_vars PROVE RotationKept'
  OBVIOUS
<1> USE BudgetsNatural, AdapterBuilt DEF RotationKept, BrowserIsLastResort, RoundsPaid
<1>1. CASE StartFetch
  BY <1>1 DEF StartFetch, NewCall, FetchInv, TypeOK
<1>2. CASE GetPage
  BY <1>2, AnsweredEffect DEF GetPage, Finish, loopVars, FetchInv
<1>3. CASE GetBlock
  BY <1>3, AnsweredEffect DEF GetBlock, loopVars, FetchInv, Answered, Send
<1>4. CASE GetErrorRetry
  BY <1>4, AnsweredEffect DEF GetErrorRetry, FetchInv, Answered, Send
<1>5. CASE GetErrorFirst
  BY <1>5 DEF GetErrorFirst, Finish
<1>6. CASE GetErrorRebound
  BY <1>6 DEF GetErrorRebound, Finish
<1>7. CASE Rotate
  <2>1. attempt <= used /\ used < ProxyRetries /\ attempt \in Nat /\ used \in Nat
    BY <1>7 DEF Rotate, OffersProxy, FetchInv, TypeOK
  <2>2. active.handoff = NoHandoff /\ active' = active /\ used' = used + 1
    BY <1>7 DEF Rotate, HasProvider, adapterVars
  <2>3. pc' = "get" /\ attempt' = attempt + 1
    BY <1>7, <2>1 DEF Rotate
  <2> QED
    BY <2>1, <2>2, <2>3
<1>8. CASE RaiseBlock
  BY <1>8 DEF RaiseBlock, HasProvider, OffersProxy, adapterVars, loopVars, FetchInv,
              TypeOK
<1>9. ASSUME NEW h \in Handoffs, Farm(h) PROVE RotationKept'
  BY <1>9 DEF Farm, NewCall, FetchInv, TypeOK
<1>10. CASE FarmFails
  BY <1>10 DEF FarmFails, Finish
<1>11. CASE GiveUp
  BY <1>11 DEF GiveUp, Finish
<1>12. CASE Close
  BY <1>12 DEF Close
<1>13. CASE UNCHANGED vars
  BY <1>13 DEF vars, adapterVars, loopVars, FetchInv
<1> QED
  BY <1>1, <1>2, <1>3, <1>4, <1>5, <1>6, <1>7, <1>8, <1>9, <1>10, <1>11, <1>12,
     <1>13 DEF Next, FetchStep

\* Rounds are few: those before the present one leave room for it.
LEMMA RoundsBounded ==
  ASSUME FetchInv, pc # "idle"
  PROVE  /\ RoundsBefore \in Nat
         /\ RoundsBefore <= ProxyRetries + MaxRefarms
BY BudgetsNatural DEF RoundsBefore, FetchInv, TypeOK

\* One more request fits into the present round, and that round into the bound.
LEMMA RoundFits ==
  ASSUME FetchInv, pc = "get"
  PROVE  /\ sent + 1 <= TransientRetries * (RoundsBefore + 1)
         /\ sent + 1 <= TransientRetries * (1 + ProxyRetries + MaxRefarms)
         /\ sent + 1 <= TransientRetries * RoundsBefore + tries + 1
<1> DEFINE T == TransientRetries
           n == RoundsBefore
           m == 1 + ProxyRetries + MaxRefarms
<1>1. T \in Nat /\ n \in Nat /\ m \in Nat /\ n + 1 <= m
  BY BudgetsNatural, RoundsBounded
<1>2. sent <= T * n + tries /\ sent \in Nat /\ tries \in Nat /\ tries + 1 <= T
  BY BudgetsNatural DEF FetchInv, TypeOK, RequestsPaid
<1> HIDE DEF T, n, m
<1>3. T * n \in Nat /\ T * (n + 1) = T * n + T
  BY <1>1, OneRoundMore
<1>4. T * (n + 1) <= T * m
  BY <1>1, MoreRounds
<1>5. T * (n + 1) \in Nat /\ T * m \in Nat
  BY <1>1
<1> DEFINE a == T * n
           b == T * (n + 1)
           c == T * m
<1>6. /\ a \in Nat /\ b \in Nat /\ c \in Nat /\ b = a + T /\ b <= c
      /\ sent <= a + tries
  BY <1>2, <1>3, <1>4, <1>5
<1> HIDE DEF a, b, c
<1>7. sent + 1 <= b /\ sent + 1 <= c /\ sent + 1 <= a + tries + 1
  BY <1>1, <1>2, <1>6
<1> QED
  BY <1>7 DEF a, b, c, T, n, m

\* A new round begins: the requests so far are those of the rounds before it.
LEMMA RoundBegins ==
  ASSUME FetchInv, pc \in {"blocked", "refarm"}, sent' = sent, tries' = 0,
         RoundsBefore' \in Nat, RoundsBefore + 1 <= RoundsBefore'
  PROVE  sent' <= TransientRetries * RoundsBefore' + tries'
<1> DEFINE T == TransientRetries
           n == RoundsBefore
           m == RoundsBefore'
<1>1. T \in Nat /\ n \in Nat /\ m \in Nat /\ n + 1 <= m
  BY BudgetsNatural, RoundsBounded
<1>2. sent <= T * (n + 1) /\ sent \in Nat
  BY DEF FetchInv, TypeOK, RequestsPaid
<1> HIDE DEF T, n, m
<1>3. T * (n + 1) <= T * m /\ T * (n + 1) \in Nat /\ T * m \in Nat
  BY <1>1, MoreRounds
<1>4. sent <= T * m + 0
  BY <1>2, <1>3
<1> QED
  BY <1>4 DEF T, m

\* Requests are paid for by the rounds.
RequestsKept == RequestsPaid /\ RequestsBounded

LEMMA RequestStep == FetchInv /\ [Next]_vars => RequestsKept'
<1> SUFFICES ASSUME FetchInv, [Next]_vars PROVE RequestsKept'
  OBVIOUS
<1> USE DEF RequestsKept, RequestsPaid, RequestsBounded
<1>1. CASE StartFetch
  <2>1. /\ pc' = "get" /\ sent' = 0 /\ tries' = 0 /\ RoundsBefore' = 0
    BY <1>1 DEF StartFetch, NewCall, RoundsBefore
  <2>2. TransientRetries * 0 = 0
    BY BudgetsNatural
  <2>3. TransientRetries * (1 + ProxyRetries + MaxRefarms) \in Nat
    BY BudgetsNatural
  <2> QED
    BY <2>1, <2>2, <2>3
<1>2. CASE GetPage
  BY <1>2, RoundFits DEF GetPage, Finish, Answered, Send
<1>3. CASE GetBlock
  <2>1. pc = "get" /\ pc' = "blocked" /\ sent' = sent + 1 /\ RoundsBefore' = RoundsBefore
    BY <1>3 DEF GetBlock, Answered, Send, loopVars, RoundsBefore
  <2> QED
    BY <2>1, RoundFits
<1>4. CASE GetErrorRetry
  <2>1. /\ pc = "get" /\ pc' = "get" /\ sent' = sent + 1 /\ tries' = tries + 1
        /\ RoundsBefore' = RoundsBefore
    BY <1>4 DEF GetErrorRetry, Answered, Send, RoundsBefore
  <2>2. sent + 1 <= TransientRetries * RoundsBefore + (tries + 1)
    <3>1. TransientRetries * RoundsBefore \in Nat
      BY <2>1, RoundsBounded, BudgetsNatural
    <3>2. tries \in Nat /\ sent \in Nat
      BY BudgetsNatural DEF FetchInv, TypeOK
    <3> QED
      BY <2>1, <3>1, <3>2, RoundFits
  <2> QED
    BY <2>1, <2>2, RoundFits
<1>5. CASE GetErrorFirst
  BY <1>5, RoundFits DEF GetErrorFirst, Finish, Send
<1>6. CASE GetErrorRebound
  BY <1>6, RoundFits DEF GetErrorRebound, Finish, Answered, Send
<1>7. CASE Rotate
  <2>1. pc = "blocked" /\ sent' = sent /\ refarms' = refarms
    BY <1>7 DEF Rotate
  <2>2. active.handoff = NoHandoff /\ refarms = 0
    BY <1>7 DEF Rotate, HasProvider, FetchInv, AdapterAtWork, TypeOK
  <2>3. attempt < ProxyRetries /\ attempt \in Nat
    BY <1>7, BudgetsNatural DEF Rotate, OffersProxy, FetchInv, TypeOK, RoundsPaid
  <2>4. pc' = "get" /\ attempt' = attempt + 1 /\ tries' = 0
    BY <1>7, <2>3 DEF Rotate
  <2>5. RoundsBefore' = RoundsBefore + 1 /\ RoundsBefore \in Nat
    BY <2>1, <2>2, <2>3, <2>4 DEF RoundsBefore
  <2>6. sent' <= TransientRetries * RoundsBefore' + tries'
    BY <2>1, <2>4, <2>5, RoundBegins
  <2> QED
    BY <2>1, <2>4, <2>6 DEF FetchInv
<1>8. CASE RaiseBlock
  BY <1>8 DEF RaiseBlock, loopVars, RoundsBefore, FetchInv
<1>9. ASSUME NEW h \in Handoffs, Farm(h) PROVE RequestsKept'
  <2>1. pc = "refarm" /\ pc' = "get" /\ sent' = sent /\ tries' = 0
        /\ refarms' = refarms + 1 /\ attempt' = 0
    BY <1>9 DEF Farm, NewCall
  <2>2. refarms \in Nat /\ attempt \in Nat /\ attempt <= ProxyRetries
    BY BudgetsNatural DEF FetchInv, TypeOK
  <2>3. RoundsBefore' \in Nat /\ RoundsBefore + 1 <= RoundsBefore'
    BY <2>1, <2>2, BudgetsNatural DEF RoundsBefore
  <2>4. sent' <= TransientRetries * RoundsBefore' + tries'
    BY <2>1, <2>3, RoundBegins
  <2> QED
    BY <2>1, <2>4 DEF FetchInv
<1>10. CASE FarmFails
  BY <1>10 DEF FarmFails, Finish, FetchInv
<1>11. CASE GiveUp
  BY <1>11 DEF GiveUp, Finish, FetchInv
<1>12. CASE Close
  BY <1>12 DEF Close, FetchInv
<1>13. CASE UNCHANGED vars
  BY <1>13 DEF vars, loopVars, RoundsBefore, FetchInv
<1> QED
  BY <1>1, <1>2, <1>3, <1>4, <1>5, <1>6, <1>7, <1>8, <1>9, <1>10, <1>11, <1>12,
     <1>13 DEF Next, FetchStep

-----------------------------------------------------------------------------
(* The theorems.                                                            *)

LEMMA FetchInvInitially == Init => FetchInv
BY BudgetsNatural, AdapterBuilt
   DEF Init, FetchInv, TypeOK, Exit, Direct, Handoff, OneClientOpen, HandoffInForce,
       BoundIdentity, BrowserIsLastResort, AdapterAtWork, RoundsPaid, RequestsPaid,
       RequestsBounded

LEMMA FetchInvKept == FetchInv /\ [Next]_vars => FetchInv'
BY TypeStep, AdapterStep, RotationStep, RequestStep
   DEF FetchInv, AdapterKept, RotationKept, RequestsKept

LEMMA FetchInvariant == Spec => []FetchInv
BY FetchInvInitially, FetchInvKept, PTL DEF Spec

\* TypeOK holds for all budgets: among others, however many fetches share the
\* provider of _request_bytes, it never hands out more than proxy_retries proxies.
THEOREM FetchTypes == Spec => []TypeOK
BY FetchInvariant, PTL DEF FetchInv

\* OneClientOpen: no way through SessionRefarmer._fetch loses a curl session.
THEOREM NoClientLost == Spec => []OneClientOpen
BY FetchInvariant, PTL DEF FetchInv

\* HandoffInForce: the adapter of SessionRefarmer sends the handoff it would be
\* rebuilt from, whichever of _fetch's exits the last fetch took.
THEOREM HandoffKept == Spec => []HandoffInForce
BY FetchInvariant, PTL DEF FetchInv

\* BoundIdentity: HttpDomAdapter sends a handoff from where it was farmed, never
\* through a proxy that _request_bytes has rotated to.
THEOREM IdentityKept == Spec => []BoundIdentity
BY FetchInvariant, PTL DEF FetchInv

\* BrowserIsLastResort: _request_bytes raises BlockDetected to the refarmer only
\* when the provider has no proxy left; its loop never ends before that.
THEOREM LastResort == Spec => []BrowserIsLastResort
BY FetchInvariant, PTL DEF FetchInv

\* RequestsBounded: one page costs at most _TRANSIENT_RETRIES requests for each of
\* a direct attempt, proxy_retries rotations and max_refarms browser sessions.
THEOREM PoliteFetch == Spec => []RequestsBounded
BY FetchInvariant, PTL DEF FetchInv
=============================================================================
