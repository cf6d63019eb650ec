----------------------------- MODULE MaxEstimate ----------------------------
(***************************************************************************)
(* The max-order estimate of the markets page (markets.ts): preSell,       *)
(* preBuy, scheduleMaxEstimate, setMaxOrder and the estimate part of       *)
(* setMarket and handleBalanceNote.                                        *)
(*                                                                         *)
(* A request is debounced through one window timer (maxEstimateTimer) and  *)
(* a counter (maxOrderUpdateCounter) captured when it is scheduled and     *)
(* compared when the timer fires and again when the POST resolves.  The    *)
(* estimate is cached on the market object (mkt.maxSell, mkt.maxBuys[rate])*)
(* with the wallet balance recorded beside it, and the cache is dropped    *)
(* when a balance note reports a different available balance.  The timer  *)
(* callback, each POST response, each user edit and each note is one step  *)
(* of the browser's event loop.                                            *)
(***************************************************************************)
EXTENDS Integers, FiniteSets

CONSTANTS
    Markets,      \* the markets the user can select
    Rates,        \* adjusted limit rates the rate field can hold (positive)
    Balances,     \* available wallet balances (atomic units)
    LotSize,      \* mkt.cfg.lotsize
    None,         \* model value: null, an absent timer or a missing cache key
    MaxCounter,   \* bound on maxOrderUpdateCounter
    MaxSessions   \* bound on the number of market objects setMarket creates

ASSUME Rates \subseteq Nat \ {0} /\ Balances \subseteq Nat /\ LotSize \in Nat \ {0}

(* The rate field holds no usable rate (empty, NaN, or 0 after rounding to *)
(* the rate step); every such value is falsy in the code.                  *)
NoRate == 0

VARIABLES
    market,       \* this.market: the selected market ...
    session,      \* ... and the identity of its CurrentMarket object
    sell,         \* isSell(): the sell tab is selected
    rate,         \* adjustedRate() of the rate field
    bal,          \* bal[m][s]: available balance of the wallet funding side s
    running,      \* both wallets of the market are running
    maxSellRequested, maxSell, sellBalance, maxBuys, buyBalance,
                  \* the estimate fields of the current market object
    counter,      \* this.maxOrderUpdateCounter
    timer,        \* this.maxEstimateTimer with the closure it will run
    inflight,     \* POSTs to /api/maxsell and /api/maxbuy awaiting their answer
    loading,      \* this.maxLoaded is set (the loading overlay)
    shown         \* what the max-order panel shows

mktVars == <<maxSellRequested, maxSell, sellBalance, maxBuys, buyBalance>>
estVars == <<mktVars, counter, timer, inflight, loading, shown>>
vars == <<market, session, sell, rate, bal, running, estVars>>

(* The answer of the server: the max order for a market, side and rate,    *)
(* computed from the balance the wallet had when the request was served.   *)
Estimate == [mkt: Markets, sell: BOOLEAN, rate: {NoRate} \cup Rates, bal: Balances]

(* A scheduled or sent request and the closure state it captured.         *)
Request == [counter: 0..MaxCounter, sell: BOOLEAN, rate: {NoRate} \cup Rates,
            mkt: Markets, session: 1..MaxSessions]

Panel == [kind: {"hidden", "calculating", "unavailable", "lots"},
          est: Estimate \cup {None}]

(* mkt.maxBuys is keyed by the rate of the request, NaN included. *)
NoBuys == [r \in {NoRate} \cup Rates |-> None]

HasBuys(mb) == \E r \in DOMAIN mb : mb[r] # None

-----------------------------------------------------------------------------
(* A success closure writes into the market object preSell or preBuy       *)
(* captured (const mkt = this.market); it is the selected one unless       *)
(* setMarket has replaced it since.                                        *)
CapturedAlways(req) == TRUE
Captured(req) == req.session = session

(* setMaxOrder(maxOrder): shows the lots of the estimate, 0 for null, and  *)
(* clears the loading overlay.                                             *)
SetMaxOrder(est) == shown' = [kind |-> "lots", est |-> est] /\ loading' = FALSE

(* scheduleMaxEstimate: the overlay is set first; with a wallet not        *)
(* running it returns before touching the timer; otherwise the pending     *)
(* timer is cleared, the counter incremented and a new timer set.          *)
ScheduleCaptureBefore(isSell, r) ==
    /\ loading' = TRUE
    /\ IF ~running
       THEN UNCHANGED <<counter, timer, shown>>
       ELSE /\ counter < MaxCounter
            /\ counter' = counter + 1
            /\ timer' = [counter |-> counter, sell |-> isSell, rate |-> r,
                         mkt |-> market, session |-> session]
            /\ shown' = [kind |-> "calculating", est |-> None]

ScheduleMaxEstimate(isSell, r) ==
    /\ loading' = TRUE
    /\ IF ~running
       THEN UNCHANGED <<counter, timer, shown>>
       ELSE /\ counter < MaxCounter
            /\ counter' = counter + 1
            /\ timer' = [counter |-> counter + 1, sell |-> isSell, rate |-> r,
                         mkt |-> market, session |-> session]
            /\ shown' = [kind |-> "calculating", est |-> None]

(* preSell, given the cached estimate ms and the base wallet balance avail *)
(* it reads.                                                               *)
PreSell(ms, avail) ==
    /\ maxSell' = ms
    /\ UNCHANGED <<maxBuys, buyBalance, sellBalance, inflight>>
    /\ CASE avail < LotSize ->
              SetMaxOrder(None) /\ UNCHANGED <<maxSellRequested, counter, timer>>
         [] ms # None ->
              SetMaxOrder(ms) /\ UNCHANGED <<maxSellRequested, counter, timer>>
         [] maxSellRequested ->
              UNCHANGED <<maxSellRequested, counter, timer, loading, shown>>
         [] OTHER ->
              maxSellRequested' = TRUE /\ ScheduleMaxEstimate(TRUE, NoRate)

(* preBuy for rate r, given the cached estimates mb and the quote wallet   *)
(* balance avail.  A lot costs LotSize * r; with no rate the comparison    *)
(* and the cache lookup are both false and the request is scheduled.       *)
PreBuy(r, mb, avail) ==
    /\ maxBuys' = mb
    /\ UNCHANGED <<maxSellRequested, maxSell, sellBalance, buyBalance, inflight>>
    /\ CASE r # NoRate /\ avail < LotSize * r ->
              SetMaxOrder(None) /\ UNCHANGED <<counter, timer>>
         [] r # NoRate /\ mb[r] # None ->
              SetMaxOrder(mb[r]) /\ UNCHANGED <<counter, timer>>
         [] OTHER ->
              ScheduleMaxEstimate(FALSE, r)

(* previewQuoteAmt with a usable rate runs preSell or preBuy for the       *)
(* selected side.  When a quantity is entered it runs it a second time,    *)
(* which for preSell returns on maxSellRequested or repeats a cached       *)
(* result, and for preBuy only advances the counter once more: one call   *)
(* stands for both.                                                        *)
PreviewQuoteAmt(isSell, r) ==
    IF r = NoRate THEN UNCHANGED estVars
    ELSE IF isSell THEN PreSell(maxSell, bal[market][TRUE])
    ELSE PreBuy(r, maxBuys, bal[market][FALSE])

-----------------------------------------------------------------------------
(* Steps                                                                   *)

Init ==
    /\ market \in Markets
    /\ session = 1
    /\ sell \in BOOLEAN
    /\ rate = NoRate
    /\ bal \in [Markets -> [BOOLEAN -> Balances]]
    /\ running = TRUE
    /\ maxSellRequested = FALSE /\ maxSell = None /\ sellBalance = 0
    /\ maxBuys = NoBuys /\ buyBalance = 0
    /\ counter = 0 /\ timer = None /\ inflight = {}
    /\ loading = FALSE
    /\ shown = [kind |-> "hidden", est |-> None]

(* setMarket: the form is reset, the pending timer cleared, a new market   *)
(* object created and the max-order panel hidden.  The counter is left as  *)
(* it is, and the rate field is empty, so previewQuoteAmt schedules        *)
(* nothing.                                                                *)
ClearTimerNot == UNCHANGED timer
(* if (this.maxEstimateTimer) window.clearTimeout(...); ... = null *)
ClearTimer == timer' = None

SetMarket(m) ==
    /\ session < MaxSessions
    /\ market' = m
    /\ session' = session + 1
    /\ rate' = NoRate
    /\ ClearTimer
    /\ maxSellRequested' = FALSE /\ maxSell' = None /\ sellBalance' = 0
    /\ maxBuys' = NoBuys /\ buyBalance' = 0
    /\ shown' = [kind |-> "hidden", est |-> None]
    /\ UNCHANGED <<sell, bal, running, counter, inflight, loading>>

(* The rate field's keyup handler: previewQuoteAmt(true). *)
EditRate(r) ==
    /\ rate' = r
    /\ PreviewQuoteAmt(sell, r)
    /\ UNCHANGED <<market, session, sell, bal, running>>

(* setSell / setBuy: setOrderVisibility calls previewQuoteAmt(true). *)
SetSide(isSell) ==
    /\ sell' = isSell
    /\ PreviewQuoteAmt(isSell, rate)
    /\ UNCHANGED <<market, session, rate, bal, running>>

(* The server's estimate for a sent request. *)
Served(req) == [mkt |-> req.mkt, sell |-> req.sell, rate |-> req.rate,
                bal |-> bal[req.mkt][req.sell]]

(* The maxEstimateTimer callback up to the await: the timer is forgotten,  *)
(* a superseded request dropped, and otherwise the POST is sent; the       *)
(* server reads the wallet balance when it serves it.                      *)
FireTimer ==
    /\ timer # None
    /\ timer' = None
    /\ inflight' = IF timer.counter # counter THEN inflight
                   ELSE inflight \cup {[req |-> timer, est |-> Served(timer)]}
    /\ UNCHANGED <<market, session, sell, rate, bal, running, mktVars,
                   counter, loading, shown>>

(* The success closure of preSell storing the whole answer, res, instead  *)
(* of res.maxSell.                                                         *)
SellSuccessWholeAnswer(req, post) ==
    /\ IF Captured(req)
       THEN /\ maxSellRequested' = FALSE
            /\ maxSell' = post
            /\ sellBalance' = bal[req.mkt][TRUE]
       ELSE UNCHANGED <<maxSellRequested, maxSell, sellBalance>>
    /\ UNCHANGED <<maxBuys, buyBalance>>
    /\ SetMaxOrder(post.est)

(* preSell's success closure: it writes into the market object it         *)
(* captured (a dead one after a market switch) and records the base       *)
(* wallet's balance read now.                                              *)
SellSuccess(req, post) ==
    /\ IF Captured(req)
       THEN /\ maxSellRequested' = FALSE
            /\ maxSell' = post.est
            /\ sellBalance' = bal[req.mkt][TRUE]
       ELSE UNCHANGED <<maxSellRequested, maxSell, sellBalance>>
    /\ UNCHANGED <<maxBuys, buyBalance>>
    /\ SetMaxOrder(post.est)

(* preBuy's success closure: the same, under the rate it captured. *)
BuySuccess(req, post) ==
    /\ IF Captured(req)
       THEN /\ maxBuys' = [maxBuys EXCEPT ![req.rate] = post.est]
            /\ buyBalance' = bal[req.mkt][FALSE]
       ELSE UNCHANGED <<maxBuys, buyBalance>>
    /\ UNCHANGED <<maxSellRequested, maxSell, sellBalance>>
    /\ SetMaxOrder(post.est)

(* The callback after the await, for a response ok or failed.  A stale     *)
(* counter returns; a failure shows "estimate unavailable"; a success runs *)
(* the closure handed over by preSell or preBuy.                           *)
Respond(post, ok) ==
    LET req == post.req IN
    /\ post \in inflight
    /\ inflight' = inflight \ {post}
    /\ CASE req.counter # counter ->
              UNCHANGED <<mktVars, loading, shown>>
         [] ~ok ->
              /\ shown' = [kind |-> "unavailable", est |-> None]
              /\ loading' = FALSE
              /\ UNCHANGED mktVars
         [] req.sell -> SellSuccess(req, post)
         [] OTHER    -> BuySuccess(req, post)
    /\ UNCHANGED <<market, session, sell, rate, bal, running, counter, timer>>

(* handleBalanceNote for the wallet funding side s of market m: the      *)
(* wallet balance becomes b, and for the selected market the cached        *)
(* estimate is dropped if its recorded balance differs, then refreshed if  *)
(* that side is selected.  Nothing happens while nothing is cached.        *)
BalanceNote(m, s, b) ==
    /\ bal' = [bal EXCEPT ![m][s] = b]
    /\ IF m # market THEN UNCHANGED estVars
       ELSE IF s
       THEN IF maxSell = None THEN UNCHANGED estVars
            ELSE LET ms == IF sellBalance # b THEN None ELSE maxSell
                 IN  IF sell THEN PreSell(ms, b)
                     ELSE maxSell' = ms /\ UNCHANGED <<maxSellRequested, sellBalance,
                                                     maxBuys, buyBalance, counter,
                                                     timer, inflight, loading, shown>>
       ELSE IF ~HasBuys(maxBuys) THEN UNCHANGED estVars
            ELSE LET mb == IF buyBalance # b THEN NoBuys ELSE maxBuys
                 IN  IF ~sell THEN PreBuy(rate, mb, b)
                     ELSE maxBuys' = mb /\ UNCHANGED <<maxSellRequested, maxSell,
                                                     sellBalance, buyBalance, counter,
                                                     timer, inflight, loading, shown>>
    /\ UNCHANGED <<market, session, sell, rate, running>>

(* A wallet of the market is started or stopped. *)
WalletRunning(on) ==
    /\ running' = on
    /\ UNCHANGED <<market, session, sell, rate, bal, estVars>>

Next ==
    \/ \E m \in Markets : SetMarket(m)
    \/ \E r \in {NoRate} \cup Rates : EditRate(r)
    \/ \E s \in BOOLEAN : SetSide(s)
    \/ FireTimer
    \/ \E post \in inflight, ok \in BOOLEAN : Respond(post, ok)
    \/ \E m \in Markets, s \in BOOLEAN, b \in Balances : BalanceNote(m, s, b)
    \/ \E on \in BOOLEAN : WalletRunning(on)

(* The browser runs an expired timer's callback, and the server answers    *)
(* every POST; the user, the wallets and the balances owe nothing.         *)
Fairness ==
    /\ WF_vars(FireTimer)
    /\ WF_vars(\E post \in inflight, ok \in BOOLEAN : Respond(post, ok))

Spec == Init /\ [][Next]_vars /\ Fairness

-----------------------------------------------------------------------------
(* Properties                                                              *)

TypeOK ==
    /\ market \in Markets /\ session \in 1..MaxSessions
    /\ sell \in BOOLEAN /\ rate \in {NoRate} \cup Rates
    /\ bal \in [Markets -> [BOOLEAN -> Balances]] /\ running \in BOOLEAN
    /\ maxSellRequested \in BOOLEAN /\ maxSell \in Estimate \cup {None}
    /\ maxBuys \in [{NoRate} \cup Rates -> Estimate \cup {None}]
    /\ sellBalance \in {0} \cup Balances /\ buyBalance \in {0} \cup Balances
    /\ counter \in 0..MaxCounter /\ timer \in Request \cup {None}
    /\ inflight \subseteq [req: Request, est: Estimate]
    /\ loading \in BOOLEAN /\ shown \in Panel

(* An estimate cached on the market object is for that market and for the  *)
(* key it is stored under: maxSell for a sell, maxBuys[r] for a buy at r.  *)
(* The success closures write into the object they captured, so an answer  *)
(* landing after a market switch must not reach the new market's cache.    *)
CacheKeysMatch ==
    /\ maxSell # None => maxSell.mkt = market /\ maxSell.sell
    /\ \A r \in DOMAIN maxBuys :
          maxBuys[r] # None => maxBuys[r].mkt = market /\ ~maxBuys[r].sell
                                /\ maxBuys[r].rate = r

(* Every estimate POST the timer callback sends is for the selected        *)
(* market: setMarket clears a pending timer, since it leaves the counter   *)
(* as it is and the callback's counter check would let the old one pass.   *)
SentForSelectedMarket ==
    [][\A post \in inflight' \ inflight : post.req.mkt = market]_vars

(* "Calculating" on the max-order panel is eventually replaced: the timer  *)
(* fires, the POST is answered, and the newest request's answer is shown   *)
(* (or the panel is reset by a cache hit or a market switch).              *)
CalculatingResolves == shown.kind = "calculating" ~> shown.kind # "calculating"

(* The panel shows an estimate for the selected market. *)
ShownForCurrentMarket ==
    shown.kind = "lots" /\ shown.est # None => shown.est.mkt = market

(* With a usable rate in the form, the estimate on the panel is for the    *)
(* side selected and, for a buy, for the rate in the field.                *)
ShownMatchesForm ==
    shown.kind = "lots" /\ shown.est # None /\ rate # NoRate =>
        /\ shown.est.sell = sell
        /\ ~sell => shown.est.rate = rate

(* A cached estimate was computed from the balance recorded beside it, so  *)
(* handleBalanceNote's comparison with the new balance is meaningful.      *)
CacheBalanceCurrent ==
    /\ maxSell # None => maxSell.bal = sellBalance
    /\ \A r \in DOMAIN maxBuys : maxBuys[r] # None => maxBuys[r].bal = buyBalance

(* While maxSellRequested is set, a sell estimate for this market object   *)
(* is on its way: preSell returns early on the flag, so otherwise no sell  *)
(* estimate is ever requested again for this market.                       *)
SellRequestPending ==
    maxSellRequested =>
        \/ timer # None /\ timer.sell /\ timer.session = session
        \/ \E post \in inflight : /\ post.req.sell /\ post.req.session = session
                                 /\ post.req.counter = counter
=============================================================================
