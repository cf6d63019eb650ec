------------------------------ MODULE Candles -------------------------------
(***************************************************************************)
(* The candle caches of the markets page (markets.ts) and the server that  *)
(* feeds them.  The page asks for a duration's candles with 'loadcandles'  *)
(* (requestCandles, behind a 10 s watchdog), stores the 'candles' answer   *)
(* in this.market.candleCaches[dur] and merges each 'candle_update' into   *)
(* the cached series.  setMarket replaces the market object, and with it   *)
(* the caches, and subscribes to the new market with 'loadmarket'.         *)
(*                                                                         *)
(* The server answers requests in order and streams the updates of the   *)
(* market it is subscribed to.  Each market's messages reach the page in   *)
(* order, but messages of different markets interleave freely: the race    *)
(* between an unsubscription and the old market's messages in flight.     *)
(* All markets are on one host.                                            *)
(***************************************************************************)
EXTENDS Integers, Sequences, SequencesExt

CONSTANTS
    Markets,       \* the markets of the host
    Durs,          \* the host's candle durations
    FiveMin,       \* fiveMinBinKey, one of Durs
    SpotMarkets,   \* markets whose cfg.spot carries 24 h high and low
    None,          \* model value: no cache, no chart
    MaxStamp,      \* the server's clock runs over bucket starts 1..MaxStamp
    MaxSessions,   \* bound on the market objects setMarket creates
    MaxInFlight,   \* bound on requests and answers in flight when the user acts
    MaxPending,    \* bound on candle watchdogs pending when the user acts
    MaxChan        \* bound on the updates the server streams ahead of the page

ASSUME FiveMin \in Durs /\ SpotMarkets \subseteq Markets

VARIABLES
    market,          \* this.market: the selected market ...
    session,         \* ... and the identity of its object
    candleDur,       \* this.candleDur
    caches,          \* this.market.candleCaches: dur -> series or None
    chart,           \* the cache the candle chart was last given (setCandles)
    candlesLoading,  \* this.candlesLoading is set
    watchdogs,       \* requestCandles timers not yet fired or cleared
    reqs,            \* requests on the websocket, page to server
    subscribed,      \* the market the server streams updates of
    now,             \* the server's current bucket start
    chan             \* chan[m]: messages of market m, server to page

vars == <<market, session, candleDur, caches, chart, candlesLoading, watchdogs,
          reqs, subscribed, now, chan>>

Stamps == 1..MaxStamp

(* A candle is known by its market, duration and bucket start.            *)
Candle == [mkt: Markets, dur: Durs, stamp: Stamps]

Request == [kind: {"loadmarket"}, mkt: Markets]
           \cup [kind: {"loadcandles"}, mkt: Markets, dur: Durs]

Msg == [kind: {"candles"}, mkt: Markets, dur: Durs, candles: Seq(Candle)]
       \cup [kind: {"candle_update"}, mkt: Markets, dur: Durs, candle: Candle]

NoCaches == [d \in Durs |-> None]

(* Requests not yet read and messages not yet handled. *)
InFlight == Len(reqs) + SumFunction([m \in Markets |-> Len(chan[m])])

(* The server's series for a market and duration: one candle per bucket.  *)
Series(m, d) == [i \in 1..now |-> [mkt |-> m, dur |-> d, stamp |-> i]]

-----------------------------------------------------------------------------
(* Pure operations                                                         *)

(* A merge that compares the update with the first candle of the series.  *)
MergeFirst(candles, c) ==
    IF candles = <<>> THEN <<c>>
    ELSE IF candles[1].stamp = c.stamp THEN [candles EXCEPT ![1] = c]
    ELSE Append(candles, c)

(* handleCandleUpdateRoute's merge: an update of the open bucket replaces  *)
(* the last candle, any other is appended.                                 *)
MergeUpdate(candles, c) ==
    IF candles = <<>> THEN <<c>>
    ELSE IF Last(candles).stamp = c.stamp THEN [candles EXCEPT ![Len(candles)] = c]
    ELSE Append(candles, c)

-----------------------------------------------------------------------------
(* Page steps                                                              *)

(* requestCandles: a new watchdog replaces candlesLoading (the previous   *)
(* timer is not cleared) and 'loadcandles' is sent.                        *)
RequestCandles(m, d) ==
    /\ candlesLoading' = TRUE
    /\ watchdogs' = watchdogs + 1
    /\ reqs' = Append(reqs, [kind |-> "loadcandles", mkt |-> m, dur |-> d])

(* setMarket for market m: 'loadmarket', a new market object with no      *)
(* caches, then setCandleDurBttns -> loadCandles, which finds no cache.    *)
SetMarket(m) ==
    /\ session < MaxSessions
    /\ InFlight + 2 <= MaxInFlight /\ watchdogs < MaxPending
    /\ market' = m
    /\ session' = session + 1
    /\ caches' = NoCaches
    /\ candlesLoading' = TRUE
    /\ watchdogs' = watchdogs + 1
    /\ reqs' = reqs \o << [kind |-> "loadmarket", mkt |-> m],
                         [kind |-> "loadcandles", mkt |-> m, dur |-> candleDur] >>
    /\ UNCHANGED <<candleDur, chart, subscribed, now, chan>>

(* candleDurationSelected -> loadCandles: a cached series is charted,      *)
(* otherwise it is requested.                                              *)
SelectDur(d) ==
    /\ InFlight < MaxInFlight /\ watchdogs < MaxPending
    /\ candleDur' = d
    /\ IF caches[d] # None
       THEN chart' = [session |-> session, dur |-> d]
            /\ UNCHANGED <<candlesLoading, watchdogs, reqs>>
       ELSE RequestCandles(market, d) /\ UNCHANGED chart
    /\ UNCHANGED <<market, session, caches, subscribed, now, chan>>

(* The watchdog callback: it clears whichever candlesLoading is set. *)
WatchdogFires ==
    /\ watchdogs > 0
    /\ watchdogs' = watchdogs - 1
    /\ candlesLoading' = FALSE
    /\ UNCHANGED <<market, session, candleDur, caches, chart, reqs, subscribed,
                   now, chan>>

(* setHighLow after a series arrived: without the spot's 24 h figures and  *)
(* without a 5-minute series, one is requested unless it is the selected   *)
(* duration.                                                               *)
NeedFiveMin(cs) ==
    market \notin SpotMarkets /\ cs[FiveMin] = None /\ candleDur # FiveMin

(* The check of a 'candles' message against the selected market, and a    *)
(* variant that also wants a load to be pending.                           *)
AcceptsWhileLoading(msg) == msg.mkt = market /\ candlesLoading
Accepts(msg) == msg.mkt = market

(* The watchdogs left after clearTimeout of the current one, done only    *)
(* while candlesLoading is set; a variant clears without that check.       *)
ClearedAlways == watchdogs - 1
Cleared == IF candlesLoading THEN watchdogs - 1 ELSE watchdogs

(* handleCandlesRoute: candlesLoading is cleared first, whatever market    *)
(* the message is for; then a message of another market is dropped;        *)
(* otherwise the series is cached, setHighLow runs and the series is       *)
(* charted if its duration is selected.                                    *)
RecvCandles(msg) ==
    LET w == Cleared
        cs == [caches EXCEPT ![msg.dur] = msg.candles]
    IN
    IF ~Accepts(msg)
    THEN candlesLoading' = FALSE /\ watchdogs' = w
         /\ UNCHANGED <<caches, chart, reqs>>
    ELSE /\ caches' = cs
         /\ IF NeedFiveMin(cs)
            THEN /\ candlesLoading' = TRUE
                 /\ watchdogs' = w + 1
                 /\ reqs' = Append(reqs, [kind |-> "loadcandles", mkt |-> market,
                                          dur |-> FiveMin])
            ELSE candlesLoading' = FALSE /\ watchdogs' = w /\ UNCHANGED reqs
         /\ chart' = IF candleDur = msg.dur THEN [session |-> session, dur |-> msg.dur]
                     ELSE chart

(* handleCandleUpdateRoute: the message is checked against the host only;  *)
(* an update for a duration with no cache is dropped.                      *)
RecvCandleUpdate(msg) ==
    /\ caches' = IF caches[msg.dur] = None THEN caches
                 ELSE [caches EXCEPT ![msg.dur] = MergeUpdate(@, msg.candle)]
    /\ UNCHANGED <<chart, candlesLoading, watchdogs, reqs>>

(* The page handles the next message of market m. *)
Deliver(m) ==
    /\ chan[m] # <<>>
    /\ chan' = [chan EXCEPT ![m] = Tail(@)]
    /\ LET msg == Head(chan[m]) IN
       IF msg.kind = "candles" THEN RecvCandles(msg) ELSE RecvCandleUpdate(msg)
    /\ UNCHANGED <<market, session, candleDur, subscribed, now>>

-----------------------------------------------------------------------------
(* Server steps                                                            *)

(* The server reads the next request: 'loadmarket' moves the subscription, *)
(* 'loadcandles' is answered with the series as of now.                    *)
ServeRequest ==
    /\ reqs # <<>>
    /\ LET r == Head(reqs) IN
       IF r.kind = "loadmarket"
       THEN subscribed' = r.mkt /\ UNCHANGED chan
       ELSE /\ chan' = [chan EXCEPT ![r.mkt] = Append(@, [kind |-> "candles", mkt |-> r.mkt,
                                          dur |-> r.dur, candles |-> Series(r.mkt, r.dur)])]
            /\ UNCHANGED subscribed
    /\ reqs' = Tail(reqs)
    /\ UNCHANGED <<market, session, candleDur, caches, chart, candlesLoading,
                   watchdogs, now>>

(* A new bucket opens. *)
Tick ==
    /\ now < MaxStamp
    /\ now' = now + 1
    /\ UNCHANGED <<market, session, candleDur, caches, chart, candlesLoading,
                   watchdogs, reqs, subscribed, chan>>

(* The server streams the open candle of duration d of its subscription,  *)
(* while fewer than MaxChan messages of that market are in flight.         *)
EmitUpdate(d) ==
    /\ subscribed # None
    /\ Len(chan[subscribed]) < MaxChan
    /\ chan' = [chan EXCEPT ![subscribed] = Append(@, [kind |-> "candle_update",
                  mkt |-> subscribed, dur |-> d,
                  candle |-> [mkt |-> subscribed, dur |-> d, stamp |-> now]])]
    /\ UNCHANGED <<market, session, candleDur, caches, chart, candlesLoading,
                   watchdogs, reqs, subscribed, now>>

-----------------------------------------------------------------------------

(* The page after its first setMarket. *)
Init ==
    /\ market \in Markets
    /\ session = 1
    /\ candleDur \in Durs
    /\ caches = NoCaches
    /\ chart = None
    /\ candlesLoading = TRUE
    /\ watchdogs = 1
    /\ reqs = << [kind |-> "loadmarket", mkt |-> market],
                 [kind |-> "loadcandles", mkt |-> market, dur |-> candleDur] >>
    /\ subscribed = None
    /\ now = 1
    /\ chan = [m \in Markets |-> <<>>]

Next ==
    \/ \E m \in Markets : SetMarket(m)
    \/ \E d \in Durs : SelectDur(d)
    \/ WatchdogFires
    \/ \E m \in Markets : Deliver(m)
    \/ ServeRequest
    \/ Tick
    \/ \E d \in Durs : EmitUpdate(d)

(* Timers fire, and the server reads requests and the page reads messages *)
(* while there are any; the user and the server's clock owe nothing.       *)
Fairness ==
    /\ WF_vars(WatchdogFires)
    /\ WF_vars(ServeRequest)
    /\ \A m \in Markets : WF_vars(Deliver(m))

Spec == Init /\ [][Next]_vars /\ Fairness

-----------------------------------------------------------------------------
(* Properties                                                              *)

TypeOK ==
    /\ market \in Markets /\ session \in 1..MaxSessions /\ candleDur \in Durs
    /\ caches \in [Durs -> Seq(Candle) \cup {None}]
    /\ chart \in [session: 1..MaxSessions, dur: Durs] \cup {None}
    /\ candlesLoading \in BOOLEAN /\ watchdogs \in Nat
    /\ reqs \in Seq(Request) /\ subscribed \in Markets \cup {None}
    /\ now \in Stamps /\ chan \in [Markets -> Seq(Msg)]

(* Every cached series of the selected market holds only candles of that  *)
(* market and of the duration it is cached under (spec section 6: every    *)
(* event is filtered by host and market before any mutation).              *)
CandlesOfMarket ==
    \A d \in Durs : caches[d] # None =>
        \A i \in DOMAIN caches[d] : caches[d][i].mkt = market /\ caches[d][i].dur = d

(* Applying the same candle_update twice to a series the page has cached *)
(* leaves it as applying it once (spec section 8): a repeated update of   *)
(* the open bucket never duplicates a candle.                             *)
MergeIdempotent ==
    \A d \in Durs, c \in Candle : caches[d] # None =>
        MergeUpdate(MergeUpdate(caches[d], c), c) = MergeUpdate(caches[d], c)

(* The candle chart keeps coming back to the series of the selected       *)
(* market and duration: requests are answered and a snapshot that arrives  *)
(* after its watchdog fired is still charted (spec section 5).             *)
ChartShowsSelection ==
    []<>(chart = [session |-> session, dur |-> candleDur])

=============================================================================
