----------------------------- MODULE UserOrders -----------------------------
(***************************************************************************)
(* The user's order list of the markets page (markets.ts): metaOrders and *)
(* the handlers that fill it.  setMarket -> loadUserOrders clears it and   *)
(* either lists the app's active orders at once or awaits /api/orders;     *)
(* resolveUserOrders merges a list into it, ranks active orders first and  *)
(* newer first, and keeps maxUserOrderCount() of them; an order note of    *)
(* an unknown order refreshes from the app's active orders, one of a known *)
(* order replaces its copy; an epoch note of the selected market moves     *)
(* the copies of epoch-status orders on.                                   *)
(*                                                                         *)
(* The core (the client's backend) owns the orders and its database, and   *)
(* sends its notes to the page in order; the app's store of active orders  *)
(* is updated from each note before the page's handler runs.  Answers to   *)
(* /api/orders may come back in any order.                                 *)
(***************************************************************************)
EXTENDS Integers, Sequences, FiniteSets, FiniteSetsExt

CONSTANTS
    Markets,      \* the markets of the host
    Orders,       \* order ids
    MktOf,        \* MktOf[o]: the market of order o
    TypeOf,       \* TypeOf[o]: "standing", "immediate" (limit orders) or "market"
    History,      \* orders already executed before the page opened
    MaxShown,     \* maxUserOrdersShown (10 in the code)
    NoOrd,        \* model value: no entry
    NoRes,        \* model value: a POST not yet answered
    MaxEpoch,     \* bound on epochs per market
    MaxNotes,     \* bound on notes in flight
    MaxSessions,  \* bound on setMarket calls
    MaxPosts      \* bound on /api/orders requests

Status == {"epoch", "booked", "executed"}

(* A copy of an order as the page holds it. *)
Snap == [id: Orders, status: Status, oepoch: 1..MaxEpoch, stamp: Nat]

Note == [kind: {"order"}, topic: {"AsyncOrderSubmitted", "OrderUpdate"}, ord: Snap]
        \cup [kind: {"epoch"}, mkt: Markets, epoch: 1..MaxEpoch]

VARIABLES
    cstatus,     \* the core's order status, "none" before submission
    coepoch,     \* the epoch the core placed each order in
    cstamp,      \* each order's submit time
    clock,       \* the latest submit time
    epoch,       \* epoch[m]: the open epoch of market m
    notes,       \* core notes on their way to the page, in order
    app,         \* the app's copy of each order it has heard of
    market,      \* this.market
    session,     \* setMarket calls so far
    meta,        \* this.metaOrders: order id -> copy, or NoOrd
    posts,       \* /api/orders requests awaiting their answer
    nposts,      \* /api/orders requests sent so far
    submitting   \* orders whose /api/tradeasync has not returned

vars == <<cstatus, coepoch, cstamp, clock, epoch, notes, app, market, session,
          meta, posts, nposts, submitting>>

-----------------------------------------------------------------------------

CoreSnap(o) == [id |-> o, status |-> cstatus[o], oepoch |-> coepoch[o], stamp |-> cstamp[o]]

(* orderIsActive: not yet executed (matches are not modelled). *)
IsActive(s) == s.status \in {"epoch", "booked"}

(* app().orders(host, mkt) in the store a: the active orders of market m. *)
AppActive(a, m) == {a[o] : o \in {p \in Orders : a[p] # NoOrd /\ MktOf[p] = m
                                                   /\ IsActive(a[p])}}

(* maxUserOrderCount *)
MaxUserOrderCount(a, m) == Max({MaxShown, Cardinality(AppActive(a, m))})

(* resolveUserOrders' comparator: active before inactive, newer first. *)
RanksBefore(a, b) ==
    \/ IsActive(a) /\ ~IsActive(b)
    \/ IsActive(a) = IsActive(b) /\ b.stamp < a.stamp

(* resolveUserOrders(list) over the entries in base, with the app store a *)
(* and the selected market m: the list's copies replace or join the        *)
(* entries, which are ranked and cut to maxUserOrderCount().               *)
ResolveInto(base, list, a, m) ==
    LET merged == [o \in Orders |-> IF \E s \in list : s.id = o
                                    THEN CHOOSE s \in list : s.id = o
                                    ELSE base[o]]
        ids == {o \in Orders : merged[o] # NoOrd}
        kept == {o \in ids : Cardinality({p \in ids : RanksBefore(merged[p], merged[o])})
                              < MaxUserOrderCount(a, m)}
    IN  [o \in Orders |-> IF o \in kept THEN merged[o] ELSE NoOrd]

(* refreshActiveOrders, reading the app store a *)
RefreshActiveOrders(a) == ResolveInto(meta, AppActive(a, market), a, market)

(* The /api/orders answer: the n newest orders of market m in the core's  *)
(* database.  loadUserOrders pushes the active orders it read before the  *)
(* await into that list, but resolves res.orders || [], which drops them   *)
(* when the database had nothing (null).                                   *)
OrdersQuery(m, n) ==
    LET placed == {o \in Orders : MktOf[o] = m /\ cstatus[o] # "none"}
    IN  {CoreSnap(o) : o \in {p \in placed :
                                Cardinality({q \in placed : cstamp[p] < cstamp[q]}) < n}}

WithActives(res, actives) ==
    IF res = {} THEN {}
    ELSE res \cup {a \in actives : \A s \in res : s.id # a.id}

(* handleEpochNote's step for one copy: a limit order in the epoch queue  *)
(* of an earlier epoch is booked (executed if immediate); a market order  *)
(* in the epoch queue is executed, whatever its epoch.                     *)
EpochStep(s, e) ==
    IF s = NoOrd \/ s.status # "epoch" THEN s
    ELSE IF TypeOf[s.id] # "market" /\ e > s.oepoch
    THEN [s EXCEPT !.status = IF TypeOf[s.id] = "immediate" THEN "executed" ELSE "booked"]
    ELSE IF TypeOf[s.id] = "market" THEN [s EXCEPT !.status = "executed"]
    ELSE s

NoMeta == [o \in Orders |-> NoOrd]

-----------------------------------------------------------------------------
(* Page steps                                                              *)

(* setMarket -> loadUserOrders: metaOrders is emptied; with at least      *)
(* maxUserOrdersShown active orders they are listed at once, otherwise     *)
(* /api/orders is posted with the active orders read before the await.    *)
SetMarket(m) ==
    /\ session < MaxSessions
    /\ Cardinality(AppActive(app, m)) < MaxShown => nposts < MaxPosts
    /\ market' = m
    /\ session' = session + 1
    /\ IF Cardinality(AppActive(app, m)) >= MaxShown
       THEN /\ meta' = ResolveInto(NoMeta, AppActive(app, m), app, m)
            /\ UNCHANGED <<posts, nposts>>
       ELSE /\ meta' = NoMeta
            /\ posts' = posts \cup {[pid |-> nposts + 1, mkt |-> m,
                                     n |-> MaxUserOrderCount(app, m),
                                     actives |-> AppActive(app, m), res |-> NoRes]}
            /\ nposts' = nposts + 1
    /\ UNCHANGED <<cstatus, coepoch, cstamp, clock, epoch, notes, app, submitting>>

(* The rest of loadUserOrders once /api/orders has answered: the answer is *)
(* resolved into whatever metaOrders holds now, for whatever market is     *)
(* selected now.                                                           *)
OrdersAnswered(p) ==
    /\ p.res # NoRes
    /\ meta' = ResolveInto(meta, WithActives(p.res, p.actives), app, market)
    /\ posts' = posts \ {p}
    /\ UNCHANGED <<cstatus, coepoch, cstamp, clock, epoch, notes, app, market,
                   session, nposts, submitting>>

(* submitOrder: /api/tradeasync; the core queues the order in the open     *)
(* epoch and announces it with an AsyncOrderSubmitted note.                *)
SubmitOrder(o) ==
    /\ cstatus[o] = "none" /\ MktOf[o] = market
    /\ Len(notes) < MaxNotes
    /\ cstatus' = [cstatus EXCEPT ![o] = "epoch"]
    /\ coepoch' = [coepoch EXCEPT ![o] = epoch[market]]
    /\ cstamp' = [cstamp EXCEPT ![o] = clock + 1]
    /\ clock' = clock + 1
    /\ notes' = Append(notes, [kind |-> "order", topic |-> "AsyncOrderSubmitted",
                               ord |-> [id |-> o, status |-> "epoch",
                                        oepoch |-> epoch[market], stamp |-> clock + 1]])
    /\ submitting' = submitting \cup {o}
    /\ UNCHANGED <<epoch, app, market, session, meta, posts, nposts>>

(* submitOrder after the await: refreshActiveOrders. *)
SubmitReturns(o) ==
    /\ o \in submitting
    /\ meta' = RefreshActiveOrders(app)
    /\ submitting' = submitting \ {o}
    /\ UNCHANGED <<cstatus, coepoch, cstamp, clock, epoch, notes, app, market,
                   session, posts, nposts>>

(* The page handles the next core note.  The app first stores the order   *)
(* of an order note; handleOrderNote then refreshes from the app's active  *)
(* orders when the order is unknown or was in flight, and otherwise        *)
(* replaces its copy.  handleEpochNote drops a note of another market and  *)
(* moves the copies of epoch-status orders on.                             *)
DeliverNote ==
    /\ notes # <<>>
    /\ notes' = Tail(notes)
    /\ LET n == Head(notes) IN
       IF n.kind = "order"
       THEN LET app2 == [app EXCEPT ![n.ord.id] = n.ord] IN
            /\ app' = app2
            /\ meta' = IF meta[n.ord.id] = NoOrd \/ n.topic = "AsyncOrderSubmitted"
                       THEN RefreshActiveOrders(app2)
                       ELSE [meta EXCEPT ![n.ord.id] = n.ord]
       ELSE /\ meta' = IF n.mkt # market THEN meta
                       ELSE [o \in Orders |-> EpochStep(meta[o], n.epoch)]
            /\ UNCHANGED app
    /\ UNCHANGED <<cstatus, coepoch, cstamp, clock, epoch, market, session, posts,
                   nposts, submitting>>

-----------------------------------------------------------------------------
(* Core steps                                                              *)

(* The core's database answers an /api/orders request. *)
ServeOrders(p) ==
    /\ p.res = NoRes
    /\ posts' = (posts \ {p}) \cup {[p EXCEPT !.res = OrdersQuery(p.mkt, p.n)]}
    /\ UNCHANGED <<cstatus, coepoch, cstamp, clock, epoch, notes, app, market,
                   session, meta, nposts, submitting>>

(* A new epoch of market m opens and is announced. *)
EpochAdvance(m) ==
    /\ epoch[m] < MaxEpoch /\ Len(notes) < MaxNotes
    /\ epoch' = [epoch EXCEPT ![m] = @ + 1]
    /\ notes' = Append(notes, [kind |-> "epoch", mkt |-> m, epoch |-> epoch[m] + 1])
    /\ UNCHANGED <<cstatus, coepoch, cstamp, clock, app, market, session, meta,
                   posts, nposts, submitting>>

(* The core learns how an order of a closed epoch fared: a standing limit *)
(* order is booked, an immediate or market order executed; or a booked    *)
(* order is filled.  Each change is announced.                             *)
Settle(o, new) ==
    /\ Len(notes) < MaxNotes
    /\ cstatus' = [cstatus EXCEPT ![o] = new]
    /\ notes' = Append(notes, [kind |-> "order", topic |-> "OrderUpdate",
                               ord |-> [CoreSnap(o) EXCEPT !.status = new]])
    /\ UNCHANGED <<coepoch, cstamp, clock, epoch, app, market, session, meta,
                   posts, nposts, submitting>>

Matched(o) ==
    /\ cstatus[o] = "epoch" /\ coepoch[o] < epoch[MktOf[o]]
    /\ Settle(o, IF TypeOf[o] = "standing" THEN "booked" ELSE "executed")

Filled(o) ==
    /\ cstatus[o] = "booked"
    /\ Settle(o, "executed")

-----------------------------------------------------------------------------

(* The page after its first setMarket, awaiting /api/orders. *)
Init ==
    /\ cstatus = [o \in Orders |-> IF o \in History THEN "executed" ELSE "none"]
    /\ coepoch = [o \in Orders |-> 1]
    /\ cstamp = [o \in Orders |-> IF o \in History THEN 1 ELSE 0]
    /\ clock = 1
    /\ epoch = [m \in Markets |-> 1]
    /\ notes = <<>>
    /\ app = NoMeta
    /\ market \in Markets
    /\ session = 1
    /\ meta = NoMeta
    /\ posts = {[pid |-> 1, mkt |-> market, n |-> MaxShown, actives |-> {}, res |-> NoRes]}
    /\ nposts = 1
    /\ submitting = {}

Next ==
    \/ \E m \in Markets : SetMarket(m)
    \/ \E p \in posts : OrdersAnswered(p)
    \/ \E o \in Orders : SubmitOrder(o) \/ SubmitReturns(o)
    \/ DeliverNote
    \/ \E p \in posts : ServeOrders(p)
    \/ \E m \in Markets : EpochAdvance(m)
    \/ \E o \in Orders : Matched(o) \/ Filled(o)

Spec == Init /\ [][Next]_vars

-----------------------------------------------------------------------------
(* Properties                                                              *)

TypeOK ==
    /\ cstatus \in [Orders -> Status \cup {"none"}]
    /\ coepoch \in [Orders -> 1..MaxEpoch] /\ cstamp \in [Orders -> Nat]
    /\ epoch \in [Markets -> 1..MaxEpoch]
    /\ notes \in Seq(Note)
    /\ app \in [Orders -> Snap \cup {NoOrd}] /\ meta \in [Orders -> Snap \cup {NoOrd}]
    /\ market \in Markets /\ session \in 1..MaxSessions
    /\ nposts \in 1..MaxPosts /\ submitting \subseteq Orders

(* Nothing is on its way to the page and the core has settled every order *)
(* of a closed epoch.                                                      *)
Quiescent ==
    /\ notes = <<>> /\ posts = {} /\ submitting = {}
    /\ \A o \in Orders : ~(cstatus[o] = "epoch" /\ coepoch[o] < epoch[MktOf[o]])

(* Once every note and every /api/orders answer has arrived, each listed  *)
(* order is one of the selected market and shows the status the core      *)
(* holds (spec section 5: a completed round-trip is subject to the same    *)
(* market and staleness checks as an event; section 6: data of another     *)
(* market is dropped).                                                     *)
ListCurrent ==
    Quiescent => \A o \in Orders : meta[o] # NoOrd =>
                    MktOf[o] = market /\ meta[o].status = cstatus[o]

=============================================================================
