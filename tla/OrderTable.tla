----------------------------- MODULE OrderTable -----------------------------
(***************************************************************************)
(* The order-book tables of the markets page (markets.ts): one <tbody> per *)
(* side, each a sequence of rows managed by an OrderTableRowManager.  A    *)
(* row groups the orders of one rate that are either all booked or all    *)
(* in the epoch queue; all market orders of a side share the first row.    *)
(*                                                                         *)
(* This module is the table as an open component: its inputs are the      *)
(* book routes ('book', 'book_order', 'unbook_order', 'update_remaining',  *)
(* 'epoch_order') and the epoch note, each carrying any order the server   *)
(* could send, in any order.  BookSync composes it with a server.          *)
(***************************************************************************)
EXTENDS Integers, Sequences, SequencesExt, FiniteSets, Bags

CONSTANTS
    Tokens,      \* order tokens (model values)
    LimitRates,  \* message rates of limit orders, positive integers
    Qtys,        \* positive remaining quantities (atomic units)
    MaxEpoch,    \* epochs are 1..MaxEpoch; epoch 0 means "booked"
    Snapshots,   \* the 'book' payloads the model may deliver
    MaxShown     \* bound on the number of order entries shown in the table

ASSUME LimitRates \subseteq Nat \ {0} /\ Qtys \subseteq Nat \ {0}
ASSUME MaxEpoch \in Nat \ {0} /\ MaxShown \in Nat

VARIABLES
    rows,      \* rows[sell]: the rows of the sell (TRUE) or buy (FALSE) tbody
    handled    \* history: the message of the last step, and a bit flipped
               \* at every step (it does not constrain the table)

vars == <<rows, handled>>

Epochs == 1..MaxEpoch

(* A MiniOrder; epoch = 0 stands for the absent/falsy epoch of a booked    *)
(* order, rate = 0 for a market order and qty = 0 for a cancel order.      *)
Order == [token: Tokens, sell: BOOLEAN, rate: {0} \cup LimitRates,
          qty: {0} \cup Qtys, epoch: {0} \cup Epochs]

(* The orders the server sends: booked limit orders, epoch-queue limit and *)
(* market orders, and cancel orders (rate 0 and quantity 0).               *)
BookedOrders == [token: Tokens, sell: BOOLEAN, rate: LimitRates, qty: Qtys, epoch: {0}]
EpochLimitOrders == [token: Tokens, sell: BOOLEAN, rate: LimitRates, qty: Qtys, epoch: Epochs]
MarketOrders == [token: Tokens, sell: BOOLEAN, rate: {0}, qty: Qtys, epoch: Epochs]
CancelOrders == [token: Tokens, sell: BOOLEAN, rate: {0}, qty: {0}, epoch: Epochs]
EpochQueueOrders == EpochLimitOrders \cup MarketOrders \cup CancelOrders

(* A table row; a row never has an empty bin (an emptied row is removed). *)
Row == [rate: {0} \cup LimitRates, epoch: BOOLEAN, bin: Seq(Order) \ {<<>>}]

IsEpoch(o) == o.epoch # 0

-----------------------------------------------------------------------------
(* OrderTableRowManager                                                    *)

(* constructor: a row takes rate and epoch-ness from its first order.      *)
NewRow(bin) == [rate |-> bin[1].rate, epoch |-> IsEpoch(bin[1]), bin |-> bin]

(* insertOrder *)
InsertOrder(row, o) == [row EXCEPT !.bin = Append(@, o)]

(* A comparator that groups by rate alone, ignoring epoch-ness. *)
CompareSameRate(row, o) ==
    CASE row.rate = o.rate -> 0
      [] OTHER -> IF (row.rate > o.rate) = o.sell THEN 1 ELSE -1

(* compare: 0 if o belongs in the row, positive if o goes before the row.  *)
Compare(row, o) ==
    CASE row.rate = o.rate /\ row.epoch = IsEpoch(o) -> 0
      [] row.rate # o.rate -> IF (row.rate > o.rate) = o.sell THEN 1 ELSE -1
      [] OTHER -> IF row.epoch THEN 1 ELSE -1

HasToken(row, t) == \E k \in DOMAIN row.bin : row.bin[k].token = t

(* A removeOrder that leaves an emptied row in the table. *)
RemoveOrderKeepRow(side, i, t) ==
    [side EXCEPT ![i].bin = RemoveFirstMatch(@, LAMBDA o : o.token = t)]

(* A removeOrder that filters out every order with the token. *)
RemoveOrderAll(side, i, t) ==
    LET bin == SelectSeq(side[i].bin, LAMBDA o : o.token # t)
    IN  IF bin = <<>> THEN RemoveAt(side, i) ELSE [side EXCEPT ![i].bin = bin]

(* removeOrder: drop the first order with token t; an emptied row is       *)
(* removed from the table (tableRow.remove()).                             *)
RemoveOrder(side, i, t) ==
    LET bin == RemoveFirstMatch(side[i].bin, LAMBDA o : o.token = t)
    IN  IF bin = <<>> THEN RemoveAt(side, i) ELSE [side EXCEPT ![i].bin = bin]

(* updateOrderQty: set the quantity of the first order with token t.       *)
UpdateOrderQty(row, t, q) ==
    LET k == SelectInSeq(row.bin, LAMBDA o : o.token = t)
    IN  [row EXCEPT !.bin[k].qty = q]

(* removeEpochOrders(), called without newEpoch: every order with a       *)
(* truthy epoch goes, and rows left empty are removed.                     *)
RemoveEpochOrders(side) ==
    LET kept == [i \in DOMAIN side |->
                   [side[i] EXCEPT !.bin = SelectSeq(@, LAMBDA o : ~IsEpoch(o))]]
    IN  SelectSeq(kept, LAMBDA r : r.bin # <<>>)

-----------------------------------------------------------------------------
(* MarketsPage table operations, as functions of one tbody                 *)

HasMarketRow(side) == side # <<>> /\ side[1].rate = 0

(* addTableOrder *)
AddTableOrder(side, o) ==
    IF o.rate = 0
    THEN IF o.qty = 0 THEN side                      \* a cancel order
         ELSE IF HasMarketRow(side)
              THEN [side EXCEPT ![1] = InsertOrder(@, o)]
              ELSE <<NewRow(<<o>>)>> \o side
    ELSE LET from == IF HasMarketRow(side) THEN 2 ELSE 1
             i == SelectInSubSeq(side, from, Len(side), LAMBDA r : Compare(r, o) >= 0)
         IN  CASE i = 0 -> Append(side, NewRow(<<o>>))
               [] Compare(side[i], o) = 0 -> [side EXCEPT ![i] = InsertOrder(@, o)]
               [] OTHER -> InsertAt(side, i, NewRow(<<o>>))

(* The side and row removeTableOrder / updateTableOrder act on: the sell   *)
(* tbody is scanned before the buy tbody, each from its first row.         *)
RowOf(tbl, t) ==
    LET sideOf == IF \E i \in DOMAIN tbl[TRUE] : HasToken(tbl[TRUE][i], t)
                  THEN TRUE ELSE FALSE
    IN  [sell |-> sideOf,
         idx  |-> SelectInSeq(tbl[sideOf], LAMBDA r : HasToken(r, t))]

(* removeTableOrder *)
RemoveTableOrder(tbl, t) ==
    LET at == RowOf(tbl, t)
    IN  IF at.idx = 0 THEN tbl
        ELSE [tbl EXCEPT ![at.sell] = RemoveOrder(@, at.idx, t)]

(* updateTableOrder *)
UpdateTableOrder(tbl, t, q) ==
    LET at == RowOf(tbl, t)
    IN  IF at.idx = 0 THEN tbl
        ELSE [tbl EXCEPT ![at.sell][at.idx] = UpdateOrderQty(@, t, q)]

(* binOrdersByRateAndEpoch: the loop over a rate-sorted book side, one    *)
(* accumulator step per order, then the trailing push and the filter.     *)
BinStep(acc, o) ==
    LET ep  == IF IsEpoch(o) THEN <<o>> ELSE <<>>
        non == IF IsEpoch(o) THEN <<>> ELSE <<o>>
    IN  IF o.rate # acc.rate
        THEN [bins |-> acc.bins \o <<acc.non, acc.ep>>, ep |-> ep, non |-> non,
              rate |-> o.rate]
        ELSE [acc EXCEPT !.ep = @ \o ep, !.non = @ \o non]

BinOrdersByRateAndEpoch(orders) ==
    IF orders = <<>> THEN <<>>
    ELSE LET acc == FoldLeft(BinStep, [bins |-> <<>>, ep |-> <<>>, non |-> <<>>,
                                       rate |-> orders[1].rate], orders)
         IN  SelectSeq(acc.bins \o <<acc.non, acc.ep>>, LAMBDA b : b # <<>>)

(* The OrderBook side the table is loaded from (orderbook.ts is not part   *)
(* of this source): sells by ascending rate, buys by descending rate.      *)
BookSide(booked, sell) ==
    SortSeq(SetToSeq({o \in booked : o.sell = sell}),
            LAMBDA a, b : IF sell THEN a.rate <= b.rate ELSE a.rate >= b.rate)

(* loadTableSide *)
LoadTableSide(booked, sell) ==
    LET bins == BinOrdersByRateAndEpoch(BookSide(booked, sell))
    IN  [i \in DOMAIN bins |-> NewRow(bins[i])]

(* handleBook: loadTable from the booked orders, then addTableOrder for    *)
(* every order of the epoch queue, in payload order.                       *)
HandleBook(snap) ==
    LET loaded == [s \in BOOLEAN |-> LoadTableSide(snap.booked, s)]
        AddEpoch(tbl, o) == [tbl EXCEPT ![o.sell] = AddTableOrder(@, o)]
    IN  FoldLeft(AddEpoch, loaded, snap.epoch)

-----------------------------------------------------------------------------
(* Handlers (the market/host filter of each is not modelled: the page gets *)
(* only messages of its market).                                          *)

Shown(tbl) == LET n(s) == FoldLeft(LAMBDA a, r : a + Len(r.bin), 0, tbl[s])
              IN  n(TRUE) + n(FALSE)

Init ==
    /\ rows = [s \in BOOLEAN |-> <<>>]
    /\ handled = [msg |-> [kind |-> "setmarket"], tick |-> 0]

(* Records that the step handled message m. *)
Handled(m) == handled' = [msg |-> m, tick |-> 1 - handled.tick]

(* handleBookRoute -> handleBook *)
RecvBook(snap) == rows' = HandleBook(snap)

(* handleBookOrderRoute *)
RecvBookOrder(o) == rows' = [rows EXCEPT ![o.sell] = AddTableOrder(@, o)]

(* handleUnbookOrderRoute *)
RecvUnbookOrder(t) == rows' = RemoveTableOrder(rows, t)

(* handleUpdateRemainingRoute *)
RecvUpdateRemaining(t, q) == rows' = UpdateTableOrder(rows, t, q)

(* handleEpochOrderRoute: cancel orders are not shown. *)
RecvEpochOrder(o) ==
    rows' = IF o.qty > 0 THEN [rows EXCEPT ![o.sell] = AddTableOrder(@, o)]
            ELSE rows

(* handleEpochNote -> clearOrderTableEpochs (the new epoch number is not   *)
(* passed on to removeEpochOrders).                                        *)
RecvEpochNote == rows' = [s \in BOOLEAN |-> RemoveEpochOrders(rows[s])]

(* setMarket empties both tbodies before it subscribes to the next        *)
(* market; the routes of the previous one are then dropped by their market  *)
(* check, so the table sees the same kind of messages as before.           *)
SetMarket == rows' = [s \in BOOLEAN |-> <<>>]

Next ==
    \/ SetMarket /\ Handled([kind |-> "setmarket"])
    \/ \E snap \in Snapshots :
          RecvBook(snap) /\ Handled([kind |-> "book", snap |-> snap])
    \/ Shown(rows) < MaxShown /\ \E o \in BookedOrders :
          RecvBookOrder(o) /\ Handled([kind |-> "book_order", ord |-> o])
    \/ Shown(rows) < MaxShown /\ \E o \in EpochQueueOrders :
          RecvEpochOrder(o) /\ Handled([kind |-> "epoch_order", ord |-> o])
    \/ \E t \in Tokens :
          RecvUnbookOrder(t) /\ Handled([kind |-> "unbook_order", token |-> t])
    \/ \E t \in Tokens, q \in Qtys :
          RecvUpdateRemaining(t, q)
          /\ Handled([kind |-> "update_remaining", token |-> t, qty |-> q])
    \/ RecvEpochNote /\ Handled([kind |-> "epoch"])

Spec == Init /\ [][Next]_vars

-----------------------------------------------------------------------------
(* Properties                                                              *)

TypeOK == rows \in [BOOLEAN -> Seq(Row)] /\ handled.tick \in {0, 1}

(* Rows of side s in display order: rate ascending for sells and           *)
(* descending for buys, a booked row before the epoch row of its rate.     *)
RowBefore(s, r1, r2) ==
    IF r1.rate # r2.rate THEN (IF s THEN r1.rate < r2.rate ELSE r1.rate > r2.rate)
    ELSE ~r1.epoch /\ r2.epoch

(* Whatever sequence of book updates and epoch notes arrives, every tbody  *)
(* is a table addTableOrder's positional insertion can rely on: every      *)
(* order sits in the row of its side, rate and epoch-ness, the market-     *)
(* order row (rate 0) can only be the first, and the limit rows are        *)
(* strictly ordered by the comparator, so no two rows share rate and       *)
(* epoch-ness.                                                             *)
RowsWellFormed ==
    \A s \in BOOLEAN :
      LET R == rows[s] IN
      /\ \A i \in DOMAIN R :
           /\ \A k \in DOMAIN R[i].bin :
                /\ R[i].bin[k].sell = s
                /\ R[i].bin[k].rate = R[i].rate
                /\ R[i].rate # 0 => IsEpoch(R[i].bin[k]) = R[i].epoch
           /\ R[i].rate = 0 => i = 1
      /\ \A i, j \in DOMAIN R : i < j /\ R[i].rate # 0 => RowBefore(s, R[i], R[j])

(* The refinement mapping: a side displays the bag of its rows' orders.   *)
Displayed(side) == FoldLeft(LAMBDA b, r : b (+) ToBag(r.bin), EmptyBag, side)

Display == INSTANCE OrderDisplay WITH disp <- [s \in BOOLEAN |-> Displayed(rows[s])],
                                     handled <- handled

(* The rows keep exactly the orders the routes delivered: each handler's  *)
(* row bookkeeping (positional insert, first-match remove and update, the *)
(* epoch purge, the binned reload) changes the orders on display exactly  *)
(* as its message says, so no order is lost, duplicated or given another  *)
(* quantity by the rows.                                                   *)
DisplayRefinement == Display!Spec

=============================================================================
