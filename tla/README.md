# TLA+ models of the DEX markets page (markets.ts)

These modules model `src/client/webserver/site/src/js/markets.ts`, the
`MarketsPage` code that keeps a live view of one market of a DEX host. That
view has these parts:

- the order-book tables and the epoch queue;
- the candles;
- the recent matches;
- the max-order estimate;
- the user's order list;
- the verify step of the order form.

The page is fed by websocket routes and core notes while the user edits the
order form.

## The system

Everything runs on the browser's single-threaded event loop. Each of the
following is one atomic step, and the model treats it as one action:

- a websocket route handler (registered in the constructor, lines 359–374);
- a note handler (`registerNoteFeeder`, lines 518–528);
- a user event handler;
- a timer callback;
- the part of an `async` function between two `await`s.

A microtask continuation is the exception. An `await` of a value that is
already there, such as a `fetchPreorder` cache hit, resumes before any other
event, so it belongs to the step that awaited.

Concurrency comes from the order in which these steps interleave. The steps
come from four sources:

- the server's feed of each market, which arrives in order:
  - `book`, `book_order`, `unbook_order`, `update_remaining`, `epoch_order`;
  - `candles`, `candle_update`;
  - `epoch_match_summary`;
- messages of different markets, which interleave freely;
- core notes: `order`, `epoch`, `balance`, `walletstate`;
- the user: market selection, side, rate and quantity fields, the sort
  column, the candle duration, the verify form;
- the page's own timers and POSTs: `maxEstimateTimer` with `/api/maxsell` and
  `/api/maxbuy`, the candle watchdog, `/api/orders`, `/api/preorder`,
  `/api/openwallet` and `/api/tradeasync`.

The core may answer POSTs in any order.

| Part (spec name) | Code | Module | Status |
|---|---|---|---|
| RowAggregator | `OrderTableRowManager` (3460–3581); `addTableOrder`, `removeTableOrder`, `updateTableOrder`, `loadTableSide`, `binOrdersByRateAndEpoch`, `clearOrderTableEpochs` (2862–2980); book route handlers (1897–1951) | `OrderTable`, abstract `OrderDisplay` | modelled |
| MaxOrderEstimator | `preSell`, `preBuy`, `scheduleMaxEstimate`, `setMaxOrder` (1344–1493); the estimate part of `setMarket` and `handleBalanceNote` | `MaxEstimate` | partly |
| CandleCache | `handleCandlesRoute`, `handleCandleUpdateRoute`, `candleDurationSelected`, `loadCandles`, `requestCandles`, `setHighLow` | `Candles` | modelled |
| RecentTradeLog | `addRecentMatches`, `refreshRecentMatchesTable`, `setRecentMatchesSortCol`, `handleEpochMatchSummary` | `RecentMatches` | modelled |
| User order list | `loadUserOrders`, `resolveUserOrders`, `refreshActiveOrders`, `handleOrderNote`, `handleEpochNote` | `UserOrders` | partly |
| Order form, verify step | `stepSubmit`, `validateOrder`, `showVerify`, `unlockWalletsForEstimates`, `fetchPreorder`, `preOrder`, `submitOrder` | `PreOrder` | partly |
| EpochTracker | `handleEpochNote` (2604–2634) | `OrderTable` (table purge), `BookSync` (purge against the server's epochs), `UserOrders` (order status) | partly |
| BookModel | `OrderBook` (orderbook.ts, not in this source) | `OrderTable` (`BookSide`) | partly, from the spec |
| Session and route filters | `setMarket`; each route's host and market check | `SetMarket` of each module; the table clear in `OrderTable` | partly |
| Charts, market list, balance widget, registration, cancel and accelerate | the rest of the file | none | not modelled: UI and single POSTs with no state the page reads back |

## Modules

### OrderTable and OrderDisplay

`OrderTable.tla` holds both tbodies as `rows[sell]`. Each tbody is a sequence
of rows `[rate, epoch, bin]`. `epoch` is the row's `this.epoch` flag, and
`bin` is its `orderBin`.

An order is a `MiniOrder` reduced to token, side, message rate, remaining
quantity and epoch. In that encoding:

- rate 0 is a market order;
- rate 0 with quantity 0 is a cancel order;
- epoch 0 is a booked order, the falsy epoch.

The module's operators mirror the code:

- `NewRow`, `InsertOrder`, `Compare`, `RemoveOrder`, `UpdateOrderQty` and
  `RemoveEpochOrders` are the row-manager methods;
- `AddTableOrder` is the positional scan of `addTableOrder`;
- `RemoveTableOrder` and `UpdateTableOrder` scan the sell tbody first;
- `BinOrdersByRateAndEpoch` is the loop as a `FoldLeft`;
- `HandleBook` is `loadTable` followed by `addTableOrder` of each
  epoch-queue order.

The table is an open component: it receives the selected market's messages
only. `SetMarket` is `setMarket`'s `Doc.empty` of both tbodies. After it,
the book routes of the previous market return at their market check before
any change, so leaving them out loses no behaviour.

`OrderDisplay.tla` is what the table promises, without rows: per side, a bag
of displayed orders, changed by exactly the message just handled. Each
message has one effect:

- a `book` payload replaces the bag;
- a `book_order` is added;
- an `epoch_order` is added unless it is a cancel;
- an `unbook_order` removes one order with the token;
- an `update_remaining` changes the quantity of one order with the token;
- an unknown token changes nothing;
- the epoch note clears the epoch queue;
- `setMarket` clears both sides.

`OrderTable` implements it under the mapping `Displayed`, which sums each
side's rows' bins. The table's history variable `handled` records each step's
message and a bit that flips at every step. So every step of the table must be
the abstract step for its own message: it can neither stutter nor take
another message's effect. TLC finds the refinement violated when a handler
loses a `book_order`, or when `removeOrder` drops every order with the token.

`MC_OrderTable` tells states apart by `rows` alone (`VIEW RowsView`). This is
sound for two reasons:
- the successors of a state and every invariant depend on `rows` only;
- each step sets `handled` to its own message and flipped bit, whatever the
  earlier value was.

Without the view, the last message multiplies the state space.

### MaxEstimate

`MaxEstimate.tla` models the debounced estimate:

- `counter` is `maxOrderUpdateCounter`;
- `timer` is `maxEstimateTimer` with the closure state it captured;
- `inflight` holds the POSTs awaiting an answer.

The market object's fields (`maxSell`, `maxSellRequested`, `sellBalance`,
`maxBuys`, `buyBalance`) are variables. `session` numbers the market objects
that `setMarket` creates. The actions are:

- `SetMarket`, `EditRate`, `SetSide`;
- `FireTimer`: the timer callback up to its `await`;
- `Respond`: the continuation after the `await`;
- `BalanceNote`, `WalletRunning`.

### Candles

`Candles.tla` models these parts:

- `candleCaches` of the market object, per duration;
- the chart, by the session and duration it was last given;
- `candlesLoading` and the 10 s watchdogs of `requestCandles`;
- a server that answers `loadcandles` in order and streams `candle_update`s of
  the subscribed market on per-market FIFO channels.

`MergeUpdate` is the merge of `handleCandleUpdateRoute`: it replaces the last
candle when the bucket starts agree, and otherwise appends.

### RecentMatches

`RecentMatches.tla` models `this.recentMatches` together with its sort key and
direction.

- `SortMatches` is `Array.prototype.sort` with `recentMatchesSortCompare`. It
  is stable: `SortSeq` over indices, with ties ordered by index.
- `AddRecentMatches` is `[...new, ...old].slice(0, 100)`.
- The history variable `newestKept` records, since the last snapshot, whether
  every match added was of the selected market and whether every cut that
  dropped a match happened under the default sort (age, newest first).

The server sends `null` for an empty list (Go's nil slice). The model keeps
that value, so that `?? []` in `handleBook` matters.

### UserOrders

`UserOrders.tla` models `metaOrders` against a core that owns the orders. The
core sends its notes in order, and the app's store is updated from each note
before the page's handler runs. The module covers:

- `loadUserOrders`: either the synchronous branch or the `/api/orders` POST
  with its `await`;
- `resolveUserOrders`: merge, rank active orders first and newer first, then
  cut to `maxUserOrderCount()`;
- `handleOrderNote`: refresh for an unknown order or `AsyncOrderSubmitted`,
  otherwise replace the copy;
- `handleEpochNote`: the local status guesses;
- `submitOrder`'s refresh.

### PreOrder

`PreOrder.tla` models the verify step. `TradeForm` objects are shared by
reference: `this.currentOrder`, the closure of `refreshPreorder` and the
option controls each hold one. The model therefore keeps the objects in a
store `objs` and holds indices into it.

An order is reduced to a quantity and one boolean option. The actions are:

- `EditQty` (`lotChanged` and `quantityChanged`);
- `StepSubmit` → `ShowVerify`, which with a locked wallet goes to
  `UnlockWalletsForEstimates`;
- `ChangeOption`, the `changed` callback of an option control;
- `PreorderAnswered`, the continuation of `fetchPreorder` and
  `refreshPreorder`;
- `WalletOpened`, `CloseForm`, `SubmitOrder`, `BalanceNote`.

Options and the submit button are usable only when the verify form is free:
no `/api/preorder` may be outstanding, because `app().loading` covers the
form during each fetch.

### BookSync

`BookSync` composes `OrderTable` with a server that runs epochs. It takes
the table as `T == INSTANCE OrderTable`, and each page action is one of the
table's handlers:

- `DeliverFeed`: the next book route (`book`, `book_order`, `epoch_order`,
  `unbook_order`) is handed to `T!RecvBook`, `T!RecvBookOrder`,
  `T!RecvEpochOrder` or `T!RecvUnbookOrder`.
- `DeliverNote`: `handleEpochNote`'s purge, `T!RecvEpochNote`.

The server and the core are not in this source (spec-modelled):

- `Submit` puts a limit order into the open epoch's queue and sends its
  `epoch_order`.
- `CloseEpoch` moves the queue to `closed`, opens the next epoch and queues
  the core's epoch note.
- `Resolve` books a standing order of the closed epoch (`book_order`) or
  drops an immediate one.
- `Unbook` removes a booked order (`unbook_order`).

The book routes reach the page in order on the market's feed (`feed`). The
epoch note is a core note on its own feed (`notes`), and the model assumes no
order between the two feeds. The server sends `epoch_order`s of epoch n+1 as
soon as epoch n closes, while the note reaches the page through the core.
`EpochQueueShown` states that an order of the page's current epoch, whose
`epoch_order` the page has handled, is displayed. The spec's
`purgeExpiredEpochOrders(currentEpoch)` promises this, and so does the comment
on `removeEpochOrders`.

## Runs

| Run | Config | Expect | Shows |
|---|---|---|---|
| table_shape | `MC_OrderTable.cfg` | pass | `RowsWellFormed`: any sequence of book messages keeps each tbody sorted by the comparator, with homogeneous rows and the market row first. `DisplayRefinement`: every handler changes the displayed orders exactly as its message says (`OrderDisplay`), so no order is lost, duplicated or altered. |
| estimate_safety | `MC_MaxEstimate.cfg` | pass | `CacheKeysMatch`: the caches hold only their own market's estimates under their own key. `SentForSelectedMarket`: every POST is for the selected market. `CalculatingResolves`: "calculating" is always replaced. |
| estimate_stale_market | `MC_MaxEstimate_ShownForCurrentMarket.cfg` | violation | After a market switch, an answer for the old market is shown on the new market's panel. |
| estimate_stale_form | `MC_MaxEstimate_ShownMatchesForm.cfg` | violation | A cache hit or low-balance return leaves an older timer pending, and that timer later shows an estimate for another rate. |
| estimate_sell_stuck | `MC_MaxEstimate_SellRequestPending.cfg` | violation | `maxSellRequested` stays set with no request on its way, and `preSell` never asks again. |
| candles_chart | `MC_Candles.cfg` | pass | `ChartShowsSelection`: the chart keeps returning to the selected market and duration, even after the watchdog fires early. `MergeIdempotent`: a repeated `candle_update` never duplicates a bucket. |
| candles_foreign_update | `MC_Candles_CandlesOfMarket.cfg` | violation | A `candle_update` of the previous market (filtered by host only) is merged into the new market's cache. |
| recent_sorted | `MC_RecentMatches.cfg` | pass | `LogSorted`: after any interleaving of snapshots, summaries and column clicks, the list is in the selected order. `NewestKeptUnderDefaultSort`: while `newestKept` holds, every match dropped is older than every match listed. If either condition is removed, or the two lists are swapped in the cut, TLC finds this violated. |
| recent_foreign_summary | `MC_RecentMatches_LogOfMarket.cfg` | violation | `LogOfMarket`: once nothing is in flight, every listed match is of the selected market. The page leaves m2 for m1. m2's summary, on m2's feed, is delivered after m1's snapshot, and `handleEpochMatchSummary` (no filter) prepends it. It stays. |
| orders_stale_answer | `MC_UserOrders_ListCurrent.cfg` | violation | `ListCurrent`: once quiet, every listed order is of the selected market and shows the core's status. An `/api/orders` answer is resolved into whatever the page holds when it arrives: after a switch from m1 to m2, m1's answer puts its executed order into m2's list, and m2's empty answer merges and leaves it there. The same unchecked resolve restores an older status over a note handled during the request. |
| booksync_epoch_purge | `MC_BookSync_EpochQueueShown.cfg` | violation | An `epoch_order` of the new epoch that arrives before the epoch note is shown, then purged by that note, because `clearOrderTableEpochSide` calls `removeEpochOrders()` with no epoch. |
| preorder_options_lost | `MC_PreOrder_SubmitsShownOptions.cfg` | violation | With a wallet locked, the option controls edit a second parse of the form, so `submitOrder` sends the order without the chosen option. |

Each violation is a finding in `PROJECT.json`.

Each passing property has a mutant there: a plausible bug in a mapped
definition that TLC catches under the run's own configuration.

`KeepsNewest` (RecentMatches) is stated but has no run of its own. With the
list sorted by rate, `addRecentMatches` evicts newer matches, which departs
from the spec's insertion-order eviction. The spec leaves eviction as an open
question. The run recent_sorted checks instead the conditions under which the
oldest match is the one dropped (`NewestKeptUnderDefaultSort`). A late summary
of another market breaks this even under the default sort.

`CacheBalanceCurrent` (MaxEstimate) is stated but has no run either. TLC
finds it violated as an invariant under `MC_MaxEstimate.cfg`: a balance note
arrives during the request, and the answer is then cached beside the new
balance. The stale value is only the upper bound shown beside the form, and
the run went to the epoch purge.

`ShownForCurrentOrder` (PreOrder) is stated but has no run either. Once every
`/api/preorder` answer is in, the open verify form should show the estimate of
`this.currentOrder`. TLC finds it violated in eight steps with `MaxObjs` 5:
1. verify an order of quantity 1;
2. close the form while its request is pending;
3. edit the quantity to 2 and verify again;
4. the two answers arrive in reverse order.

The pane then shows quantity 1, and `preorderCache` serves that estimate on
the next option toggle. The project's runs are all taken by defects found
earlier, so this one is listed as a hazard.

Three violation runs set `CHECK_DEADLOCK FALSE`:

- in `UserOrders`, the bounded core stops, and a page with nothing left to
  receive simply waits;
- in `PreOrder`, the bounds on parses and submissions end every behaviour in
  the same way;
- in `BookSync`, the server stops after `MaxEpoch` epochs and `MaxFeed`
  messages in flight, and the page then has nothing to receive.

### Bounds

**OrderTable:**

- three tokens;
- limit rates {1, 2} and quantities {1, 2};
- epoch 1 only: the table never compares epoch numbers, only their
  truthiness;
- at most three orders shown;
- two snapshots.

Three entries cover every row configuration the comparator distinguishes.

**MaxEstimate:**

- two markets;
- rates {1, 2};
- balances {1, 2} with lot size 2, so that a sell can fall below one lot;
- two scheduled estimates;
- one market switch.

**Candles:**

- two markets;
- two durations, one of them the 5-minute series;
- bucket starts 1..2;
- one market switch;
- at most one update in flight per market.

**RecentMatches:**

- two markets;
- rates and quantities {1, 2};
- three matches in all;
- `LogCap` 2, which stands for 100: a cut happens as soon as a summary
  arrives at a full list.

**UserOrders:**

- orders of each kind: standing, immediate, market, and one of the other
  market;
- `MaxShown` 1, which stands for 10;
- two epochs.

**PreOrder:**

- quantities {0, 1, 2};
- four order objects, enough for a verify with a locked wallet (two parses)
  and an edit;
- one submission.

**BookSync:**

- two tokens, one rate, one quantity: the purge does not depend on rates, and
  one rate also puts both orders into the same row;
- epochs 1..3, so that a closed epoch's order is booked while the next
  epoch's orders arrive;
- `MaxFeed` 2 messages in flight, enough for an `epoch_order` to overtake
  the epoch note.

TLC finds the violation at depth 6 among 631 states.

### Fairness

Only the page's own machinery and the server's answers are fair:

- a pending estimate timer or candle watchdog fires;
- the server answers a request;
- each market's channel delivers.

The user, the wallets and the notes owe nothing. `UserOrders` and `PreOrder`
state safety only.

## Not modelled

- Rendering: row elements, formatting, charts, tooltips.
- The sharing of order objects between `metaOrders` and the app's store,
  which lives in `app.ts` (not in this source).
- `handleMatchNote`. Its only list effect is the refresh for an unknown
  order, which the order note's handler already performs.

- A single module composing every part under one `setMarket`. Each module
  models its own part of `setMarket` and of the route checks, and the parts
  share no state except the selected market. The product state space is out
  of TLC's reach: `Candles` alone has over 500 000 states.
- `this.book` carried across a market switch. Each market's feed delivers
  the `book` snapshot before any update, and the other book routes check the
  market. So no route of the new market uses the old `OrderBook`.
  `orderbook.ts` is not in this source either.
- Cancel and accelerate: one POST each, which sets `order.cancelling` on
  success. Only `OrderUtil` (not in this source) reads the flag.

- `setMarketBuyOrderEstimate`: it only formats the mid-gap into the
  "min. buy" text.
- Two subscriptions of one market racing each other. Each module keeps one
  FIFO feed per market, so a summary of an earlier subscription always
  reaches the page before a later snapshot of the same market. Feeds of
  different markets do race (spec section 5). So a match listed twice after
  a market is selected again (hazard at 1584) is outside the model.

## Plan for the next modules

1. Cancel buttons against order notes in `UserOrders`, if `OrderUtil`'s
   `isCancellable` is brought into scope.
2. `updateOrderBttnState` in `MaxEstimate`. With no estimate cached, its
   limit branches leave the submit button as it was. This needs the order
   quantity, which the module abstracts away now.
