------------------------------ MODULE BookSync ------------------------------
(***************************************************************************)
(* The order table of the markets page (OrderTable) fed by a server that   *)
(* runs epochs.  Orders submitted during epoch n are sent as 'epoch_order' *)
(* tagged n; when epoch n closes, its standing limit orders are booked     *)
(* ('book_order') and its immediate ones leave the queue; a booked order   *)
(* can be unbooked ('unbook_order').  These book routes reach the page in  *)
(* order on the market's feed.  The epoch note of the new epoch is a core  *)
(* note: it reaches the page on the note feed, which is not ordered with   *)
(* the book feed, so orders of epoch n+1 can arrive before the note of     *)
(* epoch n+1 (the core and the server are not part of this source).        *)
(*                                                                         *)
(* One market of one host, which the page has subscribed to: the host and  *)
(* market filters of the handlers always pass.                             *)
(***************************************************************************)
EXTENDS Integers, Sequences, FiniteSets

CONSTANTS
    Tokens,       \* order tokens (model values)
    LimitRates,   \* message rates of limit orders
    Qtys,         \* order quantities
    MaxEpoch,     \* the server runs epochs 1..MaxEpoch
    MaxFeed       \* bound on the messages in flight on the book feed

VARIABLES
    rows,         \* the page's tbodies (OrderTable)
    pepoch,       \* the epoch of the last epoch note the page handled
    seen,         \* history: tokens of the epoch_orders the page handled
    sepoch,       \* the server's open epoch
    queue,        \* the server's epoch queue: orders of sepoch
    closed,       \* orders of the closed epoch not yet booked or dropped
    booked,       \* the server's booked orders
    standing,     \* standing[t]: the order's time-in-force is standing
    used,         \* tokens the server has handed out
    feed,         \* book routes in flight, server to page, in order
    notes         \* epoch notes in flight, core to page, in order

vars == <<rows, pepoch, seen, sepoch, queue, closed, booked, standing, used,
          feed, notes>>

(* The table's history variable serves its refinement only; no action of *)
(* the table used here reads or writes it.                                *)
T == INSTANCE OrderTable WITH Snapshots <- {}, MaxShown <- 0,
                              handled <- [msg |-> [kind |-> "setmarket"], tick |-> 0]

Msg == [kind: {"book"}, snap: [booked: SUBSET T!BookedOrders,
                               epoch: Seq(T!EpochLimitOrders)]]
       \cup [kind: {"book_order", "epoch_order"}, ord: T!Order]
       \cup [kind: {"unbook_order"}, token: Tokens]

-----------------------------------------------------------------------------
(* The page: each message is one route handler of OrderTable.              *)

(* The page handles the next book route. *)
DeliverFeed ==
    /\ feed # <<>>
    /\ LET m == Head(feed) IN
       CASE m.kind = "book"         -> T!RecvBook(m.snap) /\ UNCHANGED seen
         [] m.kind = "book_order"   -> T!RecvBookOrder(m.ord) /\ UNCHANGED seen
         [] m.kind = "epoch_order"  -> T!RecvEpochOrder(m.ord) /\ seen' = seen \cup {m.ord.token}
         [] m.kind = "unbook_order" -> T!RecvUnbookOrder(m.token) /\ UNCHANGED seen
    /\ feed' = Tail(feed)
    /\ UNCHANGED <<pepoch, sepoch, queue, closed, booked, standing, used, notes>>

(* handleEpochNote: this.book.setEpoch(note.epoch), then                   *)
(* clearOrderTableEpochs.                                                  *)
DeliverNote ==
    /\ notes # <<>>
    /\ pepoch' = Head(notes)
    /\ T!RecvEpochNote
    /\ notes' = Tail(notes)
    /\ UNCHANGED <<seen, sepoch, queue, closed, booked, standing, used, feed>>

-----------------------------------------------------------------------------
(* The server and the core                                                 *)

Send(m) == /\ Len(feed) < MaxFeed
           /\ feed' = Append(feed, m)

(* A limit order enters the open epoch's queue. *)
Submit(t, s, r, q, st) ==
    /\ t \notin used
    /\ LET o == [token |-> t, sell |-> s, rate |-> r, qty |-> q, epoch |-> sepoch] IN
       /\ queue' = queue \cup {o}
       /\ Send([kind |-> "epoch_order", ord |-> o])
    /\ used' = used \cup {t}
    /\ standing' = [standing EXCEPT ![t] = st]
    /\ UNCHANGED <<rows, pepoch, seen, sepoch, closed, booked, notes>>

(* The open epoch closes once the previous one is resolved; the core's    *)
(* note of the new epoch is queued on the note feed.                       *)
CloseEpoch ==
    /\ sepoch < MaxEpoch
    /\ closed = {}
    /\ closed' = queue
    /\ queue' = {}
    /\ sepoch' = sepoch + 1
    /\ notes' = Append(notes, sepoch + 1)
    /\ UNCHANGED <<rows, pepoch, seen, booked, standing, used, feed>>

(* An order of the closed epoch is resolved: a standing one is booked, an  *)
(* immediate one leaves (no match is made in this model).                  *)
Resolve(o) ==
    /\ closed' = closed \ {o}
    /\ IF standing[o.token]
       THEN LET b == [o EXCEPT !.epoch = 0] IN
            /\ booked' = booked \cup {b}
            /\ Send([kind |-> "book_order", ord |-> b])
       ELSE UNCHANGED <<booked, feed>>
    /\ UNCHANGED <<rows, pepoch, seen, sepoch, queue, standing, used, notes>>

(* A booked order is cancelled or filled and leaves the book. *)
Unbook(o) ==
    /\ booked' = booked \ {o}
    /\ Send([kind |-> "unbook_order", token |-> o.token])
    /\ UNCHANGED <<rows, pepoch, seen, sepoch, queue, closed, standing, used, notes>>

-----------------------------------------------------------------------------

(* The page has subscribed; the 'book' snapshot of the empty book in epoch *)
(* 1 is on its way.                                                        *)
Init ==
    /\ rows = [s \in BOOLEAN |-> <<>>]
    /\ pepoch = 0
    /\ seen = {}
    /\ sepoch = 1
    /\ queue = {} /\ closed = {} /\ booked = {}
    /\ standing = [t \in Tokens |-> FALSE]
    /\ used = {}
    /\ feed = <<[kind |-> "book", snap |-> [booked |-> {}, epoch |-> <<>>]]>>
    /\ notes = <<>>

Next ==
    \/ DeliverFeed
    \/ DeliverNote
    \/ \E t \in Tokens, s \in BOOLEAN, r \in LimitRates, q \in Qtys, st \in BOOLEAN :
          Submit(t, s, r, q, st)
    \/ CloseEpoch
    \/ \E o \in closed : Resolve(o)
    \/ \E o \in booked : Unbook(o)

Spec == Init /\ [][Next]_vars

-----------------------------------------------------------------------------
(* Properties                                                              *)

TypeOK ==
    /\ rows \in [BOOLEAN -> Seq(T!Row)]
    /\ pepoch \in 0..MaxEpoch /\ seen \subseteq Tokens
    /\ sepoch \in 1..MaxEpoch
    /\ queue \subseteq T!EpochLimitOrders /\ closed \subseteq T!EpochLimitOrders
    /\ booked \subseteq T!BookedOrders
    /\ standing \in [Tokens -> BOOLEAN] /\ used \subseteq Tokens
    /\ feed \in Seq(Msg) /\ notes \in Seq(1..MaxEpoch)

(* The table shows an order with token t. *)
Displays(t) == \E s \in BOOLEAN : \E i \in DOMAIN rows[s] : T!HasToken(rows[s][i], t)

(* An order in the queue of the epoch the page has reached, whose          *)
(* epoch_order the page has handled, is shown in the table: the epoch      *)
(* purge removes only orders of older epochs (spec section 4.4,            *)
(* purgeExpiredEpochOrders(currentEpoch)).                                 *)
EpochQueueShown ==
    \A o \in queue : o.token \in seen /\ pepoch = o.epoch => Displays(o.token)

=============================================================================
