--------------------------- MODULE RecentMatches ----------------------------
(***************************************************************************)
(* The recent-matches list of the markets page (markets.ts) and the server *)
(* that feeds it.  The 'book' snapshot replaces this.recentMatches, each  *)
(* 'epoch_match_summary' is prepended and the list cut to its first        *)
(* LogCap entries (100 in the code), and every change ends with            *)
(* refreshRecentMatchesTable, which sorts the array in place by the        *)
(* user's sort column.  setMarket empties the list and subscribes to the   *)
(* new market.  As in Candles, each market's messages arrive in order and  *)
(* messages of different markets interleave freely.                        *)
(***************************************************************************)
EXTENDS Integers, Sequences, SequencesExt

CONSTANTS
    Markets,       \* the markets of the host
    Rates,         \* match rates
    Qtys,          \* match quantities
    LogCap,        \* the length addRecentMatches cuts the list to
    None,          \* model value: no subscription
    Null,          \* model value: a JSON null
    MaxStamp,      \* bound on the matches the server makes
    MaxSessions,   \* bound on the market objects setMarket creates
    MaxChan        \* bound on the summaries in flight per market

ASSUME LogCap \in Nat \ {0}

VARIABLES
    market,        \* this.market
    session,       \* the number of setMarket calls so far
    log,           \* this.recentMatches
    sortKey,       \* this.recentMatchesSortKey
    sortDir,       \* this.recentMatchesSortDirection
    received,      \* history: every match handed to the list, newest first
    reqs,          \* requests on the websocket, page to server
    subscribed,    \* the market the server streams
    matches,       \* matches[m]: the server's matches of m, newest first
    now,           \* the stamp of the server's latest match
    chan,          \* chan[m]: messages of market m, server to page
    newestKept     \* history: since the last snapshot, every match added was
                   \* of the selected market and every cut that dropped one 
                   \* happened under the default sort, newest first         

vars == <<market, session, log, sortKey, sortDir, received, reqs, subscribed,
          matches, now, chan, newestKept>>

Match == [mkt: Markets, stamp: 1..MaxStamp, rate: Rates, qty: Qtys]

SortKeys == {"rate", "qty", "age"}

Msg == [kind: {"book"}, mkt: Markets, matches: Seq(Match) \cup {Null}]
       \cup [kind: {"epoch_match_summary"}, mkt: Markets, matches: Seq(Match)]

-----------------------------------------------------------------------------

(* recentMatchesSortCompare: direction times the difference of the key.   *)
SortCompare(key, dir, a, b) ==
    dir * (CASE key = "rate" -> a.rate - b.rate
             [] key = "qty"  -> a.qty - b.qty
             [] key = "age"  -> a.stamp - b.stamp)

(* Array.prototype.sort with that comparator; the sort is stable, so ties *)
(* keep their order.                                                       *)
SortMatches(s, key, dir) ==
    LET Before(i, j) == \/ SortCompare(key, dir, s[i], s[j]) < 0
                        \/ SortCompare(key, dir, s[i], s[j]) = 0 /\ i < j
        idx == SortSeq([i \in 1..Len(s) |-> i], Before)
    IN  [k \in 1..Len(s) |-> s[idx[k]]]

(* refreshRecentMatchesTable: a null list is left alone, any other is     *)
(* sorted in place.                                                        *)
Refresh(s, key, dir) == IF s = Null THEN s ELSE SortMatches(s, key, dir)

(* addRecentMatches with the two lists swapped. *)
AddRecentMatchesAppend(old, new) ==
    LET all == old \o new IN SubSeq(all, 1, IF Len(all) < LogCap THEN Len(all) ELSE LogCap)

(* addRecentMatches: [...new, ...old].slice(0, LogCap). *)
AddRecentMatches(old, new) ==
    LET all == new \o old IN SubSeq(all, 1, IF Len(all) < LogCap THEN Len(all) ELSE LogCap)

-----------------------------------------------------------------------------
(* Page steps                                                              *)

(* setMarket: the list is emptied and 'loadmarket' sent. *)
SetMarket(m) ==
    /\ session < MaxSessions
    /\ market' = m
    /\ session' = session + 1
    /\ log' = <<>>
    /\ received' = <<>>
    /\ newestKept' = TRUE
    /\ reqs' = Append(reqs, m)
    /\ UNCHANGED <<sortKey, sortDir, subscribed, matches, now, chan>>

(* setRecentMatchesSortCol: the same column flips the direction, another   *)
(* sorts ascending by it; the table is refreshed.                          *)
SetSortCol(key) ==
    /\ IF sortKey = key
       THEN sortDir' = -sortDir /\ UNCHANGED sortKey
       ELSE sortKey' = key /\ sortDir' = 1
    /\ log' = Refresh(log, sortKey', sortDir')
    /\ UNCHANGED <<market, session, received, reqs, subscribed, matches, now, chan,
                   newestKept>>

(* handleBookRoute -> handleBook: the snapshot's list replaces the log and *)
(* is sorted.  A snapshot of another market is dropped.                    *)
BookMatchesNoDefault(msg) == msg.matches

(* data.book.recentMatches ?? []: the server sends null for no matches. *)
BookMatches(msg) == IF msg.matches = Null THEN <<>> ELSE msg.matches

RecvBook(msg) ==
    IF msg.mkt # market THEN UNCHANGED <<log, received, newestKept>>
    ELSE /\ log' = Refresh(BookMatches(msg), sortKey, sortDir)
         /\ received' = BookMatches(msg)
         /\ newestKept' = TRUE

(* Whether adding new to the list keeps newestKept true. *)
KeepsNewestStep(msg) ==
    newestKept /\ msg.mkt = market
               /\ (Len(msg.matches) + Len(log) > LogCap => sortKey = "age" /\ sortDir = -1)

(* handleEpochMatchSummary: no market check; prepend, cut, sort. *)
RecvSummaryNoRefresh(msg) ==
    /\ log' = AddRecentMatches(log, msg.matches)
    /\ received' = msg.matches \o received
    /\ newestKept' = KeepsNewestStep(msg)

RecvSummary(msg) ==
    /\ log' = Refresh(AddRecentMatches(log, msg.matches), sortKey, sortDir)
    /\ received' = msg.matches \o received
    /\ newestKept' = KeepsNewestStep(msg)

Deliver(m) ==
    /\ chan[m] # <<>>
    /\ chan' = [chan EXCEPT ![m] = Tail(@)]
    /\ LET msg == Head(chan[m]) IN
       IF msg.kind = "book" THEN RecvBook(msg) ELSE RecvSummary(msg)
    /\ UNCHANGED <<market, session, sortKey, sortDir, reqs, subscribed, matches, now>>

-----------------------------------------------------------------------------
(* Server steps                                                            *)

(* 'loadmarket': the subscription moves and the book is sent; an empty     *)
(* list of recent matches goes out as null.                                *)
ServeRequest ==
    /\ reqs # <<>>
    /\ LET m == Head(reqs) IN
       /\ subscribed' = m
       /\ chan' = [chan EXCEPT ![m] = Append(@, [kind |-> "book", mkt |-> m,
                                                 matches |-> IF matches[m] = <<>>
                                                             THEN Null ELSE matches[m]])]
    /\ reqs' = Tail(reqs)
    /\ UNCHANGED <<market, session, log, sortKey, sortDir, received, matches, now,
                   newestKept>>

(* An epoch of market m ends with a match; a subscribed page is sent its    *)
(* summary.                                                                *)
MatchMade(m, r, q) ==
    /\ now < MaxStamp
    /\ LET x == [mkt |-> m, stamp |-> now + 1, rate |-> r, qty |-> q] IN
       /\ matches' = [matches EXCEPT ![m] = <<x>> \o @]
       /\ IF subscribed = m
          THEN /\ Len(chan[m]) < MaxChan
               /\ chan' = [chan EXCEPT ![m] = Append(@, [kind |-> "epoch_match_summary",
                                                         mkt |-> m, matches |-> <<x>>])]
          ELSE UNCHANGED chan
    /\ now' = now + 1
    /\ UNCHANGED <<market, session, log, sortKey, sortDir, received, reqs, subscribed,
                   newestKept>>

-----------------------------------------------------------------------------

(* The page after its first setMarket: sorted by age, newest first. *)
Init ==
    /\ market \in Markets
    /\ session = 1
    /\ log = <<>> /\ received = <<>>
    /\ sortKey = "age" /\ sortDir = -1
    /\ reqs = <<market>>
    /\ subscribed = None
    /\ matches = [m \in Markets |-> <<>>]
    /\ now = 0
    /\ chan = [m \in Markets |-> <<>>]
    /\ newestKept = TRUE

Next ==
    \/ \E m \in Markets : SetMarket(m)
    \/ \E k \in SortKeys : SetSortCol(k)
    \/ \E m \in Markets : Deliver(m)
    \/ ServeRequest
    \/ \E m \in Markets, r \in Rates, q \in Qtys : MatchMade(m, r, q)

Spec == Init /\ [][Next]_vars

-----------------------------------------------------------------------------
(* Properties                                                              *)

TypeOK ==
    /\ market \in Markets /\ session \in 1..MaxSessions
    /\ log \in Seq(Match) /\ received \in Seq(Match)
    /\ sortKey \in SortKeys /\ sortDir \in {-1, 1}
    /\ reqs \in Seq(Markets) /\ subscribed \in Markets \cup {None}
    /\ matches \in [Markets -> Seq(Match)] /\ now \in 0..MaxStamp
    /\ chan \in [Markets -> Seq(Msg)]
    /\ newestKept \in BOOLEAN

(* The table lists the recent matches in the order of the selected column *)
(* and direction, whichever handler changed the list or the column last.   *)
LogSorted ==
    \A i \in 1..Len(log) - 1 : SortCompare(sortKey, sortDir, log[i], log[i + 1]) <= 0

(* The list keeps the newest matches it was handed, as long as every cut  *)
(* that dropped a match happened under the default sort (age, newest      *)
(* first: addRecentMatches slices the array as refreshRecentMatchesTable   *)
(* last sorted it) and no summary of another market was added (a late one *)
(* prepended at the head outlives newer matches).  Outside these           *)
(* conditions TLC finds KeepsNewest violated.                              *)
NewestKeptUnderDefaultSort ==
    newestKept => \A x \in Range(log), y \in Range(received) \ Range(log) :
                      y.stamp < x.stamp

(* Nothing is in flight: no request waits for the server and no message  *)
(* waits on any market's feed.                                             *)
Quiet == reqs = <<>> /\ \A m \in Markets : chan[m] = <<>>

(* Once everything in flight has been delivered, every recent match listed *)
(* is a match of the selected market (spec sections 5 and 6: events of    *)
(* another market are dropped).  A foreign summary that arrives before    *)
(* the new market's snapshot is replaced by it; one that arrives after    *)
(* stays.                                                                  *)
LogOfMarket == Quiet => \A i \in DOMAIN log : log[i].mkt = market

(* The list keeps the newest matches handed to it: eviction is by         *)
(* insertion order and sorting is for display only (spec section 4.5).     *)
KeepsNewest == Range(log) = Range(SubSeq(received, 1, Len(log)))

=============================================================================
