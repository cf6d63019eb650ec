------------------------------ MODULE PreOrder ------------------------------
(***************************************************************************)
(* The order form's verify step on the markets page (markets.ts).          *)
(* stepSubmit validates the parsed form and calls showVerify, which        *)
(* empties preorderCache, parses the form into this.currentOrder and, with *)
(* both wallets open, calls preOrder(order); with a wallet locked it calls *)
(* unlockWalletsForEstimates, which fires /api/openwallet without waiting  *)
(* for it and calls preOrder(this.parseOrder()).  preOrder's               *)
(* refreshPreorder awaits fetchPreorder (a cache keyed by the order's      *)
(* options, else POST /api/preorder) and then shows the fees and rebuilds  *)
(* the option controls, which edit the options of the order refreshPreorder *)
(* was given.  submitOrder sends this.currentOrder.                        *)
(*                                                                         *)
(* TradeForm objects are shared by reference, so the model keeps them in a *)
(* store `objs` and the page's fields hold indices into it.  An order is   *)
(* reduced to its quantity and one boolean option; the limit rate, side    *)
(* and market are fixed.  The core answers POSTs in any order.             *)
(***************************************************************************)
EXTENDS Integers, Sequences, SequencesExt

CONSTANTS
    Qtys,          \* quantities the form can hold, 0 for an empty field
    None,          \* model value: no estimate on the pane
    Err,           \* model value: the pre-order error on the pane
    MaxObjs,       \* bound on the TradeForm objects parseOrder creates
    MaxSent        \* bound on submitted orders

ASSUME 0 \in Qtys

VARIABLES
    formQty,       \* page.qtyField (and lotField) as parsed
    objs,          \* the TradeForm objects created so far
    currentOrder,  \* this.currentOrder: an index into objs
    walletsOpen,   \* base.wallet.open /\ quote.wallet.open
    unlocking,     \* an /api/openwallet request is outstanding
    formOpen,      \* the verify form is shown
    cache,         \* this.preorderCache: options -> estimate, or None
    reqs,          \* /api/preorder requests awaiting an answer
    shown,         \* the estimate on vPreorder, None, or Err
    bound,         \* the order the option controls edit, 0 for none
    sent           \* history: orders sent to /api/tradeasync

vars == <<formQty, objs, currentOrder, walletsOpen, unlocking, formOpen,
          cache, reqs, shown, bound, sent>>

TradeForm == [qty: Qtys, opts: BOOLEAN]

(* The core's estimate is a function of the order it was asked about. *)
Estimate == [qty: Qtys, opts: BOOLEAN]

Req == [obj: 1..MaxObjs, qty: Qtys, opts: BOOLEAN]

NoCache == [k \in BOOLEAN |-> None]

-----------------------------------------------------------------------------

(* parseOrder: a new object from the form fields, with options {}. *)
ParseOrder == [qty |-> formQty, opts |-> FALSE]

(* validateOrder: a zero quantity is refused (the rate checks concern a    *)
(* rate the model keeps valid).                                            *)
ValidateOrder(o) == o.qty # 0

(* setFeeEstimates: the pane shows the estimate (its formatting left out). *)
SetFeeEstimates(est) == shown' = est

(* reloadOrderOpts: the option controls are rebuilt for order `o`. *)
ReloadOrderOpts(o) == bound' = o

(* refreshPreorder's continuation after a successful fetch. *)
ApplyEstimate(o, est) == SetFeeEstimates(est) /\ ReloadOrderOpts(o)

(* refreshPreorder(order) up to its await: fetchPreorder answers from the  *)
(* cache at once (the await resumes before any other event) or posts       *)
(* /api/preorder with the order as it is now.  `os` and `c` are the object *)
(* store and the cache the call sees.                                      *)
RefreshPreorder(o, os, c) ==
    LET key == os[o].opts IN
    IF c[key] # None
    THEN /\ ApplyEstimate(o, c[key])
         /\ UNCHANGED reqs
    ELSE /\ reqs' = reqs \cup {[obj |-> o, qty |-> os[o].qty, opts |-> key]}
         /\ UNCHANGED <<shown, bound>>

-----------------------------------------------------------------------------
(* Page steps                                                              *)

(* lotChanged / quantityChanged: the field changes and previewQuoteAmt     *)
(* re-parses this.currentOrder.  The verify form covers the order form.    *)
EditQty(q) ==
    /\ ~formOpen
    /\ Len(objs) < MaxObjs
    /\ formQty' = q
    /\ objs' = Append(objs, [qty |-> q, opts |-> FALSE])
    /\ currentOrder' = Len(objs')
    /\ UNCHANGED <<walletsOpen, unlocking, formOpen, cache, reqs, shown, bound, sent>>

(* unlockWalletsForEstimates: unlockMarketWallets starts /api/openwallet *)
(* for a locked wallet and returns without awaiting it; preOrder gets a    *)
(* second parse of the form, not this.currentOrder.                        *)
UnlockWalletsForEstimates ==
    /\ objs' = objs \o <<ParseOrder, ParseOrder>>
    /\ unlocking' = TRUE
    /\ RefreshPreorder(Len(objs'), objs', NoCache)

(* showVerify: the cache is emptied, this.currentOrder re-parsed and the   *)
(* verify form shown; with both wallets open preOrder(order) follows.      *)
ShowVerify ==
    /\ formOpen' = TRUE
    /\ cache' = NoCache
    /\ currentOrder' = Len(objs) + 1
    /\ IF walletsOpen
       THEN /\ objs' = Append(objs, ParseOrder)
            /\ RefreshPreorder(currentOrder', objs', NoCache)
            /\ UNCHANGED unlocking
       ELSE UnlockWalletsForEstimates

(* stepSubmit: a form validateOrder refuses stays; the market's wallets    *)
(* exist in the model.                                                     *)
StepSubmit ==
    /\ ~formOpen
    /\ ValidateOrder(ParseOrder)
    /\ Len(objs) + (IF walletsOpen THEN 1 ELSE 2) <= MaxObjs
    /\ ShowVerify
    /\ UNCHANGED <<formQty, walletsOpen, sent>>

(* closePopups (a form-closer click or Escape): forms.close(). *)
CloseForm ==
    /\ formOpen
    /\ formOpen' = FALSE
    /\ UNCHANGED <<formQty, objs, currentOrder, walletsOpen, unlocking, cache,
                   reqs, shown, bound, sent>>

(* An option control flips order.options of the order it was built for,   *)
(* and its `changed` callback calls refreshPreorder for that order.  The   *)
(* controls are on the pane, which is hidden after an error, and under the *)
(* loader each fetchPreorder puts over the verify form while it waits.     *)
ChangeOption ==
    /\ formOpen /\ reqs = {} /\ shown \in Estimate /\ bound # 0
    /\ objs' = [objs EXCEPT ![bound].opts = ~@]
    /\ RefreshPreorder(bound, objs', cache)
    /\ UNCHANGED <<formQty, currentOrder, walletsOpen, unlocking, formOpen, cache, sent>>

(* submitOrder: validateOrder, POST /api/tradeasync with this.currentOrder *)
(* and, on success, the forms are hidden.  The button is under the same    *)
(* loader.                                                                 *)
SubmitOrder ==
    /\ formOpen /\ reqs = {}
    /\ Len(sent) < MaxSent
    /\ ValidateOrder(objs[currentOrder])
    /\ sent' = Append(sent, objs[currentOrder])
    /\ formOpen' = FALSE
    /\ UNCHANGED <<formQty, objs, currentOrder, walletsOpen, unlocking, cache,
                   reqs, shown, bound>>

(* handleBalanceNote: this.preorderCache = {}. *)
BalanceNote ==
    /\ cache # NoCache
    /\ cache' = NoCache
    /\ UNCHANGED <<formQty, objs, currentOrder, walletsOpen, unlocking, formOpen,
                   reqs, shown, bound, sent>>

(* fetchPreorder resumes: an error goes to setPreorderErr (the pane is     *)
(* hidden); an estimate is cached under the key computed before the await  *)
(* and refreshPreorder shows it for the order it was called with.  The     *)
(* core refuses the estimate while a wallet is locked.                     *)
PreorderAnswered(r) ==
    /\ reqs' = reqs \ {r}
    /\ IF walletsOpen
       THEN LET est == [qty |-> r.qty, opts |-> r.opts] IN
            /\ cache' = [cache EXCEPT ![r.opts] = est]
            /\ ApplyEstimate(r.obj, est)
       ELSE /\ shown' = Err
            /\ UNCHANGED <<cache, bound>>
    /\ UNCHANGED <<formQty, objs, currentOrder, walletsOpen, unlocking, formOpen, sent>>

(* unlockWallet resumes: the wallet is open. *)
WalletOpened ==
    /\ unlocking
    /\ walletsOpen' = TRUE
    /\ unlocking' = FALSE
    /\ UNCHANGED <<formQty, objs, currentOrder, formOpen, cache, reqs, shown, bound, sent>>

-----------------------------------------------------------------------------

(* After setMarket's previewQuoteAmt(false): an empty form parsed. *)
Init ==
    /\ formQty = 0
    /\ objs = <<[qty |-> 0, opts |-> FALSE]>>
    /\ currentOrder = 1
    /\ walletsOpen \in BOOLEAN
    /\ unlocking = FALSE
    /\ formOpen = FALSE
    /\ cache = NoCache
    /\ reqs = {}
    /\ shown = None
    /\ bound = 0
    /\ sent = <<>>

Next ==
    \/ \E q \in Qtys : EditQty(q)
    \/ StepSubmit
    \/ CloseForm
    \/ ChangeOption
    \/ SubmitOrder
    \/ BalanceNote
    \/ \E r \in reqs : PreorderAnswered(r)
    \/ WalletOpened

Spec == Init /\ [][Next]_vars

-----------------------------------------------------------------------------
(* Properties                                                              *)

TypeOK ==
    /\ formQty \in Qtys
    /\ objs \in Seq(TradeForm) /\ Len(objs) \in 1..MaxObjs
    /\ currentOrder \in 1..Len(objs)
    /\ walletsOpen \in BOOLEAN /\ unlocking \in BOOLEAN /\ formOpen \in BOOLEAN
    /\ cache \in [BOOLEAN -> Estimate \cup {None}]
    /\ reqs \subseteq Req
    /\ shown \in Estimate \cup {None, Err}
    /\ bound \in 0..Len(objs)
    /\ sent \in Seq(TradeForm)

(* An order submitted from the verify form carries the options its        *)
(* controls show: the options of the order the controls edit are those of  *)
(* this.currentOrder, which submitOrder sends.                             *)
SubmitsShownOptions ==
    [][Len(sent') > Len(sent) /\ shown \in Estimate /\ bound # 0
         => Last(sent').opts = objs[bound].opts]_vars


(* Once every /api/preorder answer is in, the open verify form shows the   *)
(* estimate of this.currentOrder's quantity.  fetchPreorder's answers are *)
(* applied in the order they arrive and cached under the options key, so   *)
(* an answer of an earlier verify (the form closed while it was pending)   *)
(* that lands last is shown, and served from the cache later.              *)
ShownForCurrentOrder ==
    formOpen /\ reqs = {} /\ shown \in Estimate => shown.qty = objs[currentOrder].qty

=============================================================================
