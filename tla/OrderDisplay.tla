---------------------------- MODULE OrderDisplay ----------------------------
(***************************************************************************)
(* What the order table promises, without rows: per side, the multiset of *)
(* orders on display, changed by exactly the message just handled.  A     *)
(* 'book' payload replaces it, a 'book_order' is added, an 'epoch_order'  *)
(* is added unless it is a cancel (quantity 0), an 'unbook_order' removes *)
(* one order with the token and an 'update_remaining' changes the         *)
(* quantity of one (neither does anything for an unknown token), a new    *)
(* epoch clears every epoch-queue order, and setMarket clears both sides. *)
(* `handled` is the message of the last step with a bit that flips at     *)
(* every step, so no step of the table can pass for a stuttering step.    *)
(* OrderTable implements this specification under the mapping it defines. *)
(***************************************************************************)
EXTENDS Integers, Sequences, SequencesExt, Bags, BagsExt

CONSTANTS Tokens, LimitRates, Qtys, MaxEpoch, Snapshots

VARIABLES
    disp,      \* disp[sell]: bag of the orders displayed on that side
    handled    \* [msg: the message of the last step, tick: 0 or 1]

Order == [token: Tokens, sell: BOOLEAN, rate: {0} \cup LimitRates,
          qty: {0} \cup Qtys, epoch: {0} \cup 1..MaxEpoch]

Message == {[kind |-> "setmarket"], [kind |-> "epoch"]}
           \cup [kind: {"book"}, snap: Snapshots]
           \cup [kind: {"book_order", "epoch_order"}, ord: Order]
           \cup [kind: {"unbook_order"}, token: Tokens]
           \cup [kind: {"update_remaining"}, token: Tokens, qty: Qtys]

Displayable(o) == ~(o.rate = 0 /\ o.qty = 0)

SideBag(S, s) == SetToBag({o \in S : o.sell = s})

WithToken(s, t) == {o \in BagToSet(disp[s]) : o.token = t}

(* The side an unbook or update acts on: sells are looked at first. *)
SideOf(t) == WithToken(TRUE, t) # {}

Load(snap) ==
    disp' = [s \in BOOLEAN |->
               FoldLeft(LAMBDA b, o : IF o.sell = s /\ Displayable(o)
                                      THEN BagAdd(b, o) ELSE b,
                        SideBag(snap.booked, s), snap.epoch)]

Show(o) == disp' = [disp EXCEPT ![o.sell] = BagAdd(@, o)]

Unbook(t) ==
    IF WithToken(SideOf(t), t) = {} THEN UNCHANGED disp
    ELSE \E o \in WithToken(SideOf(t), t) :
            disp' = [disp EXCEPT ![o.sell] = BagRemove(@, o)]

ChangeQty(t, q) ==
    IF WithToken(SideOf(t), t) = {} THEN UNCHANGED disp
    ELSE \E o \in WithToken(SideOf(t), t) :
            disp' = [disp EXCEPT ![o.sell] = BagAdd(BagRemove(@, o), [o EXCEPT !.qty = q])]

ClearEpochQueue ==
    disp' = [s \in BOOLEAN |->
               [o \in {x \in DOMAIN disp[s] : x.epoch = 0} |-> disp[s][o]]]

Clear == disp' = [s \in BOOLEAN |-> EmptyBag]

(* The display change a message calls for. *)
Apply(m) ==
    CASE m.kind = "setmarket"        -> Clear
      [] m.kind = "book"             -> Load(m.snap)
      [] m.kind = "book_order"       -> Show(m.ord)
      [] m.kind = "epoch_order"      -> IF m.ord.qty > 0 THEN Show(m.ord) ELSE UNCHANGED disp
      [] m.kind = "unbook_order"     -> Unbook(m.token)
      [] m.kind = "update_remaining" -> ChangeQty(m.token, m.qty)
      [] m.kind = "epoch"            -> ClearEpochQueue

Init ==
    /\ disp = [s \in BOOLEAN |-> EmptyBag]
    /\ handled = [msg |-> [kind |-> "setmarket"], tick |-> 0]

Next ==
    \E m \in Message :
        /\ handled' = [msg |-> m, tick |-> 1 - handled.tick]
        /\ Apply(m)

Spec == Init /\ [][Next]_<<disp, handled>>

=============================================================================
