--------------------------- MODULE MC_OrderTable ---------------------------
(* The order table under any sequence of book routes and epoch notes.     *)
EXTENDS OrderTable

CONSTANTS t1, t2, t3

MCTokens == {t1, t2, t3}

MCTokens2 == {t1, t2}


(* Two 'book' payloads: a booked sell and a queued sell of the same rate, *)
(* which load into a booked row followed by an epoch row, and an empty    *)
(* book.                                                                  *)
MCSnapshots ==
    { [booked |-> {[token |-> t1, sell |-> TRUE, rate |-> 2, qty |-> 1, epoch |-> 0]},
       epoch  |-> <<[token |-> t2, sell |-> TRUE, rate |-> 2, qty |-> 2, epoch |-> 1]>>],
      [booked |-> {}, epoch |-> <<>>] }

(* States are told apart by their rows alone: the successors of a state   *)
(* and every invariant depend on rows only, and the refinement step reads *)
(* `handled` only through the message and the flipped bit the step sets,  *)
(* whatever the earlier value was.                                         *)
RowsView == rows

=============================================================================
