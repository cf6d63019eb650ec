--------------------------- MODULE MC_UserOrders ----------------------------
(* Two markets; on m1 an order executed before the page opened, a standing *)
(* limit order and a market order; on m2 an immediate limit order.         *)
EXTENDS UserOrders, TLC

CONSTANTS m1, m2, h, a, b, c

MCMarkets == {m1, m2}

MCOrders == {h, a, b, c}

MCMktOf == (h :> m1) @@ (a :> m1) @@ (b :> m1) @@ (c :> m2)

MCTypeOf == (h :> "standing") @@ (a :> "standing") @@ (b :> "market") @@ (c :> "immediate")

=============================================================================
