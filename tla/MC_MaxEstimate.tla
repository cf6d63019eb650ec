--------------------------- MODULE MC_MaxEstimate ---------------------------
(* Two markets, two rates, balances of one or two with a lot size of two   *)
(* (a sell of one is below a lot, a buy at rate 2 always is), two          *)
(* scheduled estimates and one market switch.  No symmetry: the run also  *)
(* checks a liveness property.                                             *)
EXTENDS MaxEstimate

CONSTANTS m1, m2

MCMarkets == {m1, m2}

====
