----------------------------- MODULE MC_Candles -----------------------------
(* Two markets of one host, the 5-minute and one other duration, two       *)
(* buckets, one market switch.                                             *)
EXTENDS Candles

CONSTANTS m1, m2, d5m, d1h

MCMarkets == {m1, m2}

MCDurs == {d5m, d1h}

====
