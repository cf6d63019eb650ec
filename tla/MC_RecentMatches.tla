------------------------- MODULE MC_RecentMatches ---------------------------
(* Two markets for the recent-matches model. *)
EXTENDS RecentMatches

CONSTANTS m1, m2

MCMarkets == {m1, m2}

=============================================================================
