---------------------------- MODULE MC_BookSync ----------------------------
(* BookSync with two tokens: enough for one order per epoch, or two in     *)
(* one epoch.                                                              *)
EXTENDS BookSync

CONSTANTS t1, t2

MCTokens == {t1, t2}
=============================================================================
