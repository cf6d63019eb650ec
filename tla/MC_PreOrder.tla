----------------------------- MODULE MC_PreOrder -----------------------------
(* PreOrder with a small store of order objects: enough for a verify with  *)
(* a locked wallet (two parses) and a second verify after an edit.         *)
EXTENDS PreOrder

MCQtys == {0, 1, 2}

=============================================================================
