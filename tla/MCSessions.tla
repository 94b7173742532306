----------------------------- MODULE MCSessions -----------------------------
(***************************************************************************)
(* Sessions on a small instance.  The tabs are alike, and the properties   *)
(* of its runs are invariants.                                             *)
(***************************************************************************)
EXTENDS Sessions, TLC

Alike == Permutations(Tabs)
=============================================================================
