------------------------------- MODULE MCSync -------------------------------
(* Sync on small instances: the first envelope has an attachment, or may expire.   *)
EXTENDS Sync

First == {1}
Nothing == {}
=============================================================================
