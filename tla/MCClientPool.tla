---------------------------- MODULE MCClientPool ----------------------------
(***************************************************************************)
(* Three batches for two slots, each of them sent again once.              *)
(***************************************************************************)
EXTENDS ClientPool

CONSTANTS b1, b2, b3

Batches == {b1, b2, b3}

=============================================================================
