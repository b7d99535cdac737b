-------------------------- MODULE MCTransferHistory --------------------------
(* Two attempts of one transfer, whose sessions may overlap.                 *)
EXTENDS TransferHistory, TLC

CONSTANTS h1, h2

TwoHandlers == {h1, h2}
Symmetry == Permutations(TwoHandlers)
=============================================================================
