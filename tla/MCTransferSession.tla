------------------------ MODULE MCTransferSession ------------------------
(* Values for the constants of TransferSession.                            *)
EXTENDS TransferSession

OneFileOfTwo == <<2>>
OneFileOfOne == <<1>>
TwoFiles == <<2, 0>>
=============================================================================
