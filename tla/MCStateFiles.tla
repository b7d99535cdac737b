---------------------------- MODULE MCStateFiles ----------------------------
(***************************************************************************)
(* Three runs of the program on one directory, and two devices.            *)
(***************************************************************************)
EXTENDS StateFiles

CONSTANTS d1, d2, r1, r2, r3

TwoDevices == {d1, d2}
ThreeRuns == {r1, r2, r3}

=============================================================================
