---------------------------- MODULE MCServerPool ----------------------------
(* Three connections for two session slots: the third one is refused, or     *)
(* takes the slot of one that has ended.                                     *)
EXTENDS ServerPool

CONSTANTS c1, c2, c3

ThreeConns == {c1, c2, c3}
=============================================================================
