--------------------------- MODULE MCPeerService ---------------------------
(* Two devices at two ports of one address, as behind one router or on one   *)
(* machine.                                                                  *)
EXTENDS PeerService, TLC

CONSTANTS d1, d2, e1, e2, ip, w1, x1

TwoDevices == {d1, d2}
TwoEndpoints == {e1, e2}
OneIp == [e \in TwoEndpoints |-> ip]
OneWorker == {w1}
OneTransfer == {x1}
Symmetry == Permutations(TwoDevices) \cup Permutations(TwoEndpoints)
=============================================================================
