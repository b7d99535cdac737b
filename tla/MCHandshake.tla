---------------------------- MODULE MCHandshake ----------------------------
(***************************************************************************)
(* Two devices connect to a third, each for a session and to pair; two     *)
(* connections end at the device they are for and one at another device.   *)
(***************************************************************************)
EXTENDS Handshake

CONSTANTS d1, d2, d3, c1, c2, c3, c4, s1, s2, s3

MCOwner ==
  [e \in {c1, c2, c3, c4, s1, s2, s3} |->
     IF e \in {c1, c3} THEN d1 ELSE IF e \in {s1, s2} THEN d2 ELSE d3]

MCWants == [c \in {c1, c2, c3, c4} |-> d2]

\* The two devices trust whom they want; the third trusts one of them or both.
MCInit ==
  /\ Init /\ trusts[d1] = {d2} /\ trusts[d3] = {d1, d2}
  /\ trusts[d2] \in {{d1}, {d1, d3}}

MCSpec == MCInit /\ [][Next]_vars

=============================================================================
