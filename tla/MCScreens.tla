----------------------------- MODULE MCScreens ------------------------------
(* Two offers and two devices; the keys and the other threads are bounded. *)
EXTENDS Screens

CONSTANTS o1, o2, d1, d2

TwoOffers == {o1, o2}
TwoDevices == {d1, d2}
Names == <<d1, d2>>
=============================================================================
