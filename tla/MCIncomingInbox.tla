-------------------------- MODULE MCIncomingInbox --------------------------
(* Two transfers in an inbox for one.  The first is offered again by a       *)
(* second session, and by a third one whose offer differs.                   *)
EXTENDS IncomingInbox, TLC

CONSTANTS s1, s2, s3, s4, t1, t2, o1, o2

SessionTransfer == s1 :> t1 @@ s2 :> t1 @@ s3 :> t1 @@ s4 :> t2
SessionOffer == s1 :> o1 @@ s2 :> o1 @@ s3 :> o2 @@ s4 :> o1
=============================================================================
