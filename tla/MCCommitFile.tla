---------------------------- MODULE MCCommitFile ----------------------------
(* Two transfers that offer a file of the same name; the sender of the first *)
(* has reconnected, so two handlers receive it.                              *)
EXTENDS CommitFile, TLC

CONSTANTS h1, h2, h3, t1, t2

Commits == {h1, h2, h3}
Offers == {t1, t2}
Receives == h1 :> t1 @@ h2 :> t1 @@ h3 :> t2
MostFaults == {"link", "copy", "reserve", "replace", "drop"}
MostActs == {"create", "remove", "replace"}
=============================================================================
