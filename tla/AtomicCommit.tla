---------------------------- MODULE AtomicCommit ----------------------------
(***************************************************************************)
(* What the commit of a received file promises: a directory in which each  *)
(* verified copy appears at once and whole, under a name nobody uses, at   *)
(* most once for each handler that verified it.                            *)
(***************************************************************************)
CONSTANTS
  Names,      \* the names of one offered file: plain, (1), (2) ...
  Handlers,   \* receiving handlers that verify the file of a transfer
  Transfers,  \* transfers that offer a file of this name
  PartOf      \* the transfer each handler receives

Free == [kind |-> "free", by |-> "none"]
UserFile == [kind |-> "user", by |-> "none"]
Whole(t) == [kind |-> "whole", by |-> t]

VARIABLES
  dir,   \* what each name in the receive directory holds
  owed   \* handlers that have verified a file and not exposed it

vars == <<dir, owed>>

Init == dir \in [Names -> {Free, UserFile}] /\ owed = {}

Verify(h) == h \notin owed /\ owed' = owed \cup {h} /\ UNCHANGED dir

Expose(h, n) ==
  /\ h \in owed /\ dir[n] = Free
  /\ dir' = [dir EXCEPT ![n] = Whole(PartOf[h])]
  /\ owed' = owed \ {h}

\* Handlers fail, or are lost with the program.
GivenUp == \E H \in SUBSET owed : owed' = owed \ H /\ UNCHANGED dir

\* The user works in the directory too.
Rearrange(n) ==
  /\ dir' \in {[dir EXCEPT ![n] = UserFile], [dir EXCEPT ![n] = Free]}
  /\ UNCHANGED owed

Next ==
  \/ \E h \in Handlers : Verify(h) \/ \E n \in Names : Expose(h, n)
  \/ GivenUp
  \/ \E n \in Names : Rearrange(n)

Spec == Init /\ [][Next]_vars

=============================================================================
