--------------------------- MODULE FileDelivery ---------------------------
(***************************************************************************)
(* What a transfer promises, without connections, handlers or retries: the *)
(* receiving user approves, files are then delivered, and the sender gets  *)
(* to know of a delivery that has happened.  Approval lives in memory: it  *)
(* is lost when the receiving process dies.  Deliveries and what the       *)
(* sender knows are never taken back.                                      *)
(***************************************************************************)
CONSTANT Files

VARIABLES approved, delivered, acked

dvars == <<approved, delivered, acked>>

DInit == approved = FALSE /\ delivered = {} /\ acked = {}

Approve ==
  /\ ~approved
  /\ approved' = TRUE
  /\ UNCHANGED <<delivered, acked>>

Forget ==
  /\ approved
  /\ approved' = FALSE
  /\ UNCHANGED <<delivered, acked>>

Deliver(f) ==
  /\ approved
  /\ delivered' = delivered \cup {f}
  /\ UNCHANGED <<approved, acked>>

Acknowledge(f) ==
  /\ f \in delivered
  /\ acked' = acked \cup {f}
  /\ UNCHANGED <<approved, delivered>>

DNext ==
  \/ Approve \/ Forget
  \/ \E f \in Files : Deliver(f) \/ Acknowledge(f)

DSpec == DInit /\ [][DNext]_dvars
=============================================================================
