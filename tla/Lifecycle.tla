----------------------------- MODULE Lifecycle -----------------------------
(***************************************************************************)
(* The status of one file of a transfer (core/models.py) and the guarded   *)
(* transition function set_status (core/lifecycle.py).  Both the sending   *)
(* worker and the receiving handler change a status only through it.       *)
(***************************************************************************)

Status == {"pending", "pending_approval", "accepted", "rejected", "active",
           "interrupted", "resuming", "complete", "failed", "cancelled"}

Terminal == {"complete", "failed", "rejected", "cancelled"}

Allowed ==
  [s \in Status |->
     CASE s = "pending" ->
            {"pending_approval", "active", "interrupted", "failed", "cancelled"}
       [] s = "pending_approval" ->
            {"accepted", "rejected", "failed", "cancelled"}
       [] s = "accepted" -> {"active", "resuming", "failed", "cancelled"}
       [] s = "active" ->
            {"interrupted", "resuming", "complete", "failed", "cancelled"}
       [] s = "interrupted" -> {"resuming", "failed", "cancelled"}
       [] s = "resuming" ->
            {"active", "interrupted", "complete", "failed", "cancelled"}
       [] OTHER -> {}]

\* Mutant of CanSet: only a status that has ended is protected.
CanSetUnlessEnded(current, status) == current \notin Terminal

\* Assigning the current status again is a no-op; any other assignment must be
\* allowed, or set_status raises InvalidTransferTransition.
CanSet(current, status) == status = current \/ status \in Allowed[current]

\* The status after set_status, whether it returned or raised.
SetStatus(current, status) ==
  IF CanSet(current, status) THEN status ELSE current
=============================================================================
