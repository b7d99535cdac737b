--------------------------- MODULE IncomingInbox ---------------------------
(***************************************************************************)
(* The approval inbox of a receiver (IncomingRequestManager, core/inbox.py)*)
(* with the threads that meet in it: a session thread per connection, the  *)
(* user interface, which accepts and rejects, and the thread that shuts    *)
(* the service down.  Entries are read and changed under the lock; the     *)
(* callbacks that write the transfer history (SecureTransfer) run after    *)
(* the lock is released, in the thread that caused them.                   *)
(***************************************************************************)
EXTENDS Naturals, FiniteSets

CONSTANTS
  Sessions,     \* connections that bring an authenticated offer
  Transfers,    \* transfer ids
  Offers,       \* what an offer says of its files, size and message
  TransferOf,   \* TransferOf[s]: the transfer id of session s
  OfferOf,      \* OfferOf[s]: the offer session s brings
  MaxPending,   \* MAX_PENDING_TRANSFER_REQUESTS
  UI, Main      \* the threads that are not sessions

ASSUME InboxAssumption ==
  /\ TransferOf \in [Sessions -> Transfers]
  /\ OfferOf \in [Sessions -> Offers]
  /\ MaxPending \in Nat \ {0}
  /\ UI \notin Sessions /\ Main \notin Sessions /\ UI # Main

None == "none"
Decision == {"accepted", "rejected", "expired", "cancelled"}
Threads == Sessions \cup {UI, Main}

\* The status under which the history records a decision.
Recorded(status) == IF status = "expired" THEN "failed" ELSE status

VARIABLES
  entry,     \* status of the inbox entry of each transfer, None before it
  offer,     \* the offer the entry holds
  pc,        \* where each session thread is
  answer,    \* what it answered its peer
  todo,      \* the decision callback each thread still has to run
  history,   \* status of the history row of each transfer
  told,      \* what accept_request or reject_request last confirmed to the user
  early,     \* transfers decided before their history row was created
  victims,   \* entries shutdown still has to cancel
  stopping

vars == <<entry, offer, pc, answer, todo, history, told, early, victims, stopping>>
untouched == <<told, victims, stopping>>

NoCall == [transfer |-> None, status |-> None]

TypeOK ==
  /\ entry \in [Transfers -> Decision \cup {None, "pending"}]
  /\ offer \in [Transfers -> Offers \cup {None}]
  /\ pc \in [Sessions -> {"offer", "announce", "await", "leaving", "closed"}]
  /\ answer \in [Sessions -> Decision \cup {None, "busy"}]
  /\ todo \in [Threads -> [transfer : Transfers, status : Decision] \cup {NoCall}]
  /\ history \in [Transfers -> {None, "pending_approval", "accepted", "rejected",
                                "failed", "cancelled"}]
  /\ told \in [Transfers -> {None, "accepted", "rejected"}]
  /\ early \in SUBSET Transfers
  /\ victims \in SUBSET Transfers
  /\ stopping \in BOOLEAN

Init ==
  /\ entry = [t \in Transfers |-> None] /\ offer = [t \in Transfers |-> None]
  /\ pc = [s \in Sessions |-> "offer"] /\ answer = [s \in Sessions |-> None]
  /\ todo = [h \in Threads |-> NoCall]
  /\ history = [t \in Transfers |-> None]
  /\ told = [t \in Transfers |-> None]
  /\ early = {} /\ victims = {} /\ stopping = FALSE

-----------------------------------------------------------------------------
(* publish *)

Pending == {t \in Transfers : entry[t] = "pending"}

Full == Cardinality(Pending) >= MaxPending

\* A new offer enters the inbox; its callback runs after the unlock.
Publish(s) ==
  LET t == TransferOf[s]
  IN /\ pc[s] = "offer" /\ entry[t] = None /\ ~Full
     /\ entry' = [entry EXCEPT ![t] = "pending"]
     /\ offer' = [offer EXCEPT ![t] = OfferOf[s]]
     /\ pc' = [pc EXCEPT ![s] = "announce"]
     /\ UNCHANGED <<answer, todo, history, early, untouched>>

\* Mutant of Resumes: any offer under an accepted transfer id resumes it.
ResumesAny(s) == entry[TransferOf[s]] = "accepted"

\* A transfer the user has accepted is resumed by the same offer.
Resumes(s) ==
  entry[TransferOf[s]] = "accepted" /\ offer[TransferOf[s]] = OfferOf[s]

Resume(s) ==
  /\ pc[s] = "offer" /\ Resumes(s)
  /\ offer' = [offer EXCEPT ![TransferOf[s]] = OfferOf[s]]
  /\ pc' = [pc EXCEPT ![s] = "await"]
  /\ UNCHANGED <<entry, answer, todo, history, early, untouched>>

\* InboxCapacityError: "Receiver is busy".
Busy(s) ==
  /\ pc[s] = "offer" /\ entry[TransferOf[s]] = None /\ Full
  /\ answer' = [answer EXCEPT ![s] = "busy"]
  /\ pc' = [pc EXCEPT ![s] = "closed"]
  /\ UNCHANGED <<entry, offer, todo, history, early, untouched>>

\* Any other offer under a known transfer id ends the session unanswered.
Conflict(s) ==
  /\ pc[s] = "offer" /\ entry[TransferOf[s]] # None /\ ~Resumes(s)
  /\ pc' = [pc EXCEPT ![s] = "closed"]
  /\ UNCHANGED <<entry, offer, answer, todo, history, early, untouched>>

\* _handle_incoming_request: create_transfer inserts the row, or puts an
\* existing one (only 'complete' is sticky) back to pending_approval.
Announce(s) ==
  /\ pc[s] = "announce"
  /\ history' = [history EXCEPT ![TransferOf[s]] = "pending_approval"]
  /\ pc' = [pc EXCEPT ![s] = "await"]
  /\ UNCHANGED <<entry, offer, answer, todo, early, untouched>>

-----------------------------------------------------------------------------
(* Decisions *)

\* _decide, in thread h: the first decision stands, a later one does nothing.
Decide(h, t, status) ==
  IF entry[t] = "pending"
  THEN /\ entry' = [entry EXCEPT ![t] = status]
       /\ todo' = [todo EXCEPT ![h] = [transfer |-> t, status |-> status]]
       /\ early' = IF history[t] = None THEN early \cup {t} ELSE early
  ELSE UNCHANGED <<entry, todo, early>>

\* Mutant of Record: only the user's decisions reach the history.
RecordUser(h) ==
  LET call == todo[h]
  IN /\ call # NoCall
     /\ history' = IF history[call.transfer] = None \/ h # UI THEN history
                   ELSE [history EXCEPT ![call.transfer] = Recorded(call.status)]
     /\ todo' = [todo EXCEPT ![h] = NoCall]
     /\ UNCHANGED <<entry, offer, pc, answer, early, untouched>>

\* _handle_request_decision: update_transfer changes the row if there is one.
Record(h) ==
  LET call == todo[h]
  IN /\ call # NoCall
     /\ history' = IF history[call.transfer] = None THEN history
                   ELSE [history EXCEPT ![call.transfer] = Recorded(call.status)]
     /\ todo' = [todo EXCEPT ![h] = NoCall]
     /\ UNCHANGED <<entry, offer, pc, answer, early, untouched>>

\* The user decides on a request the inbox screen listed, maybe some time ago.
UserDecides(t, status) ==
  /\ todo[UI] = NoCall
  /\ offer[t] # None
  /\ told' = IF entry[t] = "pending" THEN [told EXCEPT ![t] = status] ELSE told
  /\ Decide(UI, t, status)
  /\ UNCHANGED <<offer, pc, answer, history, victims, stopping>>

\* The peer cancels while the request waits; an answer is still due.
PeerCancels(s) ==
  /\ pc[s] = "await" /\ todo[s] = NoCall
  /\ Decide(s, TransferOf[s], "cancelled")
  /\ UNCHANGED <<offer, pc, answer, history, untouched>>

\* The peer disconnects, or sends something else than a cancel frame: the
\* session ends without an answer once the callback has run.
PeerLeaves(s) ==
  /\ pc[s] = "await" /\ todo[s] = NoCall
  /\ \E status \in {"cancelled", "rejected"} : Decide(s, TransferOf[s], status)
  /\ pc' = [pc EXCEPT ![s] = "leaving"]
  /\ UNCHANGED <<offer, answer, history, untouched>>

Leave(s) ==
  /\ pc[s] = "leaving" /\ todo[s] = NoCall
  /\ pc' = [pc EXCEPT ![s] = "closed"]
  /\ UNCHANGED <<entry, offer, answer, todo, history, early, untouched>>

\* Mutant of Expire: the session answers "expired" whatever was decided.
ExpireBlindly(s) ==
  /\ pc[s] = "await" /\ todo[s] = NoCall
  /\ Decide(s, TransferOf[s], "expired")
  /\ answer' = [answer EXCEPT ![s] = "expired"]
  /\ pc' = [pc EXCEPT ![s] = "closed"]
  /\ UNCHANGED <<offer, history, untouched>>

\* The approval deadline: the request expires unless it is already decided.
Expire(s) ==
  /\ pc[s] = "await" /\ todo[s] = NoCall
  /\ entry[TransferOf[s]] = "pending"
  /\ Decide(s, TransferOf[s], "expired")
  /\ UNCHANGED <<offer, pc, answer, history, untouched>>

\* Mutant of Answer: only the user's decision wakes the session.
AnswerUser(s) ==
  /\ pc[s] = "await" /\ todo[s] = NoCall
  /\ entry[TransferOf[s]] \in {"accepted", "rejected"}
  /\ answer' = [answer EXCEPT ![s] = entry[TransferOf[s]]]
  /\ pc' = [pc EXCEPT ![s] = "closed"]
  /\ UNCHANGED <<entry, offer, todo, history, early, untouched>>

\* The session reads the decision and answers its peer.
Answer(s) ==
  /\ pc[s] = "await" /\ todo[s] = NoCall
  /\ entry[TransferOf[s]] # "pending"
  /\ answer' = [answer EXCEPT ![s] = entry[TransferOf[s]]]
  /\ pc' = [pc EXCEPT ![s] = "closed"]
  /\ UNCHANGED <<entry, offer, todo, history, early, untouched>>

-----------------------------------------------------------------------------
(* cancel_all, on shutdown: a snapshot first, then one request after another *)

Shutdown ==
  /\ ~stopping
  /\ stopping' = TRUE
  /\ victims' = Pending
  /\ UNCHANGED <<entry, offer, pc, answer, todo, history, told, early>>

CancelNext ==
  /\ todo[Main] = NoCall
  /\ \E t \in victims : victims' = victims \ {t} /\ Decide(Main, t, "cancelled")
  /\ UNCHANGED <<offer, pc, answer, history, told, stopping>>

\* The wait ends without a decision: a frame that cannot be decrypted or parsed
\* is no OSError, nor is select on the connection that shutdown has closed.
Abandon(s) ==
  /\ pc[s] = "await" /\ todo[s] = NoCall
  /\ pc' = [pc EXCEPT ![s] = "closed"]
  /\ UNCHANGED <<entry, offer, answer, todo, history, early, untouched>>

SessionStep(s) ==
  \/ Publish(s) \/ Resume(s) \/ Busy(s) \/ Conflict(s) \/ Announce(s)
  \/ Expire(s) \/ Answer(s) \/ Leave(s) \/ Record(s)

Next ==
  \/ \E s \in Sessions :
       SessionStep(s) \/ PeerCancels(s) \/ PeerLeaves(s) \/ Abandon(s)
  \/ \E t \in Transfers, status \in {"accepted", "rejected"} : UserDecides(t, status)
  \/ Record(UI) \/ Record(Main) \/ Shutdown \/ CancelNext

\* Sessions, the user interface's callbacks and shutdown are threads that run;
\* nobody is assumed to decide.
Fairness ==
  /\ \A s \in Sessions : WF_vars(SessionStep(s))
  /\ WF_vars(Record(UI)) /\ WF_vars(Record(Main)) /\ WF_vars(CancelNext)

Spec == Init /\ [][Next]_vars
FairSpec == Spec /\ Fairness

-----------------------------------------------------------------------------
(* Properties *)

\* The inbox never holds more pending requests than its capacity, however
\* publications, decisions and shutdown interleave.
PendingBounded == Cardinality(Pending) <= MaxPending

\* What accept_request or reject_request confirmed to the user is what every
\* session of the transfer answers: a deadline, a disconnect or a shutdown at
\* the same moment cannot turn it into another answer.
ConfirmedIsAnswered ==
  \A s \in Sessions :
    LET t == TransferOf[s]
    IN told[t] # None /\ answer[s] \in Decision => answer[s] = told[t]

\* A session is answered "accepted" only for the offer the user accepted, in
\* this session or in the one it resumes.
AcceptedAsOffered ==
  \A s \in Sessions :
    answer[s] = "accepted" =>
      told[TransferOf[s]] = "accepted" /\ offer[TransferOf[s]] = OfferOf[s]

\* Once no callback is outstanding, the history shows the decision, except for
\* a transfer decided in the window between the unlock of publish and the
\* creation of its history row, where the decision is overwritten or dropped.
HistoryShowsDecision ==
  (\A h \in Threads : todo[h] = NoCall) =>
    \A t \in Transfers \ early :
      entry[t] \in Decision => history[t] = Recorded(entry[t])

\* Every session ends although nobody decides.
SessionsEnd == \A s \in Sessions : <>(pc[s] = "closed")
=============================================================================
