--------------------------- MODULE TransferHistory ---------------------------
(***************************************************************************)
(* The history of one incoming transfer: its row and the rows of its files *)
(* (core/history.py), written by the offer, by the callback of the user's  *)
(* decision, and by every thread that reports progress (SecureTransfer in  *)
(* core/transfer.py), while session threads set the statuses of the files. *)
(***************************************************************************)
EXTENDS Naturals, FiniteSets, Lifecycle

CONSTANTS
  NFiles,       \* the files of the transfer, numbered in its order
  Handlers,     \* session threads, one for each attempt of the sender
  MaxLost,      \* bound: writes SQLite refuses, as with a locked database
  MaxRestarts   \* bound: restarts of the program

Files == 1..NFiles
None == "none"
Other == "other"   \* a thread of another transfer, which reports progress too

ASSUME HistoryAssumption ==
  /\ NFiles \in Nat \ {0} /\ MaxLost \in Nat /\ MaxRestarts \in Nat
  /\ None \notin Handlers /\ Other \notin Handlers

VARIABLES
  info,       \* status of each TransferInfo, None before it is created
  hpc,        \* where each session thread is
  hfile,      \* its file
  hnext,      \* where it goes on after reporting progress
  inbox,      \* status of the inbox entry
  callback,   \* the decision whose callback the user's thread has yet to run
  row,        \* status and file_count of the row in transfers
  fileRow,    \* status of each row in transfer_files
  prev,       \* _persisted_progress: the status written last
  save,       \* what the holder of _history_lock has gathered
  delivered,  \* history: files that have been exposed
  rowless,    \* history: progress was judged before the offer had its row
  behind,     \* history: no thread has gathered the last change, or it was lost
  lost,       \* bound
  restarts    \* bound

sessionVars == <<info, hpc, hfile, hnext, delivered>>
decisionVars == <<inbox, callback>>
storeVars == <<row, fileRow>>
saveVars == <<prev, save, rowless>>
vars == <<sessionVars, decisionVars, storeVars, saveVars, behind, lost, restarts>>

Places == {"new", "announce", "await", "refuse", "next", "file", "stream",
           "verify", "commit", "ack", "update", "ended"}

FileStatus == Status \cup {None}

Free == [by |-> None, pc |-> "free", files |-> {}, status |-> None,
         rows |-> [f \in Files |-> None]]

TypeOK ==
  /\ info \in [Files -> FileStatus]
  /\ hpc \in [Handlers -> Places] /\ hfile \in [Handlers -> 1..NFiles + 1]
  /\ hnext \in [Handlers -> {"next", "file", "stream", "ended"}]
  /\ inbox \in {None, "pending_approval", "accepted", "refused"}
  /\ callback \in {None, "accepted", "rejected"}
  /\ row \in [status : FileStatus, count : 0..NFiles]
  /\ fileRow \in [Files -> FileStatus] /\ prev \in FileStatus
  /\ save \in [by : Handlers \cup {None, Other},
               pc : {"free", "aggregated", "built"}, files : SUBSET Files,
               status : FileStatus, rows : [Files -> FileStatus]]
  /\ delivered \in SUBSET Files
  /\ rowless \in BOOLEAN /\ behind \in BOOLEAN
  /\ lost \in 0..MaxLost /\ restarts \in 0..MaxRestarts

Init ==
  /\ info = [f \in Files |-> None]
  /\ hpc = [h \in Handlers |-> "new"] /\ hfile = [h \in Handlers |-> 1]
  /\ hnext = [h \in Handlers |-> "next"]
  /\ inbox = None /\ callback = None
  /\ row = [status |-> None, count |-> 0]
  /\ fileRow = [f \in Files |-> None]
  /\ prev = None /\ save = Free
  /\ delivered = {} /\ rowless = FALSE /\ behind = FALSE
  /\ lost = 0 /\ restarts = 0

-----------------------------------------------------------------------------
(* The statements of TransferHistoryStore *)

\* What does not replace a complete row in an upsert.
Older == {"interrupted", "resuming", "active", "pending", "pending_approval"}

\* _INTERRUPTIBLE: what an update does not write over a complete row, and what
\* a restart finds interrupted.
Interruptible == Older \cup {"accepted"}

\* Mutant of Upserted: the last writer wins.
UpsertedBlindly(old, new) == new

Upserted(old, new) == IF old = "complete" /\ new \in Older THEN old ELSE new

\* Mutant of Updated: any decision is written.
UpdatedBlindly(old, new) == IF old = None THEN old ELSE new

\* update_transfer changes a row that exists.
Updated(old, new) ==
  IF old = None \/ (old = "complete" /\ new \in Interruptible) THEN old ELSE new

Larger(m, n) == IF m > n THEN m ELSE n

\* create_transfer, with the rows of the files S.
Upsert(status, count, S, statuses) ==
  /\ row' = [status |-> Upserted(row.status, status),
             count |-> Larger(row.count, count)]
  /\ fileRow' = [f \in Files |->
       IF f \in S THEN Upserted(fileRow[f], statuses[f]) ELSE fileRow[f]]

Lose == lost < MaxLost /\ lost' = lost + 1

-----------------------------------------------------------------------------
(* The offer and its decision *)

Goto(h, pc) == hpc' = [hpc EXCEPT ![h] = pc]

\* publish: an accepted transfer is resumed, one not accepted is refused.
Offer(h) ==
  /\ hpc[h] = "new"
  /\ inbox' = IF inbox = None THEN "pending_approval" ELSE inbox
  /\ Goto(h, CASE inbox = None -> "announce"
               [] inbox = "accepted" -> "await"
               [] OTHER -> "ended")
  /\ UNCHANGED <<info, hfile, hnext, delivered, callback, storeVars, saveVars,
                 behind, lost, restarts>>

\* _handle_incoming_request, after the entry is visible to the user.
Announce(h) ==
  /\ hpc[h] = "announce"
  /\ Upsert("pending_approval", NFiles, Files,
            [f \in Files |-> "pending_approval"])
  /\ Goto(h, "await")
  /\ UNCHANGED <<info, hfile, hnext, delivered, decisionVars, saveVars, behind,
                 lost, restarts>>

AnnounceLost(h) ==
  /\ hpc[h] = "announce" /\ Lose
  /\ Goto(h, "await")
  /\ UNCHANGED <<info, hfile, hnext, delivered, decisionVars, storeVars,
                 saveVars, behind, restarts>>

UserDecides ==
  /\ inbox = "pending_approval" /\ callback = None
  /\ \/ inbox' = "accepted" /\ callback' = "accepted"
     \/ inbox' = "refused" /\ callback' = "rejected"
  /\ UNCHANGED <<sessionVars, storeVars, saveVars, behind, lost, restarts>>

\* _handle_request_decision: a refusal is written to the rows of the files too.
WriteDecision(status) ==
  /\ row' = [row EXCEPT !.status = Updated(row.status, status)]
  /\ fileRow' = IF status = "accepted" THEN fileRow
                ELSE [f \in Files |-> IF fileRow[f] = None THEN None ELSE status]

Callback ==
  /\ callback # None
  /\ WriteDecision(callback)
  /\ callback' = None
  /\ UNCHANGED <<sessionVars, inbox, saveVars, behind, lost, restarts>>

CallbackLost ==
  /\ callback # None /\ Lose
  /\ callback' = None
  /\ UNCHANGED <<sessionVars, inbox, storeVars, saveVars, behind, restarts>>

\* The deadline passes, the peer cancels or leaves.
Withdraw(h) ==
  /\ hpc[h] = "await" /\ inbox = "pending_approval"
  /\ inbox' = "refused"
  /\ Goto(h, "refuse")
  /\ UNCHANGED <<info, hfile, hnext, delivered, callback, storeVars, saveVars,
                 behind, lost, restarts>>

Refuse(h) ==
  /\ hpc[h] = "refuse"
  /\ \E status \in {"failed", "cancelled"} : WriteDecision(status)
  /\ Goto(h, "ended")
  /\ UNCHANGED <<info, hfile, hnext, delivered, decisionVars, saveVars, behind,
                 lost, restarts>>

RefuseLost(h) ==
  /\ hpc[h] = "refuse" /\ Lose
  /\ Goto(h, "ended")
  /\ UNCHANGED <<info, hfile, hnext, delivered, decisionVars, storeVars,
                 saveVars, behind, restarts>>

Decided(h) ==
  /\ hpc[h] = "await" /\ inbox \in {"accepted", "refused"}
  /\ Goto(h, IF inbox = "accepted" THEN "next" ELSE "ended")
  /\ UNCHANGED <<info, hfile, hnext, delivered, decisionVars, storeVars,
                 saveVars, behind, lost, restarts>>

OfferStep(h) ==
  \/ Offer(h) \/ Announce(h) \/ AnnounceLost(h) \/ Withdraw(h) \/ Refuse(h)
  \/ RefuseLost(h) \/ Decided(h)

-----------------------------------------------------------------------------
(* A session thread receives its files *)

rest == <<delivered, decisionVars, storeVars, saveVars, lost, restarts>>

\* The thread reports progress and then goes on.
Report(h, next) ==
  /\ Goto(h, "update")
  /\ hnext' = [hnext EXCEPT ![h] = next]

\* _get_or_create_v3_transfer.
OpenFile(h) ==
  LET f == hfile[h] IN
    /\ hpc[h] = "next" /\ f \in Files
    /\ \/ /\ info[f] = None
          /\ \E s \in {"active", "resuming"} : info' = [info EXCEPT ![f] = s]
       \/ /\ info[f] \notin Terminal \cup {None}
          /\ info' = [info EXCEPT ![f] = "resuming"]
       \/ /\ info[f] \in Terminal
          /\ UNCHANGED info
    /\ Report(h, "file")
    /\ UNCHANGED <<hfile, rest, behind>>

\* A file that has a final path is not streamed again.
Recognise(h) ==
  /\ hpc[h] = "file" /\ hfile[h] \in delivered
  /\ Goto(h, "verify")
  /\ UNCHANGED <<info, hfile, hnext, rest, behind>>

Begin(h) ==
  /\ hpc[h] = "file" /\ CanSet(info[hfile[h]], "active")
  /\ info' = [info EXCEPT ![hfile[h]] = "active"]
  /\ Goto(h, "stream")
  /\ UNCHANGED <<hfile, hnext, rest, behind>>

Chunk(h) ==
  /\ hpc[h] = "stream"
  /\ Report(h, "stream")
  /\ UNCHANGED <<info, hfile, rest, behind>>

Commit(h) ==
  /\ hpc[h] \in {"stream", "verify"}
  /\ delivered' = delivered \cup {hfile[h]}
  /\ Goto(h, "commit")
  /\ UNCHANGED <<info, hfile, hnext, decisionVars, storeVars, saveVars, behind,
                 lost, restarts>>

Complete(h) ==
  /\ hpc[h] = "commit" /\ CanSet(info[hfile[h]], "complete")
  /\ info' = [info EXCEPT ![hfile[h]] = "complete"]
  /\ Goto(h, "ack")
  /\ UNCHANGED <<hfile, hnext, rest, behind>>

Acknowledge(h) ==
  /\ hpc[h] = "ack"
  /\ Report(h, "next")
  /\ hfile' = [hfile EXCEPT ![h] = @ + 1]
  /\ UNCHANGED <<info, rest, behind>>

\* The acknowledgement cannot be sent: a complete file refuses INTERRUPTED, and
\* the exception ends the session before progress is reported.
AcknowledgeFails(h) ==
  /\ hpc[h] = "ack"
  /\ Goto(h, "ended")
  /\ behind' = TRUE
  /\ UNCHANGED <<info, hfile, hnext, rest>>

\* The except clauses: a status that is refused ends the session unreported.
Break(h, status) ==
  LET f == hfile[h] IN
    /\ hpc[h] \in {"file", "stream", "verify", "commit"}
    /\ hpc[h] = "file" => status = "failed" /\ ~CanSet(info[f], "active")
    /\ hpc[h] \in {"verify", "commit"} => status # "cancelled"
    /\ IF CanSet(info[f], status)
       THEN info' = [info EXCEPT ![f] = status] /\ Report(h, "ended")
       ELSE Goto(h, "ended") /\ UNCHANGED <<info, hnext>>
    /\ UNCHANGED <<hfile, rest, behind>>

\* The connection is lost between two files, or all files are there.
Leave(h) ==
  /\ hpc[h] = "next"
  /\ Goto(h, "ended")
  /\ UNCHANGED <<info, hfile, hnext, rest, behind>>

FileStep(h) ==
  \/ OpenFile(h) \/ Recognise(h) \/ Begin(h) \/ Chunk(h) \/ Commit(h)
  \/ Complete(h) \/ Acknowledge(h) \/ AcknowledgeFails(h) \/ Leave(h)
  \/ \E status \in {"failed", "cancelled", "interrupted"} : Break(h, status)

-----------------------------------------------------------------------------
(* _persist_runtime_transfers, under _history_lock *)

Known == {f \in Files : info[f] # None}

Priorities == <<"failed", "cancelled", "rejected", "interrupted", "resuming",
                "active", "accepted", "pending_approval", "pending">>

\* _aggregate_status: the first of the priorities that a file has.
Aggregate ==
  LET has(i) == \E f \in Files : info[f] = Priorities[i]
      found == {i \in DOMAIN Priorities : has(i)}
  IN IF found = {} THEN "complete"
     ELSE Priorities[CHOOSE i \in found : \A j \in found : i <= j]

Reporting == {Other} \cup {h \in Handlers : hpc[h] = "update"}

Gather(t) ==
  /\ t \in Reporting /\ save.pc = "free" /\ Known # {}
  /\ save' = [Free EXCEPT !.by = t, !.pc = "aggregated", !.files = Known,
                          !.status = Aggregate]
  /\ behind' = FALSE
  /\ UNCHANGED <<sessionVars, decisionVars, storeVars, prev, rowless, lost,
                 restarts>>

\* Mutant of Judged: the row's file count is not looked at.
JudgedPartly(status, n) ==
  IF row.status = "complete" THEN "complete" ELSE status

\* The status to write, seen against the row there is.
Judged(status, n) ==
  CASE row.status = "complete" -> "complete"
    [] row.status \notin {None, "complete"} /\ status = "complete" /\ row.count > n
         -> "active"
    [] OTHER -> status

Build ==
  /\ save.pc = "aggregated"
  /\ save' = [save EXCEPT !.pc = "built",
                !.status = Judged(save.status, Cardinality(save.files)),
                !.rows = [f \in Files |-> IF f \in save.files THEN info[f] ELSE None]]
  /\ rowless' = (rowless \/ row.status = None)
  /\ UNCHANGED <<sessionVars, decisionVars, storeVars, prev, behind, lost,
                 restarts>>

\* The holder of the lock gives it back, and a session thread goes on.
Release ==
  /\ save' = Free
  /\ hpc' = [h \in Handlers |-> IF save.by = h THEN hnext[h] ELSE hpc[h]]
  /\ UNCHANGED <<info, hfile, hnext, delivered, decisionVars, restarts>>

\* Too little has changed: the same status, few bytes, a short time.
Throttle ==
  /\ save.pc = "built" /\ save.status = prev /\ prev \notin Terminal
  /\ Release
  /\ UNCHANGED <<storeVars, prev, rowless, behind, lost>>

Write ==
  /\ save.pc = "built"
  /\ Upsert(save.status, Cardinality(save.files), save.files, save.rows)
  /\ prev' = save.status
  /\ Release
  /\ UNCHANGED <<rowless, behind, lost>>

\* create_transfer returns FALSE, and what it should have written is
\* remembered as written.
WriteLost ==
  /\ save.pc = "built" /\ Lose
  /\ prev' = save.status /\ behind' = TRUE
  /\ Release
  /\ UNCHANGED <<storeVars, rowless>>

\* _migrate: what has not ended is interrupted; the files' rows stay.
Restart ==
  /\ restarts < MaxRestarts /\ restarts' = restarts + 1
  /\ row' = [row EXCEPT !.status = IF @ \in Interruptible THEN "interrupted" ELSE @]
  /\ info' = [f \in Files |-> None]
  /\ hpc' = [h \in Handlers |-> IF hpc[h] = "new" THEN "new" ELSE "ended"]
  /\ inbox' = None /\ callback' = None
  /\ prev' = None /\ save' = Free /\ behind' = FALSE
  /\ UNCHANGED <<hfile, hnext, delivered, fileRow, rowless, lost>>

-----------------------------------------------------------------------------
Next ==
  \/ \E h \in Handlers : OfferStep(h) \/ FileStep(h)
  \/ UserDecides \/ Callback \/ CallbackLost
  \/ \E t \in Handlers \cup {Other} : Gather(t)
  \/ Build \/ Throttle \/ Write \/ WriteLost
  \/ Restart

Spec == Init /\ [][Next]_vars

-----------------------------------------------------------------------------
(* Properties *)

\* A complete row stays complete, whichever thread writes, in whatever order,
\* and in every later life of the program; only the refusal of a later offer of
\* the same transfer replaces it.
CompleteIsKept ==
  [][row.status = "complete" /\ row'.status # "complete" =>
       \/ callback = "rejected" /\ callback' = None
       \/ \E h \in Handlers : hpc[h] = "refuse" /\ hpc'[h] = "ended"]_vars

\* A row that shows complete tells the truth, although it is derived from the
\* files known so far and files become known one by one.  Progress written
\* before the offer has its row is the exception: its file count is missing.
CompleteIsDelivered ==
  row.status = "complete" /\ ~rowless => delivered = Files

\* No thread is about to write, and the last change has been gathered.
Quiet ==
  /\ save.pc = "free" /\ callback = None /\ ~behind
  /\ \A h \in Handlers : hpc[h] \notin {"announce", "refuse", "ack", "update"}

\* A transfer all of whose files are complete is shown as complete, whatever
\* was throttled, and however late the callback of the decision came.
CompleteIsShown ==
  Quiet /\ (\A f \in Files : info[f] = "complete") => row.status = "complete"

\* A complete row accounts for each of its files, and until a restart each is
\* shown as complete.  In a later life a file that is offered again can lose its
\* status to the new session, while the transfer stays complete.
RowsAgree ==
  row.status = "complete" /\ ~rowless =>
    \A f \in Files : /\ fileRow[f] # None
                     /\ restarts = 0 => fileRow[f] = "complete"
=============================================================================
