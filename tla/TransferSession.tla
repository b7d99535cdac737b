-------------------------- MODULE TransferSession --------------------------
(***************************************************************************)
(* One transfer between two devices, end to end: the worker thread of the  *)
(* sender (FileClient._batch_worker, _send_session, _wait_for_approval and *)
(* _send_v3_payload), the connections it opens one after another, and the  *)
(* handler threads of the receiver (FileServer._receive_session and what   *)
(* it calls), which share the approval inbox, the TransferInfo of every    *)
(* file and the files on disk.                                             *)
(*                                                                         *)
(* Connection a is the connection of attempt a.  A handler is a thread of  *)
(* its own: nothing stops it when the sender gives up and connects again,  *)
(* so several handlers of one transfer may run at the same time.  Setting  *)
(* Overlap to FALSE restricts the environment to the case where a retry    *)
(* arrives after the earlier handlers have finished.                       *)
(*                                                                         *)
(* Sizes and offsets count chunks of CHUNK_SIZE bytes.  The content of a   *)
(* file is the sequence of its chunks, each TRUE when it is the chunk the  *)
(* sender hashed for the offer, so a file has the offered SHA-256 exactly  *)
(* when it has the offered length and every chunk is TRUE.                 *)
(***************************************************************************)
EXTENDS Naturals, Sequences, FiniteSets, Lifecycle

CONSTANTS
  N,            \* number of files of the transfer
  Size,         \* Size[f]: chunks of file f
  MaxRetries,   \* MAX_RETRIES of utils/config.py
  Overlap,      \* may a retry reach the receiver before old handlers end?
  SourceChanges,\* may the sender's files change while they are sent?
  MaxFaults,    \* bound: lost connections, failed connects, idle timeouts
  MaxCrashes    \* bound: crashes of the receiving process

Files == 1..N
Conns == 0..MaxRetries

ASSUME ConstantsAssumption ==
  /\ N \in Nat \ {0}
  /\ Size \in [Files -> Nat]
  /\ MaxRetries \in Nat
  /\ Overlap \in BOOLEAN
  /\ SourceChanges \in BOOLEAN
  /\ MaxFaults \in Nat
  /\ MaxCrashes \in Nat

None == "none"

VARIABLES
  \* The sender: where its worker is, the attempt number, the current file,
  \* and per file the offset of this attempt, the chunks sent and the status.
  spc, attempt, sfile, soff, sbytes, sstat,
  cancelled,    \* the cancel_event of the transfer
  src,          \* per file, what happened to the source since it was hashed
  \* The connections: the two directions of each, and those that broke.
  toR, toS, broken,
  \* The handlers: where each is, its file, what prepare returned to it, the
  \* inode it has open, and the index of the next chunk, which is also where
  \* its open file stands.
  hpc, hfile, hstate, hpos, hino,
  \* Shared by the handlers, in memory: the inbox entry of the transfer and
  \* the TransferInfo of each file (status, or None before it exists; bytes).
  inbox, rstat, rbytes,
  \* On disk: the inode each partial path names (by the handler that created
  \* it), the content of the inodes, whether metadata.json exists, which commit
  \* it names as the final path of a file, and the files exposed to the user.
  partial, content, metadata, finalBy, committed,
  \* Bounds.
  faults, crashes

senderVars == <<spc, attempt, sfile, soff, sbytes, sstat, cancelled, src>>
netVars == <<toR, toS, broken>>
handlerVars == <<hpc, hfile, hstate, hpos, hino>>
sharedVars == <<inbox, rstat, rbytes>>
diskVars == <<partial, content, metadata, finalBy, committed>>
boundVars == <<faults, crashes>>
vars == <<senderVars, netVars, handlerVars, sharedVars, diskVars, boundVars>>

-----------------------------------------------------------------------------
(* States and messages *)

SenderReading == {"approval", "state", "result", "fin"}
SenderSending == {"file", "stream"}
InSession == SenderReading \cup SenderSending
SenderPC == InSession \cup {"connect", "backoff", "done", "dead"}

HandlerReading == {"offer", "await", "query", "start", "data", "body", "end", "fin"}
HandlerLocal == {"open", "verify", "link", "unlink", "mark", "complete", "cleanup"}
Ended == {"idle", "closed"}
HandlerPC == HandlerReading \cup HandlerLocal \cup Ended

\* From here on a handler acts on an offer the user has accepted.
Approved == HandlerPC \ ({"offer", "await"} \cup Ended)

InboxStatus == {None, "pending", "accepted", "rejected", "expired", "cancelled"}

ToReceiver ==
  [type : {"offer", "cancel", "query", "fin"}]
    \cup [type : {"file_start", "file_end"}, file : Files]
    \cup [type : {"chunk"}, file : Files, index : Nat]
    \cup [type : {"data"}, index : Nat, good : BOOLEAN]

ToSender ==
  [type : {"response"}, answer : {"accepted", "declined", "expired"}]
    \cup [type : {"resume_state"}, offs : [Files -> Nat]]
    \cup [type : {"file_result"}, file : Files, ok : BOOLEAN]
    \cup [type : {"session_complete"}]

\* Which handler created an inode, committed a file; NoConn for none.
NoConn == MaxRetries + 1
CommitRecord == [file : Files, by : Conns, ino : Conns]

SenderTypeOK ==
  /\ spc \in SenderPC
  /\ attempt \in Conns
  /\ sfile \in Files
  /\ soff \in [Files -> Nat]
  /\ sbytes \in [Files -> Nat]
  /\ sstat \in [Files -> Status]
  /\ cancelled \in BOOLEAN
  /\ src \in [Files -> {"same", "changed", "short", "gone"}]

NetTypeOK ==
  /\ toR \in [Conns -> Seq(ToReceiver)]
  /\ toS \in [Conns -> Seq(ToSender)]
  /\ broken \in SUBSET Conns

HandlerTypeOK ==
  /\ hpc \in [Conns -> HandlerPC]
  /\ hfile \in [Conns -> Files]
  /\ hstate \in [Conns -> [Files -> [off : Nat, final : BOOLEAN]]]
  /\ hpos \in [Conns -> Nat]
  /\ hino \in [Conns -> Conns]

SharedTypeOK ==
  /\ inbox \in InboxStatus
  /\ rstat \in [Files -> Status \cup {None}]
  /\ rbytes \in [Files -> Nat]

DiskTypeOK ==
  /\ partial \in [Files -> Conns \cup {NoConn}]
  /\ content \in [Conns -> [Files -> Seq(BOOLEAN)]]
  /\ metadata \in BOOLEAN
  /\ finalBy \in [Files -> Conns \cup {NoConn}]
  /\ committed \in SUBSET CommitRecord

BoundsTypeOK == faults \in 0..MaxFaults /\ crashes \in 0..MaxCrashes

TypeOK ==
  /\ SenderTypeOK /\ NetTypeOK /\ HandlerTypeOK
  /\ SharedTypeOK /\ DiskTypeOK /\ BoundsTypeOK

Init ==
  /\ spc = "connect" /\ attempt = 0 /\ sfile = 1 /\ cancelled = FALSE
  /\ soff = [f \in Files |-> 0] /\ sbytes = [f \in Files |-> 0]
  /\ sstat = [f \in Files |-> "pending_approval"]
  /\ src = [f \in Files |-> "same"]
  /\ toR = [c \in Conns |-> <<>>] /\ toS = [c \in Conns |-> <<>>]
  /\ broken = {}
  /\ hpc = [c \in Conns |-> "idle"] /\ hfile = [c \in Conns |-> 1]
  /\ hstate = [c \in Conns |-> [f \in Files |-> [off |-> 0, final |-> FALSE]]]
  /\ hpos = [c \in Conns |-> 0] /\ hino = [c \in Conns |-> c]
  /\ inbox = None
  /\ rstat = [f \in Files |-> None] /\ rbytes = [f \in Files |-> 0]
  /\ partial = [f \in Files |-> NoConn]
  /\ content = [c \in Conns |-> [f \in Files |-> <<>>]]
  /\ metadata = FALSE /\ finalBy = [f \in Files |-> NoConn] /\ committed = {}
  /\ faults = 0 /\ crashes = 0

-----------------------------------------------------------------------------
(* The network *)

SenderOpen(c) == c = attempt /\ spc \in InSession
HandlerOpen(c) == hpc[c] \notin Ended

\* A send on a connection that is up on both ends is queued; on any other it
\* vanishes, or the sending call raises (SBreak and HGone are that case).
Sent(m) ==
  toR' = IF attempt \notin broken /\ HandlerOpen(attempt)
         THEN [toR EXCEPT ![attempt] = Append(@, m)] ELSE toR

Reply(c, m) ==
  toS' = IF c \notin broken /\ SenderOpen(c)
         THEN [toS EXCEPT ![c] = Append(@, m)] ELSE toS

NextForSender(type) == toS[attempt] # <<>> /\ Head(toS[attempt]).type = type
NextForHandler(c, type) == toR[c] # <<>> /\ Head(toR[c]).type = type

SenderTakes == toS' = [toS EXCEPT ![attempt] = Tail(@)]
HandlerTakes(c) == toR' = [toR EXCEPT ![c] = Tail(@)]

\* The connection is lost; what was in flight arrives up to some point.
LinkBreaks(c) ==
  /\ faults < MaxFaults
  /\ c \notin broken
  /\ SenderOpen(c) \/ HandlerOpen(c)
  /\ faults' = faults + 1
  /\ broken' = broken \cup {c}
  /\ \E k \in 0..Len(toR[c]) : toR' = [toR EXCEPT ![c] = SubSeq(@, 1, k)]
  /\ \E k \in 0..Len(toS[c]) : toS' = [toS EXCEPT ![c] = SubSeq(@, 1, k)]
  /\ UNCHANGED <<senderVars, handlerVars, sharedVars, diskVars, crashes>>

-----------------------------------------------------------------------------
(* The sending worker *)

Open == {f \in Files : sstat[f] \notin Terminal}

\* Mutant of SetOpen: a failure ends only the file being sent.
SetOpenCurrent(status, pc) ==
  /\ sstat' = [sstat EXCEPT ![sfile] = IF @ \in Terminal THEN @ ELSE status]
  /\ spc' = pc

\* _batch_worker assigns one status to every file that has not ended, in
\* order.  The first assignment the lifecycle refuses raises, and nothing
\* catches it: the worker thread is dead, the later files keep their status.
Refused(status) == {f \in Open : ~CanSet(sstat[f], status)}

SetOpen(status, pc) ==
  /\ sstat' = [f \in Files |->
                 IF f \notin Open \/ \E g \in Refused(status) : g <= f
                 THEN sstat[f] ELSE status]
  /\ spc' = IF Refused(status) = {} THEN pc ELSE "dead"

\* _send_session's finally closes the socket, unread answers are gone.
Hangup == toS' = [toS EXCEPT ![attempt] = <<>>]

\* The OSError handler of the retry loop.
Interrupt ==
  /\ IF attempt = MaxRetries THEN SetOpen("failed", "done")
                             ELSE SetOpen("interrupted", "backoff")
  /\ Hangup
  /\ UNCHANGED <<attempt, sfile, soff, sbytes, cancelled, src, broken,
                 handlerVars, sharedVars, diskVars, crashes>>

GiveUp(status) ==
  /\ SetOpen(status, "done")
  /\ Hangup
  /\ UNCHANGED <<attempt, sfile, soff, sbytes, cancelled, src, broken,
                 handlerVars, sharedVars, diskVars, crashes>>

\* Cancelled before the first connection, or while waiting to retry.
SCancelIdle ==
  /\ cancelled
  /\ spc = "backoff" \/ (spc = "connect" /\ attempt = 0)
  /\ GiveUp("cancelled")
  /\ UNCHANGED <<toR, faults>>

\* Connect, both handshakes and the transfer offer.
SConnect ==
  /\ spc = "connect"
  /\ ~(cancelled /\ attempt = 0)
  /\ Overlap \/ \A c \in Conns : ~HandlerOpen(c)
  /\ spc' = "approval"
  /\ hpc' = [hpc EXCEPT ![attempt] = "offer"]
  /\ toR' = [toR EXCEPT ![attempt] = <<[type |-> "offer"]>>]
  /\ UNCHANGED <<attempt, sfile, soff, sbytes, sstat, cancelled, src, toS,
                 broken, hfile, hstate, hpos, hino, sharedVars, diskVars,
                 boundVars>>

\* The connection is refused or times out, the receiver has no free session
\* slot, or the handshake breaks off.
SConnectFails ==
  /\ spc = "connect"
  /\ ~(cancelled /\ attempt = 0)
  /\ faults < MaxFaults
  /\ faults' = faults + 1
  /\ Interrupt
  /\ UNCHANGED toR

\* The peer is not (or no longer) trusted, or has another key.
SUntrusted ==
  /\ spc = "connect"
  /\ ~(cancelled /\ attempt = 0)
  /\ faults < MaxFaults
  /\ faults' = faults + 1
  /\ GiveUp("failed")
  /\ UNCHANGED toR

\* A socket call of the open session raises ConnectionError: a read when
\* nothing is left to read, or a write, on a connection the peer has left.
SBreak ==
  /\ spc \in InSession
  /\ attempt \in broken \/ ~HandlerOpen(attempt)
  /\ \/ toS[attempt] = <<>>
     \/ spc \in SenderSending
     \/ spc = "approval" /\ cancelled     \* sending the cancel frame
  /\ Interrupt
  /\ UNCHANGED <<toR, faults>>

\* The peer is there but slower than IDLE_TRANSFER_TIMEOUT.
SIdleTimeout ==
  /\ spc \in SenderReading \ {"approval"}
  /\ toS[attempt] = <<>>
  /\ faults < MaxFaults
  /\ faults' = faults + 1
  /\ Interrupt
  /\ UNCHANGED toR

SApprovalTimeout ==
  /\ spc = "approval"
  /\ toS[attempt] = <<>>
  /\ \/ inbox = "pending" /\ faults' = faults
     \/ faults < MaxFaults /\ faults' = faults + 1
  /\ GiveUp("failed")
  /\ UNCHANGED toR

SCancelApproval ==
  /\ spc = "approval" /\ cancelled
  /\ Sent([type |-> "cancel"])
  /\ GiveUp("cancelled")
  /\ UNCHANGED faults

SRefused ==
  /\ spc = "approval"
  /\ NextForSender("response")
  /\ Head(toS[attempt]).answer # "accepted"
  /\ GiveUp(IF Head(toS[attempt]).answer = "expired" THEN "failed" ELSE "rejected")
  /\ UNCHANGED <<toR, faults>>

\* The offer is accepted; the resume query follows at once.
SAccepted ==
  /\ spc = "approval"
  /\ NextForSender("response")
  /\ Head(toS[attempt]).answer = "accepted"
  /\ sstat' = [f \in Files |-> IF sstat[f] = "pending_approval" THEN "accepted"
                               ELSE sstat[f]]
  /\ spc' = "state"
  /\ SenderTakes
  /\ Sent([type |-> "query"])
  /\ UNCHANGED <<attempt, sfile, soff, sbytes, cancelled, src, broken,
                 handlerVars, sharedVars, diskVars, boundVars>>

SResumeState ==
  /\ spc = "state"
  /\ NextForSender("resume_state")
  /\ soff' = Head(toS[attempt]).offs
  /\ sfile' = 1
  /\ spc' = "file"
  /\ SenderTakes
  /\ UNCHANGED <<attempt, sbytes, sstat, cancelled, src, toR, broken,
                 handlerVars, sharedVars, diskVars, boundVars>>

\* The statuses a file goes through as its content is about to be sent.
Streaming(status, offset) ==
  IF status \in Terminal THEN status
  ELSE SetStatus(SetStatus(status, IF offset > 0 THEN "resuming" ELSE "active"),
                 "active")

SFileStart ==
  /\ spc = "file"
  /\ sbytes' = [sbytes EXCEPT ![sfile] = soff[sfile]]
  /\ sstat' = [sstat EXCEPT ![sfile] = Streaming(@, soff[sfile])]
  /\ Sent([type |-> "file_start", file |-> sfile])
  /\ spc' = "stream"
  /\ UNCHANGED <<attempt, sfile, soff, cancelled, src, toS, broken,
                 handlerVars, sharedVars, diskVars, boundVars>>

SChunk ==
  /\ spc = "stream"
  /\ sbytes[sfile] < Size[sfile]
  /\ ~cancelled
  /\ src[sfile] # "short"
  /\ toR' = IF attempt \notin broken /\ HandlerOpen(attempt)
            THEN [toR EXCEPT ![attempt] = @ \o
                    << [type |-> "chunk", file |-> sfile, index |-> sbytes[sfile]],
                       [type |-> "data", index |-> sbytes[sfile],
                        good |-> src[sfile] # "changed"] >>]
            ELSE toR
  /\ sbytes' = [sbytes EXCEPT ![sfile] = @ + 1]
  /\ UNCHANGED <<spc, attempt, sfile, soff, sstat, cancelled, src, toS, broken,
                 handlerVars, sharedVars, diskVars, boundVars>>

SCancelStream ==
  /\ spc = "stream" /\ cancelled
  /\ sbytes[sfile] < Size[sfile]
  /\ Sent([type |-> "cancel"])
  /\ GiveUp("cancelled")
  /\ UNCHANGED faults

\* The source ends early: "Source file changed during transfer".
SSourceShort ==
  /\ spc = "stream" /\ ~cancelled
  /\ sbytes[sfile] < Size[sfile]
  /\ src[sfile] = "short"
  /\ GiveUp("failed")
  /\ UNCHANGED <<toR, faults>>

\* The source cannot be opened after file_start: an OSError, so a retry.  (A
\* source removed once it is open is still read to its end.)
SSourceGone ==
  /\ spc = "stream"
  /\ sbytes[sfile] = soff[sfile]
  /\ src[sfile] = "gone"
  /\ Interrupt
  /\ UNCHANGED <<toR, faults>>

SFileEnd ==
  /\ spc = "stream"
  /\ sbytes[sfile] >= Size[sfile]
  /\ Sent([type |-> "file_end", file |-> sfile])
  /\ spc' = "result"
  /\ UNCHANGED <<attempt, sfile, soff, sbytes, sstat, cancelled, src, toS,
                 broken, handlerVars, sharedVars, diskVars, boundVars>>

\* Mutant of Acknowledges: any result for the file counts.
AcknowledgesAny(m, f) == m.type = "file_result" /\ m.file = f

\* What a result frame must say for the file to count as sent.
Acknowledges(m, f) == m.type = "file_result" /\ m.file = f /\ m.ok

SFileAcked ==
  /\ spc = "result"
  /\ toS[attempt] # <<>> /\ Acknowledges(Head(toS[attempt]), sfile)
  /\ sstat' = [sstat EXCEPT ![sfile] = SetStatus(@, "complete")]
  /\ IF sfile = N
     THEN /\ spc' = "fin" /\ Sent([type |-> "fin"]) /\ sfile' = sfile
     ELSE /\ spc' = "file" /\ sfile' = sfile + 1 /\ toR' = toR
  /\ SenderTakes
  /\ UNCHANGED <<attempt, soff, sbytes, cancelled, src, broken, handlerVars,
                 sharedVars, diskVars, boundVars>>

SFileRefused ==
  /\ spc = "result"
  /\ toS[attempt] # <<>> /\ ~Acknowledges(Head(toS[attempt]), sfile)
  /\ GiveUp("failed")
  /\ UNCHANGED <<toR, faults>>

SFinished ==
  /\ spc = "fin"
  /\ NextForSender("session_complete")
  /\ spc' = "done"
  /\ Hangup
  /\ UNCHANGED <<attempt, sfile, soff, sbytes, sstat, cancelled, src, toR,
                 broken, handlerVars, sharedVars, diskVars, boundVars>>

SRetry ==
  /\ spc = "backoff" /\ ~cancelled
  /\ attempt' = attempt + 1
  /\ SetOpen("resuming", "connect")
  /\ UNCHANGED <<sfile, soff, sbytes, cancelled, src, netVars, handlerVars,
                 sharedVars, diskVars, boundVars>>

SenderStep ==
  \/ SCancelIdle \/ SConnect \/ SBreak \/ SCancelApproval \/ SRefused
  \/ SAccepted \/ SResumeState \/ SFileStart \/ SChunk \/ SCancelStream
  \/ SSourceShort \/ SSourceGone \/ SFileEnd \/ SFileAcked \/ SFileRefused
  \/ SFinished \/ SRetry

\* Steps of the worker that only time or the network brings about.
SenderFault == SConnectFails \/ SUntrusted \/ SIdleTimeout \/ SApprovalTimeout

-----------------------------------------------------------------------------
(* The receiving handlers *)

\* The handler leaves _receive_session; its socket and its slot are released.
Leave(c) ==
  /\ hpc' = [hpc EXCEPT ![c] = "closed"]
  /\ toR' = [toR EXCEPT ![c] = <<>>]

\* An except clause of the file loop: set_status assigns the status or raises,
\* and either way the handler ends.
LeaveWith(c, status) ==
  /\ rstat' = [rstat EXCEPT ![hfile[c]] = SetStatus(@, status)]
  /\ Leave(c)

Goto(c, pc) == hpc' = [hpc EXCEPT ![c] = pc]

PeerGone(c) == c \in broken \/ ~SenderOpen(c)

\* IncomingRequestManager.publish for an offer whose entry has status prior.
Publish(prior) == IF prior = None THEN "pending" ELSE prior

HOffer(c) ==
  /\ hpc[c] = "offer" /\ NextForHandler(c, "offer")
  /\ inbox \in {None, "accepted"}
  /\ inbox' = Publish(inbox)
  /\ Goto(c, "await")
  /\ HandlerTakes(c)
  /\ UNCHANGED <<senderVars, toS, broken, hfile, hstate, hpos, hino, rstat,
                 rbytes, diskVars, boundVars>>

\* InboxCapacityError: other transfers fill the inbox.
HBusy(c) ==
  /\ hpc[c] = "offer" /\ NextForHandler(c, "offer")
  /\ inbox = None
  /\ Reply(c, [type |-> "response", answer |-> "declined"])
  /\ Leave(c)
  /\ UNCHANGED <<senderVars, broken, hfile, hstate, hpos, hino, sharedVars,
                 diskVars, boundVars>>

\* "Conflicting transfer request": closed without an answer.
HConflict(c) ==
  /\ hpc[c] = "offer" /\ NextForHandler(c, "offer")
  /\ inbox \notin {None, "accepted"}
  /\ Leave(c)
  /\ UNCHANGED <<senderVars, toS, broken, hfile, hstate, hpos, hino,
                 sharedVars, diskVars, boundVars>>

\* A read or a write of the handshake, before the files or between them fails.
HLost(c) ==
  /\ hpc[c] \in {"offer", "query", "start", "fin"}
  /\ toR[c] = <<>> /\ PeerGone(c)
  /\ Leave(c)
  /\ UNCHANGED <<senderVars, toS, broken, hfile, hstate, hpos, hino,
                 sharedVars, diskVars, boundVars>>

\* _decide changes an entry only while it is pending.
Decide(status) == inbox' = IF inbox = "pending" THEN status ELSE inbox

HPeerCancels(c) ==
  /\ hpc[c] = "await" /\ NextForHandler(c, "cancel")
  /\ Decide("cancelled")
  /\ HandlerTakes(c)
  /\ UNCHANGED <<senderVars, toS, broken, handlerVars, rstat, rbytes,
                 diskVars, boundVars>>

HPeerGone(c) ==
  /\ hpc[c] = "await" /\ toR[c] = <<>> /\ PeerGone(c)
  /\ Decide("cancelled")
  /\ Leave(c)
  /\ UNCHANGED <<senderVars, toS, broken, hfile, hstate, hpos, hino, rstat,
                 rbytes, diskVars, boundVars>>

\* Mutant of HExpire: the deadline is noticed only once the peer has gone.
HExpireLate(c) ==
  /\ hpc[c] = "await" /\ inbox = "pending" /\ PeerGone(c)
  /\ Decide("expired")
  /\ UNCHANGED <<senderVars, netVars, handlerVars, rstat, rbytes, diskVars,
                 boundVars>>

\* The approval deadline passes.
HExpire(c) ==
  /\ hpc[c] = "await" /\ inbox = "pending"
  /\ Decide("expired")
  /\ UNCHANGED <<senderVars, netVars, handlerVars, rstat, rbytes, diskVars,
                 boundVars>>

\* Mutant of AnswerTo: silence counts as consent.
AnswerToSilence(status) == IF status = "rejected" THEN "declined" ELSE "accepted"

\* What the sender is told about a decided request.
AnswerTo(status) ==
  CASE status = "accepted" -> "accepted"
    [] status = "expired"  -> "expired"
    [] OTHER               -> "declined"

HDecided(c) ==
  /\ hpc[c] = "await" /\ inbox # "pending"
  /\ Reply(c, [type |-> "response", answer |-> AnswerTo(inbox)])
  /\ IF AnswerTo(inbox) = "accepted"
     THEN Goto(c, "query") /\ toR' = toR
     ELSE Leave(c)
  /\ UNCHANGED <<senderVars, broken, hfile, hstate, hpos, hino, sharedVars,
                 diskVars, boundVars>>

-----------------------------------------------------------------------------
(* PartialTransferStore.prepare *)

Intact(ino, f) == content[ino][f] = [i \in 1..Size[f] |-> TRUE]

\* metadata.json names a final path that still has the offered hash.
FinalStands(f) ==
  /\ metadata
  /\ \E r \in committed : r.file = f /\ r.by = finalBy[f] /\ Intact(r.ino, f)

\* The partial file prepare resumes from, if any.
Resumable(f) ==
  metadata /\ finalBy[f] = NoConn /\ partial[f] # NoConn

\* A partial file is removed when no metadata vouches for it, or when it is
\* longer than the file.
Discards(f) ==
  \/ ~metadata
  \/ Resumable(f) /\ Len(content[partial[f]][f]) > Size[f]

\* Mutant of ResumeOffset: an unfinished partial counts one chunk too many.
ResumeOffsetOneMore(f) ==
  IF FinalStands(f) THEN Size[f]
  ELSE IF Resumable(f) /\ Len(content[partial[f]][f]) < Size[f]
  THEN Len(content[partial[f]][f]) + 1 ELSE 0

ResumeOffset(f) ==
  IF FinalStands(f) THEN Size[f]
  ELSE IF Resumable(f) /\ ~Discards(f) THEN Len(content[partial[f]][f]) ELSE 0

HPrepare(c) ==
  /\ hpc[c] = "query" /\ NextForHandler(c, "query")
  /\ hstate' = [hstate EXCEPT ![c] =
       [f \in Files |-> [off |-> ResumeOffset(f), final |-> FinalStands(f)]]]
  /\ partial' = [f \in Files |-> IF Discards(f) THEN NoConn ELSE partial[f]]
  /\ finalBy' = [f \in Files |-> IF FinalStands(f) THEN finalBy[f] ELSE NoConn]
  /\ metadata' = TRUE
  /\ Reply(c, [type |-> "resume_state", offs |-> [f \in Files |-> ResumeOffset(f)]])
  /\ hfile' = [hfile EXCEPT ![c] = 1]
  /\ Goto(c, "start")
  /\ HandlerTakes(c)
  /\ UNCHANGED <<senderVars, broken, hpos, hino, sharedVars, content,
                 committed, boundVars>>

-----------------------------------------------------------------------------
(* Receiving one file *)

\* Mutant of Reopened: an ended transfer is reopened too.
ReopenedAlways(status, offset) == IF offset > 0 THEN "resuming" ELSE "active"

\* _get_or_create_v3_transfer: the TransferInfo is shared by all handlers of
\* this transfer and outlives them; an ended one keeps its status.
Reopened(status, offset) ==
  CASE status = None      -> IF offset > 0 THEN "resuming" ELSE "active"
    [] status \in Terminal -> status
    [] OTHER              -> SetStatus(status, "resuming")

\* file_start.  Setting ACTIVE fails for a file that has ended, and so does the
\* except clause that would set FAILED: the handler just ends.
HFileStart(c) ==
  LET f == hfile[c]
      state == hstate[c][f]
      reopened == Reopened(rstat[f], state.off)
  IN /\ hpc[c] = "start" /\ NextForHandler(c, "file_start")
     /\ Head(toR[c]).file = f
     /\ rbytes' = [rbytes EXCEPT ![f] = state.off]
     /\ IF state.final
        THEN /\ rstat' = [rstat EXCEPT ![f] = reopened]
             /\ Goto(c, "end") /\ HandlerTakes(c)
        ELSE IF CanSet(reopened, "active")
        THEN /\ rstat' = [rstat EXCEPT ![f] = "active"]
             /\ Goto(c, "open") /\ HandlerTakes(c)
        ELSE /\ rstat' = [rstat EXCEPT ![f] = SetStatus(reopened, "failed")]
             /\ Leave(c)
     /\ UNCHANGED <<senderVars, toS, broken, hfile, hstate, hpos, hino, inbox,
                    diskVars, boundVars>>

\* Anything else where file_start or the resume query is due ends the session
\* outside the file loop's except clauses.
HUnexpected(c) ==
  /\ hpc[c] \in {"query", "start"}
  /\ toR[c] # <<>>
  /\ hpc[c] = "query" => Head(toR[c]).type # "query"
  /\ hpc[c] = "start" => ~(/\ Head(toR[c]).type = "file_start"
                           /\ Head(toR[c]).file = hfile[c])
  /\ Leave(c)
  /\ UNCHANGED <<senderVars, toS, broken, hfile, hstate, hpos, hino,
                 sharedVars, diskVars, boundVars>>

\* Mutant of AfterChunk: one chunk too many is awaited.
AfterChunkInclusive(f, bytes) == IF bytes <= Size[f] THEN "data" ELSE "end"

\* The loop of _receive_v3_file_data ends when the shared byte count says so.
AfterChunk(f, bytes) == IF bytes < Size[f] THEN "data" ELSE "end"

\* open(partial_path, "r+b" or "wb") and seek to the shared byte count.
HOpen(c) ==
  LET f == hfile[c]
  IN /\ hpc[c] = "open"
     /\ IF partial[f] = NoConn
        THEN /\ partial' = [partial EXCEPT ![f] = c]
             /\ content' = [content EXCEPT ![c][f] = <<>>]
             /\ hino' = [hino EXCEPT ![c] = c]
        ELSE /\ hino' = [hino EXCEPT ![c] = partial[f]]
             /\ UNCHANGED <<partial, content>>
     /\ hpos' = [hpos EXCEPT ![c] = rbytes[f]]
     /\ Goto(c, AfterChunk(f, rbytes[f]))
     /\ UNCHANGED <<senderVars, netVars, hfile, hstate, sharedVars, metadata,
                    finalBy, committed, boundVars>>

\* validate_chunk_control compares the frame with the loop's own index and
\* with the shared byte count.
ValidChunk(c, m) ==
  /\ m.type = "chunk" /\ m.file = hfile[c]
  /\ m.index = hpos[c] /\ m.index = rbytes[hfile[c]]

HChunkControl(c) ==
  /\ hpc[c] = "data" /\ toR[c] # <<>>
  /\ ValidChunk(c, Head(toR[c]))
  /\ Goto(c, "body")
  /\ HandlerTakes(c)
  /\ UNCHANGED <<senderVars, toS, broken, hfile, hstate, hpos, hino,
                 sharedVars, diskVars, boundVars>>

\* Content after chunk m is written at pos.  Writing beyond the end leaves a
\* hole, which reads as wrong chunks, and so does a chunk in another's place.
Written(old, pos, m) ==
  [i \in 1..(IF pos < Len(old) THEN Len(old) ELSE pos + 1) |->
     IF i = pos + 1 THEN m.good /\ m.index = pos
     ELSE i <= Len(old) /\ old[i]]

HChunkData(c) ==
  LET f == hfile[c]
  IN /\ hpc[c] = "body" /\ NextForHandler(c, "data")
     /\ content' = [content EXCEPT ![hino[c]][f] =
                      Written(@, hpos[c], Head(toR[c]))]
     /\ rbytes' = [rbytes EXCEPT ![f] = @ + 1]
     /\ hpos' = [hpos EXCEPT ![c] = @ + 1]
     /\ Goto(c, AfterChunk(f, rbytes[f] + 1))
     /\ HandlerTakes(c)
     /\ UNCHANGED <<senderVars, toS, broken, hfile, hstate, hino, inbox, rstat,
                    partial, metadata, finalBy, committed, boundVars>>

HCancelled(c) ==
  /\ hpc[c] = "data" /\ NextForHandler(c, "cancel")
  /\ LeaveWith(c, "cancelled")
  /\ UNCHANGED <<senderVars, toS, broken, hfile, hstate, hpos, hino, inbox,
                 rbytes, diskVars, boundVars>>

\* ProtocolError inside the file loop.
HBadFrame(c) ==
  /\ hpc[c] \in {"data", "end"} /\ toR[c] # <<>>
  /\ hpc[c] = "data" => ~ValidChunk(c, Head(toR[c])) /\ ~NextForHandler(c, "cancel")
  /\ hpc[c] = "end" => ~NextForHandler(c, "file_end")
  /\ LeaveWith(c, "failed")
  /\ UNCHANGED <<senderVars, toS, broken, hfile, hstate, hpos, hino, inbox,
                 rbytes, diskVars, boundVars>>

\* ConnectionError, OSError or TimeoutError inside the file loop.
HInterrupted(c) ==
  /\ hpc[c] \in {"data", "body", "end"}
  /\ toR[c] = <<>> /\ PeerGone(c)
  /\ LeaveWith(c, "interrupted")
  /\ UNCHANGED <<senderVars, toS, broken, hfile, hstate, hpos, hino, inbox,
                 rbytes, diskVars, boundVars>>

\* Mutant of AfterFileEnd: a file that was whole at the start is taken as done.
AfterFileEndBySize(c) ==
  IF hstate[c][hfile[c]].off = Size[hfile[c]] THEN "complete" ELSE "verify"

\* A file whose final path stands needs no verification.
AfterFileEnd(c) == IF hstate[c][hfile[c]].final THEN "complete" ELSE "verify"

HFileEnd(c) ==
  /\ hpc[c] = "end" /\ NextForHandler(c, "file_end")
  /\ Goto(c, AfterFileEnd(c))
  /\ HandlerTakes(c)
  /\ UNCHANGED <<senderVars, toS, broken, hfile, hstate, hpos, hino,
                 sharedVars, diskVars, boundVars>>

\* Verification and commit go by the path of the partial file, not by the file
\* the handler wrote; FileNotFoundError is an OSError.
HPartialMissing(c) ==
  /\ hpc[c] \in {"verify", "link"} /\ partial[hfile[c]] = NoConn
  /\ LeaveWith(c, "interrupted")
  /\ UNCHANGED <<senderVars, toS, broken, hfile, hstate, hpos, hino, inbox,
                 rbytes, diskVars, boundVars>>

\* Mutant of Verified: only the length is compared.
VerifiedLength(f) == Len(content[partial[f]][f]) = Size[f]

\* The SHA-256 of the partial file is the offered one.
Verified(f) == Intact(partial[f], f)

HVerify(c) ==
  LET f == hfile[c]
  IN /\ hpc[c] = "verify" /\ partial[f] # NoConn
     /\ \/ /\ Verified(f)
           /\ Goto(c, "link")
           /\ UNCHANGED <<rstat, toR, toS>>
        \/ /\ ~Verified(f)
           /\ Reply(c, [type |-> "file_result", file |-> f, ok |-> FALSE])
           /\ LeaveWith(c, "failed")
     /\ UNCHANGED <<senderVars, broken, hfile, hstate, hpos, hino, inbox,
                    rbytes, diskVars, boundVars>>

\* The failed-verification answer itself cannot be sent.
HVerifyLost(c) ==
  LET f == hfile[c]
  IN /\ hpc[c] = "verify" /\ partial[f] # NoConn
     /\ ~Verified(f) /\ PeerGone(c)
     /\ LeaveWith(c, "interrupted")
     /\ UNCHANGED <<senderVars, toS, broken, hfile, hstate, hpos, hino, inbox,
                    rbytes, diskVars, boundVars>>

\* commit_partial_file, on a file system with hard links: os.link exposes the
\* inode under a free name, then the partial name is removed.
HLink(c) ==
  LET f == hfile[c]
  IN /\ hpc[c] = "link" /\ partial[f] # NoConn
     /\ committed' = committed \cup {[file |-> f, by |-> c, ino |-> partial[f]]}
     /\ Goto(c, "unlink")
     /\ UNCHANGED <<senderVars, netVars, hfile, hstate, hpos, hino, sharedVars,
                    partial, content, metadata, finalBy, boundVars>>

HUnlink(c) ==
  /\ hpc[c] = "unlink"
  /\ partial' = [partial EXCEPT ![hfile[c]] = NoConn]
  /\ Goto(c, "mark")
  /\ UNCHANGED <<senderVars, netVars, hfile, hstate, hpos, hino, sharedVars,
                 content, metadata, finalBy, committed, boundVars>>

\* mark_completed; without metadata it raises "Missing resume metadata".
HMark(c) ==
  LET f == hfile[c]
  IN /\ hpc[c] = "mark"
     /\ \/ /\ metadata
           /\ finalBy' = [finalBy EXCEPT ![f] = c]
           /\ Goto(c, "complete")
           /\ UNCHANGED <<rstat, toR>>
        \/ /\ ~metadata
           /\ LeaveWith(c, "failed")
           /\ UNCHANGED finalBy
     /\ UNCHANGED <<senderVars, toS, broken, hfile, hstate, hpos, hino, inbox,
                    rbytes, partial, content, metadata, committed, boundVars>>

\* After the last file the fin frame is due.
NextFile(c) ==
  IF hfile[c] = N THEN Goto(c, "fin") /\ hfile' = hfile
  ELSE Goto(c, "start") /\ hfile' = [hfile EXCEPT ![c] = @ + 1]

\* The file is COMPLETE and acknowledged.  When its status refuses COMPLETE
\* the handler ends and the acknowledgement is never sent.
HComplete(c) ==
  LET f == hfile[c]
  IN /\ hpc[c] = "complete"
     /\ rbytes' = [rbytes EXCEPT ![f] = Size[f]]
     /\ IF CanSet(rstat[f], "complete")
        THEN /\ rstat' = [rstat EXCEPT ![f] = "complete"]
             /\ Reply(c, [type |-> "file_result", file |-> f, ok |-> TRUE])
             /\ NextFile(c)
             /\ toR' = toR
        ELSE /\ LeaveWith(c, "failed")
             /\ UNCHANGED <<toS, hfile>>
     /\ UNCHANGED <<senderVars, broken, hstate, hpos, hino, inbox, diskVars,
                    boundVars>>

\* Sending the acknowledgement raises: COMPLETE does not become INTERRUPTED.
HCompleteLost(c) ==
  LET f == hfile[c]
  IN /\ hpc[c] = "complete" /\ PeerGone(c)
     /\ CanSet(rstat[f], "complete")
     /\ rbytes' = [rbytes EXCEPT ![f] = Size[f]]
     /\ rstat' = [rstat EXCEPT ![f] = "complete"]
     /\ Leave(c)
     /\ UNCHANGED <<senderVars, toS, broken, hfile, hstate, hpos, hino, inbox,
                    diskVars, boundVars>>

HFin(c) ==
  /\ hpc[c] = "fin" /\ NextForHandler(c, "fin")
  /\ Reply(c, [type |-> "session_complete"])
  /\ Goto(c, "cleanup")
  /\ HandlerTakes(c)
  /\ UNCHANGED <<senderVars, broken, hfile, hstate, hpos, hino, sharedVars,
                 diskVars, boundVars>>

\* complete_session removes the metadata and every partial file.
HCleanup(c) ==
  /\ hpc[c] = "cleanup"
  /\ metadata' = FALSE
  /\ partial' = [f \in Files |-> NoConn]
  /\ finalBy' = [f \in Files |-> NoConn]
  /\ Leave(c)
  /\ UNCHANGED <<senderVars, toS, broken, hfile, hstate, hpos, hino,
                 sharedVars, content, committed, boundVars>>

\* The receiver waits longer for the peer than its socket timeout allows.
HIdleTimeout(c) ==
  /\ hpc[c] \in HandlerReading \ {"offer", "await"}
  /\ toR[c] = <<>>
  /\ faults < MaxFaults
  /\ faults' = faults + 1
  /\ IF hpc[c] \in {"data", "body", "end"} THEN LeaveWith(c, "interrupted")
     ELSE Leave(c) /\ rstat' = rstat
  /\ UNCHANGED <<senderVars, toS, broken, hfile, hstate, hpos, hino, inbox,
                 rbytes, diskVars, crashes>>

HandlerStep(c) ==
  \/ HOffer(c) \/ HBusy(c) \/ HConflict(c) \/ HLost(c)
  \/ HPeerCancels(c) \/ HPeerGone(c) \/ HExpire(c) \/ HDecided(c)
  \/ HPrepare(c) \/ HFileStart(c) \/ HUnexpected(c) \/ HOpen(c)
  \/ HChunkControl(c) \/ HChunkData(c) \/ HCancelled(c) \/ HBadFrame(c)
  \/ HInterrupted(c) \/ HFileEnd(c) \/ HPartialMissing(c) \/ HVerify(c)
  \/ HVerifyLost(c) \/ HLink(c) \/ HUnlink(c) \/ HMark(c) \/ HComplete(c)
  \/ HCompleteLost(c) \/ HFin(c) \/ HCleanup(c)

-----------------------------------------------------------------------------
(* The users, the sender's files and the receiving process *)

UserAccepts ==
  /\ inbox = "pending"
  /\ Decide("accepted")
  /\ UNCHANGED <<senderVars, netVars, handlerVars, rstat, rbytes, diskVars,
                 boundVars>>

UserRejects ==
  /\ inbox = "pending"
  /\ Decide("rejected")
  /\ UNCHANGED <<senderVars, netVars, handlerVars, rstat, rbytes, diskVars,
                 boundVars>>

\* cancel_transfer finds the event until the worker has ended.
UserCancels ==
  /\ ~cancelled /\ spc \notin {"done", "dead"}
  /\ cancelled' = TRUE
  /\ UNCHANGED <<spc, attempt, sfile, soff, sbytes, sstat, src, netVars,
                 handlerVars, sharedVars, diskVars, boundVars>>

SourceChange(f) ==
  /\ SourceChanges
  /\ src[f] = "same" /\ spc \notin {"done", "dead"}
  /\ \E s \in {"changed", "short", "gone"} : src' = [src EXCEPT ![f] = s]
  /\ UNCHANGED <<spc, attempt, sfile, soff, sbytes, sstat, cancelled, netVars,
                 handlerVars, sharedVars, diskVars, boundVars>>

\* The receiving process dies and is started again: threads, inbox and
\* TransferInfos are gone, the disk stays.  The last chunk written to an open
\* file may still have been in the writer's buffer.
ReceiverCrash ==
  /\ crashes < MaxCrashes
  /\ crashes' = crashes + 1
  /\ hpc' = [c \in Conns |-> IF HandlerOpen(c) THEN "closed" ELSE hpc[c]]
  /\ toR' = [c \in Conns |-> <<>>]
  /\ broken' = broken \cup {c \in Conns : HandlerOpen(c)}
  /\ inbox' = None
  /\ rstat' = [f \in Files |-> None]
  /\ rbytes' = [f \in Files |-> 0]
  /\ \/ content' = content
     \/ \E c \in Conns :
          LET f == hfile[c]
              old == content[hino[c]][f]
          IN /\ hpc[c] \in {"data", "body"} /\ Len(old) > 0
             /\ content' = [content EXCEPT ![hino[c]][f] = SubSeq(old, 1, Len(old) - 1)]
  /\ UNCHANGED <<senderVars, toS, hfile, hstate, hpos, hino, partial, metadata,
                 finalBy, committed, faults>>

Environment ==
  \/ UserAccepts \/ UserRejects \/ UserCancels \/ ReceiverCrash
  \/ \E f \in Files : SourceChange(f)
  \/ \E c \in Conns : LinkBreaks(c) \/ HIdleTimeout(c)

\* The worker has ended and every handler has released its slot.
Settled ==
  /\ spc \in {"done", "dead"}
  /\ \A c \in Conns : ~HandlerOpen(c)

Next ==
  \/ SenderStep \/ SenderFault
  \/ \E c \in Conns : HandlerStep(c)
  \/ Environment
  \/ Settled /\ UNCHANGED vars

\* The worker and the handlers are threads, and every wait of theirs ends by
\* itself: a read ends with a frame, with the peer's close, or, for the user's
\* decision, with the approval deadline.  Nothing is assumed of the users, the
\* network or the files.
Fairness ==
  /\ WF_vars(SenderStep)
  /\ \A c \in Conns : WF_vars(HandlerStep(c))

Spec == Init /\ [][Next]_vars
FairSpec == Spec /\ Fairness

-----------------------------------------------------------------------------
(* Safety *)

Delivered(f) == \E r \in committed : r.file = f

\* A file the sender shows as COMPLETE has been exposed to the receiving user:
\* the sender completes a file only on a positive file_result, which the
\* receiver sends only once commit_partial_file has exposed the file, now or
\* in an earlier session whose final path still stands.
AckedIsDelivered == \A f \in Files : sstat[f] = "complete" => Delivered(f)

\* As long as the receiving process lives, the two sides agree on COMPLETE:
\* the sender does not show it while the receiver shows another status, in
\* whatever order retried sessions reopen the receiver's shared TransferInfo.
AckedIsComplete ==
  crashes = 0 => \A f \in Files : sstat[f] = "complete" => rstat[f] = "complete"

\* Every file exposed under its final name has the content the sender hashed:
\* commit_partial_file links the inode that the handler has just verified and
\* nobody writes to it any more.
ExposedIsVerified == \A r \in committed : Intact(r.ino, r.file)

\* A file is delivered once in the life of the receiving process, however many
\* sessions carry it: the metadata's final path and the sticky COMPLETE status
\* keep a retry from committing it again under "name (1)".
DeliveredOncePerRun ==
  \A f \in Files :
    Cardinality({r \in committed : r.file = f}) <= 1 + crashes

\* A partial file that reaches verification is intact unless the sender's file
\* changed: resuming at the size of the partial file never leaves a hole, never
\* writes a chunk in another's place, never keeps a truncated tail.
ResumedIsIntact ==
  \A c \in Conns : hpc[c] = "verify" /\ src[hfile[c]] # "changed"
                     => partial[hfile[c]] # NoConn /\ Verified(hfile[c])

\* A file the sender reports as REJECTED has not been exposed to the receiving
\* user, in any session of the transfer.
RejectedIsUndelivered ==
  \A f \in Files : sstat[f] = "rejected" => ~Delivered(f)

\* A worker that returns leaves every file of the transfer in a status that has
\* ended: one failure ends them all, and a session that completes has completed
\* each of them.  (A worker that dies of a refused status does not.)
DoneIsTerminal == spc = "done" => Open = {}

\* No file content is written or exposed unless the user has accepted the
\* offer in this life of the receiving process.
WritesNeedApproval ==
  [][\/ committed' # committed
     \/ content' # content /\ crashes' = crashes
     => inbox = "accepted"]_vars

\* Stated by transfer.py:719-721: a send that fails is retried, up to the
\* retry limit, before the transfer is marked FAILED.  So a worker that has
\* ended leaves no file in a status that has not ended.
EndedIsTerminal == spc \in {"done", "dead"} => Open = {}

-----------------------------------------------------------------------------
(* Liveness *)

\* The sending worker ends and every receiving handler ends for good, whatever
\* the network, the users and the receiver do: the worker slot and the session
\* slots of a transfer are given back.
BothEndsFinish ==
  /\ <>(spc \in {"done", "dead"})
  /\ <>[](\A c \in Conns : ~HandlerOpen(c))

\* The sender's files stay as they were offered, the receiver goes on running
\* and no retry reaches it before the handler of the attempt before has ended.
Undisturbed ==
  /\ \A f \in Files : src[f] = "same"
  /\ crashes = 0
  /\ \A c, d \in Conns : HandlerOpen(c) /\ HandlerOpen(d) => c = d

\* Once content is on its way, a transfer survives a fault: the retry resumes
\* it and every file becomes COMPLETE, unless the sending user cancels.
StreamCompletes ==
  []Undisturbed =>
    ((spc = "stream") ~> (\/ \A f \in Files : sstat[f] = "complete"
                          \/ cancelled))

-----------------------------------------------------------------------------
(* Refinement *)

Promise == INSTANCE FileDelivery WITH
  Files <- Files,
  approved <- inbox = "accepted",
  delivered <- {f \in Files : Delivered(f)},
  acked <- {f \in Files : sstat[f] = "complete"}

\* The sessions, retries, races and crashes of a transfer amount to approvals,
\* deliveries under an approval, and acknowledgements of deliveries; no status
\* change, retry or crash ever takes a delivery or an acknowledgement back.
KeepsPromise == Promise!DSpec
=============================================================================
