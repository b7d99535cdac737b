----------------------- MODULE TransferSessionProofs ----------------------
(***************************************************************************)
(* What TransferSession guarantees for every value of its constants, with  *)
(* overlapping attempts or without: types, writes need an approval,        *)
(* COMPLETE means delivered and is shown on both ends, a worker that       *)
(* returns has ended every file, a rejected transfer has delivered         *)
(* nothing, a session exposes a file at most once, and the whole           *)
(* implements FileDelivery.  Then what holds besides when attempts do not  *)
(* overlap (~Overlap): a file is exposed once in a life of the receiver,   *)
(* verified, and resumed without a hole.  At the end, that neither the     *)
(* worker nor a session ever goes back.                                    *)
(***************************************************************************)
EXTENDS TransferSession, FiniteSetTheorems, TLAPS

-----------------------------------------------------------------------------
(* Type correctness: each group of variables of TypeOK has a lemma of its   *)
(* own, and so have the steps that disturb it; the theorem joins them.      *)

\* What TypeOK lacks to be inductive: only a worker that has retries left waits
\* for the next one (transfer.py:1054-1071), so that SRetry stays within Conns.
BackoffOK == spc = "backoff" => attempt < MaxRetries
IInvT == TypeOK /\ BackoffOK

\* The statuses the worker and the handlers assign.
LEMMA StatusNames ==
  {"pending_approval", "accepted", "rejected", "active", "interrupted",
   "resuming", "complete", "failed", "cancelled"} \subseteq Status
  BY DEF Status

\* set_status never leaves the set of statuses.
LEMMA SetStatusType ==
  ASSUME NEW S, NEW current \in S, NEW status \in S
  PROVE  SetStatus(current, status) \in S
  BY DEF SetStatus

\* The status as a file starts to stream.
LEMMA StreamingType ==
  ASSUME NEW status \in Status, NEW offset
  PROVE  Streaming(status, offset) \in Status
<1>1. {"active", "resuming"} \subseteq Status
  BY StatusNames
<1>2. \A s \in Status : SetStatus(s, "active") \in Status /\ SetStatus(s, "resuming") \in Status
  BY <1>1, SetStatusType
<1> QED
  BY <1>2 DEF Streaming

\* The assignment of one status to every file that has not ended.
LEMMA SetOpenType ==
  ASSUME SenderTypeOK, NEW status \in Status, NEW pc, SetOpen(status, pc)
  PROVE  sstat' \in [Files -> Status] /\ spc' \in {pc, "dead"}
<1>1. \A f \in Files :
        (IF f \notin Open \/ \E g \in Refused(status) : g <= f
         THEN sstat[f] ELSE status) \in Status
  BY DEF SenderTypeOK
<1>2. sstat' \in [Files -> Status]
  BY <1>1 DEF SetOpen
<1>3. spc' \in {pc, "dead"}
  BY DEF SetOpen
<1> QED
  BY <1>2, <1>3

\* Every way the worker gives up keeps its own variables in type.
LEMMA GiveUpSender ==
  ASSUME SenderTypeOK, NEW status \in Status, GiveUp(status)
  PROVE  SenderTypeOK' /\ BackoffOK'
<1>1. sstat' \in [Files -> Status] /\ spc' \in {"done", "dead"}
  BY SetOpenType DEF GiveUp
<1> QED
  BY <1>1 DEF GiveUp, SenderTypeOK, BackoffOK, SenderPC

\* A failed attempt keeps them in type and leaves retries for a backoff.
LEMMA InterruptSender ==
  ASSUME SenderTypeOK, Interrupt
  PROVE  SenderTypeOK' /\ BackoffOK'
<1>1. CASE attempt = MaxRetries
  <2>1. SetOpen("failed", "done")
    BY <1>1 DEF Interrupt
  <2>2. sstat' \in [Files -> Status] /\ spc' \in {"done", "dead"}
    BY <2>1, SetOpenType DEF Status
  <2> QED
    BY <2>2 DEF Interrupt, SenderTypeOK, BackoffOK, SenderPC
<1>2. CASE attempt # MaxRetries
  <2>1. SetOpen("interrupted", "backoff")
    BY <1>2 DEF Interrupt
  <2>2. sstat' \in [Files -> Status] /\ spc' \in {"backoff", "dead"}
    BY <2>1, SetOpenType DEF Status
  <2>3. attempt < MaxRetries
    BY <1>2, ConstantsAssumption DEF SenderTypeOK, Conns
  <2> QED
    BY <2>2, <2>3 DEF Interrupt, SenderTypeOK, BackoffOK, SenderPC
<1> QED
  BY <1>1, <1>2

\* A handler reaches the sender only through the connection.
LEMMA HandlerKeepsSender ==
  ASSUME NEW c \in Conns, HandlerStep(c)
  PROVE  UNCHANGED senderVars
  BY DEF HandlerStep, HOffer, HBusy, HConflict, HLost, HPeerCancels, HPeerGone,
       HExpire, HDecided, HPrepare, HFileStart, HUnexpected, HOpen, HChunkControl,
       HChunkData, HCancelled, HBadFrame, HInterrupted, HFileEnd, HPartialMissing,
       HVerify, HVerifyLost, HLink, HUnlink, HMark, HComplete, HCompleteLost, HFin,
          HCleanup

\* The sending worker touches nothing of the receiver but the connection: only
\* a new connection starts a handler.
LEMMA SenderFrame ==
  ASSUME SenderStep \/ SenderFault
  PROVE  /\ UNCHANGED <<sharedVars, diskVars, crashes>>
         /\ UNCHANGED handlerVars \/ SConnect
<1>1. CASE SenderStep
  BY <1>1 DEF SenderStep, SCancelIdle, SConnect, SBreak, SCancelApproval, SRefused,
     SAccepted, SResumeState, SFileStart, SChunk, SCancelStream, SSourceShort,
     SSourceGone, SFileEnd, SFileAcked, SFileRefused, SFinished, SRetry, Interrupt,
     GiveUp, boundVars
<1>2. CASE SenderFault
  BY <1>2 DEF SenderFault, SConnectFails, SUntrusted, SIdleTimeout, SApprovalTimeout,
     Interrupt, GiveUp
<1> QED
  BY <1>1, <1>2

\* The sender's variables stay in type.
LEMMA SenderTypeStep ==
  ASSUME IInvT, [Next]_vars
  PROVE  SenderTypeOK' /\ BackoffOK'
<1> USE DEF IInvT, TypeOK
<1>1. ASSUME NEW status \in Status, GiveUp(status)
      PROVE  SenderTypeOK' /\ BackoffOK'
  BY <1>1, GiveUpSender
<1>2. CASE Interrupt
  BY <1>2, InterruptSender
<1>3. CASE UNCHANGED senderVars
  BY <1>3 DEF senderVars, SenderTypeOK, BackoffOK
<1>4. CASE SConnect
  BY <1>4 DEF SConnect, SenderTypeOK, BackoffOK, SenderPC, InSession, SenderReading
<1>5. CASE SAccepted
  BY <1>5
     DEF SAccepted, SenderTypeOK, BackoffOK, SenderPC, InSession, SenderReading, Status
<1>6. CASE SResumeState
  <2>1. Head(toS[attempt]) \in ToSender
    BY <1>6 DEF SResumeState, NextForSender, NetTypeOK, SenderTypeOK
  <2>2. Head(toS[attempt]).offs \in [Files -> Nat]
    BY <1>6, <2>1 DEF SResumeState, NextForSender, ToSender
  <2>3. 1 \in Files
    BY ConstantsAssumption DEF Files
  <2> QED
    BY <1>6, <2>2, <2>3
       DEF SResumeState, SenderTypeOK, BackoffOK, SenderPC, InSession, SenderSending
<1>7. CASE SFileStart
  <2>1. Streaming(sstat[sfile], soff[sfile]) \in Status
    BY StreamingType DEF SenderTypeOK
  <2> QED
    BY <1>7, <2>1
       DEF SFileStart, SenderTypeOK, BackoffOK, SenderPC, InSession, SenderSending
<1>8. CASE SChunk
  BY <1>8 DEF SChunk, SenderTypeOK, BackoffOK
<1>9. CASE SFileEnd
  BY <1>9 DEF SFileEnd, SenderTypeOK, BackoffOK, SenderPC, InSession, SenderReading
<1>10. CASE SFileAcked
  <2>1. SetStatus(sstat[sfile], "complete") \in Status
    BY SetStatusType, StatusNames DEF SenderTypeOK
  <2>2. sfile # N => sfile + 1 \in Files
    BY ConstantsAssumption DEF SenderTypeOK, Files
  <2>3. spc' \in {"fin", "file"} /\ sfile' \in Files
    BY <1>10, <2>2 DEF SFileAcked, SenderTypeOK
  <2> QED
    BY <1>10, <2>1, <2>3
       DEF SFileAcked, SenderTypeOK, BackoffOK, SenderPC, InSession, SenderReading, SenderSending
<1>11. CASE SFinished
  BY <1>11 DEF SFinished, SenderTypeOK, BackoffOK, SenderPC
<1>12. CASE SRetry
  <2>1. sstat' \in [Files -> Status] /\ spc' \in {"connect", "dead"}
    BY <1>12, SetOpenType DEF SRetry, Status
  <2>2. attempt' \in Conns
    BY <1>12, ConstantsAssumption DEF SRetry, SenderTypeOK, BackoffOK, Conns
  <2> QED
    BY <1>12, <2>1, <2>2 DEF SRetry, SenderTypeOK, BackoffOK, SenderPC
<1>13. CASE UserCancels
  BY <1>13 DEF UserCancels, SenderTypeOK, BackoffOK
<1>14. ASSUME NEW f \in Files, SourceChange(f)
       PROVE  SenderTypeOK' /\ BackoffOK'
  BY <1>14 DEF SourceChange, SenderTypeOK, BackoffOK
<1>15. CASE SenderStep
  BY <1>15, <1>1, <1>2, <1>4, <1>5, <1>6, <1>7, <1>8, <1>9, <1>10, <1>11, <1>12
     DEF SenderStep, SCancelIdle, SBreak, SCancelApproval, SRefused, SCancelStream,
         SSourceShort, SSourceGone, SFileRefused, Status
<1>16. CASE SenderFault
  BY <1>16, <1>1, <1>2
     DEF SenderFault, SConnectFails, SUntrusted, SIdleTimeout, SApprovalTimeout, Status
<1>17. ASSUME NEW c \in Conns, HandlerStep(c)
       PROVE  UNCHANGED senderVars
  BY <1>17, HandlerKeepsSender
<1>18. CASE Environment
  <2>1. \/ UNCHANGED senderVars \/ UserCancels \/ \E f \in Files : SourceChange(f)
    BY <1>18
       DEF Environment, UserAccepts, UserRejects, ReceiverCrash, LinkBreaks, HIdleTimeout
  <2> QED
    BY <2>1, <1>3, <1>13, <1>14
<1> QED
  BY <1>3, <1>15, <1>16, <1>17, <1>18 DEF Next, vars

-----------------------------------------------------------------------------
(* The connections *)

\* The frames the sender builds.
LEMMA MessagesToReceiver ==
  /\ {[type |-> "offer"], [type |-> "cancel"], [type |-> "query"], [type |-> "fin"]}
       \subseteq ToReceiver
  /\ \A f \in Files : /\ [type |-> "file_start", file |-> f] \in ToReceiver
                      /\ [type |-> "file_end", file |-> f] \in ToReceiver
  /\ \A f \in Files, i \in Nat : [type |-> "chunk", file |-> f,
     index |-> i] \in ToReceiver
  /\ \A i \in Nat, g \in BOOLEAN : [type |-> "data", index |-> i,
     good |-> g] \in ToReceiver
  BY DEF ToReceiver

\* The frames the handlers build.
LEMMA MessagesToSender ==
  /\ \A a \in {"accepted", "declined", "expired"} :
        [type |-> "response", answer |-> a] \in ToSender
  /\ \A o \in [Files -> Nat] : [type |-> "resume_state", offs |-> o] \in ToSender
  /\ \A f \in Files, k \in BOOLEAN :
        [type |-> "file_result", file |-> f, ok |-> k] \in ToSender
  /\ [type |-> "session_complete"] \in ToSender
  BY DEF ToSender

ToRType == toR \in [Conns -> Seq(ToReceiver)]
ToSType == toS \in [Conns -> Seq(ToSender)]

\* Queueing, taking and dropping frames keeps the queues in type.
LEMMA SentType ==
  ASSUME ToRType, attempt \in Conns, NEW m \in ToReceiver, Sent(m)
  PROVE  ToRType'
  BY DEF ToRType, Sent

LEMMA ReplyType ==
  ASSUME ToSType, NEW c \in Conns, NEW m \in ToSender, Reply(c, m)
  PROVE  ToSType'
  BY DEF ToSType, Reply

LEMMA HandlerTakesType ==
  ASSUME ToRType, NEW c \in Conns, toR[c] # <<>>, HandlerTakes(c)
  PROVE  ToRType'
  BY DEF ToRType, HandlerTakes

LEMMA SenderTakesType ==
  ASSUME ToSType, attempt \in Conns, toS[attempt] # <<>>, SenderTakes
  PROVE  ToSType'
  BY DEF ToSType, SenderTakes

LEMMA LeaveType ==
  ASSUME ToRType, NEW c \in Conns, Leave(c)
  PROVE  ToRType'
<1>1. <<>> \in Seq(ToReceiver)
  OBVIOUS
<1> QED
  BY <1>1 DEF ToRType, Leave

LEMMA HangupType ==
  ASSUME ToSType, Hangup
  PROVE  ToSType'
<1>1. <<>> \in Seq(ToSender)
  OBVIOUS
<1> QED
  BY <1>1 DEF ToSType, Hangup

\* What a breaking link still delivers is a sequence of frames.
LEMMA Prefixes ==
  ASSUME NEW S, NEW s \in Seq(S), NEW k \in 0..Len(s)
  PROVE  SubSeq(s, 1, k) \in Seq(S)
  OBVIOUS

\* Each step of the worker keeps the queue to the receiver in type,
LEMMA SenderToR ==
  ASSUME IInvT, SenderStep \/ SenderFault
  PROVE  ToRType'
<1> USE DEF IInvT, TypeOK
<1>1. ToRType /\ attempt \in Conns /\ sfile \in Files
  BY DEF NetTypeOK, SenderTypeOK, ToRType
<1>2. ASSUME NEW m \in ToReceiver, Sent(m)
      PROVE  ToRType'
  BY <1>1, <1>2, SentType
<1>3. CASE toR' = toR
  BY <1>1, <1>3 DEF ToRType
<1>4. CASE SConnect
  <2>1. <<[type |-> "offer"]>> \in Seq(ToReceiver)
    BY MessagesToReceiver
  <2> QED
    BY <1>4, <1>1, <2>1 DEF SConnect, ToRType
<1>5. CASE SCancelApproval \/ SAccepted \/ SFileStart \/ SCancelStream \/ SFileEnd
  <2>1. \E m \in ToReceiver : Sent(m)
    BY <1>5, <1>1, MessagesToReceiver
       DEF SCancelApproval, SAccepted, SFileStart, SCancelStream, SFileEnd
  <2> QED
    BY <2>1, <1>2
<1>6. CASE SFileAcked
  <2>1. [type |-> "fin"] \in ToReceiver
    BY MessagesToReceiver
  <2> QED
    BY <1>6, <1>2, <1>3, <2>1 DEF SFileAcked
<1>7. CASE SChunk
  <2> DEFINE chunk == [type |-> "chunk", file |-> sfile, index |-> sbytes[sfile]]
             data == [type |-> "data", index |-> sbytes[sfile],
                good |-> src[sfile] # "changed"]
  <2>1. sbytes[sfile] \in Nat
    BY <1>1 DEF SenderTypeOK
  <2>2. chunk \in ToReceiver /\ data \in ToReceiver
    BY <1>1, <2>1, MessagesToReceiver
  <2>3. toR[attempt] \o <<chunk, data>> \in Seq(ToReceiver)
    <3> HIDE DEF chunk, data
    <3> QED
      BY <1>1, <2>2 DEF ToRType
  <2> QED
    BY <1>7, <1>1, <2>3 DEF SChunk, ToRType
<1>8. CASE SCancelIdle \/ SBreak \/ SRefused \/ SResumeState \/ SSourceShort \/ SSourceGone
             \/ SFileRefused \/ SFinished \/ SRetry
  BY <1>8, <1>3
     DEF SCancelIdle, SBreak, SRefused, SResumeState, SSourceShort, SSourceGone,
                    SFileRefused, SFinished, SRetry, netVars
<1>9. CASE SenderFault
  BY <1>9, <1>3
     DEF SenderFault, SConnectFails, SUntrusted, SIdleTimeout, SApprovalTimeout
<1> QED
  BY <1>4, <1>5, <1>6, <1>7, <1>8, <1>9 DEF SenderStep

\* and the queue to itself;
LEMMA SenderToS ==
  ASSUME IInvT, SenderStep \/ SenderFault
  PROVE  ToSType' /\ broken' = broken
<1> USE DEF IInvT, TypeOK
<1>1. ToSType /\ attempt \in Conns
  BY DEF NetTypeOK, SenderTypeOK, ToSType
<1>2. CASE Hangup /\ broken' = broken
  BY <1>1, <1>2, HangupType
<1>3. CASE toS' = toS /\ broken' = broken
  BY <1>1, <1>3 DEF ToSType
<1>4. CASE SenderTakes /\ toS[attempt] # <<>> /\ broken' = broken
  BY <1>1, <1>4, SenderTakesType
<1>5. CASE SConnect \/ SFileStart \/ SChunk \/ SFileEnd \/ SRetry
  BY <1>5, <1>3 DEF SConnect, SFileStart, SChunk, SFileEnd, SRetry, netVars
<1>6. CASE SAccepted \/ SResumeState \/ SFileAcked
  BY <1>6, <1>4 DEF SAccepted, SResumeState, SFileAcked, NextForSender
<1>7. CASE Interrupt \/ SFinished \/ \E status \in Status : GiveUp(status)
  BY <1>7, <1>2 DEF Interrupt, GiveUp, SFinished
<1>8. CASE SCancelIdle \/ SBreak \/ SRefused \/ SSourceShort \/ SSourceGone \/ SFileRefused
             \/ SCancelApproval \/ SCancelStream
  BY <1>8, <1>7, StatusNames
     DEF SCancelIdle, SBreak, SRefused, SSourceShort, SSourceGone, SFileRefused,
     SCancelApproval, SCancelStream
<1>9. CASE SenderFault
  BY <1>9, <1>7, StatusNames
     DEF SenderFault, SConnectFails, SUntrusted, SIdleTimeout, SApprovalTimeout
<1> QED
  BY <1>5, <1>6, <1>7, <1>8, <1>9 DEF SenderStep

\* so does each step of a handler,
LEMMA HandlerToR ==
  ASSUME IInvT, NEW c \in Conns, HandlerStep(c)
  PROVE  ToRType'
<1>1. ToRType
  BY DEF IInvT, TypeOK, NetTypeOK, ToRType
<1>2. CASE Leave(c)
  BY <1>1, <1>2, LeaveType
<1>3. CASE HandlerTakes(c) /\ toR[c] # <<>>
  BY <1>1, <1>3, HandlerTakesType
<1>4. CASE toR' = toR
  BY <1>1, <1>4 DEF ToRType
<1>5. CASE HOffer(c) \/ HPeerCancels(c) \/ HPrepare(c) \/ HChunkControl(c) \/ HChunkData(c)
             \/ HFileEnd(c) \/ HFin(c)
  BY <1>5, <1>3 DEF HOffer, HPeerCancels, HPrepare, HChunkControl, HChunkData, HFileEnd,
                    HFin, NextForHandler
<1>6. CASE HFileStart(c)
  BY <1>6, <1>2, <1>3 DEF HFileStart, NextForHandler
<1>7. CASE HBusy(c) \/ HConflict(c) \/ HLost(c) \/ HPeerGone(c) \/ HUnexpected(c)
             \/ HCancelled(c) \/ HBadFrame(c) \/ HInterrupted(c) \/ HPartialMissing(c)
             \/ HVerifyLost(c) \/ HCompleteLost(c) \/ HCleanup(c)
  BY <1>7, <1>2
     DEF HBusy, HConflict, HLost, HPeerGone, HUnexpected, HCancelled, HBadFrame,
                    HInterrupted, HPartialMissing, HVerifyLost, HCompleteLost,
                       HCleanup, LeaveWith
<1>8. CASE HExpire(c) \/ HOpen(c) \/ HLink(c) \/ HUnlink(c)
  BY <1>8, <1>4 DEF HExpire, HOpen, HLink, HUnlink, netVars
<1>9. CASE HDecided(c) \/ HVerify(c) \/ HMark(c) \/ HComplete(c)
  BY <1>9, <1>2, <1>4 DEF HDecided, HVerify, HMark, HComplete, LeaveWith
<1> QED
  BY <1>5, <1>6, <1>7, <1>8, <1>9 DEF HandlerStep

\* whose answers are all frames of the protocol.
LEMMA HandlerToS ==
  ASSUME IInvT, NEW c \in Conns, HandlerStep(c)
  PROVE  ToSType' /\ broken' = broken
<1>1. ToSType
  BY DEF IInvT, TypeOK, NetTypeOK, ToSType
<1>2. CASE toS' = toS /\ broken' = broken
  BY <1>1, <1>2 DEF ToSType
<1>3. ASSUME NEW m \in ToSender, Reply(c, m)
      PROVE  ToSType'
  BY <1>1, <1>3, ReplyType
<1>4. hfile[c] \in Files
  BY DEF IInvT, TypeOK, HandlerTypeOK
<1>5. CASE HPrepare(c)
  <2>1. Size \in [Files -> Nat] /\ content \in [Conns -> [Files -> Seq(BOOLEAN)]]
           /\ partial \in [Files -> Conns \cup {NoConn}]
    BY ConstantsAssumption DEF IInvT, TypeOK, DiskTypeOK
  <2>2. \A f \in Files : ResumeOffset(f) \in Nat
    BY <2>1 DEF ResumeOffset, Resumable
  <2>3. [type |-> "resume_state",
     offs |-> [f \in Files |-> ResumeOffset(f)]] \in ToSender
    BY <2>2, MessagesToSender
  <2> QED
    BY <1>5, <2>3, <1>3 DEF HPrepare
<1>6. CASE HBusy(c) \/ HDecided(c)
  <2>1. AnswerTo(inbox) \in {"accepted", "declined", "expired"}
    BY DEF AnswerTo
  <2>2. [type |-> "response", answer |-> AnswerTo(inbox)] \in ToSender
    BY <2>1, MessagesToSender
  <2>3. [type |-> "response", answer |-> "declined"] \in ToSender
    BY MessagesToSender
  <2> QED
    BY <1>6, <2>2, <2>3, <1>3 DEF HBusy, HDecided
<1>7. CASE HVerify(c) \/ HComplete(c)
  <2>1. [type |-> "file_result", file |-> hfile[c], ok |-> FALSE] \in ToSender
    BY <1>4, MessagesToSender
  <2>2. [type |-> "file_result", file |-> hfile[c], ok |-> TRUE] \in ToSender
    BY <1>4, MessagesToSender
  <2> QED
    BY <1>7, <2>1, <2>2, <1>2, <1>3 DEF HVerify, HComplete
<1>8. CASE HFin(c)
  BY <1>8, <1>3, MessagesToSender DEF HFin
<1>9. CASE toS' # toS
  <2>1. HBusy(c) \/ HDecided(c) \/ HPrepare(c) \/ HVerify(c) \/ HComplete(c) \/ HFin(c)
    BY <1>9 DEF HandlerStep, HOffer, HConflict, HLost, HPeerCancels, HPeerGone, HExpire,
       HFileStart, HUnexpected, HOpen, HChunkControl, HChunkData, HCancelled, HBadFrame,
       HInterrupted, HFileEnd, HPartialMissing, HVerifyLost, HLink, HUnlink, HMark,
       HCompleteLost, HCleanup, netVars
  <2>2. broken' = broken
    BY <2>1 DEF HBusy, HDecided, HPrepare, HVerify, HComplete, HFin
  <2> QED
    BY <2>1, <2>2, <1>5, <1>6, <1>7, <1>8
<1>10. broken' = broken
  BY DEF HandlerStep, HOffer, HBusy, HConflict, HLost, HPeerCancels, HPeerGone, HExpire,
     HDecided, HPrepare, HFileStart, HUnexpected, HOpen, HChunkControl, HChunkData,
     HCancelled, HBadFrame, HInterrupted, HFileEnd, HPartialMissing, HVerify,
        HVerifyLost,
     HLink, HUnlink, HMark, HComplete, HCompleteLost, HFin, HCleanup, netVars
<1> QED
  BY <1>2, <1>9, <1>10

\* The connections stay in type.
LEMMA NetTypeStep ==
  ASSUME IInvT, [Next]_vars
  PROVE  NetTypeOK'
<1>1. ToRType /\ ToSType /\ broken \in SUBSET Conns
  BY DEF IInvT, TypeOK, NetTypeOK, ToRType, ToSType
<1>2. CASE ToRType' /\ ToSType' /\ broken' \in SUBSET Conns
  BY <1>2 DEF NetTypeOK, ToRType, ToSType
<1>3. CASE SenderStep \/ SenderFault
  BY <1>1, <1>2, <1>3, SenderToR, SenderToS
<1>4. ASSUME NEW c \in Conns, HandlerStep(c)
      PROVE  NetTypeOK'
  BY <1>1, <1>2, <1>4, HandlerToR, HandlerToS
<1>5. CASE UNCHANGED netVars
  BY <1>1, <1>2, <1>5 DEF netVars, ToRType, ToSType
<1>6. CASE ReceiverCrash
  <2>1. <<>> \in Seq(ToReceiver)
    OBVIOUS
  <2>2. toR' \in [Conns -> Seq(ToReceiver)]
    BY <1>6, <2>1 DEF ReceiverCrash
  <2> QED
    BY <1>6, <1>1, <1>2, <2>2 DEF ReceiverCrash, ToRType, ToSType
<1>7. ASSUME NEW c \in Conns, LinkBreaks(c)
      PROVE  NetTypeOK'
  <2>1. \A k \in 0..Len(toR[c]) : SubSeq(toR[c], 1, k) \in Seq(ToReceiver)
    BY <1>1, Prefixes DEF ToRType
  <2>2. \A k \in 0..Len(toS[c]) : SubSeq(toS[c], 1, k) \in Seq(ToSender)
    BY <1>1, Prefixes DEF ToSType
  <2>3. ToRType' /\ ToSType'
    BY <1>1, <1>7, <2>1, <2>2 DEF LinkBreaks, ToRType, ToSType
  <2>4. broken' \in SUBSET Conns
    BY <1>1, <1>7 DEF LinkBreaks
  <2> QED
    BY <1>2, <2>3, <2>4
<1>8. ASSUME NEW c \in Conns, HIdleTimeout(c)
      PROVE  NetTypeOK'
  <2>1. Leave(c) /\ UNCHANGED <<toS, broken>>
    BY <1>8 DEF HIdleTimeout, LeaveWith
  <2> QED
    BY <1>1, <1>2, <2>1, LeaveType DEF ToSType
<1>9. CASE Environment
  BY <1>9, <1>5, <1>6, <1>7, <1>8
     DEF Environment, UserAccepts, UserRejects, UserCancels, SourceChange
<1> QED
  BY <1>3, <1>4, <1>5, <1>9 DEF Next, vars

-----------------------------------------------------------------------------
(* The handlers *)

HpcType == hpc \in [Conns -> HandlerPC]

\* The places a handler can be in.
LEMMA PlacesOfHandler ==
  {"offer", "await", "query", "start", "data", "body", "end", "fin", "open", "verify",
   "link", "unlink", "mark", "complete", "cleanup", "idle",
      "closed"} \subseteq HandlerPC
  BY DEF HandlerPC, HandlerReading, HandlerLocal, Ended

LEMMA GotoType ==
  ASSUME HpcType, NEW c \in Conns, NEW pc \in HandlerPC, Goto(c, pc)
  PROVE  HpcType'
  BY DEF HpcType, Goto

LEMMA LeaveHpc ==
  ASSUME HpcType, NEW c \in Conns, Leave(c)
  PROVE  HpcType'
  BY PlacesOfHandler DEF HpcType, Leave

\* A step takes a handler from place to place.
LEMMA HandlerHpc ==
  ASSUME IInvT, NEW c \in Conns, HandlerStep(c)
  PROVE  HpcType'
<1>1. HpcType
  BY DEF IInvT, TypeOK, HandlerTypeOK, HpcType
<1>2. CASE Leave(c)
  BY <1>1, <1>2, LeaveHpc
<1>3. ASSUME NEW pc \in HandlerPC, Goto(c, pc)
      PROVE  HpcType'
  BY <1>1, <1>3, GotoType
<1>4. CASE hpc' = hpc
  BY <1>1, <1>4 DEF HpcType
<1>5. \A f, k : AfterChunk(f, k) \in HandlerPC
  BY PlacesOfHandler DEF AfterChunk
<1>6. AfterFileEnd(c) \in HandlerPC
  BY PlacesOfHandler DEF AfterFileEnd
<1>7. CASE NextFile(c)
  BY <1>7, <1>3, PlacesOfHandler DEF NextFile
<1>8. CASE HOffer(c) \/ HPrepare(c) \/ HChunkControl(c) \/ HLink(c) \/ HUnlink(c) \/ HFin(c)
  BY <1>8, <1>3, PlacesOfHandler
     DEF HOffer, HPrepare, HChunkControl, HLink, HUnlink, HFin
<1>9. CASE HOpen(c) \/ HChunkData(c) \/ HFileEnd(c)
  BY <1>9, <1>3, <1>5, <1>6 DEF HOpen, HChunkData, HFileEnd
<1>10. CASE HDecided(c) \/ HFileStart(c) \/ HVerify(c) \/ HMark(c) \/ HComplete(c)
  BY <1>10, <1>2, <1>3, <1>7, PlacesOfHandler
     DEF HDecided, HFileStart, HVerify, HMark, HComplete, LeaveWith
<1>11. CASE HBusy(c) \/ HConflict(c) \/ HLost(c) \/ HPeerGone(c) \/ HUnexpected(c)
             \/ HCancelled(c) \/ HBadFrame(c) \/ HInterrupted(c) \/ HPartialMissing(c)
             \/ HVerifyLost(c) \/ HCompleteLost(c) \/ HCleanup(c)
  BY <1>11, <1>2
     DEF HBusy, HConflict, HLost, HPeerGone, HUnexpected, HCancelled, HBadFrame,
                    HInterrupted, HPartialMissing, HVerifyLost, HCompleteLost,
                       HCleanup, LeaveWith
<1>12. CASE HPeerCancels(c) \/ HExpire(c)
  BY <1>12, <1>4 DEF HPeerCancels, HExpire, handlerVars
<1> QED
  BY <1>8, <1>9, <1>10, <1>11, <1>12 DEF HandlerStep

HfileType == hfile \in [Conns -> Files]
HstateType == hstate \in [Conns -> [Files -> [off : Nat, final : BOOLEAN]]]
HposType == hpos \in [Conns -> Nat]
HinoType == hino \in [Conns -> Conns]

\* What prepare returns for a file.
LEMMA ResumeOffsetType ==
  ASSUME IInvT
  PROVE  \A f \in Files : ResumeOffset(f) \in Nat /\ FinalStands(f) \in BOOLEAN
<1>1. /\ Size \in [Files -> Nat] /\ content \in [Conns -> [Files -> Seq(BOOLEAN)]]
      /\ partial \in [Files -> Conns \cup {NoConn}] /\ metadata \in BOOLEAN
  BY ConstantsAssumption DEF IInvT, TypeOK, DiskTypeOK
<1>2. \A f \in Files : ResumeOffset(f) \in Nat
  BY <1>1 DEF ResumeOffset, Resumable
<1>3. \A f \in Files : FinalStands(f) \in BOOLEAN
  BY <1>1 DEF FinalStands
<1> QED
  BY <1>2, <1>3

\* The other variables of a handler stay in type.
LEMMA HandlerRest ==
  ASSUME IInvT, NEW c \in Conns, HandlerStep(c)
  PROVE  HfileType' /\ HstateType' /\ HposType' /\ HinoType'
<1>1. HfileType /\ HstateType /\ HposType /\ HinoType
  BY DEF IInvT, TypeOK, HandlerTypeOK, HfileType, HstateType, HposType, HinoType
<1>2. CASE UNCHANGED <<hfile, hstate, hpos, hino>>
  BY <1>1, <1>2 DEF HfileType, HstateType, HposType, HinoType
<1>3. CASE HPrepare(c)
  <2>1. 1 \in Files
    BY ConstantsAssumption DEF Files
  <2>2. [f \in Files |-> [off |-> ResumeOffset(f), final |-> FinalStands(f)]]
           \in [Files -> [off : Nat, final : BOOLEAN]]
    BY ResumeOffsetType
  <2> QED
    BY <1>1, <1>3, <2>1, <2>2 DEF HPrepare, HfileType, HstateType, HposType, HinoType
<1>4. CASE HOpen(c)
  <2>1. partial[hfile[c]] # NoConn => partial[hfile[c]] \in Conns
    BY <1>1 DEF IInvT, TypeOK, DiskTypeOK, HfileType
  <2>2. rbytes[hfile[c]] \in Nat
    BY <1>1 DEF IInvT, TypeOK, SharedTypeOK, HfileType
  <2> QED
    BY <1>1, <1>4, <2>1, <2>2 DEF HOpen, HfileType, HstateType, HposType, HinoType
<1>5. CASE HChunkData(c)
  BY <1>1, <1>5 DEF HChunkData, HfileType, HstateType, HposType, HinoType
<1>6. CASE HComplete(c)
  <2>1. hfile[c] # N => hfile[c] + 1 \in Files
    BY <1>1, ConstantsAssumption DEF HfileType, Files
  <2>2. HfileType'
    BY <1>1, <1>6, <2>1 DEF HComplete, NextFile, HfileType
  <2> QED
    BY <1>1, <1>6, <2>2 DEF HComplete, HstateType, HposType, HinoType
<1>7. CASE ~(HPrepare(c) \/ HOpen(c) \/ HChunkData(c) \/ HComplete(c))
  BY <1>2, <1>7
     DEF HandlerStep, HOffer, HBusy, HConflict, HLost, HPeerCancels, HPeerGone,
     HExpire, HDecided, HFileStart, HUnexpected, HChunkControl, HCancelled, HBadFrame,
     HInterrupted, HFileEnd, HPartialMissing, HVerify, HVerifyLost, HLink, HUnlink,
        HMark,
     HCompleteLost, HFin, HCleanup, handlerVars
<1> QED
  BY <1>3, <1>4, <1>5, <1>6, <1>7

\* The handlers' variables stay in type.
LEMMA HandlerTypeStep ==
  ASSUME IInvT, [Next]_vars
  PROVE  HandlerTypeOK'
<1>1. HpcType /\ HfileType /\ HstateType /\ HposType /\ HinoType
  BY DEF IInvT, TypeOK, HandlerTypeOK, HpcType, HfileType, HstateType, HposType,
     HinoType
<1>2. CASE HpcType' /\ HfileType' /\ HstateType' /\ HposType' /\ HinoType'
  BY <1>2 DEF HandlerTypeOK, HpcType, HfileType, HstateType, HposType, HinoType
<1>3. CASE UNCHANGED <<hfile, hstate, hpos, hino>> /\ HpcType'
  BY <1>1, <1>2, <1>3 DEF HfileType, HstateType, HposType, HinoType
<1>4. CASE UNCHANGED handlerVars
  BY <1>1, <1>3, <1>4 DEF handlerVars, HpcType
<1>5. ASSUME NEW c \in Conns, HandlerStep(c)
      PROVE  HandlerTypeOK'
  BY <1>2, <1>5, HandlerHpc, HandlerRest
<1>6. CASE SConnect
  <2>1. HpcType'
    BY <1>1, <1>6, PlacesOfHandler DEF SConnect, HpcType
  <2> QED
    BY <1>3, <1>6, <2>1 DEF SConnect
<1>7. CASE ReceiverCrash
  <2>1. HpcType'
    BY <1>1, <1>7, PlacesOfHandler DEF ReceiverCrash, HpcType
  <2> QED
    BY <1>3, <1>7, <2>1 DEF ReceiverCrash
<1>8. ASSUME NEW c \in Conns, HIdleTimeout(c)
      PROVE  HandlerTypeOK'
  <2>1. HpcType'
    BY <1>1, <1>8, LeaveHpc DEF HIdleTimeout, LeaveWith
  <2> QED
    BY <1>3, <1>8, <2>1 DEF HIdleTimeout
<1>9. CASE SenderStep \/ SenderFault
  BY <1>4, <1>6, <1>9, SenderFrame
<1>10. CASE Environment
  BY <1>4, <1>7, <1>8, <1>10 DEF Environment, UserAccepts, UserRejects, UserCancels,
     SourceChange, LinkBreaks
<1> QED
  BY <1>4, <1>5, <1>9, <1>10 DEF Next, vars

-----------------------------------------------------------------------------
(* Shared state, disk and bounds *)

InboxType == inbox \in InboxStatus
RstatType == rstat \in [Files -> Status \cup {None}]
RbytesType == rbytes \in [Files -> Nat]

\* A handler that leaves with a status, and one that reopens a TransferInfo,
\* keep the statuses in type.
LEMMA LeaveWithType ==
  ASSUME RstatType, NEW c \in Conns, hfile[c] \in Files, NEW status \in Status,
         LeaveWith(c, status)
  PROVE  RstatType'
<1>1. SetStatus(rstat[hfile[c]], status) \in Status \cup {None}
  BY SetStatusType DEF RstatType
<1> QED
  BY <1>1 DEF LeaveWith, RstatType

LEMMA ReopenedType ==
  ASSUME NEW status \in Status \cup {None}, NEW offset
  PROVE  Reopened(status, offset) \in Status
<1>1. CASE status = None \/ status \in Terminal
  BY <1>1, StatusNames DEF Reopened, Terminal, Status, None
<1>2. CASE status # None /\ status \notin Terminal
  BY <1>2, SetStatusType, StatusNames DEF Reopened
<1> QED
  BY <1>1, <1>2

\* Inbox entry, statuses and byte counts after a step of a handler.
LEMMA HandlerShared ==
  ASSUME IInvT, NEW c \in Conns, HandlerStep(c)
  PROVE  InboxType' /\ RstatType' /\ RbytesType'
<1>1. InboxType /\ RstatType /\ RbytesType /\ hfile[c] \in Files
  BY DEF IInvT, TypeOK, HandlerTypeOK, SharedTypeOK, InboxType, RstatType, RbytesType
<1>2. InboxType'
  <2>1. ASSUME NEW status \in InboxStatus, Decide(status)
        PROVE  InboxType'
    BY <1>1, <2>1 DEF Decide, InboxType
  <2>2. CASE inbox' = inbox
    BY <1>1, <2>2 DEF InboxType
  <2>3. CASE HOffer(c)
    BY <1>1, <2>3 DEF HOffer, Publish, InboxType, InboxStatus
  <2>4. CASE HPeerCancels(c) \/ HPeerGone(c) \/ HExpire(c)
    BY <2>1, <2>4 DEF HPeerCancels, HPeerGone, HExpire, InboxStatus
  <2>5. CASE ~(HOffer(c) \/ HPeerCancels(c) \/ HPeerGone(c) \/ HExpire(c))
    BY <2>2, <2>5
       DEF HandlerStep, HBusy, HConflict, HLost, HDecided, HPrepare, HFileStart,
       HUnexpected, HOpen, HChunkControl, HChunkData, HCancelled, HBadFrame,
          HInterrupted,
       HFileEnd, HPartialMissing, HVerify, HVerifyLost, HLink, HUnlink, HMark,
          HComplete,
       HCompleteLost, HFin, HCleanup, sharedVars
  <2> QED
    BY <2>3, <2>4, <2>5
<1>3. RstatType'
  <2>1. ASSUME NEW status \in Status, LeaveWith(c, status)
        PROVE  RstatType'
    BY <1>1, <2>1, LeaveWithType
  <2>2. CASE rstat' = rstat
    BY <1>1, <2>2 DEF RstatType
  <2>3. CASE HFileStart(c)
    <3> DEFINE reopened == Reopened(rstat[hfile[c]], hstate[c][hfile[c]].off)
    <3>1. reopened \in Status
      BY <1>1, ReopenedType DEF RstatType
    <3>2. SetStatus(reopened, "failed") \in Status /\ "active" \in Status
      BY <3>1, SetStatusType, StatusNames
    <3>3. \E s \in Status : rstat' = [rstat EXCEPT ![hfile[c]] = s]
      BY <2>3, <3>1, <3>2 DEF HFileStart
    <3> QED
      BY <1>1, <3>3 DEF RstatType
  <2>4. CASE HCancelled(c) \/ HBadFrame(c) \/ HInterrupted(c) \/ HPartialMissing(c)
               \/ HVerifyLost(c)
    BY <2>1, <2>4, StatusNames
       DEF HCancelled, HBadFrame, HInterrupted, HPartialMissing, HVerifyLost
  <2>5. CASE HVerify(c) \/ HMark(c)
    BY <2>1, <2>2, <2>5, StatusNames DEF HVerify, HMark
  <2>6. CASE HComplete(c) \/ HCompleteLost(c)
    <3>1. CASE rstat' = [rstat EXCEPT ![hfile[c]] = "complete"]
      BY <1>1, <3>1, StatusNames DEF RstatType
    <3> QED
      BY <2>1, <2>6, <3>1, StatusNames DEF HComplete, HCompleteLost
  <2>7. CASE ~(HFileStart(c) \/ HCancelled(c) \/ HBadFrame(c) \/ HInterrupted(c)
               \/ HPartialMissing(c) \/ HVerifyLost(c) \/ HVerify(c) \/ HMark(c)
               \/ HComplete(c) \/ HCompleteLost(c))
    BY <2>2, <2>7
       DEF HandlerStep, HOffer, HBusy, HConflict, HLost, HPeerCancels, HPeerGone,
       HExpire, HDecided, HPrepare, HUnexpected, HOpen, HChunkControl, HChunkData,
          HFileEnd,
       HLink, HUnlink, HFin, HCleanup, sharedVars
  <2> QED
    BY <2>3, <2>4, <2>5, <2>6, <2>7
<1>4. RbytesType'
  <2>1. CASE rbytes' = rbytes
    BY <1>1, <2>1 DEF RbytesType
  <2>2. CASE HFileStart(c)
    <3>1. hstate[c][hfile[c]].off \in Nat
      BY <1>1 DEF IInvT, TypeOK, HandlerTypeOK
    <3> QED
      BY <1>1, <2>2, <3>1 DEF HFileStart, RbytesType
  <2>3. CASE HChunkData(c)
    BY <1>1, <2>3 DEF HChunkData, RbytesType
  <2>4. CASE HComplete(c) \/ HCompleteLost(c)
    BY <1>1, <2>4, ConstantsAssumption DEF HComplete, HCompleteLost, RbytesType
  <2>5. CASE ~(HFileStart(c) \/ HChunkData(c) \/ HComplete(c) \/ HCompleteLost(c))
    BY <2>1, <2>5
       DEF HandlerStep, HOffer, HBusy, HConflict, HLost, HPeerCancels, HPeerGone,
       HExpire, HDecided, HPrepare, HUnexpected, HOpen, HChunkControl, HCancelled,
          HBadFrame,
       HInterrupted, HFileEnd, HPartialMissing, HVerify, HVerifyLost, HLink, HUnlink,
          HMark,
       HFin, HCleanup, sharedVars
  <2> QED
    BY <2>2, <2>3, <2>4, <2>5
<1> QED
  BY <1>2, <1>3, <1>4

\* What the handlers share stays in type.
LEMMA SharedTypeStep ==
  ASSUME IInvT, [Next]_vars
  PROVE  SharedTypeOK'
<1>1. InboxType /\ RstatType /\ RbytesType /\ \A c \in Conns : hfile[c] \in Files
  BY DEF IInvT, TypeOK, HandlerTypeOK, SharedTypeOK, InboxType, RstatType, RbytesType
<1>2. CASE InboxType' /\ RstatType' /\ RbytesType'
  BY <1>2 DEF SharedTypeOK, InboxType, RstatType, RbytesType
<1>3. CASE UNCHANGED sharedVars
  BY <1>1, <1>2, <1>3 DEF sharedVars, InboxType, RstatType, RbytesType
<1>4. ASSUME NEW c \in Conns, HandlerStep(c)
      PROVE  SharedTypeOK'
  BY <1>2, <1>4, HandlerShared
<1>5. CASE UserAccepts \/ UserRejects
  BY <1>1, <1>2, <1>5
     DEF UserAccepts, UserRejects, Decide, InboxType, InboxStatus, RstatType, RbytesType
<1>6. CASE ReceiverCrash
  BY <1>2, <1>6 DEF ReceiverCrash, InboxType, InboxStatus, RstatType, RbytesType
<1>7. ASSUME NEW c \in Conns, HIdleTimeout(c)
      PROVE  SharedTypeOK'
  <2>1. RstatType'
    BY <1>1, <1>7, LeaveWithType, StatusNames DEF HIdleTimeout, RstatType
  <2> QED
    BY <1>1, <1>2, <1>7, <2>1 DEF HIdleTimeout, InboxType, RbytesType
<1>8. CASE SenderStep \/ SenderFault
  BY <1>3, <1>8, SenderFrame
<1>9. CASE Environment
  BY <1>3, <1>5, <1>6, <1>7, <1>9 DEF Environment, UserCancels, SourceChange, LinkBreaks
<1> QED
  BY <1>3, <1>4, <1>8, <1>9 DEF Next, vars

PartialType == partial \in [Files -> Conns \cup {NoConn}]
ContentType == content \in [Conns -> [Files -> Seq(BOOLEAN)]]
FinalType == metadata \in BOOLEAN /\ finalBy \in [Files -> Conns \cup {NoConn}]
CommittedType == committed \in SUBSET CommitRecord

\* Writing a chunk anywhere in a file gives a file.
LEMMA WrittenType ==
  ASSUME NEW old \in Seq(BOOLEAN), NEW pos \in Nat, NEW m
  PROVE  Written(old, pos, m) \in Seq(BOOLEAN)
<1> DEFINE len == IF pos < Len(old) THEN Len(old) ELSE pos + 1
<1>1. len \in Nat
  OBVIOUS
<1>2. \A i \in 1..len :
        (IF i = pos + 1 THEN m.good /\ m.index = pos ELSE i <= Len(old) /\ old[i]) \in BOOLEAN
  OBVIOUS
<1> HIDE DEF len
<1>3. [i \in 1..len |-> IF i = pos + 1 THEN m.good /\ m.index = pos
                        ELSE i <= Len(old) /\ old[i]] \in Seq(BOOLEAN)
  BY <1>1, <1>2
<1> QED
  BY <1>3 DEF Written, len

\* Files and metadata after a step of a handler.
LEMMA HandlerDisk ==
  ASSUME IInvT, NEW c \in Conns, HandlerStep(c)
  PROVE  PartialType' /\ ContentType' /\ FinalType' /\ CommittedType'
<1>1. /\ PartialType /\ ContentType /\ FinalType /\ CommittedType
      /\ hfile[c] \in Files /\ hpos[c] \in Nat /\ hino[c] \in Conns
  BY DEF IInvT, TypeOK, HandlerTypeOK, DiskTypeOK, PartialType, ContentType,
     FinalType, CommittedType
<1>2. CASE UNCHANGED diskVars
  BY <1>1, <1>2 DEF diskVars, PartialType, ContentType, FinalType, CommittedType
<1>3. CASE HPrepare(c) \/ HUnlink(c) \/ HCleanup(c)
  BY <1>1, <1>3
     DEF HPrepare, HUnlink, HCleanup, PartialType, ContentType, FinalType, CommittedType
<1>4. CASE HOpen(c)
  <2>1. <<>> \in Seq(BOOLEAN)
    OBVIOUS
  <2>2. PartialType'
    BY <1>1, <1>4 DEF HOpen, PartialType
  <2>3. ContentType'
    <3>1. CASE content' = content
      BY <1>1, <3>1 DEF ContentType
    <3>2. CASE content' = [content EXCEPT ![c][hfile[c]] = <<>>]
      BY <1>1, <2>1, <3>2 DEF ContentType
    <3> QED
      BY <1>4, <3>1, <3>2 DEF HOpen
  <2> QED
    BY <1>1, <1>4, <2>2, <2>3 DEF HOpen, FinalType, CommittedType
<1>5. CASE HChunkData(c)
  <2>1. Written(content[hino[c]][hfile[c]], hpos[c], Head(toR[c])) \in Seq(BOOLEAN)
    BY <1>1, WrittenType DEF ContentType
  <2> QED
    BY <1>1, <1>5, <2>1
       DEF HChunkData, PartialType, ContentType, FinalType, CommittedType
<1>6. CASE HLink(c)
  <2>1. [file |-> hfile[c], by |-> c, ino |-> partial[hfile[c]]] \in CommitRecord
    BY <1>1, <1>6 DEF HLink, CommitRecord, PartialType
  <2> QED
    BY <1>1, <1>6, <2>1 DEF HLink, PartialType, ContentType, FinalType, CommittedType
<1>7. CASE HMark(c)
  BY <1>1, <1>7 DEF HMark, PartialType, ContentType, FinalType, CommittedType
<1>8. CASE ~(HPrepare(c) \/ HUnlink(c) \/ HCleanup(c) \/ HOpen(c) \/ HChunkData(c) \/ HLink(c) \/ HMark(c))
  BY <1>2, <1>8
     DEF HandlerStep, HOffer, HBusy, HConflict, HLost, HPeerCancels, HPeerGone,
     HExpire, HDecided, HFileStart, HUnexpected, HChunkControl, HCancelled, HBadFrame,
     HInterrupted, HFileEnd, HPartialMissing, HVerify, HVerifyLost, HComplete,
     HCompleteLost, HFin
<1> QED
  BY <1>3, <1>4, <1>5, <1>6, <1>7, <1>8

\* The disk stays in type.
LEMMA DiskTypeStep ==
  ASSUME IInvT, [Next]_vars
  PROVE  DiskTypeOK'
<1>1. /\ PartialType /\ ContentType /\ FinalType /\ CommittedType
      /\ \A c \in Conns : hfile[c] \in Files /\ hino[c] \in Conns
  BY DEF IInvT, TypeOK, HandlerTypeOK, DiskTypeOK, PartialType, ContentType,
     FinalType, CommittedType
<1>2. CASE PartialType' /\ ContentType' /\ FinalType' /\ CommittedType'
  BY <1>2 DEF DiskTypeOK, PartialType, ContentType, FinalType, CommittedType
<1>3. CASE UNCHANGED diskVars
  BY <1>1, <1>2, <1>3 DEF diskVars, PartialType, ContentType, FinalType, CommittedType
<1>4. ASSUME NEW c \in Conns, HandlerStep(c)
      PROVE  DiskTypeOK'
  BY <1>2, <1>4, HandlerDisk
<1>5. CASE ReceiverCrash
  <2>1. CASE content' = content
    BY <1>1, <1>2, <1>5, <2>1
       DEF ReceiverCrash, PartialType, ContentType, FinalType, CommittedType
  <2>2. ASSUME NEW c \in Conns, NEW old, old = content[hino[c]][hfile[c]], Len(old) > 0,
               content' = [content EXCEPT ![hino[c]][hfile[c]] = SubSeq(old, 1,
                  Len(old) - 1)]
        PROVE  DiskTypeOK'
    <3>1. old \in Seq(BOOLEAN)
      BY <1>1, <2>2 DEF ContentType
    <3>2. SubSeq(old, 1, Len(old) - 1) \in Seq(BOOLEAN)
      BY <2>2, <3>1, Prefixes
    <3>3. ContentType'
      BY <1>1, <2>2, <3>2 DEF ContentType
    <3> QED
      BY <1>1, <1>2, <1>5, <3>3 DEF ReceiverCrash, PartialType, FinalType, CommittedType
  <2> QED
    BY <1>5, <2>1, <2>2 DEF ReceiverCrash
<1>6. CASE SenderStep \/ SenderFault
  BY <1>3, <1>6, SenderFrame
<1>7. CASE Environment
  BY <1>3, <1>5, <1>7
     DEF Environment, UserAccepts, UserRejects, UserCancels, SourceChange,
     LinkBreaks, HIdleTimeout
<1> QED
  BY <1>3, <1>4, <1>6, <1>7 DEF Next, vars

\* The bounds are kept.
LEMMA BoundsTypeStep ==
  ASSUME IInvT, [Next]_vars
  PROVE  BoundsTypeOK'
<1>1. faults \in 0..MaxFaults /\ crashes \in 0..MaxCrashes
  BY DEF IInvT, TypeOK, BoundsTypeOK
<1>2. \/ UNCHANGED boundVars
      \/ faults < MaxFaults /\ faults' = faults + 1 /\ crashes' = crashes
      \/ crashes < MaxCrashes /\ crashes' = crashes + 1 /\ faults' = faults
  <2>1. CASE SenderStep
    BY <2>1 DEF SenderStep, SCancelIdle, SConnect, SBreak, SCancelApproval,
       SRefused, SAccepted, SResumeState, SFileStart, SChunk, SCancelStream,
          SSourceShort,
       SSourceGone, SFileEnd, SFileAcked, SFileRefused, SFinished, SRetry, GiveUp,
          Interrupt, boundVars
  <2>2. CASE SenderFault
    BY <2>2 DEF SenderFault, SConnectFails,
       SUntrusted, SIdleTimeout, SApprovalTimeout, GiveUp, Interrupt, boundVars
  <2>3. ASSUME NEW c \in Conns, HandlerStep(c)
        PROVE  UNCHANGED boundVars
    BY <2>3 DEF HandlerStep, HOffer, HBusy, HConflict, HLost, HPeerCancels, HPeerGone,
     HExpire, HDecided, HPrepare, HFileStart, HUnexpected, HOpen, HChunkControl,
        HChunkData,
     HCancelled, HBadFrame, HInterrupted, HFileEnd, HPartialMissing, HVerify,
        HVerifyLost,
     HLink, HUnlink, HMark, HComplete, HCompleteLost, HFin, HCleanup, boundVars
  <2>4. CASE Environment
    BY <2>4 DEF Environment, UserAccepts, UserRejects, UserCancels, SourceChange,
       LinkBreaks, HIdleTimeout, ReceiverCrash, boundVars
  <2> QED
    BY <2>1, <2>2, <2>3, <2>4 DEF Next, vars
<1> QED
  BY <1>1, <1>2, ConstantsAssumption DEF BoundsTypeOK, boundVars

\* The first state is in type,
LEMMA TypeInit == Init => IInvT
<1> SUFFICES ASSUME Init PROVE IInvT
  OBVIOUS
<1>1. 1 \in Files /\ 0 \in Conns
  BY ConstantsAssumption DEF Files, Conns
<1>2. SenderTypeOK /\ BackoffOK
  BY <1>1, StatusNames DEF Init, SenderTypeOK, BackoffOK, SenderPC
<1>3. NetTypeOK
  <2>1. <<>> \in Seq(ToReceiver) /\ <<>> \in Seq(ToSender)
    OBVIOUS
  <2> QED
    BY <2>1 DEF Init, NetTypeOK
<1>4. HandlerTypeOK
  BY <1>1, PlacesOfHandler DEF Init, HandlerTypeOK
<1>5. SharedTypeOK
  BY DEF Init, SharedTypeOK, InboxStatus
<1>6. DiskTypeOK
  <2>1. <<>> \in Seq(BOOLEAN)
    OBVIOUS
  <2> QED
    BY <2>1 DEF Init, DiskTypeOK
<1>7. BoundsTypeOK
  BY ConstantsAssumption DEF Init, BoundsTypeOK
<1> QED
  BY <1>2, <1>3, <1>4, <1>5, <1>6, <1>7 DEF IInvT, TypeOK

\* every step stays in type,
LEMMA TypeStep == IInvT /\ [Next]_vars => IInvT'
  BY SenderTypeStep, NetTypeStep, HandlerTypeStep, SharedTypeStep, DiskTypeStep,
     BoundsTypeStep DEF IInvT, TypeOK

\* so every reachable state of a transfer is in type and a worker that waits
\* for the next attempt (_batch_worker) has one left.
THEOREM TypeInvariant == Spec => []IInvT
<1> QED
  BY TypeInit, TypeStep, PTL DEF Spec

\* Every variable of worker, connections, handlers and disk keeps its type, for
\* every number and size of files, retries, faults and crashes.
THEOREM TypeCorrect == Spec => []TypeOK
<1>1. IInvT => TypeOK
  BY DEF IInvT
<1> QED
  BY <1>1, TypeInvariant, PTL

-----------------------------------------------------------------------------
(* Content is written and exposed under an approval *)

\* A handler that has passed the inbox (transfer.py:462-476) works under an
\* approval that still stands: _decide never changes an accepted entry, and a
\* crash that loses the entry ends the handlers too.
ApprovalHeld == \A c \in Conns : hpc[c] \in Approved => inbox = "accepted"

\* The places after the inbox.
LEMMA ApprovedPlaces ==
  Approved = {"query", "start", "data", "body", "end", "fin", "open", "verify",
              "link", "unlink", "mark", "complete", "cleanup"}
  BY DEF Approved, HandlerPC, HandlerReading, HandlerLocal, Ended

\* What a step of handler c may do to the approval and to its own place.
LEMMA HandlerApproval ==
  ASSUME IInvT, NEW c \in Conns, HandlerStep(c)
  PROVE  /\ \A d \in Conns \ {c} : hpc'[d] = hpc[d]
         /\ inbox = "accepted" <=> inbox' = "accepted"
         /\ hpc'[c] \in Approved => hpc[c] \in Approved \/ inbox = "accepted"
<1>1. hpc \in [Conns -> HandlerPC] /\ hfile[c] \in Files
  BY DEF IInvT, TypeOK, HandlerTypeOK
<1>2. \A d \in Conns \ {c} : hpc'[d] = hpc[d]
  BY <1>1 DEF HandlerStep, HOffer, HBusy, HConflict, HLost, HPeerCancels, HPeerGone,
     HExpire, HDecided, HPrepare, HFileStart, HUnexpected, HOpen, HChunkControl,
        HChunkData,
     HCancelled, HBadFrame, HInterrupted, HFileEnd, HPartialMissing, HVerify,
        HVerifyLost,
     HLink, HUnlink, HMark, HComplete, HCompleteLost, HFin, HCleanup, NextFile, Goto,
        Leave,
     LeaveWith, handlerVars
<1>3. inbox = "accepted" <=> inbox' = "accepted"
  BY DEF HandlerStep, HOffer, HBusy, HConflict, HLost, HPeerCancels, HPeerGone,
     HExpire, HDecided, HPrepare, HFileStart, HUnexpected, HOpen, HChunkControl,
        HChunkData,
     HCancelled, HBadFrame, HInterrupted, HFileEnd, HPartialMissing, HVerify,
        HVerifyLost,
     HLink, HUnlink, HMark, HComplete, HCompleteLost, HFin, HCleanup, Decide,
        Publish, None,
     sharedVars
<1>4. hpc'[c] \in Approved => hpc[c] \in Approved \/ inbox = "accepted"
  <2>1. CASE hpc[c] \notin {"offer", "await"}
    <3>1. hpc[c] \in Approved
      BY <1>1, <2>1, ApprovedPlaces DEF HandlerStep, HOffer, HBusy, HConflict, HLost,
         HPeerCancels, HPeerGone, HExpire, HDecided, HPrepare, HFileStart,
            HUnexpected, HOpen,
         HChunkControl, HChunkData, HCancelled, HBadFrame, HInterrupted, HFileEnd,
         HPartialMissing, HVerify, HVerifyLost, HLink, HUnlink, HMark, HComplete,
         HCompleteLost, HFin, HCleanup
    <3> QED
      BY <3>1
  <2>2. CASE hpc[c] \in {"offer", "await"}
    <3>1. HOffer(c) \/ HBusy(c) \/ HConflict(c) \/ HLost(c) \/ HPeerCancels(c)
             \/ HPeerGone(c) \/ HExpire(c) \/ HDecided(c)
      BY <2>2 DEF HandlerStep, HPrepare, HFileStart, HUnexpected, HOpen,
         HChunkControl, HChunkData, HCancelled, HBadFrame, HInterrupted, HFileEnd,
         HPartialMissing, HVerify, HVerifyLost, HLink, HUnlink, HMark, HComplete,
         HCompleteLost, HFin, HCleanup
    <3>2. hpc'[c] \in {"offer", "await", "closed"} \/ (hpc'[c] = "query" /\ inbox = "accepted")
      BY <1>1, <2>2, <3>1 DEF HOffer, HBusy, HConflict, HLost, HPeerCancels, HPeerGone,
         HExpire, HDecided, AnswerTo, Goto, Leave, handlerVars
    <3> QED
      BY <3>2, ApprovedPlaces
  <2> QED
    BY <2>1, <2>2
<1> QED
  BY <1>2, <1>3, <1>4

\* No step takes the approval from a handler that acts on it.
LEMMA ApprovalStep == IInvT /\ ApprovalHeld /\ [Next]_vars => ApprovalHeld'
<1> SUFFICES ASSUME IInvT, ApprovalHeld, [Next]_vars
             PROVE  ApprovalHeld'
  OBVIOUS
<1>1. hpc \in [Conns -> HandlerPC]
  BY DEF IInvT, TypeOK, HandlerTypeOK
<1>2. ASSUME NEW c \in Conns, HandlerStep(c)
      PROVE  ApprovalHeld'
  BY <1>2, HandlerApproval DEF ApprovalHeld
<1>3. CASE UNCHANGED <<hpc, inbox>>
  BY <1>3 DEF ApprovalHeld
<1>4. CASE SConnect
  BY <1>1, <1>4, ApprovedPlaces DEF SConnect, ApprovalHeld, sharedVars
<1>5. CASE UserAccepts \/ UserRejects
  BY <1>5 DEF UserAccepts, UserRejects, Decide, ApprovalHeld, handlerVars
<1>6. CASE ReceiverCrash
  BY <1>1, <1>6, ApprovedPlaces DEF ReceiverCrash, ApprovalHeld, HandlerOpen, Ended
<1>7. ASSUME NEW c \in Conns, HIdleTimeout(c)
      PROVE  ApprovalHeld'
  BY <1>1, <1>7, ApprovedPlaces DEF HIdleTimeout, Leave, LeaveWith, ApprovalHeld
<1>8. CASE SenderStep \/ SenderFault
  BY <1>3, <1>4, <1>8, SenderFrame DEF handlerVars, sharedVars
<1>9. CASE Environment
  BY <1>3, <1>5, <1>6, <1>7, <1>9 DEF Environment, UserCancels, SourceChange,
     LinkBreaks, handlerVars, sharedVars
<1> QED
  BY <1>2, <1>3, <1>8, <1>9 DEF Next, vars, handlerVars, sharedVars

\* So the approval is held in every reachable state.
LEMMA ApprovalInvariant == Spec => []ApprovalHeld
<1>1. Init => ApprovalHeld
  BY ApprovedPlaces DEF Init, ApprovalHeld
<1> QED
  BY <1>1, ApprovalStep, TypeInvariant, PTL DEF Spec

\* Apart from a crash only open, write and link of an approved handler change
\* file content or expose a file.
LEMMA DiskChange ==
  ASSUME IInvT, [Next]_vars
  PROVE  \/ UNCHANGED <<committed, content>>
         \/ crashes' # crashes /\ committed' = committed
         \/ \E c \in Conns : /\ hpc[c] \in Approved
                             /\ \/ HOpen(c) \/ HChunkData(c)
                                \/ HLink(c)
<1>1. CASE SenderStep \/ SenderFault
  BY <1>1, SenderFrame DEF diskVars
<1>2. ASSUME NEW c \in Conns, HandlerStep(c)
      PROVE  \/ UNCHANGED <<committed, content>>
             \/ hpc[c] \in Approved /\ (HOpen(c) \/ HChunkData(c) \/ HLink(c))
  <2>1. CASE HOpen(c) \/ HChunkData(c) \/ HLink(c)
    BY <2>1, ApprovedPlaces DEF HOpen, HChunkData, HLink
  <2>2. CASE ~(HOpen(c) \/ HChunkData(c) \/ HLink(c))
    BY <1>2, <2>2
       DEF HandlerStep, HOffer, HBusy, HConflict, HLost, HPeerCancels, HPeerGone,
     HExpire, HDecided, HPrepare, HFileStart, HUnexpected, HChunkControl,
     HCancelled, HBadFrame, HInterrupted, HFileEnd, HPartialMissing, HVerify,
        HVerifyLost,
     HUnlink, HMark, HComplete, HCompleteLost, HFin, HCleanup, diskVars
  <2> QED
    BY <2>1, <2>2
<1>3. CASE Environment
  <2>1. CASE ReceiverCrash
    BY <2>1 DEF ReceiverCrash, IInvT, TypeOK, BoundsTypeOK
  <2> QED
    BY <1>3, <2>1 DEF Environment, UserAccepts, UserRejects, UserCancels, SourceChange,
       LinkBreaks, HIdleTimeout, diskVars
<1> QED
  BY <1>1, <1>2, <1>3 DEF Next, vars, diskVars

\* No file content is written and no file exposed unless the user has accepted
\* the offer in this life of the receiver: only handlers that passed
\* _await_incoming_decision reach _receive_v3_file_data and commit_partial_file.
THEOREM ApprovedWritesOnly == Spec => WritesNeedApproval
<1>1. IInvT /\ ApprovalHeld /\ [Next]_vars =>
        [\/ committed' # committed
         \/ content' # content /\ crashes' = crashes
         => inbox = "accepted"]_vars
  BY DiskChange DEF ApprovalHeld
<1> QED
  BY <1>1, TypeInvariant, ApprovalInvariant, PTL DEF Spec, WritesNeedApproval

-----------------------------------------------------------------------------
(* Deliveries and acknowledgements *)

DeliveredFiles == {r.file : r \in committed}

\* Every place that holds the news of a delivery tells the truth.
AnswersTrue ==
  \A c \in Conns : \A i \in 1..Len(toS[c]) :
    toS[c][i].type = "file_result" /\ toS[c][i].ok => toS[c][i].file \in DeliveredFiles
HandlersTrue ==
  \A c \in Conns : hpc[c] \in {"unlink", "mark",
     "complete"} => hfile[c] \in DeliveredFiles
FinalsTrue ==
  \A c \in Conns, f \in Files : hstate[c][f].final => f \in DeliveredFiles
SenderTrue ==
  \A f \in Files : sstat[f] = "complete" => f \in DeliveredFiles
DeliveryInv == AnswersTrue /\ HandlersTrue /\ FinalsTrue /\ SenderTrue

\* Delivered as membership.
LEMMA DeliveredMember == \A f : Delivered(f) <=> f \in DeliveredFiles
  BY DEF Delivered, DeliveredFiles

\* An exposed file is never withdrawn.
LEMMA DeliveriesStay ==
  ASSUME IInvT, [Next]_vars
  PROVE  DeliveredFiles \subseteq DeliveredFiles'
<1>1. committed \subseteq committed'
  BY DiskChange DEF HOpen, HChunkData, HLink
<1> QED
  BY <1>1 DEF DeliveredFiles

\* A handler at the end of a commit has delivered its file.
LEMMA HandlersTrueStep ==
  ASSUME IInvT, HandlersTrue, FinalsTrue, NEW c \in Conns, HandlerStep(c)
  PROVE  HandlersTrue'
<1>1. /\ hpc \in [Conns -> HandlerPC] /\ hfile \in [Conns -> Files]
      /\ \A d \in Conns \ {c} : hpc'[d] = hpc[d]
      /\ DeliveredFiles \subseteq DeliveredFiles'
  BY HandlerApproval, DeliveriesStay DEF IInvT, TypeOK, HandlerTypeOK, Next
<1>2. \A d \in Conns \ {c} : hfile'[d] = hfile[d]
  BY <1>1 DEF HandlerStep, HOffer, HBusy, HConflict, HLost, HPeerCancels, HPeerGone,
     HExpire, HDecided, HPrepare, HFileStart, HUnexpected, HOpen, HChunkControl,
        HChunkData,
     HCancelled, HBadFrame, HInterrupted, HFileEnd, HPartialMissing, HVerify,
        HVerifyLost,
     HLink, HUnlink, HMark, HComplete, HCompleteLost, HFin, HCleanup, NextFile,
        handlerVars
<1>3. ASSUME hpc'[c] \in {"unlink", "mark", "complete"}
      PROVE  hfile'[c] \in DeliveredFiles'
  <2>1. HLink(c) \/ HUnlink(c) \/ HMark(c) \/ HFileEnd(c) \/ (UNCHANGED hpc /\ UNCHANGED hfile)
    BY <1>1, <1>3
       DEF HandlerStep, HOffer, HBusy, HConflict, HLost, HPeerCancels, HPeerGone,
     HExpire, HDecided, HPrepare, HFileStart, HUnexpected, HOpen, HChunkControl,
        HChunkData,
     HCancelled, HBadFrame, HInterrupted, HPartialMissing, HVerify, HVerifyLost,
     HComplete, HCompleteLost, HFin, HCleanup, NextFile, AfterChunk, Goto, Leave,
     LeaveWith, handlerVars
  <2>2. CASE HLink(c)
    <3>1. [file |-> hfile[c], by |-> c, ino |-> partial[hfile[c]]] \in committed'
      BY <2>2 DEF HLink
    <3>2. hfile[c] \in DeliveredFiles'
      BY <3>1 DEF DeliveredFiles
    <3> QED
      BY <2>2, <3>2 DEF HLink
  <2>3. CASE HUnlink(c) \/ HMark(c)
    BY <1>1, <2>3 DEF HUnlink, HMark, HandlersTrue
  <2>4. CASE HFileEnd(c)
    BY <1>1, <1>3, <2>4 DEF HFileEnd, AfterFileEnd, Goto, FinalsTrue
  <2>5. CASE UNCHANGED hpc /\ UNCHANGED hfile
    BY <1>1, <1>3, <2>5 DEF HandlersTrue
  <2> QED
    BY <2>1, <2>2, <2>3, <2>4, <2>5
<1> QED
  BY <1>1, <1>2, <1>3 DEF HandlersTrue

\* prepare reports a file as done only if a committed file still stands for it.
LEMMA FinalsTrueStep ==
  ASSUME IInvT, FinalsTrue, NEW c \in Conns, HandlerStep(c)
  PROVE  FinalsTrue'
<1>1. /\ hstate \in [Conns -> [Files -> [off : Nat, final : BOOLEAN]]]
      /\ DeliveredFiles \subseteq DeliveredFiles'
  BY DeliveriesStay DEF IInvT, TypeOK, HandlerTypeOK, Next
<1>2. CASE HPrepare(c)
  <2>1. \A f \in Files : FinalStands(f) => f \in DeliveredFiles
    BY DEF FinalStands, DeliveredFiles
  <2>2. \A f \in Files : hstate'[c][f].final = FinalStands(f)
    BY <1>1, <1>2 DEF HPrepare
  <2>3. \A d \in Conns \ {c} : hstate'[d] = hstate[d]
    BY <1>1, <1>2 DEF HPrepare
  <2> QED
    BY <1>1, <2>1, <2>2, <2>3 DEF FinalsTrue
<1>3. CASE ~HPrepare(c)
  <2>1. hstate' = hstate
    BY <1>3 DEF HandlerStep, HOffer, HBusy, HConflict, HLost, HPeerCancels, HPeerGone,
     HExpire, HDecided, HFileStart, HUnexpected, HOpen, HChunkControl, HChunkData,
     HCancelled, HBadFrame, HInterrupted, HFileEnd, HPartialMissing, HVerify,
        HVerifyLost,
     HLink, HUnlink, HMark, HComplete, HCompleteLost, HFin, HCleanup, handlerVars
  <2> QED
    BY <1>1, <2>1 DEF FinalsTrue
<1> QED
  BY <1>2, <1>3

\* A positive answer speaks of a delivered file.
GoodAnswer(m) == m.type = "file_result" /\ m.ok => m.file \in DeliveredFiles

\* One more answer in a queue, if it is a true one, keeps the answers true.
LEMMA AppendAnswer ==
  ASSUME IInvT, AnswersTrue, DeliveredFiles \subseteq DeliveredFiles',
         NEW c \in Conns, NEW m, Reply(c, m), GoodAnswer(m)
  PROVE  AnswersTrue'
<1>1. toS \in [Conns -> Seq(ToSender)]
  BY DEF IInvT, TypeOK, NetTypeOK
<1>2. CASE toS' = toS
  BY <1>2 DEF AnswersTrue
<1>3. CASE toS' = [toS EXCEPT ![c] = Append(@, m)]
  <2>1. ASSUME NEW d \in Conns, NEW i \in 1..Len(toS'[d])
        PROVE  toS'[d][i] = m \/ (i \in 1..Len(toS[d]) /\ toS'[d][i] = toS[d][i])
    BY <1>1, <1>3, <2>1
  <2> QED
    BY <2>1 DEF AnswersTrue, GoodAnswer
<1> QED
  BY <1>2, <1>3 DEF Reply

\* A handler gives a positive file_result only for a delivered file.
LEMMA AnswersTrueHandler ==
  ASSUME IInvT, AnswersTrue, HandlersTrue, NEW c \in Conns, HandlerStep(c)
  PROVE  AnswersTrue'
<1>1. DeliveredFiles \subseteq DeliveredFiles'
  BY DeliveriesStay DEF Next
<1>2. ASSUME NEW m, Reply(c, m), GoodAnswer(m)
      PROVE  AnswersTrue'
  BY <1>1, <1>2, AppendAnswer
<1>3. CASE toS' = toS
  BY <1>1, <1>3 DEF AnswersTrue
<1>4. CASE HBusy(c) \/ HDecided(c) \/ HPrepare(c) \/ HFin(c)
  <2>1. \E m : Reply(c, m) /\ m.type # "file_result"
    BY <1>4 DEF HBusy, HDecided, HPrepare, HFin
  <2> QED
    BY <2>1, <1>2 DEF GoodAnswer
<1>5. CASE HVerify(c)
  <2>1. GoodAnswer([type |-> "file_result", file |-> hfile[c], ok |-> FALSE])
    BY DEF GoodAnswer
  <2> QED
    BY <1>2, <1>3, <1>5, <2>1 DEF HVerify
<1>6. CASE HComplete(c)
  <2>1. GoodAnswer([type |-> "file_result", file |-> hfile[c], ok |-> TRUE])
    BY <1>6 DEF HComplete, GoodAnswer, HandlersTrue
  <2> QED
    BY <1>2, <1>3, <1>6, <2>1 DEF HComplete
<1>7. CASE ~(HBusy(c) \/ HDecided(c) \/ HPrepare(c) \/ HFin(c) \/ HVerify(c) \/ HComplete(c))
  BY <1>3, <1>7
     DEF HandlerStep, HOffer, HConflict, HLost, HPeerCancels, HPeerGone, HExpire,
       HFileStart, HUnexpected, HOpen, HChunkControl, HChunkData, HCancelled, HBadFrame,
       HInterrupted, HFileEnd, HPartialMissing, HVerifyLost, HLink, HUnlink, HMark,
       HCompleteLost, HCleanup, netVars
<1> QED
  BY <1>4, <1>5, <1>6, <1>7

\* Taking, dropping and cutting off answers keeps them true.
LEMMA AnswersTrueSender ==
  ASSUME IInvT, AnswersTrue, SenderStep \/ SenderFault
  PROVE  AnswersTrue'
<1>1. /\ toS \in [Conns -> Seq(ToSender)] /\ attempt \in Conns
      /\ DeliveredFiles \subseteq DeliveredFiles'
  BY DeliveriesStay DEF IInvT, TypeOK, NetTypeOK, SenderTypeOK, Next
<1>2. CASE toS' = toS
  BY <1>1, <1>2 DEF AnswersTrue
<1>3. CASE Hangup
  BY <1>1, <1>3 DEF Hangup, AnswersTrue
<1>4. CASE SenderTakes /\ toS[attempt] # <<>>
  <2>1. \A d \in Conns \ {attempt} : toS'[d] = toS[d]
    BY <1>1, <1>4 DEF SenderTakes
  <2>2. toS'[attempt] = Tail(toS[attempt])
    BY <1>1, <1>4 DEF SenderTakes
  <2>3. ASSUME NEW i \in 1..Len(toS'[attempt])
        PROVE  i + 1 \in 1..Len(toS[attempt]) /\ toS'[attempt][i] = toS[attempt][i + 1]
    BY <1>1, <1>4, <2>2, <2>3
  <2> QED
    BY <1>1, <2>1, <2>3 DEF AnswersTrue
<1>5. CASE SConnect \/ SFileStart \/ SChunk \/ SFileEnd \/ SRetry
  BY <1>5, <1>2 DEF SConnect, SFileStart, SChunk, SFileEnd, SRetry, netVars
<1>6. CASE SAccepted \/ SResumeState \/ SFileAcked
  BY <1>6, <1>4 DEF SAccepted, SResumeState, SFileAcked, NextForSender
<1>7. CASE SCancelIdle \/ SBreak \/ SRefused \/ SSourceShort \/ SSourceGone \/ SFileRefused
             \/ SCancelApproval \/ SCancelStream \/ SFinished \/ SenderFault
  BY <1>7, <1>3
     DEF SCancelIdle, SBreak, SRefused, SSourceShort, SSourceGone, SFileRefused,
     SCancelApproval, SCancelStream, SFinished, SenderFault, SConnectFails, SUntrusted,
     SIdleTimeout, SApprovalTimeout, Interrupt, GiveUp
<1> QED
  BY <1>5, <1>6, <1>7 DEF SenderStep

\* The sender completes a file only on the positive result of that file.
LEMMA CompletedByAnswer ==
  ASSUME IInvT, SenderStep \/ SenderFault, NEW f \in Files,
         sstat'[f] = "complete", sstat[f] # "complete"
  PROVE  SFileAcked /\ f = sfile
<1>1. sstat \in [Files -> Status] /\ sfile \in Files
  BY DEF IInvT, TypeOK, SenderTypeOK
<1>2. ASSUME NEW status, NEW pc, SetOpen(status, pc)
      PROVE  status = "complete"
  BY <1>2 DEF SetOpen
<1>3. ~(Interrupt \/ SRetry)
  BY <1>2 DEF Interrupt, SRetry
<1>4. ASSUME NEW status, GiveUp(status)
      PROVE  status = "complete"
  BY <1>2, <1>4 DEF GiveUp
<1>5. ~SenderFault
  BY <1>3, <1>4
     DEF SenderFault, SConnectFails, SUntrusted, SIdleTimeout, SApprovalTimeout
<1>6. ~(SCancelIdle \/ SBreak \/ SCancelApproval \/ SRefused \/ SCancelStream \/ SSourceShort
        \/ SSourceGone \/ SFileRefused)
  BY <1>3, <1>4
     DEF SCancelIdle, SBreak, SCancelApproval, SRefused, SCancelStream, SSourceShort,
     SSourceGone, SFileRefused
<1>7. ~(SConnect \/ SAccepted \/ SResumeState \/ SChunk \/ SFileEnd \/ SFinished)
  BY <1>1 DEF SConnect, SAccepted, SResumeState, SChunk, SFileEnd, SFinished
<1>8. ~SFileStart
  <2>1. \A s, k : s # "complete" => Streaming(s, k) # "complete"
    BY DEF Streaming, SetStatus
  <2> QED
    BY <1>1, <2>1 DEF SFileStart
<1>9. SFileAcked
  BY <1>3, <1>5, <1>6, <1>7, <1>8 DEF SenderStep
<1> QED
  BY <1>1, <1>9 DEF SFileAcked

\* The result the sender acts on speaks of a delivered file.
LEMMA AckedFileDelivered ==
  ASSUME IInvT, AnswersTrue, SFileAcked
  PROVE  sfile \in DeliveredFiles
<1>1. 1 \in 1..Len(toS[attempt]) /\ Head(toS[attempt]) = toS[attempt][1] /\ attempt \in Conns
  BY DEF SFileAcked, IInvT, TypeOK, NetTypeOK, SenderTypeOK
<1>2. Acknowledges(toS[attempt][1], sfile)
  BY <1>1 DEF SFileAcked
<1> QED
  BY <1>1, <1>2 DEF Acknowledges, AnswersTrue

\* The delivery invariant holds at first,
LEMMA DeliveryInit == Init => DeliveryInv
<1> SUFFICES ASSUME Init PROVE DeliveryInv
  OBVIOUS
<1>1. AnswersTrue /\ HandlersTrue /\ FinalsTrue
  BY DEF Init, AnswersTrue, HandlersTrue, FinalsTrue
<1>2. SenderTrue
  BY DEF Init, SenderTrue
<1> QED
  BY <1>1, <1>2 DEF DeliveryInv

\* is kept by every step,
LEMMA DeliveryStep == IInvT /\ DeliveryInv /\ [Next]_vars => DeliveryInv'
<1> SUFFICES ASSUME IInvT, DeliveryInv, [Next]_vars
             PROVE  DeliveryInv'
  OBVIOUS
<1>1. DeliveredFiles \subseteq DeliveredFiles'
  BY DeliveriesStay
<1>2. AnswersTrue /\ HandlersTrue /\ FinalsTrue /\ SenderTrue
  BY DEF DeliveryInv
<1>3. CASE SenderStep \/ SenderFault
  <2>1. AnswersTrue'
    BY <1>2, <1>3, AnswersTrueSender
  <2>2. SenderTrue'
    BY <1>1, <1>2, <1>3, CompletedByAnswer, AckedFileDelivered DEF SenderTrue
  <2>3. FinalsTrue' /\ HandlersTrue'
    <3>1. UNCHANGED <<hstate, hfile>>
      BY <1>3, SenderFrame DEF SConnect, handlerVars
    <3>2. \A c \in Conns : hpc'[c] \in {"unlink", "mark",
       "complete"} => hpc'[c] = hpc[c]
      BY <1>3, SenderFrame DEF SConnect, handlerVars, IInvT, TypeOK, HandlerTypeOK
    <3> QED
      BY <1>1, <1>2, <3>1, <3>2 DEF FinalsTrue, HandlersTrue
  <2> QED
    BY <2>1, <2>2, <2>3 DEF DeliveryInv
<1>4. ASSUME NEW c \in Conns, HandlerStep(c)
      PROVE  DeliveryInv'
  <2>1. sstat' = sstat
    BY <1>4, HandlerKeepsSender DEF senderVars
  <2> QED
    BY <1>1, <1>2, <1>4, <2>1, HandlersTrueStep, FinalsTrueStep, AnswersTrueHandler
       DEF DeliveryInv, SenderTrue
<1>5. CASE Environment
  <2>1. UNCHANGED <<sstat, hstate, hfile>>
    BY <1>5
       DEF Environment, UserAccepts, UserRejects, UserCancels, SourceChange, LinkBreaks,
       HIdleTimeout, ReceiverCrash, senderVars, handlerVars
  <2>2. \A c \in Conns : hpc'[c] \in {"unlink", "mark", "complete"} => hpc'[c] = hpc[c]
    BY <1>5
       DEF Environment, UserAccepts, UserRejects, UserCancels, SourceChange, LinkBreaks,
       HIdleTimeout, ReceiverCrash, Leave, LeaveWith, handlerVars, IInvT, TypeOK,
          HandlerTypeOK
  <2>3. ASSUME \E c \in Conns : LinkBreaks(c)
        PROVE  AnswersTrue'
    <3>1. toS \in [Conns -> Seq(ToSender)]
      BY DEF IInvT, TypeOK, NetTypeOK
    <3>a. PICK c \in Conns : \E k \in 0..Len(toS[c]) : toS' = [toS EXCEPT ![c] = SubSeq(@, 1, k)]
      BY <2>3 DEF LinkBreaks
    <3>2. PICK k \in 0..Len(toS[c]) : toS' = [toS EXCEPT ![c] = SubSeq(@, 1, k)]
      BY <3>a
    <3>3. \A d \in Conns \ {c} : toS'[d] = toS[d]
      BY <3>1, <3>2
    <3>4. toS'[c] = SubSeq(toS[c], 1, k)
      BY <3>1, <3>2
    <3>5. \A i \in 1..Len(toS'[c]) : i \in 1..Len(toS[c]) /\ toS'[c][i] = toS[c][i]
      BY <3>1, <3>4
    <3> QED
      BY <1>1, <1>2, <3>3, <3>5 DEF AnswersTrue
  <2>4. ASSUME toS' = toS
        PROVE  AnswersTrue'
    BY <1>1, <1>2, <2>4 DEF AnswersTrue
  <2>5. AnswersTrue'
    BY <1>5, <2>3, <2>4
       DEF Environment, UserAccepts, UserRejects, UserCancels, SourceChange,
       HIdleTimeout, ReceiverCrash, netVars
  <2> QED
    BY <1>1, <1>2, <2>1, <2>2, <2>5
       DEF DeliveryInv, SenderTrue, FinalsTrue, HandlersTrue
<1>6. CASE UNCHANGED vars
  BY <1>2, <1>6
     DEF vars, senderVars, netVars, handlerVars, diskVars, DeliveryInv, AnswersTrue,
     HandlersTrue, FinalsTrue, SenderTrue, DeliveredFiles
<1> QED
  BY <1>3, <1>4, <1>5, <1>6 DEF Next

\* and so always holds.
LEMMA DeliveryInvariant == Spec => []DeliveryInv
  BY DeliveryInit, DeliveryStep, TypeInvariant, PTL DEF Spec

\* A file the sender shows as COMPLETE has been exposed to the receiving user,
\* whatever connections break, attempts overlap and crashes happen: the answer
\* of transfer.py:593 follows the commit of transfer.py:582.
THEOREM AcknowledgedDelivery == Spec => []AckedIsDelivered
<1>1. DeliveryInv => AckedIsDelivered
  BY DeliveredMember DEF DeliveryInv, SenderTrue, AckedIsDelivered
<1> QED
  BY <1>1, DeliveryInvariant, PTL

\* The sender's COMPLETE is never taken back, and only one file at a time
\* becomes COMPLETE, after it has been delivered.
LEMMA AckedSteps ==
  ASSUME IInvT, DeliveryInv, [Next]_vars
  PROVE  LET acked == {f \in Files : sstat[f] = "complete"}
         IN \/ acked' = acked
            \/ /\ UNCHANGED <<inbox, committed>>
               /\ \E f \in Files \cap DeliveredFiles : acked' = acked \cup {f}
<1> DEFINE acked == {f \in Files : sstat[f] = "complete"}
<1>1. sstat \in [Files -> Status] /\ sfile \in Files
  BY DEF IInvT, TypeOK, SenderTypeOK
<1>2. CASE SFileAcked
  <2>1. SetStatus(sstat[sfile], "complete") \in {"complete", sstat[sfile]}
    BY DEF SetStatus
  <2>2. \A f \in Files \ {sfile} : sstat'[f] = sstat[f]
    BY <1>1, <1>2 DEF SFileAcked
  <2>3. sstat'[sfile] \in {"complete", sstat[sfile]}
    BY <1>1, <1>2, <2>1 DEF SFileAcked
  <2>4. acked' = acked \/ acked' = acked \cup {sfile}
    BY <1>1, <2>2, <2>3
  <2>5. sfile \in DeliveredFiles
    BY <1>2, AckedFileDelivered DEF DeliveryInv
  <2> QED
    BY <1>1, <1>2, <2>4, <2>5 DEF SFileAcked, sharedVars, diskVars
<1>3. CASE (SenderStep \/ SenderFault) /\ ~SFileAcked
  <2>1. \A f \in Files : sstat'[f] = "complete" => sstat[f] = "complete"
    BY <1>3, CompletedByAnswer
  <2>2. \A f \in Files : sstat[f] = "complete" => sstat'[f] = "complete"
    <3>1. ASSUME NEW status, NEW pc, SetOpen(status, pc), NEW f \in Files,
       sstat[f] = "complete"
          PROVE  sstat'[f] = "complete"
      BY <3>1 DEF SetOpen, Open, Terminal
    <3>2. ASSUME Interrupt \/ SRetry \/ \E status : GiveUp(status)
          PROVE  \A f \in Files : sstat[f] = "complete" => sstat'[f] = "complete"
      BY <3>1, <3>2 DEF Interrupt, GiveUp, SRetry
    <3>3. ASSUME SFileStart
          PROVE  \A f \in Files : sstat[f] = "complete" => sstat'[f] = "complete"
      BY <1>1, <3>3 DEF SFileStart, Streaming, Terminal
    <3>4. ASSUME SAccepted
          PROVE  \A f \in Files : sstat[f] = "complete" => sstat'[f] = "complete"
      BY <1>1, <3>4 DEF SAccepted
    <3>5. sstat' = sstat \/ SFileStart \/ SAccepted \/ Interrupt \/ SRetry \/ \E status : GiveUp(status)
      BY <1>3
         DEF SenderStep, SenderFault, SCancelIdle, SConnect, SBreak, SCancelApproval,
       SRefused, SResumeState, SChunk, SCancelStream, SSourceShort,
       SSourceGone, SFileEnd, SFileRefused, SFinished, SConnectFails,
       SUntrusted, SIdleTimeout, SApprovalTimeout
    <3> QED
      BY <3>2, <3>3, <3>4, <3>5
  <2> QED
    BY <2>1, <2>2
<1>4. ASSUME NEW c \in Conns, HandlerStep(c)
      PROVE  acked' = acked
  BY <1>4, HandlerKeepsSender DEF senderVars
<1>5. CASE Environment \/ UNCHANGED vars
  BY <1>5
     DEF Environment, UserAccepts, UserRejects, UserCancels, SourceChange, LinkBreaks,
     HIdleTimeout, ReceiverCrash, senderVars, vars
<1> QED
  BY <1>2, <1>3, <1>4, <1>5 DEF Next

\* One delivery at a time, and only under an approval that stands.
LEMMA DeliverySteps ==
  ASSUME IInvT, ApprovalHeld, [Next]_vars
  PROVE  \/ DeliveredFiles' = DeliveredFiles
         \/ /\ inbox = "accepted" /\ inbox' = "accepted"
            /\ \E f \in Files : DeliveredFiles' = DeliveredFiles \cup {f}
<1>1. CASE committed' = committed
  BY <1>1 DEF DeliveredFiles
<1>2. CASE \E c \in Conns : hpc[c] \in Approved /\ HLink(c)
  <2>1. PICK c \in Conns : hpc[c] \in Approved /\ HLink(c)
    BY <1>2
  <2>2. inbox = "accepted" /\ inbox' = "accepted"
    BY <2>1 DEF ApprovalHeld, HLink, sharedVars
  <2>3. hfile[c] \in Files
    BY DEF IInvT, TypeOK, HandlerTypeOK
  <2>4. DeliveredFiles' = DeliveredFiles \cup {hfile[c]}
    <3> DEFINE record == [file |-> hfile[c], by |-> c, ino |-> partial[hfile[c]]]
    <3>1. committed' = committed \cup {record} /\ record.file = hfile[c]
      BY <2>1 DEF HLink
    <3> HIDE DEF record
    <3> QED
      BY <3>1 DEF DeliveredFiles
  <2> QED
    BY <2>2, <2>3, <2>4
<1> QED
  BY <1>1, <1>2, DiskChange DEF HOpen, HChunkData

\* Sessions, retries, overlapping handlers, lost frames and crashes implement
\* FileDelivery: approvals, deliveries under an approval that stands, and
\* acknowledgements of deliveries, one at a time and never taken back.
THEOREM ImplementsDelivery == Spec => KeepsPromise
<1>1. Init => Promise!DInit
  BY DEF Init, Promise!DInit, None, Delivered
<1>2. IInvT /\ ApprovalHeld /\ DeliveryInv /\ [Next]_vars => [Promise!DNext]_(Promise!dvars)
  <2> SUFFICES ASSUME IInvT, ApprovalHeld, DeliveryInv, [Next]_vars
               PROVE  [Promise!DNext]_(Promise!dvars)
    OBVIOUS
  <2> DEFINE acked == {f \in Files : sstat[f] = "complete"}
             delivered == {f \in Files : Delivered(f)}
  <2>1. /\ delivered = Files \cap DeliveredFiles
        /\ delivered' = Files \cap DeliveredFiles'
    BY DEF Delivered, DeliveredFiles
  <2>2. CASE acked' # acked
    <3>1. PICK f \in Files \cap DeliveredFiles : acked' = acked \cup {f}
      BY <2>2, AckedSteps
    <3>2. UNCHANGED <<inbox, committed>>
      BY <2>2, AckedSteps
    <3>3. Promise!Acknowledge(f)
      BY <2>1, <3>1, <3>2 DEF Promise!Acknowledge, Delivered
    <3> QED
      BY <3>1, <3>3 DEF Promise!DNext
  <2>3. CASE acked' = acked /\ DeliveredFiles' # DeliveredFiles
    <3>1. PICK f \in Files : DeliveredFiles' = DeliveredFiles \cup {f}
      BY <2>3, DeliverySteps
    <3>2. inbox = "accepted" /\ inbox' = "accepted"
      BY <2>3, DeliverySteps
    <3>3. delivered' = delivered \cup {f}
      BY <2>1, <3>1
    <3>4. Promise!Deliver(f)
      BY <2>3, <3>2, <3>3 DEF Promise!Deliver
    <3> QED
      BY <3>1, <3>4 DEF Promise!DNext
  <2>4. CASE acked' = acked /\ DeliveredFiles' = DeliveredFiles
    <3>1. delivered' = delivered
      BY <2>1, <2>4
    <3> QED
      BY <2>4, <3>1 DEF Promise!DNext, Promise!dvars, Promise!Approve, Promise!Forget
  <2> QED
    BY <2>2, <2>3, <2>4
<1> QED
  BY <1>1, <1>2, TypeInvariant, ApprovalInvariant, DeliveryInvariant, PTL
     DEF Spec, KeepsPromise, Promise!DSpec

-----------------------------------------------------------------------------
(* The worker has ended every file it leaves *)

\* How far the worker has come tells the status of every file.
Progress ==
  /\ spc \in {"connect", "approval"} =>
       \A f \in Files : sstat[f] \in {"pending_approval", "resuming"} \cup Terminal
  /\ spc = "state" =>
       \A f \in Files : sstat[f] \in {"accepted", "resuming"} \cup Terminal
  /\ spc \in {"file", "stream", "result"} =>
       \A f \in Files :
         /\ f < sfile => sstat[f] \in Terminal
         /\ f > sfile => sstat[f] \in {"accepted", "resuming"} \cup Terminal
  /\ spc = "file" => sstat[sfile] \in {"accepted", "resuming"} \cup Terminal
  /\ spc \in {"stream", "result"} => sstat[sfile] \in {"active"} \cup Terminal
  /\ spc = "backoff" =>
       \A f \in Files : sstat[f] \in {"interrupted"} \cup Terminal
  /\ spc \in {"fin", "done"} => \A f \in Files : sstat[f] \in Terminal

\* A worker that survives the assignment has ended or moved every file.
LEMMA SetOpenAll ==
  ASSUME IInvT, NEW status, NEW pc, SetOpen(status, pc), spc' # "dead"
  PROVE  spc' = pc /\ \A f \in Files : sstat'[f] \in {status} \cup Terminal
<1>1. Refused(status) = {} /\ spc' = pc
  BY DEF SetOpen
<1>2. sstat' = [f \in Files |-> IF f \notin Open THEN sstat[f] ELSE status]
  BY <1>1 DEF SetOpen
<1>3. \A f \in Files : f \notin Open => sstat[f] \in Terminal
  BY DEF Open
<1> QED
  BY <1>1, <1>2, <1>3

\* Every step of the worker keeps its progress and the statuses in line.
LEMMA ProgressStep == IInvT /\ Progress /\ [Next]_vars => Progress'
<1> SUFFICES ASSUME IInvT, Progress, [Next]_vars
             PROVE  Progress'
  OBVIOUS
<1>0. sstat \in [Files -> Status] /\ sfile \in Files /\ spc \in SenderPC
  BY DEF IInvT, TypeOK, SenderTypeOK
<1>1. CASE UNCHANGED <<spc, sfile, sstat>>
  BY <1>1 DEF Progress
<1>2. ASSUME NEW status \in Terminal, GiveUp(status)
      PROVE  Progress'
  <2>1. CASE spc' = "dead"
    BY <2>1 DEF Progress
  <2>2. CASE spc' # "dead"
    <3>1. spc' = "done" /\ \A f \in Files : sstat'[f] \in {status} \cup Terminal
      BY <1>2, <2>2, SetOpenAll DEF GiveUp
    <3> QED
      BY <3>1 DEF Progress
  <2> QED
    BY <2>1, <2>2
<1>3. CASE Interrupt
  <2>1. CASE spc' = "dead"
    BY <2>1 DEF Progress
  <2>2. CASE spc' # "dead" /\ attempt = MaxRetries
    <3>1. spc' = "done" /\ \A f \in Files : sstat'[f] \in {"failed"} \cup Terminal
      BY <1>3, <2>2, SetOpenAll DEF Interrupt
    <3> QED
      BY <3>1 DEF Progress, Terminal
  <2>3. CASE spc' # "dead" /\ attempt # MaxRetries
    <3>1. spc' = "backoff" /\ \A f \in Files : sstat'[f] \in {"interrupted"} \cup Terminal
      BY <1>3, <2>3, SetOpenAll DEF Interrupt
    <3> QED
      BY <3>1 DEF Progress
  <2> QED
    BY <2>1, <2>2, <2>3
<1>4. CASE SRetry
  <2>1. CASE spc' = "dead"
    BY <2>1 DEF Progress
  <2>2. CASE spc' # "dead"
    <3>1. spc' = "connect" /\ \A f \in Files : sstat'[f] \in {"resuming"} \cup Terminal
      BY <1>4, <2>2, SetOpenAll DEF SRetry
    <3> QED
      BY <3>1 DEF Progress
  <2> QED
    BY <2>1, <2>2
<1>5. CASE SConnect
  BY <1>5 DEF SConnect, Progress
<1>6. CASE SAccepted
  <2>1. spc' = "state"
    BY <1>6 DEF SAccepted
  <2>2. \A f \in Files : sstat'[f] \in {"accepted", "resuming"} \cup Terminal
    BY <1>6 DEF SAccepted, Progress
  <2> QED
    BY <2>1, <2>2 DEF Progress
<1>7. CASE SResumeState
  <2>1. spc' = "file" /\ sfile' = 1 /\ sstat' = sstat
    BY <1>7 DEF SResumeState
  <2>2. \A f \in Files : ~(f < 1)
    BY DEF Files
  <2>3. \A f \in Files : sstat'[f] \in {"accepted", "resuming"} \cup Terminal
    BY <1>7, <2>1 DEF SResumeState, Progress
  <2>4. 1 \in Files
    BY ConstantsAssumption DEF Files
  <2> QED
    BY <2>1, <2>2, <2>3, <2>4 DEF Progress
<1>8. CASE SFileStart
  <2>1. spc' = "stream" /\ sfile' = sfile /\ spc = "file"
    BY <1>8 DEF SFileStart
  <2>2. \A s \in {"accepted", "resuming"} \cup Terminal : \A k :
           Streaming(s, k) \in {"active"} \cup Terminal
    <3>1. "active" \in Allowed["accepted"] /\ "resuming" \in Allowed["accepted"]
             /\ "active" \in Allowed["resuming"]
      BY DEF Allowed, Status
    <3> QED
      BY <3>1 DEF Streaming, SetStatus, CanSet
  <2>3. sstat'[sfile] \in {"active"} \cup Terminal
    BY <1>0, <1>8, <2>1, <2>2 DEF SFileStart, Progress
  <2>4. \A f \in Files \ {sfile} : sstat'[f] = sstat[f]
    BY <1>0, <1>8 DEF SFileStart
  <2>5. \A f \in Files : ~(f < f) /\ ~(f > f)
    BY ConstantsAssumption DEF Files
  <2>6. \A f \in Files : f < sfile \/ f > sfile => f # sfile
    BY <1>0, <2>5
  <2> QED
    BY <1>0, <2>1, <2>3, <2>4, <2>6 DEF Progress
<1>9. CASE SChunk
  BY <1>1, <1>9 DEF SChunk
<1>10. CASE SFileEnd
  BY <1>10 DEF SFileEnd, Progress
<1>11. CASE SFileAcked
  <2>1. sstat'[sfile] \in Terminal
    <3>1. "complete" \in Allowed["active"]
      BY DEF Allowed, Status
    <3>2. \A s \in {"active"} \cup Terminal : SetStatus(s, "complete") \in Terminal
      BY <3>1 DEF SetStatus, CanSet, Terminal
    <3> QED
      BY <1>0, <1>11, <3>2 DEF SFileAcked, Progress
  <2>2. \A f \in Files \ {sfile} : sstat'[f] = sstat[f]
    BY <1>0, <1>11 DEF SFileAcked
  <2>3. \A f \in Files : f < sfile => sstat'[f] \in Terminal
    BY <1>11, <2>1, <2>2 DEF SFileAcked, Progress
  <2>4. CASE sfile = N
    <3>1. \A f \in Files : f < sfile \/ f = sfile
      BY <2>4, ConstantsAssumption DEF Files
    <3>2. \A f \in Files : sstat'[f] \in Terminal
      BY <2>1, <2>3, <3>1
    <3>3. spc' = "fin"
      BY <1>11, <2>4 DEF SFileAcked
    <3> QED
      BY <3>2, <3>3 DEF Progress
  <2>5. CASE sfile # N
    <3>1. spc' = "file" /\ sfile' = sfile + 1
      BY <1>11, <2>5 DEF SFileAcked
    <3>2. \A f \in Files : /\ f < sfile + 1 <=> f < sfile \/ f = sfile
                           /\ f > sfile + 1 => f > sfile /\ f # sfile
      BY <1>0, ConstantsAssumption DEF Files
    <3>3. \A f \in Files : f < sfile' => sstat'[f] \in Terminal
      BY <2>1, <2>3, <3>1, <3>2
    <3>4. \A f \in Files : f > sfile => sstat[f] \in {"accepted",
       "resuming"} \cup Terminal
      BY <1>11 DEF SFileAcked, Progress
    <3>5. \A f \in Files : f > sfile' => sstat'[f] \in {"accepted",
       "resuming"} \cup Terminal
      BY <2>2, <3>1, <3>2, <3>4
    <3>6. sfile + 1 \in Files /\ sfile + 1 > sfile /\ sfile + 1 # sfile
      BY <1>0, <2>5, ConstantsAssumption DEF Files
    <3>7. sstat'[sfile'] \in {"accepted", "resuming"} \cup Terminal
      BY <2>2, <3>1, <3>4, <3>6
    <3> QED
      BY <3>1, <3>3, <3>5, <3>7 DEF Progress
  <2> QED
    BY <2>4, <2>5
<1>12. CASE SFinished
  BY <1>12 DEF SFinished, Progress
<1>13. CASE SenderStep
  <2>1. {"failed", "cancelled", "rejected"} \subseteq Terminal
    BY DEF Terminal
  <2> QED
    BY <1>2, <1>3, <1>4, <1>5, <1>6, <1>7, <1>8, <1>9, <1>10, <1>11, <1>12, <1>13, <2>1
       DEF SenderStep, SCancelIdle, SBreak, SCancelApproval, SRefused, SCancelStream,
         SSourceShort, SSourceGone, SFileRefused
<1>14. CASE SenderFault
  <2>1. {"failed", "cancelled", "rejected"} \subseteq Terminal
    BY DEF Terminal
  <2> QED
    BY <1>2, <1>3, <1>14, <2>1
       DEF SenderFault, SConnectFails, SUntrusted, SIdleTimeout, SApprovalTimeout
<1>15. ASSUME NEW c \in Conns, HandlerStep(c)
       PROVE  Progress'
  BY <1>1, <1>15, HandlerKeepsSender DEF senderVars
<1>16. CASE Environment \/ UNCHANGED vars
  BY <1>1, <1>16 DEF Environment, UserAccepts, UserRejects, UserCancels, SourceChange,
     LinkBreaks, HIdleTimeout, ReceiverCrash, senderVars, vars
<1> QED
  BY <1>13, <1>14, <1>15, <1>16 DEF Next

\* A worker that returns (is not killed by a refused status) leaves every file
\* of the transfer in a status that has ended.
THEOREM DoneMeansEnded == Spec => []DoneIsTerminal
<1>1. Init => Progress
  BY DEF Init, Progress
<1>2. Progress => DoneIsTerminal
  BY DEF Progress, DoneIsTerminal, Open
<1> QED
  BY <1>1, <1>2, ProgressStep, TypeInvariant, PTL DEF Spec

-----------------------------------------------------------------------------
(* Both sides agree on COMPLETE *)

\* The answers that the sender finds after its own step, or one of the
\* environment, were there before.
LEMMA OldAnswers ==
  ASSUME IInvT, SenderStep \/ SenderFault \/ Environment,
         NEW d \in Conns, NEW i \in 1..Len(toS'[d])
  PROVE  \E j \in 1..Len(toS[d]) : toS'[d][i] = toS[d][j]
<1>1. toS \in [Conns -> Seq(ToSender)] /\ attempt \in Conns
  BY DEF IInvT, TypeOK, NetTypeOK, SenderTypeOK
<1>2. CASE toS' = toS
  BY <1>2
<1>3. CASE Hangup
  BY <1>1, <1>3 DEF Hangup
<1>4. CASE SenderTakes /\ toS[attempt] # <<>>
  <2>1. CASE d # attempt
    BY <1>1, <1>4, <2>1 DEF SenderTakes
  <2>2. CASE d = attempt
    <3>1. toS'[d] = Tail(toS[d])
      BY <1>1, <1>4, <2>2 DEF SenderTakes
    <3>2. i + 1 \in 1..Len(toS[d]) /\ toS'[d][i] = toS[d][i + 1]
      BY <1>1, <1>4, <2>2, <3>1
    <3> QED
      BY <3>2
  <2> QED
    BY <2>1, <2>2
<1>5. ASSUME NEW c \in Conns, LinkBreaks(c)
      PROVE  \E j \in 1..Len(toS[d]) : toS'[d][i] = toS[d][j]
  <2>1. \E k \in 0..Len(toS[c]) : toS' = [toS EXCEPT ![c] = SubSeq(@, 1, k)]
    BY <1>5 DEF LinkBreaks
  <2>2. PICK k \in 0..Len(toS[c]) : toS' = [toS EXCEPT ![c] = SubSeq(@, 1, k)]
    BY <2>1
  <2>3. CASE d # c
    BY <1>1, <2>2, <2>3
  <2>4. CASE d = c
    <3>1. toS'[d] = SubSeq(toS[d], 1, k)
      BY <1>1, <2>2, <2>4
    <3>2. i \in 1..Len(toS[d]) /\ toS'[d][i] = toS[d][i]
      BY <1>1, <2>2, <2>4, <3>1
    <3> QED
      BY <3>2
  <2> QED
    BY <2>3, <2>4
<1>6. CASE SenderStep \/ SenderFault
  <2>1. CASE SConnect \/ SFileStart \/ SChunk \/ SFileEnd \/ SRetry
    BY <2>1, <1>2 DEF SConnect, SFileStart, SChunk, SFileEnd, SRetry, netVars
  <2>2. CASE SAccepted \/ SResumeState \/ SFileAcked
    BY <2>2, <1>4 DEF SAccepted, SResumeState, SFileAcked, NextForSender
  <2>3. CASE SCancelIdle \/ SBreak \/ SRefused \/ SSourceShort \/ SSourceGone
             \/ SFileRefused \/ SCancelApproval \/ SCancelStream \/ SFinished
             \/ SenderFault
    BY <2>3, <1>3
       DEF SCancelIdle, SBreak, SRefused, SSourceShort, SSourceGone, SFileRefused,
       SCancelApproval, SCancelStream, SFinished, SenderFault, SConnectFails,
       SUntrusted, SIdleTimeout, SApprovalTimeout, Interrupt, GiveUp
  <2> QED
    BY <1>6, <2>1, <2>2, <2>3 DEF SenderStep
<1>7. CASE Environment
  BY <1>2, <1>5, <1>7 DEF Environment, UserAccepts, UserRejects, UserCancels,
     SourceChange, HIdleTimeout, ReceiverCrash, netVars
<1> QED
  BY <1>6, <1>7

\* What a handler says: the answer to the offer, the state it resumes from, the
\* result of a file, the end of the session.
Says(c, m) ==
  \/ HBusy(c) /\ m = [type |-> "response", answer |-> "declined"]
  \/ HDecided(c) /\ m = [type |-> "response", answer |-> AnswerTo(inbox)]
  \/ HPrepare(c) /\ m.type = "resume_state"
  \/ HVerify(c) /\ m = [type |-> "file_result", file |-> hfile[c], ok |-> FALSE]
  \/ /\ HComplete(c) /\ rstat'[hfile[c]] = "complete"
     /\ m = [type |-> "file_result", file |-> hfile[c], ok |-> TRUE]
  \/ HFin(c) /\ m.type = "session_complete"

LEMMA NewAnswers ==
  ASSUME IInvT, NEW c \in Conns, HandlerStep(c),
         NEW d \in Conns, NEW i \in 1..Len(toS'[d])
  PROVE  \/ \E j \in 1..Len(toS[d]) : toS'[d][i] = toS[d][j]
         \/ d = c /\ Says(c, toS'[d][i])
<1>1. /\ toS \in [Conns -> Seq(ToSender)] /\ hfile[c] \in Files
      /\ rstat \in [Files -> Status \cup {None}]
  BY DEF IInvT, TypeOK, NetTypeOK, HandlerTypeOK, SharedTypeOK
<1>2. CASE toS' = toS
  BY <1>2
<1>3. ASSUME NEW m, Reply(c, m), Says(c, m)
      PROVE  \/ \E j \in 1..Len(toS[d]) : toS'[d][i] = toS[d][j]
             \/ d = c /\ Says(c, toS'[d][i])
  <2>1. CASE toS' = [toS EXCEPT ![c] = Append(@, m)]
    <3>1. (toS'[d][i] = m /\ d = c) \/ (i \in 1..Len(toS[d]) /\ toS'[d][i] = toS[d][i])
      BY <1>1, <2>1
    <3> QED
      BY <1>3, <3>1
  <2> QED
    BY <1>2, <1>3, <2>1 DEF Reply
<1>4. CASE HBusy(c)
  BY <1>3, <1>4 DEF HBusy, Says
<1>5. CASE HDecided(c)
  BY <1>3, <1>5 DEF HDecided, Says
<1>6. CASE HPrepare(c)
  BY <1>3, <1>6 DEF HPrepare, Says
<1>7. CASE HVerify(c)
  BY <1>2, <1>3, <1>7 DEF HVerify, Says
<1>8. CASE HComplete(c)
  <2>1. CASE CanSet(rstat[hfile[c]], "complete")
    BY <1>1, <1>3, <1>8, <2>1 DEF HComplete, Says
  <2> QED
    BY <1>2, <1>8, <2>1 DEF HComplete
<1>9. CASE HFin(c)
  BY <1>3, <1>9 DEF HFin, Says
<1>10. CASE ~(HBusy(c) \/ HDecided(c) \/ HPrepare(c) \/ HVerify(c) \/ HComplete(c) \/ HFin(c))
  BY <1>2, <1>10
     DEF HandlerStep, HOffer, HConflict, HLost, HPeerCancels, HPeerGone, HExpire,
       HFileStart, HUnexpected, HOpen, HChunkControl, HChunkData, HCancelled, HBadFrame,
       HInterrupted, HFileEnd, HPartialMissing, HVerifyLost, HLink, HUnlink, HMark,
       HCompleteLost, HCleanup, netVars
<1> QED
  BY <1>4, <1>5, <1>6, <1>7, <1>8, <1>9, <1>10

\* Complete is terminal: set_status does not take it back.
LEMMA CompleteIsEnd ==
  ASSUME NEW status, CanSet("complete", status)
  PROVE  status = "complete"
BY DEF CanSet, Allowed, Status

\* The receiver never takes COMPLETE back while it runs, whichever session
\* reopens the file.
LEMMA CompleteStands ==
  ASSUME IInvT, [Next]_vars, crashes' = crashes,
         NEW f \in Files, rstat[f] = "complete"
  PROVE  rstat'[f] = "complete"
<1>1. rstat \in [Files -> Status \cup {None}]
  BY DEF IInvT, TypeOK, SharedTypeOK
<1>2. ASSUME NEW c \in Conns, NEW status, LeaveWith(c, status)
      PROVE  rstat'[f] = "complete"
  BY <1>1, <1>2 DEF LeaveWith, SetStatus, CanSet, Allowed, Status
<1>3. ASSUME NEW c \in Conns, HFileStart(c)
      PROVE  rstat'[f] = "complete"
  <2>1. \A k : Reopened("complete", k) = "complete"
    BY DEF Reopened, Terminal, None
  <2>2. ~CanSet("complete", "active") /\ SetStatus("complete", "failed") = "complete"
    BY CompleteIsEnd DEF SetStatus
  <2> QED
    BY <1>1, <1>3, <2>1, <2>2 DEF HFileStart
<1>4. CASE rstat' = rstat
  BY <1>4
<1>5. ASSUME NEW c \in Conns, HandlerStep(c)
      PROVE  rstat'[f] = "complete"
  <2>1. CASE HCancelled(c) \/ HBadFrame(c) \/ HInterrupted(c) \/ HPartialMissing(c)
               \/ HVerifyLost(c)
    BY <1>2, <2>1
       DEF HCancelled, HBadFrame, HInterrupted, HPartialMissing, HVerifyLost
  <2>2. CASE HVerify(c) \/ HMark(c)
    BY <1>2, <1>4, <2>2 DEF HVerify, HMark
  <2>3. CASE HComplete(c) \/ HCompleteLost(c)
    BY <1>1, <1>2, <2>3 DEF HComplete, HCompleteLost
  <2>4. CASE ~(HFileStart(c) \/ HCancelled(c) \/ HBadFrame(c) \/ HInterrupted(c)
               \/ HPartialMissing(c) \/ HVerifyLost(c) \/ HVerify(c) \/ HMark(c)
               \/ HComplete(c) \/ HCompleteLost(c))
    BY <1>4, <1>5, <2>4
       DEF HandlerStep, HOffer, HBusy, HConflict, HLost, HPeerCancels, HPeerGone,
       HExpire, HDecided, HPrepare, HUnexpected, HOpen, HChunkControl, HChunkData,
          HFileEnd, HLink, HUnlink, HFin, HCleanup, sharedVars
  <2> QED
    BY <1>3, <2>1, <2>2, <2>3, <2>4
<1>6. CASE SenderStep \/ SenderFault
  BY <1>4, <1>6, SenderFrame DEF sharedVars
<1>7. CASE Environment
  <2>1. ~ReceiverCrash
    BY DEF ReceiverCrash, IInvT, TypeOK, BoundsTypeOK
  <2> QED
    BY <1>2, <1>4, <1>7, <2>1 DEF Environment, UserAccepts, UserRejects, UserCancels,
       SourceChange, LinkBreaks, HIdleTimeout, sharedVars
<1>8. CASE UNCHANGED vars
  BY <1>4, <1>8 DEF vars, sharedVars
<1> QED
  BY <1>5, <1>6, <1>7, <1>8 DEF Next

\* Only a crash counts as a crash.
LEMMA CrashCount ==
  ASSUME [Next]_vars
  PROVE  crashes' = crashes \/ ReceiverCrash
<1>1. CASE SenderStep \/ SenderFault
  BY <1>1, SenderFrame
<1>2. ASSUME NEW c \in Conns, HandlerStep(c)
      PROVE  crashes' = crashes
  BY <1>2 DEF boundVars, HandlerStep, HOffer, HBusy, HConflict, HLost, HPeerCancels,
     HPeerGone, HExpire, HDecided, HPrepare, HFileStart, HUnexpected, HOpen,
     HChunkControl, HChunkData, HCancelled, HBadFrame, HInterrupted, HFileEnd,
     HPartialMissing, HVerify, HVerifyLost, HLink, HUnlink, HMark, HComplete,
     HCompleteLost, HFin, HCleanup
<1>3. CASE Environment
  BY <1>3 DEF Environment, UserAccepts, UserRejects, UserCancels, SourceChange,
     LinkBreaks, HIdleTimeout, boundVars
<1> QED
  BY <1>1, <1>2, <1>3 DEF Next, vars, boundVars

\* A positive answer on its way speaks of a file that is COMPLETE.
AnswersComplete ==
  crashes = 0 => \A c \in Conns : \A i \in 1..Len(toS[c]) :
    toS[c][i].type = "file_result" /\ toS[c][i].ok => rstat[toS[c][i].file] = "complete"

LEMMA AgreementStep ==
  ASSUME IInvT, AnswersComplete, AckedIsComplete, [Next]_vars
  PROVE  AnswersComplete' /\ AckedIsComplete'
<1>1. SUFFICES ASSUME crashes' = 0
               PROVE  AnswersComplete' /\ AckedIsComplete'
  BY DEF AnswersComplete, AckedIsComplete
<1>2. crashes = 0
  BY <1>1, CrashCount DEF ReceiverCrash, IInvT, TypeOK, BoundsTypeOK
<1>3. \A f \in Files : rstat[f] = "complete" => rstat'[f] = "complete"
  BY <1>1, <1>2, CompleteStands
<1>4. toS \in [Conns -> Seq(ToSender)] /\ toS' \in [Conns -> Seq(ToSender)]
  BY TypeStep DEF IInvT, TypeOK, NetTypeOK
<1>5. ASSUME NEW d \in Conns, NEW i \in 1..Len(toS'[d]),
             toS'[d][i].type = "file_result", toS'[d][i].ok,
             \E j \in 1..Len(toS[d]) : toS'[d][i] = toS[d][j]
      PROVE  rstat'[toS'[d][i].file] = "complete"
  <2>1. PICK j \in 1..Len(toS[d]) : toS'[d][i] = toS[d][j]
    BY <1>5
  <2>2. toS[d][j] \in ToSender
    BY <1>4
  <2>3. toS[d][j].file \in Files
    BY <1>5, <2>1, <2>2 DEF ToSender
  <2> QED
    BY <1>2, <1>3, <1>5, <2>1, <2>3 DEF AnswersComplete
<1>6. AnswersComplete'
  <2>1. CASE SenderStep \/ SenderFault \/ Environment
    BY <1>5, <2>1, OldAnswers DEF AnswersComplete
  <2>2. ASSUME NEW c \in Conns, HandlerStep(c)
        PROVE  AnswersComplete'
    <3>1. ASSUME NEW m, Says(c, m), m.type = "file_result", m.ok
          PROVE  rstat'[m.file] = "complete"
      BY <3>1 DEF Says
    <3> QED
      BY <1>5, <2>2, <3>1, NewAnswers DEF AnswersComplete
  <2>3. CASE UNCHANGED vars
    BY <1>2, <2>3 DEF vars, netVars, sharedVars, AnswersComplete
  <2> QED
    BY <2>1, <2>2, <2>3 DEF Next
<1>7. AckedIsComplete'
  <2>1. CASE SenderStep \/ SenderFault
    <3>1. ASSUME NEW f \in Files, sstat'[f] = "complete"
          PROVE  rstat[f] = "complete"
      <4>1. CASE sstat[f] = "complete"
        BY <1>2, <4>1 DEF AckedIsComplete
      <4>2. CASE sstat[f] # "complete"
        <5>1. SFileAcked /\ f = sfile
          BY <2>1, <3>1, <4>2, CompletedByAnswer
        <5>2. /\ 1 \in 1..Len(toS[attempt]) /\ Head(toS[attempt]) = toS[attempt][1]
              /\ attempt \in Conns
          BY <5>1 DEF SFileAcked, IInvT, TypeOK, NetTypeOK, SenderTypeOK
        <5>3. Acknowledges(toS[attempt][1], sfile)
          BY <5>1, <5>2 DEF SFileAcked
        <5> QED
          BY <1>2, <5>1, <5>2, <5>3 DEF Acknowledges, AnswersComplete
      <4> QED
        BY <4>1, <4>2
    <3> QED
      BY <1>3, <3>1 DEF AckedIsComplete
  <2>2. CASE sstat' = sstat
    BY <1>2, <1>3, <2>2 DEF AckedIsComplete
  <2> QED
    BY <2>1, <2>2, HandlerKeepsSender DEF Next, Environment, UserAccepts, UserRejects,
       UserCancels, SourceChange, LinkBreaks, HIdleTimeout, ReceiverCrash, senderVars, vars
<1> QED
  BY <1>6, <1>7

\* As long as the receiving process lives, a file the sender shows as COMPLETE
\* is COMPLETE for the receiver (transfer.py:585-593 sets the status before the
\* answer), however attempts overlap.
THEOREM BothSayComplete == Spec => []AckedIsComplete
<1>1. Init => AnswersComplete /\ AckedIsComplete
  BY DEF Init, AnswersComplete, AckedIsComplete
<1>2. IInvT /\ AnswersComplete /\ AckedIsComplete /\ [Next]_vars =>
        AnswersComplete' /\ AckedIsComplete'
  BY AgreementStep
<1> QED
  BY <1>1, <1>2, TypeInvariant, PTL DEF Spec
-----------------------------------------------------------------------------
(* A rejected transfer has delivered nothing *)

\* A connection that the worker has not opened yet has no handler.
Follow ==
  \A c \in Conns : c > attempt \/ (c = attempt /\ spc = "connect") => hpc[c] = "idle"

\* A retry offers only files that are RESUMING, which set_status does not let
\* become REJECTED: only the first offer of a transfer can be rejected.
RetriesResume ==
  attempt > 0 /\ spc \in {"connect", "approval"} =>
    \A f \in Files : sstat[f] \in {"resuming"} \cup Terminal

\* Nothing is exposed while the first offer is undecided, nor when it has been
\* answered with a refusal, which is the last act of its handler.
UndecidedIsUndelivered ==
  attempt = 0 /\ hpc[0] \in {"idle", "offer", "await"} => committed = {}

Refuses(m) == m.type = "response" /\ m.answer # "accepted"

RefusedIsUndelivered ==
  attempt = 0 => \A i \in 1..Len(toS[0]) :
    Refuses(toS[0][i]) => committed = {} /\ hpc[0] = "closed"

\* A worker that shows REJECTED has ended on its first connection.
RejectedAtFirst ==
  \A f \in Files : sstat[f] = "rejected" =>
    /\ attempt = 0 /\ hpc[0] = "closed" /\ spc \in {"done", "dead"}
    /\ committed = {}

RejectionInv ==
  /\ Follow /\ RetriesResume /\ UndecidedIsUndelivered
  /\ RefusedIsUndelivered /\ RejectedAtFirst

\* Only an active handler steps, and never back to where it was not.
LEMMA HandlerMoves ==
  ASSUME IInvT, NEW c \in Conns, HandlerStep(c)
  PROVE  /\ hpc[c] \notin {"idle", "closed"} /\ hpc'[c] # "idle"
         /\ hpc'[c] \in {"offer", "await"} => hpc[c] \in {"offer", "await"}
<1>1. hpc \in [Conns -> HandlerPC] /\ hfile[c] \in Files
  BY DEF IInvT, TypeOK, HandlerTypeOK
<1>2. CASE hpc[c] \in {"offer", "await"}
  <2>1. HOffer(c) \/ HBusy(c) \/ HConflict(c) \/ HLost(c) \/ HPeerCancels(c)
           \/ HPeerGone(c) \/ HExpire(c) \/ HDecided(c)
    BY <1>2 DEF HandlerStep, HPrepare, HFileStart, HUnexpected, HOpen,
       HChunkControl, HChunkData, HCancelled, HBadFrame, HInterrupted, HFileEnd,
       HPartialMissing, HVerify, HVerifyLost, HLink, HUnlink, HMark, HComplete,
       HCompleteLost, HFin, HCleanup
  <2>2. hpc'[c] \in {"offer", "await", "closed", "query"}
    BY <1>1, <1>2, <2>1 DEF HOffer, HBusy, HConflict, HLost, HPeerCancels, HPeerGone,
       HExpire, HDecided, AnswerTo, Goto, Leave, handlerVars
  <2> QED
    BY <1>2, <2>2
<1>3. CASE hpc[c] \notin {"offer", "await"}
  <2>1. hpc[c] \in Approved
    BY <1>1, <1>3, ApprovedPlaces DEF HandlerStep, HOffer, HBusy, HConflict, HLost,
       HPeerCancels, HPeerGone, HExpire, HDecided, HPrepare, HFileStart,
       HUnexpected, HOpen, HChunkControl, HChunkData, HCancelled, HBadFrame,
       HInterrupted, HFileEnd, HPartialMissing, HVerify, HVerifyLost, HLink, HUnlink,
       HMark, HComplete, HCompleteLost, HFin, HCleanup
  <2>2. CASE HPrepare(c) \/ HFileStart(c) \/ HOpen(c) \/ HChunkControl(c) \/ HChunkData(c)
               \/ HFileEnd(c) \/ HVerify(c) \/ HLink(c) \/ HUnlink(c) \/ HMark(c)
               \/ HComplete(c) \/ HFin(c)
    BY <1>1, <2>1, <2>2, ApprovedPlaces
       DEF HPrepare, HFileStart, HOpen, HChunkControl, HChunkData, HFileEnd, HVerify,
       HLink, HUnlink, HMark, HComplete, HFin, AfterChunk, AfterFileEnd, NextFile, Goto,
       Leave, LeaveWith
  <2>3. CASE HOffer(c) \/ HBusy(c) \/ HConflict(c) \/ HPeerCancels(c) \/ HPeerGone(c)
               \/ HExpire(c) \/ HDecided(c)
    BY <1>3, <2>3
       DEF HOffer, HBusy, HConflict, HPeerCancels, HPeerGone, HExpire, HDecided
  <2>4. CASE HLost(c) \/ HUnexpected(c) \/ HCancelled(c) \/ HBadFrame(c)
               \/ HInterrupted(c) \/ HPartialMissing(c) \/ HVerifyLost(c)
               \/ HCompleteLost(c) \/ HCleanup(c)
    BY <1>1, <2>1, <2>4, ApprovedPlaces
       DEF HLost, HUnexpected, HCancelled, HBadFrame, HInterrupted, HPartialMissing,
       HVerifyLost, HCompleteLost, HCleanup, Leave, LeaveWith
  <2> QED
    BY <2>1, <2>2, <2>3, <2>4, ApprovedPlaces DEF HandlerStep
<1> QED
  BY <1>2, <1>3

\* The sender rejects a file only on a refusal of its offer.
LEMMA RejectedByAnswer ==
  ASSUME IInvT, SenderStep \/ SenderFault, NEW f \in Files,
         sstat'[f] = "rejected", sstat[f] # "rejected"
  PROVE  SRefused /\ CanSet(sstat[f], "rejected") /\ sstat[f] \notin Terminal
<1>1. sstat \in [Files -> Status] /\ sfile \in Files
  BY DEF IInvT, TypeOK, SenderTypeOK
<1>2. ASSUME NEW status, NEW pc, SetOpen(status, pc)
      PROVE  /\ status = "rejected" /\ sstat[f] \notin Terminal
             /\ CanSet(sstat[f], "rejected")
  <2>1. f \in Open /\ status = "rejected" /\ ~\E g \in Refused(status) : g <= f
    BY <1>2 DEF SetOpen
  <2>2. f <= f
    BY DEF Files
  <2> QED
    BY <2>1, <2>2 DEF Refused, Open
<1>3. ~(Interrupt \/ SRetry)
  BY <1>2 DEF Interrupt, SRetry
<1>4. ASSUME NEW status, GiveUp(status)
      PROVE  /\ status = "rejected" /\ sstat[f] \notin Terminal
             /\ CanSet(sstat[f], "rejected")
  BY <1>2, <1>4 DEF GiveUp
<1>5. ~SenderFault
  BY <1>3, <1>4
     DEF SenderFault, SConnectFails, SUntrusted, SIdleTimeout, SApprovalTimeout
<1>6. ~(SCancelIdle \/ SBreak \/ SCancelApproval \/ SCancelStream \/ SSourceShort
        \/ SSourceGone \/ SFileRefused)
  BY <1>3, <1>4
     DEF SCancelIdle, SBreak, SCancelApproval, SCancelStream, SSourceShort,
     SSourceGone, SFileRefused
<1>7. ~(SConnect \/ SAccepted \/ SResumeState \/ SChunk \/ SFileEnd \/ SFinished)
  BY <1>1 DEF SConnect, SAccepted, SResumeState, SChunk, SFileEnd, SFinished
<1>8. ~SFileStart
  <2>1. \A s, k : s # "rejected" => Streaming(s, k) # "rejected"
    BY DEF Streaming, SetStatus
  <2> QED
    BY <1>1, <2>1 DEF SFileStart
<1>10. ~SFileAcked
  <2>1. \A s : s # "rejected" => SetStatus(s, "complete") # "rejected"
    BY DEF SetStatus
  <2> QED
    BY <1>1, <2>1 DEF SFileAcked
<1>9. SRefused
  BY <1>3, <1>5, <1>6, <1>7, <1>8, <1>10 DEF SenderStep
<1> QED
  BY <1>4, <1>9 DEF SRefused
\* Only a retry returns to connect, on the next connection; a worker that has
\* ended does nothing.
LEMMA SenderMoves ==
  ASSUME IInvT, SenderStep \/ SenderFault
  PROVE  /\ spc \notin {"done", "dead"}
         /\ \/ attempt' = attempt /\ spc' # "connect"
            \/ SRetry /\ attempt' = attempt + 1
         /\ attempt' \in Nat /\ attempt \in Nat
<1>1. attempt \in Nat
  BY ConstantsAssumption DEF IInvT, TypeOK, SenderTypeOK, Conns
<1>2. ASSUME NEW status, GiveUp(status)
      PROVE  attempt' = attempt /\ spc' # "connect"
  BY <1>2 DEF GiveUp, SetOpen
<1>3. ASSUME Interrupt
      PROVE  attempt' = attempt /\ spc' # "connect"
  BY <1>3 DEF Interrupt, SetOpen
<1>4. spc \notin {"done", "dead"}
  BY DEF SenderStep, SenderFault, SCancelIdle, SConnect, SBreak, SCancelApproval,
     SRefused, SAccepted, SResumeState, SFileStart, SChunk, SCancelStream,
     SSourceShort, SSourceGone, SFileEnd, SFileAcked, SFileRefused, SFinished, SRetry,
     SConnectFails, SUntrusted, SIdleTimeout, SApprovalTimeout, InSession,
     SenderReading, SenderSending
<1>5. CASE SenderFault
  BY <1>1, <1>2, <1>3, <1>4, <1>5
     DEF SenderFault, SConnectFails, SUntrusted, SIdleTimeout, SApprovalTimeout
<1>6. CASE SRetry
  BY <1>1, <1>4, <1>6 DEF SRetry
<1>7. CASE SenderStep /\ ~SRetry
  <2>1. attempt' = attempt /\ spc' # "connect"
    BY <1>2, <1>3, <1>7
       DEF SenderStep, SCancelIdle, SConnect, SBreak, SCancelApproval, SRefused,
       SAccepted, SResumeState, SFileStart, SChunk, SCancelStream, SSourceShort,
       SSourceGone, SFileEnd, SFileAcked, SFileRefused, SFinished
  <2> QED
    BY <1>1, <1>4, <2>1
<1> QED
  BY <1>5, <1>6, <1>7

\* What the environment does to the places: a crash and a timeout close open
\* handlers, nothing else moves one, and only the sender moves the sender.
LEMMA EnvironmentMoves ==
  ASSUME IInvT, Environment
  PROVE  /\ UNCHANGED <<spc, attempt, sstat, committed>>
         /\ \A c \in Conns : \/ hpc'[c] = hpc[c]
                             \/ hpc[c] \notin Ended /\ hpc'[c] = "closed"
<1>1. hpc \in [Conns -> HandlerPC]
  BY DEF IInvT, TypeOK, HandlerTypeOK
<1>2. UNCHANGED <<spc, attempt, sstat, committed>>
  BY DEF Environment, UserAccepts, UserRejects, UserCancels, SourceChange, LinkBreaks,
     HIdleTimeout, ReceiverCrash, senderVars, diskVars
<1>3. CASE UserAccepts \/ UserRejects \/ UserCancels \/ (\E f \in Files : SourceChange(f))
             \/ \E c \in Conns : LinkBreaks(c)
  BY <1>2, <1>3 DEF UserAccepts, UserRejects, UserCancels, SourceChange, LinkBreaks,
     handlerVars
<1>4. CASE ReceiverCrash
  BY <1>1, <1>2, <1>4 DEF ReceiverCrash, HandlerOpen
<1>5. ASSUME NEW c \in Conns, HIdleTimeout(c)
      PROVE  \A d \in Conns : \/ hpc'[d] = hpc[d]
                              \/ hpc[d] \notin Ended /\ hpc'[d] = "closed"
  BY <1>1, <1>5 DEF HIdleTimeout, Leave, LeaveWith, HandlerReading, Ended
<1> QED
  BY <1>2, <1>3, <1>4, <1>5 DEF Environment

LEMMA FollowStep == IInvT /\ Follow /\ [Next]_vars => Follow'
<1> SUFFICES ASSUME IInvT, Follow, [Next]_vars,
                    NEW c \in Conns, c > attempt' \/ (c = attempt' /\ spc' = "connect")
             PROVE  hpc'[c] = "idle"
  BY DEF Follow
<1>1. hpc \in [Conns -> HandlerPC] /\ \A a, b \in Conns : a \in Nat /\ b \in Nat
  BY DEF IInvT, TypeOK, HandlerTypeOK, Conns
<1>2. CASE SenderStep \/ SenderFault
  <2>1. c > attempt
    BY <1>1, <1>2, SenderMoves
  <2>2. hpc[c] = "idle"
    BY <2>1 DEF Follow
  <2>3. CASE UNCHANGED handlerVars
    BY <2>2, <2>3 DEF handlerVars
  <2>4. CASE SConnect
    <3>1. attempt # c
      BY <1>1, <1>2, <2>1, SenderMoves
    <3> QED
      BY <1>1, <2>2, <2>4, <3>1 DEF SConnect
  <2> QED
    BY <1>2, <2>3, <2>4, SenderFrame
<1>3. ASSUME NEW d \in Conns, HandlerStep(d)
      PROVE  hpc'[c] = "idle"
  <2>1. attempt' = attempt /\ spc' = spc
    BY <1>3, HandlerKeepsSender DEF senderVars
  <2>2. hpc[c] = "idle" /\ c # d
    BY <1>3, <2>1, HandlerMoves DEF Follow
  <2> QED
    BY <1>3, <2>2, HandlerApproval
<1>4. CASE Environment
  BY <1>4, EnvironmentMoves DEF Follow, Ended
<1>5. CASE UNCHANGED vars
  BY <1>5 DEF vars, senderVars, handlerVars, Follow
<1> QED
  BY <1>2, <1>3, <1>4, <1>5 DEF Next
LEMMA RetriesResumeStep == IInvT /\ RetriesResume /\ [Next]_vars => RetriesResume'
<1> SUFFICES ASSUME IInvT, RetriesResume, [Next]_vars
             PROVE  RetriesResume'
  OBVIOUS
<1>1. CASE SRetry
  <2>1. CASE spc' = "dead"
    BY <2>1 DEF RetriesResume
  <2>2. CASE spc' # "dead"
    <3>1. \A f \in Files : sstat'[f] \in {"resuming"} \cup Terminal
      BY <1>1, <2>2, SetOpenAll DEF SRetry
    <3> QED
      BY <3>1 DEF RetriesResume
  <2> QED
    BY <2>1, <2>2
<1>2. CASE SConnect
  BY <1>2 DEF SConnect, RetriesResume
<1>3. CASE (SenderStep \/ SenderFault) /\ ~SRetry /\ ~SConnect
  <2>1. ASSUME NEW status, GiveUp(status)
        PROVE  spc' \notin {"connect", "approval"}
    BY <2>1 DEF GiveUp, SetOpen
  <2>2. ASSUME Interrupt
        PROVE  spc' \notin {"connect", "approval"}
    BY <2>2 DEF Interrupt, SetOpen
  <2>3. spc' \notin {"connect", "approval"}
    BY <1>3, <2>1, <2>2
       DEF SenderStep, SCancelIdle, SBreak, SCancelApproval, SRefused, SAccepted,
       SResumeState, SFileStart, SChunk, SCancelStream, SSourceShort, SSourceGone,
       SFileEnd, SFileAcked, SFileRefused, SFinished, SenderFault, SConnectFails,
       SUntrusted, SIdleTimeout, SApprovalTimeout
  <2> QED
    BY <2>3 DEF RetriesResume
<1>4. CASE UNCHANGED <<spc, attempt, sstat>>
  BY <1>4 DEF RetriesResume
<1>5. CASE Environment \/ UNCHANGED vars
  BY <1>4, <1>5, EnvironmentMoves DEF vars, senderVars
<1>6. ASSUME NEW c \in Conns, HandlerStep(c)
      PROVE  RetriesResume'
  BY <1>4, <1>6, HandlerKeepsSender DEF senderVars
<1> QED
  BY <1>1, <1>2, <1>3, <1>5, <1>6 DEF Next

\* While the worker is at its first connection no other handler exposes a file.
LEMMA FirstHandlerOnly ==
  ASSUME IInvT, Follow, [Next]_vars, attempt = 0, committed' # committed
  PROVE  HLink(0)
<1>1. \A c \in Conns : c # 0 => c > 0
  BY ConstantsAssumption DEF Conns
<1>2. PICK c \in Conns : HOpen(c) \/ HChunkData(c) \/ HLink(c)
  BY DiskChange
<1>3. HLink(c)
  BY <1>2 DEF HOpen, HChunkData
<1>4. hpc[c] # "idle"
  BY <1>3 DEF HLink
<1> QED
  BY <1>1, <1>3, <1>4 DEF Follow

LEMMA UndecidedStep ==
  IInvT /\ Follow /\ UndecidedIsUndelivered /\ [Next]_vars => UndecidedIsUndelivered'
<1> SUFFICES ASSUME IInvT, Follow, UndecidedIsUndelivered, [Next]_vars,
                    attempt' = 0, hpc'[0] \in {"idle", "offer", "await"}
             PROVE  committed' = {}
  BY DEF UndecidedIsUndelivered
<1>0. 0 \in Conns /\ hpc \in [Conns -> HandlerPC]
  BY ConstantsAssumption DEF Conns, IInvT, TypeOK, HandlerTypeOK
<1>1. attempt = 0 /\ hpc[0] \in {"idle", "offer", "await"}
  <2>1. CASE SenderStep \/ SenderFault
    <3>1. attempt' = attempt
      BY <2>1, SenderMoves
    <3>2. CASE SConnect
      BY <1>0, <3>1, <3>2 DEF SConnect, Follow
    <3>3. CASE UNCHANGED handlerVars
      BY <3>1, <3>3 DEF handlerVars
    <3> QED
      BY <2>1, <3>2, <3>3, SenderFrame
  <2>2. ASSUME NEW c \in Conns, HandlerStep(c)
        PROVE  attempt = 0 /\ hpc[0] \in {"idle", "offer", "await"}
    BY <1>0, <2>2, HandlerKeepsSender, HandlerMoves, HandlerApproval DEF senderVars
  <2>3. CASE Environment
    BY <1>0, <2>3, EnvironmentMoves
  <2>4. CASE UNCHANGED vars
    BY <2>4 DEF vars, senderVars, handlerVars
  <2> QED
    BY <2>1, <2>2, <2>3, <2>4 DEF Next
<1>2. committed = {}
  BY <1>1 DEF UndecidedIsUndelivered
<1>3. ~HLink(0)
  BY <1>1 DEF HLink
<1> QED
  BY <1>1, <1>2, <1>3, FirstHandlerOnly

\* A closed handler of the first connection stays closed, and exposes nothing.
LEMMA ClosedStays ==
  ASSUME IInvT, Follow, [Next]_vars, attempt = 0, hpc[0] = "closed"
  PROVE  hpc'[0] = "closed" /\ committed' = committed
<1>0. 0 \in Conns /\ hpc \in [Conns -> HandlerPC]
  BY ConstantsAssumption DEF Conns, IInvT, TypeOK, HandlerTypeOK
<1>1. CASE SenderStep \/ SenderFault
  <2>1. ~SConnect
    BY <1>0 DEF SConnect, Follow
  <2> QED
    BY <1>1, <2>1, SenderFrame DEF handlerVars, diskVars
<1>2. ASSUME NEW c \in Conns, HandlerStep(c)
      PROVE  hpc'[0] = "closed"
  BY <1>0, <1>2, HandlerMoves, HandlerApproval
<1>3. CASE Environment
  BY <1>0, <1>3, EnvironmentMoves DEF Ended
<1>4. CASE UNCHANGED vars
  BY <1>4 DEF vars, handlerVars, diskVars
<1>5. ~HLink(0)
  BY DEF HLink
<1> QED
  BY <1>1, <1>2, <1>3, <1>4, <1>5, FirstHandlerOnly DEF Next

LEMMA RefusedStep ==
  ASSUME IInvT, Follow, UndecidedIsUndelivered, RefusedIsUndelivered, [Next]_vars
  PROVE  RefusedIsUndelivered'
<1> SUFFICES ASSUME attempt' = 0, NEW i \in 1..Len(toS'[0]), Refuses(toS'[0][i])
             PROVE  committed' = {} /\ hpc'[0] = "closed"
  BY DEF RefusedIsUndelivered
<1>0. 0 \in Conns /\ hpc \in [Conns -> HandlerPC]
  BY ConstantsAssumption DEF Conns, IInvT, TypeOK, HandlerTypeOK
<1>1. ASSUME attempt = 0, \E j \in 1..Len(toS[0]) : toS'[0][i] = toS[0][j]
      PROVE  committed' = {} /\ hpc'[0] = "closed"
  BY <1>1, ClosedStays DEF RefusedIsUndelivered
<1>2. CASE SenderStep \/ SenderFault
  <2>1. attempt = 0
    BY <1>2, SenderMoves
  <2> QED
    BY <1>0, <1>1, <1>2, <2>1, OldAnswers
<1>3. CASE Environment
  BY <1>0, <1>1, <1>3, EnvironmentMoves, OldAnswers
<1>4. ASSUME NEW c \in Conns, HandlerStep(c)
      PROVE  committed' = {} /\ hpc'[0] = "closed"
  <2>1. attempt = 0
    BY <1>4, HandlerKeepsSender DEF senderVars
  <2>2. CASE c = 0 /\ Says(c, toS'[0][i])
    <3>1. ASSUME NEW m, Says(c, m), Refuses(m)
          PROVE  HBusy(c) \/ (HDecided(c) /\ AnswerTo(inbox) # "accepted")
      BY <3>1 DEF Says, Refuses
    <3>2. HBusy(c) \/ (HDecided(c) /\ AnswerTo(inbox) # "accepted")
      BY <2>2, <3>1
    <3>3. hpc[0] \in {"offer", "await"} /\ hpc'[0] = "closed" /\ committed' = committed
      BY <1>0, <2>2, <3>2 DEF HBusy, HDecided, Leave, diskVars
    <3> QED
      BY <2>1, <3>3 DEF UndecidedIsUndelivered
  <2> QED
    BY <1>0, <1>1, <1>4, <2>1, <2>2, NewAnswers
<1>5. CASE UNCHANGED vars
  BY <1>1, <1>5 DEF vars, senderVars, netVars
<1> QED
  BY <1>2, <1>3, <1>4, <1>5 DEF Next

LEMMA RejectedStep ==
  ASSUME IInvT, RejectionInv, [Next]_vars
  PROVE  RejectedAtFirst'
<1> SUFFICES ASSUME NEW f \in Files, sstat'[f] = "rejected"
             PROVE  /\ attempt' = 0 /\ hpc'[0] = "closed" /\ spc' \in {"done", "dead"}
                    /\ committed' = {}
  BY DEF RejectedAtFirst
<1>1. CASE sstat[f] = "rejected"
  <2>1. /\ attempt = 0 /\ hpc[0] = "closed" /\ spc \in {"done", "dead"}
        /\ committed = {}
    BY <1>1 DEF RejectionInv, RejectedAtFirst
  <2>2. hpc'[0] = "closed" /\ committed' = {}
    BY <2>1, ClosedStays DEF RejectionInv
  <2>3. spc' = spc /\ attempt' = attempt
    BY <2>1, SenderMoves, HandlerKeepsSender, EnvironmentMoves
       DEF Next, vars, senderVars
  <2> QED
    BY <2>1, <2>2, <2>3
<1>2. CASE sstat[f] # "rejected"
  <2>1. SenderStep \/ SenderFault
    BY <1>2, HandlerKeepsSender, EnvironmentMoves DEF Next, vars, senderVars
  <2>2. SRefused /\ CanSet(sstat[f], "rejected") /\ sstat[f] \notin Terminal
    BY <1>2, <2>1, RejectedByAnswer
  <2>3. ~CanSet("resuming", "rejected")
    BY DEF CanSet, Allowed, Status
  <2>4. attempt = 0
    <3>1. attempt \in Nat
      BY ConstantsAssumption DEF IInvT, TypeOK, SenderTypeOK, Conns
    <3>2. spc = "approval"
      BY <2>2 DEF SRefused
    <3> QED
      BY <2>2, <2>3, <3>1, <3>2 DEF RejectionInv, RetriesResume
  <2>5. committed = {} /\ hpc[0] = "closed"
    <3>1. 1 \in 1..Len(toS[0]) /\ Head(toS[0]) = toS[0][1]
      BY <2>2, <2>4 DEF SRefused, NextForSender, IInvT, TypeOK, NetTypeOK, SenderTypeOK
    <3>2. Refuses(toS[0][1])
      BY <2>2, <2>4, <3>1 DEF SRefused, NextForSender, Refuses
    <3> QED
      BY <2>4, <3>1, <3>2 DEF RejectionInv, RefusedIsUndelivered
  <2>6. hpc'[0] = "closed" /\ committed' = {}
    BY <2>4, <2>5, ClosedStays DEF RejectionInv
  <2>7. attempt' = attempt /\ spc' \in {"done", "dead"}
    BY <2>2 DEF SRefused, GiveUp, SetOpen
  <2> QED
    BY <2>4, <2>6, <2>7
<1> QED
  BY <1>1, <1>2

\* A file the sender reports as REJECTED has not been exposed to the receiving
\* user by any session of the transfer (transfer.py:1005-1019): only the first
\* offer can be rejected, and its handler exposes nothing before or after.
THEOREM NothingRejectedIsExposed == Spec => []RejectedIsUndelivered
<1>1. Init => RejectionInv
  BY ConstantsAssumption
     DEF Init, RejectionInv, Follow, RetriesResume, UndecidedIsUndelivered,
     RefusedIsUndelivered, RejectedAtFirst, Conns
<1>2. IInvT /\ RejectionInv /\ [Next]_vars => RejectionInv'
  BY FollowStep, RetriesResumeStep, UndecidedStep, RefusedStep, RejectedStep
     DEF RejectionInv
<1>3. RejectionInv => RejectedIsUndelivered
  BY DEF RejectionInv, RejectedAtFirst, RejectedIsUndelivered, Delivered
<1> QED
  BY <1>1, <1>2, <1>3, TypeInvariant, PTL DEF Spec

-----------------------------------------------------------------------------
(* How often a file is exposed when attempts overlap: each session exposes it *)
(* at most once, so there are no more copies than attempts.                   *)

\* The steps of a handler that leave the disk as it is and do not lead to a file.
Aside(c) ==
  \/ HOffer(c) \/ HBusy(c) \/ HConflict(c) \/ HLost(c) \/ HPeerCancels(c)
  \/ HPeerGone(c) \/ HExpire(c) \/ HDecided(c) \/ HUnexpected(c) \/ HCancelled(c)
  \/ HBadFrame(c) \/ HInterrupted(c) \/ HPartialMissing(c) \/ HVerifyLost(c)
  \/ HCompleteLost(c) \/ HFin(c)

LEMMA AsideFacts ==
  ASSUME IInvT, NEW c \in Conns, Aside(c)
  PROVE  /\ UNCHANGED <<diskVars, hfile, hstate, hpos, hino>>
         /\ hpc'[c] \in {"offer", "await", "query", "closed", "cleanup"}
         /\ hpc'[c] = "cleanup" => hpc[c] = "fin"
<1>1. hpc \in [Conns -> HandlerPC]
  BY DEF IInvT, TypeOK, HandlerTypeOK
<1>2. CASE HOffer(c) \/ HBusy(c) \/ HConflict(c) \/ HLost(c) \/ HPeerCancels(c)
           \/ HPeerGone(c) \/ HExpire(c) \/ HDecided(c)
  BY <1>1, <1>2 DEF HOffer, HBusy, HConflict, HLost, HPeerCancels, HPeerGone, HExpire,
     HDecided, handlerVars, Goto, Leave
<1>3. CASE HUnexpected(c) \/ HCancelled(c) \/ HBadFrame(c) \/ HInterrupted(c)
           \/ HPartialMissing(c) \/ HVerifyLost(c) \/ HCompleteLost(c) \/ HFin(c)
  BY <1>1, <1>3 DEF HUnexpected, HCancelled, HBadFrame, HInterrupted, HPartialMissing,
     HVerifyLost, HCompleteLost, HFin, Goto, Leave, LeaveWith
<1> QED
  BY <1>2, <1>3 DEF Aside

\* The other steps of a handler.
LEMMA OnFile ==
  ASSUME NEW c \in Conns, HandlerStep(c), ~Aside(c)
  PROVE  \/ HPrepare(c) \/ HFileStart(c) \/ HOpen(c) \/ HChunkControl(c)
         \/ HChunkData(c) \/ HFileEnd(c) \/ HVerify(c) \/ HLink(c) \/ HUnlink(c)
         \/ HMark(c) \/ HComplete(c) \/ HCleanup(c)
  BY DEF HandlerStep, Aside

\* A handler moves no other handler within a file or to another one, and exposes one
\* only by os.link.
LEMMA HandlerFiles ==
  ASSUME IInvT, NEW c \in Conns, HandlerStep(c), NEW d \in Conns \ {c}
  PROVE  hfile'[d] = hfile[d] /\ hpos'[d] = hpos[d]
<1>1. hfile \in [Conns -> Files] /\ hpos \in [Conns -> Nat]
  BY DEF IInvT, TypeOK, HandlerTypeOK
<1>2. CASE Aside(c)
  BY <1>2, AsideFacts
<1>3. CASE HPrepare(c) \/ HFileStart(c) \/ HOpen(c) \/ HChunkControl(c) \/ HChunkData(c)
           \/ HFileEnd(c) \/ HVerify(c) \/ HLink(c) \/ HUnlink(c) \/ HMark(c) \/ HCleanup(c)
           \/ HComplete(c)
  BY <1>1, <1>3
     DEF HPrepare, HFileStart, HOpen, HChunkControl, HChunkData, HFileEnd, HVerify, HLink,
     HUnlink, HMark, HCleanup, HComplete, NextFile
<1> QED
  BY <1>2, <1>3, OnFile

LEMMA HandlerCommits ==
  ASSUME IInvT, NEW c \in Conns, HandlerStep(c)
  PROVE  committed' = committed \/ HLink(c)
<1>1. CASE Aside(c)
  BY <1>1, AsideFacts DEF diskVars
<1>2. CASE HPrepare(c) \/ HFileStart(c) \/ HOpen(c) \/ HChunkControl(c) \/ HChunkData(c)
           \/ HFileEnd(c) \/ HVerify(c) \/ HUnlink(c) \/ HMark(c) \/ HCleanup(c)
           \/ HComplete(c)
  BY <1>2
     DEF HPrepare, HFileStart, HOpen, HChunkControl, HChunkData, HFileEnd, HVerify,
     HUnlink, HMark, HCleanup, HComplete, diskVars
<1> QED
  BY <1>1, <1>2, OnFile

\* Where a handler is before its first file, and where it is past the link of
\* the file it has in hand.
Early == {"idle", "offer", "await", "query"}
PastLink == {"unlink", "mark", "complete", "fin", "cleanup"}

\* An open handler is past every file it has exposed.
BehindHandler(r) ==
  /\ hpc[r.by] \notin Early
  /\ hpc[r.by] # "closed" =>
       \/ r.file < hfile[r.by]
       \/ r.file = hfile[r.by] /\ hpc[r.by] \in PastLink

ExposedBehind == \A r \in committed : BehindHandler(r)

\* A session exposes a file at most once (transfer.py:646-673), whatever other
\* sessions of the transfer do to the partial file meanwhile.
OncePerSession ==
  \A r, s \in committed : r.file = s.file /\ r.by = s.by => r = s

\* There are no more copies of a file than there have been attempts.
CopiesWithinAttempts ==
  \A f \in Files : Cardinality({r \in committed : r.file = f}) <= attempt + 1

\* No step of the handler takes it back to a file it has exposed.
LEMMA BehindOwn ==
  ASSUME IInvT, NEW r \in CommitRecord, BehindHandler(r), HandlerStep(r.by)
  PROVE  BehindHandler(r)'
<1> DEFINE c == r.by
<1> USE DEF Early, PastLink, BehindHandler
<1>1. /\ c \in Conns /\ hpc \in [Conns -> HandlerPC] /\ hfile \in [Conns -> Files]
      /\ r.file \in Nat /\ hfile[c] \in Nat /\ N \in Nat
  <2>1. N \in Nat /\ \A f \in Files : f \in Nat
    BY ConstantsAssumption DEF Files
  <2>2. r.by \in Conns /\ r.file \in Files
    BY DEF CommitRecord
  <2> QED
    BY <2>1, <2>2 DEF IInvT, TypeOK, HandlerTypeOK
<1>2. CASE Aside(c)
  <2>1. ~(HOffer(c) \/ HBusy(c) \/ HConflict(c) \/ HPeerCancels(c) \/ HPeerGone(c)
            \/ HExpire(c) \/ HDecided(c))
    BY DEF HOffer, HBusy, HConflict, HPeerCancels, HPeerGone, HExpire, HDecided
  <2>2. hpc'[c] \in {"closed", "cleanup"}
    BY <1>1, <1>2, <2>1
       DEF Aside, HLost, HUnexpected, HCancelled, HBadFrame, HInterrupted,
       HPartialMissing, HVerifyLost, HCompleteLost, HFin, Goto, Leave, LeaveWith
  <2> QED
    BY <1>1, <1>2, <2>2, AsideFacts
<1>3. CASE HPrepare(c)
  BY <1>3 DEF HPrepare
<1>4. CASE HFileStart(c) \/ HOpen(c) \/ HChunkControl(c) \/ HChunkData(c) \/ HFileEnd(c)
           \/ HVerify(c) \/ HLink(c) \/ HUnlink(c) \/ HMark(c) \/ HCleanup(c)
  BY <1>1, <1>4
     DEF HFileStart, HOpen, HChunkControl, HChunkData, HFileEnd, HVerify, HLink, HUnlink,
     HMark, HCleanup, AfterChunk, AfterFileEnd, Goto, Leave, LeaveWith
<1>5. CASE HComplete(c)
  BY <1>1, <1>5 DEF HComplete, NextFile, Goto, Leave, LeaveWith
<1> QED
  BY <1>1, <1>2, <1>3, <1>4, <1>5, OnFile

LEMMA BehindStep ==
  ASSUME IInvT, Follow, ExposedBehind, [Next]_vars
  PROVE  ExposedBehind'
<1>1. /\ hpc \in [Conns -> HandlerPC] /\ hfile \in [Conns -> Files]
      /\ committed \in SUBSET CommitRecord
  BY DEF IInvT, TypeOK, HandlerTypeOK, DiskTypeOK
<1>2. ASSUME NEW r \in committed, hfile'[r.by] = hfile[r.by],
             hpc'[r.by] \in {hpc[r.by], "closed"}
      PROVE  BehindHandler(r)'
  BY <1>2 DEF ExposedBehind, BehindHandler, Early
<1>3. \A r \in committed : r \in CommitRecord /\ r.by \in Conns /\ hpc[r.by] # "idle"
  BY <1>1 DEF CommitRecord, ExposedBehind, BehindHandler, Early
<1>4. CASE SenderStep \/ SenderFault
  <2>1. committed' = committed
    BY <1>4, SenderFrame DEF diskVars
  <2>2. CASE UNCHANGED handlerVars
    BY <1>2, <2>1, <2>2 DEF handlerVars, ExposedBehind
  <2>3. CASE SConnect
    <3>1. attempt \in Conns /\ hpc[attempt] = "idle"
      BY <2>3 DEF SConnect, Follow, IInvT, TypeOK, SenderTypeOK
    <3>2. UNCHANGED hfile /\ \A c \in Conns \ {attempt} : hpc'[c] = hpc[c]
      BY <1>1, <2>3 DEF SConnect
    <3> QED
      BY <1>2, <1>3, <2>1, <3>1, <3>2 DEF ExposedBehind
  <2> QED
    BY <1>4, <2>2, <2>3, SenderFrame
<1>5. CASE Environment
  <2>1. hfile' = hfile
    BY <1>5 DEF Environment, UserAccepts, UserRejects, UserCancels, SourceChange,
       LinkBreaks, HIdleTimeout, ReceiverCrash, handlerVars
  <2> QED
    BY <1>2, <1>3, <1>5, <2>1, EnvironmentMoves DEF ExposedBehind
<1>6. ASSUME NEW c \in Conns, HandlerStep(c)
      PROVE  ExposedBehind'
  <2>1. \A d \in Conns \ {c} : hpc'[d] = hpc[d] /\ hfile'[d] = hfile[d]
    BY <1>1, <1>6, HandlerApproval, HandlerFiles
  <2>2. \A r \in committed : BehindHandler(r)'
    BY <1>2, <1>3, <1>6, <2>1, BehindOwn DEF ExposedBehind
  <2>3. CASE committed' = committed
    BY <2>2, <2>3 DEF ExposedBehind
  <2>4. CASE HLink(c)
    <3>1. PICK r : r = [file |-> hfile[c], by |-> c, ino |-> partial[hfile[c]]]
      OBVIOUS
    <3>2. /\ r.by = c /\ r.file = hfile[c]
          /\ committed' = committed \cup {r} /\ hpc'[c] = "unlink" /\ hfile' = hfile
      BY <1>1, <2>4, <3>1 DEF HLink, Goto
    <3>3. BehindHandler(r)'
      BY <3>2 DEF BehindHandler, Early, PastLink
    <3> QED
      BY <2>2, <3>2, <3>3 DEF ExposedBehind
  <2> QED
    BY <1>6, <2>3, <2>4, HandlerCommits
<1>7. CASE UNCHANGED vars
  BY <1>2, <1>7 DEF vars, handlerVars, diskVars, ExposedBehind
<1> QED
  BY <1>4, <1>5, <1>6, <1>7 DEF Next

LEMMA OnceStepPerSession ==
  ASSUME IInvT, ExposedBehind, OncePerSession, [Next]_vars
  PROVE  OncePerSession'
<1>1. CASE committed' = committed
  BY <1>1 DEF OncePerSession
<1>2. ASSUME NEW c \in Conns, HLink(c)
      PROVE  OncePerSession'
  <2> DEFINE r == [file |-> hfile[c], by |-> c, ino |-> partial[hfile[c]]]
  <2>1. r.by = c /\ r.file = hfile[c]
    OBVIOUS
  <2>2. committed' = committed \cup {r} /\ hpc[c] = "link"
    BY <1>2 DEF HLink
  <2> HIDE DEF r
  <2>3. \A s \in committed : ~(s.by = c /\ s.file = hfile[c])
    <3>1. hfile[c] \in Nat
      BY ConstantsAssumption DEF IInvT, TypeOK, HandlerTypeOK, Files
    <3> QED
      BY <2>2, <3>1 DEF ExposedBehind, BehindHandler, PastLink
  <2> QED
    BY <2>1, <2>2, <2>3 DEF OncePerSession
<1>3. committed' = committed \/ \E c \in Conns : HLink(c)
  BY SenderFrame, EnvironmentMoves, HandlerCommits DEF Next, vars, diskVars
<1> QED
  BY <1>1, <1>2, <1>3

\* Whoever exposed a file is one of the attempts so far.
LEMMA CopiesCounted ==
  ASSUME IInvT, Follow, ExposedBehind, OncePerSession
  PROVE  CopiesWithinAttempts
<1> SUFFICES ASSUME NEW f \in Files
             PROVE  Cardinality({r \in committed : r.file = f}) <= attempt + 1
  BY DEF CopiesWithinAttempts
<1> DEFINE copies == {r \in committed : r.file = f}
           maker == [r \in copies |-> r.by]
<1>1. /\ attempt \in Nat /\ committed \in SUBSET CommitRecord
      /\ \A c \in Conns : c \in Nat
  BY ConstantsAssumption DEF IInvT, TypeOK, SenderTypeOK, DiskTypeOK, Conns
<1>2. \A r \in copies : r.by \in 0..attempt
  <2> SUFFICES ASSUME NEW r \in copies PROVE r.by \in 0..attempt
    OBVIOUS
  <2>1. r.by \in Conns /\ r.by \in Nat
    BY <1>1 DEF CommitRecord
  <2>2. hpc[r.by] # "idle"
    BY DEF ExposedBehind, BehindHandler, Early
  <2>3. ~(r.by > attempt)
    BY <2>1, <2>2 DEF Follow
  <2> QED
    BY <1>1, <2>1, <2>3
<1>3. maker \in Injection(copies, 0..attempt)
  BY <1>2 DEF Injection, IsInjective, OncePerSession
<1>4. IsFiniteSet(0..attempt) /\ Cardinality(0..attempt) = attempt + 1
  BY <1>1, FS_Interval
<1> QED
  BY <1>3, <1>4, FS_Injection

\* However sessions of a transfer overlap, each exposes a file at most once
\* (transfer.py:646-673), so that the user finds no more copies of it, under
\* "name", "name (1)" and so on, than the sender has made attempts.
THEOREM OverlapsAreBounded == Spec => [](OncePerSession /\ CopiesWithinAttempts)
<1> DEFINE Inv == Follow /\ ExposedBehind /\ OncePerSession
<1>1. Init => Inv
  BY DEF Init, Follow, ExposedBehind, OncePerSession
<1>2. IInvT /\ Inv /\ [Next]_vars => Inv'
  BY FollowStep, BehindStep, OnceStepPerSession
<1>3. IInvT /\ Inv => OncePerSession /\ CopiesWithinAttempts
  BY CopiesCounted
<1> QED
  BY <1>1, <1>2, <1>3, TypeInvariant, PTL DEF Spec

-----------------------------------------------------------------------------
(* Attempts that do not overlap: from here on, most lemmas assume that a     *)
(* retry reaches the receiver only when the old handlers have ended.         *)

\* At most one handler is open.
Alone == \A c, d \in Conns : HandlerOpen(c) /\ HandlerOpen(d) => c = d

\* Where a handler is at a file, and where it receives that file's content: a
\* file whose final path stands is only acknowledged.
FilePlaces == {"start", "open", "data", "body", "end", "verify", "link", "unlink",
               "mark", "complete"}

Streams(c) ==
  /\ hpc[c] \in FilePlaces \ {"start"}
  /\ hpc[c] \in {"end", "complete"} => ~hstate[c][hfile[c]].final

\* Nobody removes the metadata while a session is on, and nobody else changes
\* the status of the file it streams.
MetadataStays == \A c \in Conns : hpc[c] \in Approved \ {"query"} => metadata

StreamsActive ==
  \A c \in Conns : Streams(c) =>
    rstat[hfile[c]] = "active" /\ ~hstate[c][hfile[c]].final

LEMMA AloneStep ==
  ASSUME ~Overlap, IInvT, Alone, [Next]_vars
  PROVE  Alone'
<1>1. hpc \in [Conns -> HandlerPC]
  BY DEF IInvT, TypeOK, HandlerTypeOK
<1>2. CASE \A c \in Conns : hpc'[c] = hpc[c] \/ hpc'[c] = "closed"
  BY <1>2 DEF Alone, HandlerOpen, Ended
<1>3. ASSUME NEW c \in Conns, HandlerStep(c)
      PROVE  Alone'
  BY <1>3, HandlerMoves, HandlerApproval DEF Alone, HandlerOpen, Ended
<1>4. CASE SConnect
  BY <1>1, <1>4 DEF SConnect, Alone, HandlerOpen, Ended
<1>5. CASE SenderStep \/ SenderFault
  BY <1>2, <1>4, <1>5, SenderFrame DEF handlerVars
<1>6. CASE Environment
  BY <1>2, <1>6, EnvironmentMoves
<1>7. CASE UNCHANGED vars
  BY <1>2, <1>7 DEF vars, handlerVars
<1> QED
  BY <1>3, <1>5, <1>6, <1>7 DEF Next

\* What does not come from a handler leaves the handlers' files alone: it may
\* start a handler, or it ends the one that is open.
Outside == SenderStep \/ SenderFault \/ Environment \/ UNCHANGED vars

LEMMA OutsideFacts ==
  ASSUME IInvT, Alone, Outside
  PROVE  /\ UNCHANGED <<hfile, hstate, hpos, hino, partial, metadata, finalBy, committed>>
         /\ \/ /\ UNCHANGED <<rstat, rbytes, content>>
               /\ \A c \in Conns : hpc'[c] = hpc[c] \/ hpc'[c] = "offer"
            \/ \A c \in Conns : hpc'[c] \in Ended
<1>1. hpc \in [Conns -> HandlerPC]
  BY DEF IInvT, TypeOK, HandlerTypeOK
<1>2. CASE SConnect
  BY <1>1, <1>2 DEF SConnect, sharedVars, diskVars
<1>3. CASE SenderStep \/ SenderFault
  BY <1>2, <1>3, SenderFrame DEF handlerVars, sharedVars, diskVars
<1>4. CASE ReceiverCrash
  BY <1>1, <1>4 DEF ReceiverCrash, HandlerOpen, Ended
<1>5. ASSUME NEW c \in Conns, HIdleTimeout(c)
      PROVE  /\ UNCHANGED <<hfile, hstate, hpos, hino, partial, metadata, finalBy, committed>>
             /\ \A d \in Conns : hpc'[d] \in Ended
  <2>1. HandlerOpen(c) /\ hpc' = [hpc EXCEPT ![c] = "closed"]
    BY <1>5 DEF HIdleTimeout, Leave, LeaveWith, HandlerOpen, HandlerReading, Ended
  <2>2. UNCHANGED <<hfile, hstate, hpos, hino, partial, metadata, finalBy, committed>>
    BY <1>5 DEF HIdleTimeout, diskVars
  <2>3. "closed" \in Ended
    BY DEF Ended
  <2>4. \A d \in Conns : d # c => hpc[d] \in Ended
    BY <2>1 DEF Alone, HandlerOpen
  <2> QED
    BY <1>1, <2>1, <2>2, <2>3, <2>4
<1>6. CASE Environment
  BY <1>4, <1>5, <1>6 DEF Environment, UserAccepts, UserRejects, UserCancels,
     SourceChange, LinkBreaks, handlerVars, sharedVars, diskVars
<1>7. CASE UNCHANGED vars
  BY <1>7 DEF vars, handlerVars, sharedVars, diskVars
<1> QED
  BY <1>3, <1>6, <1>7 DEF Outside

\* While one handler steps the others have ended.
LEMMA OthersEnded ==
  ASSUME IInvT, Alone, NEW c \in Conns, HandlerStep(c), NEW d \in Conns \ {c}
  PROVE  hpc[d] \in Ended /\ hpc'[d] \in Ended
  BY HandlerMoves, HandlerApproval DEF Alone, HandlerOpen, Ended

LEMMA MetadataStep ==
  ASSUME IInvT, Alone, MetadataStays, [Next]_vars
  PROVE  MetadataStays'
<1>1. hpc \in [Conns -> HandlerPC]
  BY DEF IInvT, TypeOK, HandlerTypeOK
<1>2. CASE Outside
  BY <1>2, OutsideFacts, ApprovedPlaces DEF MetadataStays, Ended
<1>3. ASSUME NEW c \in Conns, HandlerStep(c)
      PROVE  MetadataStays'
  <2>1. hpc'[c] \in Approved \ {"query"} => metadata'
    <3>1. CASE Aside(c)
      BY <3>1, AsideFacts, ApprovedPlaces DEF MetadataStays, diskVars
    <3>2. CASE HPrepare(c)
      BY <3>2 DEF HPrepare
    <3>3. CASE HFileStart(c) \/ HOpen(c) \/ HChunkControl(c) \/ HChunkData(c)
               \/ HFileEnd(c) \/ HVerify(c) \/ HLink(c) \/ HUnlink(c) \/ HMark(c)
               \/ HComplete(c)
      <4>1. hpc[c] \in Approved \ {"query"} /\ metadata' = metadata
        BY <3>3, ApprovedPlaces
           DEF HFileStart, HOpen, HChunkControl, HChunkData, HFileEnd, HVerify, HLink,
           HUnlink, HMark, HComplete, diskVars
      <4> QED
        BY <4>1 DEF MetadataStays
    <3>4. CASE HCleanup(c)
      BY <1>1, <3>4, ApprovedPlaces DEF HCleanup, Leave
    <3> QED
      BY <1>3, <3>1, <3>2, <3>3, <3>4, OnFile
  <2>2. \A d \in Conns \ {c} : hpc'[d] \notin Approved
    BY <1>3, OthersEnded DEF Approved
  <2> QED
    BY <2>1, <2>2 DEF MetadataStays
<1> QED
  BY <1>2, <1>3 DEF Next, Outside

LEMMA StreamsActiveStep ==
  ASSUME IInvT, Alone, StreamsActive, [Next]_vars
  PROVE  StreamsActive'
<1> USE DEF FilePlaces, Streams
<1>1. /\ hpc \in [Conns -> HandlerPC] /\ hfile \in [Conns -> Files]
      /\ rstat \in [Files -> Status \cup {None}]
  BY DEF IInvT, TypeOK, HandlerTypeOK, SharedTypeOK
<1>2. CASE Outside
  BY <1>2, OutsideFacts DEF StreamsActive, Ended
<1>3. ASSUME NEW c \in Conns, HandlerStep(c)
      PROVE  StreamsActive'
  <2>1. Streams(c)' => rstat'[hfile'[c]] = "active" /\ ~hstate'[c][hfile'[c]].final
    <3>1. CASE Aside(c)
      BY <3>1, AsideFacts
    <3>2. CASE HPrepare(c) \/ HCleanup(c)
      BY <1>1, <3>2 DEF HPrepare, HCleanup, Goto, Leave
    <3>3. CASE HFileStart(c)
      BY <1>1, <3>3 DEF HFileStart, Goto, Leave
    <3>4. CASE HFileEnd(c)
      BY <1>1, <3>4 DEF HFileEnd, AfterFileEnd, Goto, sharedVars, StreamsActive
    <3>5. CASE HOpen(c) \/ HChunkControl(c) \/ HChunkData(c) \/ HLink(c) \/ HUnlink(c)
      <4>1. UNCHANGED <<rstat, hfile, hstate>>
        BY <3>5 DEF HOpen, HChunkControl, HChunkData, HLink, HUnlink, sharedVars
      <4>2. Streams(c)
        BY <3>5 DEF HOpen, HChunkControl, HChunkData, HLink, HUnlink
      <4> QED
        BY <4>1, <4>2 DEF StreamsActive
    <3>6. CASE HVerify(c) \/ HMark(c)
      <4>1. Streams(c)
        BY <3>6 DEF HVerify, HMark
      <4>2. UNCHANGED <<rstat, hfile, hstate>> \/ hpc'[c] = "closed"
        BY <1>1, <3>6 DEF HVerify, HMark, LeaveWith, Leave
      <4> QED
        BY <4>1, <4>2 DEF StreamsActive
    <3>7. CASE HComplete(c)
      BY <1>1, <3>7 DEF HComplete, NextFile, Goto, LeaveWith, Leave
    <3> QED
      BY <1>3, <3>1, <3>2, <3>3, <3>4, <3>5, <3>6, <3>7, OnFile
  <2>2. \A d \in Conns \ {c} : ~Streams(d)'
    BY <1>3, OthersEnded DEF Ended
  <2> QED
    BY <2>1, <2>2 DEF StreamsActive
<1> QED
  BY <1>2, <1>3 DEF Next, Outside

-----------------------------------------------------------------------------
(* A file is delivered once in a life of the receiver *)

Copies(f) == {r \in committed : r.file = f}

\* A handler that has linked the file and not yet shown it as COMPLETE.
Linked(f) ==
  \E c \in Conns : /\ hfile[c] = f /\ Streams(c)
                   /\ hpc[c] \in {"unlink", "mark", "complete"}

Once ==
  /\ IsFiniteSet(committed)
  /\ \A f \in Files :
       /\ Cardinality(Copies(f)) <= 1 + crashes
       /\ Cardinality(Copies(f)) = 1 + crashes => rstat[f] = "complete" \/ Linked(f)

LEMMA CopiesCount ==
  ASSUME IsFiniteSet(committed), NEW f
  PROVE  IsFiniteSet(Copies(f)) /\ Cardinality(Copies(f)) \in Nat
BY FS_Subset, FS_CardinalityType DEF Copies

\* A file that has been linked stays so until it is COMPLETE, or the receiver
\* crashes.
LEMMA LinkedStays ==
  ASSUME ~Overlap, IInvT, Alone, MetadataStays, StreamsActive, [Next]_vars,
         crashes' = crashes, NEW f \in Files, rstat[f] = "complete" \/ Linked(f)
  PROVE  rstat'[f] = "complete" \/ Linked(f)'
<1> USE DEF FilePlaces, Streams, Linked
<1>1. /\ hpc \in [Conns -> HandlerPC] /\ hfile \in [Conns -> Files]
      /\ rstat \in [Files -> Status \cup {None}] /\ crashes \in Nat
  BY DEF IInvT, TypeOK, HandlerTypeOK, SharedTypeOK, BoundsTypeOK
<1>2. CASE rstat[f] = "complete"
  BY <1>2, CompleteStands
<1>3. ASSUME NEW c \in Conns, hfile[c] = f, Streams(c),
             hpc[c] \in {"unlink", "mark", "complete"}
      PROVE  rstat'[f] = "complete" \/ Linked(f)'
  <2>1. CASE HandlerStep(c)
    <3>1. CASE HUnlink(c)
      BY <1>1, <1>3, <3>1 DEF HUnlink, Goto
    <3>2. CASE HMark(c)
      <4>1. metadata
        BY <1>3, ApprovedPlaces DEF MetadataStays
      <4>2. ~hstate[c][hfile[c]].final
        BY <1>3 DEF StreamsActive
      <4> QED
        BY <1>1, <1>3, <3>2, <4>1, <4>2 DEF HMark, Goto
    <3>3. CASE HComplete(c) \/ HCompleteLost(c)
      <4>1. CanSet("active", "complete")
        BY DEF CanSet, Allowed, Status
      <4>2. rstat[f] = "active"
        BY <1>3 DEF StreamsActive
      <4> QED
        BY <1>1, <1>3, <3>3, <4>1, <4>2 DEF HComplete, HCompleteLost
    <3>4. HUnlink(c) \/ HMark(c) \/ HComplete(c) \/ HCompleteLost(c)
      BY <1>3, <2>1 DEF HandlerStep, HOffer, HBusy, HConflict, HLost, HPeerCancels,
         HPeerGone, HExpire, HDecided, HPrepare, HFileStart, HUnexpected, HOpen,
         HChunkControl, HChunkData, HCancelled, HBadFrame, HInterrupted, HFileEnd,
         HPartialMissing, HVerify, HVerifyLost, HLink, HFin, HCleanup
    <3> QED
      BY <3>1, <3>2, <3>3, <3>4
  <2>2. ASSUME NEW d \in Conns \ {c}, HandlerStep(d)
        PROVE  FALSE
    BY <1>3, <2>2, OthersEnded DEF Ended
  <2>3. CASE Outside
    <3>1. \A d \in Conns : ~HIdleTimeout(d)
      BY <1>3 DEF HIdleTimeout, Alone, HandlerOpen, HandlerReading, Ended
    <3>2. ~ReceiverCrash
      BY <1>1 DEF ReceiverCrash
    <3>3. UNCHANGED handlerVars \/ SConnect
      BY <2>3, <3>1, <3>2, SenderFrame DEF Outside, Environment, UserAccepts, UserRejects,
         UserCancels, SourceChange, LinkBreaks, vars
    <3>4. ~SConnect
      BY <1>3 DEF SConnect, HandlerOpen, Ended
    <3> QED
      BY <1>3, <3>3, <3>4 DEF handlerVars
  <2> QED
    BY <2>1, <2>2, <2>3 DEF Next, Outside
<1> QED
  BY <1>2, <1>3

LEMMA OnceStep ==
  ASSUME ~Overlap, IInvT, Alone, MetadataStays, StreamsActive, Once, [Next]_vars
  PROVE  Once'
<1>1. /\ hpc \in [Conns -> HandlerPC] /\ hfile \in [Conns -> Files]
      /\ crashes \in Nat
  BY DEF IInvT, TypeOK, HandlerTypeOK, BoundsTypeOK
<1>2. \A f \in Files : Cardinality(Copies(f)) \in Nat
  BY CopiesCount DEF Once
<1>3. CASE committed' = committed /\ crashes' = crashes
  <2>1. \A f \in Files : Copies(f)' = Copies(f)
    BY <1>3 DEF Copies
  <2> QED
    BY <1>3, <2>1, LinkedStays DEF Once
<1>4. CASE ReceiverCrash
  <2>1. \A f \in Files : Copies(f)' = Copies(f)
    BY <1>4 DEF ReceiverCrash, Copies
  <2>2. committed' = committed /\ crashes' = crashes + 1
    BY <1>4 DEF ReceiverCrash
  <2> QED
    BY <1>1, <1>2, <2>1, <2>2 DEF Once
<1>5. ASSUME NEW c \in Conns, HLink(c), NEW f \in Files, hfile[c] = f
      PROVE  Once'
  <2> DEFINE r == [file |-> f, by |-> c, ino |-> partial[f]]
  <2>1. /\ committed' = committed \cup {r} /\ hpc'[c] = "unlink"
        /\ UNCHANGED <<hfile, hstate, rstat, crashes>> /\ hpc[c] = "link"
    BY <1>1, <1>5 DEF HLink, Goto, boundVars, sharedVars
  <2>2. rstat[f] = "active"
    BY <1>5, <2>1 DEF StreamsActive, Streams, FilePlaces
  <2>3. ~Linked(f)
    <3>1. \A d \in Conns : HandlerOpen(d) => d = c
      BY <2>1 DEF Alone, HandlerOpen, Ended
    <3> QED
      BY <2>1, <3>1 DEF Linked, HandlerOpen, Ended
  <2>4. Cardinality(Copies(f)) <= crashes
    BY <1>1, <1>2, <2>1, <2>2, <2>3 DEF Once
  <2>5. Copies(f)' = Copies(f) \cup {r}
    BY <2>1 DEF Copies
  <2>6. IsFiniteSet(Copies(f))
    BY CopiesCount DEF Once
  <2>7. Cardinality(Copies(f)') <= 1 + crashes
    <3>1. CASE r \in Copies(f)
      <4>1. Copies(f)' = Copies(f)
        BY <2>5, <3>1
      <4> QED
        BY <1>1, <1>2, <2>1, <2>4, <4>1
    <3>2. CASE r \notin Copies(f)
      <4>1. Cardinality(Copies(f)') = Cardinality(Copies(f)) + 1
        BY <2>5, <2>6, <3>2, FS_AddElement
      <4> QED
        BY <1>1, <1>2, <2>1, <2>4, <4>1
    <3> QED
      BY <3>1, <3>2
  <2>8. Linked(f)'
    BY <1>5, <2>1 DEF Linked, Streams, FilePlaces
  <2>9. \A g \in Files : g # f =>
          /\ Copies(g)' = Copies(g)
          /\ rstat[g] = "complete" \/ Linked(g) => rstat'[g] = "complete" \/ Linked(g)'
    BY <2>1, LinkedStays DEF Copies
  <2>10. IsFiniteSet(committed')
    BY <2>1, FS_AddElement DEF Once
  <2>11. ASSUME NEW g \in Files
         PROVE  /\ Cardinality(Copies(g)') <= 1 + crashes'
                /\ Cardinality(Copies(g)') = 1 + crashes' =>
                     rstat'[g] = "complete" \/ Linked(g)'
    <3> HIDE DEF r
    <3>1. CASE g = f
      BY <2>1, <2>7, <2>8, <3>1
    <3>2. CASE g # f
      <4>1. Copies(g)' = Copies(g) /\ crashes' = crashes
        BY <2>1, <2>9, <3>2
      <4> QED
        BY <2>9, <3>2, <4>1 DEF Once
    <3> QED
      BY <3>1, <3>2
  <2> QED
    BY <2>10, <2>11 DEF Once
<1> QED
  <2>1. \/ committed' = committed \/ \E c \in Conns : HLink(c)
    BY DiskChange DEF HOpen, HChunkData
  <2> QED
    BY <1>1, <1>3, <1>4, <1>5, <2>1, CrashCount

\* Without overlapping attempts a file is exposed once in each life of the
\* receiver: a session that finds it COMPLETE does not stream it, and no other
\* session runs between its commit and that status.
THEOREM DeliveredOnce == ~Overlap => (Spec => []DeliveredOncePerRun)
<1> SUFFICES ASSUME ~Overlap PROVE Spec => []DeliveredOncePerRun
  OBVIOUS
<1> DEFINE Inv == Alone /\ MetadataStays /\ StreamsActive /\ Once
<1>1. Init => Inv
  <2> SUFFICES ASSUME Init PROVE Inv
    OBVIOUS
  <2>1. \A c \in Conns : hpc[c] = "idle"
    BY DEF Init
  <2>2. Alone /\ MetadataStays /\ StreamsActive
    BY <2>1, ApprovedPlaces
       DEF Alone, HandlerOpen, Ended, MetadataStays, StreamsActive, Streams, FilePlaces
  <2>3. committed = {} /\ crashes = 0
    BY DEF Init
  <2>4. \A f : Copies(f) = {}
    BY <2>3 DEF Copies
  <2>5. Once
    BY <2>3, <2>4, FS_EmptySet DEF Once
  <2> QED
    BY <2>2, <2>5
<1>2. IInvT /\ Inv /\ [Next]_vars => Inv'
  BY AloneStep, MetadataStep, StreamsActiveStep, OnceStep
<1>3. Inv => DeliveredOncePerRun
  BY DEF Once, Copies, DeliveredOncePerRun
<1> QED
  BY <1>1, <1>2, <1>3, TypeInvariant, PTL DEF Spec

-----------------------------------------------------------------------------
(* Content follows its chunk frame *)

\* Frame i of a connection is content announced by the frame before it, and is
\* the offered content unless the source has changed.
FollowsChunk(c, i) ==
  /\ i > 1 /\ toR[c][i - 1].type = "chunk"
  /\ toR[c][i - 1].index = toR[c][i].index
  /\ toR[c][i].good \/ src[toR[c][i - 1].file] = "changed"

\* Frame i is the content that the handler waits for, having taken its frame.
Awaited(c, i) ==
  /\ i = 1 /\ hpc[c] = "body" /\ toR[c][1].index = hpos[c]
  /\ toR[c][1].good \/ src[hfile[c]] = "changed"

Paired ==
  \A c \in Conns : \A i \in 1..Len(toR[c]) :
    toR[c][i].type = "data" => FollowsChunk(c, i) \/ Awaited(c, i)

\* The source of a file changes once at most.
LEMMA ChangedStays ==
  ASSUME IInvT, [Next]_vars, NEW f \in Files
  PROVE  src[f] = "changed" => src'[f] = "changed"
<1>1. CASE SenderStep \/ SenderFault
  BY <1>1 DEF SenderStep, SCancelIdle, SConnect, SBreak, SCancelApproval, SRefused,
     SAccepted, SResumeState, SFileStart, SChunk, SCancelStream, SSourceShort,
     SSourceGone, SFileEnd, SFileAcked, SFileRefused, SFinished, SRetry, SenderFault,
     SConnectFails, SUntrusted, SIdleTimeout, SApprovalTimeout, Interrupt, GiveUp
<1>2. ASSUME NEW c \in Conns, HandlerStep(c)
      PROVE  src' = src
  BY <1>2, HandlerKeepsSender DEF senderVars
<1>3. CASE \E g \in Files : SourceChange(g)
  BY <1>3 DEF SourceChange, IInvT, TypeOK, SenderTypeOK
<1>4. CASE Environment
  BY <1>3, <1>4 DEF Environment, UserAccepts, UserRejects, UserCancels, LinkBreaks,
     HIdleTimeout, ReceiverCrash, senderVars
<1> QED
  BY <1>1, <1>2, <1>3, <1>4 DEF Next, vars, senderVars

\* Frame i is where it was, after the frame it was after.
Kept(c, i) ==
  /\ i \in 1..Len(toR[c]) /\ toR'[c][i] = toR[c][i]
  /\ i > 1 => toR'[c][i - 1] = toR[c][i - 1]

LEMMA SenderQueues ==
  ASSUME IInvT, SenderStep \/ SenderFault,
         NEW d \in Conns, NEW i \in 1..Len(toR'[d]), toR'[d][i].type = "data"
  PROVE  Kept(d, i) \/ FollowsChunk(d, i)'
<1>1. /\ toR \in [Conns -> Seq(ToReceiver)] /\ attempt \in Conns /\ sfile \in Files
      /\ sbytes \in [Files -> Nat] /\ src \in [Files -> {"same", "changed", "short", "gone"}]
  BY DEF IInvT, TypeOK, NetTypeOK, SenderTypeOK
<1>2. CASE toR' = toR
  BY <1>1, <1>2 DEF Kept
<1>3. ASSUME NEW m, Sent(m), m.type # "data"
      PROVE  Kept(d, i)
  <2>1. CASE toR' = toR
    BY <1>2, <2>1 DEF Kept
  <2>2. CASE toR' = [toR EXCEPT ![attempt] = Append(@, m)] /\ d = attempt
    <3>1. toR'[d] = Append(toR[d], m)
      BY <1>1, <2>2
    <3>2. i # Len(toR[d]) + 1
      BY <1>1, <1>3, <3>1
    <3> QED
      BY <1>1, <3>1, <3>2 DEF Kept
  <2>3. CASE toR' = [toR EXCEPT ![attempt] = Append(@, m)] /\ d # attempt
    BY <1>1, <2>3 DEF Kept
  <2> QED
    BY <1>3, <2>1, <2>2, <2>3 DEF Sent
<1>4. CASE SConnect
  <2>1. CASE d = attempt
    BY <1>1, <1>4, <2>1 DEF SConnect
  <2>2. CASE d # attempt
    BY <1>1, <1>4, <2>2 DEF SConnect, Kept
  <2> QED
    BY <2>1, <2>2
<1>5. CASE SChunk
  <2> DEFINE chunk == [type |-> "chunk", file |-> sfile, index |-> sbytes[sfile]]
             data == [type |-> "data", index |-> sbytes[sfile],
                      good |-> src[sfile] # "changed"]
  <2>1. CASE toR' = [toR EXCEPT ![attempt] = @ \o <<chunk, data>>] /\ d = attempt
    <3>1. toR'[d] = toR[d] \o <<chunk, data>>
      BY <1>1, <2>1
    <3>2. chunk.type = "chunk" /\ chunk.index = data.index /\ chunk.file = sfile
             /\ data.good = (src[sfile] # "changed")
      OBVIOUS
    <3>3. src' = src
      BY <1>5 DEF SChunk
    <3> HIDE DEF chunk, data
    <3>4. CASE i <= Len(toR[d])
      BY <1>1, <3>1, <3>4 DEF Kept
    <3>5. CASE i = Len(toR[d]) + 1
      BY <1>1, <3>1, <3>2, <3>5
    <3>6. CASE i = Len(toR[d]) + 2
      <4>1. toR'[d][i] = data /\ toR'[d][i - 1] = chunk /\ i > 1
        BY <1>1, <3>1, <3>6
      <4> QED
        BY <3>2, <3>3, <4>1 DEF FollowsChunk
    <3>7. Len(toR'[d]) = Len(toR[d]) + 2
      BY <1>1, <3>1
    <3> QED
      BY <1>1, <3>4, <3>5, <3>6, <3>7
  <2>2. CASE toR' = [toR EXCEPT ![attempt] = @ \o <<chunk, data>>] /\ d # attempt
    BY <1>1, <2>2 DEF Kept
  <2> QED
    BY <1>2, <1>5, <2>1, <2>2 DEF SChunk
<1>6. CASE SCancelApproval \/ SAccepted \/ SFileStart \/ SCancelStream \/ SFileEnd \/ SFileAcked
  BY <1>2, <1>3, <1>6
     DEF SCancelApproval, SAccepted, SFileStart, SCancelStream, SFileEnd, SFileAcked
<1>7. CASE SCancelIdle \/ SBreak \/ SRefused \/ SResumeState \/ SSourceShort \/ SSourceGone
           \/ SFileRefused \/ SFinished \/ SRetry \/ SenderFault
  BY <1>2, <1>7 DEF SCancelIdle, SBreak, SRefused, SResumeState, SSourceShort,
     SSourceGone, SFileRefused, SFinished, SRetry, netVars, SenderFault, SConnectFails,
     SUntrusted, SIdleTimeout, SApprovalTimeout
<1> QED
  BY <1>4, <1>5, <1>6, <1>7 DEF SenderStep

LEMMA EnvironmentQueues ==
  ASSUME IInvT, Environment,
         NEW d \in Conns, NEW i \in 1..Len(toR'[d])
  PROVE  Kept(d, i)
<1>1. toR \in [Conns -> Seq(ToReceiver)]
  BY DEF IInvT, TypeOK, NetTypeOK
<1>2. CASE toR' = toR
  BY <1>1, <1>2 DEF Kept
<1>3. ASSUME NEW c \in Conns, LinkBreaks(c)
      PROVE  Kept(d, i)
  <2>1. \E k \in 0..Len(toR[c]) : toR' = [toR EXCEPT ![c] = SubSeq(@, 1, k)]
    BY <1>3 DEF LinkBreaks
  <2>2. PICK k \in 0..Len(toR[c]) : toR' = [toR EXCEPT ![c] = SubSeq(@, 1, k)]
    BY <2>1
  <2>3. CASE d # c
    BY <1>1, <2>2, <2>3 DEF Kept
  <2>4. CASE d = c
    <3>1. toR'[d] = SubSeq(toR[d], 1, k)
      BY <1>1, <2>2, <2>4
    <3> QED
      BY <1>1, <2>2, <2>4, <3>1 DEF Kept
  <2> QED
    BY <2>3, <2>4
<1>4. ASSUME NEW c \in Conns, HIdleTimeout(c)
      PROVE  Kept(d, i)
  <2>1. toR' = [toR EXCEPT ![c] = <<>>]
    BY <1>4 DEF HIdleTimeout, Leave, LeaveWith
  <2> QED
    BY <1>1, <2>1 DEF Kept
<1>5. ~ReceiverCrash
  BY DEF ReceiverCrash
<1> QED
  BY <1>2, <1>3, <1>4, <1>5 DEF Environment, UserAccepts, UserRejects, UserCancels,
     SourceChange, netVars

LEMMA HandlerQueues ==
  ASSUME IInvT, NEW c \in Conns, HandlerStep(c)
  PROVE  \/ toR' = toR /\ hpc[c] # "body"
         \/ toR' = [toR EXCEPT ![c] = <<>>]
         \/ HandlerTakes(c) /\ toR[c] # <<>> /\ (Head(toR[c]).type = "chunk" => HChunkControl(c))
<1>1. CASE HPeerCancels(c) \/ HOffer(c) \/ HPrepare(c) \/ HChunkData(c) \/ HFileEnd(c)
           \/ HFin(c)
  BY <1>1 DEF HPeerCancels, HOffer, HPrepare, HChunkData, HFileEnd, HFin, NextForHandler
<1>2. CASE HFileStart(c)
  BY <1>2 DEF HFileStart, NextForHandler, Leave
<1>3. CASE HChunkControl(c)
  BY <1>3 DEF HChunkControl
<1>4. CASE HExpire(c) \/ HDecided(c) \/ HOpen(c) \/ HVerify(c) \/ HLink(c) \/ HUnlink(c)
           \/ HMark(c) \/ HComplete(c)
  BY <1>4 DEF HExpire, HDecided, HOpen, HVerify, HLink, HUnlink, HMark, HComplete,
     Leave, LeaveWith, netVars
<1>5. CASE HBusy(c) \/ HConflict(c) \/ HLost(c) \/ HPeerGone(c) \/ HUnexpected(c)
           \/ HCancelled(c) \/ HBadFrame(c) \/ HInterrupted(c) \/ HPartialMissing(c)
           \/ HVerifyLost(c) \/ HCompleteLost(c) \/ HCleanup(c)
  BY <1>5 DEF HBusy, HConflict, HLost, HPeerGone, HUnexpected, HCancelled, HBadFrame,
     HInterrupted, HPartialMissing, HVerifyLost, HCompleteLost, HCleanup, Leave,
     LeaveWith
<1> QED
  BY <1>1, <1>2, <1>3, <1>4, <1>5 DEF HandlerStep

LEMMA KeptFollows ==
  ASSUME IInvT, [Next]_vars, NEW c \in Conns, NEW i, Kept(c, i), FollowsChunk(c, i)
  PROVE  FollowsChunk(c, i)'
<1>1. i \in 1..Len(toR[c]) /\ i > 1 /\ toR[c][i - 1].type = "chunk"
  BY DEF Kept, FollowsChunk
<1>2. toR[c] \in Seq(ToReceiver)
  BY DEF IInvT, TypeOK, NetTypeOK
<1>3. toR[c][i - 1] \in ToReceiver
  BY <1>1, <1>2
<1>4. toR[c][i - 1].file \in Files
  BY <1>1, <1>3 DEF ToReceiver
<1>5. src[toR[c][i - 1].file] = "changed" => src'[toR[c][i - 1].file] = "changed"
  BY <1>4, ChangedStays
<1> QED
  BY <1>1, <1>5 DEF Kept, FollowsChunk

LEMMA KeptPaired ==
  ASSUME IInvT, [Next]_vars, Paired, NEW c \in Conns, NEW i, Kept(c, i),
         toR'[c][i].type = "data",
         hpc[c] = "body" => UNCHANGED <<hpc, hfile, hpos>>
  PROVE  FollowsChunk(c, i)' \/ Awaited(c, i)'
<1>1. FollowsChunk(c, i) \/ Awaited(c, i)
  BY DEF Kept, Paired
<1>2. CASE FollowsChunk(c, i)
  BY <1>2, KeptFollows
<1>3. CASE Awaited(c, i)
  <2>1. hfile[c] \in Files
    BY DEF IInvT, TypeOK, HandlerTypeOK
  <2>2. src[hfile[c]] = "changed" => src'[hfile[c]] = "changed"
    BY <2>1, ChangedStays
  <2> QED
    BY <1>3, <2>2 DEF Awaited, Kept
<1> QED
  BY <1>1, <1>2, <1>3

LEMMA PairedStep ==
  ASSUME IInvT, Follow, Alone, Paired, [Next]_vars
  PROVE  Paired'
<1> SUFFICES ASSUME NEW d \in Conns, NEW i \in 1..Len(toR'[d]), toR'[d][i].type = "data"
             PROVE  FollowsChunk(d, i)' \/ Awaited(d, i)'
  BY DEF Paired
<1>1. /\ hpc \in [Conns -> HandlerPC] /\ toR \in [Conns -> Seq(ToReceiver)]
      /\ hfile[d] \in Files /\ attempt \in Conns
  BY DEF IInvT, TypeOK, HandlerTypeOK, NetTypeOK, SenderTypeOK
<1>2. CASE SenderStep \/ SenderFault
  <2>1. CASE UNCHANGED handlerVars
    BY <1>2, <2>1, SenderQueues, KeptPaired DEF handlerVars
  <2>2. CASE SConnect /\ d = attempt
    <3>1. hpc[d] # "body"
      BY <2>2 DEF SConnect, Follow
    <3> QED
      BY <1>2, <3>1, SenderQueues, KeptPaired
  <2>3. CASE SConnect /\ d # attempt
    <3>1. Kept(d, i)
      BY <1>1, <2>3 DEF SConnect, Kept
    <3>2. hpc'[d] = hpc[d] /\ UNCHANGED <<hfile, hpos, src>>
      BY <1>1, <2>3 DEF SConnect
    <3> QED
      BY <3>1, <3>2, KeptFollows DEF Paired, Kept, Awaited
  <2> QED
    BY <1>2, <2>1, <2>2, <2>3, SenderFrame
<1>3. CASE Environment
  <2>1. Kept(d, i) /\ i \in 1..Len(toR'[d])
    BY <1>3, EnvironmentQueues
  <2>2. CASE \E c \in Conns : HIdleTimeout(c)
    <3>1. PICK c \in Conns : HIdleTimeout(c)
      BY <2>2
    <3>2. toR' = [toR EXCEPT ![c] = <<>>] /\ HandlerOpen(c)
      BY <3>1 DEF HIdleTimeout, Leave, LeaveWith, HandlerOpen, HandlerReading, Ended
    <3>3. d # c
      BY <1>1, <3>2
    <3>4. hpc[d] # "body"
      BY <3>2, <3>3 DEF Alone, HandlerOpen, Ended
    <3> QED
      BY <2>1, <3>4, KeptPaired
  <2>3. ~ReceiverCrash
    BY DEF ReceiverCrash
  <2>4. CASE ~(\E c \in Conns : HIdleTimeout(c))
    <3>1. UNCHANGED handlerVars
      BY <1>3, <2>3, <2>4 DEF Environment, UserAccepts, UserRejects, UserCancels,
         SourceChange, LinkBreaks
    <3> QED
      BY <2>1, <3>1, KeptPaired DEF handlerVars
  <2> QED
    BY <2>2, <2>4
<1>4. ASSUME NEW c \in Conns, HandlerStep(c)
      PROVE  FollowsChunk(d, i)' \/ Awaited(d, i)'
  <2>1. CASE d # c
    <3>1. toR'[d] = toR[d] /\ hpc[d] # "body"
      BY <1>1, <1>4, <2>1, HandlerQueues, OthersEnded DEF HandlerTakes, Ended
    <3>2. Kept(d, i)
      BY <3>1 DEF Kept
    <3> QED
      BY <3>1, <3>2, KeptPaired
  <2>2. CASE d = c /\ toR' = toR /\ hpc[c] # "body"
    BY <2>2, KeptPaired DEF Kept
  <2>3. CASE d = c /\ toR' = [toR EXCEPT ![c] = <<>>]
    BY <1>1, <2>3
  <2>4. CASE /\ d = c /\ HandlerTakes(c) /\ toR[c] # <<>>
             /\ Head(toR[c]).type = "chunk" => HChunkControl(c)
    <3>1. toR'[d] = Tail(toR[d])
      BY <1>1, <2>4 DEF HandlerTakes
    <3>2. /\ Len(toR'[d]) = Len(toR[d]) - 1 /\ i + 1 \in 1..Len(toR[d])
          /\ \A j \in 1..Len(toR'[d]) : toR'[d][j] = toR[d][j + 1]
      BY <1>1, <2>4, <3>1
    <3>3. FollowsChunk(d, i + 1)
      BY <3>2 DEF Paired, Awaited
    <3>4. toR[d][i].type = "chunk" /\ toR[d][i].index = toR[d][i + 1].index
      BY <3>3 DEF FollowsChunk
    <3>5. toR'[d][i] = toR[d][i + 1]
      BY <3>2
    <3>6. src' = src
      BY <1>4, HandlerKeepsSender DEF senderVars
    <3>7. toR[d][i + 1].good \/ src[toR[d][i].file] = "changed"
      BY <3>3 DEF FollowsChunk
    <3>8. CASE i > 1
      <4>1. toR'[d][i - 1] = toR[d][i]
        BY <3>2, <3>8
      <4> QED
        BY <3>4, <3>5, <3>6, <3>7, <3>8, <4>1 DEF FollowsChunk
    <3>9. CASE i = 1
      <4>1. Head(toR[c]) = toR[d][i]
        BY <1>1, <2>4, <3>9
      <4>2. HChunkControl(c) /\ ValidChunk(c, toR[d][i])
        BY <2>4, <3>4, <4>1 DEF HChunkControl
      <4>3. hpc'[c] = "body" /\ hpos' = hpos /\ hfile' = hfile
        BY <1>1, <4>2 DEF HChunkControl, Goto
      <4>4. toR[d][i].index = hpos[c] /\ toR[d][i].file = hfile[c]
        BY <4>2 DEF ValidChunk
      <4> QED
        BY <2>4, <3>4, <3>5, <3>6, <3>7, <3>9, <4>3, <4>4 DEF Awaited
    <3> QED
      BY <3>8, <3>9
  <2> QED
    BY <1>4, <2>1, <2>2, <2>3, <2>4, HandlerQueues
<1>5. CASE UNCHANGED vars
  BY <1>5, KeptPaired DEF vars, netVars, handlerVars, Kept
<1> QED
  BY <1>2, <1>3, <1>4, <1>5 DEF Next

-----------------------------------------------------------------------------
(* The partial file follows the handler *)

\* A file with a final path has no partial file.
FinalHasNoPartial == \A f \in Files : finalBy[f] # NoConn => partial[f] = NoConn

PartLen(f) == IF partial[f] = NoConn THEN 0 ELSE Len(content[partial[f]][f])

\* The files that the handler has still to start: prepare has told the sender
\* the length of their partial files.
Ahead(c, f) ==
  hpc[c] \in FilePlaces /\ (f > hfile[c] \/ (f = hfile[c] /\ hpc[c] = "start"))

AsPrepared(c, f) ==
  ~hstate[c][f].final =>
    /\ finalBy[f] = NoConn
    /\ hstate[c][f].off = PartLen(f) /\ PartLen(f) <= Size[f]

\* The file that the handler streams: the shared byte count and the handler's
\* own index are where its partial file ends.
InHand(c, f) ==
  /\ hpc[c] # "complete" => finalBy[f] = NoConn
  /\ hpc[c] = "open" => rbytes[f] = PartLen(f) /\ PartLen(f) <= Size[f]
  /\ hpc[c] \in {"data", "body"} =>
       /\ partial[f] = hino[c] /\ PartLen(f) < Size[f]
       /\ hpos[c] = PartLen(f) /\ rbytes[f] = PartLen(f)
  /\ hpc[c] \in {"end", "verify"} => partial[f] # NoConn /\ PartLen(f) = Size[f]
  /\ hpc[c] = "link" => partial[f] # NoConn /\ Intact(partial[f], f)
  /\ hpc[c] = "mark" => partial[f] = NoConn

Position(c) ==
  /\ \A f \in Files : Ahead(c, f) => AsPrepared(c, f)
  /\ Streams(c) => InHand(c, hfile[c])

OnDisk == FinalHasNoPartial /\ \A c \in Conns : Position(c)

\* The types these steps rest on.
LEMMA DiskTypes ==
  ASSUME IInvT
  PROVE  /\ hpc \in [Conns -> HandlerPC] /\ hfile \in [Conns -> Files]
         /\ hstate \in [Conns -> [Files -> [off : Nat, final : BOOLEAN]]]
         /\ hpos \in [Conns -> Nat] /\ hino \in [Conns -> Conns]
         /\ rbytes \in [Files -> Nat]
         /\ partial \in [Files -> Conns \cup {NoConn}]
         /\ content \in [Conns -> [Files -> Seq(BOOLEAN)]]
         /\ finalBy \in [Files -> Conns \cup {NoConn}]
         /\ NoConn \notin Conns
         /\ \A f \in Files : f \in Nat /\ Size[f] \in Nat /\ PartLen(f) \in Nat
         /\ toR \in [Conns -> Seq(ToReceiver)]
<1>1. NoConn \notin Conns
  BY ConstantsAssumption DEF NoConn, Conns
<1>2. /\ partial \in [Files -> Conns \cup {NoConn}]
      /\ content \in [Conns -> [Files -> Seq(BOOLEAN)]]
  BY DEF IInvT, TypeOK, DiskTypeOK
<1>3. \A f \in Files : PartLen(f) \in Nat
  BY <1>2 DEF PartLen
<1>4. /\ hpc \in [Conns -> HandlerPC] /\ hfile \in [Conns -> Files]
      /\ hstate \in [Conns -> [Files -> [off : Nat, final : BOOLEAN]]]
      /\ hpos \in [Conns -> Nat] /\ hino \in [Conns -> Conns]
  BY DEF IInvT, TypeOK, HandlerTypeOK
<1>5. /\ rbytes \in [Files -> Nat] /\ toR \in [Conns -> Seq(ToReceiver)]
      /\ finalBy \in [Files -> Conns \cup {NoConn}]
  BY DEF IInvT, TypeOK, SharedTypeOK, NetTypeOK, DiskTypeOK
<1>6. \A f \in Files : f \in Nat /\ Size[f] \in Nat
  BY ConstantsAssumption DEF Files
<1> QED
  BY <1>1, <1>2, <1>3, <1>4, <1>5, <1>6

\* A handler that has ended, or is not yet at the files, has no position.
LEMMA NoPosition ==
  ASSUME NEW c \in Conns, hpc[c] \notin FilePlaces
  PROVE  Position(c)
BY DEF Position, Ahead, Streams

\* prepare measures every partial file that metadata vouches for.
LEMMA PreparePosition ==
  ASSUME IInvT, OnDisk, NEW c \in Conns, HPrepare(c)
  PROVE  FinalHasNoPartial' /\ Position(c)'
<1>1. /\ hstate' = [hstate EXCEPT ![c] =
           [f \in Files |-> [off |-> ResumeOffset(f), final |-> FinalStands(f)]]]
      /\ partial' = [f \in Files |-> IF Discards(f) THEN NoConn ELSE partial[f]]
      /\ finalBy' = [f \in Files |-> IF FinalStands(f) THEN finalBy[f] ELSE NoConn]
      /\ hpc'[c] = "start" /\ hfile'[c] = 1 /\ content' = content
  BY DiskTypes DEF HPrepare, Goto
<1>2. FinalHasNoPartial'
  BY <1>1 DEF FinalHasNoPartial, OnDisk
<1>3. ASSUME NEW f \in Files
      PROVE  AsPrepared(c, f)'
  <2>1. hstate'[c][f] = [off |-> ResumeOffset(f), final |-> FinalStands(f)]
    BY <1>1, DiskTypes
  <2>2. ASSUME ~FinalStands(f)
        PROVE  finalBy'[f] = NoConn /\ ResumeOffset(f) = PartLen(f)' /\ PartLen(f)' <= Size[f]
    <3>1. finalBy'[f] = NoConn
      BY <1>1, <2>2
    <3>2. partial'[f] = IF Discards(f) THEN NoConn ELSE partial[f]
      BY <1>1
    <3>3. CASE Discards(f)
      BY <1>1, <2>2, <3>1, <3>2, <3>3, DiskTypes DEF PartLen, ResumeOffset
    <3>4. CASE ~Discards(f)
      <4>1. partial[f] = NoConn \/ Resumable(f)
        BY <3>4 DEF Discards, Resumable, OnDisk, FinalHasNoPartial
      <4>2. CASE partial[f] = NoConn
        BY <1>1, <2>2, <3>1, <3>2, <3>4, <4>2, DiskTypes DEF PartLen, ResumeOffset, Resumable
      <4>3. CASE Resumable(f)
        <5>1. partial[f] # NoConn /\ ~(PartLen(f) > Size[f])
          BY <3>4, <4>3 DEF Resumable, Discards, PartLen
        <5>2. ResumeOffset(f) = PartLen(f)
          BY <2>2, <3>4, <4>3, <5>1 DEF ResumeOffset, PartLen
        <5>3. PartLen(f)' = PartLen(f)
          BY <1>1, <3>2, <3>4 DEF PartLen
        <5>4. PartLen(f) <= Size[f]
          <6>1. PartLen(f) \in Nat /\ Size[f] \in Nat
            BY DiskTypes
          <6> QED
            BY <5>1, <6>1
        <5> QED
          BY <3>1, <5>2, <5>3, <5>4
      <4> QED
        BY <4>1, <4>2, <4>3
    <3> QED
      BY <3>3, <3>4
  <2>3. hstate'[c][f].off = ResumeOffset(f) /\ hstate'[c][f].final = FinalStands(f)
    BY <2>1
  <2> QED
    BY <2>2, <2>3 DEF AsPrepared
<1> QED
  BY <1>1, <1>2, <1>3 DEF Position, Streams
\* The steps of a handler at its file.
AtFile(c) ==
  \/ HFileStart(c) \/ HOpen(c) \/ HChunkControl(c) \/ HChunkData(c) \/ HFileEnd(c)
  \/ HVerify(c) \/ HLink(c) \/ HUnlink(c) \/ HMark(c) \/ HComplete(c)

\* They leave the files that are still ahead as prepare found them.
LEMMA AheadStays ==
  ASSUME IInvT, OnDisk, NEW c \in Conns, AtFile(c), NEW f \in Files, Ahead(c, f)'
  PROVE  AsPrepared(c, f)'
<1> USE DEF AtFile
<1>1. /\ hpc \in [Conns -> HandlerPC] /\ hfile \in [Conns -> Files]
      /\ hino \in [Conns -> Conns] /\ f \in Nat /\ hfile[c] \in Nat
      /\ partial \in [Files -> Conns \cup {NoConn}]
      /\ content \in [Conns -> [Files -> Seq(BOOLEAN)]]
      /\ finalBy \in [Files -> Conns \cup {NoConn}]
  BY DiskTypes
<1>2. hpc[c] \in FilePlaces
  BY DEF HFileStart, HOpen, HChunkControl, HChunkData, HFileEnd, HVerify, HLink,
     HUnlink, HMark, HComplete, FilePlaces
<1>3. Ahead(c, f) /\ f # hfile[c]
  <2>1. CASE HComplete(c)
    <3>1. hpc'[c] = "start" /\ hfile'[c] = hfile[c] + 1
      BY <1>1, <2>1 DEF HComplete, NextFile, Goto, LeaveWith, Leave, Ahead, FilePlaces
    <3> QED
      BY <1>1, <1>2, <3>1 DEF Ahead
  <2>2. CASE ~HComplete(c)
    <3>1. hpc'[c] # "start" /\ hfile' = hfile
      BY <1>1, <2>2 DEF HFileStart, HOpen, HChunkControl, HChunkData, HFileEnd, HVerify,
         HLink, HUnlink, HMark, AfterChunk, AfterFileEnd, Goto, LeaveWith, Leave
    <3> QED
      BY <1>1, <1>2, <3>1 DEF Ahead
  <2> QED
    BY <2>1, <2>2
<1>4. hstate' = hstate /\ partial'[f] = partial[f] /\ finalBy'[f] = finalBy[f]
  BY <1>1, <1>3 DEF HFileStart, HOpen, HChunkControl, HChunkData, HFileEnd, HVerify,
     HLink, HUnlink, HMark, HComplete, diskVars
<1>5. \A i \in Conns : content'[i][f] = content[i][f]
  <2>1. CASE HOpen(c)
    BY <1>1, <1>3, <2>1 DEF HOpen
  <2>2. CASE HChunkData(c)
    BY <1>1, <1>3, <2>2 DEF HChunkData
  <2>3. CASE ~HOpen(c) /\ ~HChunkData(c)
    BY <2>3 DEF HFileStart, HChunkControl, HFileEnd, HVerify, HLink, HUnlink, HMark,
       HComplete, diskVars
  <2> QED
    BY <2>1, <2>2, <2>3
<1>6. PartLen(f)' = PartLen(f)
  BY <1>1, <1>4, <1>5 DEF PartLen
<1>7. AsPrepared(c, f)
  BY <1>3 DEF OnDisk, Position
<1> QED
  BY <1>4, <1>6, <1>7 DEF AsPrepared
\* HOpen stands where prepare measured the file, or in an empty new one.
LEMMA OpenInHand ==
  ASSUME IInvT, OnDisk, NEW c \in Conns, HOpen(c), NEW f \in Files, hfile[c] = f
  PROVE  FinalHasNoPartial' /\ InHand(c, f)' /\ hfile' = hfile
<1>1. /\ hpc \in [Conns -> HandlerPC] /\ hfile \in [Conns -> Files]
      /\ hpos \in [Conns -> Nat] /\ hino \in [Conns -> Conns]
      /\ rbytes \in [Files -> Nat] /\ NoConn \notin Conns
      /\ partial \in [Files -> Conns \cup {NoConn}]
      /\ content \in [Conns -> [Files -> Seq(BOOLEAN)]]
  BY DiskTypes
<1>2. Size[f] \in Nat /\ PartLen(f) \in Nat
  BY DiskTypes
<1>3. hpc[c] = "open" /\ Streams(c)
  BY DEF HOpen, Streams, FilePlaces
<1>4. finalBy[f] = NoConn /\ rbytes[f] = PartLen(f) /\ PartLen(f) <= Size[f]
  BY <1>3 DEF OnDisk, Position, InHand
<1>5. /\ UNCHANGED <<finalBy, rbytes, hfile>> /\ hpos'[c] = rbytes[f]
      /\ hpc'[c] = AfterChunk(f, rbytes[f])
      /\ \A g \in Files : g # f => partial'[g] = partial[g]
  BY <1>1 DEF HOpen, Goto, sharedVars
<1>6. partial'[f] = hino'[c] /\ hino'[c] # NoConn /\ PartLen(f)' = PartLen(f)
  <2>1. CASE partial[f] = NoConn
    <3>1. partial'[f] = c /\ hino'[c] = c /\ content'[c][f] = <<>>
      BY <1>1, <2>1 DEF HOpen
    <3> QED
      BY <1>1, <2>1, <3>1 DEF PartLen
  <2>2. CASE partial[f] # NoConn
    BY <1>1, <2>2 DEF HOpen, PartLen
  <2> QED
    BY <2>1, <2>2
<1>7. FinalHasNoPartial'
  BY <1>4, <1>5 DEF FinalHasNoPartial, OnDisk
<1>8. InHand(c, f)'
  BY <1>2, <1>4, <1>5, <1>6 DEF InHand, AfterChunk
<1> QED
  BY <1>5, <1>7, <1>8

\* A chunk goes to the end of the partial file.
LEMMA ChunkInHand ==
  ASSUME IInvT, OnDisk, NEW c \in Conns, HChunkData(c), NEW f \in Files, hfile[c] = f
  PROVE  FinalHasNoPartial' /\ InHand(c, f)' /\ hfile' = hfile
<1>1. /\ hpc \in [Conns -> HandlerPC] /\ hfile \in [Conns -> Files]
      /\ hpos \in [Conns -> Nat] /\ hino \in [Conns -> Conns]
      /\ rbytes \in [Files -> Nat] /\ NoConn \notin Conns
      /\ partial \in [Files -> Conns \cup {NoConn}]
      /\ content \in [Conns -> [Files -> Seq(BOOLEAN)]]
  BY DiskTypes
<1>2. Size[f] \in Nat /\ PartLen(f) \in Nat
  BY DiskTypes
<1>3. hpc[c] = "body" /\ Streams(c)
  BY DEF HChunkData, Streams, FilePlaces
<1>4. /\ finalBy[f] = NoConn /\ partial[f] = hino[c] /\ PartLen(f) < Size[f]
      /\ hpos[c] = PartLen(f) /\ rbytes[f] = PartLen(f)
  BY <1>3 DEF OnDisk, Position, InHand
<1>5. /\ UNCHANGED <<finalBy, partial, hino, hfile>>
      /\ hpos'[c] = hpos[c] + 1 /\ rbytes'[f] = rbytes[f] + 1
      /\ hpc'[c] = AfterChunk(f, rbytes[f] + 1)
      /\ content'[hino[c]][f] = Written(content[hino[c]][f], hpos[c], Head(toR[c]))
  BY <1>1 DEF HChunkData, Goto
<1>6. hino[c] # NoConn /\ Len(content[hino[c]][f]) = PartLen(f)
  BY <1>1, <1>4 DEF PartLen
<1>7. Len(content'[hino[c]][f]) = PartLen(f) + 1
  BY <1>2, <1>4, <1>5, <1>6 DEF Written
<1>8. PartLen(f)' = PartLen(f) + 1
  BY <1>4, <1>5, <1>6, <1>7 DEF PartLen
<1>9. FinalHasNoPartial'
  BY <1>5 DEF FinalHasNoPartial, OnDisk
<1>10. InHand(c, f)'
  BY <1>2, <1>4, <1>5, <1>6, <1>8 DEF InHand, AfterChunk
<1> QED
  BY <1>5, <1>9, <1>10
\* The steps that start, check, expose or acknowledge the file.
LEMMA OthersInHand ==
  ASSUME IInvT, OnDisk, NEW c \in Conns, AtFile(c), ~HOpen(c), ~HChunkData(c)
  PROVE  FinalHasNoPartial' /\ (Streams(c)' => InHand(c, hfile[c])')
<1> SUFFICES ASSUME NEW f \in Files, hfile[c] = f
             PROVE  FinalHasNoPartial' /\ (Streams(c)' => InHand(c, hfile[c])')
  BY DiskTypes
<1>1. /\ hpc \in [Conns -> HandlerPC] /\ hfile \in [Conns -> Files]
      /\ rbytes \in [Files -> Nat] /\ NoConn \notin Conns
      /\ hstate \in [Conns -> [Files -> [off : Nat, final : BOOLEAN]]]
      /\ partial \in [Files -> Conns \cup {NoConn}]
      /\ finalBy \in [Files -> Conns \cup {NoConn}]
  BY DiskTypes
<1>2. Size[f] \in Nat /\ PartLen(f) \in Nat
  BY DiskTypes
<1>3. Streams(c) => InHand(c, f)
  BY DEF OnDisk, Position
<1>4. CASE HFileStart(c)
  <2>1. /\ hpc[c] = "start" /\ UNCHANGED <<diskVars, hfile, hstate>>
        /\ rbytes'[f] = hstate[c][f].off
        /\ hpc'[c] \in {"open", "closed"} \/ (hpc'[c] = "end" /\ hstate[c][f].final)
        /\ hpc'[c] = "open" => ~hstate[c][f].final
    BY <1>1, <1>4 DEF HFileStart, Goto, Leave
  <2>2. AsPrepared(c, f)
    BY <1>1, <2>1 DEF OnDisk, Position, Ahead, FilePlaces
  <2>3. PartLen(f)' = PartLen(f)
    BY <2>1 DEF PartLen, diskVars
  <2> QED
    BY <2>1, <2>2, <2>3 DEF OnDisk, FinalHasNoPartial, diskVars, Streams, FilePlaces,
       AsPrepared, InHand
<1>5. CASE HChunkControl(c) \/ HFileEnd(c) \/ HVerify(c)
  <2>1. UNCHANGED <<diskVars, hfile, hstate, rbytes, hpos, hino>>
    BY <1>5 DEF HChunkControl, HFileEnd, HVerify, sharedVars
  <2>2. PartLen(f)' = PartLen(f)
    BY <2>1 DEF PartLen, diskVars
  <2>3. FinalHasNoPartial'
    BY <2>1 DEF OnDisk, FinalHasNoPartial, diskVars
  <2>4. CASE HChunkControl(c)
    <3>1. hpc[c] = "data" /\ hpc'[c] = "body"
      BY <1>1, <2>4 DEF HChunkControl, Goto
    <3> QED
      BY <1>3, <2>1, <2>2, <2>3, <3>1 DEF Streams, FilePlaces, InHand, diskVars
  <2>5. CASE HFileEnd(c)
    <3>1. /\ hpc[c] = "end"
          /\ hpc'[c] = IF hstate[c][f].final THEN "complete" ELSE "verify"
      BY <1>1, <2>5 DEF HFileEnd, Goto, AfterFileEnd
    <3> QED
      BY <1>3, <2>1, <2>2, <2>3, <3>1 DEF Streams, FilePlaces, InHand, diskVars
  <2>6. CASE HVerify(c)
    <3>1. /\ hpc[c] = "verify" /\ partial[f] # NoConn
          /\ hpc'[c] = "closed" \/ (hpc'[c] = "link" /\ Verified(f))
      BY <1>1, <2>6 DEF HVerify, Goto, LeaveWith, Leave
    <3> QED
      BY <1>3, <2>1, <2>3, <3>1 DEF Streams, FilePlaces, InHand, diskVars, Verified, Intact
  <2> QED
    BY <1>5, <2>4, <2>5, <2>6
<1>6. CASE HLink(c) \/ HUnlink(c)
  <2>1. /\ hpc[c] \in {"link", "unlink"} /\ hpc'[c] \in {"unlink", "mark"}
        /\ UNCHANGED <<finalBy, hfile>>
        /\ hpc'[c] = "mark" => partial'[f] = NoConn
        /\ \A g \in Files : partial'[g] \in {partial[g], NoConn}
    BY <1>1, <1>6 DEF HLink, HUnlink, Goto
  <2> QED
    BY <1>3, <2>1 DEF Streams, FilePlaces, InHand, OnDisk, FinalHasNoPartial
<1>7. CASE HMark(c)
  <2>1. /\ hpc[c] = "mark" /\ hpc'[c] \in {"complete", "closed"}
        /\ UNCHANGED <<partial, hfile>>
        /\ \A g \in Files : g # f => finalBy'[g] = finalBy[g]
    BY <1>1, <1>7 DEF HMark, Goto, LeaveWith, Leave
  <2> QED
    BY <1>3, <2>1 DEF Streams, FilePlaces, InHand, OnDisk, FinalHasNoPartial
<1>8. CASE HComplete(c)
  <2>1. hpc'[c] \in {"start", "fin", "closed"} /\ UNCHANGED diskVars
    BY <1>1, <1>8 DEF HComplete, NextFile, Goto, LeaveWith, Leave
  <2> QED
    BY <2>1 DEF Streams, FilePlaces, OnDisk, FinalHasNoPartial, diskVars
<1> QED
  BY <1>4, <1>5, <1>6, <1>7, <1>8 DEF AtFile

LEMMA OnDiskStep ==
  ASSUME IInvT, Alone, OnDisk, [Next]_vars
  PROVE  OnDisk'
<1>1. CASE Outside
  <2>1. UNCHANGED <<hfile, hstate, hpos, hino, partial, finalBy>>
    BY <1>1, OutsideFacts
  <2>2. FinalHasNoPartial'
    BY <2>1 DEF OnDisk, FinalHasNoPartial
  <2>3. ASSUME NEW c \in Conns
        PROVE  Position(c)'
    <3>1. CASE hpc'[c] \notin FilePlaces
      BY <3>1, NoPosition DEF Position, Ahead, Streams
    <3>2. CASE hpc'[c] \in FilePlaces
      <4>1. UNCHANGED <<rbytes, content>> /\ hpc'[c] = hpc[c]
        BY <1>1, <3>2, OutsideFacts DEF FilePlaces, Ended
      <4>2. \A f : PartLen(f)' = PartLen(f)
        BY <2>1, <4>1 DEF PartLen
      <4>3. Position(c)
        BY DEF OnDisk
      <4> QED
        BY <2>1, <4>1, <4>2, <4>3 DEF Position, Ahead, AsPrepared, Streams, InHand, Intact
    <3> QED
      BY <3>1, <3>2
  <2> QED
    BY <2>2, <2>3 DEF OnDisk
<1>2. ASSUME NEW c \in Conns, HandlerStep(c)
      PROVE  OnDisk'
  <2>1. \A d \in Conns \ {c} : Position(d)'
    <3>1. \A d \in Conns \ {c} : hpc'[d] \notin FilePlaces
      BY <1>2, OthersEnded DEF Ended, FilePlaces
    <3> QED
      BY <3>1 DEF Position, Ahead, Streams
  <2>2. FinalHasNoPartial' /\ Position(c)'
    <3>1. CASE Aside(c)
      <4>1. UNCHANGED diskVars /\ hpc'[c] \notin FilePlaces
        BY <3>1, AsideFacts DEF FilePlaces
      <4> QED
        BY <4>1 DEF Position, Ahead, Streams, OnDisk, FinalHasNoPartial, diskVars
    <3>2. CASE HPrepare(c)
      BY <3>2, PreparePosition
    <3>3. CASE HCleanup(c)
      <4>1. hpc'[c] = "closed" /\ finalBy' = [f \in Files |-> NoConn]
        BY <3>3, DiskTypes DEF HCleanup, Leave
      <4> QED
        BY <4>1 DEF Position, Ahead, Streams, FilePlaces, FinalHasNoPartial
    <3>4. CASE AtFile(c)
      <4>1. FinalHasNoPartial' /\ (Streams(c)' => InHand(c, hfile[c])')
        BY <3>4, DiskTypes, OpenInHand, ChunkInHand, OthersInHand
      <4>2. \A f \in Files : Ahead(c, f)' => AsPrepared(c, f)'
        BY <3>4, AheadStays
      <4> QED
        BY <4>1, <4>2 DEF Position
    <3> QED
      BY <1>2, <3>1, <3>2, <3>3, <3>4, OnFile DEF AtFile
  <2> QED
    BY <2>1, <2>2 DEF OnDisk
<1> QED
  BY <1>1, <1>2 DEF Next, Outside

-----------------------------------------------------------------------------
(* What has been received is what was offered *)

\* Unless the source has changed, every chunk on disk is the offered one.
ChunksGood ==
  \A f \in Files : src[f] # "changed" =>
    \A c \in Conns : \A i \in 1..Len(content[c][f]) : content[c][f][i]

LEMMA ChunksGoodStep ==
  ASSUME IInvT, OnDisk, Paired, ChunksGood, [Next]_vars
  PROVE  ChunksGood'
<1> SUFFICES ASSUME NEW f \in Files, src'[f] # "changed",
                    NEW e \in Conns, NEW i \in 1..Len(content'[e][f])
             PROVE  content'[e][f][i]
  BY DEF ChunksGood
<1>1. src[f] # "changed"
  BY ChangedStays
<1>2. /\ hfile \in [Conns -> Files] /\ hpc \in [Conns -> HandlerPC]
      /\ hpos \in [Conns -> Nat] /\ hino \in [Conns -> Conns]
      /\ content \in [Conns -> [Files -> Seq(BOOLEAN)]]
      /\ toR \in [Conns -> Seq(ToReceiver)]
  BY DiskTypes
<1>3. \A d \in Conns : \A j \in 1..Len(content[d][f]) : content[d][f][j]
  BY <1>1 DEF ChunksGood
<1>4. CASE content'[e][f] = content[e][f]
  BY <1>3, <1>4
<1>5. CASE ReceiverCrash
  <2>1. PICK c \in Conns :
          /\ Len(content[hino[c]][hfile[c]]) > 0
          /\ content' = [content EXCEPT ![hino[c]][hfile[c]] =
                SubSeq(content[hino[c]][hfile[c]], 1, Len(content[hino[c]][hfile[c]]) - 1)]
        \/ content' = content
    BY <1>5 DEF ReceiverCrash
  <2>2. CASE content'[e][f] = SubSeq(content[e][f], 1, Len(content[e][f]) - 1)
             /\ Len(content[e][f]) > 0
    <3>1. content[e][f] \in Seq(BOOLEAN)
      BY <1>2
    <3>2. i \in 1..Len(content[e][f]) /\ content'[e][f][i] = content[e][f][i]
      BY <2>2, <3>1
    <3> QED
      BY <1>3, <3>2
  <2>3. CASE e = hino[c] /\ f = hfile[c]
    BY <1>2, <1>4, <2>1, <2>2, <2>3
  <2>4. CASE ~(e = hino[c] /\ f = hfile[c])
    <3>1. content'[e][f] = content[e][f]
      <4>1. CASE e # hino[c]
        BY <1>2, <2>1, <4>1
      <4>2. CASE e = hino[c] /\ content' # content
        <5>1. content[e] \in [Files -> Seq(BOOLEAN)] /\ f # hfile[c]
          BY <1>2, <2>4, <4>2
        <5>2. content'[e] = [content[e] EXCEPT ![hfile[c]] =
                SubSeq(content[hino[c]][hfile[c]], 1, Len(content[hino[c]][hfile[c]]) - 1)]
          BY <1>2, <2>1, <4>2
        <5> QED
          BY <5>1, <5>2
      <4> QED
        BY <4>1, <4>2
    <3> QED
      BY <1>4, <3>1
  <2> QED
    BY <2>3, <2>4
<1>6. ASSUME NEW c \in Conns, HOpen(c)
      PROVE  content'[e][f][i]
  <2>1. content' = content \/ content' = [content EXCEPT ![c][hfile[c]] = <<>>]
    BY <1>6 DEF HOpen
  <2>2. content'[e][f] = content[e][f] \/ content'[e][f] = <<>>
    <3>1. CASE e # c
      BY <1>2, <2>1, <3>1
    <3>2. CASE e = c /\ content' # content
      <4>1. content[e] \in [Files -> Seq(BOOLEAN)]
        BY <1>2
      <4>2. content'[e] = [content[e] EXCEPT ![hfile[c]] = <<>>]
        BY <1>2, <2>1, <3>2
      <4> QED
        BY <4>1, <4>2
    <3> QED
      BY <3>1, <3>2
  <2>3. CASE content'[e][f] = <<>>
    BY <2>3
  <2> QED
    BY <1>4, <2>2, <2>3
<1>7. ASSUME NEW c \in Conns, HChunkData(c), hfile[c] = f, hino[c] = e
      PROVE  content'[e][f][i]
  <2> DEFINE old == content[e][f]
  <2>1. Streams(c) /\ hpc[c] = "body"
    BY <1>7 DEF HChunkData, Streams, FilePlaces
  <2>2. partial[f] = e /\ hpos[c] = PartLen(f)
    BY <1>7, <2>1 DEF OnDisk, Position, InHand
  <2>3. hpos[c] = Len(old)
    BY <2>2, DiskTypes DEF PartLen
  <2>4. /\ toR[c] # <<>> /\ toR[c][1] = Head(toR[c]) /\ toR[c][1].type = "data"
        /\ 1 \in 1..Len(toR[c])
    BY <1>2, <1>7 DEF HChunkData, NextForHandler
  <2>5. Awaited(c, 1)
    BY <2>4 DEF Paired, FollowsChunk
  <2>6. Head(toR[c]).good /\ Head(toR[c]).index = hpos[c]
    BY <1>1, <1>7, <2>4, <2>5 DEF Awaited
  <2>7. content'[e][f] = Written(old, hpos[c], Head(toR[c]))
    BY <1>2, <1>7 DEF HChunkData
  <2>8. old \in Seq(BOOLEAN)
    BY <1>2
  <2>9. i \in 1..(Len(old) + 1) /\ content'[e][f][i] =
          IF i = Len(old) + 1 THEN Head(toR[c]).good /\ Head(toR[c]).index = hpos[c]
          ELSE i <= Len(old) /\ old[i]
    BY <2>3, <2>7, <2>8 DEF Written
  <2>10. CASE i = Len(old) + 1
    BY <2>6, <2>9, <2>10
  <2>11. CASE i # Len(old) + 1
    <3>1. i \in 1..Len(old)
      BY <2>8, <2>9, <2>11
    <3>2. content'[e][f][i] = (i <= Len(old) /\ old[i])
      BY <2>9, <2>11
    <3>3. i <= Len(old) /\ old[i]
      BY <1>3, <2>8, <3>1
    <3> QED
      BY <3>2, <3>3
  <2> QED
    BY <2>10, <2>11
<1>8. ASSUME NEW c \in Conns, HChunkData(c), ~(hfile[c] = f /\ hino[c] = e)
      PROVE  content'[e][f] = content[e][f]
  BY <1>2, <1>8 DEF HChunkData
<1>9. ASSUME NEW c \in Conns, HLink(c)
      PROVE  content' = content
  BY <1>9 DEF HLink
<1> QED
  BY <1>4, <1>5, <1>6, <1>7, <1>8, <1>9, DiskChange, CrashCount

\* What every part of the argument holds without overlapping attempts.
ExclusiveInv ==
  /\ Follow /\ Alone /\ MetadataStays /\ StreamsActive
  /\ Paired /\ OnDisk /\ ChunksGood

LEMMA ExclusiveInvariant == ~Overlap => (Spec => []ExclusiveInv)
<1> SUFFICES ASSUME ~Overlap PROVE Spec => []ExclusiveInv
  OBVIOUS
<1>1. Init => ExclusiveInv
  <2> SUFFICES ASSUME Init PROVE ExclusiveInv
    OBVIOUS
  <2>1. \A c \in Conns : hpc[c] = "idle" /\ toR[c] = <<>>
    BY DEF Init
  <2>2. Follow /\ Alone /\ MetadataStays /\ StreamsActive
    BY <2>1, ApprovedPlaces DEF Follow, Alone, HandlerOpen, Ended, MetadataStays,
       StreamsActive, Streams, FilePlaces
  <2>3. Paired
    BY <2>1 DEF Paired
  <2>4. OnDisk
    <3>1. \A c \in Conns : Position(c)
      BY <2>1 DEF Position, Ahead, Streams, FilePlaces
    <3>2. FinalHasNoPartial
      BY DEF Init, FinalHasNoPartial
    <3> QED
      BY <3>1, <3>2 DEF OnDisk
  <2>5. ChunksGood
    BY DEF Init, ChunksGood
  <2> QED
    BY <2>2, <2>3, <2>4, <2>5 DEF ExclusiveInv
<1>2. IInvT /\ ExclusiveInv /\ [Next]_vars => ExclusiveInv'
  BY FollowStep, AloneStep, MetadataStep, StreamsActiveStep, PairedStep, OnDiskStep,
     ChunksGoodStep DEF ExclusiveInv
<1> QED
  BY <1>1, <1>2, TypeInvariant, PTL DEF Spec

\* Without overlapping attempts a file that reaches verification is intact
\* unless its source changed: prepare measures the partial file, the sender
\* starts at that chunk, and every chunk is written where the file ends.
THEOREM ResumedFilesAreIntact == ~Overlap => (Spec => []ResumedIsIntact)
<1> SUFFICES ASSUME ~Overlap PROVE Spec => []ResumedIsIntact
  OBVIOUS
<1>1. IInvT /\ ExclusiveInv => ResumedIsIntact
  <2> SUFFICES ASSUME IInvT, ExclusiveInv, NEW c \in Conns, NEW f \in Files,
                      hfile[c] = f, hpc[c] = "verify", src[f] # "changed"
               PROVE  partial[f] # NoConn /\ Verified(f)
    BY DiskTypes DEF ResumedIsIntact
  <2>1. Streams(c)
    BY DEF Streams, FilePlaces
  <2>2. partial[f] # NoConn /\ PartLen(f) = Size[f]
    BY <2>1 DEF ExclusiveInv, OnDisk, Position, InHand
  <2>3. partial[f] \in Conns /\ content[partial[f]][f] \in Seq(BOOLEAN)
    BY <2>2, DiskTypes
  <2>4. Len(content[partial[f]][f]) = Size[f]
    BY <2>2 DEF PartLen
  <2>5. \A i \in 1..Size[f] : content[partial[f]][f][i] = TRUE
    BY <2>3, <2>4 DEF ExclusiveInv, ChunksGood
  <2>6. content[partial[f]][f] = [i \in 1..Size[f] |-> TRUE]
    <3>1. content[partial[f]][f] \in [1..Size[f] -> BOOLEAN]
      BY <2>3, <2>4
    <3> QED
      BY <2>5, <3>1
  <2> QED
    BY <2>2, <2>6 DEF Verified, Intact
<1> QED
  BY <1>1, ExclusiveInvariant, TypeInvariant, PTL

-----------------------------------------------------------------------------
(* What is exposed stays as it was verified *)

\* An inode that a file goes by was created by a handler that is past opening
\* that file, so no handler truncates an inode that is in use.
Used(c, f) == partial[f] = c \/ \E r \in committed : r.file = f /\ r.ino = c

Past(c, f) ==
  \/ hpc[c] \in {"closed", "fin", "cleanup"}
  \/ /\ hpc[c] \in FilePlaces
     /\ f < hfile[c] \/ (f = hfile[c] /\ hpc[c] \notin {"start", "open"})

FreshInodes == \A c \in Conns, f \in Files : Used(c, f) => Past(c, f)

LEMMA PastStays ==
  ASSUME IInvT, Follow, [Next]_vars, NEW c \in Conns, NEW f \in Files, Past(c, f)
  PROVE  Past(c, f)'
<1>1. /\ hpc \in [Conns -> HandlerPC] /\ hfile \in [Conns -> Files]
      /\ f \in Nat /\ hfile[c] \in Nat
  BY DiskTypes
<1>2. CASE HandlerStep(c)
  <2>1. CASE Aside(c)
    BY <2>1, AsideFacts, <1>1
       DEF Past, FilePlaces, Aside, HOffer, HBusy, HConflict, HLost, HPeerCancels,
       HPeerGone, HExpire, HDecided, HUnexpected, HCancelled, HBadFrame, HInterrupted,
       HPartialMissing, HVerifyLost, HCompleteLost, HFin, Goto, Leave, LeaveWith
  <2>2. ~HPrepare(c)
    BY DEF HPrepare, Past, FilePlaces
  <2>3. CASE HCleanup(c)
    BY <1>1, <2>3 DEF HCleanup, Leave, Past
  <2>4. CASE HFileStart(c) \/ HOpen(c) \/ HChunkControl(c) \/ HChunkData(c)
             \/ HFileEnd(c) \/ HVerify(c) \/ HLink(c) \/ HUnlink(c) \/ HMark(c)
    BY <1>1, <2>4
       DEF HFileStart, HOpen, HChunkControl, HChunkData, HFileEnd, HVerify, HLink,
       HUnlink, HMark, Past, FilePlaces, AfterChunk, AfterFileEnd, Goto, Leave, LeaveWith
  <2>5. CASE HComplete(c)
    BY <1>1, <2>5
       DEF HComplete, NextFile, Past, FilePlaces, Goto, Leave, LeaveWith
  <2> QED
    BY <1>2, <2>1, <2>2, <2>3, <2>4, <2>5, OnFile
<1>3. ASSUME NEW d \in Conns \ {c}, HandlerStep(d)
      PROVE  Past(c, f)'
  <2>1. hfile'[c] = hfile[c]
    BY <1>1, <1>3 DEF HandlerStep, HOffer, HBusy, HConflict, HLost, HPeerCancels,
       HPeerGone, HExpire, HDecided, HPrepare, HFileStart, HUnexpected, HOpen,
       HChunkControl, HChunkData, HCancelled, HBadFrame, HInterrupted, HFileEnd,
       HPartialMissing, HVerify, HVerifyLost, HLink, HUnlink, HMark, HComplete,
       HCompleteLost, HFin, HCleanup, NextFile, handlerVars
  <2> QED
    BY <1>3, <2>1, HandlerApproval DEF Past
<1>4. CASE SenderStep \/ SenderFault
  <2>1. CASE SConnect
    <3>1. c # attempt
      BY <2>1 DEF SConnect, Follow, Past, FilePlaces
    <3> QED
      BY <1>1, <2>1, <3>1 DEF SConnect, Past
  <2> QED
    BY <1>4, <2>1, SenderFrame DEF handlerVars, Past
<1>5. CASE Environment
  <2>1. hfile' = hfile
    BY <1>5 DEF Environment, UserAccepts, UserRejects, UserCancels, SourceChange,
       LinkBreaks, HIdleTimeout, ReceiverCrash, handlerVars
  <2> QED
    BY <1>5, <2>1, EnvironmentMoves DEF Past
<1>6. CASE UNCHANGED vars
  BY <1>6 DEF vars, handlerVars, Past
<1> QED
  BY <1>2, <1>3, <1>4, <1>5, <1>6 DEF Next
\* Only open takes a new inode into use, for the handler's own file.
LEMMA FreshStep ==
  ASSUME IInvT, Follow, Alone, FreshInodes, [Next]_vars
  PROVE  FreshInodes'
<1> SUFFICES ASSUME NEW c \in Conns, NEW f \in Files, Used(c, f)'
             PROVE  Past(c, f)'
  BY DEF FreshInodes
<1>1. /\ hpc \in [Conns -> HandlerPC] /\ hfile \in [Conns -> Files]
      /\ partial \in [Files -> Conns \cup {NoConn}] /\ NoConn \notin Conns
  BY DiskTypes
<1>2. CASE Used(c, f)
  BY <1>2, PastStays DEF FreshInodes
<1>3. CASE Outside
  <2>1. Used(c, f)
    BY <1>3, OutsideFacts DEF Used
  <2> QED
    BY <1>2, <2>1
<1>4. ASSUME NEW d \in Conns, HandlerStep(d)
      PROVE  Past(c, f)'
  <2>1. CASE Aside(d)
    BY <1>2, <2>1, AsideFacts DEF Used, diskVars
  <2>2. CASE HFileStart(d) \/ HChunkControl(d) \/ HChunkData(d) \/ HFileEnd(d) \/ HVerify(d)
             \/ HMark(d) \/ HComplete(d)
    <3>1. UNCHANGED <<partial, committed>>
      BY <2>2 DEF HFileStart, HChunkControl, HChunkData, HFileEnd, HVerify, HMark,
         HComplete, diskVars
    <3> QED
      BY <1>2, <3>1 DEF Used
  <2>3. CASE HPrepare(d) \/ HUnlink(d) \/ HCleanup(d)
    <3>1. committed' = committed /\ partial'[f] \in {partial[f], NoConn}
      BY <1>1, <2>3 DEF HPrepare, HUnlink, HCleanup
    <3> QED
      BY <1>1, <1>2, <3>1 DEF Used
  <2>4. CASE HLink(d)
    <3>1. /\ committed' = committed \cup
               {[file |-> hfile[d], by |-> d, ino |-> partial[hfile[d]]]}
          /\ partial' = partial
      BY <2>4 DEF HLink
    <3> QED
      BY <1>2, <3>1 DEF Used
  <2>5. CASE HOpen(d)
    <3>1. committed' = committed /\ (partial'[f] = partial[f] \/ (f = hfile[d] /\ partial'[f] = d))
      BY <1>1, <2>5 DEF HOpen
    <3>2. CASE Used(c, f)
      BY <1>2, <3>2
    <3>3. CASE ~Used(c, f)
      <4>1. c = d /\ f = hfile[d]
        BY <3>1, <3>3 DEF Used
      <4>2. hpc'[d] \in {"data", "end"} /\ hfile' = hfile
        BY <1>1, <2>5 DEF HOpen, Goto, AfterChunk
      <4> QED
        BY <4>1, <4>2 DEF Past, FilePlaces
    <3> QED
      BY <3>2, <3>3
  <2> QED
    BY <1>4, <2>1, <2>2, <2>3, <2>4, <2>5, OnFile
<1> QED
  BY <1>3, <1>4 DEF Next, Outside

\* A handler that still writes stands before the end of the file.
LEMMA WriterIsShort ==
  ASSUME IInvT, OnDisk, NEW c \in Conns, hpc[c] \in {"data", "body"},
         NEW f \in Files, hfile[c] = f
  PROVE  ~Intact(hino[c], f)
<1>1. Streams(c)
  BY DEF Streams, FilePlaces
<1>2. partial[f] = hino[c] /\ PartLen(f) < Size[f] /\ hino[c] # NoConn
  BY <1>1, DiskTypes DEF OnDisk, Position, InHand
<1>3. Len(content[hino[c]][f]) < Size[f] /\ Size[f] \in Nat
  BY <1>2, DiskTypes DEF PartLen
<1> QED
  BY <1>3 DEF Intact

LEMMA ExposedStep ==
  ASSUME IInvT, OnDisk, FreshInodes, ExposedIsVerified, [Next]_vars
  PROVE  ExposedIsVerified'
<1> SUFFICES ASSUME NEW r \in committed'
             PROVE  Intact(r.ino, r.file)'
  BY DEF ExposedIsVerified
<1>1. /\ hfile \in [Conns -> Files] /\ hpc \in [Conns -> HandlerPC]
      /\ hino \in [Conns -> Conns]
      /\ content \in [Conns -> [Files -> Seq(BOOLEAN)]]
      /\ partial \in [Files -> Conns \cup {NoConn}]
  BY DiskTypes
<1>2. committed \subseteq CommitRecord
  BY DEF IInvT, TypeOK, DiskTypeOK
<1>3. ASSUME content'[r.ino][r.file] = content[r.ino][r.file], r \in committed
      PROVE  Intact(r.ino, r.file)'
  BY <1>3 DEF ExposedIsVerified, Intact
<1>4. ASSUME r \in committed, NEW c \in Conns, hpc[c] \in {"data", "body"}
      PROVE  ~(r.ino = hino[c] /\ r.file = hfile[c])
  <2>1. hfile[c] \in Files /\ Intact(r.ino, r.file)
    BY <1>1, <1>4 DEF ExposedIsVerified
  <2> QED
    BY <1>4, <2>1, WriterIsShort
<1>5. ASSUME r \in committed, NEW e \in Conns, NEW g \in Files, NEW v,
             content' = [content EXCEPT ![e][g] = v], ~(r.ino = e /\ r.file = g)
      PROVE  content'[r.ino][r.file] = content[r.ino][r.file]
  <2>1. r.ino \in Conns /\ r.file \in Files
    BY <1>2, <1>5 DEF CommitRecord
  <2>2. CASE r.ino # e
    BY <1>1, <1>5, <2>1, <2>2
  <2>3. CASE r.ino = e
    <3>1. content[e] \in [Files -> Seq(BOOLEAN)] /\ content'[e] = [content[e] EXCEPT ![g] = v]
      BY <1>1, <1>5
    <3> QED
      BY <1>5, <2>1, <2>3, <3>1
  <2> QED
    BY <2>2, <2>3
<1>6. CASE UNCHANGED <<committed, content>>
  BY <1>3, <1>6
<1>7. CASE ReceiverCrash
  <2>1. committed' = committed
    BY <1>7 DEF ReceiverCrash
  <2>2. CASE content' = content
    BY <1>3, <2>1, <2>2
  <2>3. CASE content' # content
    <3>1. PICK c \in Conns :
            /\ hpc[c] \in {"data", "body"}
            /\ content' = [content EXCEPT ![hino[c]][hfile[c]] =
                  SubSeq(content[hino[c]][hfile[c]], 1, Len(content[hino[c]][hfile[c]]) - 1)]
      BY <1>7, <2>3 DEF ReceiverCrash
    <3>2. hino[c] \in Conns /\ hfile[c] \in Files
      BY <1>1
    <3>3. content'[r.ino][r.file] = content[r.ino][r.file]
      BY <1>4, <1>5, <2>1, <3>1, <3>2
    <3> QED
      BY <1>3, <2>1, <3>3
  <2> QED
    BY <2>2, <2>3
<1>8. ASSUME NEW c \in Conns, HChunkData(c)
      PROVE  Intact(r.ino, r.file)'
  <2>1. /\ committed' = committed /\ hpc[c] = "body"
        /\ content' = [content EXCEPT ![hino[c]][hfile[c]] =
                         Written(content[hino[c]][hfile[c]], hpos[c], Head(toR[c]))]
    BY <1>8 DEF HChunkData
  <2>2. hino[c] \in Conns /\ hfile[c] \in Files
    BY <1>1
  <2>3. content'[r.ino][r.file] = content[r.ino][r.file]
    BY <1>4, <1>5, <2>1, <2>2
  <2> QED
    BY <1>3, <2>1, <2>3
<1>9. ASSUME NEW c \in Conns, HOpen(c)
      PROVE  Intact(r.ino, r.file)'
  <2>1. committed' = committed /\ hpc[c] = "open" /\ hfile[c] \in Files
    BY <1>1, <1>9 DEF HOpen
  <2>2. CASE content' = content
    BY <1>3, <2>1, <2>2
  <2>3. CASE content' = [content EXCEPT ![c][hfile[c]] = <<>>]
    <3>1. ~(r.ino = c /\ r.file = hfile[c])
      <4>1. ~Past(c, hfile[c])
        BY <1>1, <2>1 DEF Past, Files
      <4> QED
        BY <2>1, <4>1 DEF FreshInodes, Used
    <3>2. content'[r.ino][r.file] = content[r.ino][r.file]
      BY <1>5, <2>1, <2>3, <3>1
    <3> QED
      BY <1>3, <2>1, <3>2
  <2> QED
    BY <1>9, <2>2, <2>3 DEF HOpen
<1>10. ASSUME NEW c \in Conns, HLink(c), NEW f \in Files, hfile[c] = f
       PROVE  Intact(r.ino, r.file)'
  <2>1. /\ committed' = committed \cup {[file |-> f, by |-> c, ino |-> partial[f]]}
        /\ content' = content /\ hpc[c] = "link"
    BY <1>10 DEF HLink
  <2>2. Intact(partial[f], f)
    BY <1>10, <2>1 DEF OnDisk, Position, Streams, FilePlaces, InHand
  <2>3. CASE r \in committed
    BY <1>3, <2>1, <2>3
  <2>4. CASE r = [file |-> f, by |-> c, ino |-> partial[f]]
    BY <2>1, <2>2, <2>4 DEF Intact
  <2> QED
    BY <2>1, <2>3, <2>4
<1> QED
  BY <1>1, <1>6, <1>7, <1>8, <1>9, <1>10, DiskChange, CrashCount

\* Without overlapping attempts every file exposed under its final name has the
\* offered content: commit links the inode that was just verified, and nobody
\* writes to it, truncates it or loses its tail in a crash afterwards.
THEOREM ExposedFilesAreVerified == ~Overlap => (Spec => []ExposedIsVerified)
<1> SUFFICES ASSUME ~Overlap PROVE Spec => []ExposedIsVerified
  OBVIOUS
<1> DEFINE Inv == ExposedIsVerified /\ FreshInodes
<1>1. Init => Inv
  BY DiskTypes, ConstantsAssumption
     DEF Init, ExposedIsVerified, FreshInodes, Used, NoConn, Conns
<1>2. IInvT /\ ExclusiveInv /\ Inv /\ [Next]_vars => Inv'
  BY FreshStep, ExposedStep DEF ExclusiveInv
<1> QED
  BY <1>1, <1>2, ExclusiveInvariant, TypeInvariant, PTL DEF Spec

-----------------------------------------------------------------------------
(* Both ends run down, also when attempts overlap                            *)

\* Where an attempt is, and where it is with a file.
AttemptPlace ==
  [connect |-> 6, approval |-> 5, state |-> 4, file |-> 3, stream |-> 3, result |-> 3,
   fin |-> 2, backoff |-> 1, done |-> 0, dead |-> 0]
SendingPlace == [file |-> 3, stream |-> 2, result |-> 1]

\* The worker goes on: to the next attempt, to a later place of this one, to the
\* next file, to a later place with this file, or to its next chunk.
WorkerAdvances ==
  \/ attempt < attempt'
  \/ /\ attempt' = attempt
     /\ AttemptPlace[spc'] < AttemptPlace[spc]
  \/ /\ attempt' = attempt
     /\ {spc, spc'} \subseteq {"file", "stream", "result"}
     /\ \/ sfile < sfile'
        \/ sfile' = sfile /\ SendingPlace[spc'] < SendingPlace[spc]
        \/ /\ sfile' = sfile /\ spc = "stream" /\ spc' = "stream"
           /\ sbytes[sfile] < sbytes'[sfile] /\ sbytes'[sfile] <= Size[sfile]

WorkerRunsDown ==
  /\ attempt' <= MaxRetries /\ sfile' <= N
  /\ SenderStep \/ SenderFault => WorkerAdvances
  /\ WorkerAdvances \/ UNCHANGED <<spc, attempt, sfile, sbytes>>

\* Every step of the worker is one forward.
LEMMA WorkerForward ==
  ASSUME IInvT, SenderStep \/ SenderFault
  PROVE  WorkerAdvances
<1> USE DEF WorkerAdvances, AttemptPlace, SendingPlace
<1>1. /\ attempt \in Nat /\ sfile \in Nat /\ sfile \in Files
      /\ spc \in SenderPC /\ sbytes \in [Files -> Nat] /\ Size \in [Files -> Nat]
  BY ConstantsAssumption DEF IInvT, TypeOK, SenderTypeOK, Conns, Files
<1>2. ASSUME NEW status, GiveUp(status), spc \notin {"done", "dead"}
      PROVE  WorkerAdvances
  BY <1>1, <1>2 DEF GiveUp, SetOpen, SenderPC, InSession, SenderReading, SenderSending
<1>3. ASSUME Interrupt, spc \notin {"backoff", "done", "dead"}
      PROVE  WorkerAdvances
  BY <1>1, <1>3 DEF Interrupt, SetOpen, SenderPC, InSession, SenderReading, SenderSending
<1>4. spc \notin {"done", "dead"}
  BY SenderMoves
<1>5. CASE SCancelIdle \/ SCancelApproval \/ SRefused \/ SCancelStream \/ SSourceShort
           \/ SFileRefused \/ SUntrusted \/ SApprovalTimeout
  BY <1>2, <1>4, <1>5
     DEF SCancelIdle, SCancelApproval, SRefused, SCancelStream, SSourceShort,
     SFileRefused, SUntrusted, SApprovalTimeout
<1>6. CASE SBreak \/ SSourceGone \/ SConnectFails \/ SIdleTimeout
  BY <1>3, <1>4, <1>6
     DEF SBreak, SSourceGone, SConnectFails, SIdleTimeout, InSession, SenderReading,
     SenderSending
<1>7. CASE SConnect \/ SAccepted \/ SResumeState \/ SFinished
  BY <1>1, <1>7 DEF SConnect, SAccepted, SResumeState, SFinished
<1>8. CASE SFileStart \/ SFileEnd
  BY <1>1, <1>8 DEF SFileStart, SFileEnd
<1>9. CASE SChunk
  BY <1>1, <1>9 DEF SChunk
<1>10. CASE SFileAcked
  BY <1>1, <1>10 DEF SFileAcked
<1>11. CASE SRetry
  BY <1>1, <1>11 DEF SRetry
<1> QED
  BY <1>5, <1>6, <1>7, <1>8, <1>9, <1>10, <1>11 DEF SenderStep, SenderFault

\* The sending worker never goes back (transfer.py:898-1076): each of its steps leads
\* on, to the next of at most MAX_RETRIES attempts, or within one to a later place,
\* file or chunk, and no user, receiver or network takes a step back.
THEOREM WorkerEndsInTime == Spec => [][WorkerRunsDown]_vars
<1>1. ASSUME IInvT, [Next]_vars PROVE [WorkerRunsDown]_vars
  <2>1. attempt' <= MaxRetries /\ sfile' <= N
    BY <1>1, TypeStep, ConstantsAssumption DEF IInvT, TypeOK, SenderTypeOK, Conns, Files
  <2>2. CASE SenderStep \/ SenderFault
    BY <1>1, <2>1, <2>2, WorkerForward DEF WorkerRunsDown
  <2>3. CASE ~(SenderStep \/ SenderFault)
    <3>1. UNCHANGED <<spc, attempt, sfile, sbytes>>
      BY <1>1, <2>3, HandlerKeepsSender
         DEF Next, Environment, UserAccepts, UserRejects, UserCancels, SourceChange,
         LinkBreaks, HIdleTimeout, ReceiverCrash, senderVars, vars
    <3> QED
      BY <2>1, <2>3, <3>1 DEF WorkerRunsDown
  <2> QED
    BY <2>2, <2>3
<1> QED
  BY <1>1, TypeInvariant, PTL DEF Spec

\* Where a session is, and where it is with a file.
SessionPlace ==
  [idle |-> 7, offer |-> 6, await |-> 5, query |-> 4, start |-> 3, open |-> 3,
   data |-> 3, body |-> 3, end |-> 3, verify |-> 3, link |-> 3, unlink |-> 3,
   mark |-> 3, complete |-> 3, fin |-> 2, cleanup |-> 1, closed |-> 0]
FilePlace ==
  [start |-> 9, open |-> 8, data |-> 7, body |-> 7, end |-> 6, verify |-> 5, link |-> 4,
   unlink |-> 3, mark |-> 2, complete |-> 1]

\* A session goes on: it begins, or comes to a later place, the next file, a later
\* place with this file, the content of its chunk, or the next chunk.
SessionAdvances(c) ==
  \/ SessionPlace[hpc'[c]] < SessionPlace[hpc[c]]
  \/ /\ {hpc[c], hpc'[c]} \subseteq FilePlaces
     /\ \/ hfile[c] < hfile'[c]
        \/ hfile'[c] = hfile[c] /\ FilePlace[hpc'[c]] < FilePlace[hpc[c]]
        \/ /\ hfile'[c] = hfile[c]
           /\ \/ hpc[c] = "data" /\ hpc'[c] = "body" /\ hpos'[c] = hpos[c]
              \/ /\ hpc[c] = "body" /\ hpc'[c] = "data"
                 /\ hpos[c] < hpos'[c] /\ hpos'[c] <= Size[hfile[c]]

\* While it waits for the user it takes a frame, or the deadline decides.
StillWaits(c) ==
  /\ hpc[c] = "await" /\ hpc'[c] = "await"
  /\ \/ Len(toR'[c]) < Len(toR[c])
     \/ inbox = "pending" /\ inbox' # "pending"

SessionsRunDown ==
  \A c \in Conns :
    /\ hfile'[c] <= N
    /\ HandlerStep(c) => SessionAdvances(c) \/ StillWaits(c)
    /\ SessionAdvances(c) \/ UNCHANGED <<hpc[c], hfile[c], hpos[c]>>

\* Chunks are announced only within their file, also when several sessions add to
\* the count of received chunks, and a session takes the content only of such a chunk.
ChunksInRange ==
  /\ \A c \in Conns : \A i \in 1..Len(toR[c]) :
       toR[c][i].type = "chunk" => toR[c][i].index < Size[toR[c][i].file]
  /\ \A c \in Conns : hpc[c] = "body" => hpos[c] < Size[hfile[c]]

LEMMA SenderInRange ==
  ASSUME IInvT, ChunksInRange, SenderStep \/ SenderFault,
         NEW d \in Conns, NEW i \in 1..Len(toR'[d]), toR'[d][i].type = "chunk"
  PROVE  toR'[d][i].index < Size[toR'[d][i].file]
<1>1. /\ toR \in [Conns -> Seq(ToReceiver)] /\ attempt \in Conns
  BY DEF IInvT, TypeOK, NetTypeOK, SenderTypeOK
<1>2. CASE Kept(d, i)
  BY <1>2 DEF Kept, ChunksInRange
<1>3. ASSUME NEW m, Sent(m), m.type # "chunk"
      PROVE  Kept(d, i)
  <2>1. CASE toR' = toR
    BY <1>1, <2>1 DEF Kept
  <2>2. CASE toR' = [toR EXCEPT ![attempt] = Append(@, m)] /\ d = attempt
    <3>1. toR'[d] = Append(toR[d], m)
      BY <1>1, <2>2
    <3>2. i # Len(toR[d]) + 1
      BY <1>1, <1>3, <3>1
    <3> QED
      BY <1>1, <3>1, <3>2 DEF Kept
  <2>3. CASE toR' = [toR EXCEPT ![attempt] = Append(@, m)] /\ d # attempt
    BY <1>1, <2>3 DEF Kept
  <2> QED
    BY <1>3, <2>1, <2>2, <2>3 DEF Sent
<1>4. CASE SConnect
  <2>1. CASE d = attempt
    BY <1>1, <1>4, <2>1 DEF SConnect
  <2>2. CASE d # attempt
    BY <1>1, <1>2, <1>4, <2>2 DEF SConnect, Kept
  <2> QED
    BY <2>1, <2>2
<1>5. CASE SChunk
  <2> DEFINE chunk == [type |-> "chunk", file |-> sfile, index |-> sbytes[sfile]]
             data == [type |-> "data", index |-> sbytes[sfile],
                      good |-> src[sfile] # "changed"]
  <2>1. CASE toR' = [toR EXCEPT ![attempt] = @ \o <<chunk, data>>] /\ d = attempt
    <3>1. toR'[d] = toR[d] \o <<chunk, data>>
      BY <1>1, <2>1
    <3>2. chunk.index < Size[chunk.file] /\ data.type = "data"
      BY <1>5 DEF SChunk
    <3> HIDE DEF chunk, data
    <3>3. CASE i <= Len(toR[d])
      BY <1>1, <1>2, <3>1, <3>3 DEF Kept
    <3>4. CASE i = Len(toR[d]) + 1
      BY <1>1, <3>1, <3>2, <3>4
    <3>5. i # Len(toR[d]) + 2
      BY <1>1, <3>1, <3>2
    <3>6. Len(toR'[d]) = Len(toR[d]) + 2
      BY <1>1, <3>1
    <3> QED
      BY <1>1, <3>3, <3>4, <3>5, <3>6
  <2>2. CASE toR' = [toR EXCEPT ![attempt] = @ \o <<chunk, data>>] /\ d # attempt
    BY <1>1, <1>2, <2>2 DEF Kept
  <2>3. CASE toR' = toR
    BY <1>1, <1>2, <2>3 DEF Kept
  <2> QED
    BY <1>5, <2>1, <2>2, <2>3 DEF SChunk
<1>6. CASE SCancelApproval \/ SAccepted \/ SFileStart \/ SCancelStream \/ SFileEnd \/ SFileAcked
  <2>1. CASE toR' = toR
    BY <1>1, <1>2, <2>1 DEF Kept
  <2>2. toR' = toR \/ Kept(d, i)
    BY <1>3, <1>6
       DEF SCancelApproval, SAccepted, SFileStart, SCancelStream, SFileEnd, SFileAcked
  <2> QED
    BY <1>2, <2>1, <2>2
<1>7. CASE SCancelIdle \/ SBreak \/ SRefused \/ SResumeState \/ SSourceShort \/ SSourceGone
           \/ SFileRefused \/ SFinished \/ SRetry \/ SenderFault
  <2>1. toR' = toR
    BY <1>7 DEF SCancelIdle, SBreak, SRefused, SResumeState, SSourceShort,
     SSourceGone, SFileRefused, SFinished, SRetry, netVars, SenderFault, SConnectFails,
     SUntrusted, SIdleTimeout, SApprovalTimeout
  <2> QED
    BY <1>1, <1>2, <2>1 DEF Kept
<1> QED
  BY <1>4, <1>5, <1>6, <1>7 DEF SenderStep

\* A handler queues nothing for itself, and waits for the content of a chunk only
\* once it has been announced.
LEMMA HandlerInRange ==
  ASSUME IInvT, ChunksInRange, NEW c \in Conns, HandlerStep(c)
  PROVE  ChunksInRange'
<1>1. /\ toR \in [Conns -> Seq(ToReceiver)] /\ hpc \in [Conns -> HandlerPC]
  BY DEF IInvT, TypeOK, NetTypeOK, HandlerTypeOK
<1>2. ASSUME NEW d \in Conns, NEW i \in 1..Len(toR'[d]), toR'[d][i].type = "chunk"
      PROVE  toR'[d][i].index < Size[toR'[d][i].file]
  <2>1. CASE toR'[d] = toR[d]
    BY <1>2, <2>1 DEF ChunksInRange
  <2>2. CASE d = c /\ toR[c] # <<>> /\ toR'[d] = Tail(toR[d])
    <3>1. i + 1 \in 1..Len(toR[d]) /\ toR'[d][i] = toR[d][i + 1]
      BY <1>1, <1>2, <2>2
    <3> QED
      BY <1>2, <3>1 DEF ChunksInRange
  <2>3. CASE d = c /\ toR'[d] = <<>>
    BY <1>2, <2>3
  <2> QED
    BY <1>1, <2>1, <2>2, <2>3, HandlerQueues DEF HandlerTakes
<1>3. ASSUME NEW d \in Conns, hpc'[d] = "body"
      PROVE  hpos'[d] < Size[hfile'[d]]
  <2>1. CASE d = c
    <3>1. HChunkControl(c)
      BY <1>1, <1>3, <2>1
         DEF HandlerStep, HOffer, HBusy, HConflict, HLost, HPeerCancels,
         HPeerGone, HExpire, HDecided, HPrepare, HFileStart, HUnexpected, HOpen,
         HChunkData, HCancelled, HBadFrame, HInterrupted, HFileEnd, AfterChunk,
         AfterFileEnd, NextFile, HPartialMissing, HVerify, HVerifyLost, HLink, HUnlink,
         HMark, HComplete, HCompleteLost, HFin, HCleanup, Goto, Leave, LeaveWith,
         handlerVars
    <3>2. 1 \in 1..Len(toR[c]) /\ Head(toR[c]) = toR[c][1]
      BY <1>1, <3>1 DEF HChunkControl
    <3> QED
      BY <2>1, <3>1, <3>2 DEF HChunkControl, ValidChunk, ChunksInRange
  <2>2. CASE d # c
    <3>1. hpc[d] = "body" /\ hfile'[d] = hfile[d] /\ hpos'[d] = hpos[d]
      BY <1>3, <2>2, HandlerApproval, HandlerFiles
    <3> QED
      BY <3>1 DEF ChunksInRange
  <2> QED
    BY <2>1, <2>2
<1> QED
  BY <1>2, <1>3 DEF ChunksInRange

LEMMA RangeStep ==
  ASSUME IInvT, Follow, ChunksInRange, [Next]_vars
  PROVE  ChunksInRange'
<1>1. hpc \in [Conns -> HandlerPC]
  BY DEF IInvT, TypeOK, HandlerTypeOK
<1>2. CASE SenderStep \/ SenderFault
  <2>1. \A d \in Conns : hpc'[d] = "body" =>
          hpc[d] = "body" /\ hpos'[d] = hpos[d] /\ hfile'[d] = hfile[d]
    BY <1>1, <1>2, SenderFrame DEF SConnect, handlerVars
  <2> QED
    BY <1>2, <2>1, SenderInRange DEF ChunksInRange
<1>3. CASE Environment
  <2>1. UNCHANGED <<hpos, hfile>>
    BY <1>3 DEF Environment, UserAccepts, UserRejects, UserCancels, SourceChange,
       LinkBreaks, HIdleTimeout, ReceiverCrash, handlerVars
  <2>2. \A d \in Conns : hpc'[d] = "body" => hpc[d] = "body"
    BY <1>3, EnvironmentMoves
  <2>3. \A d \in Conns : \A i \in 1..Len(toR'[d]) : Kept(d, i)
    BY <1>3, EnvironmentQueues
  <2> QED
    BY <2>1, <2>2, <2>3 DEF ChunksInRange, Kept
<1>4. CASE UNCHANGED vars
  BY <1>4 DEF vars, netVars, handlerVars, ChunksInRange
<1> QED
  BY <1>2, <1>3, <1>4, HandlerInRange DEF Next

\* Every step of a session is one forward, or one of its wait for the user.
LEMMA SessionForward ==
  ASSUME IInvT, ChunksInRange, NEW c \in Conns, HandlerStep(c)
  PROVE  SessionAdvances(c) \/ StillWaits(c)
<1> USE DEF SessionAdvances, SessionPlace, FilePlace, FilePlaces
<1>1. /\ hpc \in [Conns -> HandlerPC] /\ hfile \in [Conns -> Files]
      /\ hfile[c] \in Nat /\ hfile[c] \in Files
      /\ hpos \in [Conns -> Nat] /\ toR \in [Conns -> Seq(ToReceiver)]
      /\ Size \in [Files -> Nat]
  BY ConstantsAssumption DEF IInvT, TypeOK, HandlerTypeOK, NetTypeOK, Files
<1>2. ASSUME hpc' = [hpc EXCEPT ![c] = "closed"]
      PROVE  SessionAdvances(c)
  <2>1. hpc'[c] = "closed" /\ hpc[c] \in HandlerPC \ {"closed"}
    BY <1>1, <1>2, HandlerMoves
  <2> QED
    BY <2>1 DEF HandlerPC, HandlerReading, HandlerLocal, Ended
<1>3. CASE HBusy(c) \/ HConflict(c) \/ HLost(c) \/ HPeerGone(c) \/ HUnexpected(c)
           \/ HCancelled(c) \/ HBadFrame(c) \/ HInterrupted(c) \/ HPartialMissing(c)
           \/ HVerifyLost(c) \/ HCompleteLost(c) \/ HCleanup(c)
  BY <1>2, <1>3 DEF HBusy, HConflict, HLost, HPeerGone, HUnexpected, HCancelled, HBadFrame,
     HInterrupted, HPartialMissing, HVerifyLost, HCompleteLost, HCleanup, Leave,
     LeaveWith
<1>4. CASE HOffer(c)
  BY <1>1, <1>4 DEF HOffer, Goto
<1>5. CASE HPeerCancels(c)
  <2>1. Len(Tail(toR[c])) < Len(toR[c])
    BY <1>1, <1>5 DEF HPeerCancels, NextForHandler
  <2> QED
    BY <1>1, <1>5, <2>1 DEF HPeerCancels, HandlerTakes, StillWaits, handlerVars
<1>6. CASE HExpire(c)
  BY <1>6 DEF HExpire, Decide, StillWaits, handlerVars
<1>7. CASE HDecided(c)
  BY <1>1, <1>2, <1>7 DEF HDecided, Goto, Leave
<1>8. CASE HPrepare(c)
  BY <1>1, <1>8 DEF HPrepare, Goto
<1>9. CASE HFileStart(c) \/ HVerify(c) \/ HMark(c)
  BY <1>1, <1>2, <1>9 DEF HFileStart, HVerify, HMark, Goto, Leave, LeaveWith
<1>10. CASE HOpen(c) \/ HFileEnd(c) \/ HLink(c) \/ HUnlink(c)
  BY <1>1, <1>10 DEF HOpen, HFileEnd, HLink, HUnlink, AfterChunk, AfterFileEnd, Goto
<1>11. CASE HChunkControl(c)
  BY <1>1, <1>11 DEF HChunkControl, Goto
<1>12. CASE HChunkData(c)
  <2>1. hpos[c] < Size[hfile[c]]
    BY <1>12 DEF HChunkData, ChunksInRange
  <2> QED
    BY <1>1, <1>12, <2>1 DEF HChunkData, AfterChunk, Goto
<1>13. CASE HComplete(c)
  BY <1>1, <1>2, <1>13 DEF HComplete, NextFile, Goto, Leave, LeaveWith
<1>14. CASE HFin(c)
  BY <1>1, <1>14 DEF HFin, Goto
<1> QED
  BY <1>3, <1>4, <1>5, <1>6, <1>7, <1>8, <1>9, <1>10, <1>11, <1>12, <1>13, <1>14
     DEF HandlerStep

\* No receiving session goes back either (_receive_session and what it calls,
\* transfer.py:412-703), although sessions of one transfer share the count of received
\* chunks: each step leads on to a later place, file or chunk, or is one of the wait
\* for the user, and nobody else takes a step of a session back.
THEOREM SessionsEndInTime == Spec => [][SessionsRunDown]_vars
<1>1. Init => Follow /\ ChunksInRange
  BY DEF Init, Follow, ChunksInRange
<1>2. IInvT /\ Follow /\ ChunksInRange /\ [Next]_vars => Follow' /\ ChunksInRange'
  BY FollowStep, RangeStep
<1>3. ASSUME IInvT, Follow, ChunksInRange, [Next]_vars PROVE [SessionsRunDown]_vars
  <2>1. /\ hpc \in [Conns -> HandlerPC] /\ hpc' \in [Conns -> HandlerPC]
        /\ hfile \in [Conns -> Files] /\ hfile' \in [Conns -> Files]
        /\ hpos \in [Conns -> Nat] /\ hpos' \in [Conns -> Nat]
        /\ \A f \in Files : f <= N
    BY <1>3, TypeStep, ConstantsAssumption DEF IInvT, TypeOK, HandlerTypeOK, Files
  <2>0. \A c \in Conns : HandlerStep(c) => SessionAdvances(c) \/ StillWaits(c)
    BY <1>3, SessionForward
  <2> SUFFICES ASSUME NEW c \in Conns
               PROVE  SessionAdvances(c) \/ UNCHANGED <<hpc[c], hfile[c], hpos[c]>>
    BY <2>0, <2>1 DEF SessionsRunDown
  <2>2. ASSUME hpc'[c] = "closed", hpc[c] \notin Ended
        PROVE  SessionAdvances(c)
    BY <2>1, <2>2 DEF SessionAdvances, SessionPlace, HandlerPC, HandlerReading,
       HandlerLocal, Ended
  <2>3. CASE HandlerStep(c)
    <3>1. SessionAdvances(c) \/ StillWaits(c)
      BY <2>0, <2>3
    <3>2. StillWaits(c) => HPeerCancels(c) \/ HExpire(c)
      BY <2>1, <2>3
         DEF StillWaits, HandlerStep, HOffer, HBusy, HConflict, HLost,
         HPeerGone, HDecided, HPrepare, HFileStart, HUnexpected, HOpen,
         HChunkControl, HChunkData, HCancelled, HBadFrame, HInterrupted, HFileEnd,
         HPartialMissing, HVerify, HVerifyLost, HLink, HUnlink, HMark, HComplete,
         HCompleteLost, HFin, HCleanup, Goto, Leave, LeaveWith
    <3>3. StillWaits(c) => UNCHANGED <<hpc[c], hfile[c], hpos[c]>>
      BY <3>2 DEF HPeerCancels, HExpire, handlerVars
    <3> QED
      BY <3>1, <3>3
  <2>4. ASSUME NEW d \in Conns \ {c}, HandlerStep(d)
        PROVE  UNCHANGED <<hpc[c], hfile[c], hpos[c]>>
    BY <1>3, <2>4, HandlerApproval, HandlerFiles
  <2>5. CASE SenderStep \/ SenderFault
    <3>1. CASE SConnect
      <4>1. hpc[attempt] = "idle" /\ attempt \in Conns
        BY <1>3, <3>1 DEF SConnect, Follow, IInvT, TypeOK, SenderTypeOK
      <4> QED
        BY <2>1, <3>1, <4>1 DEF SConnect, SessionAdvances, SessionPlace
    <3> QED
      BY <2>5, <3>1, SenderFrame DEF handlerVars
  <2>6. CASE Environment
    <3>1. UNCHANGED <<hpos, hfile>>
      BY <2>6 DEF Environment, UserAccepts, UserRejects, UserCancels, SourceChange,
         LinkBreaks, HIdleTimeout, ReceiverCrash, handlerVars
    <3> QED
      BY <1>3, <2>2, <2>6, <3>1, EnvironmentMoves
  <2>7. CASE UNCHANGED vars
    BY <2>7 DEF vars, handlerVars
  <2> QED
    BY <1>3, <2>3, <2>4, <2>5, <2>6, <2>7 DEF Next
<1> QED
  BY <1>1, <1>2, <1>3, TypeInvariant, PTL DEF Spec
=============================================================================
