----------------------- MODULE TransferHistoryProofs -----------------------
(***************************************************************************)
(* Proofs about TransferHistory, for any number of files, sessions, lost   *)
(* writes and restarts.                                                    *)
(***************************************************************************)
EXTENDS TransferHistory, FiniteSetTheorems, TLAPS

\* A session that is at a file has one.
AtFile(h) ==
  \/ hpc[h] \in {"file", "stream", "verify", "commit", "ack"}
  \/ hpc[h] = "update" /\ hnext[h] \in {"file", "stream"}

HasFile == \A h \in Handlers : AtFile(h) => hfile[h] \in Files

\* A complete file has been exposed, and so has one about to become complete.
CompleteFiles ==
  /\ \A f \in Files : info[f] = "complete" => f \in delivered
  /\ \A h \in Handlers : hpc[h] = "commit" => hfile[h] \in delivered

\* The row of an offer counts all its files.
RowCounts == row.status # None /\ ~rowless => row.count = NFiles

\* What the holder of the lock has gathered.  Nobody else makes the row
\* complete before it writes.
Gathered ==
  /\ save.pc # "free" => save.status # None
  /\ save.pc = "aggregated" /\ save.status = "complete" =>
       save.files \subseteq delivered
  /\ save.pc = "built" =>
       /\ row.status = "complete" => save.status = "complete"
       /\ row.status = None => rowless
       /\ save.status = "complete" /\ ~rowless => delivered = Files

\* A session that holds the lock does nothing else.
HolderWaits == save.by \in Handlers => hpc[save.by] = "update"

HistoryInv ==
  /\ TypeOK /\ HasFile /\ HolderWaits /\ CompleteFiles
  /\ RowCounts /\ Gathered /\ CompleteIsDelivered

-----------------------------------------------------------------------------
LEMMA StatusFacts ==
  /\ None \notin Status /\ "complete" \in Status
  /\ Older \subseteq Interruptible /\ Interruptible \subseteq Status
  /\ "complete" \notin Interruptible
BY DEF Status, None, Older, Interruptible

\* Both ways of writing a row keep the type, and make it complete only if it
\* was or if that is what they write.
LEMMA UpsertedFacts ==
  ASSUME NEW old \in FileStatus, NEW new \in Status
  PROVE  /\ Upserted(old, new) \in Status
         /\ Upserted(old, new) = "complete" => old = "complete" \/ new = "complete"
         /\ old = "complete" /\ (new \in Older \/ new = "complete")
              => Upserted(old, new) = "complete"
BY StatusFacts DEF Upserted, FileStatus, None

LEMMA UpdatedFacts ==
  ASSUME NEW old \in FileStatus, NEW new \in Status \ {"complete"}
  PROVE  /\ Updated(old, new) \in FileStatus
         /\ Updated(old, new) = "complete" => old = "complete"
         /\ Updated(old, new) = None <=> old = None
BY StatusFacts DEF Updated, FileStatus

\* _aggregate_status names a status, and complete only if no known file is
\* anything else.
LEMMA AggregateFacts ==
  ASSUME TypeOK
  PROVE  /\ Aggregate \in Status
         /\ Aggregate = "complete" => \A f \in Known : info[f] = "complete"
<1> DEFINE has(i) == \E f \in Files : info[f] = Priorities[i]
           found == {i \in DOMAIN Priorities : has(i)}
<1>1. DOMAIN Priorities = 1..9
  BY DEF Priorities
<1>2. \A i \in 1..9 : Priorities[i] \in Status \ {"complete"}
  BY DEF Priorities, Status
<1>3. \A s \in Status \ {"complete"} : \E i \in 1..9 : Priorities[i] = s
  BY DEF Priorities, Status
<1>4. CASE found = {}
  <2>1. Aggregate = "complete"
    BY <1>4 DEF Aggregate
  <2>2. ASSUME NEW f \in Known
        PROVE  info[f] = "complete"
    <3>1. info[f] \in Status /\ f \in Files
      BY <2>2 DEF Known, TypeOK, FileStatus
    <3>2. SUFFICES ASSUME info[f] # "complete"
                   PROVE  FALSE
      OBVIOUS
    <3>3. PICK i \in 1..9 : Priorities[i] = info[f]
      BY <1>3, <3>1, <3>2
    <3>4. i \in found
      BY <1>1, <3>1, <3>3
    <3> QED
      BY <1>4, <3>4
  <2> QED
    BY <2>1, <2>2, StatusFacts
<1>5. CASE found # {}
  <2> DEFINE least == CHOOSE i \in found : \A j \in found : i <= j
  <2>1. Aggregate = Priorities[least]
    BY <1>5 DEF Aggregate
  <2>2. \E i \in found : \A j \in found : i <= j
    <3> DEFINE below(n) == \E j \in found : j <= n
    <3>1. found \subseteq 1..9
      BY <1>1
    <3> HIDE DEF found
    <3>2. PICK k \in found : TRUE
      BY <1>5
    <3>3. \/ 1 \in found \/ 2 \in found \/ 3 \in found \/ 4 \in found
          \/ 5 \in found \/ 6 \in found \/ 7 \in found \/ 8 \in found
          \/ 9 \in found
      BY <3>1, <3>2, k \in 1..9
    <3> QED
      BY <3>1, <3>3
  <2>3. least \in 1..9
    BY <2>2, <1>1
  <2> QED
    BY <2>1, <2>3, <1>2
<1> QED
  BY <1>4, <1>5

-----------------------------------------------------------------------------
(* The statements *)

LEMMA UpsertFacts ==
  ASSUME TypeOK, NEW status \in Status, NEW count \in 0..NFiles,
         NEW S \in SUBSET Files, NEW statuses \in [Files -> FileStatus],
         Upsert(status, count, S, statuses)
  PROVE  /\ row' \in [status : FileStatus, count : 0..NFiles]
         /\ fileRow' \in [Files -> FileStatus]
         /\ row'.status # None
         /\ row'.status = "complete" => row.status = "complete" \/ status = "complete"
         /\ row.status = "complete" /\ (status \in Older \/ status = "complete")
              => row'.status = "complete"
         /\ count = NFiles \/ row.count = NFiles => row'.count = NFiles
<1>1. row.status \in FileStatus /\ row.count \in 0..NFiles
  BY DEF TypeOK
<1>2. Upserted(row.status, status) \in Status
  BY <1>1, UpsertedFacts
<1>3. Larger(row.count, count) \in 0..NFiles
  BY <1>1 DEF Larger
<1>4. count = NFiles \/ row.count = NFiles => Larger(row.count, count) = NFiles
  BY <1>1, HistoryAssumption DEF Larger
<1>5. row' = [status |-> Upserted(row.status, status),
             count |-> Larger(row.count, count)]
  BY DEF Upsert
<1>6. fileRow' \in [Files -> FileStatus]
  BY DEF Upsert, TypeOK, Upserted
<1> QED
  BY <1>1, <1>2, <1>3, <1>4, <1>5, <1>6, UpsertedFacts, StatusFacts DEF FileStatus

LEMMA DecisionFacts ==
  ASSUME TypeOK, NEW status \in {"accepted", "rejected", "failed", "cancelled"},
         WriteDecision(status)
  PROVE  /\ row' \in [status : FileStatus, count : 0..NFiles]
         /\ fileRow' \in [Files -> FileStatus]
         /\ row'.status = "complete" => row.status = "complete"
         /\ row'.status = None <=> row.status = None
         /\ row'.count = row.count
         /\ status = "accepted" /\ row.status = "complete" => row'.status = "complete"
<1>1. status \in Status \ {"complete"}
  BY DEF Status
<1>2. row \in [status : FileStatus, count : 0..NFiles]
  BY DEF TypeOK
<1>3. Updated(row.status, status) \in FileStatus
  BY <1>1, <1>2, UpdatedFacts
<1>4. row' = [row EXCEPT !.status = Updated(row.status, status)]
  BY DEF WriteDecision
<1>5. row'.status = Updated(row.status, status) /\ row'.count = row.count
  BY <1>2, <1>4
<1>6. fileRow' \in [Files -> FileStatus]
  BY <1>1 DEF WriteDecision, TypeOK, FileStatus
<1>7. Updated("complete", "accepted") = "complete"
  BY DEF Updated, Interruptible
<1> QED
  BY <1>1, <1>2, <1>3, <1>4, <1>5, <1>6, <1>7, UpdatedFacts

-----------------------------------------------------------------------------
(* Types *)

LEMMA CanSetFacts ==
  /\ {"active", "resuming", "complete", "failed", "cancelled", "interrupted"}
       \subseteq Status
  /\ Terminal \subseteq Status
BY DEF Status, Terminal

LEMMA OfferTypes ==
  ASSUME TypeOK, NEW h \in Handlers, OfferStep(h)
  PROVE  TypeOK'
<1> USE DEF Goto, Places
<1>1. CASE Offer(h)
  BY <1>1 DEF Offer, TypeOK, storeVars, saveVars
<1>2. CASE Announce(h)
  <2>1. "pending_approval" \in Status
    BY DEF Status
  <2>2. NFiles \in 0..NFiles /\ Files \in SUBSET Files
    BY HistoryAssumption
  <2>3. /\ row' \in [status : FileStatus, count : 0..NFiles]
        /\ fileRow' \in [Files -> FileStatus]
    <3> DEFINE statuses == [f \in Files |-> "pending_approval"]
    <3>1. statuses \in [Files -> FileStatus]
      BY <2>1 DEF FileStatus
    <3>2. Upsert("pending_approval", NFiles, Files, statuses)
      BY <1>2 DEF Announce
    <3> HIDE DEF statuses
    <3> QED
      BY <2>1, <2>2, <3>1, <3>2, UpsertFacts
  <2> QED
    BY <1>2, <2>3 DEF Announce, TypeOK, saveVars, decisionVars
<1>3. CASE AnnounceLost(h) \/ RefuseLost(h)
  BY <1>3, HistoryAssumption
  DEF AnnounceLost, RefuseLost, Lose, TypeOK, storeVars, saveVars, decisionVars
<1>4. CASE Withdraw(h)
  BY <1>4 DEF Withdraw, TypeOK, storeVars, saveVars
<1>5. CASE Refuse(h)
  <2>1. /\ row' \in [status : FileStatus, count : 0..NFiles]
        /\ fileRow' \in [Files -> FileStatus]
    BY <1>5, DecisionFacts DEF Refuse
  <2> QED
    BY <1>5, <2>1 DEF Refuse, TypeOK, saveVars, decisionVars
<1>6. CASE Decided(h)
  BY <1>6 DEF Decided, TypeOK, storeVars, saveVars, decisionVars
<1> QED
  BY <1>1, <1>2, <1>3, <1>4, <1>5, <1>6 DEF OfferStep

LEMMA FileTypes ==
  ASSUME TypeOK, HasFile, NEW h \in Handlers, FileStep(h)
  PROVE  TypeOK'
<1> USE DEF Goto, Report, Places, rest, storeVars, saveVars, decisionVars
<1>1. CASE OpenFile(h)
  <2>1. info' \in [Files -> FileStatus]
    BY <1>1, CanSetFacts DEF OpenFile, TypeOK, FileStatus
  <2> QED
    BY <1>1, <2>1 DEF OpenFile, TypeOK
<1>2. CASE Recognise(h) \/ Chunk(h) \/ AcknowledgeFails(h) \/ Leave(h)
  BY <1>2 DEF Recognise, Chunk, AcknowledgeFails, Leave, TypeOK
<1>3. CASE Begin(h) \/ Complete(h)
  <2>1. info' \in [Files -> FileStatus]
    BY <1>3, CanSetFacts DEF Begin, Complete, TypeOK, FileStatus
  <2> QED
    BY <1>3, <2>1 DEF Begin, Complete, TypeOK
<1>4. CASE Commit(h)
  <2>1. hfile[h] \in Files
    BY <1>4 DEF Commit, HasFile, AtFile
  <2> QED
    BY <1>4, <2>1 DEF Commit, TypeOK
<1>5. CASE Acknowledge(h)
  <2>1. hfile[h] \in 1..NFiles
    BY <1>5 DEF Acknowledge, HasFile, AtFile, Files
  <2>2. hfile[h] + 1 \in 1..NFiles + 1
    BY <2>1, HistoryAssumption
  <2> QED
    BY <1>5, <2>2 DEF Acknowledge, TypeOK
<1>6. CASE \E status \in {"failed", "cancelled", "interrupted"} : Break(h, status)
  <2>1. PICK status \in {"failed", "cancelled", "interrupted"} : Break(h, status)
    BY <1>6
  <2>2. info' \in [Files -> FileStatus]
    BY <2>1, CanSetFacts DEF Break, TypeOK, FileStatus
  <2>3. /\ hpc' \in [Handlers -> Places]
        /\ hnext' \in [Handlers -> {"next", "file", "stream", "ended"}]
    BY <2>1 DEF Break, TypeOK
  <2> QED
    BY <2>1, <2>2, <2>3 DEF Break, TypeOK
<1> QED
  BY <1>1, <1>2, <1>3, <1>4, <1>5, <1>6 DEF FileStep

SaveType == [by : Handlers \cup {None, Other}, pc : {"free", "aggregated", "built"},
             files : SUBSET Files, status : FileStatus, rows : [Files -> FileStatus]]

LEMMA FreeType == Free \in SaveType
BY DEF Free, SaveType, FileStatus

\* What the holder of the lock makes of the row is a status.
LEMMA JudgedFacts ==
  ASSUME TypeOK, save.status \in Status, NEW n
  PROVE  /\ Judged(save.status, n) \in Status
         /\ row.status = "complete" => Judged(save.status, n) = "complete"
         /\ Judged(save.status, n) = "complete" =>
              \/ row.status = "complete"
              \/ /\ save.status = "complete"
                 /\ row.status = None \/ ~(row.count > n)
BY DEF Judged, Status

LEMMA ReleaseTypes ==
  ASSUME TypeOK, Release
  PROVE  /\ save' \in SaveType
         /\ hpc' \in [Handlers -> Places]
         /\ UNCHANGED <<info, hfile, hnext, delivered, inbox, callback, restarts>>
<1>1. hnext \in [Handlers -> Places]
  BY DEF TypeOK, Places
<1> QED
  BY <1>1, FreeType DEF Release, TypeOK, decisionVars

\* The rows of a save that is written.
LEMMA WriteFacts ==
  ASSUME TypeOK, Gathered, Write
  PROVE  /\ row' \in [status : FileStatus, count : 0..NFiles]
         /\ fileRow' \in [Files -> FileStatus]
         /\ row'.status # None
         /\ row'.status = "complete" => row.status = "complete" \/ save.status = "complete"
         /\ row.status = "complete" => row'.status = "complete"
         /\ row.count = NFiles => row'.count = NFiles
<1>1. save \in SaveType
  BY DEF TypeOK, SaveType
<1>2. save.status \in Status
  BY <1>1 DEF Gathered, Write, SaveType, FileStatus
<1>3. Cardinality(save.files) \in 0..NFiles
  <2>1. save.files \in SUBSET (1..NFiles)
    BY <1>1 DEF SaveType, Files
  <2>2. IsFiniteSet(1..NFiles) /\ Cardinality(1..NFiles) = NFiles
    BY HistoryAssumption, FS_Interval
  <2>3. IsFiniteSet(save.files) /\ Cardinality(save.files) <= NFiles
    BY <2>1, <2>2, FS_Subset
  <2>4. Cardinality(save.files) \in Nat
    BY <2>3, FS_CardinalityType
  <2> QED
    BY <2>3, <2>4, HistoryAssumption
<1>4. save.files \in SUBSET Files /\ save.rows \in [Files -> FileStatus]
  BY <1>1 DEF SaveType
<1>5. Upsert(save.status, Cardinality(save.files), save.files, save.rows)
  BY DEF Write
<1>6. row.status = "complete" => save.status = "complete"
  BY DEF Gathered, Write
<1> QED
  BY <1>2, <1>3, <1>4, <1>5, <1>6, UpsertFacts

LEMMA StepTypes ==
  ASSUME HistoryInv, [Next]_vars
  PROVE  TypeOK'
<1> USE DEF HistoryInv, sessionVars, decisionVars, storeVars, saveVars
<1>1. save \in SaveType
  BY DEF TypeOK, SaveType
<1>2. CASE UNCHANGED vars
  BY <1>2 DEF TypeOK, vars
<1>3. CASE \E h \in Handlers : OfferStep(h) \/ FileStep(h)
  BY <1>3, OfferTypes, FileTypes
<1>4. CASE UserDecides
  BY <1>4 DEF UserDecides, TypeOK
<1>5. CASE Callback
  <2>1. callback \in {"accepted", "rejected"}
    BY <1>5 DEF Callback, TypeOK
  <2>2. /\ row' \in [status : FileStatus, count : 0..NFiles]
        /\ fileRow' \in [Files -> FileStatus]
    BY <1>5, <2>1, DecisionFacts DEF Callback
  <2> QED
    BY <1>5, <2>2 DEF Callback, TypeOK
<1>6. CASE CallbackLost
  BY <1>6, HistoryAssumption DEF CallbackLost, Lose, TypeOK
<1>7. CASE \E t \in Handlers \cup {Other} : Gather(t)
  <2>1. PICK t \in Handlers \cup {Other} : Gather(t)
    BY <1>7
  <2>2. Known \in SUBSET Files /\ Aggregate \in FileStatus
    BY AggregateFacts DEF Known, FileStatus
  <2>3. save' \in SaveType
    BY <2>1, <2>2, FreeType DEF Gather, SaveType
  <2> QED
    BY <2>1, <2>3 DEF Gather, TypeOK, SaveType
<1>8. CASE Build
  <2>1. Judged(save.status, Cardinality(save.files)) \in FileStatus
    <3>1. save.status \in Status
      BY <1>1, <1>8 DEF Build, Gathered, SaveType, FileStatus
    <3> QED
      BY <3>1, JudgedFacts DEF FileStatus
  <2>2. [f \in Files |-> IF f \in save.files THEN info[f] ELSE None]
          \in [Files -> FileStatus]
    BY DEF TypeOK, FileStatus
  <2>3. save' \in SaveType
    BY <1>1, <1>8, <2>1, <2>2 DEF Build, SaveType
  <2> QED
    BY <1>8, <2>3 DEF Build, TypeOK, SaveType
<1>9. CASE Throttle
  BY <1>9, ReleaseTypes DEF Throttle, TypeOK, SaveType
<1>10. CASE Write
  <2>1. Release /\ prev' = save.status /\ UNCHANGED <<rowless, behind, lost>>
    BY <1>10 DEF Write
  <2> QED
    BY <1>1, <1>10, <2>1, ReleaseTypes, WriteFacts DEF TypeOK, SaveType
<1>11. CASE WriteLost
  <2>1. lost' \in 0..MaxLost
    BY <1>11, HistoryAssumption DEF WriteLost, Lose, TypeOK
  <2> QED
    BY <1>1, <1>11, <2>1, ReleaseTypes DEF WriteLost, TypeOK, SaveType
<1>12. CASE Restart
  <2>1. row' \in [status : FileStatus, count : 0..NFiles]
    BY <1>12, StatusFacts DEF Restart, TypeOK, FileStatus, Status
  <2>2. hpc' \in [Handlers -> Places] /\ info' \in [Files -> FileStatus]
    BY <1>12 DEF Restart, TypeOK, Places, FileStatus
  <2>3. restarts' \in 0..MaxRestarts
    BY <1>12, HistoryAssumption DEF Restart, TypeOK
  <2> QED
    BY <1>12, <2>1, <2>2, <2>3, FreeType DEF Restart, TypeOK, SaveType, FileStatus
<1> QED
  BY <1>2, <1>3, <1>4, <1>5, <1>6, <1>7, <1>8, <1>9, <1>10, <1>11, <1>12 DEF Next

-----------------------------------------------------------------------------
(* Sessions and their files *)

SessionInv == HasFile /\ HolderWaits /\ CompleteFiles

LEMMA OfferSessions ==
  ASSUME TypeOK, SessionInv, NEW h \in Handlers, OfferStep(h)
  PROVE  SessionInv'
<1>1. UNCHANGED <<info, hfile, hnext, delivered, save>>
  BY DEF OfferStep, Offer, Announce, AnnounceLost, Withdraw, Refuse, RefuseLost,
         Decided, saveVars
<1>2. \E pc \in {"announce", "await", "ended", "refuse", "next"} : Goto(h, pc)
  BY DEF OfferStep, Offer, Announce, AnnounceLost, Withdraw, Refuse, RefuseLost,
         Decided
<1>3. hpc[h] \in {"new", "announce", "await", "refuse"}
  BY DEF OfferStep, Offer, Announce, AnnounceLost, Withdraw, Refuse, RefuseLost,
         Decided
<1>4. \A g \in Handlers :
        hpc'[g] = hpc[g] \/ hpc'[g] \in {"announce", "await", "ended", "refuse", "next"}
  BY <1>2 DEF Goto, TypeOK
<1>5. \A g \in Handlers : hpc[g] = "update" => hpc'[g] = "update"
  BY <1>2, <1>3 DEF Goto, TypeOK
<1>6. HasFile'
  BY <1>1, <1>4 DEF SessionInv, HasFile, AtFile
<1>7. HolderWaits'
  BY <1>1, <1>5 DEF SessionInv, HolderWaits
<1>8. CompleteFiles'
  BY <1>1, <1>4 DEF SessionInv, CompleteFiles
<1> QED
  BY <1>6, <1>7, <1>8 DEF SessionInv

\* A session at a file, or about to open one, keeps to it.
LEMMA FileSessions ==
  ASSUME TypeOK, SessionInv, NEW h \in Handlers, FileStep(h)
  PROVE  SessionInv'
<1> USE DEF SessionInv, Goto, Report, rest, saveVars
<1>1. hpc[h] # "update"
  BY DEF FileStep, OpenFile, Recognise, Begin, Chunk, Commit, Complete,
         Acknowledge, AcknowledgeFails, Leave, Break
<1>2. /\ \A g \in Handlers \ {h} :
            /\ hpc'[g] = hpc[g] /\ hfile'[g] = hfile[g] /\ hnext'[g] = hnext[g]
      /\ UNCHANGED save /\ delivered \subseteq delivered'
  BY DEF FileStep, OpenFile, Recognise, Begin, Chunk, Commit, Complete,
         Acknowledge, AcknowledgeFails, Leave, Break, TypeOK
<1>3. HolderWaits'
  BY <1>1, <1>2 DEF HolderWaits
<1>4. AtFile(h)' => hfile'[h] \in Files
  <2>1. CASE OpenFile(h)
    BY <2>1 DEF OpenFile
  <2>2. CASE Acknowledge(h) \/ AcknowledgeFails(h) \/ Leave(h)
    BY <2>2 DEF Acknowledge, AcknowledgeFails, Leave, AtFile, TypeOK
  <2>3. CASE Recognise(h) \/ Begin(h) \/ Chunk(h) \/ Commit(h) \/ Complete(h)
    BY <2>3 DEF Recognise, Begin, Chunk, Commit, Complete, AtFile, HasFile
  <2>4. CASE \E status \in {"failed", "cancelled", "interrupted"} : Break(h, status)
    BY <2>4 DEF Break, AtFile, TypeOK
  <2> QED
    BY <2>1, <2>2, <2>3, <2>4 DEF FileStep
<1>5. HasFile'
  BY <1>2, <1>4 DEF HasFile, AtFile
<1>6. \A f \in Files : info'[f] = "complete" =>
        info[f] = "complete" \/ (hpc[h] = "commit" /\ f = hfile[h])
  <2>1. CASE Complete(h)
    BY <2>1 DEF Complete, TypeOK
  <2>2. CASE OpenFile(h)
    BY <2>2 DEF OpenFile, TypeOK
  <2>3. CASE Begin(h)
    BY <2>3 DEF Begin, TypeOK
  <2>4. CASE \E status \in {"failed", "cancelled", "interrupted"} : Break(h, status)
    BY <2>4 DEF Break, TypeOK
  <2>5. CASE \/ Recognise(h) \/ Chunk(h) \/ Commit(h) \/ Acknowledge(h)
             \/ AcknowledgeFails(h) \/ Leave(h)
    BY <2>5 DEF Recognise, Chunk, Commit, Acknowledge, AcknowledgeFails, Leave
  <2> QED
    BY <2>1, <2>2, <2>3, <2>4, <2>5 DEF FileStep
<1>7. hpc'[h] = "commit" => hfile'[h] \in delivered'
  BY DEF FileStep, OpenFile, Recognise, Begin, Chunk, Commit, Complete,
         Acknowledge, AcknowledgeFails, Leave, Break, TypeOK
<1>8. CompleteFiles'
  BY <1>2, <1>6, <1>7 DEF CompleteFiles
<1> QED
  BY <1>3, <1>5, <1>8

LEMMA StepSessions ==
  ASSUME HistoryInv, [Next]_vars
  PROVE  SessionInv'
<1> USE DEF HistoryInv
<1>1. SessionInv
  BY DEF SessionInv
<1>2. CASE \E h \in Handlers : OfferStep(h) \/ FileStep(h)
  BY <1>1, <1>2, OfferSessions, FileSessions
<1>3. CASE \E t \in Handlers \cup {Other} : Gather(t)
  <2>1. PICK t \in Handlers \cup {Other} : Gather(t)
    BY <1>3
  <2>2. UNCHANGED <<info, hpc, hfile, hnext, delivered>> /\ save'.by = t
    BY <2>1 DEF Gather, sessionVars, Free
  <2>3. t \in Handlers => hpc[t] = "update"
    BY <2>1, HistoryAssumption DEF Gather, Reporting
  <2> QED
    BY <1>1, <2>2, <2>3 DEF SessionInv, HasFile, AtFile, HolderWaits, CompleteFiles
<1>4. CASE \/ UNCHANGED vars \/ UserDecides \/ Callback \/ CallbackLost \/ Build
  <2>1. UNCHANGED <<info, hpc, hfile, hnext, delivered>> /\ save'.by = save.by
    BY <1>4 DEF vars, UserDecides, Callback, CallbackLost, Build, sessionVars,
                saveVars, TypeOK
  <2> QED
    BY <1>1, <2>1 DEF SessionInv, HasFile, AtFile, HolderWaits, CompleteFiles
<1>5. CASE Throttle \/ Write \/ WriteLost
  <2>1. Release
    BY <1>5 DEF Throttle, Write, WriteLost
  <2>2. /\ UNCHANGED <<info, hfile, hnext, delivered>> /\ save'.by = None
        /\ \A g \in Handlers : hpc'[g] = hpc[g]
                               \/ (hpc[g] = "update" /\ hpc'[g] = hnext[g])
    BY <1>1, <2>1 DEF Release, Free, SessionInv, HolderWaits
  <2>3. \A g \in Handlers : hnext[g] \in {"next", "file", "stream", "ended"}
    BY DEF TypeOK
  <2> QED
    BY <1>1, <2>2, <2>3, HistoryAssumption
    DEF SessionInv, HasFile, AtFile, HolderWaits, CompleteFiles
<1>6. CASE Restart
  BY <1>1, <1>6, HistoryAssumption
  DEF Restart, Free, SessionInv, HasFile, AtFile, HolderWaits, CompleteFiles, None
<1> QED
  BY <1>2, <1>3, <1>4, <1>5, <1>6 DEF Next

-----------------------------------------------------------------------------
(* The row and what is about to be written *)

RowInv == RowCounts /\ Gathered /\ CompleteIsDelivered

\* A step that makes no row complete, and leaves the lock alone.
LEMMA RowFrame ==
  ASSUME TypeOK, RowInv, UNCHANGED <<save, rowless>>,
         delivered \subseteq delivered', delivered' \subseteq Files,
         row'.status = "complete" => row.status = "complete",
         row'.status = None <=> row.status = None,
         row.count = NFiles => row'.count = NFiles
  PROVE  RowInv'
<1>1. RowCounts'
  BY DEF RowInv, RowCounts
<1>2. Gathered'
  BY DEF RowInv, Gathered
<1>3. CompleteIsDelivered'
  BY DEF RowInv, CompleteIsDelivered
<1> QED
  BY <1>1, <1>2, <1>3 DEF RowInv

LEMMA OfferRows ==
  ASSUME HistoryInv, TypeOK', NEW h \in Handlers, OfferStep(h)
  PROVE  RowInv'
<1> USE DEF HistoryInv
<1>1. RowInv /\ UNCHANGED <<save, rowless, delivered>>
  BY DEF RowInv, OfferStep, Offer, Announce, AnnounceLost, Withdraw, Refuse,
         RefuseLost, Decided, saveVars
<1>2. delivered \subseteq Files
  BY DEF TypeOK
<1>3. CASE Announce(h)
  <2> DEFINE statuses == [f \in Files |-> "pending_approval"]
  <2>1. /\ "pending_approval" \in Status /\ NFiles \in 0..NFiles
        /\ statuses \in [Files -> FileStatus] /\ Files \in SUBSET Files
    BY HistoryAssumption DEF Status, FileStatus
  <2>2. Upsert("pending_approval", NFiles, Files, statuses)
    BY <1>3 DEF Announce
  <2> HIDE DEF statuses
  <2>3. /\ row'.status # None /\ row'.count = NFiles
        /\ row'.status = "complete" => row.status = "complete"
    BY <2>1, <2>2, UpsertFacts
  <2>4. RowCounts'
    BY <2>3 DEF RowCounts
  <2>5. Gathered' /\ CompleteIsDelivered'
    BY <1>1, <2>3 DEF RowInv, Gathered, CompleteIsDelivered
  <2> QED
    BY <2>4, <2>5 DEF RowInv
<1>4. CASE Refuse(h)
  <2>1. PICK status \in {"failed", "cancelled"} : WriteDecision(status)
    BY <1>4 DEF Refuse
  <2> QED
    BY <1>1, <1>2, <2>1, DecisionFacts, RowFrame
<1>5. CASE Offer(h) \/ AnnounceLost(h) \/ Withdraw(h) \/ RefuseLost(h) \/ Decided(h)
  <2>1. row' = row
    BY <1>5 DEF Offer, AnnounceLost, Withdraw, RefuseLost, Decided, storeVars
  <2> QED
    BY <1>1, <1>2, <2>1, RowFrame
<1> QED
  BY <1>3, <1>4, <1>5 DEF OfferStep

LEMMA FileRows ==
  ASSUME HistoryInv, TypeOK', NEW h \in Handlers, FileStep(h)
  PROVE  RowInv'
<1>1. UNCHANGED <<save, rowless, row>> /\ delivered \subseteq delivered'
  BY DEF FileStep, OpenFile, Recognise, Begin, Chunk, Commit, Complete, Acknowledge,
         AcknowledgeFails, Leave, Break, rest, storeVars, saveVars
<1>2. delivered' \subseteq Files
  BY DEF TypeOK
<1>3. TypeOK /\ RowInv
  BY DEF HistoryInv, RowInv
<1> QED
  BY <1>1, <1>2, <1>3, RowFrame

\* Everything known is complete, so it has been exposed.
LEMMA GatherRows ==
  ASSUME HistoryInv, NEW t, Gather(t)
  PROVE  RowInv'
<1> USE DEF HistoryInv
<1>1. /\ UNCHANGED <<row, rowless, delivered>> /\ save'.pc = "aggregated"
      /\ save'.files = Known /\ save'.status = Aggregate
  BY DEF Gather, storeVars, sessionVars, Free
<1>2. Aggregate \in Status
  BY AggregateFacts
<1>3. Aggregate = "complete" => Known \subseteq delivered
  BY AggregateFacts DEF CompleteFiles, Known
<1>4. Gathered'
  BY <1>1, <1>2, <1>3, StatusFacts DEF Gathered
<1> QED
  BY <1>1, <1>4 DEF RowInv, RowCounts, CompleteIsDelivered

\* A save is judged complete when the row is, or when the files known are as
\* many as the row counts: then they are all the files.
LEMMA BuildRows ==
  ASSUME HistoryInv, Build
  PROVE  RowInv'
<1> USE DEF HistoryInv
<1> DEFINE n == Cardinality(save.files)
<1>1. /\ UNCHANGED <<row, delivered>> /\ save'.pc = "built"
      /\ save'.status = Judged(save.status, n)
      /\ rowless' = (rowless \/ row.status = None)
  BY DEF Build, TypeOK, storeVars, sessionVars
<1>2. save.status \in Status
  BY DEF Build, Gathered, TypeOK, FileStatus
<1>3. /\ Judged(save.status, n) \in Status
      /\ row.status = "complete" => Judged(save.status, n) = "complete"
      /\ Judged(save.status, n) = "complete" =>
           \/ row.status = "complete"
           \/ /\ save.status = "complete"
              /\ row.status = None \/ ~(row.count > n)
  BY <1>2, JudgedFacts
<1>4. ASSUME save.status = "complete", row.status # None, ~rowless, ~(row.count > n)
      PROVE  delivered = Files
  <2>1. row.count = NFiles
    BY <1>4 DEF RowCounts
  <2>2. save.files \in SUBSET (1..NFiles)
    BY DEF TypeOK, Files
  <2>3. IsFiniteSet(1..NFiles) /\ Cardinality(1..NFiles) = NFiles
    BY HistoryAssumption, FS_Interval
  <2>4. /\ IsFiniteSet(save.files) /\ n <= NFiles
        /\ n = NFiles => save.files = 1..NFiles
    BY <2>2, <2>3, FS_Subset
  <2>5. n \in Nat
    BY <2>4, FS_CardinalityType
  <2>6. save.files = Files
    BY <1>4, <2>1, <2>4, <2>5, HistoryAssumption DEF Files
  <2>7. save.files \subseteq delivered
    BY <1>4 DEF Gathered, Build
  <2> QED
    BY <2>6, <2>7 DEF TypeOK
<1>5. ASSUME row.status = "complete", ~rowless
      PROVE  delivered = Files
  BY <1>5 DEF CompleteIsDelivered
<1> HIDE DEF n
<1>6. Gathered'
  BY <1>1, <1>3, <1>4, <1>5, StatusFacts DEF Gathered
<1>7. RowCounts' /\ CompleteIsDelivered'
  BY <1>1 DEF RowCounts, CompleteIsDelivered
<1> QED
  BY <1>6, <1>7 DEF RowInv

LEMMA WriteRows ==
  ASSUME HistoryInv, Write
  PROVE  RowInv'
<1> USE DEF HistoryInv
<1>1. UNCHANGED <<rowless, delivered>> /\ save'.pc = "free"
  BY DEF Write, Release, Free
<1>2. /\ row'.status = "complete" => row.status = "complete" \/ save.status = "complete"
      /\ row.count = NFiles => row'.count = NFiles
  BY WriteFacts
<1>3. Gathered'
  BY <1>1 DEF Gathered
<1>4. RowCounts'
  <2>1. ~rowless => row.status # None
    BY DEF Gathered, Write
  <2> QED
    BY <1>1, <1>2, <2>1 DEF RowCounts
<1>5. CompleteIsDelivered'
  BY <1>1, <1>2 DEF CompleteIsDelivered, Gathered, Write
<1> QED
  BY <1>3, <1>4, <1>5 DEF RowInv

LEMMA StepRows ==
  ASSUME HistoryInv, TypeOK', [Next]_vars
  PROVE  RowInv'
<1> USE DEF HistoryInv
<1>1. TypeOK /\ RowInv /\ delivered \subseteq Files
  BY DEF TypeOK, RowInv
<1>2. CASE \E h \in Handlers : OfferStep(h) \/ FileStep(h)
  BY <1>2, OfferRows, FileRows
<1>3. CASE UNCHANGED vars \/ UserDecides \/ CallbackLost
  BY <1>1, <1>3, RowFrame
  DEF vars, UserDecides, CallbackLost, sessionVars, storeVars, saveVars
<1>4. CASE Callback
  <2>1. callback \in {"accepted", "rejected"} /\ WriteDecision(callback)
    BY <1>4 DEF Callback, TypeOK
  <2>2. UNCHANGED <<save, rowless, delivered>>
    BY <1>4 DEF Callback, sessionVars, saveVars
  <2> QED
    BY <1>1, <2>1, <2>2, DecisionFacts, RowFrame
<1>5. CASE \E t \in Handlers \cup {Other} : Gather(t)
  BY <1>5, GatherRows
<1>6. CASE Build
  BY <1>6, BuildRows
<1>7. CASE Write
  BY <1>7, WriteRows
<1>8. CASE Throttle \/ WriteLost
  <2>1. UNCHANGED <<row, rowless, delivered>> /\ save'.pc = "free"
    BY <1>8 DEF Throttle, WriteLost, Release, Free, storeVars
  <2> QED
    BY <1>1, <2>1 DEF RowInv, RowCounts, Gathered, CompleteIsDelivered
<1>9. CASE Restart
  <2>1. /\ UNCHANGED <<rowless, delivered>> /\ save'.pc = "free"
        /\ row'.count = row.count
        /\ row'.status = "complete" => row.status = "complete"
        /\ row'.status = None <=> row.status = None
    BY <1>9, StatusFacts DEF Restart, Free, TypeOK, None
  <2> QED
    BY <1>1, <2>1 DEF RowInv, RowCounts, Gathered, CompleteIsDelivered
<1> QED
  BY <1>2, <1>3, <1>4, <1>5, <1>6, <1>7, <1>8, <1>9 DEF Next

-----------------------------------------------------------------------------
(* The theorems *)

LEMMA InitInv == Init => HistoryInv
<1> SUFFICES ASSUME Init
             PROVE  HistoryInv
  OBVIOUS
<1>1. 1 \in 1..NFiles + 1 /\ 0 \in 0..NFiles /\ 0 \in 0..MaxLost /\ 0 \in 0..MaxRestarts
  BY HistoryAssumption
<1>2. TypeOK
  BY <1>1, FreeType DEF Init, TypeOK, SaveType, Places, FileStatus
<1>3. SessionInv
  BY HistoryAssumption
  DEF Init, Free, SessionInv, HasFile, AtFile, HolderWaits, CompleteFiles, None
<1>4. RowInv
  BY DEF Init, Free, RowInv, RowCounts, Gathered, CompleteIsDelivered, None
<1> QED
  BY <1>2, <1>3, <1>4 DEF HistoryInv, SessionInv, RowInv

LEMMA StepInv == HistoryInv /\ [Next]_vars => HistoryInv'
<1> SUFFICES ASSUME HistoryInv, [Next]_vars
             PROVE  HistoryInv'
  OBVIOUS
<1>1. TypeOK'
  BY StepTypes
<1>2. SessionInv'
  BY StepSessions
<1>3. RowInv'
  BY <1>1, StepRows
<1> QED
  BY <1>1, <1>2, <1>3 DEF HistoryInv, SessionInv, RowInv

LEMMA Invariant == Spec => []HistoryInv
  BY InitInv, StepInv, PTL DEF Spec

\* The variables keep their types, in every life of the program.
THEOREM HistoryTypes == Spec => []TypeOK
<1>1. HistoryInv => TypeOK
  BY DEF HistoryInv
<1> QED
  BY <1>1, Invariant, PTL

\* A row that shows complete is true (the status _persist_runtime_transfers
\* derives from the files known so far, transfer.py:1648-1690), for any number
\* of files and of overlapping sessions: a status is judged complete only
\* against the file count of the offer, and nobody else completes the row
\* between that judgement and the write.
THEOREM CompleteIsTrue == Spec => []CompleteIsDelivered
<1>1. HistoryInv => CompleteIsDelivered
  BY DEF HistoryInv
<1> QED
  BY <1>1, Invariant, PTL

\* Only the refusal of a later offer replaces a complete row (create_transfer
\* and update_transfer, history.py:97-101, 133-167), whoever writes, however
\* late, and in every later life of the program.
LEMMA StepKeeps ==
  ASSUME HistoryInv, [Next]_vars, row.status = "complete", row'.status # "complete"
  PROVE  \/ callback = "rejected" /\ callback' = None
         \/ \E h \in Handlers : hpc[h] = "refuse" /\ hpc'[h] = "ended"
<1> USE DEF HistoryInv
<1>1. CASE \E h \in Handlers : OfferStep(h) \/ FileStep(h)
  <2>1. PICK h \in Handlers : OfferStep(h) \/ FileStep(h)
    BY <1>1
  <2>2. CASE Refuse(h)
    BY <2>2 DEF Refuse, Goto, TypeOK
  <2>3. CASE Announce(h)
    <3> DEFINE statuses == [f \in Files |-> "pending_approval"]
    <3>1. /\ "pending_approval" \in Status /\ NFiles \in 0..NFiles
          /\ statuses \in [Files -> FileStatus] /\ Files \in SUBSET Files
          /\ "pending_approval" \in Older
      BY HistoryAssumption DEF Status, FileStatus, Older
    <3>2. Upsert("pending_approval", NFiles, Files, statuses)
      BY <2>3 DEF Announce
    <3> HIDE DEF statuses
    <3> QED
      BY <3>1, <3>2, UpsertFacts
  <2>4. CASE \/ Offer(h) \/ AnnounceLost(h) \/ Withdraw(h) \/ RefuseLost(h)
             \/ Decided(h) \/ FileStep(h)
    BY <2>4 DEF Offer, AnnounceLost, Withdraw, RefuseLost, Decided, FileStep,
                OpenFile, Recognise, Begin, Chunk, Commit, Complete, Acknowledge,
                AcknowledgeFails, Leave, Break, rest, storeVars
  <2> QED
    BY <2>1, <2>2, <2>3, <2>4 DEF OfferStep
<1>2. CASE Callback
  <2>1. callback \in {"accepted", "rejected"} /\ WriteDecision(callback)
    BY <1>2 DEF Callback, TypeOK
  <2>2. callback # "accepted"
    BY <2>1, DecisionFacts
  <2> QED
    BY <1>2, <2>1, <2>2 DEF Callback
<1>3. CASE Write
  BY <1>3, WriteFacts
<1>4. CASE Restart
  BY <1>4, StatusFacts DEF Restart, TypeOK
<1>5. CASE \/ UNCHANGED vars \/ UserDecides \/ CallbackLost \/ Build \/ Throttle
           \/ WriteLost \/ \E t \in Handlers \cup {Other} : Gather(t)
  BY <1>5 DEF vars, UserDecides, CallbackLost, Build, Throttle, WriteLost, Gather,
              storeVars
<1> QED
  BY <1>1, <1>2, <1>3, <1>4, <1>5 DEF Next

\* A complete row stays complete (CompleteIsKept; StepKeeps says of which code).
THEOREM CompleteStays == Spec => CompleteIsKept
<1>1. HistoryInv /\ [Next]_vars =>
        [row.status = "complete" /\ row'.status # "complete" =>
           \/ callback = "rejected" /\ callback' = None
           \/ \E h \in Handlers : hpc[h] = "refuse" /\ hpc'[h] = "ended"]_vars
  BY StepKeeps
<1> QED
  BY <1>1, Invariant, PTL DEF Spec, CompleteIsKept

-----------------------------------------------------------------------------
(* The rows of the files *)

\* A save works from statuses that only a restart takes back.  Before the first
\* restart a file's row is complete only if the file is, and a complete row
\* means that all files have been gathered.
GatheredRows ==
  /\ \A f \in Files : restarts = 0 /\ fileRow[f] = "complete" => info[f] = "complete"
  /\ save.pc = "aggregated" =>
       /\ \A f \in save.files : /\ info[f] # None
                                /\ save.status = "complete" => info[f] = "complete"
       /\ row.status = "complete" /\ ~rowless /\ restarts = 0 => save.files = Files
  /\ save.pc = "built" =>
       /\ \A f \in save.files : /\ save.rows[f] # None
                                /\ save.rows[f] = "complete" => info[f] = "complete"
       /\ save.status = "complete" /\ ~rowless => \A f \in Files :
            /\ f \in save.files \/ fileRow[f] # None
            /\ restarts = 0 => f \in save.files /\ save.rows[f] = "complete"

FilesInv == RowsAgree /\ GatheredRows

\* What a step that leaves the lock alone may do to the files and their rows.
LEMMA FilesFrame ==
  ASSUME TypeOK, FilesInv, UNCHANGED <<save, rowless, restarts>>,
         \A f \in Files : /\ info[f] = "complete" => info'[f] = "complete"
                          /\ info[f] # None => info'[f] # None
                          /\ fileRow'[f] = "complete" => fileRow[f] = "complete"
                          /\ fileRow[f] # None => fileRow'[f] # None,
         row'.status = "complete" =>
           /\ row.status = "complete"
           /\ \A f \in Files : fileRow[f] = "complete" => fileRow'[f] = "complete"
  PROVE  FilesInv'
<1>1. save.files \subseteq Files
  BY DEF TypeOK
<1>2. RowsAgree'
  BY DEF FilesInv, RowsAgree
<1>3. GatheredRows'
  BY <1>1 DEF FilesInv, GatheredRows
<1> QED
  BY <1>2, <1>3 DEF FilesInv

\* Complete is terminal: set_status does not take it back.
LEMMA CompleteIsEnd ==
  ASSUME NEW status, CanSet("complete", status)
  PROVE  status = "complete"
BY DEF CanSet, Allowed, Status

LEMMA FilesGoOn ==
  ASSUME TypeOK, NEW h \in Handlers, FileStep(h), NEW f \in Files
  PROVE  /\ info[f] = "complete" => info'[f] = "complete"
         /\ info[f] # None => info'[f] # None
<1>1. info \in [Files -> FileStatus] /\ "complete" \in Terminal
  BY DEF TypeOK, Terminal
<1>2. CASE OpenFile(h)
  BY <1>1, <1>2 DEF OpenFile, None
<1>3. CASE Begin(h)
  BY <1>1, <1>3, CompleteIsEnd DEF Begin, None
<1>4. CASE Complete(h)
  BY <1>1, <1>4 DEF Complete, None
<1>5. CASE \E status \in {"failed", "cancelled", "interrupted"} : Break(h, status)
  BY <1>1, <1>5, CompleteIsEnd DEF Break, None
<1>6. CASE \/ Recognise(h) \/ Chunk(h) \/ Commit(h) \/ Acknowledge(h)
           \/ AcknowledgeFails(h) \/ Leave(h)
  BY <1>6 DEF Recognise, Chunk, Commit, Acknowledge, AcknowledgeFails, Leave
<1> QED
  BY <1>2, <1>3, <1>4, <1>5, <1>6 DEF FileStep

\* A decision completes nothing; one that changes the files' rows replaces a
\* complete row.
LEMMA DecisionFiles ==
  ASSUME TypeOK, FilesInv, NEW status \in {"accepted", "rejected", "failed", "cancelled"},
         WriteDecision(status), UNCHANGED <<save, rowless, restarts, info>>
  PROVE  FilesInv'
<1>1. row'.status = Updated(row.status, status)
  BY DEF WriteDecision, TypeOK
<1>2. row'.status = "complete" => row.status = "complete" /\ status = "accepted"
  BY <1>1 DEF Updated, Interruptible, Older, None
<1>3. CASE status = "accepted"
  BY <1>2, <1>3, FilesFrame DEF WriteDecision
<1>4. CASE status # "accepted"
  <2>1. \A f \in Files : fileRow'[f] = IF fileRow[f] = None THEN None ELSE status
    BY <1>4 DEF WriteDecision
  <2>2. \A f \in Files : /\ fileRow'[f] = "complete" => fileRow[f] = "complete"
                         /\ fileRow[f] # None => fileRow'[f] # None
    BY <2>1 DEF None
  <2> QED
    BY <1>2, <1>4, <2>2, FilesFrame
<1> QED
  BY <1>3, <1>4

LEMMA AnnounceFiles ==
  ASSUME TypeOK, FilesInv, NEW h \in Handlers, Announce(h)
  PROVE  FilesInv'
<1>1. UNCHANGED <<save, rowless, restarts, info>>
  BY DEF Announce, saveVars
<1>2. /\ row'.status = Upserted(row.status, "pending_approval")
      /\ \A f \in Files : fileRow'[f] = Upserted(fileRow[f], "pending_approval")
  BY DEF Announce, Upsert
<1>3. \A old : /\ Upserted(old, "pending_approval") = "complete" <=> old = "complete"
               /\ Upserted(old, "pending_approval") # None
  BY DEF Upserted, Older, None
<1> QED
  BY <1>1, <1>2, <1>3, FilesFrame

LEMMA GatherFiles ==
  ASSUME TypeOK, FilesInv, NEW t, Gather(t)
  PROVE  FilesInv'
<1>1. /\ UNCHANGED <<row, fileRow, rowless, restarts, info>>
      /\ save'.pc = "aggregated" /\ save'.files = Known /\ save'.status = Aggregate
  BY DEF Gather, storeVars, sessionVars, Free
<1>2. Aggregate = "complete" => \A f \in Known : info[f] = "complete"
  BY AggregateFacts
<1>3. row.status = "complete" /\ ~rowless /\ restarts = 0 => Known = Files
  BY DEF FilesInv, RowsAgree, GatheredRows, Known, None
<1>4. RowsAgree'
  BY <1>1 DEF FilesInv, RowsAgree
<1>5. GatheredRows'
  BY <1>1, <1>2, <1>3 DEF FilesInv, GatheredRows, Known
<1> QED
  BY <1>4, <1>5 DEF FilesInv

\* A save is judged complete beside a complete row, or when it has gathered as
\* many files as the offer counts.
LEMMA BuildFiles ==
  ASSUME HistoryInv, FilesInv, Build
  PROVE  FilesInv'
<1> DEFINE n == Cardinality(save.files)
           rows == [f \in Files |-> IF f \in save.files THEN info[f] ELSE None]
<1>1. /\ UNCHANGED <<row, fileRow, restarts, info>> /\ save'.pc = "built"
      /\ save'.files = save.files /\ save'.status = Judged(save.status, n)
      /\ save'.rows = rows
      /\ rowless' = (rowless \/ row.status = None)
  BY DEF Build, HistoryInv, TypeOK, storeVars, sessionVars
<1>2. save.pc = "aggregated" /\ save.files \subseteq Files /\ TypeOK
  BY DEF Build, HistoryInv, TypeOK
<1>3. \A f \in save.files : rows[f] = info[f]
  BY <1>2
<1>4. ASSUME Judged(save.status, n) = "complete", ~rowless'
      PROVE  \A f \in Files : /\ f \in save.files \/ fileRow[f] # None
                              /\ restarts = 0 => f \in save.files /\ info[f] = "complete"
  <2>1. CASE row.status = "complete"
    BY <1>1, <1>2, <1>4, <2>1 DEF FilesInv, RowsAgree, GatheredRows
  <2>2. CASE row.status # "complete"
    <3>1. save.status \in Status
      BY <1>2 DEF HistoryInv, Gathered, TypeOK, FileStatus
    <3>2. save.status = "complete" /\ ~(row.count > n) /\ row.count = NFiles
      BY <1>1, <1>2, <1>4, <2>2, <3>1, JudgedFacts DEF HistoryInv, RowCounts
    <3>3. IsFiniteSet(1..NFiles) /\ Cardinality(1..NFiles) = NFiles
      BY HistoryAssumption, FS_Interval
    <3>4. /\ IsFiniteSet(save.files) /\ n <= NFiles
          /\ n = NFiles => save.files = 1..NFiles
      BY <1>2, <3>3, FS_Subset DEF Files
    <3>5. n \in Nat
      BY <3>4, FS_CardinalityType
    <3>6. save.files = Files
      BY <3>2, <3>4, <3>5, HistoryAssumption DEF Files
    <3> QED
      BY <1>2, <3>2, <3>6 DEF FilesInv, GatheredRows
  <2> QED
    BY <2>1, <2>2
<1> HIDE DEF n, rows
<1>5. RowsAgree'
  BY <1>1 DEF FilesInv, RowsAgree
<1>6. GatheredRows'
  BY <1>1, <1>2, <1>3, <1>4 DEF FilesInv, GatheredRows
<1> QED
  BY <1>5, <1>6 DEF FilesInv

\* A row is complete after a write only if the save was.
LEMMA WriteFiles ==
  ASSUME HistoryInv, FilesInv, Write
  PROVE  FilesInv'
<1>1. /\ UNCHANGED <<rowless, restarts, info>> /\ save'.pc = "free"
      /\ save.pc = "built" /\ save.files \subseteq Files
      /\ row'.status = Upserted(row.status, save.status)
      /\ \A f \in Files : fileRow'[f] =
           IF f \in save.files THEN Upserted(fileRow[f], save.rows[f]) ELSE fileRow[f]
  BY DEF Write, Release, Upsert, Free, HistoryInv, TypeOK
<1>2. row'.status = "complete" => save.status = "complete"
  BY <1>1 DEF HistoryInv, Gathered, Upserted
<1>3. \A f \in save.files :
        /\ fileRow'[f] # None
        /\ fileRow'[f] = "complete" => fileRow[f] = "complete" \/ save.rows[f] = "complete"
        /\ save.rows[f] = "complete" => fileRow'[f] = "complete"
  BY <1>1 DEF FilesInv, GatheredRows, Upserted, None
<1>4. RowsAgree'
  BY <1>1, <1>2, <1>3 DEF FilesInv, RowsAgree, GatheredRows
<1>5. \A f \in Files : restarts = 0 /\ fileRow'[f] = "complete" => info[f] = "complete"
  BY <1>1, <1>3 DEF FilesInv, GatheredRows
<1>6. GatheredRows'
  BY <1>1, <1>5 DEF GatheredRows
<1> QED
  BY <1>4, <1>6 DEF FilesInv

LEMMA StepFiles ==
  ASSUME HistoryInv, FilesInv, [Next]_vars
  PROVE  FilesInv'
<1>1. TypeOK
  BY DEF HistoryInv
<1>2. ASSUME NEW h \in Handlers, OfferStep(h)
      PROVE  FilesInv'
  <2>1. CASE Announce(h)
    BY <1>1, <2>1, AnnounceFiles
  <2>2. CASE Refuse(h)
    BY <1>1, <2>2, DecisionFiles DEF Refuse, saveVars
  <2>3. CASE Offer(h) \/ AnnounceLost(h) \/ Withdraw(h) \/ RefuseLost(h) \/ Decided(h)
    <3>1. UNCHANGED <<save, rowless, restarts, info, row, fileRow>>
      BY <2>3 DEF Offer, AnnounceLost, Withdraw, RefuseLost, Decided, storeVars, saveVars
    <3> QED
      BY <1>1, <3>1, FilesFrame
  <2> QED
    BY <1>2, <2>1, <2>2, <2>3 DEF OfferStep
<1>3. ASSUME NEW h \in Handlers, FileStep(h)
      PROVE  FilesInv'
  <2>1. UNCHANGED <<save, rowless, restarts, row, fileRow>>
    BY <1>3 DEF FileStep, OpenFile, Recognise, Begin, Chunk, Commit, Complete,
       Acknowledge, AcknowledgeFails, Leave, Break, rest, storeVars, saveVars
  <2> QED
    BY <1>1, <1>3, <2>1, FilesGoOn, FilesFrame
<1>4. CASE UNCHANGED vars \/ UserDecides \/ CallbackLost
  <2>1. UNCHANGED <<save, rowless, restarts, info, row, fileRow>>
    BY <1>4 DEF vars, UserDecides, CallbackLost, sessionVars, storeVars, saveVars
  <2> QED
    BY <1>1, <2>1, FilesFrame
<1>5. CASE Callback
  BY <1>1, <1>5, DecisionFiles DEF Callback, TypeOK, sessionVars, saveVars
<1>6. CASE \E t \in Handlers \cup {Other} : Gather(t)
  BY <1>1, <1>6, GatherFiles
<1>7. CASE Build
  BY <1>7, BuildFiles
<1>8. CASE Write
  BY <1>8, WriteFiles
<1>9. CASE Throttle \/ WriteLost
  <2>1. UNCHANGED <<row, fileRow, rowless, restarts, info>> /\ save'.pc = "free"
    BY <1>9 DEF Throttle, WriteLost, Release, Free, storeVars
  <2> QED
    BY <2>1 DEF FilesInv, RowsAgree, GatheredRows
<1>10. CASE Restart
  <2>1. /\ UNCHANGED <<fileRow, rowless>> /\ save'.pc = "free" /\ restarts' # 0
        /\ row'.status = "complete" => row.status = "complete"
    BY <1>1, <1>10, HistoryAssumption DEF Restart, Free, TypeOK
  <2> QED
    BY <2>1 DEF FilesInv, RowsAgree, GatheredRows
<1> QED
  BY <1>2, <1>3, <1>4, <1>5, <1>6, <1>7, <1>8, <1>9, <1>10 DEF Next

\* A complete row accounts for each of its files, and until a restart each is
\* shown as complete (update_transfer and create_transfer write both tables,
\* history.py:78-167), for any number of files and of overlapping sessions.
THEOREM RowsFollow == Spec => []RowsAgree
<1>1. Init => FilesInv
  BY DEF Init, Free, FilesInv, RowsAgree, GatheredRows, None
<1>2. HistoryInv /\ FilesInv /\ [Next]_vars => FilesInv'
  BY StepFiles
<1>3. FilesInv => RowsAgree
  BY DEF FilesInv
<1> QED
  BY <1>1, <1>2, <1>3, Invariant, PTL DEF Spec
-----------------------------------------------------------------------------
(* A transfer whose files are complete is shown as complete *)

AllComplete == \A f \in Files : info[f] = "complete"

\* A session that still has to report that it has completed a file.
Owes(h) == hpc[h] = "ack" \/ (hpc[h] = "update" /\ save.by # h)

\* Whoever completes the last file reports it, and what is gathered from then
\* on is complete and is neither throttled nor judged partial.
Owed ==
  AllComplete =>
    \/ row.status = "complete" \/ behind
    \/ \E h \in Handlers : Owes(h)
    \/ save.pc # "free" /\ save.status = "complete" /\ save.files = Files

\* No refusal of the offer is on its way to the row once a session works on the
\* files: an accepted entry is never refused.
OfferStands ==
  /\ callback = "rejected" => inbox = "refused"
  /\ \A h \in Handlers :
       /\ hpc[h] = "refuse" => inbox = "refused"
       /\ hpc[h] \in {"next", "file", "stream", "verify", "commit", "ack", "update"}
            => inbox = "accepted"
  /\ \A f \in Files : info[f] # None => inbox = "accepted"

LEMMA OfferStandsStep ==
  ASSUME HistoryInv, OfferStands, [Next]_vars
  PROVE  OfferStands'
<1>1. /\ hpc \in [Handlers -> Places] /\ TypeOK
      /\ hnext \in [Handlers -> {"next", "file", "stream", "ended"}]
      /\ info \in [Files -> FileStatus]
  BY DEF HistoryInv, TypeOK
<1>2. CASE UNCHANGED <<info, hpc, inbox>> /\ callback' \in {None, callback}
  BY <1>2 DEF OfferStands, None
<1>3. ASSUME NEW h \in Handlers, OfferStep(h)
      PROVE  OfferStands'
  <2>1. CASE Offer(h)
    BY <1>1, <2>1 DEF Offer, Goto, OfferStands, None
  <2>2. CASE Announce(h) \/ AnnounceLost(h) \/ Refuse(h) \/ RefuseLost(h)
    BY <1>1, <2>2
    DEF Announce, AnnounceLost, Refuse, RefuseLost, Goto, OfferStands, decisionVars
  <2>3. CASE Withdraw(h)
    BY <1>1, <2>3 DEF Withdraw, Goto, OfferStands
  <2>4. CASE Decided(h)
    BY <1>1, <2>4 DEF Decided, Goto, OfferStands, decisionVars
  <2> QED
    BY <1>3, <2>1, <2>2, <2>3, <2>4 DEF OfferStep
<1>4. ASSUME NEW h \in Handlers, FileStep(h)
      PROVE  OfferStands'
  <2>1. /\ UNCHANGED <<inbox, callback>>
        /\ hpc[h] \in {"next", "file", "stream", "verify", "commit", "ack"}
    BY <1>4 DEF FileStep, OpenFile, Recognise, Begin, Chunk, Commit, Complete,
       Acknowledge, AcknowledgeFails, Leave, Break, rest, decisionVars
  <2>2. inbox = "accepted"
    BY <2>1 DEF OfferStands
  <2>3. /\ \A g \in Handlers \ {h} : hpc'[g] = hpc[g]
        /\ hpc'[h] # "refuse"
    BY <1>1, <1>4 DEF FileStep, OpenFile, Recognise, Begin, Chunk, Commit, Complete,
       Acknowledge, AcknowledgeFails, Leave, Break, Report, Goto
  <2> QED
    BY <2>1, <2>2, <2>3 DEF OfferStands
<1>5. CASE UserDecides
  BY <1>5 DEF UserDecides, OfferStands, sessionVars
<1>6. CASE Callback \/ CallbackLost
  BY <1>2, <1>6 DEF Callback, CallbackLost, sessionVars
<1>7. CASE Build \/ \E t \in Handlers \cup {Other} : Gather(t)
  BY <1>2, <1>7 DEF Build, Gather, sessionVars, decisionVars
<1>8. CASE Throttle \/ Write \/ WriteLost
  <2>1. Release
    BY <1>8 DEF Throttle, Write, WriteLost
  <2>2. UNCHANGED <<info, inbox, callback>>
    BY <2>1 DEF Release, decisionVars
  <2>3. \A h \in Handlers :
          \/ hpc'[h] = hpc[h]
          \/ /\ hpc[h] = "update"
             /\ hpc'[h] \in {"next", "file", "stream", "ended"}
    BY <1>1, <2>1 DEF Release, HistoryInv, HolderWaits
  <2> QED
    BY <2>2, <2>3 DEF OfferStands
<1>9. CASE Restart
  BY <1>1, <1>9 DEF Restart, OfferStands, None
<1>10. CASE UNCHANGED vars
  BY <1>2, <1>10 DEF vars, sessionVars, decisionVars
<1> QED
  BY <1>3, <1>4, <1>5, <1>6, <1>7, <1>8, <1>9, <1>10 DEF Next

\* What is gathered when every file is complete is complete.
LEMMA AggregateComplete ==
  ASSUME AllComplete
  PROVE  Aggregate = "complete" /\ Known = Files
<1>1. DOMAIN Priorities = 1..9 /\ \A i \in 1..9 : Priorities[i] # "complete"
  BY DEF Priorities
<1>2. {i \in DOMAIN Priorities : \E f \in Files : info[f] = Priorities[i]} = {}
  BY <1>1 DEF AllComplete
<1>3. Known = Files
  BY DEF AllComplete, Known, None
<1> QED
  BY <1>2, <1>3 DEF Aggregate

\* A complete row stays complete while its files are.
LEMMA RowStays ==
  ASSUME HistoryInv, OfferStands, [Next]_vars, row.status = "complete", AllComplete
  PROVE  row'.status = "complete"
<1>1. inbox = "accepted"
  BY HistoryAssumption DEF OfferStands, AllComplete, Files, None
<1>2. callback # "rejected" /\ \A h \in Handlers : hpc[h] # "refuse"
  BY <1>1 DEF OfferStands
<1> QED
  BY <1>2, StepKeeps

\* Only Complete makes the last file complete, in a session that then owes the
\* report.
LEMMA LastFile ==
  ASSUME HistoryInv, [Next]_vars, AllComplete'
  PROVE  \/ AllComplete
         \/ \E h \in Handlers : hpc'[h] = "ack"
<1>1. hpc \in [Handlers -> Places] /\ info \in [Files -> FileStatus]
  BY DEF HistoryInv, TypeOK
<1>2. CASE info' = info
  BY <1>2 DEF AllComplete
<1>3. ASSUME NEW h \in Handlers, Complete(h)
      PROVE  hpc'[h] = "ack"
  BY <1>1, <1>3 DEF Complete, Goto
<1>4. ASSUME NEW h \in Handlers, FileStep(h), ~Complete(h)
      PROVE  AllComplete
  <2>1. \A f \in Files : info'[f] = "complete" => info[f] = "complete"
    BY <1>1, <1>4 DEF FileStep, OpenFile, Recognise, Begin, Chunk, Commit, Acknowledge,
       AcknowledgeFails, Leave, Break
  <2> QED
    BY <2>1 DEF AllComplete
<1>5. ASSUME NEW h \in Handlers, OfferStep(h)
      PROVE  info' = info
  BY <1>5 DEF OfferStep, Offer, Announce, AnnounceLost, Withdraw, Refuse, RefuseLost,
     Decided
<1>6. CASE \/ UNCHANGED vars \/ UserDecides \/ Callback \/ CallbackLost \/ Build
           \/ Throttle \/ Write \/ WriteLost \/ \E t \in Handlers \cup {Other} : Gather(t)
  <2>1. info' = info
    BY <1>6 DEF vars, sessionVars, UserDecides, Callback, CallbackLost, Build, Throttle,
       Write, WriteLost, Release, Gather
  <2> QED
    BY <1>2, <2>1
<1>7. ~Restart
  BY HistoryAssumption DEF Restart, AllComplete, Files, None
<1> QED
  BY <1>2, <1>3, <1>4, <1>5, <1>6, <1>7 DEF Next

LEMMA OwedStep ==
  ASSUME HistoryInv, OfferStands, Owed, [Next]_vars
  PROVE  Owed'
<1> SUFFICES ASSUME AllComplete'
             PROVE  \/ row'.status = "complete" \/ behind'
                    \/ \E h \in Handlers : Owes(h)'
                    \/ /\ save'.pc # "free" /\ save'.status = "complete"
                       /\ save'.files = Files
  BY DEF Owed
<1>1. /\ hpc \in [Handlers -> Places] /\ TypeOK /\ HolderWaits
      /\ hnext \in [Handlers -> {"next", "file", "stream", "ended"}]
  BY DEF HistoryInv, TypeOK
<1>2. CASE ~AllComplete
  BY <1>2, LastFile DEF Owes
<1>3. CASE AllComplete /\ row.status = "complete"
  BY <1>3, RowStays
<1>4. CASE AllComplete /\ row.status # "complete"
  <2>1. \/ behind \/ \E h \in Handlers : Owes(h)
        \/ save.pc # "free" /\ save.status = "complete" /\ save.files = Files
    BY <1>4 DEF Owed
  <2>2. ASSUME NEW h \in Handlers, OfferStep(h)
        PROVE  Owed'
    <3>1. UNCHANGED <<save, behind>> /\ \A g \in Handlers : Owes(g) => hpc'[g] = hpc[g]
      BY <1>1, <2>2 DEF OfferStep, Offer, Announce, AnnounceLost, Withdraw, Refuse,
         RefuseLost, Decided, saveVars, Goto, Owes
    <3> QED
      BY <2>1, <3>1 DEF Owed, Owes
  <2>3. ASSUME NEW h \in Handlers, FileStep(h)
        PROVE  Owed'
    <3>1. /\ save' = save /\ behind' = (behind \/ AcknowledgeFails(h))
          /\ \A g \in Handlers \ {h} : hpc'[g] = hpc[g]
          /\ hpc[h] # "update"
          /\ hpc[h] = "ack" => AcknowledgeFails(h) \/ hpc'[h] = "update"
      BY <1>1, <2>3 DEF FileStep, OpenFile, Recognise, Begin, Chunk, Commit, Complete,
         Acknowledge, AcknowledgeFails, Leave, Break, Report, Goto, rest, saveVars, TypeOK
    <3>2. save.by # h
      BY <1>1, <3>1 DEF HolderWaits
    <3> QED
      BY <2>1, <3>1, <3>2 DEF Owed, Owes
  <2>4. CASE UserDecides \/ Callback \/ CallbackLost \/ UNCHANGED vars
    <3>1. UNCHANGED <<save, behind, hpc>>
      BY <2>4 DEF UserDecides, Callback, CallbackLost, vars, sessionVars, saveVars
    <3> QED
      BY <2>1, <3>1 DEF Owed, Owes
  <2>5. CASE \E t \in Handlers \cup {Other} : Gather(t)
    <3>1. /\ save'.pc = "aggregated" /\ save'.files = Known /\ save'.status = Aggregate
      BY <2>5 DEF Gather, Free
    <3> QED
      BY <1>4, <3>1, AggregateComplete
  <2>6. CASE Build
    <3>1. /\ UNCHANGED <<hpc, behind>> /\ save'.pc = "built" /\ save'.by = save.by
          /\ save'.files = save.files
          /\ save'.status = Judged(save.status, Cardinality(save.files))
      BY <1>1, <2>6 DEF Build, sessionVars, TypeOK
    <3>2. save.status = "complete" /\ save.files = Files =>
            Judged(save.status, Cardinality(save.files)) = "complete"
      <4>1. Cardinality(Files) = NFiles
        BY HistoryAssumption, FS_Interval DEF Files
      <4>2. ~(row.count > NFiles)
        BY <1>1, HistoryAssumption DEF TypeOK
      <4> QED
        BY <1>4, <4>1, <4>2 DEF Judged
    <3> QED
      BY <2>1, <3>1, <3>2 DEF Owes
  <2>7. CASE Throttle \/ Write \/ WriteLost
    <3>1. Release /\ save.pc = "built"
      BY <2>7 DEF Throttle, Write, WriteLost
    <3>2. ASSUME NEW h \in Handlers, Owes(h)
          PROVE  Owes(h)'
      <4>1. save.by # h
        BY <1>1, <3>2 DEF Owes, HolderWaits
      <4>2. hpc'[h] = hpc[h] /\ save'.by = None
        BY <3>1, <4>1 DEF Release, Free
      <4> QED
        BY <3>2, <4>2, HistoryAssumption DEF Owes
    <3>3. CASE save.status = "complete"
      <4>1. ~Throttle
        BY <3>3 DEF Throttle, Terminal
      <4>2. CASE Write
        BY <3>3, <4>2 DEF Write, Upsert, Upserted, Older
      <4> QED
        BY <2>7, <4>1, <4>2 DEF WriteLost
    <3>4. behind => behind'
      BY <2>7 DEF Throttle, Write, WriteLost
    <3> QED
      BY <2>1, <3>2, <3>3, <3>4
  <2>8. ~Restart
    BY HistoryAssumption DEF Restart, AllComplete, Files, None
  <2> QED
    BY <2>2, <2>3, <2>4, <2>5, <2>6, <2>7, <2>8 DEF Next, Owed
<1> QED
  BY <1>2, <1>3, <1>4

\* Once nothing is on its way to the rows, a transfer all of whose files are
\* complete is shown as complete (_persist_runtime_transfers and its throttle,
\* transfer.py:1648-1740), for any number of files, overlapping sessions, lost
\* writes and restarts.
THEOREM ShownWhenComplete == Spec => []CompleteIsShown
<1>1. Init => OfferStands /\ Owed
  BY HistoryAssumption
  DEF Init, OfferStands, Owed, AllComplete, Files, None
<1>2. HistoryInv /\ OfferStands /\ Owed /\ [Next]_vars => OfferStands' /\ Owed'
  BY OfferStandsStep, OwedStep
<1>3. Owed => CompleteIsShown
  BY DEF Owed, CompleteIsShown, AllComplete, Quiet, Owes
<1> QED
  BY <1>1, <1>2, <1>3, Invariant, PTL DEF Spec
=============================================================================
