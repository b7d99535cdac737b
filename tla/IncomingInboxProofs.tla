------------------------ MODULE IncomingInboxProofs ------------------------
(***************************************************************************)
(* The inbox answers what the user decided, for the offer the user saw,    *)
(* for any number of sessions, transfers and offers and any capacity.  The *)
(* last sections are about Frames (here Wire), which the session reads     *)
(* meanwhile: a reader that asks first finds every frame where it begins,  *)
(* and no reader returns one twice.                                        *)
(***************************************************************************)
EXTENDS IncomingInbox, Sequences, FiniteSetTheorems, WellFoundedInduction, TLAPS

\* An entry outlives its decision, and a decision is made once: what the user
\* was told and what a session answered is what the entry says (_decide and
\* wait_for_decision, inbox.py:141-201), an entry is accepted only by the user,
\* and a waiting session waits on the offer it brought (publish, inbox.py:77-112).
DecisionsAgree ==
  /\ \A t \in Transfers : told[t] # None => entry[t] = told[t]
  /\ \A t \in Transfers : entry[t] = "accepted" => told[t] = "accepted"
  /\ \A s \in Sessions : answer[s] \in Decision => entry[TransferOf[s]] = answer[s]
OffersAgree ==
  \A s \in Sessions :
    pc[s] \in {"announce", "await"} \/ answer[s] \in Decision =>
      /\ entry[TransferOf[s]] # None
      /\ offer[TransferOf[s]] = OfferOf[s]
InboxInv == TypeOK /\ DecisionsAgree /\ OffersAgree

\* The steps that leave the properties' variables as they are.
LEMMA RecordFrame ==
  ASSUME NEW h, Record(h)
  PROVE  UNCHANGED <<entry, offer, pc, answer, told>>
  BY DEF Record, untouched

\* A decision in thread h settles a pending entry and nothing else.
LEMMA DecideType ==
  ASSUME TypeOK, NEW h \in Threads, NEW t \in Transfers, NEW status \in Decision,
         Decide(h, t, status)
  PROVE  /\ entry' \in [Transfers -> Decision \cup {None, "pending"}]
         /\ todo' \in
              [Threads -> [transfer : Transfers, status : Decision] \cup {NoCall}]
         /\ early' \in SUBSET Transfers
         /\ \A u \in Transfers : entry'[u] = entry[u]
                                 \/ (u = t /\ entry[u] = "pending" /\ entry'[u] = status)
  BY DEF TypeOK, Decide

\* Writing a decision into the history keeps the types.
LEMMA RecordType ==
  ASSUME TypeOK, NEW h \in Threads, Record(h)
  PROVE  TypeOK'
<1>1. \A d \in Decision :
        Recorded(d) \in {"accepted", "rejected", "failed", "cancelled"}
  BY DEF Recorded, Decision
<1>2. todo[h] \in [transfer : Transfers, status : Decision]
  BY DEF TypeOK, Record
<1>3. history' \in [Transfers -> {None, "pending_approval", "accepted", "rejected",
                                  "failed", "cancelled"}]
  BY <1>1, <1>2 DEF TypeOK, Record
<1> QED
  BY <1>3 DEF TypeOK, Record, untouched, NoCall

\* Every step keeps the types.
LEMMA InboxTypeStep ==
  ASSUME TypeOK, [Next]_vars
  PROVE  TypeOK'
<1> USE InboxAssumption
<1>1. Sessions \subseteq Threads /\ UI \in Threads /\ Main \in Threads
  BY DEF Threads
<1>2. {"accepted", "rejected", "expired", "cancelled"} = Decision
  BY DEF Decision
<1>3. ASSUME NEW s \in Sessions, SessionStep(s)
      PROVE  TypeOK'
  <2>1. TransferOf[s] \in Transfers /\ OfferOf[s] \in Offers
    OBVIOUS
  <2>2. CASE Publish(s)
    BY <2>1, <2>2 DEF Publish, TypeOK, untouched
  <2>3. CASE Resume(s) \/ Busy(s) \/ Conflict(s) \/ Announce(s) \/ Leave(s)
    BY <2>1, <2>3 DEF Resume, Busy, Conflict, Announce, Leave, TypeOK, untouched
  <2>4. CASE Expire(s)
    BY <1>1, <1>2, <2>1, <2>4, DecideType DEF Expire, TypeOK, untouched
  <2>5. CASE Answer(s)
    <3>1. entry[TransferOf[s]] \in Decision \cup {None}
      BY <2>1, <2>5 DEF Answer, TypeOK
    <3> QED
      BY <2>5, <3>1 DEF Answer, TypeOK, untouched
  <2>6. CASE Record(s)
    BY <1>1, <2>6, RecordType
  <2> QED
    BY <1>3, <2>2, <2>3, <2>4, <2>5, <2>6 DEF SessionStep
<1>4. ASSUME NEW s \in Sessions, PeerCancels(s) \/ PeerLeaves(s)
      PROVE  TypeOK'
  <2>1. TransferOf[s] \in Transfers
    OBVIOUS
  <2>2. PICK status \in Decision : Decide(s, TransferOf[s], status)
    BY <1>2, <1>4 DEF PeerCancels, PeerLeaves
  <2> QED
    BY <1>1, <1>4, <2>1, <2>2, DecideType DEF PeerCancels, PeerLeaves, TypeOK, untouched
<1>5. ASSUME NEW t \in Transfers, NEW status \in {"accepted", "rejected"},
             UserDecides(t, status)
      PROVE  TypeOK'
  <2>1. Decide(UI, t, status) /\ status \in Decision
    BY <1>2, <1>5 DEF UserDecides
  <2> QED
    BY <1>1, <1>5, <2>1, DecideType DEF UserDecides, TypeOK
<1>6. CASE Record(UI) \/ Record(Main)
  BY <1>1, <1>6, RecordType
<1>7. CASE Shutdown
  BY <1>7 DEF Shutdown, Pending, TypeOK
<1>8. CASE CancelNext
  <2>1. PICK t \in victims : victims' = victims \ {t} /\ Decide(Main, t, "cancelled")
    BY <1>8 DEF CancelNext
  <2>2. t \in Transfers
    BY <2>1 DEF TypeOK
  <2> QED
    BY <1>1, <1>2, <1>8, <2>1, <2>2, DecideType DEF CancelNext, TypeOK
<1>9. ASSUME NEW s \in Sessions, Abandon(s)
      PROVE  TypeOK'
  BY <1>9 DEF Abandon, TypeOK, untouched
<1>10. CASE UNCHANGED vars
  BY <1>10 DEF vars, TypeOK
<1> QED
  BY <1>3, <1>4, <1>5, <1>6, <1>7, <1>8, <1>9, <1>10 DEF Next

\* A decision by anyone but the user's acceptance keeps decisions and offers.
LEMMA OtherDecision ==
  ASSUME InboxInv, NEW h \in Threads, NEW t \in Transfers,
         NEW status \in Decision \ {"accepted"},
         Decide(h, t, status), UNCHANGED <<offer, told, answer>>,
         \A s \in Sessions :
           pc'[s] \in {"announce", "await"} => pc[s] \in {"announce", "await"}
  PROVE  DecisionsAgree' /\ OffersAgree'
<1> USE InboxAssumption
<1>1. /\ \A u \in Transfers : entry'[u] = entry[u]
                              \/ (u = t /\ entry[u] = "pending" /\ entry'[u] = status)
      /\ \A s \in Sessions : TransferOf[s] \in Transfers
  BY DecideType DEF InboxInv
<1>2. \A u \in Transfers : told[u] \in {None, "accepted", "rejected"}
  BY DEF InboxInv, TypeOK
<1>3. DecisionsAgree'
  BY <1>1, <1>2 DEF InboxInv, DecisionsAgree, Decision, None
<1>4. OffersAgree'
  BY <1>1 DEF InboxInv, OffersAgree, Decision, None
<1> QED
  BY <1>3, <1>4

\* Decisions and offers agree after every step.
LEMMA InboxStep == InboxInv /\ [Next]_vars => InboxInv'
<1> SUFFICES ASSUME InboxInv, [Next]_vars
             PROVE  DecisionsAgree' /\ OffersAgree'
  BY InboxTypeStep DEF InboxInv
<1> USE InboxAssumption
<1>1. Sessions \subseteq Threads /\ UI \in Threads /\ Main \in Threads
  BY DEF Threads
<1>2. \A s \in Sessions : TransferOf[s] \in Transfers
  OBVIOUS
<1>3. ASSUME NEW s \in Sessions, SessionStep(s)
      PROVE  DecisionsAgree' /\ OffersAgree'
  <2>1. CASE Publish(s)
    <3>1. \A r \in Sessions : TransferOf[r] = TransferOf[s] =>
             pc[r] \notin {"announce", "await"} /\ answer[r] \notin Decision
      BY <2>1 DEF Publish, InboxInv, OffersAgree
    <3>2. told[TransferOf[s]] = None
      BY <1>2, <2>1 DEF Publish, InboxInv, DecisionsAgree
    <3>3. DecisionsAgree'
      BY <1>2, <2>1, <3>1, <3>2
         DEF Publish, untouched, InboxInv, TypeOK, DecisionsAgree, Decision, None
    <3>4. OffersAgree'
      BY <1>2, <2>1, <3>1 DEF Publish, untouched, InboxInv, TypeOK, OffersAgree, None
    <3> QED
      BY <3>3, <3>4
  <2>2. CASE Resume(s)
    <3>1. offer' = offer
      BY <1>2, <2>2 DEF Resume, Resumes, InboxInv, TypeOK
    <3> QED
      BY <1>2, <2>2, <3>1
         DEF Resume, Resumes, untouched, InboxInv, TypeOK, DecisionsAgree, OffersAgree, None
  <2>3. CASE Busy(s)
    BY <2>3 DEF Busy, untouched, InboxInv, TypeOK, DecisionsAgree, OffersAgree, Decision
  <2>4. CASE Conflict(s) \/ Announce(s) \/ Leave(s)
    BY <2>4
       DEF Conflict, Announce, Leave, untouched, InboxInv, TypeOK, DecisionsAgree, OffersAgree
  <2>5. CASE Expire(s)
    <3>1. "expired" \in Decision \ {"accepted"}
      BY DEF Decision
    <3> QED
      BY <1>1, <1>2, <2>5, <3>1, OtherDecision DEF Expire, untouched
  <2>6. CASE Answer(s)
    BY <1>2, <2>6 DEF Answer, untouched, InboxInv, TypeOK, DecisionsAgree, OffersAgree
  <2>7. CASE Record(s)
    BY <2>7, RecordFrame DEF InboxInv, DecisionsAgree, OffersAgree
  <2> QED
    BY <1>3, <2>1, <2>2, <2>3, <2>4, <2>5, <2>6, <2>7 DEF SessionStep
<1>4. ASSUME NEW s \in Sessions, PeerCancels(s) \/ PeerLeaves(s)
      PROVE  DecisionsAgree' /\ OffersAgree'
  <2>1. PICK status \in Decision \ {"accepted"} : Decide(s, TransferOf[s], status)
    BY <1>4 DEF PeerCancels, PeerLeaves, Decision
  <2>2. UNCHANGED <<offer, told, answer>>
    BY <1>4 DEF PeerCancels, PeerLeaves, untouched
  <2>3. \A r \in Sessions :
          pc'[r] \in {"announce", "await"} => pc[r] \in {"announce", "await"}
    BY <1>4 DEF PeerCancels, PeerLeaves, InboxInv, TypeOK
  <2> QED
    BY <1>1, <1>2, <2>1, <2>2, <2>3, OtherDecision
<1>5. ASSUME NEW t \in Transfers, NEW status \in {"accepted", "rejected"},
             UserDecides(t, status)
      PROVE  DecisionsAgree' /\ OffersAgree'
  <2>1. CASE entry[t] = "pending"
    <3>1. /\ told' = [told EXCEPT ![t] = status] /\ entry' = [entry EXCEPT ![t] = status]
          /\ UNCHANGED <<offer, pc, answer>>
      BY <1>5, <2>1 DEF UserDecides, Decide
    <3>2. \A s \in Sessions : answer[s] \in Decision => TransferOf[s] # t
      BY <1>2, <2>1 DEF InboxInv, DecisionsAgree, Decision
    <3>3. DecisionsAgree'
      BY <1>2, <3>1, <3>2 DEF InboxInv, TypeOK, DecisionsAgree
    <3>4. OffersAgree'
      BY <1>2, <3>1 DEF InboxInv, TypeOK, OffersAgree, None
    <3> QED
      BY <3>3, <3>4
  <2>2. CASE entry[t] # "pending"
    BY <1>5, <2>2 DEF UserDecides, Decide, InboxInv, DecisionsAgree, OffersAgree
  <2> QED
    BY <2>1, <2>2
<1>6. CASE Record(UI) \/ Record(Main)
  BY <1>6, RecordFrame DEF InboxInv, DecisionsAgree, OffersAgree
<1>7. CASE Shutdown \/ UNCHANGED vars
  BY <1>7 DEF Shutdown, vars, InboxInv, DecisionsAgree, OffersAgree
<1>8. CASE CancelNext
  <2>1. PICK t \in victims : Decide(Main, t, "cancelled")
    BY <1>8 DEF CancelNext
  <2>2. t \in Transfers /\ "cancelled" \in Decision \ {"accepted"}
    BY <2>1 DEF InboxInv, TypeOK, Decision
  <2> QED
    BY <1>1, <1>8, <2>1, <2>2, OtherDecision DEF CancelNext
<1>9. ASSUME NEW s \in Sessions, Abandon(s)
      PROVE  DecisionsAgree' /\ OffersAgree'
  BY <1>9 DEF Abandon, untouched, InboxInv, TypeOK, DecisionsAgree, OffersAgree
<1> QED
  BY <1>3, <1>4, <1>5, <1>6, <1>7, <1>8, <1>9 DEF Next

\* So the decisions and the offers agree in every reachable state.
LEMMA InboxInvariant == Spec => []InboxInv
<1>1. Init => InboxInv
  <2>1. Init => TypeOK
    BY DEF Init, TypeOK
  <2>2. Init => DecisionsAgree /\ OffersAgree
    <3>1. \A s \in Sessions : TransferOf[s] \in Transfers
      BY InboxAssumption
    <3> QED
      BY <3>1 DEF Init, DecisionsAgree, OffersAgree, Decision, None
  <2> QED
    BY <2>1, <2>2 DEF InboxInv
<1> QED
  BY <1>1, InboxStep, PTL DEF Spec

\* Inbox, sessions, callbacks and shutdown keep their types, for any number of
\* sessions and transfers (IncomingRequestManager and its callers).
THEOREM InboxTypes == Spec => []TypeOK
<1>1. InboxInv => TypeOK
  BY DEF InboxInv
<1> QED
  BY <1>1, InboxInvariant, PTL

\* What accept_request or reject_request confirmed to the user is what every
\* session of the transfer answers (inbox.py:128-159 and 183-201), although the
\* session may notice its deadline, its peer or a shutdown at the same moment.
THEOREM ConfirmationStands == Spec => []ConfirmedIsAnswered
<1>1. InboxInv => ConfirmedIsAnswered
  BY InboxAssumption DEF InboxInv, DecisionsAgree, ConfirmedIsAnswered
<1> QED
  BY <1>1, InboxInvariant, PTL

\* A session is answered "accepted" only for the offer the user accepted: an
\* accepted transfer id never admits another offer (publish, inbox.py:81-98).
THEOREM AcceptanceIsForTheOffer == Spec => []AcceptedAsOffered
<1>1. InboxInv => AcceptedAsOffered
  BY InboxAssumption
     DEF InboxInv, DecisionsAgree, OffersAgree, AcceptedAsOffered, Decision
<1> QED
  BY <1>1, InboxInvariant, PTL

-----------------------------------------------------------------------------
(* Capacity *)

\* How a step can change the set of pending requests.
LEMMA PendingStep ==
  ASSUME InboxInv, [Next]_vars
  PROVE  \/ Pending' \subseteq Pending
         \/ ~Full /\ \E t \in Transfers \ Pending : Pending' = Pending \cup {t}
<1> USE InboxAssumption DEF Pending
<1>1. ASSUME NEW h, NEW t, NEW status \in Decision, Decide(h, t, status)
      PROVE  Pending' \subseteq Pending
  BY <1>1 DEF Decide, Decision, InboxInv, TypeOK
<1>2. {"accepted", "rejected", "expired", "cancelled"} = Decision
  BY DEF Decision
<1>3. ASSUME NEW s \in Sessions, Publish(s)
      PROVE  ~Full /\ \E t \in Transfers \ Pending : Pending' = Pending \cup {t}
  <2>1. TransferOf[s] \in Transfers \ Pending
    BY <1>3 DEF Publish, None
  <2>2. Pending' = Pending \cup {TransferOf[s]}
    BY <1>3, <2>1 DEF Publish, InboxInv, TypeOK
  <2> QED
    BY <1>3, <2>1, <2>2 DEF Publish
<1>4. ASSUME NEW s \in Sessions,
             Resume(s) \/ Busy(s) \/ Conflict(s) \/ Announce(s) \/ Answer(s)
               \/ Leave(s) \/ Record(s) \/ Abandon(s)
      PROVE  entry' = entry
  BY <1>4 DEF Resume, Busy, Conflict, Announce, Answer, Leave, Record, Abandon,
     untouched
<1>5. ASSUME NEW s \in Sessions, Expire(s) \/ PeerCancels(s) \/ PeerLeaves(s)
      PROVE  Pending' \subseteq Pending
  BY <1>1, <1>2, <1>5 DEF Expire, PeerCancels, PeerLeaves
<1>6. ASSUME NEW t \in Transfers, NEW status \in {"accepted", "rejected"},
             UserDecides(t, status)
      PROVE  Pending' \subseteq Pending
  BY <1>1, <1>2, <1>6 DEF UserDecides
<1>7. CASE CancelNext
  BY <1>1, <1>2, <1>7 DEF CancelNext
<1>8. CASE Record(UI) \/ Record(Main) \/ Shutdown \/ UNCHANGED vars
  BY <1>8 DEF Record, Shutdown, vars
<1> QED
  BY <1>3, <1>4, <1>5, <1>6, <1>7, <1>8 DEF Next, SessionStep

\* publish admits no request beyond the capacity of the inbox, and nothing else
\* makes a request pending (inbox.py:100-107).
THEOREM CapacityHolds == Spec => []PendingBounded
<1> DEFINE Inv == InboxInv /\ IsFiniteSet(Pending) /\ PendingBounded
<1>1. Init => IsFiniteSet(Pending) /\ PendingBounded
  <2> SUFFICES ASSUME Init PROVE IsFiniteSet(Pending) /\ PendingBounded
    OBVIOUS
  <2>1. Pending = {}
    BY DEF Init, Pending, None
  <2> QED
    BY <2>1, FS_EmptySet, InboxAssumption DEF PendingBounded
<1>2. /\ InboxInv /\ IsFiniteSet(Pending) /\ PendingBounded /\ [Next]_vars
      => IsFiniteSet(Pending)' /\ PendingBounded'
  <2> SUFFICES ASSUME InboxInv, IsFiniteSet(Pending), PendingBounded, [Next]_vars
               PROVE  IsFiniteSet(Pending') /\ Cardinality(Pending') <= MaxPending
    BY DEF PendingBounded
  <2>1. Cardinality(Pending) \in Nat
    BY FS_CardinalityType
  <2>2. CASE Pending' \subseteq Pending
    <3>1. /\ IsFiniteSet(Pending') /\ Cardinality(Pending') <= Cardinality(Pending)
          /\ Cardinality(Pending') \in Nat
      BY <2>2, FS_Subset, FS_CardinalityType
    <3> QED
      BY <2>1, <3>1, InboxAssumption DEF PendingBounded
  <2>3. ASSUME ~Full, NEW t \in Transfers \ Pending, Pending' = Pending \cup {t}
        PROVE  IsFiniteSet(Pending') /\ Cardinality(Pending') <= MaxPending
    <3>1. IsFiniteSet(Pending') /\ Cardinality(Pending') = Cardinality(Pending) + 1
      BY <2>3, FS_AddElement
    <3> QED
      BY <2>1, <2>3, <3>1, InboxAssumption DEF Full
  <2> QED
    BY <2>2, <2>3, PendingStep
<1> QED
  BY <1>1, <1>2, InboxInvariant, PTL DEF Spec

-----------------------------------------------------------------------------
(* Sessions run down *)

SessionPlace == [offer |-> 6, announce |-> 3, await |-> 2, leaving |-> 1, closed |-> 0]

AsksUser(s) == pc[s] \in {"announce", "await"} /\ entry[TransferOf[s]] = "pending"

\* How many steps a session still takes at most, one of them for the callback it
\* has to run, two for a request that may yet expire.
SessionLeft(s) ==
  SessionPlace[pc[s]] + (IF AsksUser(s) THEN 2 ELSE 0) + (IF todo[s] # NoCall THEN 1 ELSE 0)

SessionsRunDown ==
  \A s \in Sessions :
    /\ SessionLeft(s) \in Nat /\ SessionLeft(s)' \in Nat
    /\ SessionLeft(s)' <= SessionLeft(s)
    /\ SessionStep(s) => SessionLeft(s)' < SessionLeft(s)

\* A decision taken in thread h for somebody who waits.
LEMMA DecideLeft ==
  ASSUME InboxInv, InboxInv', NEW h \in Threads, NEW t \in Transfers,
         NEW status \in Decision, Decide(h, t, status), NEW s \in Sessions,
         pc'[s] = pc[s], h # s \/ (todo[s] = NoCall /\ t = TransferOf[s] /\ AsksUser(s))
  PROVE  /\ SessionLeft(s)' <= SessionLeft(s)
         /\ (h = s => SessionLeft(s)' < SessionLeft(s))
<1>1. /\ TransferOf[s] \in Transfers /\ s \in Threads
      /\ SessionPlace[pc[s]] \in Nat
  BY InboxAssumption DEF InboxInv, TypeOK, Threads, SessionPlace
<1>2. AsksUser(s)' => AsksUser(s)
  BY <1>1, DecideType DEF InboxInv, AsksUser, Decision
<1>3. CASE h # s
  <2>1. todo'[s] = todo[s]
    BY <1>1, <1>3 DEF Decide, InboxInv, TypeOK
  <2> QED
    BY <1>1, <1>2, <1>3, <2>1 DEF SessionLeft
<1>4. CASE h = s
  <2>1. ~AsksUser(s)'
    BY <1>1, <1>4 DEF Decide, InboxInv, TypeOK, AsksUser, Decision
  <2> QED
    BY <1>1, <1>4, <2>1 DEF SessionLeft
<1> QED
  BY <1>3, <1>4

\* No session goes back, whoever decides: one waits for the user at most until its
\* deadline, answers, and ends (_receive_session, transfer.py:412-483;
\* _await_incoming_decision, transfer.py:485-513).
THEOREM SessionsEndInTime == Spec => [][SessionsRunDown]_vars
<1>1. ASSUME InboxInv, Next PROVE SessionsRunDown
  <2> USE InboxAssumption
  <2>1. /\ InboxInv' /\ TypeOK /\ TypeOK'
        /\ Sessions \subseteq Threads /\ UI \in Threads /\ Main \in Threads
    BY <1>1, InboxStep DEF InboxInv, Threads
  <2>2. ASSUME NEW s \in Sessions
        PROVE  /\ SessionPlace[pc[s]] \in Nat /\ SessionLeft(s) \in Nat
               /\ SessionLeft(s)' \in Nat /\ TransferOf[s] \in Transfers
    BY <2>1 DEF TypeOK, SessionLeft, SessionPlace
  <2>3. ASSUME NEW s \in Sessions, pc'[s] = pc[s], todo'[s] \in {todo[s], NoCall},
               AsksUser(s)' => AsksUser(s)
        PROVE  SessionLeft(s)' <= SessionLeft(s)
    BY <2>2, <2>3 DEF SessionLeft
  <2>4. ASSUME NEW s \in Sessions, SessionStep(s)
        PROVE  /\ SessionLeft(s)' < SessionLeft(s)
               /\ \A r \in Sessions \ {s} : SessionLeft(r)' <= SessionLeft(r)
    <3>1. CASE Publish(s)
      <4>1. SessionLeft(s)' < SessionLeft(s)
        BY <2>1, <2>2, <3>1 DEF Publish, TypeOK, SessionLeft, SessionPlace, AsksUser
      <4>2. ASSUME NEW r \in Sessions \ {s} PROVE SessionLeft(r)' <= SessionLeft(r)
        <5>1. pc'[r] = pc[r] /\ todo'[r] = todo[r]
          BY <2>1, <3>1 DEF Publish, TypeOK
        <5>2. AsksUser(r)' => AsksUser(r)
          BY <1>1, <2>1, <2>2, <3>1, <5>1 DEF Publish, TypeOK, AsksUser, InboxInv,
             OffersAgree
        <5> QED
          BY <2>3, <5>1, <5>2
      <4> QED
        BY <4>1, <4>2
    <3>2. CASE Resume(s) \/ Busy(s) \/ Conflict(s) \/ Announce(s) \/ Leave(s) \/ Answer(s)
      <4>1. /\ entry' = entry /\ todo' = todo
            /\ \/ pc[s] = "offer" /\ pc' = [pc EXCEPT ![s] = "await"]
                  /\ entry[TransferOf[s]] = "accepted"
               \/ pc[s] = "offer" /\ pc' = [pc EXCEPT ![s] = "closed"]
               \/ pc[s] = "announce" /\ pc' = [pc EXCEPT ![s] = "await"]
               \/ pc[s] \in {"leaving", "await"} /\ pc' = [pc EXCEPT ![s] = "closed"]
        BY <3>2 DEF Resume, Resumes, Busy, Conflict, Announce, Leave, Answer
      <4>2. SessionLeft(s)' < SessionLeft(s)
        BY <2>1, <2>2, <4>1 DEF TypeOK, SessionLeft, SessionPlace, AsksUser
      <4>3. ASSUME NEW r \in Sessions \ {s} PROVE SessionLeft(r)' <= SessionLeft(r)
        BY <2>1, <2>3, <4>1 DEF TypeOK, AsksUser
      <4> QED
        BY <4>2, <4>3
    <3>3. CASE Expire(s)
      <4>1. /\ s \in Threads /\ TransferOf[s] \in Transfers /\ "expired" \in Decision
            /\ AsksUser(s) /\ todo[s] = NoCall /\ pc' = pc
            /\ Decide(s, TransferOf[s], "expired")
        BY <2>1, <3>3 DEF Expire, AsksUser, Decision
      <4> QED
        BY <1>1, <2>1, <4>1, DecideLeft
    <3>4. CASE Record(s)
      <4>1. /\ entry' = entry /\ pc' = pc /\ todo' = [todo EXCEPT ![s] = NoCall]
            /\ todo[s] # NoCall
        BY <3>4 DEF Record
      <4>2. SessionLeft(s)' < SessionLeft(s)
        BY <2>1, <2>2, <4>1 DEF TypeOK, SessionLeft, AsksUser
      <4>3. ASSUME NEW r \in Sessions \ {s} PROVE SessionLeft(r)' <= SessionLeft(r)
        BY <2>1, <2>3, <4>1 DEF TypeOK, AsksUser
      <4> QED
        BY <4>2, <4>3
    <3> QED
      BY <2>4, <3>1, <3>2, <3>3, <3>4 DEF SessionStep
  <2>5. ASSUME NEW r \in Sessions, PeerCancels(r) \/ PeerLeaves(r) \/ Abandon(r),
               NEW s \in Sessions
        PROVE  SessionLeft(s)' <= SessionLeft(s)
    <3>1. CASE s # r
      <4>1. CASE Abandon(r)
        BY <2>1, <2>3, <3>1, <4>1 DEF Abandon, TypeOK, AsksUser
      <4>2. CASE PeerCancels(r) \/ PeerLeaves(r)
        <5>1. PICK status \in Decision : Decide(r, TransferOf[r], status)
          BY <4>2 DEF PeerCancels, PeerLeaves, Decision
        <5>2. pc'[s] = pc[s] /\ r \in Threads /\ TransferOf[r] \in Transfers
          BY <2>1, <3>1, <4>2 DEF PeerCancels, PeerLeaves, TypeOK
        <5> QED
          BY <1>1, <2>1, <3>1, <5>1, <5>2, DecideLeft
      <4> QED
        BY <2>5, <4>1, <4>2
    <3>2. CASE s = r
      <4>1. CASE Abandon(s)
        BY <2>1, <2>2, <4>1 DEF Abandon, TypeOK, SessionLeft, SessionPlace, AsksUser
      <4>2. CASE PeerCancels(s) \/ PeerLeaves(s)
        <5>1. PICK status \in Decision : Decide(s, TransferOf[s], status)
          BY <4>2 DEF PeerCancels, PeerLeaves, Decision
        <5>2. /\ pc[s] = "await" /\ todo[s] = NoCall
              /\ pc' \in {pc, [pc EXCEPT ![s] = "leaving"]}
          BY <4>2 DEF PeerCancels, PeerLeaves
        <5>3. CASE entry[TransferOf[s]] = "pending"
          <6>1. ~AsksUser(s)'
            BY <2>1, <2>2, <5>1, <5>3 DEF Decide, TypeOK, AsksUser, Decision
          <6> QED
            BY <2>1, <2>2, <5>2, <5>3, <6>1 DEF TypeOK, SessionLeft, SessionPlace, AsksUser
        <5>4. CASE entry[TransferOf[s]] # "pending"
          BY <2>1, <2>2, <5>1, <5>2, <5>4 DEF Decide, TypeOK, SessionLeft, SessionPlace,
             AsksUser
        <5> QED
          BY <5>3, <5>4
      <4> QED
        BY <2>5, <3>2, <4>1, <4>2
    <3> QED
      BY <3>1, <3>2
  <2>6. ASSUME NEW h \in {UI, Main}, NEW t \in Transfers, NEW status \in Decision,
               Decide(h, t, status), pc' = pc, NEW s \in Sessions
        PROVE  SessionLeft(s)' <= SessionLeft(s)
    BY <1>1, <2>1, <2>6, DecideLeft
  <2>7. ASSUME NEW h \in {UI, Main}, Record(h) \/ Shutdown, NEW s \in Sessions
        PROVE  SessionLeft(s)' <= SessionLeft(s)
    BY <2>1, <2>3, <2>7 DEF Record, Shutdown, TypeOK, AsksUser
  <2>8. ASSUME NEW t \in Transfers, NEW status \in {"accepted", "rejected"},
               UserDecides(t, status), NEW s \in Sessions
        PROVE  SessionLeft(s)' <= SessionLeft(s)
    BY <2>6, <2>8 DEF UserDecides, Decision
  <2>9. ASSUME CancelNext, NEW s \in Sessions
        PROVE  SessionLeft(s)' <= SessionLeft(s)
    <3>1. PICK t \in victims : Decide(Main, t, "cancelled") /\ pc' = pc
      BY <2>9 DEF CancelNext
    <3> QED
      BY <2>1, <2>6, <3>1 DEF TypeOK, Decision
  <2>10. ASSUME NEW s \in Sessions PROVE SessionLeft(s)' <= SessionLeft(s)
    <3>1. ASSUME NEW r \in Sessions, SessionStep(r) PROVE SessionLeft(s)' <= SessionLeft(s)
      BY <2>2, <2>4, <3>1
    <3> QED
      BY <1>1, <2>5, <2>7, <2>8, <2>9, <3>1 DEF Next
  <2> QED
    BY <2>2, <2>4, <2>10 DEF SessionsRunDown
<1> QED
  BY <1>1, InboxInvariant, PTL DEF Spec

-----------------------------------------------------------------------------
(* The history *)

\* A decision has been written, or the thread that took it still has to: every
\* outstanding callback carries the decision of its entry, a row is created at
\* most once, and outside the window of early decisions it exists first.
HistoryInv ==
  /\ \A h \in Threads : todo[h] # NoCall => entry[todo[h].transfer] = todo[h].status
  /\ \A s \in Sessions : pc[s] = "announce" => history[TransferOf[s]] = None
  /\ \A r, s \in Sessions :
       pc[r] = "announce" /\ pc[s] = "announce" /\ TransferOf[r] = TransferOf[s]
         => r = s
  /\ \A t \in Transfers : entry[t] = None => history[t] = None
  /\ \A t \in Transfers \ early :
       entry[t] \in Decision =>
         /\ history[t] # None
         /\ \/ history[t] = Recorded(entry[t])
            \/ \E h \in Threads : todo[h] = [transfer |-> t, status |-> entry[t]]

\* A decision in thread h, which has no callback outstanding.
LEMMA DecideHistory ==
  ASSUME InboxInv, HistoryInv, NEW h \in Threads, NEW t \in Transfers,
         NEW status \in Decision, Decide(h, t, status), todo[h] = NoCall,
         UNCHANGED history,
         \A s \in Sessions : pc'[s] = "announce" => pc[s] = "announce"
  PROVE  HistoryInv'
<1>1. CASE entry[t] # "pending"
  BY <1>1 DEF Decide, HistoryInv
<1>2. CASE entry[t] = "pending"
  <2>1. /\ entry' = [entry EXCEPT ![t] = status]
        /\ todo' = [todo EXCEPT ![h] = [transfer |-> t, status |-> status]]
        /\ early' = IF history[t] = None THEN early \cup {t} ELSE early
    BY <1>2 DEF Decide
  <2>2. \A g \in Threads : todo[g] # NoCall =>
          todo[g] \in [transfer : Transfers, status : Decision] /\ todo[g].transfer # t
    BY <1>2 DEF InboxInv, TypeOK, HistoryInv, Decision
  <2>3. [transfer |-> t, status |-> status] # NoCall
    BY DEF NoCall, None, Decision
  <2>4. \A g \in Threads : todo'[g] # NoCall => entry'[todo'[g].transfer] = todo'[g].status
    BY <2>1, <2>2 DEF InboxInv, TypeOK, HistoryInv
  <2>5. ASSUME NEW u \in Transfers \ early', entry'[u] \in Decision
        PROVE  /\ history'[u] # None
               /\ \/ history'[u] = Recorded(entry'[u])
                  \/ \E g \in Threads : todo'[g] = [transfer |-> u, status |-> entry'[u]]
    <3>1. CASE u = t
      BY <2>1, <2>5, <3>1 DEF InboxInv, TypeOK
    <3>2. CASE u # t
      <4>1. entry'[u] = entry[u] /\ u \in Transfers \ early
        BY <2>1, <2>5, <3>2 DEF InboxInv, TypeOK
      <4>2. ASSUME NEW g \in Threads, todo[g] = [transfer |-> u, status |-> entry[u]]
            PROVE  todo'[g] = todo[g]
        <5>1. todo[g] # NoCall
          BY <2>5, <4>1, <4>2 DEF NoCall, None, Decision
        <5> QED
          BY <2>1, <5>1 DEF InboxInv, TypeOK
      <4> QED
        BY <2>5, <4>1, <4>2 DEF HistoryInv
    <3> QED
      BY <3>1, <3>2
  <2>6. \A u \in Transfers : entry'[u] = None => entry[u] = None
    BY <2>1 DEF InboxInv, TypeOK, Decision, None
  <2> QED
    BY <2>4, <2>5, <2>6 DEF HistoryInv
<1> QED
  BY <1>1, <1>2

\* Every step keeps the history in line.
LEMMA HistoryStep ==
  ASSUME InboxInv, HistoryInv, [Next]_vars
  PROVE  HistoryInv'
<1> USE InboxAssumption
<1>1. Sessions \subseteq Threads /\ UI \in Threads /\ Main \in Threads
  BY DEF Threads
<1>2. {"accepted", "rejected", "expired", "cancelled"} = Decision
  BY DEF Decision
<1>3. \A s \in Sessions : TransferOf[s] \in Transfers
  OBVIOUS
<1>4. ASSUME NEW s \in Sessions, Publish(s)
      PROVE  HistoryInv'
  <2>1. /\ entry' = [entry EXCEPT ![TransferOf[s]] = "pending"]
        /\ pc' = [pc EXCEPT ![s] = "announce"]
        /\ entry[TransferOf[s]] = None
        /\ UNCHANGED <<todo, history, early>>
    BY <1>4 DEF Publish
  <2>2. \A r \in Sessions : TransferOf[r] = TransferOf[s] => pc[r] # "announce"
    BY <1>3, <2>1 DEF InboxInv, OffersAgree
  <2>3. \A h \in Threads : todo[h] # NoCall => todo[h].transfer # TransferOf[s]
    BY <2>1 DEF InboxInv, TypeOK, HistoryInv, Decision, None
  <2>4. \A h \in Threads : todo[h] # NoCall => todo[h].transfer \in Transfers
    BY DEF InboxInv, TypeOK
  <2> QED
    BY <1>3, <2>1, <2>2, <2>3, <2>4 DEF InboxInv, TypeOK, HistoryInv, Decision, None
<1>5. ASSUME NEW s \in Sessions,
             Resume(s) \/ Busy(s) \/ Conflict(s) \/ Answer(s) \/ Leave(s) \/ Abandon(s)
      PROVE  HistoryInv'
  <2>1. UNCHANGED <<entry, todo, history, early>>
    BY <1>5 DEF Resume, Busy, Conflict, Answer, Leave, Abandon
  <2>2. \A r \in Sessions : pc'[r] = "announce" => pc[r] = "announce"
    BY <1>5 DEF Resume, Busy, Conflict, Answer, Leave, Abandon, InboxInv, TypeOK
  <2> QED
    BY <2>1, <2>2 DEF HistoryInv
<1>6. ASSUME NEW s \in Sessions, Announce(s)
      PROVE  HistoryInv'
  <2>1. /\ history' = [history EXCEPT ![TransferOf[s]] = "pending_approval"]
        /\ pc' = [pc EXCEPT ![s] = "await"] /\ pc[s] = "announce"
        /\ UNCHANGED <<entry, todo, early>>
    BY <1>6 DEF Announce
  <2>2. /\ history[TransferOf[s]] = None
        /\ entry[TransferOf[s]] # None
        /\ \A r \in Sessions \ {s} : TransferOf[r] = TransferOf[s] => pc[r] # "announce"
    BY <2>1 DEF InboxInv, OffersAgree, HistoryInv
  <2>3. TransferOf[s] \in early \/ entry[TransferOf[s]] \notin Decision
    BY <1>3, <2>2 DEF HistoryInv
  <2> QED
    BY <1>3, <2>1, <2>2, <2>3 DEF InboxInv, TypeOK, HistoryInv
<1>7. ASSUME NEW h \in Threads, Record(h)
      PROVE  HistoryInv'
  <2> DEFINE call == todo[h]
  <2>1. /\ call # NoCall
        /\ history' = IF history[call.transfer] = None THEN history
                      ELSE [history EXCEPT ![call.transfer] = Recorded(call.status)]
        /\ todo' = [todo EXCEPT ![h] = NoCall]
        /\ UNCHANGED <<entry, pc, early>>
    BY <1>7 DEF Record
  <2>2. call.transfer \in Transfers /\ entry[call.transfer] = call.status
    BY <2>1 DEF InboxInv, TypeOK, HistoryInv
  <2>3. \A t \in Transfers : history[t] = None <=> history'[t] = None
    BY <2>1, <2>2 DEF InboxInv, TypeOK, Recorded, Decision, None
  <2>4. ASSUME NEW t \in Transfers \ early, entry[t] \in Decision
        PROVE  \/ history'[t] = Recorded(entry[t])
               \/ \E g \in Threads : todo'[g] = [transfer |-> t, status |-> entry[t]]
    <3>1. CASE t = call.transfer
      BY <2>1, <2>2, <2>4, <3>1 DEF InboxInv, TypeOK, HistoryInv
    <3>2. CASE t # call.transfer
      <4>1. history'[t] = history[t]
        BY <2>1, <2>2, <3>2 DEF InboxInv, TypeOK
      <4>2. ASSUME NEW g \in Threads, todo[g] = [transfer |-> t, status |-> entry[t]]
            PROVE  todo'[g] = todo[g]
        BY <2>1, <3>2, <4>2 DEF InboxInv, TypeOK
      <4> QED
        BY <2>4, <4>1, <4>2 DEF HistoryInv
    <3> QED
      BY <3>1, <3>2
  <2>5. \A g \in Threads : todo'[g] # NoCall => todo'[g] = todo[g]
    BY <2>1 DEF InboxInv, TypeOK
  <2> QED
    BY <1>3, <2>1, <2>3, <2>4, <2>5 DEF HistoryInv
<1>8. ASSUME NEW s \in Sessions, Expire(s) \/ PeerCancels(s) \/ PeerLeaves(s)
      PROVE  HistoryInv'
  <2>1. PICK status \in Decision : Decide(s, TransferOf[s], status)
    BY <1>2, <1>8 DEF Expire, PeerCancels, PeerLeaves
  <2>2. todo[s] = NoCall /\ history' = history
    BY <1>8 DEF Expire, PeerCancels, PeerLeaves
  <2>3. \A r \in Sessions : pc'[r] = "announce" => pc[r] = "announce"
    BY <1>8 DEF Expire, PeerCancels, PeerLeaves, InboxInv, TypeOK
  <2> QED
    BY <1>1, <1>3, <2>1, <2>2, <2>3, DecideHistory
<1>9. ASSUME NEW t \in Transfers, NEW status \in {"accepted", "rejected"},
             UserDecides(t, status)
      PROVE  HistoryInv'
  BY <1>1, <1>2, <1>9, DecideHistory DEF UserDecides
<1>10. CASE CancelNext
  <2>1. PICK t \in victims : Decide(Main, t, "cancelled")
    BY <1>10 DEF CancelNext
  <2>2. t \in Transfers
    BY <2>1 DEF InboxInv, TypeOK
  <2> QED
    BY <1>1, <1>2, <1>10, <2>1, <2>2, DecideHistory DEF CancelNext
<1>11. CASE Shutdown \/ UNCHANGED vars
  BY <1>11 DEF Shutdown, vars, HistoryInv
<1> QED
  BY <1>1, <1>4, <1>5, <1>6, <1>7, <1>8, <1>9, <1>10, <1>11 DEF Next, SessionStep

\* Once the callbacks have run, the history shows the decision of every transfer
\* whose row existed when it was taken (_handle_request_decision and
\* update_transfer, transfer.py:1521-1553): callbacks after the unlock may run
\* late, but never in an order that leaves another status.
THEOREM HistoryFollows == Spec => []HistoryShowsDecision
<1>1. Init => HistoryInv
  BY DEF Init, HistoryInv, NoCall, Decision, None
<1>2. HistoryInv => HistoryShowsDecision
  <2>1. \A t \in Transfers : entry[t] \in Decision =>
          [transfer |-> t, status |-> entry[t]] # NoCall
    BY DEF NoCall, None, Decision
  <2> QED
    BY <2>1 DEF HistoryInv, HistoryShowsDecision
<1> QED
  BY <1>1, <1>2, InboxInvariant, HistoryStep, PTL DEF Spec

-----------------------------------------------------------------------------
(* The reader of frames *)

CONSTANTS Content, Header, MaxSize, Selects

VARIABLES arrived, pos, start, need, part, heard, state

Wire == INSTANCE Frames

\* A stream of at least one frame; lengths as the protocol has them.
FramesOK ==
  /\ Header \in Nat \ {0} /\ Content \in Seq(Nat \ {0}) /\ Content # <<>>

\* Induction, as the provers can use it: a set of numbers that is not empty has a least one.
LEMMA LeastNumber ==
  ASSUME NEW T, T \subseteq Nat, T # {}
  PROVE  \E x \in T : \A y \in T : x <= y
<1> DEFINE Less == {ss \in Nat \X Nat : ss[1] < ss[2]}
<1>1. IsWellFoundedOn(Less, Nat)
  BY NatLessThanWellFounded DEF OpToRel
<1>2. PICK x \in T : \A y \in T : <<y, x>> \notin Less
  BY <1>1, WFMin
<1>3. ASSUME NEW y \in T PROVE x <= y
  <2>1. <<y, x>> \in Nat \X Nat /\ <<y, x>>[1] = y /\ <<y, x>>[2] = x
    OBVIOUS
  <2>2. ~(y < x)
    BY <1>2, <2>1
  <2> QED
    BY <2>2
<1> QED
  BY <1>3

-----------------------------------------------------------------------------
(* Offset is what its recursive definition says: up to every number there  *)
(* is such a function, and all of them agree.                              *)

NextOffset(g, i) == IF i <= 1 THEN 0 ELSE g[i - 1] + Header + Content[i - 1]
UpTo(n, g) == g = [i \in 0..n |-> NextOffset(g, i)]
OffsetsTo(n) == CHOOSE g : UpTo(n, g)

LEMMA OffsetsAgree ==
  ASSUME NEW m \in Nat, NEW n \in Nat, NEW g, NEW h, UpTo(m, g), UpTo(n, h),
         NEW i \in Nat, i <= m, i <= n
  PROVE  g[i] = h[i]
<1> DEFINE T == {j \in Nat : j <= m /\ j <= n /\ g[j] # h[j]}
<1>1. SUFFICES ASSUME T # {} PROVE FALSE
  OBVIOUS
<1>2. PICK x \in T : \A y \in T : x <= y
  BY <1>1, LeastNumber
<1>3. x \in Nat /\ x <= m /\ x <= n /\ x \in 0..m /\ x \in 0..n
  OBVIOUS
<1>4. g[x] = NextOffset(g, x) /\ h[x] = NextOffset(h, x)
  BY <1>3 DEF UpTo
<1>5. CASE x <= 1
  BY <1>4, <1>5 DEF NextOffset
<1>6. CASE ~(x <= 1)
  <2>1. x - 1 \in Nat /\ x - 1 <= m /\ x - 1 <= n /\ ~(x <= x - 1)
    BY <1>3, <1>6
  <2>2. g[x - 1] = h[x - 1]
    BY <1>2, <2>1
  <2> QED
    BY <1>4, <1>6, <2>2 DEF NextOffset
<1> QED
  BY <1>5, <1>6

LEMMA OffsetsExist == ASSUME NEW n \in Nat PROVE \E g : UpTo(n, g)
<1> DEFINE T == {j \in Nat : ~ \E g : UpTo(j, g)}
<1>1. SUFFICES ASSUME T # {} PROVE FALSE
  OBVIOUS
<1>2. PICK x \in T : \A y \in T : x <= y
  BY <1>1, LeastNumber
<1>3. CASE x = 0
  <2> DEFINE g == [i \in 0..0 |-> 0]
  <2>1. UpTo(0, g)
    BY DEF UpTo, NextOffset
  <2> QED
    BY <1>3, <2>1
<1>4. CASE x # 0
  <2>1. x \in Nat /\ x - 1 \in Nat /\ ~(x <= x - 1)
    BY <1>4
  <2>2. PICK g : UpTo(x - 1, g)
    BY <1>2, <2>1
  <2> DEFINE h == [i \in 0..x |-> IF i < x THEN g[i] ELSE NextOffset(g, i)]
  <2>3. ASSUME NEW i \in 0..x PROVE h[i] = NextOffset(h, i)
    <3>1. CASE i < x
      <4>1. i \in 0..x - 1 /\ h[i] = g[i]
        BY <2>1, <3>1
      <4>2. g[i] = NextOffset(g, i)
        BY <2>2, <4>1 DEF UpTo
      <4>3. ~(i <= 1) => h[i - 1] = g[i - 1]
        BY <2>1, <3>1
      <4> QED
        BY <4>1, <4>2, <4>3 DEF NextOffset
    <3>2. CASE ~(i < x)
      <4>1. h[i] = NextOffset(g, i)
        BY <3>2
      <4>2. ~(i <= 1) => h[i - 1] = g[i - 1]
        BY <2>1, <3>2
      <4> QED
        BY <4>1, <4>2 DEF NextOffset
    <3> QED
      BY <3>1, <3>2
  <2>4. UpTo(x, h)
    BY <2>3 DEF UpTo
  <2> QED
    BY <2>4
<1> QED
  BY <1>3, <1>4

LEMMA OffsetIs ==
  \A i \in Nat :
    Wire!Offset[i] =
      IF i <= 1 THEN 0 ELSE Wire!Offset[i - 1] + Header + Content[i - 1]
<1> DEFINE F == [n \in Nat |-> OffsetsTo(n)[n]]
<1>1. \A n \in Nat : UpTo(n, OffsetsTo(n))
  BY OffsetsExist DEF OffsetsTo
<1>2. ASSUME NEW n \in Nat PROVE F[n] = NextOffset(F, n)
  <2>1. F[n] = OffsetsTo(n)[n]
    OBVIOUS
  <2>2. n \in 0..n /\ OffsetsTo(n) = [i \in 0..n |-> NextOffset(OffsetsTo(n), i)]
    BY <1>1 DEF UpTo
  <2>3. OffsetsTo(n)[n] = NextOffset(OffsetsTo(n), n)
    BY <2>2
  <2>4. ASSUME ~(n <= 1) PROVE OffsetsTo(n)[n - 1] = F[n - 1]
    <3>1. n - 1 \in Nat /\ n - 1 <= n
      BY <2>4
    <3>2. OffsetsTo(n)[n - 1] = OffsetsTo(n - 1)[n - 1]
      BY <1>1, <3>1, OffsetsAgree
    <3> QED
      BY <3>1, <3>2
  <2> QED
    BY <2>1, <2>3, <2>4 DEF NextOffset
<1>3. F = [i \in Nat |-> IF i <= 1 THEN 0 ELSE F[i - 1] + Header + Content[i - 1]]
  <2>1. F = [i \in Nat |-> F[i]]
    OBVIOUS
  <2> HIDE DEF F
  <2> QED
    BY <1>2, <2>1 DEF NextOffset
<1> HIDE DEF F
<1>4. Wire!Offset =
        [i \in Nat |-> IF i <= 1 THEN 0 ELSE Wire!Offset[i - 1] + Header + Content[i - 1]]
  BY <1>3 DEF Wire!Offset
<1> QED
  BY <1>4

\* One frame begins where the one before it ends, and no two at the same place.
LEMMA OffsetsIncrease ==
  ASSUME FramesOK
  PROVE  /\ Len(Content) \in Nat /\ Wire!Numbers = 1..Len(Content)
         /\ \A i \in 1..Len(Content) : Content[i] \in Nat \ {0}
         /\ Wire!Offset[1] = 0
         /\ \A i \in 1..Len(Content) + 1 : Wire!Offset[i] \in Nat
         /\ \A i \in 1..Len(Content) :
              Wire!Offset[i + 1] = Wire!Offset[i] + Header + Content[i]
         /\ \A i, j \in 1..Len(Content) + 1 : i < j => Wire!Offset[i] < Wire!Offset[j]
<1> DEFINE O == Wire!Offset
           L == Len(Content)
<1>1. L \in Nat /\ Wire!Numbers = 1..L /\ Header \in Nat \ {0}
  BY DEF FramesOK, Wire!Numbers
<1>2. \A i \in 1..L : Content[i] \in Nat \ {0}
  BY DEF FramesOK
<1> HIDE DEF L
<1>3. O[1] = 0
  BY OffsetIs
<1>4. ASSUME NEW i \in 1..L PROVE O[i + 1] = O[i] + Header + Content[i]
  <2>1. i + 1 \in Nat /\ ~(i + 1 <= 1) /\ i + 1 - 1 = i
    BY <1>1
  <2>2. O[i + 1] = IF i + 1 <= 1 THEN 0 ELSE O[i + 1 - 1] + Header + Content[i + 1 - 1]
    BY <2>1, OffsetIs
  <2> HIDE DEF O
  <2> QED
    BY <2>1, <2>2
<1> HIDE DEF O
<1>5. ASSUME NEW i \in 1..L + 1 PROVE O[i] \in Nat
  <2> DEFINE T == {k \in Nat : k \in 1..L + 1 /\ O[k] \notin Nat}
  <2>1. SUFFICES ASSUME T # {} PROVE FALSE
    BY <1>1
  <2>2. PICK x \in T : \A y \in T : x <= y
    BY <2>1, LeastNumber
  <2>3. x # 1
    BY <1>3
  <2>4. x - 1 \in 1..L /\ x - 1 \in 1..L + 1 /\ x - 1 \in Nat /\ ~(x <= x - 1) /\ x - 1 + 1 = x
    BY <1>1, <2>3
  <2>5. O[x - 1] \in Nat
    BY <2>2, <2>4
  <2>6. O[x - 1 + 1] = O[x - 1] + Header + Content[x - 1]
    BY <1>4, <2>4
  <2>7. O[x] \in Nat
    BY <1>1, <1>2, <2>4, <2>5, <2>6
  <2> QED
    BY <2>7
<1>6. ASSUME NEW i \in 1..L + 1, NEW j \in 1..L + 1, i < j PROVE O[i] < O[j]
  <2> DEFINE T == {k \in Nat : k \in 1..L + 1 /\ i < k /\ ~(O[i] < O[k])}
  <2>1. SUFFICES ASSUME T # {} PROVE FALSE
    BY <1>1, <1>6
  <2>2. PICK x \in T : \A y \in T : x <= y
    BY <2>1, LeastNumber
  <2>3. x - 1 \in 1..L /\ x - 1 \in 1..L + 1 /\ x - 1 \in Nat /\ ~(x <= x - 1) /\ x - 1 + 1 = x
    BY <1>1
  <2>4. O[x - 1 + 1] = O[x - 1] + Header + Content[x - 1]
    BY <1>4, <2>3
  <2>5. O[x - 1] < O[x] /\ O[x - 1] \in Nat /\ O[x] \in Nat /\ O[i] \in Nat
    BY <1>1, <1>2, <1>5, <2>3, <2>4
  <2>6. CASE i = x - 1
    BY <2>5, <2>6
  <2>7. CASE i # x - 1
    <3>1. i < x - 1
      BY <1>1, <2>3, <2>7
    <3>2. O[i] < O[x - 1]
      BY <2>2, <2>3, <3>1
    <3> QED
      BY <2>5, <3>2
  <2> QED
    BY <2>6, <2>7
<1> QED
  BY <1>1, <1>2, <1>3, <1>4, <1>5, <1>6 DEF O, L

\* The frames that were returned are the first ones, in order, and the part that is
\* read is the length or the content of the next one.
WireInv ==
  /\ state # "broken"
  /\ {arrived, pos, start, need} \subseteq Nat
  /\ start <= pos /\ pos <= start + need /\ pos <= arrived /\ arrived <= Wire!Total
  /\ heard \in Seq(Nat) /\ Len(heard) \in 0..Len(Content)
  /\ \A k \in 1..Len(heard) : heard[k] = k
  /\ \/ part = "length" /\ start = Wire!Offset[Len(heard) + 1] /\ need = Header
     \/ /\ part = "content" /\ Len(heard) + 1 \in 1..Len(Content)
        /\ start = Wire!Offset[Len(heard) + 1] + Header
        /\ need = Content[Len(heard) + 1]

LEMMA WireStart == ASSUME FramesOK, Wire!Init PROVE WireInv
<1>1. Wire!Offset[1] = 0 /\ Header \in Nat /\ Len(Content) \in Nat
  BY OffsetsIncrease DEF FramesOK
<1>2. Wire!Total \in Nat
  BY OffsetsIncrease DEF Wire!Total
<1>3. heard = <<>> /\ Len(heard) = 0 /\ Len(heard) + 1 = 1 /\ heard \in Seq(Nat)
  BY DEF Wire!Init
<1> QED
  BY <1>1, <1>2, <1>3 DEF Wire!Init, WireInv

LEMMA WireStep ==
  ASSUME FramesOK, Selects, WireInv, [Wire!Next]_(Wire!vars)
  PROVE  WireInv'
<1> DEFINE n == Len(heard)
<1>1. n \in Nat /\ n <= Len(Content) /\ Len(Content) \in Nat /\ Len(Content) > 0
      /\ Header \in Nat \ {0}
  BY OffsetsIncrease DEF WireInv, FramesOK
<1>2. Wire!Total \in Nat /\ Wire!Offset[2] <= Wire!Total
  <2>1. 2 \in 1..Len(Content) + 1 /\ Len(Content) + 1 \in 1..Len(Content) + 1
    BY <1>1
  <2>2. CASE Len(Content) + 1 = 2
    BY <2>1, <2>2, OffsetsIncrease DEF Wire!Total
  <2>3. CASE 2 < Len(Content) + 1
    BY <2>1, <2>3, OffsetsIncrease DEF Wire!Total
  <2> QED
    BY <1>1, <2>2, <2>3
<1>3. CASE Wire!Arrive
  <2>1. arrived' \in Nat /\ arrived < arrived' /\ arrived' <= Wire!Total
    <3>1. PICK m \in (arrived + 1)..Wire!Sendable : arrived' = m
      BY <1>3 DEF Wire!Arrive
    <3>2. Wire!Sendable \in {Wire!Offset[2], Wire!Total} /\ Wire!Offset[2] \in Nat
      BY <1>1, OffsetsIncrease DEF Wire!Sendable
    <3> QED
      BY <1>2, <3>1, <3>2 DEF WireInv
  <2> QED
    BY <1>3, <2>1 DEF Wire!Arrive, WireInv
<1>4. CASE Wire!Receive
  BY <1>4 DEF Wire!Receive, Wire!Missing, WireInv
<1>5. CASE Wire!LengthRead
  <2>1. part = "length" /\ start = Wire!Offset[n + 1] /\ need = Header /\ pos = start + Header
    BY <1>5 DEF Wire!LengthRead, Wire!Whole, WireInv
  <2>2. n + 1 \in 1..Len(Content)
    <3>1. SUFFICES ASSUME n = Len(Content) PROVE FALSE
      BY <1>1
    <3>2. start = Wire!Total
      BY <2>1, <3>1 DEF Wire!Total
    <3> QED
      BY <1>1, <1>2, <2>1, <3>2 DEF WireInv
  <2>3. PICK i \in 1..Len(Content) : start = Wire!Offset[i] /\ Wire!NextPart("content", Content[i])
    BY <1>5, <2>1, <2>2, OffsetsIncrease DEF Wire!LengthRead
  <2>4. i = n + 1
    <3>1. i \in 1..Len(Content) + 1 /\ n + 1 \in 1..Len(Content) + 1 /\ i \in Nat
      BY <1>1, <2>2
    <3>2. Wire!Offset[i] \in Nat /\ Wire!Offset[n + 1] \in Nat
      BY <3>1, OffsetsIncrease
    <3>3. Wire!Offset[i] = Wire!Offset[n + 1]
      BY <2>1, <2>3
    <3>4. ~(i < n + 1) /\ ~(n + 1 < i)
      BY <3>1, <3>2, <3>3, OffsetsIncrease
    <3> QED
      BY <1>1, <3>1, <3>4
  <2>5. Content[n + 1] \in Nat
    BY <2>2, OffsetsIncrease
  <2> QED
    BY <1>1, <1>5, <2>1, <2>2, <2>3, <2>4, <2>5 DEF Wire!LengthRead, Wire!NextPart, WireInv
<1>6. CASE Wire!ContentRead
  <2>1. /\ part = "content" /\ n + 1 \in 1..Len(Content)
        /\ start = Wire!Offset[n + 1] + Header /\ need = Content[n + 1]
    BY <1>6 DEF Wire!ContentRead, WireInv
  <2>2. PICK i \in 1..Len(Content) :
          start = Wire!Offset[i] + Header /\ heard' = Append(heard, i)
    BY <1>6, OffsetsIncrease DEF Wire!ContentRead
  <2>3. i = n + 1
    <3>1. i \in 1..Len(Content) + 1 /\ n + 1 \in 1..Len(Content) + 1 /\ i \in Nat
      BY <1>1, <2>1
    <3>2. Wire!Offset[i] \in Nat /\ Wire!Offset[n + 1] \in Nat
      BY <3>1, OffsetsIncrease
    <3>3. Wire!Offset[i] = Wire!Offset[n + 1]
      BY <1>1, <2>1, <2>2, <3>2
    <3>4. ~(i < n + 1) /\ ~(n + 1 < i)
      BY <3>1, <3>2, <3>3, OffsetsIncrease
    <3> QED
      BY <1>1, <3>1, <3>4
  <2>4. /\ Len(heard') = n + 1 /\ heard' \in Seq(Nat)
        /\ \A k \in 1..n + 1 : heard'[k] = k
    BY <1>1, <2>2, <2>3 DEF WireInv
  <2>5. pos = Wire!Offset[n + 1] + Header + Content[n + 1]
    BY <1>6, <2>1 DEF Wire!ContentRead, Wire!Whole
  <2>6. pos = Wire!Offset[n + 1 + 1]
    BY <2>1, <2>5, OffsetsIncrease
  <2>7. Wire!NextPart("length", Header) /\ UNCHANGED <<arrived, pos, state>>
    BY <1>6 DEF Wire!ContentRead
  <2> HIDE DEF n
  <2> QED
    BY <1>1, <2>1, <2>4, <2>6, <2>7 DEF Wire!NextPart, WireInv
<1>7. CASE Wire!Misread
  <2>1. CASE part = "length"
    <3>1. start = Wire!Offset[n + 1] /\ pos = start + Header
          /\ start \notin {Wire!Offset[i] : i \in 1..Len(Content)}
      BY <1>7, <2>1, OffsetsIncrease DEF Wire!Misread, Wire!Whole, WireInv
    <3>2. n = Len(Content)
      BY <1>1, <3>1
    <3>3. start = Wire!Total
      BY <3>1, <3>2 DEF Wire!Total
    <3> QED
      BY <1>1, <1>2, <3>1, <3>3 DEF WireInv
  <2>2. CASE part # "length"
    <3>1. n + 1 \in 1..Len(Content) /\ start = Wire!Offset[n + 1] + Header
          /\ pos = start + Content[n + 1]
      BY <1>7, <2>2 DEF Wire!Misread, Wire!Whole, WireInv
    <3> QED
      BY <1>7, <2>2, <3>1, OffsetsIncrease DEF Wire!Misread
  <2> QED
    BY <2>1, <2>2
<1>8. CASE Wire!Poll
  <2>1. part = "length" /\ pos = start
    BY <1>8 DEF Wire!Poll, Wire!MayPoll, Wire!AtFrame
  <2> QED
    BY <1>1, <1>8, <2>1 DEF Wire!Poll, Wire!NextPart, WireInv
<1>9. CASE Wire!Close
  BY <1>9 DEF Wire!Close, WireInv
<1>10. CASE UNCHANGED Wire!vars
  BY <1>10 DEF Wire!vars, WireInv
<1> QED
  BY <1>3, <1>4, <1>5, <1>6, <1>7, <1>8, <1>9, <1>10 DEF Wire!Next

THEOREM WireInvariant == FramesOK /\ Selects => (Wire!Spec => []WireInv)
<1> SUFFICES ASSUME FramesOK, Selects PROVE Wire!Spec => []WireInv
  OBVIOUS
<1> QED
  BY WireStart, WireStep, PTL DEF Wire!Spec

\* However the stream is cut and whenever the timeouts come, a reader that asks first
\* whether there is anything to read (the receiver, transfer.py:498) takes no part of
\* a frame for another one.  For the sender, which does not ask, this is false.
THEOREM AskingNeverMisreads == FramesOK /\ Selects => (Wire!Spec => []Wire!NeverMisread)
<1> SUFFICES ASSUME FramesOK, Selects PROVE Wire!Spec => []Wire!NeverMisread
  OBVIOUS
<1>1. WireInv => Wire!NeverMisread
  BY DEF WireInv, Wire!NeverMisread
<1> QED
  BY <1>1, WireInvariant, PTL

FramesInOrder == \A k \in 1..Len(heard) : heard[k] = k

\* Such a reader returns the frames that were sent, each once and in order
\* (unpack_frame and _recv_exact, crypto.py:35-55).
THEOREM AskingReadsInOrder == FramesOK /\ Selects => (Wire!Spec => []FramesInOrder)
<1> SUFFICES ASSUME FramesOK, Selects PROVE Wire!Spec => []FramesInOrder
  OBVIOUS
<1>1. WireInv => FramesInOrder
  BY DEF WireInv, FramesInOrder
<1> QED
  BY <1>1, WireInvariant, PTL

-----------------------------------------------------------------------------
(* A reader that asks and one that does not                                  *)

\* No frame is longer than the reader accepts.
FramesFit ==
  FramesOK /\ MaxSize \in Nat /\ \A i \in 1..Len(Content) : Content[i] <= MaxSize

\* Frames are returned in the order in which they were sent, none of them twice.
FramesRise == \A j, k \in 1..Len(heard) : j < k => heard[j] < heard[k]

\* The reader never goes back in the stream: what it returned lies before the part
\* that it reads.
ReaderInv ==
  /\ Wire!TypeOK /\ FramesRise
  /\ \A k \in 1..Len(heard) : Wire!Offset[heard[k] + 1] <= start

LEMMA ReaderStart == ASSUME FramesFit, Wire!Init PROVE ReaderInv
<1>1. Wire!Total \in Nat /\ Header \in Nat
  BY OffsetsIncrease DEF Wire!Total, FramesFit, FramesOK
<1>2. heard = <<>> /\ Len(heard) = 0 /\ heard \in Seq(Wire!Numbers)
  BY DEF Wire!Init
<1> QED
  BY <1>1, <1>2 DEF Wire!Init, Wire!TypeOK, ReaderInv, FramesRise, FramesFit

LEMMA ReaderStep ==
  ASSUME FramesFit, ReaderInv, [Wire!Next]_(Wire!vars)
  PROVE  ReaderInv'
<1> USE DEF FramesFit, FramesOK
<1>1. /\ Len(Content) \in Nat /\ Wire!Numbers = 1..Len(Content) /\ Wire!Total \in Nat
      /\ \A i \in Wire!Numbers : Content[i] \in Nat \ {0} /\ Content[i] <= MaxSize
      /\ \A i \in 1..Len(Content) + 1 : Wire!Offset[i] \in Nat
  BY OffsetsIncrease DEF Wire!Total
<1>2. /\ {arrived, pos, start, need} \subseteq Nat /\ pos <= arrived /\ start <= pos
      /\ arrived <= Wire!Total /\ pos <= start + need /\ need <= Header + MaxSize
      /\ heard \in Seq(Wire!Numbers) /\ Len(heard) \in Nat
      /\ \A k \in 1..Len(heard) : heard[k] \in Wire!Numbers
  BY <1>1 DEF ReaderInv, Wire!TypeOK
<1>0. ASSUME NEW k \in 1..Len(heard)
      PROVE  /\ heard[k] \in Nat /\ heard[k] + 1 \in 1..Len(Content) + 1
             /\ Wire!Offset[heard[k] + 1] \in Nat
  <2>1. heard[k] \in 1..Len(Content)
    BY <1>1, <1>2
  <2>2. heard[k] \in Nat /\ heard[k] + 1 \in 1..Len(Content) + 1
    BY <1>1, <2>1
  <2> QED
    BY <1>1, <2>2
<1>3. ASSUME heard' = heard, start <= start', start' \in Nat, Wire!TypeOK'
      PROVE  ReaderInv'
  BY <1>0, <1>2, <1>3 DEF ReaderInv, FramesRise
<1>4. CASE Wire!Arrive
  <2>1. Wire!Sendable \in Nat /\ Wire!Sendable <= Wire!Total
    <3>1. 2 \in 1..Len(Content) + 1 /\ Len(Content) + 1 \in 1..Len(Content) + 1
      BY <1>1
    <3>2. Wire!Offset[2] <= Wire!Total
      BY <1>1, <3>1, OffsetsIncrease DEF Wire!Total
    <3> QED
      BY <1>1, <3>1, <3>2 DEF Wire!Sendable
  <2>2. Wire!TypeOK'
    BY <1>1, <1>2, <1>4, <2>1 DEF Wire!Arrive, Wire!TypeOK, ReaderInv
  <2> QED
    BY <1>2, <1>3, <1>4, <2>2 DEF Wire!Arrive
<1>5. CASE Wire!Receive
  <2>1. Wire!TypeOK'
    BY <1>1, <1>2, <1>5 DEF Wire!Receive, Wire!Missing, Wire!TypeOK, ReaderInv
  <2> QED
    BY <1>2, <1>3, <1>5, <2>1 DEF Wire!Receive
<1>6. CASE Wire!LengthRead
  <2>1. PICK n \in 0..MaxSize : Wire!NextPart("content", n)
    BY <1>1, <1>6 DEF Wire!LengthRead
  <2>2. Wire!TypeOK'
    BY <1>1, <1>2, <1>6, <2>1
       DEF Wire!LengthRead, Wire!NextPart, Wire!TypeOK, ReaderInv
  <2> QED
    BY <1>2, <1>3, <1>6, <2>1, <2>2 DEF Wire!LengthRead, Wire!NextPart
<1>7. CASE Wire!ContentRead
  <2>1. PICK i \in Wire!Numbers : /\ start = Wire!Offset[i] + Header /\ pos = start + Content[i]
                                  /\ heard' = Append(heard, i)
    BY <1>7 DEF Wire!ContentRead
  <2>2. start' = pos /\ need' = Header /\ part' = "length" /\ UNCHANGED <<arrived, pos, state>>
    BY <1>7 DEF Wire!ContentRead, Wire!NextPart
  <2>3. /\ heard' \in Seq(Wire!Numbers) /\ Len(heard') = Len(heard) + 1
        /\ \A k \in 1..Len(heard) : heard'[k] = heard[k]
        /\ heard'[Len(heard) + 1] = i
    BY <1>2, <2>1
  <2>4. Wire!TypeOK'
    BY <1>1, <1>2, <2>2, <2>3 DEF Wire!TypeOK, ReaderInv
  <2>5. i \in Nat /\ Wire!Offset[i] \in Nat /\ Wire!Offset[i + 1] = Wire!Offset[i] + Header + Content[i]
    BY <1>1, OffsetsIncrease
  <2>6. ASSUME NEW k \in 1..Len(heard) PROVE heard[k] < i
    <3> DEFINE end == heard[k] + 1
    <3>1. Wire!Offset[end] <= start
      BY DEF ReaderInv
    <3>2. /\ heard[k] \in Nat /\ end \in 1..Len(Content) + 1
          /\ Wire!Offset[end] \in Nat
      BY <1>0
    <3>3. Content[i] \in Nat \ {0} /\ i + 1 \in 1..Len(Content) + 1
      BY <1>1
    <3>4. Wire!Offset[end] < Wire!Offset[i + 1]
      <4>1. Wire!Offset[i + 1] = start + Content[i] /\ Header \in Nat /\ start \in Nat
        BY <1>2, <2>1, <2>5
      <4>2. Wire!Offset[i + 1] > start
        BY <3>3, <4>1
      <4> HIDE DEF end
      <4> QED
        BY <3>1, <3>2, <4>1, <4>2, <3>3
    <3>5. end \in Nat /\ Wire!Offset[i + 1] \in Nat
      BY <1>1, <3>2, <3>3
    <3>6. ~(i + 1 < end) /\ i + 1 # end
      <4> HIDE DEF end
      <4> QED
        BY <3>2, <3>3, <3>4, <3>5, OffsetsIncrease
    <3> QED
      BY <2>5, <3>2, <3>6
  <2>7. FramesRise'
    <3> SUFFICES ASSUME NEW j \in 1..Len(heard) + 1, NEW k \in 1..Len(heard) + 1, j < k
                 PROVE  heard'[j] < heard'[k]
      BY <2>3 DEF FramesRise
    <3>1. CASE k = Len(heard) + 1
      <4>1. j \in 1..Len(heard)
        BY <1>2, <3>1
      <4> QED
        BY <2>3, <2>6, <3>1, <4>1
    <3>2. CASE k # Len(heard) + 1
      <4>1. j \in 1..Len(heard) /\ k \in 1..Len(heard)
        BY <1>2, <3>2
      <4> QED
        BY <2>3, <4>1 DEF ReaderInv, FramesRise
    <3> QED
      BY <3>1, <3>2
  <2>8. \A k \in 1..Len(heard') : Wire!Offset[heard'[k] + 1] <= start'
    <3>1. Wire!Offset[i + 1] = start'
      BY <1>1, <2>1, <2>2, <2>5
    <3>2. \A k \in 1..Len(heard) : Wire!Offset[heard[k] + 1] <= start'
      BY <1>0, <1>2, <2>2 DEF ReaderInv
    <3> QED
      BY <1>2, <2>2, <2>3, <3>1, <3>2
  <2> QED
    BY <2>4, <2>7, <2>8 DEF ReaderInv
<1>8. CASE Wire!Misread \/ Wire!Close
  <2>1. Wire!TypeOK'
    BY <1>8 DEF Wire!Misread, Wire!Close, Wire!TypeOK, ReaderInv
  <2> QED
    BY <1>2, <1>3, <1>8, <2>1 DEF Wire!Misread, Wire!Close
<1>9. CASE Wire!Poll
  <2>1. Wire!TypeOK'
    BY <1>1, <1>2, <1>9 DEF Wire!Poll, Wire!NextPart, Wire!TypeOK, ReaderInv
  <2> QED
    BY <1>2, <1>3, <1>9, <2>1 DEF Wire!Poll, Wire!NextPart
<1>10. CASE UNCHANGED Wire!vars
  BY <1>10 DEF Wire!vars, Wire!TypeOK, ReaderInv, FramesRise
<1> QED
  BY <1>4, <1>5, <1>6, <1>7, <1>8, <1>9, <1>10 DEF Wire!Next

\* What has arrived, been taken and been returned keep their types, for a reader that
\* asks and for one that catches the timeout (_recv_exact, crypto.py:46-55).
THEOREM FrameTypes == FramesFit => (Wire!Spec => []Wire!TypeOK)
<1> SUFFICES ASSUME FramesFit PROVE Wire!Spec => []Wire!TypeOK
  OBVIOUS
<1>1. ReaderInv => Wire!TypeOK
  BY DEF ReaderInv
<1> QED
  BY <1>1, ReaderStart, ReaderStep, PTL DEF Wire!Spec

\* Also a reader that loses the rest of a frame to its timeout, as the sender may
\* (transfer.py:1179), returns no frame twice and none before an earlier one: what it
\* drops may cost it the session, but repeats nothing.
THEOREM FramesAreNotRepeated == FramesFit => (Wire!Spec => []FramesRise)
<1> SUFFICES ASSUME FramesFit PROVE Wire!Spec => []FramesRise
  OBVIOUS
<1>1. ReaderInv => FramesRise
  BY DEF ReaderInv
<1> QED
  BY <1>1, ReaderStart, ReaderStep, PTL DEF Wire!Spec

=============================================================================
