----------------------------- MODULE PoolProofs -----------------------------
(***************************************************************************)
(* The two pools of threads, for any number of connections, batches, slots *)
(* and faults.  Of the receiver (ServerPool): its slots are conserved,     *)
(* pending requests are attended to, and shutdown leaves at most one       *)
(* session alone.  Of the sender (ClientPool): its slots are conserved,    *)
(* and shutdown tells every worker.  Of both: how many steps a thread has  *)
(* left, so that everything ends if only the threads run on.               *)
(***************************************************************************)
EXTENDS ServerPool, ClientPool, FiniteSetTheorems, TLAPS

\* The connection the accept loop has in hand: not yet a session ("got"), or a
\* session that has its slot but no thread.
InHandOK ==
  /\ lpc = "got" => cur \in Conns /\ session[cur] = "remote"
  /\ lpc \in {"taken", "start"} => cur \in Conns /\ session[cur] = "taken"
  /\ \A c \in Conns :
       session[c] = "taken" => lpc \in {"taken", "start"} /\ c = cur

\* A session that runs is in the set shutdown takes its snapshot from, and a
\* connection that has not been accepted is not.
ListedOK ==
  /\ \A c \in Conns : session[c] \in Running => c \in registered
  /\ \A c \in Conns : session[c] = "remote" => c \notin registered
  /\ lpc = "start" => cur \in registered

\* Sessions that shutdown will not reach any more, with the connection in hand
\* that may still become one.
Loose ==
  {c \in Conns : (c \in Escaped \/ (lpc = "got" /\ c = cur)) /\ c \notin todo}

\* What shutdown has brought about by the pc it has come to.
ShutdownOK ==
  /\ dpc = "up" <=> running
  /\ woken # {} => ~running
  /\ dpc \in {"close", "wake", "down"} /\ lpc = "accept" => ~listening
  /\ dpc = "down" => todo = {}
  /\ dpc = "wake" => \A c \in todo : session[c] # "remote"
  /\ dpc \in {"wake", "down"} => \A c, d \in Loose : c = d

PoolInv ==
  /\ TypeOK /\ SlotsConserved /\ InHandOK /\ ListedOK
  /\ PendingIsAttended /\ ShutdownOK

Holders == {c \in Conns : session[c] \in Holding}

\* A step that moves no connection in or out of the holders, and no slot.
LEMMA SameHolders ==
  ASSUME PoolInv, slots' = slots,
         \A c \in Conns : session'[c] \in Holding <=> session[c] \in Holding
  PROVE  SlotsConserved'
<1>1. {c \in Conns : session'[c] \in Holding} = {c \in Conns : session[c] \in Holding}
  OBVIOUS
<1> QED
  BY <1>1 DEF PoolInv, SlotsConserved

\* The holders are a finite set, and slots are counted against them.
LEMMA HoldersCount ==
  ASSUME PoolInv
  PROVE  /\ IsFiniteSet(Holders)
         /\ Cardinality(Holders) \in Nat
         /\ slots + Cardinality(Holders) = MaxSessions
<1>1. Holders \subseteq Conns /\ IsFiniteSet(Conns)
  BY PoolAssumption DEF Holders
<1>2. IsFiniteSet(Holders)
  BY <1>1, FS_Subset
<1> QED
  BY <1>2, FS_CardinalityType DEF PoolInv, SlotsConserved, Holders

\* The accept loop takes a slot for the connection in hand.
LEMMA TakeSlotCount ==
  ASSUME PoolInv, TakeSlot
  PROVE  SlotsConserved' /\ slots' \in 0..MaxSessions
<1>1. cur \in Conns /\ cur \notin Holders
  BY DEF TakeSlot, PoolInv, InHandOK, Holders, Holding, Running, Reading
<1>2. Holders' = Holders \cup {cur}
  BY <1>1 DEF TakeSlot, Holders, Holding, PoolInv, TypeOK
<1>3. Cardinality(Holders') = Cardinality(Holders) + 1
  BY <1>1, <1>2, HoldersCount, FS_AddElement
<1>4. slots' + Cardinality(Holders') = MaxSessions /\ slots' \in 0..MaxSessions
  BY <1>3, HoldersCount, PoolAssumption DEF TakeSlot, PoolInv, TypeOK
<1> QED
  BY <1>4 DEF SlotsConserved, Holders

\* A session returns its slot.
LEMMA ReleaseCount ==
  ASSUME PoolInv, NEW c \in Conns, Release(c)
  PROVE  SlotsConserved' /\ slots' \in 0..MaxSessions
<1>1. c \in Holders
  BY DEF Release, Holders, Holding
<1>2. Holders' = Holders \ {c}
  BY DEF Release, Goto, Holders, Holding, Running, Reading, PoolInv, TypeOK
<1>3. Cardinality(Holders') = Cardinality(Holders) - 1
  BY <1>1, <1>2, HoldersCount, FS_RemoveElement
<1>4. Cardinality(Holders) >= 1
  BY <1>1, HoldersCount, FS_EmptySet
<1>5. slots' + Cardinality(Holders') = MaxSessions /\ slots' \in 0..MaxSessions
  BY <1>3, <1>4, HoldersCount, PoolAssumption DEF Release, PoolInv, TypeOK
<1> QED
  BY <1>5 DEF SlotsConserved, Holders

\* The accept loop.
LEMMA ListenerInv ==
  ASSUME PoolInv, ListenerStep \/ BindFails \/ StartFails
  PROVE  PoolInv'
<1> USE NoConnAssumption
<1>1. CASE Bind \/ BindFails \/ LoopCheck \/ AcceptTimeout \/ AcceptRaises
  <2> USE DEF Bind, BindFails, LoopCheck, AcceptTimeout, AcceptRaises
  <2>1. TypeOK'
    <3>1. faults' \in 0..MaxFaults
      BY <1>1, PoolAssumption DEF PoolInv, TypeOK, Fault
    <3>2. listening' \in BOOLEAN
      BY <1>1 DEF PoolInv, TypeOK
    <3>3. lpc' \in {"starting", "loop", "accept", "got", "taken", "start"} \cup Over
      BY <1>1 DEF PoolInv, TypeOK, Over
    <3> QED
      BY <1>1, <3>1, <3>2, <3>3 DEF PoolInv, TypeOK, sessionVars, downVars
  <2>2. SlotsConserved'
    BY <1>1, SameHolders DEF Bind, BindFails, LoopCheck, AcceptTimeout,
       AcceptRaises, sessionVars
  <2>3. InHandOK' /\ ListedOK' /\ PendingIsAttended'
    BY <1>1 DEF PoolInv, InHandOK, ListedOK, PendingIsAttended, Bind, BindFails,
       LoopCheck, AcceptTimeout, AcceptRaises, sessionVars, downVars
  <2>4. ShutdownOK'
    BY <1>1 DEF PoolInv, ShutdownOK, Loose, Escaped, Bind, BindFails,
       LoopCheck, AcceptTimeout, AcceptRaises, sessionVars, downVars
  <2> QED
    BY <2>1, <2>2, <2>3, <2>4 DEF PoolInv
<1>2. CASE Accept
  <2>1. TypeOK'
    BY <1>2 DEF PoolInv, TypeOK, Accept, sessionVars, downVars
  <2>2. SlotsConserved'
    BY <1>2, SameHolders DEF Accept, sessionVars
  <2>3. InHandOK' /\ ListedOK' /\ PendingIsAttended'
    BY <1>2 DEF PoolInv, InHandOK, ListedOK, PendingIsAttended, Accept,
       sessionVars, downVars
  <2>4. dpc \notin {"close", "wake", "down"}
    BY <1>2 DEF PoolInv, ShutdownOK, Accept
  <2>5. ShutdownOK'
    BY <1>2, <2>4 DEF PoolInv, ShutdownOK, Accept, downVars
  <2> QED
    BY <2>1, <2>2, <2>3, <2>5 DEF PoolInv
<1>3. CASE Refuse
  <2>1. TypeOK'
    BY <1>3 DEF PoolInv, TypeOK, Refuse, downVars
  <2>2. SlotsConserved'
    BY <1>3, SameHolders DEF Refuse, PoolInv, TypeOK, InHandOK, Holding, Running,
       Reading
  <2>3. InHandOK' /\ ListedOK' /\ PendingIsAttended'
    BY <1>3 DEF PoolInv, TypeOK, InHandOK, ListedOK, PendingIsAttended, Refuse,
       Running, Reading, downVars
  <2>4. ShutdownOK'
    BY <1>3 DEF PoolInv, TypeOK, ShutdownOK, Loose, Escaped, Refuse, Running,
       Reading, downVars
  <2> QED
    BY <2>1, <2>2, <2>3, <2>4 DEF PoolInv
<1>4. CASE TakeSlot
  <2>1. TypeOK'
    BY <1>4, TakeSlotCount DEF PoolInv, TypeOK, Holding, TakeSlot, downVars
  <2>2. SlotsConserved'
    BY <1>4, TakeSlotCount
  <2>3. InHandOK' /\ ListedOK' /\ PendingIsAttended'
    BY <1>4 DEF PoolInv, TypeOK, InHandOK, ListedOK, PendingIsAttended, TakeSlot,
       Running, Reading, downVars
  <2>4. Loose' \subseteq Loose
    BY <1>4 DEF PoolInv, TypeOK, InHandOK, Loose, Escaped, TakeSlot, Running,
       Reading, downVars
  <2>5. ShutdownOK'
    BY <1>4, <2>4 DEF PoolInv, ShutdownOK, TakeSlot, downVars
  <2> QED
    BY <2>1, <2>2, <2>3, <2>5 DEF PoolInv
<1>5. CASE Register
  <2>1. TypeOK'
    BY <1>5 DEF PoolInv, TypeOK, InHandOK, Register, downVars
  <2>2. SlotsConserved'
    BY <1>5, SameHolders DEF Register
  <2>3. InHandOK' /\ ListedOK' /\ PendingIsAttended'
    BY <1>5 DEF PoolInv, InHandOK, ListedOK, PendingIsAttended, Register, downVars
  <2>4. ShutdownOK'
    BY <1>5 DEF PoolInv, ShutdownOK, Loose, Escaped, Register, downVars
  <2> QED
    BY <2>1, <2>2, <2>3, <2>4 DEF PoolInv
<1>6. CASE Start \/ StartFails
  <2>1. TypeOK'
    <3>1. faults' \in 0..MaxFaults
      BY <1>6, PoolAssumption DEF PoolInv, TypeOK, Start, StartFails, Fault
    <3>2. /\ session' \in [Conns -> Holding \cup {"remote", "refused", "closed"}]
          /\ lpc' \in {"loop"} \cup Over
          /\ cur' = NoConn
          /\ UNCHANGED <<listening, slots, registered, entry, orphaned, downVars>>
      BY <1>6 DEF PoolInv, TypeOK, Start, StartFails, Holding, Running, Reading, Over
    <3> QED
      BY <3>1, <3>2 DEF PoolInv, TypeOK, downVars
  <2>2. SlotsConserved'
    BY <1>6, SameHolders DEF Start, StartFails, PoolInv, TypeOK, InHandOK,
       Holding, Running, Reading
  <2>3. InHandOK' /\ ListedOK' /\ PendingIsAttended'
    BY <1>6 DEF PoolInv, TypeOK, InHandOK, ListedOK, PendingIsAttended, Start,
       StartFails, Running, Reading, downVars
  <2>4. Loose' \subseteq Loose
    BY <1>6 DEF PoolInv, TypeOK, InHandOK, Loose, Escaped, Start, StartFails,
       Running, Reading, downVars
  <2>5. \A c \in Conns : session'[c] = "remote" => session[c] = "remote"
    BY <1>6 DEF PoolInv, TypeOK, Start, StartFails
  <2>6. todo \subseteq Conns
    BY DEF PoolInv, TypeOK
  <2>7. ShutdownOK'
    BY <1>6, <2>4, <2>5, <2>6 DEF PoolInv, ShutdownOK, Start, StartFails, downVars
  <2> QED
    BY <2>1, <2>2, <2>3, <2>7 DEF PoolInv
<1> QED
  BY <1>1, <1>2, <1>3, <1>4, <1>5, <1>6 DEF ListenerStep

\* The sessions and the user's decisions.
LEMMA SessionInv ==
  ASSUME PoolInv, NEW c \in Conns, SessionStep(c) \/ UserDecides(c)
  PROVE  PoolInv'
<1>1. CASE Release(c)
  <2>1. TypeOK'
    BY <1>1, ReleaseCount DEF PoolInv, TypeOK, Release, Goto, listenerVars, downVars
  <2>2. SlotsConserved'
    BY <1>1, ReleaseCount
  <2>3. InHandOK' /\ ListedOK' /\ PendingIsAttended'
    BY <1>1 DEF PoolInv, TypeOK, InHandOK, ListedOK, PendingIsAttended, Release,
       Goto, Running, Reading, listenerVars, downVars
  <2>4. ShutdownOK'
    BY <1>1 DEF PoolInv, TypeOK, ShutdownOK, Loose, Escaped, Release, Goto,
       Running, Reading, listenerVars, downVars
  <2> QED
    BY <2>1, <2>2, <2>3, <2>4 DEF PoolInv
<1>2. ASSUME ~Release(c)
      PROVE  PoolInv'
  <2> USE DEF Receive, Publish, Expire, Answer, PeerLeaves, Abandon, Finish,
          Unlist, UserDecides, Decide, Goto
  <2>1. Receive(c) \/ Publish(c) \/ Expire(c) \/ Answer(c) \/ PeerLeaves(c)
          \/ Abandon(c) \/ Finish(c) \/ Unlist(c) \/ UserDecides(c)
    BY <1>2 DEF SessionStep
  <2>2. UNCHANGED <<lpc, cur, listening, slots, running, woken, dpc, todo>>
    BY <2>1 DEF listenerVars, downVars
  <2>3. /\ session' \in [Conns -> Holding \cup {"remote", "refused", "closed"}]
        /\ \A d \in Conns : d # c => session'[d] = session[d]
        /\ session'[c] = session[c]
             \/ /\ session[c] \in Running \cup {"leaving"}
                /\ session'[c] \in Running \cup {"leaving", "unlisted"}
        /\ session'[c] \in Running => session[c] \in Running \/ session'[c] = session[c]
    BY <2>1 DEF PoolInv, TypeOK, Holding, Running, Reading
  <2>4. /\ entry' \in [Conns -> {"none", "pending", "accepted", "declined"}]
        /\ \A d \in Conns : d # c => entry'[d] = entry[d]
        /\ registered' \in SUBSET Conns
        /\ \A d \in Conns : d # c => (d \in registered' <=> d \in registered)
        /\ session[c] \in {"taken", "remote"} \/ session'[c] \in Running
             => (c \in registered' <=> c \in registered)
    BY <2>1 DEF PoolInv, TypeOK, Running, Reading
  <2>5. /\ entry'[c] = "pending" => session'[c] = "await" \/ c \in orphaned'
        /\ orphaned \subseteq orphaned' /\ orphaned' \in SUBSET Conns
        /\ faults' \in 0..MaxFaults
    BY <2>1, PoolAssumption DEF PoolInv, TypeOK, PendingIsAttended, Fault
  <2>6. TypeOK'
    BY <2>2, <2>3, <2>4, <2>5 DEF PoolInv, TypeOK
  <2>7. SlotsConserved'
    BY <2>2, <2>3, SameHolders DEF Holding
  <2>8. InHandOK' /\ PendingIsAttended'
    BY <2>2, <2>3, <2>4, <2>5 DEF PoolInv, InHandOK, PendingIsAttended, Running,
       Reading
  <2>9. ListedOK'
    <3>1. lpc = "start" => cur \in Conns /\ session[cur] = "taken"
      BY DEF PoolInv, InHandOK
    <3>2. session'[c] = "remote" => session[c] = "remote"
      BY <2>3 DEF Running, Reading
    <3> QED
      BY <2>2, <2>3, <2>4, <3>1, <3>2 DEF PoolInv, ListedOK
  <2>10. Loose' \subseteq Loose
    BY <2>2, <2>3 DEF Loose, Escaped, Running, Reading
  <2>11. ShutdownOK'
    <3>1. \A d \in Conns : session'[d] = "remote" => session[d] = "remote"
      BY <2>3 DEF Running, Reading
    <3> QED
      BY <2>2, <2>10, <3>1 DEF PoolInv, ShutdownOK, TypeOK
  <2> QED
    BY <2>6, <2>7, <2>8, <2>9, <2>11 DEF PoolInv
<1> QED
  BY <1>1, <1>2

\* Shutdown.
LEMMA ShutdownInv ==
  ASSUME PoolInv, Shutdown \/ ShutdownStep
  PROVE  PoolInv'
<1> USE DEF Shutdown, SnapshotRequests, CancelRequest, CloseListener,
        SnapshotConnections, Wake, Return, Decide
<1>1. Shutdown \/ SnapshotRequests \/ CancelRequest \/ CloseListener
        \/ SnapshotConnections \/ Wake \/ Return
  BY DEF ShutdownStep
<1>2. UNCHANGED <<lpc, cur, slots, session, registered, orphaned, faults>>
  BY <1>1 DEF listenerVars, sessionVars
<1>3. /\ entry' \in [Conns -> {"none", "pending", "accepted", "declined"}]
      /\ \A c \in Conns : entry'[c] = "pending" => entry[c] = "pending"
  BY <1>1 DEF PoolInv, TypeOK, sessionVars
<1>4. TypeOK'
  <2>1. /\ dpc' \in {"up", "stop", "cancel", "close", "wake", "down"}
        /\ running' \in BOOLEAN /\ listening' \in BOOLEAN
    BY <1>1 DEF PoolInv, TypeOK, listenerVars
  <2>2. todo' \in SUBSET Conns /\ woken' \in SUBSET Conns
    BY <1>1 DEF PoolInv, TypeOK
  <2> QED
    BY <1>2, <1>3, <2>1, <2>2 DEF PoolInv, TypeOK
<1>5. SlotsConserved'
  BY <1>2, SameHolders
<1>6. InHandOK' /\ ListedOK'
  BY <1>2 DEF PoolInv, InHandOK, ListedOK
<1>7. ~running'
  BY <1>1 DEF PoolInv, ShutdownOK
<1>8. ShutdownOK'
  <2>1. dpc' # "up"
    BY <1>1
  <2>2. dpc' \in {"close", "wake", "down"} /\ lpc' = "accept" => ~listening'
    BY <1>1 DEF PoolInv, ShutdownOK, listenerVars
  <2>3. dpc' = "down" => todo' = {}
    BY <1>1
  <2>4. CASE SnapshotConnections
    <3>1. \A c \in Conns : session[c] \in Running => c \in registered
      BY DEF PoolInv, ListedOK
    <3>2. \A c \in Loose' : c = cur
      BY <2>4, <3>1, <1>2 DEF PoolInv, InHandOK, Loose, Escaped
    <3>3. \A c \in todo' : session'[c] # "remote"
      BY <2>4, <1>2 DEF PoolInv, TypeOK, ListedOK
    <3> QED
      BY <1>7, <2>1, <2>2, <2>3, <3>2, <3>3 DEF ShutdownOK
  <2>5. CASE Wake \/ Return
    <3>1. Loose' \subseteq Loose
      BY <2>5, <1>2 DEF PoolInv, InHandOK, ShutdownOK, Loose, Escaped
    <3>2. dpc = "wake"
      BY <2>5
    <3> QED
      BY <1>2, <1>7, <2>1, <2>2, <2>3, <2>5, <3>1, <3>2 DEF PoolInv, ShutdownOK
  <2>6. CASE Shutdown \/ SnapshotRequests \/ CancelRequest \/ CloseListener
    <3>1. dpc' \notin {"wake", "down"}
      BY <2>6 DEF PoolInv, ShutdownOK
    <3> QED
      BY <1>7, <2>1, <2>2, <2>3, <3>1 DEF ShutdownOK
  <2> QED
    BY <1>1, <2>4, <2>5, <2>6
<1> QED
  BY <1>2, <1>3, <1>4, <1>5, <1>6, <1>8 DEF PoolInv, PendingIsAttended

LEMMA PoolStep == PoolInv /\ [Next]_vars => PoolInv'
<1> SUFFICES ASSUME PoolInv, [Next]_vars PROVE PoolInv'
  OBVIOUS
<1>1. CASE UNCHANGED vars
  <2>1. SlotsConserved'
    BY <1>1, SameHolders DEF vars, sessionVars
  <2> QED
    BY <1>1, <2>1 DEF vars, listenerVars, sessionVars, downVars, PoolInv, TypeOK,
       InHandOK, ListedOK, PendingIsAttended, ShutdownOK, Loose, Escaped
<1> QED
  BY <1>1, ListenerInv, SessionInv, ShutdownInv DEF Next

THEOREM PoolInvariant == Spec => []PoolInv
<1>1. Init => PoolInv
  <2> SUFFICES ASSUME Init PROVE PoolInv
    OBVIOUS
  <2>1. {c \in Conns : session[c] \in Holding} = {}
    BY DEF Init, Holding, Running, Reading
  <2>2. SlotsConserved
    BY <2>1, FS_EmptySet, PoolAssumption DEF Init, SlotsConserved
  <2>3. TypeOK
    <3>1. slots \in 0..MaxSessions /\ faults \in 0..MaxFaults
      BY PoolAssumption DEF Init
    <3>2. running \in BOOLEAN /\ listening \in BOOLEAN
      BY DEF Init
    <3> QED
      BY <3>1, <3>2 DEF Init, TypeOK
  <2>4. InHandOK /\ ListedOK /\ PendingIsAttended
    BY DEF Init, InHandOK, ListedOK, PendingIsAttended, Running, Reading
  <2>5. ShutdownOK
    BY DEF Init, ShutdownOK
  <2> QED
    BY <2>2, <2>3, <2>4, <2>5 DEF PoolInv
<1> QED
  BY <1>1, PoolStep, PTL DEF Spec

\* The types of the accept loop, the sessions and shutdown.
THEOREM PoolTypes == Spec => []TypeOK
<1>1. PoolInv => TypeOK
  BY DEF PoolInv
<1> QED
  BY <1>1, PoolInvariant, PTL

\* Slots are neither lost nor returned twice (_session_slots, transfer.py:270-399).
THEOREM SlotsAreConserved == Spec => []SlotsConserved
<1>1. PoolInv => SlotsConserved
  BY DEF PoolInv
<1> QED
  BY <1>1, PoolInvariant, PTL

\* A pending request has a session that waits (_await_incoming_decision,
\* transfer.py:485-513).
THEOREM RequestsAreAttended == Spec => []PendingIsAttended
<1>1. PoolInv => PendingIsAttended
  BY DEF PoolInv
<1> QED
  BY <1>1, PoolInvariant, PTL

\* shutdown's snapshot (transfer.py:374-379) misses one session at most.
THEOREM OneEscapesAtMost == Spec => []AtMostOneEscapes
<1>1. PoolInv => AtMostOneEscapes
  BY DEF PoolInv, ShutdownOK, AtMostOneEscapes, Loose, Escaped
<1> QED
  BY <1>1, PoolInvariant, PTL
-----------------------------------------------------------------------------
(* The receiver runs down.  The counts below are raised by no step, and a step  *)
(* of the thread a count belongs to lowers it, so that a session ends after     *)
(* nine steps of its own, and, once the program shuts down, so do the accept    *)
(* loop and shutdown after a bounded number.                                    *)

SessionSteps ==
  [remote |-> 9, taken |-> 8, hello |-> 7, offered |-> 6, await |-> 4, content |-> 3,
   leaving |-> 2, unlisted |-> 1, closed |-> 0, refused |-> 0, stranded |-> 0]

\* A session that waits for its request has one step more while that is pending.
SessionLeft(c) ==
  SessionSteps[session[c]] + (IF entry[c] = "pending" THEN 1 ELSE 0)

SessionsRunDown ==
  \A c \in Conns :
    /\ SessionLeft(c) \in Nat /\ SessionLeft(c)' \in Nat
    /\ SessionLeft(c)' <= SessionLeft(c)
    /\ SessionStep(c) => SessionLeft(c)' < SessionLeft(c)

LoopSteps ==
  [starting |-> 7, accept |-> 6, got |-> 5, taken |-> 4, start |-> 3, loop |-> 1,
   ended |-> 0, failed |-> 0, crashed |-> 0]

LoopRunsDown ==
  ~running =>
    /\ ~running' /\ LoopSteps[lpc] \in Nat /\ LoopSteps[lpc'] \in Nat
    /\ LoopSteps[lpc'] <= LoopSteps[lpc]
    /\ ListenerStep => LoopSteps[lpc'] < LoopSteps[lpc]

\* The stages of shutdown, and what is left of the snapshot of the stage.
DownLeft ==
  CASE dpc = "up" -> 2 * Cardinality(Conns) + 6
    [] dpc = "stop" -> 2 * Cardinality(Conns) + 5
    [] dpc = "cancel" -> Cardinality(Conns) + 4 + Cardinality(todo)
    [] dpc = "close" -> Cardinality(Conns) + 3
    [] dpc = "wake" -> 2 + Cardinality(todo)
    [] dpc = "down" -> 0

DownRunsDown ==
  /\ DownLeft \in Nat /\ DownLeft' \in Nat /\ DownLeft' <= DownLeft
  /\ Shutdown \/ ShutdownStep => DownLeft' < DownLeft

\* No request comes back and no session begins again: each way through
\* _receive_session leads to the finally clause of _session_worker
\* (transfer.py:392-483).
THEOREM SessionsEndInTime == Spec => [][SessionsRunDown]_vars
<1>1. ASSUME PoolInv, Next PROVE SessionsRunDown
  <2>1. /\ session \in [Conns -> Holding \cup {"remote", "refused", "closed"}]
        /\ session' \in [Conns -> Holding \cup {"remote", "refused", "closed"}]
        /\ entry \in [Conns -> {"none", "pending", "accepted", "declined"}]
        /\ entry' \in [Conns -> {"none", "pending", "accepted", "declined"}]
    BY <1>1, PoolStep DEF PoolInv, TypeOK
  <2>2. ASSUME NEW c \in Conns PROVE SessionLeft(c) \in Nat /\ SessionLeft(c)' \in Nat
    BY <2>1 DEF SessionLeft, SessionSteps, Holding, Running, Reading
  <2>3. ASSUME NEW c \in Conns, session'[c] = session[c],
               entry'[c] = entry[c] \/ entry'[c] # "pending"
        PROVE  SessionLeft(c)' <= SessionLeft(c)
    <3>1. SessionSteps[session'[c]] = SessionSteps[session[c]]
          /\ SessionSteps[session[c]] \in Nat
      BY <2>1, <2>3 DEF SessionSteps, Holding, Running, Reading
    <3> QED
      BY <2>3, <3>1 DEF SessionLeft
  <2>4. ASSUME NEW c \in Conns, SessionStep(c)
        PROVE  /\ SessionLeft(c)' < SessionLeft(c)
               /\ \A d \in Conns \ {c} : session'[d] = session[d] /\ entry'[d] = entry[d]
    <3> USE <2>1 DEF Goto, Decide, SessionLeft, SessionSteps
    <3>1. CASE Receive(c) \/ Publish(c) \/ Expire(c)
      BY <3>1 DEF Receive, Publish, Expire
    <3>2. CASE Answer(c) \/ PeerLeaves(c) \/ Abandon(c)
      BY <3>2 DEF Answer, PeerLeaves, Abandon
    <3>3. CASE Finish(c) \/ Unlist(c) \/ Release(c)
      BY <3>3 DEF Finish, Unlist, Release
    <3> QED
      BY <2>4, <3>1, <3>2, <3>3 DEF SessionStep
  <2>5. ASSUME ListenerStep \/ BindFails \/ StartFails, NEW c \in Conns
        PROVE  SessionLeft(c)' <= SessionLeft(c)
    <3>1. CASE session' = session
      BY <2>3, <2>5, <3>1 DEF ListenerStep, Bind, LoopCheck, Accept, AcceptTimeout,
         AcceptRaises, Refuse, TakeSlot, Register, Start, BindFails, StartFails,
         sessionVars
    <3>2. CASE Refuse \/ TakeSlot \/ Start \/ StartFails
      <4>1. /\ entry' = entry /\ cur \in Conns
            /\ \/ session[cur] = "remote" /\ session' = [session EXCEPT ![cur] = "refused"]
               \/ session[cur] = "remote" /\ session' = [session EXCEPT ![cur] = "taken"]
               \/ session[cur] = "taken" /\ session' = [session EXCEPT ![cur] = "hello"]
               \/ session[cur] = "taken" /\ session' = [session EXCEPT ![cur] = "stranded"]
        BY <1>1, <3>2 DEF PoolInv, InHandOK, Refuse, TakeSlot, Start, StartFails
      <4>2. CASE c = cur
        BY <2>1, <2>2, <4>1, <4>2 DEF SessionLeft, SessionSteps
      <4>3. CASE c # cur
        BY <2>1, <2>3, <4>1, <4>3
      <4> QED
        BY <4>2, <4>3
    <3> QED
      BY <2>5, <3>1, <3>2 DEF ListenerStep, Bind, LoopCheck, Accept, AcceptTimeout,
         AcceptRaises, Register, BindFails, sessionVars
  <2>6. ASSUME \/ \E d \in Conns : UserDecides(d)
               \/ Shutdown \/ ShutdownStep \/ UNCHANGED vars,
               NEW c \in Conns
        PROVE  SessionLeft(c)' <= SessionLeft(c)
    <3>1. session' = session /\ (entry'[c] = entry[c] \/ entry'[c] # "pending")
      BY <2>1, <2>6 DEF UserDecides, Decide, Shutdown, ShutdownStep, SnapshotRequests,
         CancelRequest, CloseListener, SnapshotConnections, Wake, Return, sessionVars,
         vars
    <3> QED
      BY <2>3, <3>1
  <2>7. ASSUME NEW c \in Conns PROVE SessionLeft(c)' <= SessionLeft(c)
    <3>1. ASSUME NEW d \in Conns, SessionStep(d) PROVE SessionLeft(c)' <= SessionLeft(c)
      <4>1. CASE c = d
        BY <2>2, <2>4, <3>1, <4>1
      <4>2. CASE c # d
        BY <2>3, <2>4, <3>1, <4>2
      <4> QED
        BY <4>1, <4>2
    <3> QED
      BY <1>1, <2>5, <2>6, <3>1 DEF Next
  <2> QED
    BY <2>2, <2>4, <2>7 DEF SessionsRunDown
<1> QED
  BY <1>1, PoolInvariant, PTL DEF Spec

\* Once _running is cleared, the accept loop goes on for six steps at most: the
\* connection it has in hand, and no other (run, transfer.py:271-297).
THEOREM LoopEndsInTime == Spec => [][LoopRunsDown]_vars
<1>1. ASSUME PoolInv, Next PROVE LoopRunsDown
  <2>1. /\ lpc \in {"starting", "loop", "accept", "got", "taken", "start"} \cup Over
        /\ lpc' \in {"starting", "loop", "accept", "got", "taken", "start"} \cup Over
    BY <1>1, PoolStep DEF PoolInv, TypeOK
  <2>2. LoopSteps[lpc] \in Nat /\ LoopSteps[lpc'] \in Nat
    BY <2>1 DEF LoopSteps, Over
  <2>3. CASE ListenerStep
    <3> USE DEF LoopRunsDown, LoopSteps
    <3>1. CASE Bind \/ LoopCheck \/ Accept \/ AcceptTimeout \/ AcceptRaises
      BY <3>1 DEF Bind, LoopCheck, Accept, AcceptTimeout, AcceptRaises, downVars
    <3>2. CASE Refuse \/ TakeSlot \/ Register \/ Start
      BY <3>2 DEF Refuse, TakeSlot, Register, Start, downVars
    <3> QED
      BY <2>3, <3>1, <3>2 DEF ListenerStep
  <2>4. CASE BindFails \/ StartFails
    <3>1. /\ running' = running /\ lpc \in {"starting", "start"}
          /\ lpc' \in {"failed", "crashed"}
      BY <2>4 DEF BindFails, StartFails, downVars
    <3> QED
      BY <3>1 DEF LoopRunsDown, LoopSteps
  <2>5. ASSUME ~ListenerStep, ~BindFails, ~StartFails PROVE LoopRunsDown
    <3>1. lpc' = lpc /\ (~running => ~running')
      BY <1>1, <2>5 DEF Next, SessionStep, Receive, Publish, Expire, Answer, PeerLeaves,
         Abandon, Finish, Unlist, Release, UserDecides, Shutdown, ShutdownStep,
         SnapshotRequests, CancelRequest, CloseListener, SnapshotConnections, Wake,
         Return, vars, listenerVars, downVars
    <3> QED
      BY <2>2, <2>5, <3>1 DEF LoopRunsDown
  <2> QED
    BY <2>3, <2>4, <2>5
<1> QED
  BY <1>1, PoolInvariant, PTL DEF Spec

\* shutdown works through two snapshots, to which nothing is added while it does
\* (transfer.py:366-390, cancel_all at inbox.py:172-182).
THEOREM DownEndsInTime == Spec => [][DownRunsDown]_vars
<1>1. ASSUME PoolInv, Next PROVE DownRunsDown
  <2>1. /\ todo \in SUBSET Conns /\ todo' \in SUBSET Conns /\ registered \in SUBSET Conns
        /\ dpc \in {"up", "stop", "cancel", "close", "wake", "down"}
        /\ dpc' \in {"up", "stop", "cancel", "close", "wake", "down"}
    BY <1>1, PoolStep DEF PoolInv, TypeOK
  <2>2. ASSUME NEW S \in SUBSET Conns
        PROVE  /\ Cardinality(S) \in Nat /\ Cardinality(S) <= Cardinality(Conns)
               /\ \A c \in S : Cardinality(S \ {c}) = Cardinality(S) - 1
    BY PoolAssumption, FS_Subset, FS_CardinalityType, FS_RemoveElement
  <2>3. /\ Cardinality(Conns) \in Nat
        /\ Cardinality(todo) \in Nat /\ Cardinality(todo) <= Cardinality(Conns)
        /\ Cardinality(todo') \in Nat /\ Cardinality(todo') <= Cardinality(Conns)
    BY <2>1, <2>2, FS_CardinalityType, PoolAssumption
  <2>4. DownLeft \in Nat /\ DownLeft' \in Nat
    BY <2>1, <2>3 DEF DownLeft
  <2>5. CASE Shutdown \/ SnapshotRequests \/ CloseListener \/ SnapshotConnections \/ Return
    <3>1. \/ dpc = "up" /\ dpc' = "stop"
          \/ dpc = "stop" /\ dpc' = "cancel"
          \/ dpc = "cancel" /\ dpc' = "close"
          \/ dpc = "close" /\ dpc' = "wake"
          \/ dpc = "wake" /\ dpc' = "down"
      BY <2>5 DEF Shutdown, SnapshotRequests, CloseListener, SnapshotConnections, Return
    <3> QED
      BY <2>3, <2>4, <3>1 DEF DownLeft, DownRunsDown
  <2>6. CASE CancelRequest \/ Wake
    <3>1. PICK c \in todo : todo' = todo \ {c}
      BY <2>6 DEF CancelRequest, Wake
    <3>2. dpc' = dpc /\ dpc \in {"cancel", "wake"}
      BY <2>6 DEF CancelRequest, Wake
    <3>3. Cardinality(todo') = Cardinality(todo) - 1
      BY <2>1, <2>2, <3>1
    <3> QED
      BY <2>3, <2>4, <3>2, <3>3 DEF DownLeft, DownRunsDown
  <2>7. ASSUME ~Shutdown, ~ShutdownStep PROVE DownRunsDown
    <3>1. dpc' = dpc /\ todo' = todo
      BY <1>1, <2>7 DEF Next, ListenerStep, Bind, LoopCheck, Accept, AcceptTimeout,
         AcceptRaises, Refuse, TakeSlot, Register, Start, BindFails, StartFails,
         SessionStep, Receive, Publish, Expire, Answer, PeerLeaves,
         Abandon, Finish, Unlist, Release, UserDecides, vars, downVars
    <3>2. DownLeft' = DownLeft
      BY <3>1 DEF DownLeft
    <3> QED
      BY <2>4, <2>7, <3>2 DEF DownRunsDown
  <2> QED
    BY <2>5, <2>6, <2>7 DEF ShutdownStep
<1> QED
  BY <1>1, PoolInvariant, PTL DEF Spec

-----------------------------------------------------------------------------
(* The sender's workers *)

\* A worker that may still send something.
AtWork(w) == pc[w] \in {"prepare", "check", "open", "session", "wait"}

\* A worker at work has an event for shutdown to find, and shutdown has told it
\* unless it is still on the list: send_batch comes from the thread that shuts
\* down, so nobody joins after the look at the registers.
ToldInv ==
  /\ pc \in [Sends -> {"none", "refused", "ended"} \cup Working]
  /\ seen \in [events : SUBSET Sends, sockets : SUBSET Sends, workers : SUBSET Sends]
  /\ events \in SUBSET Sends /\ workers \in SUBSET Sends /\ sockets \in SUBSET Sends
  /\ ui \in {"up", "signal", "close", "join", "down"}
  /\ \A w \in Sends : AtWork(w) =>
       /\ w \in events
       /\ ui = "signal" => w \in told \cup seen.events
       /\ ui \in {"close", "join", "down"} => w \in told

LEMMA ToldStep == ToldInv /\ [ClientNext]_(clientVars) => ToldInv'
<1> SUFFICES ASSUME ToldInv, [ClientNext]_(clientVars) PROVE ToldInv'
  OBVIOUS
<1> USE DEF ToldInv, AtWork, Working
<1>1. ASSUME NEW w \in Sends, SendBatch(w)
      PROVE  ToldInv'
  BY <1>1 DEF SendBatch, WorkerAt, uiVars
<1>2. ASSUME NEW w \in Sends, RefuseBatch(w) \/ Cancel(w)
      PROVE  ToldInv'
  BY <1>2 DEF RefuseBatch, Cancel, WorkerAt, uiVars,
     workerVars, registers
<1>3. ASSUME NEW w \in Sends, Work(w)
      PROVE  ToldInv'
  <2>1. CASE Prepare(w) \/ Check(w) \/ Wait(w)
    BY <2>1 DEF Prepare, Check, Wait, AfterWait,
       WorkerAt, uiVars, registers
  <2>2. CASE Open(w) \/ \E again \in BOOLEAN : EndSession(w, again)
    BY <2>2 DEF Open, EndSession, SocketsAfter, WorkerAt,
       uiVars
  <2>3. CASE Leave(w) \/ ReturnSlot(w)
    BY <2>3 DEF Leave, ReturnSlot, WorkerAt, uiVars,
       registers
  <2> QED
    BY <1>3, <2>1, <2>2, <2>3 DEF Work
<1>4. CASE ClientShutdown
  BY <1>4 DEF ClientShutdown, SeenNow, workerVars, registers
<1>5. CASE UIStep
  <2>1. CASE Signal
    BY <2>1 DEF Signal, workerVars, registers
  <2>2. CASE CloseNext
    BY <2>2 DEF CloseNext, workerVars, registers
  <2>3. CASE Join
    BY <2>3 DEF Join, workerVars, registers
  <2> QED
    BY <1>5, <2>1, <2>2, <2>3 DEF UIStep
<1>6. CASE UNCHANGED clientVars
  BY <1>6 DEF clientVars, uiVars, workerVars, registers
<1> QED
  BY <1>1, <1>2, <1>3, <1>4, <1>5, <1>6 DEF ClientNext

\* When shutdown has told the workers, whoever is still at work has been told: no
\* worker begins unseen, although shutdown works through what it saw in one look.
THEOREM EveryWorkerIsTold == ClientSpec => []WorkersAreTold
<1>1. ClientInit => ToldInv
  BY DEF ClientInit, NothingSeen, ToldInv, AtWork
<1>2. ToldInv => WorkersAreTold
  BY DEF ToldInv, AtWork, WorkersAreTold, Working
<1> QED
  BY <1>1, <1>2, ToldStep, PTL DEF ClientSpec

\* The slots of the sender: free, or taken by a worker until its last step.
Employed == {w \in Sends : pc[w] \in Working}

WorkersCounted ==
  /\ pc \in [Sends -> {"none", "refused", "ended"} \cup Working]
  /\ free \in Nat /\ free + Cardinality(Employed) = Slots

LEMMA EmployedCount ==
         /\ IsFiniteSet(Employed) /\ IsFiniteSet(Employed')
         /\ Cardinality(Employed) \in Nat /\ Cardinality(Employed') \in Nat
         /\ \A w : w \notin Employed /\ Employed' = Employed \cup {w} =>
              Cardinality(Employed') = Cardinality(Employed) + 1
         /\ \A w : w \in Employed /\ Employed' = Employed \ {w} =>
              Cardinality(Employed') = Cardinality(Employed) - 1
<1>1. IsFiniteSet(Employed) /\ IsFiniteSet(Employed')
  <2>1. Employed \subseteq Sends /\ Employed' \subseteq Sends
    BY DEF Employed
  <2> QED
    BY <2>1, FS_Subset, ClientAssumption
<1> QED
  BY <1>1, FS_CardinalityType, FS_AddElement, FS_RemoveElement

LEMMA WorkersCountedStep ==
  ASSUME WorkersCounted, [ClientNext]_(clientVars)
  PROVE  WorkersCounted'
<1> USE DEF WorkersCounted
<1>1. ASSUME NEW w \in Sends, SendBatch(w) PROVE WorkersCounted'
  <2>1. w \notin Employed /\ Employed' = Employed \cup {w}
    BY <1>1 DEF SendBatch, WorkerAt, Working, Employed
  <2>2. pc' \in [Sends -> {"none", "refused", "ended"} \cup Working]
    BY <1>1 DEF SendBatch, WorkerAt, Working
  <2>3. Cardinality(Employed') = Cardinality(Employed) + 1
    BY <2>1, EmployedCount
  <2>4. free > 0 /\ free' = free - 1
    BY <1>1 DEF SendBatch
  <2> QED
    BY <2>2, <2>3, <2>4, EmployedCount
<1>2. ASSUME NEW w \in Sends, ReturnSlot(w) PROVE WorkersCounted'
  <2>1. w \in Employed /\ Employed' = Employed \ {w}
    BY <1>2 DEF ReturnSlot, WorkerAt, Working, Employed
  <2>2. pc' \in [Sends -> {"none", "refused", "ended"} \cup Working]
    BY <1>2 DEF ReturnSlot, WorkerAt, Working
  <2>3. Cardinality(Employed') = Cardinality(Employed) - 1
    BY <2>1, EmployedCount
  <2>4. free' = free + 1
    BY <1>2 DEF ReturnSlot
  <2> QED
    BY <2>2, <2>3, <2>4, EmployedCount
<1>3. ASSUME free' = free, Employed' = Employed,
             pc' \in [Sends -> {"none", "refused", "ended"} \cup Working]
      PROVE  WorkersCounted'
  BY <1>3
<1>4. ASSUME NEW w \in Sends, RefuseBatch(w) \/ Cancel(w) PROVE WorkersCounted'
  BY <1>3, <1>4 DEF RefuseBatch, Cancel, WorkerAt, Working, Employed,
     FreeAfterFailure, workerVars
<1>5. ASSUME NEW w \in Sends,
             Prepare(w) \/ Check(w) \/ Wait(w) \/ Leave(w)
      PROVE  WorkersCounted'
  BY <1>3, <1>5 DEF Prepare, Check, Wait, Leave,
     AfterWait, WorkerAt, Working, Employed
<1>6. ASSUME NEW w \in Sends,
             Open(w) \/ \E again \in BOOLEAN : EndSession(w, again)
      PROVE  WorkersCounted'
  BY <1>3, <1>6 DEF Open, EndSession, WorkerAt, Working, Employed
<1>7. CASE ClientShutdown \/ UIStep \/ UNCHANGED clientVars
  <2>1. free' = free /\ pc' = pc
    BY <1>7 DEF ClientShutdown, UIStep, Signal, CloseNext,
       Join, clientVars, workerVars
  <2> QED
    BY <1>3, <2>1 DEF Employed
<1> QED
  BY <1>1, <1>2, <1>4, <1>5, <1>6, <1>7 DEF ClientNext, Work

SendersCounted == free + Cardinality(Employed) = Slots

\* _worker_slots are conserved: refused batches, threads that cannot be started,
\* cancelled and failing workers and shutdown included, every slot is free or held
\* by one worker (send_batch and the finally clause of _batch_worker).
THEOREM WorkerSlotsConserved == ClientSpec => []SendersCounted
<1>1. ClientInit => WorkersCounted
  <2> SUFFICES ASSUME ClientInit PROVE WorkersCounted
    OBVIOUS
  <2>1. Employed = {}
    BY DEF ClientInit, Working, Employed
  <2> QED
    BY <2>1, FS_EmptySet, ClientAssumption DEF ClientInit, WorkersCounted
<1>2. WorkersCounted => SendersCounted
  BY DEF WorkersCounted, SendersCounted
<1> QED
  BY <1>1, <1>2, WorkersCountedStep, PTL DEF ClientSpec

\* The registers of shutdown are typed as well: FileClient keeps one event, one
\* thread and one socket per transfer, and closes no socket it has not opened.  Who
\* waits between two attempts has another one left.
ClientInv ==
  ToldInv /\ WorkersCounted
  /\ fails \in 0..MaxFails /\ attempt \in [Sends -> 0..Retries]
  /\ told \subseteq Sends /\ closed \subseteq sockets
  /\ \A w \in Sends : pc[w] = "wait" => attempt[w] < Retries

LEMMA ClientInvStep == ClientInv /\ [ClientNext]_clientVars => ClientInv'
<1> SUFFICES ASSUME ClientInv, [ClientNext]_clientVars PROVE ClientInv'
  OBVIOUS
<1>1. ToldInv' /\ WorkersCounted'
  BY ToldStep, WorkersCountedStep DEF ClientInv
<1> DEFINE Rest == /\ fails \in 0..MaxFails /\ attempt \in [Sends -> 0..Retries]
                   /\ told \subseteq Sends /\ closed \subseteq sockets
           RetryOK == \A w \in Sends : pc[w] = "wait" => attempt[w] < Retries
<1> USE ClientAssumption DEF ClientInv
<1>2. ASSUME NEW w \in Sends, SendBatch(w) \/ RefuseBatch(w) \/ Cancel(w)
      PROVE  Rest' /\ RetryOK'
  BY <1>2 DEF SendBatch, RefuseBatch, Cancel, WorkerAt, uiVars, workerVars, registers,
     ToldInv
<1>3. ASSUME NEW w \in Sends, Prepare(w) \/ Check(w) \/ Leave(w) \/ ReturnSlot(w)
      PROVE  Rest' /\ RetryOK'
  BY <1>3 DEF Prepare, Check, Leave, ReturnSlot, WorkerAt, uiVars, registers, ToldInv
<1>4. ASSUME NEW w \in Sends, Open(w) \/ \E again \in BOOLEAN : EndSession(w, again)
      PROVE  Rest' /\ RetryOK'
  BY <1>4 DEF Open, EndSession, SocketsAfter, WorkerAt, uiVars, ToldInv
<1>5. ASSUME NEW w \in Sends, Wait(w) PROVE Rest' /\ RetryOK'
  <2>1. attempt[w] < Retries /\ attempt[w] \in 0..Retries /\ Retries \in Nat
    BY <1>5 DEF Wait
  <2>2. pc' = [pc EXCEPT ![w] = AfterWait(w)] /\ AfterWait(w) # "wait"
        /\ attempt' = [attempt EXCEPT ![w] = IF w \in told THEN @ ELSE @ + 1]
        /\ UNCHANGED <<fails, told, closed, sockets>>
    BY <1>5 DEF Wait, AfterWait, WorkerAt, uiVars, registers
  <2>3. attempt' \in [Sends -> 0..Retries]
    BY <2>1, <2>2
  <2>4. \A v \in Sends : pc'[v] = "wait" => v # w /\ pc[v] = "wait" /\ attempt'[v] = attempt[v]
    BY <2>2 DEF ToldInv
  <2> QED
    BY <2>2, <2>3, <2>4
<1>6. ASSUME ClientShutdown \/ UIStep \/ UNCHANGED clientVars PROVE Rest' /\ RetryOK'
  <2>1. UNCHANGED <<fails, attempt, pc, sockets>>
    BY <1>6 DEF ClientShutdown, UIStep, Signal, CloseNext, Join, clientVars,
       uiVars, workerVars, registers
  <2>2. told' \subseteq Sends /\ closed' \subseteq sockets
    BY <1>6 DEF ClientShutdown, UIStep, Signal, CloseNext, Join, clientVars,
       uiVars, workerVars, registers, ToldInv
  <2> QED
    BY <2>1, <2>2
<1> QED
  BY <1>1, <1>2, <1>3, <1>4, <1>5, <1>6 DEF ClientNext, Work

LEMMA ClientInvariant == ClientSpec => []ClientInv
<1>1. ClientInit => ClientInv
  <2> SUFFICES ASSUME ClientInit PROVE ClientInv
    OBVIOUS
  <2>1. Employed = {}
    BY DEF ClientInit, Working, Employed
  <2> QED
    BY <2>1, FS_EmptySet, ClientAssumption
       DEF ClientInit, NothingSeen, ClientInv, ToldInv, WorkersCounted, AtWork
<1> QED
  BY <1>1, ClientInvStep, PTL DEF ClientSpec

\* The state of FileClient is of the type the module declares, whatever fails.
THEOREM ClientTypes == ClientSpec => []ClientTypeOK
<1>1. ClientInv => ClientTypeOK
  <2> SUFFICES ASSUME ClientInv PROVE ClientTypeOK
    OBVIOUS
  <2>1. free \in 0..Slots
    BY EmployedCount, ClientAssumption DEF ClientInv, WorkersCounted
  <2> QED
    BY <2>1 DEF ClientInv, ClientTypeOK, ToldInv
<1> QED
  BY <1>1, ClientInvariant, PTL

-----------------------------------------------------------------------------
(* The sender runs down.  A step count no step raises and each step of a       *)
(* thread lowers bounds how often the thread can still move: with the fairness *)
(* of FairClientSpec, every worker ends, and so does shutdown.                 *)

StepsOf ==
  [none |-> 8, prepare |-> 7, check |-> 6, open |-> 5, session |-> 4, wait |-> 3,
   leave |-> 2, release |-> 1, ended |-> 0, refused |-> 0]

\* How many steps a worker still takes at most: three for each attempt it has left.
StepsLeft(w) == StepsOf[pc[w]] + 3 * (Retries - attempt[w])

WorkersRunDown ==
  \A w \in Sends :
    /\ StepsLeft(w) \in Nat /\ StepsLeft(w)' \in Nat
    /\ StepsLeft(w)' <= StepsLeft(w)
    /\ Work(w) => StepsLeft(w)' < StepsLeft(w)

\* What shutdown has still to do: the stages, and in them what it has found.
ToDo ==
  CASE ui = "up" -> 2 * Cardinality(Sends) + 4
    [] ui = "signal" -> Cardinality(seen.events) + Cardinality(seen.sockets) + 3
    [] ui = "close" -> Cardinality(seen.sockets) + 2
    [] ui = "join" -> 1
    [] ui = "down" -> 0

ShutdownRunsDown ==
  /\ ToDo \in Nat /\ ToDo' \in Nat /\ ToDo' <= ToDo
  /\ ClientShutdown \/ UIStep => ToDo' < ToDo

\* No worker is given back a step it has taken: an attempt is made at most once for
\* each of MAX_RETRIES, and every way through the loop of _batch_worker ends in the
\* finally clause (transfer.py:898-1076).
THEOREM WorkersEndInTime == ClientSpec => [][WorkersRunDown]_clientVars
<1>1. ASSUME ClientInv, ClientNext PROVE WorkersRunDown
  <2> USE ClientAssumption
  <2>1. /\ pc \in [Sends -> {"none", "refused", "ended"} \cup Working]
        /\ attempt \in [Sends -> 0..Retries]
        /\ \A w \in Sends : pc[w] = "wait" => attempt[w] < Retries
        /\ pc' \in [Sends -> {"none", "refused", "ended"} \cup Working]
        /\ attempt' \in [Sends -> 0..Retries]
    BY <1>1, ClientInvStep DEF ClientInv, ToldInv
  <2>2. ASSUME NEW w \in Sends PROVE StepsLeft(w) \in Nat /\ StepsLeft(w)' \in Nat
    BY <2>1 DEF StepsLeft, StepsOf, Working
  <2>3. ASSUME NEW w \in Sends, pc'[w] = pc[w], attempt'[w] = attempt[w]
        PROVE  StepsLeft(w)' = StepsLeft(w)
    BY <2>3 DEF StepsLeft
  <2>4. ASSUME NEW w \in Sends, Work(w)
        PROVE  /\ StepsLeft(w)' < StepsLeft(w)
               /\ \A v \in Sends \ {w} : pc'[v] = pc[v] /\ attempt'[v] = attempt[v]
    <3>1. CASE Prepare(w) \/ Check(w) \/ Open(w) \/ Leave(w) \/ ReturnSlot(w)
      BY <3>1, <2>1 DEF Prepare, Check, Open, Leave, ReturnSlot, WorkerAt, StepsLeft,
         StepsOf
    <3>2. CASE \E again \in BOOLEAN : EndSession(w, again)
      BY <3>2, <2>1 DEF EndSession, WorkerAt, StepsLeft, StepsOf
    <3>3. CASE Wait(w)
      BY <3>3, <2>1 DEF Wait, AfterWait, WorkerAt, StepsLeft, StepsOf
    <3> QED
      BY <2>4, <3>1, <3>2, <3>3 DEF Work
  <2>5. ASSUME NEW w \in Sends, SendBatch(w) \/ RefuseBatch(w)
        PROVE  /\ StepsLeft(w)' < StepsLeft(w)
               /\ \A v \in Sends \ {w} : pc'[v] = pc[v] /\ attempt'[v] = attempt[v]
    BY <2>5, <2>1 DEF SendBatch, RefuseBatch, WorkerAt, StepsLeft, StepsOf, uiVars
  <2>6. ASSUME ClientShutdown \/ UIStep \/ \E w \in Sends : Cancel(w)
        PROVE  pc' = pc /\ attempt' = attempt
    BY <2>6 DEF ClientShutdown, UIStep, Signal, CloseNext, Join, Cancel, workerVars
  <2>7. ASSUME NEW w \in Sends PROVE StepsLeft(w)' <= StepsLeft(w)
    BY <1>1, <2>2, <2>3, <2>4, <2>5, <2>6 DEF ClientNext
  <2> QED
    BY <2>2, <2>4, <2>7 DEF WorkersRunDown
<1> QED
  BY <1>1, ClientInvariant, PTL DEF ClientSpec

\* shutdown gets through: what it has found shrinks with every step, and nobody adds
\* to it, because the registers are read once (transfer.py:846-864).
THEOREM ShutdownEndsInTime == ClientSpec => [][ShutdownRunsDown]_clientVars
<1>1. ASSUME ClientInv, ClientNext PROVE ShutdownRunsDown
  <2>1. seen \in [events : SUBSET Sends, sockets : SUBSET Sends, workers : SUBSET Sends]
        /\ seen' \in [events : SUBSET Sends, sockets : SUBSET Sends, workers : SUBSET Sends]
        /\ ui \in {"up", "signal", "close", "join", "down"}
        /\ ui' \in {"up", "signal", "close", "join", "down"}
    BY <1>1, ClientInvStep DEF ClientInv, ToldInv
  <2>2. ASSUME NEW S \in SUBSET Sends
        PROVE  /\ IsFiniteSet(S) /\ Cardinality(S) \in Nat
               /\ Cardinality(S) <= Cardinality(Sends)
               /\ \A w \in S : Cardinality(S \ {w}) = Cardinality(S) - 1
    BY ClientAssumption, FS_Subset, FS_CardinalityType, FS_RemoveElement
  <2>3. /\ Cardinality(Sends) \in Nat
        /\ Cardinality(seen.events) \in Nat /\ Cardinality(seen.sockets) \in Nat
        /\ Cardinality(seen'.events) \in Nat /\ Cardinality(seen'.sockets) \in Nat
        /\ Cardinality(seen'.events) <= Cardinality(Sends)
        /\ Cardinality(seen'.sockets) <= Cardinality(Sends)
    BY <2>1, <2>2, FS_CardinalityType, ClientAssumption
  <2>4. ToDo \in Nat /\ ToDo' \in Nat
    BY <2>1, <2>3 DEF ToDo
  <2>5. CASE ClientShutdown
    BY <2>3, <2>4, <2>5 DEF ClientShutdown, ToDo, ShutdownRunsDown
  <2>6. CASE Signal
    <3>1. CASE seen.events = {}
      <4>1. Cardinality(seen.events) = 0
        BY <3>1, FS_EmptySet
      <4> QED
        BY <2>3, <2>4, <2>6, <3>1, <4>1 DEF Signal, ToDo, ShutdownRunsDown
    <3>2. CASE seen.events # {}
      <4>1. PICK w \in seen.events : seen' = [seen EXCEPT !.events = @ \ {w}] /\ ui' = ui
        BY <2>6, <3>2 DEF Signal
      <4>2. Cardinality(seen'.events) = Cardinality(seen.events) - 1
            /\ seen'.sockets = seen.sockets
        BY <2>1, <2>2, <4>1
      <4> QED
        BY <2>3, <2>4, <2>6, <4>1, <4>2 DEF Signal, ToDo, ShutdownRunsDown
    <3> QED
      BY <3>1, <3>2
  <2>7. CASE CloseNext
    <3>1. CASE seen.sockets = {}
      <4>1. Cardinality(seen.sockets) = 0
        BY <3>1, FS_EmptySet
      <4> QED
        BY <2>3, <2>4, <2>7, <3>1, <4>1 DEF CloseNext, ToDo, ShutdownRunsDown
    <3>2. CASE seen.sockets # {}
      <4>1. PICK w \in seen.sockets : seen' = [seen EXCEPT !.sockets = @ \ {w}] /\ ui' = ui
        BY <2>7, <3>2 DEF CloseNext
      <4>2. Cardinality(seen'.sockets) = Cardinality(seen.sockets) - 1
        BY <2>1, <2>2, <4>1
      <4> QED
        BY <2>3, <2>4, <2>7, <4>1, <4>2 DEF CloseNext, ToDo, ShutdownRunsDown
    <3> QED
      BY <3>1, <3>2
  <2>8. CASE Join
    BY <2>4, <2>8 DEF Join, ToDo, ShutdownRunsDown
  <2>9. ASSUME NEW w \in Sends, SendBatch(w) \/ RefuseBatch(w) \/ Cancel(w) \/ Work(w)
        PROVE  ui' = ui /\ seen' = seen
    BY <2>9 DEF SendBatch, RefuseBatch, Cancel, Work, Prepare, Check, Open, EndSession,
       Wait, Leave, ReturnSlot, uiVars
  <2>10. ASSUME ui' = ui, seen' = seen, ~(ClientShutdown \/ UIStep)
         PROVE  ShutdownRunsDown
    <3>1. ToDo' = ToDo
      BY <2>10 DEF ToDo
    <3> QED
      BY <2>4, <2>10, <3>1 DEF ShutdownRunsDown
  <2> QED
    BY <1>1, <2>5, <2>6, <2>7, <2>8, <2>9, <2>10 DEF ClientNext, UIStep
<1> QED
  BY <1>1, ClientInvariant, PTL DEF ClientSpec


=============================================================================
