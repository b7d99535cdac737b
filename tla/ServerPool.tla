----------------------------- MODULE ServerPool -----------------------------
(***************************************************************************)
(* The receiver as a service (FileServer in core/transfer.py): the thread  *)
(* that binds, accepts and starts a session thread per connection, the     *)
(* session slots, the set of connections, the requests the sessions leave  *)
(* in the inbox, and the thread that shuts everything down by snapshots of *)
(* what it finds.  What a session does with a file is TransferSession.     *)
(***************************************************************************)
EXTENDS Naturals, FiniteSets

CONSTANTS
  Conns,        \* connections that peers may open, one transfer each
  MaxSessions,  \* MAX_CONCURRENT_TRANSFER_SESSIONS
  MaxFaults     \* bound: bind, accept, thread starts and frames that fail

ASSUME PoolAssumption ==
  /\ IsFiniteSet(Conns) /\ Conns # {}
  /\ MaxSessions \in Nat \ {0}
  /\ MaxFaults \in Nat

NoConn == "none"
ASSUME NoConnAssumption == NoConn \notin Conns

VARIABLES
  lpc,         \* where the accept loop is
  cur,         \* the connection it has in hand
  running,     \* the _running event
  listening,   \* is the server socket open?
  slots,       \* free slots of _session_slots
  session,     \* where each session thread is
  registered,  \* _connections and _handlers
  entry,       \* the inbox entry of each connection's transfer
  orphaned,    \* history: sessions that ended without deciding their request
  woken,       \* connections that shutdown has closed
  dpc,         \* where the thread is that shuts down
  todo,        \* the rest of the snapshot it works through
  faults       \* bound

listenerVars == <<lpc, cur, listening>>
sessionVars == <<session, registered, entry, orphaned>>
downVars == <<running, woken, dpc, todo>>
vars == <<listenerVars, slots, sessionVars, downVars, faults>>

Reading == {"hello", "await", "content"}
Running == Reading \cup {"offered"}

\* A session thread holds a slot from its acquisition to its release.  The
\* slot of a thread that could not be started is never released.
Holding == Running \cup {"taken", "stranded", "leaving", "unlisted"}

\* The accept loop is over; "crashed" by an exception nothing catches.
Over == {"ended", "failed", "crashed"}

TypeOK ==
  /\ lpc \in {"starting", "loop", "accept", "got", "taken", "start"} \cup Over
  /\ cur \in Conns \cup {NoConn}
  /\ running \in BOOLEAN /\ listening \in BOOLEAN
  /\ slots \in 0..MaxSessions
  /\ session \in [Conns -> Holding \cup {"remote", "refused", "closed"}]
  /\ registered \in SUBSET Conns
  /\ entry \in [Conns -> {"none", "pending", "accepted", "declined"}]
  /\ orphaned \in SUBSET Conns
  /\ woken \in SUBSET Conns
  /\ dpc \in {"up", "stop", "cancel", "close", "wake", "down"}
  /\ todo \in SUBSET Conns
  /\ faults \in 0..MaxFaults

Init ==
  /\ lpc = "starting" /\ cur = NoConn /\ listening = FALSE
  /\ running = TRUE /\ slots = MaxSessions
  /\ session = [c \in Conns |-> "remote"]
  /\ registered = {} /\ entry = [c \in Conns |-> "none"] /\ orphaned = {}
  /\ woken = {} /\ dpc = "up" /\ todo = {} /\ faults = 0

Fault == faults < MaxFaults /\ faults' = faults + 1

-----------------------------------------------------------------------------
(* The accept loop *)

Bind ==
  /\ lpc = "starting"
  /\ lpc' = "loop" /\ listening' = TRUE
  /\ UNCHANGED <<cur, slots, sessionVars, downVars, faults>>

BindFails ==
  /\ lpc = "starting" /\ Fault
  /\ lpc' = "failed"
  /\ UNCHANGED <<cur, listening, slots, sessionVars, downVars>>

\* while self._running.is_set(); the loop closes its socket when it ends.
LoopCheck ==
  /\ lpc = "loop"
  /\ lpc' = IF running THEN "accept" ELSE "ended"
  /\ listening' = (listening /\ running)
  /\ UNCHANGED <<cur, slots, sessionVars, downVars, faults>>

Accept ==
  /\ lpc = "accept" /\ listening
  /\ \E c \in Conns : session[c] = "remote" /\ cur' = c
  /\ lpc' = "got"
  /\ UNCHANGED <<listening, slots, sessionVars, downVars, faults>>

AcceptTimeout ==
  /\ lpc = "accept" /\ listening
  /\ lpc' = "loop"
  /\ UNCHANGED <<cur, listening, slots, sessionVars, downVars, faults>>

\* accept raises on the closed socket, or because the system is out of
\* descriptors: either way the loop is over.
AcceptRaises ==
  /\ lpc = "accept"
  /\ IF listening THEN Fault ELSE faults' = faults
  /\ lpc' = "ended" /\ listening' = FALSE
  /\ UNCHANGED <<cur, slots, sessionVars, downVars>>

\* No slot is free: the connection is closed at once.
Refuse ==
  /\ lpc = "got" /\ slots = 0
  /\ session' = [session EXCEPT ![cur] = "refused"]
  /\ lpc' = "loop" /\ cur' = NoConn
  /\ UNCHANGED <<listening, slots, registered, entry, orphaned, downVars,
                 faults>>

\* Mutant of TakeSlot: the slot is looked at but not taken.
TakeSlotPeek ==
  /\ lpc = "got" /\ slots > 0
  /\ session' = [session EXCEPT ![cur] = "taken"]
  /\ lpc' = "taken"
  /\ UNCHANGED <<cur, listening, slots, registered, entry, orphaned,
                 downVars, faults>>

TakeSlot ==
  /\ lpc = "got" /\ slots > 0
  /\ slots' = slots - 1
  /\ session' = [session EXCEPT ![cur] = "taken"]
  /\ lpc' = "taken"
  /\ UNCHANGED <<cur, listening, registered, entry, orphaned, downVars,
                 faults>>

\* The connection joins the set from which shutdown takes its snapshot.
Register ==
  /\ lpc = "taken"
  /\ registered' = registered \cup {cur}
  /\ lpc' = "start"
  /\ UNCHANGED <<cur, listening, slots, session, entry, orphaned, downVars,
                 faults>>

Start ==
  /\ lpc = "start"
  /\ session' = [session EXCEPT ![cur] = "hello"]
  /\ lpc' = "loop" /\ cur' = NoConn
  /\ UNCHANGED <<listening, slots, registered, entry, orphaned, downVars,
                 faults>>

\* No thread can be started: RuntimeError, which the loop does not catch.
StartFails ==
  /\ lpc = "start" /\ Fault
  /\ session' = [session EXCEPT ![cur] = "stranded"]
  /\ lpc' = "crashed" /\ cur' = NoConn
  /\ UNCHANGED <<listening, slots, registered, entry, orphaned, downVars>>

ListenerStep ==
  \/ Bind \/ LoopCheck \/ Accept \/ AcceptTimeout \/ AcceptRaises
  \/ Refuse \/ TakeSlot \/ Register \/ Start

-----------------------------------------------------------------------------
(* A session thread *)

Goto(c, pc) == session' = [session EXCEPT ![c] = pc]

\* Handshake and offer have been read.
Receive(c) ==
  /\ session[c] = "hello" /\ c \notin woken
  /\ Goto(c, "offered")
  /\ UNCHANGED <<listenerVars, slots, registered, entry, orphaned, downVars,
                 faults>>

Publish(c) ==
  /\ session[c] = "offered"
  /\ entry' = [entry EXCEPT ![c] = "pending"]
  /\ Goto(c, "await")
  /\ UNCHANGED <<listenerVars, slots, registered, orphaned, downVars, faults>>

\* Decisions act on pending requests only.
Decide(c, status) ==
  entry' = [entry EXCEPT ![c] = IF @ = "pending" THEN status ELSE @]

Expire(c) ==
  /\ session[c] = "await" /\ entry[c] = "pending"
  /\ Decide(c, "declined")
  /\ UNCHANGED <<listenerVars, slots, session, registered, orphaned,
                 downVars, faults>>

\* The answer cannot be sent on a connection that shutdown has closed.
Answer(c) ==
  /\ session[c] = "await" /\ entry[c] # "pending"
  /\ Goto(c, IF entry[c] = "accepted" /\ c \notin woken THEN "content" ELSE "leaving")
  /\ UNCHANGED <<listenerVars, slots, registered, entry, orphaned, downVars,
                 faults>>

\* Mutant of PeerLeaves: the session forgets its request.
PeerLeavesUntold(c) ==
  /\ session[c] = "await"
  /\ Goto(c, "leaving")
  /\ UNCHANGED <<listenerVars, slots, registered, entry, orphaned, downVars,
                 faults>>

\* The read of the approval wait fails: the request is cancelled.
PeerLeaves(c) ==
  /\ session[c] = "await"
  /\ Decide(c, "declined")
  /\ Goto(c, "leaving")
  /\ UNCHANGED <<listenerVars, slots, registered, orphaned, downVars, faults>>

\* The wait ends without a decision: a frame that cannot be decrypted or parsed
\* is no OSError, nor is select on a connection that shutdown has closed.
Abandon(c) ==
  /\ session[c] = "await"
  /\ IF c \in woken THEN faults' = faults ELSE Fault
  /\ orphaned' = orphaned \cup {c}
  /\ Goto(c, "leaving")
  /\ UNCHANGED <<listenerVars, slots, registered, entry, downVars>>

\* Mutant of Finish: a session of a closed connection skips its cleanup.
FinishAbruptly(c) ==
  /\ session[c] \in {"hello", "content"}
  /\ Goto(c, IF c \in woken THEN "closed" ELSE "leaving")
  /\ UNCHANGED <<listenerVars, slots, registered, entry, orphaned, downVars,
                 faults>>

\* A pairing is done, the transfer is over, the peer is gone, a timeout has
\* passed, the connection is closed: the session ends.
Finish(c) ==
  /\ session[c] \in {"hello", "content"}
  /\ Goto(c, "leaving")
  /\ UNCHANGED <<listenerVars, slots, registered, entry, orphaned, downVars,
                 faults>>

Unlist(c) ==
  /\ session[c] = "leaving"
  /\ registered' = registered \ {c}
  /\ Goto(c, "unlisted")
  /\ UNCHANGED <<listenerVars, slots, entry, orphaned, downVars, faults>>

Release(c) ==
  /\ session[c] = "unlisted"
  /\ slots' = slots + 1
  /\ Goto(c, "closed")
  /\ UNCHANGED <<listenerVars, registered, entry, orphaned, downVars, faults>>

SessionStep(c) ==
  \/ Receive(c) \/ Publish(c) \/ Expire(c) \/ Answer(c) \/ PeerLeaves(c)
  \/ Abandon(c) \/ Finish(c) \/ Unlist(c) \/ Release(c)

UserDecides(c) ==
  /\ entry[c] = "pending"
  /\ \E status \in {"accepted", "declined"} : Decide(c, status)
  /\ UNCHANGED <<listenerVars, slots, session, registered, orphaned,
                 downVars, faults>>

-----------------------------------------------------------------------------
(* shutdown *)

Shutdown ==
  /\ dpc = "up"
  /\ running' = FALSE /\ dpc' = "stop"
  /\ UNCHANGED <<listenerVars, slots, sessionVars, woken, todo, faults>>

\* cancel_all: the pending requests first, then one after another.
SnapshotRequests ==
  /\ dpc = "stop"
  /\ todo' = {c \in Conns : entry[c] = "pending"}
  /\ dpc' = "cancel"
  /\ UNCHANGED <<listenerVars, slots, sessionVars, running, woken, faults>>

CancelRequest ==
  /\ dpc = "cancel"
  /\ \E c \in todo : todo' = todo \ {c} /\ Decide(c, "declined")
  /\ UNCHANGED <<listenerVars, slots, session, registered, orphaned, running,
                 woken, dpc, faults>>

CloseListener ==
  /\ dpc = "cancel" /\ todo = {}
  /\ listening' = FALSE /\ dpc' = "close"
  /\ UNCHANGED <<lpc, cur, slots, sessionVars, running, woken, todo, faults>>

SnapshotConnections ==
  /\ dpc = "close"
  /\ todo' = registered /\ dpc' = "wake"
  /\ UNCHANGED <<listenerVars, slots, sessionVars, running, woken, faults>>

Wake ==
  /\ dpc = "wake"
  /\ \E c \in todo : todo' = todo \ {c} /\ woken' = woken \cup {c}
  /\ UNCHANGED <<listenerVars, slots, sessionVars, running, dpc, faults>>

\* Mutant of Return: the deadline cuts off the closing, not the joins.
ReturnEarly ==
  /\ dpc = "wake"
  /\ todo' = {} /\ dpc' = "down"
  /\ UNCHANGED <<listenerVars, slots, sessionVars, running, woken, faults>>

\* The handlers are joined for one second at most.
Return ==
  /\ dpc = "wake" /\ todo = {}
  /\ dpc' = "down"
  /\ UNCHANGED <<listenerVars, slots, sessionVars, running, woken, todo,
                 faults>>

ShutdownStep ==
  \/ SnapshotRequests \/ CancelRequest \/ CloseListener
  \/ SnapshotConnections \/ Wake \/ Return

-----------------------------------------------------------------------------
Ended(c) == session[c] \in {"remote", "refused", "closed", "stranded"}

Settled == dpc = "down" /\ lpc \in Over /\ \A c \in Conns : Ended(c)

Next ==
  \/ ListenerStep \/ BindFails \/ StartFails
  \/ \E c \in Conns : SessionStep(c) \/ UserDecides(c)
  \/ Shutdown \/ ShutdownStep
  \/ Settled /\ UNCHANGED vars

\* The accept loop, the sessions and the thread that shuts down are threads
\* whose every wait ends: accept after a second, a read with a frame, the
\* peer's close or a timeout, the approval wait at its deadline.  Nobody is
\* assumed to shut down or to decide.
Fairness ==
  /\ WF_vars(ListenerStep)
  /\ \A c \in Conns : WF_vars(SessionStep(c))
  /\ WF_vars(ShutdownStep)

Spec == Init /\ [][Next]_vars
FairSpec == Spec /\ Fairness

-----------------------------------------------------------------------------
(* Properties *)

\* Every slot is either free or held by one connection, on each path of the
\* accept loop and of the sessions: none is lost and none is returned twice.
SlotsConserved ==
  slots + Cardinality({c \in Conns : session[c] \in Holding}) = MaxSessions

\* Every request the user sees as pending has a session that waits for the
\* answer, unless that session was cut off by an unreadable frame or, after
\* shutdown, by the close of its connection.
PendingIsAttended ==
  \A c \in Conns :
    entry[c] = "pending" => session[c] = "await" \/ c \in orphaned

\* Sessions whose connection shutdown has left open, or is about to.
Escaped == {c \in Conns : session[c] \in Running \cup {"taken"} /\ c \notin woken}

\* Once shutdown has returned, at most one session runs on untouched: that of
\* the connection the accept loop had in hand when the snapshot was taken.
AtMostOneEscapes == dpc = "down" => \A c, d \in Escaped : c = d

\* Stated by transfer.py:367, "Stop accepting and wake bounded active/pending
\* session workers": once shutdown has returned, no session thread is running
\* on a connection it has not closed.
AllSessionsWoken == dpc = "down" => {c \in Escaped : session[c] \in Running} = {}

\* After a shutdown the accept loop and all sessions end, and every slot but
\* those of threads that never started is free again.
ShutdownCompletes ==
  ~running ~> /\ lpc \in Over
              /\ \A c \in Conns : Ended(c)
              /\ registered = {c \in Conns : session[c] = "stranded"}
=============================================================================
