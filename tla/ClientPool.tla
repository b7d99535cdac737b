----------------------------- MODULE ClientPool -----------------------------
(***************************************************************************)
(* The threads that send (FileClient in core/transfer.py): admission of a  *)
(* batch, the registers of its event, its thread and its socket, cancel,   *)
(* and shutdown.  What a worker says on its connection is in               *)
(* TransferSession.  send_batch, cancel_transfer and shutdown are called   *)
(* on the thread of the user interface; any number of workers run beside.  *)
(***************************************************************************)
EXTENDS Naturals, FiniteSets

CONSTANTS
  Sends,    \* batches the user sends
  Slots,    \* MAX_CONCURRENT_TRANSFER_SESSIONS
  Retries,  \* MAX_RETRIES
  MaxFails  \* bound: threads that cannot be started

ASSUME ClientAssumption ==
  IsFiniteSet(Sends) /\ Slots \in Nat \ {0} /\ Retries \in Nat /\ MaxFails \in Nat

VARIABLES
  ui,       \* where the thread of the user interface is
  fails,    \* bound
  free,     \* _worker_slots
  pc,       \* where each worker is
  attempt,  \* of each worker
  told,     \* workers whose cancel event is set
  events,   \* _cancel_events
  workers,  \* _workers
  sockets,  \* _sockets
  closed,   \* sockets that shutdown has closed
  seen      \* what shutdown has found in the registers: workers and sockets

uiVars == <<ui, fails, seen>>
workerVars == <<pc, attempt>>
registers == <<events, workers, sockets>>
clientVars == <<uiVars, free, workerVars, told, registers, closed>>

Working == {"prepare", "check", "open", "session", "wait", "leave", "release"}

ClientTypeOK ==
  /\ ui \in {"up", "signal", "close", "join", "down"}
  /\ fails \in 0..MaxFails /\ free \in 0..Slots
  /\ pc \in [Sends -> {"none", "refused", "ended"} \cup Working]
  /\ attempt \in [Sends -> 0..Retries]
  /\ told \subseteq Sends /\ events \subseteq Sends /\ workers \subseteq Sends
  /\ sockets \subseteq Sends /\ closed \subseteq sockets
  /\ seen \in [events : SUBSET Sends, sockets : SUBSET Sends, workers : SUBSET Sends]

NothingSeen == [events |-> {}, sockets |-> {}, workers |-> {}]

ClientInit ==
  /\ ui = "up" /\ fails = 0 /\ free = Slots
  /\ pc = [w \in Sends |-> "none"] /\ attempt = [w \in Sends |-> 0]
  /\ told = {} /\ events = {} /\ workers = {} /\ sockets = {} /\ closed = {}
  /\ seen = NothingSeen

WorkerAt(w, place) == pc' = [pc EXCEPT ![w] = place]

-----------------------------------------------------------------------------
(* The user interface *)

\* send_batch takes a slot, and registers the event and the thread.
SendBatch(w) ==
  /\ ui = "up" /\ pc[w] = "none" /\ free > 0
  /\ free' = free - 1 /\ events' = events \cup {w} /\ workers' = workers \cup {w}
  /\ WorkerAt(w, "prepare")
  /\ UNCHANGED <<uiVars, attempt, told, sockets, closed>>

\* A thread that cannot be started leaves everything as it was.
FreeAfterFailure == free

\* No slot is free, or the thread does not start: the caller gets an error.
RefuseBatch(w) ==
  /\ ui = "up" /\ pc[w] = "none" /\ WorkerAt(w, "refused")
  /\ \/ free = 0 /\ UNCHANGED <<fails, free>>
     \/ free > 0 /\ fails < MaxFails /\ fails' = fails + 1 /\ free' = FreeAfterFailure
  /\ UNCHANGED <<ui, seen, attempt, told, registers, closed>>

Cancel(w) ==
  /\ ui = "up" /\ w \in events /\ told' = told \cup {w}
  /\ UNCHANGED <<uiVars, free, workerVars, registers, closed>>

\* Mutant of SeenNow: the transfers that have a connection.
SeenConnected == [events |-> sockets, sockets |-> sockets, workers |-> workers]

SeenNow == [events |-> events, sockets |-> sockets, workers |-> workers]

\* shutdown takes one look at the registers, and works through what it saw.
ClientShutdown ==
  /\ ui = "up" /\ ui' = "signal" /\ seen' = SeenNow
  /\ UNCHANGED <<fails, free, workerVars, told, registers, closed>>

Signal ==
  /\ ui = "signal"
  /\ IF seen.events = {} THEN ui' = "close" /\ UNCHANGED <<told, seen>>
     ELSE \E w \in seen.events :
            /\ told' = told \cup {w} /\ seen' = [seen EXCEPT !.events = @ \ {w}]
            /\ UNCHANGED ui
  /\ UNCHANGED <<fails, free, workerVars, registers, closed>>

\* A socket that its worker has closed meanwhile is closed twice.
CloseNext ==
  /\ ui = "close"
  /\ IF seen.sockets = {} THEN ui' = "join" /\ UNCHANGED <<closed, seen>>
     ELSE \E w \in seen.sockets :
            /\ closed' = closed \cup ({w} \cap sockets)
            /\ seen' = [seen EXCEPT !.sockets = @ \ {w}]
            /\ UNCHANGED ui
  /\ UNCHANGED <<fails, free, workerVars, told, registers>>

\* The workers it saw have ended, or the second is over.
Join ==
  /\ ui = "join" /\ ui' = "down"
  /\ UNCHANGED <<fails, seen, free, workerVars, told, registers, closed>>

-----------------------------------------------------------------------------
(* A worker *)

\* Nothing to send, too much of it, or a file that cannot be read ends the worker.
Prepare(w) ==
  /\ pc[w] = "prepare" /\ (WorkerAt(w, "check") \/ WorkerAt(w, "leave"))
  /\ UNCHANGED <<uiVars, free, attempt, told, registers, closed>>

\* Only the first attempt looks at the event here; the others have waited for it.
Check(w) ==
  /\ pc[w] = "check" /\ WorkerAt(w, IF w \in told THEN "leave" ELSE "open")
  /\ UNCHANGED <<uiVars, free, attempt, told, registers, closed>>

Open(w) ==
  /\ pc[w] = "open" /\ WorkerAt(w, "session") /\ sockets' = sockets \cup {w}
  /\ UNCHANGED <<uiVars, free, attempt, told, events, workers, closed>>

SocketsAfter(w, again) == sockets \ {w}

\* The session ends, or never begins, in a way that may be tried again, or for
\* good.
EndSession(w, again) ==
  /\ pc[w] \in {"open", "session"} /\ (again => attempt[w] < Retries)
  /\ WorkerAt(w, IF again THEN "wait" ELSE "leave")
  /\ sockets' = SocketsAfter(w, again) /\ closed' = closed \ {w}
  /\ UNCHANGED <<uiVars, free, attempt, told, events, workers>>

\* Mutant of AfterWait: the event does not end the wait.
AfterWaitBlocked(w) == IF w \in told THEN "wait" ELSE "open"

AfterWait(w) == IF w \in told THEN "leave" ELSE "open"

Wait(w) ==
  /\ pc[w] = "wait" /\ WorkerAt(w, AfterWait(w))
  /\ attempt' = [attempt EXCEPT ![w] = IF w \in told THEN @ ELSE @ + 1]
  /\ UNCHANGED <<uiVars, free, told, registers, closed>>

\* The finally clause of the worker, in two steps.
Leave(w) ==
  /\ pc[w] = "leave" /\ WorkerAt(w, "release")
  /\ events' = events \ {w} /\ workers' = workers \ {w}
  /\ UNCHANGED <<uiVars, free, attempt, told, sockets, closed>>

ReturnSlot(w) ==
  /\ pc[w] = "release" /\ WorkerAt(w, "ended") /\ free' = free + 1
  /\ UNCHANGED <<uiVars, attempt, told, registers, closed>>

Work(w) ==
  \/ Prepare(w) \/ Check(w) \/ Open(w) \/ Wait(w) \/ Leave(w) \/ ReturnSlot(w)
  \/ \E again \in BOOLEAN : EndSession(w, again)

UIStep == Signal \/ CloseNext \/ Join

ClientNext ==
  \/ \E w \in Sends : SendBatch(w) \/ RefuseBatch(w) \/ Cancel(w) \/ Work(w)
  \/ ClientShutdown \/ UIStep

ClientSpec == ClientInit /\ [][ClientNext]_clientVars

\* Every thread runs on; a session ends by one of its timeouts if by nothing else.
FairClientSpec == ClientSpec /\ WF_clientVars(UIStep) /\ \A w \in Sends : WF_clientVars(Work(w))

-----------------------------------------------------------------------------
(* Properties *)

\* Whoever is at work when shutdown has told the workers has been told: no worker
\* begins unseen (shutdown).
WorkersAreTold ==
  ui \in {"close", "join", "down"} =>
    \A w \in Sends : pc[w] \in Working \ {"leave", "release"} => w \in told

\* Every worker ends and returns its slot.
WorkersFinish == \A w \in Sends : pc[w] \in Working ~> pc[w] = "ended"

\* transfer.py:1432 says of the end of the program: "Stop accepting, cancel
\* outgoing workers, and close active sockets".
SocketsAreClosed ==
  ui = "down" => \A w \in Sends : pc[w] = "session" => w \in closed

=============================================================================
