------------------------- MODULE PeerServiceProofs -------------------------
(***************************************************************************)
(* Proofs about PeerService, for any number of devices, endpoints,         *)
(* addresses, threads and transfers.  The invariant follows an endpoint    *)
(* from the moment its device proved an identity there through pairings,   *)
(* threads and the address book into the transfers.  The last section is   *)
(* about Screens, where the user decides whom to trust:                    *)
(* what a key acts on has been on the screen.                              *)
(***************************************************************************)
EXTENDS PeerService, Screens, SequenceTheorems, TLAPS

PairingsProven ==
  /\ \A d \in Devices : outbound[d] # None => Proven(d, outbound[d])
  /\ \A d \in Devices : inbound[d] # None => Proven(d, inbound[d])

\* The steps in which a thread holds an identity with the endpoint it had.
Holds == {"assess", "remember", "check", "prove", "record", "put", "cache"}

\* The steps of connect.
Connects == {"pair", "assess", "remember", "check", "prove", "record", "begin"}

ThreadProven(p) ==
  /\ thread[p].pc \in Connects \cup Holds => thread[p].endpoint \in Endpoints
  /\ thread[p].pc \in Holds =>
       thread[p].peer \in Devices /\ Proven(thread[p].peer, thread[p].endpoint)
  /\ thread[p].pc = "unlist" => thread[p].peer \in Devices
  /\ p # UI => thread[p].pc \notin {"begin", "put", "cache", "unlist"}
  /\ p = UI /\ thread[p].pc \in Connects =>
       /\ thread[p].chosen \in Devices
       /\ Proven(thread[p].chosen, thread[p].endpoint)

TransferProven(x) ==
  /\ transfer[x].pc # "none" =>
       /\ transfer[x].endpoint \in Endpoints /\ transfer[x].chosen \in Devices
       /\ Proven(transfer[x].chosen, transfer[x].endpoint)
  /\ transfer[x].pc \in {"dialed", "resolved"} =>
       /\ transfer[x].remote \in Devices
       /\ Proven(transfer[x].remote, transfer[x].endpoint)
  /\ transfer[x].pc = "resolved" => transfer[x].record \in vouched
  /\ transfer[x].reached # {} => transfer[x].pc # "none"
  /\ \A d \in transfer[x].reached :
       d \in vouched /\ Proven(d, transfer[x].endpoint)

PeersInv ==
  /\ TypeOK /\ trusted \subseteq vouched
  /\ PairingsProven /\ BookIsProven
  /\ \A p \in Threads : ThreadProven(p)
  /\ \A x \in Transfers : TransferProven(x)

-----------------------------------------------------------------------------
\* What is proven of an endpoint stays so, whoever moves.
LEMMA ProvenStays ==
  ASSUME TypeOK, [Next]_vars, NEW d, NEW e \in Endpoints, Proven(d, e)
  PROVE  Proven(d, e)'
<1>1. CASE \E f \in Endpoints : Move(f)
  BY <1>1 DEF Move, Proven, TypeOK
<1>2. CASE UNCHANGED netVars
  BY <1>2 DEF netVars, Proven
<1> QED
  BY <1>1, <1>2 DEF Next, vars, ConnectStep, Shown, StartConnect, Pair, Assess,
     Remember, Check, Prove, Record, RecordRaises, Restarted, Trust, Dismiss,
     Forget, StartSend, PairingExpires, PutEntry, CacheTrusted, Unlist, NoSlot,
     Begin, Dial, Resolve, Shake, Retry, Finish, Attempt, PeerPairs, Crash

\* A thread's step that leaves the rest of the state to a few facts.
LEMMA ThreadStep ==
  ASSUME PeersInv, [Next]_vars,
         NEW p \in Threads,
         thread' \in [Threads -> ThreadState],
         \A q \in Threads : q # p => thread'[q] = thread[q],
         ThreadProven(p)'
  PROVE  \A q \in Threads : ThreadProven(q)'
<1> SUFFICES ASSUME NEW q \in Threads, q # p PROVE ThreadProven(q)'
  OBVIOUS
<1>1. thread'[q] = thread[q] /\ ThreadProven(q)
  BY DEF PeersInv
<1>2. thread[q].endpoint \in Endpoints =>
        /\ \A d : Proven(d, thread[q].endpoint) => Proven(d, thread[q].endpoint)'
  BY ProvenStays DEF PeersInv
<1> QED
  BY <1>1, <1>2 DEF ThreadProven, Connects, Holds, Proven

\* What a step does not touch stays proven.
LEMMA Untouched ==
  ASSUME PeersInv, [Next]_vars
  PROVE  /\ UNCHANGED book => BookIsProven'
         /\ UNCHANGED <<outbound, inbound>> => PairingsProven'
         /\ UNCHANGED thread => \A p \in Threads : ThreadProven(p)'
         /\ UNCHANGED <<transfer, vouched>> =>
              \A x \in Transfers : TransferProven(x)'
<1>1. \A d, e : e \in Endpoints /\ Proven(d, e) => Proven(d, e)'
  BY ProvenStays DEF PeersInv
<1>2. UNCHANGED book => BookIsProven'
  BY <1>1 DEF PeersInv, TypeOK, Maybe, BookIsProven, Proven
<1>3. UNCHANGED <<outbound, inbound>> => PairingsProven'
  BY <1>1 DEF PeersInv, TypeOK, Maybe, PairingsProven, Proven
<1>4. UNCHANGED thread => \A p \in Threads : ThreadProven(p)'
  BY <1>1 DEF PeersInv, ThreadProven, Connects, Holds, Proven
<1>5. ASSUME UNCHANGED <<transfer, vouched>>, NEW x \in Transfers
      PROVE  TransferProven(x)'
  BY <1>1, <1>5 DEF PeersInv, TransferProven, Proven
<1> QED
  BY <1>2, <1>3, <1>4, <1>5

\* A thread that moves on, or ends, keeps the types.
Written(p) ==
  /\ thread' \in [Threads -> ThreadState]
  /\ \A q \in Threads : q # p => thread'[q] = thread[q]

LEMMA WriteThread ==
  ASSUME TypeOK, NEW p \in Threads, NEW r \in ThreadState,
         thread' = [thread EXCEPT ![p] = r]
  PROVE  Written(p) /\ thread'[p] = r
BY DEF TypeOK, Written

\* A record stays in its type when fields are set to values of theirs.
LEMMA ThreadSet ==
  ASSUME NEW t \in ThreadState
  PROVE  /\ [t EXCEPT !.pc = "record", !.proved = TRUE] \in ThreadState
         /\ \A q \in Maybe(Devices) :
              /\ [t EXCEPT !.pc = "assess", !.peer = q] \in ThreadState
              /\ [t EXCEPT !.pc = "unlist", !.peer = q] \in ThreadState
         /\ \A e \in Maybe(Endpoints) :
              [t EXCEPT !.pc = "pair", !.endpoint = e] \in ThreadState
         /\ \A k, m \in BOOLEAN :
              [t EXCEPT !.pc = "remember", !.known = k, !.changed = m]
                \in ThreadState
         /\ \A q \in Maybe(Devices), e \in Maybe(Endpoints) :
              /\ [t EXCEPT !.pc = "put", !.peer = q, !.endpoint = e]
                   \in ThreadState
              /\ [t EXCEPT !.pc = "pair", !.endpoint = e, !.chosen = q]
                   \in ThreadState
<1>1. [t EXCEPT !.pc = "record", !.proved = TRUE] \in ThreadState
  BY DEF ThreadState
<1>2. ASSUME NEW q \in Maybe(Devices)
      PROVE  /\ [t EXCEPT !.pc = "assess", !.peer = q] \in ThreadState
             /\ [t EXCEPT !.pc = "unlist", !.peer = q] \in ThreadState
  BY DEF ThreadState
<1>3. ASSUME NEW e \in Maybe(Endpoints)
      PROVE  [t EXCEPT !.pc = "pair", !.endpoint = e] \in ThreadState
  BY DEF ThreadState
<1>4. ASSUME NEW k \in BOOLEAN, NEW m \in BOOLEAN
      PROVE  [t EXCEPT !.pc = "remember", !.known = k, !.changed = m]
               \in ThreadState
  BY DEF ThreadState
<1>5. ASSUME NEW q \in Maybe(Devices), NEW e \in Maybe(Endpoints)
      PROVE  /\ [t EXCEPT !.pc = "put", !.peer = q, !.endpoint = e]
                  \in ThreadState
             /\ [t EXCEPT !.pc = "pair", !.endpoint = e, !.chosen = q]
                  \in ThreadState
  BY DEF ThreadState
<1> QED
  BY <1>1, <1>2, <1>3, <1>4, <1>5

LEMMA TransferBegins ==
  ASSUME NEW t \in TransferState, NEW e \in Maybe(Endpoints),
         NEW c \in Maybe(Devices)
  PROVE  [t EXCEPT !.pc = "ready", !.chosen = c, !.endpoint = e]
           \in TransferState
BY DEF TransferState

LEMMA ThreadTyped ==
  ASSUME TypeOK, NEW p \in Threads
  PROVE  thread[p] \in ThreadState
BY DEF TypeOK

LEMMA InMaybe ==
  /\ \A d \in Devices : d \in Maybe(Devices)
  /\ \A e \in Endpoints : e \in Maybe(Endpoints)
BY DEF Maybe

LEMMA EndWrites ==
  ASSUME TypeOK, NEW p \in Threads, End(p)
  PROVE  Written(p) /\ thread'[p] = Idle
<1>1. Idle \in ThreadState
  BY DEF Idle, ThreadState, Maybe
<1> QED
  BY <1>1, WriteThread DEF End

LEMMA GotoWrites ==
  ASSUME TypeOK, NEW p \in Threads,
         NEW pc \in {"check", "prove", "shown", "begin", "cache", "assess",
                     "record"},
         Goto(p, pc)
  PROVE  Written(p) /\ thread'[p] = [thread[p] EXCEPT !.pc = pc]
<1>1. [thread[p] EXCEPT !.pc = pc] \in ThreadState
  BY DEF ThreadState, TypeOK
<1>2. thread' = [thread EXCEPT ![p] = [thread[p] EXCEPT !.pc = pc]]
  BY DEF Goto
<1> QED
  BY <1>1, <1>2, WriteThread

\* connect.
LEMMA ConnectInv ==
  ASSUME PeersInv, Next, NEW p \in Threads,
         ConnectStep(p) \/ Shown(p) \/ \E e \in Endpoints : StartConnect(p, e) /\ p # UI
  PROVE  PeersInv'
<1>t. thread[p] \in ThreadState
  BY ThreadTyped DEF PeersInv
<1>1. CASE \/ Pair(p) \/ Check(p) \/ Prove(p) \/ Shown(p)
           \/ \E e \in Endpoints : StartConnect(p, e) /\ p # UI
  <2>1. UNCHANGED <<netVars, storeVars, cacheVars, vouched, transfer, crashed>>
    BY <1>1 DEF Pair, Check, Prove, Shown, StartConnect
  <2>2. ops' \in 0..MaxOps
    BY <1>1, PeersAssumption DEF Pair, Check, Prove, Shown, StartConnect, Operate,
       PeersInv, TypeOK
  <2>3. Written(p)
    <3>1. CASE Pair(p)
      <4>1. CASE at[thread[p].endpoint] = None
        BY <3>1, <4>1, EndWrites DEF Pair, PeersInv
      <4>2. CASE at[thread[p].endpoint] # None
        <5> DEFINE r == [thread[p] EXCEPT !.pc = "assess",
                                          !.peer = at[thread[p].endpoint]]
        <5>1. thread[p].endpoint \in Endpoints
          BY <3>1 DEF Pair, PeersInv, ThreadProven, Connects
        <5>2. at[thread[p].endpoint] \in Maybe(Devices)
          BY <5>1 DEF PeersInv, TypeOK
        <5>3. r \in ThreadState
          BY <5>2, <1>t, ThreadSet
        <5>4. thread' = [thread EXCEPT ![p] = r]
          BY <3>1, <4>2 DEF Pair
        <5> QED
          BY <5>3, <5>4, WriteThread DEF PeersInv
      <4> QED
        BY <4>1, <4>2
    <3>2. CASE Check(p)
      BY <3>2, EndWrites, GotoWrites DEF Check, PeersInv
    <3>3. CASE Prove(p)
      <4> DEFINE r == [thread[p] EXCEPT !.pc = "record", !.proved = TRUE]
      <4>1. r \in ThreadState
        BY <1>t, InMaybe, ThreadSet
      <4>2. CASE thread' = [thread EXCEPT ![p].pc = "record", ![p].proved = TRUE]
        <5>1. thread' = [thread EXCEPT ![p] = r]
          BY <4>2
        <5> QED
          BY <4>1, <5>1, WriteThread DEF PeersInv
      <4> QED
        BY <3>3, <4>2, EndWrites DEF Prove, PeersInv
    <3>4. CASE Shown(p)
      BY <3>4, EndWrites DEF Shown, PeersInv
    <3>5. ASSUME NEW e \in Endpoints, StartConnect(p, e)
          PROVE  Written(p)
      <4> DEFINE r == [thread[p] EXCEPT !.pc = "pair", !.endpoint = e]
      <4>1. r \in ThreadState
        BY <1>t, InMaybe, ThreadSet
      <4>2. thread' = [thread EXCEPT ![p] = r]
        BY <3>5 DEF StartConnect
      <4> QED
        BY <4>1, <4>2, WriteThread DEF PeersInv
    <3> QED
      BY <1>1, <3>1, <3>2, <3>3, <3>4, <3>5
  <2>5. ThreadProven(p)'
    BY <1>1, <2>1 DEF Pair, Check, Prove, Shown, StartConnect, Goto, End, Idle,
       PeersInv, TypeOK, ThreadState, ThreadProven, Connects, Holds, Proven,
       Maybe, netVars
  <2> QED
    BY <2>1, <2>2, <2>3, <2>5, ThreadStep, Untouched DEF PeersInv, TypeOK,
       netVars, storeVars, cacheVars, Written
<1>2. CASE Assess(p)
  <2>1. UNCHANGED <<netVars, storeVars, inbound, resolved, vouched, transfer, ops, crashed>>
    BY <1>2 DEF Assess
  <2>2. /\ thread[p].peer \in Devices /\ thread[p].endpoint \in Endpoints
        /\ Proven(thread[p].peer, thread[p].endpoint)
    BY <1>2 DEF Assess, PeersInv, ThreadProven, Connects, Holds
  <2>3. outbound' = [outbound EXCEPT ![thread[p].peer] = thread[p].endpoint]
    BY <1>2 DEF Assess
  <2>4. /\ outbound' \in [Devices -> Maybe(Endpoints)]
        /\ PairingsProven'
    BY <2>1, <2>2, <2>3 DEF PeersInv, TypeOK, PairingsProven, Proven, netVars, Maybe
  <2>5. PICK f \in Maybe(Devices) :
          thread' = [thread EXCEPT ![p].pc = "remember",
                       ![p].known = thread[p].peer \in trusted,
                       ![p].changed = f \notin {None, thread[p].peer}]
    BY <1>2 DEF Assess, FindEndpoint, Maybe
  <2> DEFINE r == [thread[p] EXCEPT !.pc = "remember",
                     !.known = thread[p].peer \in trusted,
                     !.changed = f \notin {None, thread[p].peer}]
  <2>6. Written(p) /\ thread'[p] = r
    <3>1. r \in ThreadState
      <4>1. (thread[p].peer \in trusted) \in BOOLEAN
            /\ (f \notin {None, thread[p].peer}) \in BOOLEAN
        OBVIOUS
      <4> QED
        BY <4>1, <1>t, ThreadSet
    <3>2. thread' = [thread EXCEPT ![p] = r]
      BY <2>5
    <3> QED
      BY <3>1, <3>2, WriteThread DEF PeersInv
  <2>7. ThreadProven(p)'
    <3>1. /\ thread'[p].pc = "remember"
          /\ thread'[p].endpoint = thread[p].endpoint
          /\ thread'[p].peer = thread[p].peer
          /\ thread'[p].chosen = thread[p].chosen
      BY <2>6 DEF PeersInv, TypeOK, ThreadState
    <3> QED
      BY <1>2, <2>1, <3>1 DEF Assess, PeersInv, ThreadProven, Connects, Holds,
         Proven, netVars
  <2> QED
    BY <2>1, <2>4, <2>6, <2>7, ThreadStep, Untouched DEF PeersInv, TypeOK, netVars,
       storeVars, Written
<1>3. CASE Remember(p)
  <2>1. UNCHANGED <<netVars, storeVars, outbound, inbound, vouched, transfer, ops, crashed>>
    BY <1>3 DEF Remember
  <2>2. /\ thread[p].peer \in Devices /\ thread[p].known \in BOOLEAN
    BY <1>3 DEF Remember, PeersInv, TypeOK, ThreadState, ThreadProven, Holds
  <2>3. resolved' \in [Ips -> [device : Maybe(Devices), trusted : BOOLEAN]]
    BY <1>3, <2>2 DEF Remember, PeersInv, TypeOK, Maybe
  <2>4. Written(p)
    BY <1>3, EndWrites, GotoWrites DEF Remember, PeersInv
  <2>5. ThreadProven(p)'
    BY <1>3, <2>1 DEF Remember, End, Goto, Idle, PeersInv, TypeOK, ThreadState,
       ThreadProven, Connects, Holds, Proven, netVars
  <2> QED
    BY <2>1, <2>3, <2>4, <2>5, ThreadStep, Untouched DEF PeersInv, TypeOK, netVars,
       storeVars, Written
<1>4. CASE Record(p)
  <2>1. UNCHANGED <<netVars, trusted, cacheVars, vouched, transfer, ops, crashed>>
    BY <1>4 DEF Record
  <2>2. /\ thread[p].peer \in Devices /\ thread[p].endpoint \in Endpoints
        /\ Proven(thread[p].peer, thread[p].endpoint)
    BY <1>4 DEF Record, PeersInv, ThreadProven, Connects, Holds
  <2>3. /\ book' \in [Devices -> Maybe(Endpoints)]
        /\ BookIsProven'
    BY <1>4, <2>1, <2>2 DEF Record, PeersInv, TypeOK, BookIsProven, Proven,
       netVars, Maybe
  <2>4. Written(p)
    BY <1>4, GotoWrites DEF Record, PeersInv
  <2>5. ThreadProven(p)'
    BY <1>4, <2>1 DEF Record, Goto, PeersInv, TypeOK, ThreadState, ThreadProven,
       Connects, Holds, Proven, netVars
  <2> QED
    BY <2>1, <2>3, <2>4, <2>5, ThreadStep, Untouched DEF PeersInv, TypeOK, netVars,
       cacheVars, Written
<1> QED
  BY <1>1, <1>2, <1>3, <1>4 DEF ConnectStep

\* trust, dismiss, forget and send.
LEMMA UserInv ==
  ASSUME PeersInv, Next,
         \/ PutEntry \/ CacheTrusted \/ Unlist
         \/ \E d \in Devices : Trust(d) \/ Dismiss(d) \/ Forget(d) \/ StartSend(d)
  PROVE  PeersInv'
<1>ui. UI \in Threads
  BY DEF Threads
<1>t. thread[UI] \in ThreadState
  BY <1>ui, ThreadTyped DEF PeersInv
<1>ops. Operate => ops' \in 0..MaxOps
  BY PeersAssumption DEF Operate, PeersInv, TypeOK
<1>1. ASSUME NEW d \in Devices, Trust(d)
      PROVE  PeersInv'
  <2> DEFINE e == IF outbound[d] # None THEN outbound[d] ELSE inbound[d]
             r == [thread[UI] EXCEPT !.pc = "put", !.peer = d, !.endpoint = e]
  <2>1. /\ UNCHANGED <<netVars, book, cacheVars, transfer, crashed>>
        /\ trusted' = trusted \cup {d} /\ vouched' = vouched \cup {d}
        /\ thread' = [thread EXCEPT ![UI] = r]
    BY <1>1 DEF Trust
  <2>2. e \in Endpoints /\ Proven(d, e)
    BY <1>1 DEF Trust, PeersInv, TypeOK, Maybe, PairingsProven
  <2>3. r \in ThreadState
    BY <2>2, <1>t, InMaybe, ThreadSet
  <2>4. Written(UI) /\ thread'[UI] = r
    BY <2>1, <2>3, <1>ui, WriteThread DEF PeersInv
  <2>5. ThreadProven(UI)'
    BY <2>1, <2>2, <2>4, <1>ui DEF PeersInv, TypeOK, ThreadState, ThreadProven,
       Connects, Holds, Proven, netVars
  <2>6. ops' \in 0..MaxOps
    BY <1>1, <1>ops DEF Trust, UserIdle
  <2>7. \A x \in Transfers : TransferProven(x)'
    BY <2>1 DEF PeersInv, TransferProven, Proven, netVars
  <2> QED
    BY <2>1, <2>4, <2>5, <2>6, <2>7, <1>ui, ThreadStep, Untouched DEF PeersInv,
       TypeOK, netVars, cacheVars, Written
<1>2. CASE PutEntry
  <2>1. UNCHANGED <<netVars, trusted, cacheVars, vouched, transfer, ops, crashed>>
    BY <1>2 DEF PutEntry
  <2>2. /\ thread[UI].peer \in Devices /\ thread[UI].endpoint \in Endpoints
        /\ Proven(thread[UI].peer, thread[UI].endpoint)
    BY <1>2, <1>ui DEF PutEntry, PeersInv, ThreadProven, Holds
  <2>3. /\ book' \in [Devices -> Maybe(Endpoints)]
        /\ BookIsProven'
    BY <1>2, <2>1, <2>2 DEF PutEntry, PeersInv, TypeOK, BookIsProven, Proven,
       netVars, Maybe
  <2>4. Written(UI) /\ thread'[UI] = [thread[UI] EXCEPT !.pc = "cache"]
    BY <1>2, <1>ui, GotoWrites DEF PutEntry, PeersInv
  <2>5. ThreadProven(UI)'
    BY <1>2, <2>1, <2>2, <2>4, <1>ui DEF PutEntry, PeersInv, TypeOK, ThreadState,
       ThreadProven, Connects, Holds, Proven, netVars
  <2> QED
    BY <2>1, <2>3, <2>4, <2>5, <1>ui, ThreadStep, Untouched DEF PeersInv, TypeOK,
       netVars, cacheVars, Written
<1>3. CASE CacheTrusted \/ Unlist
  <2>1. UNCHANGED <<netVars, trusted, outbound, vouched, transfer, ops, crashed>>
    BY <1>3 DEF CacheTrusted, Unlist, cacheVars, storeVars
  <2>2. thread[UI].peer \in Devices
    BY <1>3, <1>ui DEF CacheTrusted, Unlist, PeersInv, ThreadProven, Holds
  <2>3. Written(UI) /\ thread'[UI] = Idle
    BY <1>3, <1>ui, EndWrites DEF CacheTrusted, Unlist, PeersInv
  <2>4. ThreadProven(UI)'
    BY <2>3 DEF ThreadProven, Idle, Connects, Holds
  <2>5. book' \in [Devices -> Maybe(Endpoints)] /\ BookIsProven'
    BY <1>3, <2>1 DEF CacheTrusted, Unlist, PeersInv, TypeOK, BookIsProven,
       Proven, netVars, storeVars, Maybe
  <2>6. inbound' \in [Devices -> Maybe(Endpoints)] /\ PairingsProven'
    BY <1>3, <2>1 DEF CacheTrusted, Unlist, PeersInv, TypeOK, PairingsProven,
       Proven, netVars, cacheVars, Maybe
  <2>7. resolved' \in [Ips -> [device : Maybe(Devices), trusted : BOOLEAN]]
    <3>1. [device |-> thread[UI].peer, trusted |-> TRUE]
            \in [device : Maybe(Devices), trusted : BOOLEAN]
      BY <2>2 DEF Maybe
    <3>2. CASE CacheTrusted
      BY <3>1, <3>2 DEF CacheTrusted, PeersInv, TypeOK
    <3>3. CASE Unlist
      BY <3>3 DEF Unlist, PeersInv, TypeOK, cacheVars
    <3> QED
      BY <1>3, <3>2, <3>3
  <2> QED
    BY <2>1, <2>3, <2>4, <2>5, <2>6, <2>7, <1>ui, ThreadStep, Untouched DEF
       PeersInv, TypeOK, netVars, Written
<1>4. ASSUME NEW d \in Devices, Dismiss(d)
      PROVE  PeersInv'
  <2>1. UNCHANGED <<netVars, storeVars, outbound, resolved, vouched, thread,
                    transfer, crashed>>
    BY <1>4 DEF Dismiss
  <2>2. inbound' \in [Devices -> Maybe(Endpoints)] /\ PairingsProven'
    BY <1>4, <2>1 DEF Dismiss, PeersInv, TypeOK, PairingsProven, Proven, netVars,
       Maybe
  <2>3. ops' \in 0..MaxOps
    BY <1>4, <1>ops DEF Dismiss, UserIdle
  <2> QED
    BY <2>1, <2>2, <2>3, Untouched DEF PeersInv, TypeOK, netVars, storeVars
<1>5. ASSUME NEW d \in Devices, Forget(d)
      PROVE  PeersInv'
  <2> DEFINE r == [thread[UI] EXCEPT !.pc = "unlist", !.peer = d]
  <2>1. /\ UNCHANGED <<netVars, book, cacheVars, vouched, transfer, crashed>>
        /\ trusted' = trusted \ {d}
        /\ thread' = [thread EXCEPT ![UI] = r]
    BY <1>5 DEF Forget
  <2>2. r \in ThreadState
    <3>1. d \in Maybe(Devices)
      BY DEF Maybe
    <3> QED
      BY <3>1, <1>t, ThreadSet
  <2>3. Written(UI) /\ thread'[UI] = r
    BY <2>1, <2>2, <1>ui, WriteThread DEF PeersInv
  <2>4. ThreadProven(UI)'
    BY <2>3, <1>ui DEF PeersInv, TypeOK, ThreadState, ThreadProven, Connects, Holds
  <2>5. ops' \in 0..MaxOps
    BY <1>5, <1>ops DEF Forget, UserIdle
  <2> QED
    BY <2>1, <2>3, <2>4, <2>5, <1>ui, ThreadStep, Untouched DEF PeersInv, TypeOK,
       netVars, cacheVars, Written
<1>6. ASSUME NEW d \in Devices, StartSend(d)
      PROVE  PeersInv'
  <2> DEFINE r == [thread[UI] EXCEPT !.pc = "pair", !.endpoint = book[d],
                                     !.chosen = d]
  <2>1. /\ UNCHANGED <<netVars, storeVars, cacheVars, vouched, transfer, crashed>>
        /\ thread' = [thread EXCEPT ![UI] = r]
    BY <1>6 DEF StartSend
  <2>2. book[d] \in Endpoints /\ Proven(d, book[d])
    BY <1>6 DEF StartSend, PeersInv, TypeOK, Maybe, BookIsProven
  <2>3. r \in ThreadState
    <3>1. d \in Maybe(Devices) /\ book[d] \in Maybe(Endpoints)
      BY <2>2 DEF Maybe
    <3> QED
      BY <3>1, <1>t, ThreadSet
  <2>4. Written(UI) /\ thread'[UI] = r
    BY <2>1, <2>3, <1>ui, WriteThread DEF PeersInv
  <2>5. ThreadProven(UI)'
    BY <2>1, <2>2, <2>4, <1>ui DEF PeersInv, TypeOK, ThreadState, ThreadProven,
       Connects, Holds, Proven, netVars
  <2>6. ops' \in 0..MaxOps
    BY <1>6, <1>ops DEF StartSend, UserIdle
  <2> QED
    BY <2>1, <2>4, <2>5, <2>6, <1>ui, ThreadStep, Untouched DEF PeersInv, TypeOK,
       netVars, storeVars, cacheVars, Written
<1> QED
  BY <1>1, <1>2, <1>3, <1>4, <1>5, <1>6

\* One transfer's step leaves the others proven.
LEMMA TransferStep ==
  ASSUME PeersInv, [Next]_vars, UNCHANGED vouched,
         NEW x \in Transfers, NEW r \in TransferState,
         transfer' = [transfer EXCEPT ![x] = r],
         TransferProven(x)'
  PROVE  /\ transfer' \in [Transfers -> TransferState]
         /\ \A y \in Transfers : TransferProven(y)'
<1>1. transfer' \in [Transfers -> TransferState]
  BY DEF PeersInv, TypeOK
<1>2. ASSUME NEW y \in Transfers, y # x
      PROVE  TransferProven(y)'
  <2>1. transfer'[y] = transfer[y] /\ TransferProven(y)
    BY <1>2 DEF PeersInv, TypeOK
  <2>2. \A d, e : e \in Endpoints /\ Proven(d, e) => at'[e] = d \/ e \in moved'
    BY ProvenStays DEF PeersInv, Proven
  <2>3. transfer[y].pc # "none" =>
          at'[transfer[y].endpoint] = transfer[y].chosen
            \/ transfer[y].endpoint \in moved'
    BY <2>1, <2>2 DEF TransferProven
  <2>4. transfer[y].pc \in {"dialed", "resolved"} =>
          at'[transfer[y].endpoint] = transfer[y].remote
            \/ transfer[y].endpoint \in moved'
    BY <2>1, <2>2 DEF TransferProven
  <2>5. \A d \in transfer[y].reached :
          at'[transfer[y].endpoint] = d \/ transfer[y].endpoint \in moved'
    BY <2>1, <2>2 DEF TransferProven
  <2> QED
    BY <2>1, <2>3, <2>4, <2>5 DEF TransferProven, Proven
<1> QED
  BY <1>1, <1>2

\* The sending workers, and how one starts.
LEMMA TransferInv ==
  ASSUME PeersInv, Next, NEW x \in Transfers,
         Dial(x) \/ Resolve(x) \/ Shake(x) \/ Retry(x) \/ Finish(x)
  PROVE  PeersInv'
<1>1. /\ UNCHANGED <<netVars, storeVars, cacheVars, vouched, thread, ops, crashed>>
  BY DEF Dial, Resolve, Shake, Retry, Finish, Attempt
<1>2. TransferProven(x) /\ transfer[x] \in TransferState
  BY DEF PeersInv, TypeOK
<1>3. PICK r \in TransferState :
        /\ transfer' = [transfer EXCEPT ![x] = r]
        /\ r.pc # "none" /\ transfer[x].pc # "none"
        /\ r.chosen = transfer[x].chosen /\ r.endpoint = transfer[x].endpoint
        /\ r.pc \in {"dialed", "resolved"} =>
             r.remote \in Devices /\ Proven(r.remote, r.endpoint)
        /\ r.pc = "resolved" => r.record \in vouched
        /\ \A d \in r.reached : d \in vouched /\ Proven(d, r.endpoint)
  <2>1. CASE Dial(x)
    <3> DEFINE r == [transfer[x] EXCEPT !.pc = "dialed",
                       !.remote = at[transfer[x].endpoint]]
    <3>1. /\ transfer[x].pc = "ready"
          /\ at[transfer[x].endpoint] \in Maybe(Devices) \ {None}
      BY <2>1, <1>2 DEF Dial, TransferProven, PeersInv, TypeOK
    <3>2. r \in TransferState
      BY <3>1, <1>2 DEF TransferState
    <3>3. transfer' = [transfer EXCEPT ![x] = r]
      BY <2>1 DEF Dial
    <3>4. r.remote \in Devices /\ Proven(r.remote, r.endpoint)
      BY <3>1, <1>2 DEF Proven, Maybe, TransferState
    <3> QED
      BY <3>1, <3>2, <3>3, <3>4, <1>2 DEF TransferProven, TransferState
  <2>2. CASE Resolve(x)
    <3> DEFINE i == IpOf[transfer[x].endpoint]
               r == IF resolved[i].trusted /\ resolved[i].device \in trusted
                      THEN [transfer[x] EXCEPT !.pc = "resolved",
                              !.record = resolved[i].device]
                      ELSE [transfer[x] EXCEPT !.pc = "ended"]
    <3>1. transfer[x].pc = "dialed"
      BY <2>2 DEF Resolve
    <3>2. r \in TransferState
      <4>1. trusted \subseteq Maybe(Devices)
        BY DEF PeersInv, TypeOK, Maybe
      <4> QED
        BY <4>1, <1>2 DEF TransferState
    <3>3. transfer' = [transfer EXCEPT ![x] = r]
      BY <2>2 DEF Resolve
    <3>4. r.pc = "resolved" => r.record \in vouched
      BY <1>2 DEF PeersInv, TransferState
    <3> HIDE DEF i
    <3> QED
      BY <3>1, <3>2, <3>3, <3>4, <1>2 DEF TransferProven, TransferState
  <2>3. CASE Shake(x)
    <3>1. transfer[x].pc = "resolved"
      BY <2>3 DEF Shake
    <3>2. CASE transfer[x].remote = transfer[x].record
      <4> DEFINE r == [transfer[x] EXCEPT !.pc = "open",
                         !.reached = transfer[x].reached \cup {transfer[x].remote}]
      <4>1. r \in TransferState
        BY <3>1, <1>2 DEF TransferState, TransferProven
      <4>2. transfer' = [transfer EXCEPT ![x] = r]
        BY <2>3, <3>2 DEF Shake
      <4>3. \A d \in r.reached : d \in vouched /\ Proven(d, r.endpoint)
        BY <3>1, <3>2, <1>2 DEF TransferProven, TransferState
      <4> QED
        BY <3>1, <4>1, <4>2, <4>3, <1>2 DEF TransferState
    <3>3. CASE transfer[x].remote # transfer[x].record
      <4> DEFINE r == [transfer[x] EXCEPT !.pc = "ended"]
      <4>1. r \in TransferState
        BY <1>2 DEF TransferState
      <4>2. transfer' = [transfer EXCEPT ![x] = r]
        BY <2>3, <3>3 DEF Shake
      <4> QED
        BY <3>1, <4>1, <4>2, <1>2 DEF TransferState, TransferProven
    <3> QED
      BY <3>2, <3>3
  <2>4. CASE Retry(x)
    <3> DEFINE r == [transfer[x] EXCEPT !.pc = "ready", !.retries = @ + 1]
    <3>1. transfer[x].pc = "open" /\ transfer[x].retries < MaxRetries
      BY <2>4 DEF Retry
    <3>2. r \in TransferState
      <4>1. transfer[x].retries + 1 \in 0..MaxRetries
        BY <3>1, <1>2, PeersAssumption DEF TransferState
      <4> QED
        BY <4>1, <1>2 DEF TransferState
    <3>3. transfer' = [transfer EXCEPT ![x] = r]
      BY <2>4 DEF Retry
    <3> QED
      BY <3>1, <3>2, <3>3, <1>2 DEF TransferProven, TransferState
  <2>5. CASE Finish(x)
    <3> DEFINE r == [transfer[x] EXCEPT !.pc = "ended"]
    <3>1. transfer[x].pc # "none" /\ transfer' = [transfer EXCEPT ![x] = r]
      BY <2>5 DEF Finish, Attempt
    <3>2. r \in TransferState
      BY <1>2 DEF TransferState
    <3> QED
      BY <3>1, <3>2, <1>2 DEF TransferProven, TransferState
  <2> QED
    BY <2>1, <2>2, <2>3, <2>4, <2>5
<1>4. TransferProven(x)'
  <2>1. transfer'[x] = r
    BY <1>3 DEF PeersInv, TypeOK
  <2> QED
    BY <1>1, <1>2, <1>3, <2>1 DEF TransferProven, Proven, netVars
<1> QED
  BY <1>1, <1>3, <1>4, TransferStep, Untouched DEF PeersInv, TypeOK, netVars,
     storeVars, cacheVars

\* The end of send_files.
LEMMA BeginInv ==
  ASSUME PeersInv, Next, NoSlot \/ \E x \in Transfers : Begin(x)
  PROVE  PeersInv'
<1>ui. UI \in Threads
  BY DEF Threads
<1>1. /\ UNCHANGED <<netVars, storeVars, outbound, inbound, vouched, ops, crashed>>
      /\ thread[UI].pc = "begin" /\ End(UI)
      /\ resolved' = [resolved EXCEPT ![IpOf[thread[UI].endpoint]] =
                        [device |-> thread[UI].chosen, trusted |-> TRUE]]
  BY DEF NoSlot, Begin
<1>2. /\ thread[UI].chosen \in Devices /\ thread[UI].endpoint \in Endpoints
      /\ Proven(thread[UI].chosen, thread[UI].endpoint)
  BY <1>1, <1>ui DEF PeersInv, ThreadProven, Connects
<1>3. resolved' \in [Ips -> [device : Maybe(Devices), trusted : BOOLEAN]]
  <2>1. [device |-> thread[UI].chosen, trusted |-> TRUE]
          \in [device : Maybe(Devices), trusted : BOOLEAN]
    BY <1>2 DEF Maybe
  <2> QED
    BY <1>1, <2>1 DEF PeersInv, TypeOK
<1>4. Written(UI) /\ ThreadProven(UI)'
  <2>1. Written(UI) /\ thread'[UI] = Idle
    BY <1>1, <1>ui, EndWrites DEF PeersInv
  <2> QED
    BY <2>1 DEF ThreadProven, Idle, Connects, Holds
<1>5. /\ transfer' \in [Transfers -> TransferState]
      /\ \A x \in Transfers : TransferProven(x)'
  <2>1. CASE NoSlot
    BY <2>1, <1>1, Untouched DEF NoSlot, PeersInv, TypeOK
  <2>2. ASSUME NEW x \in Transfers, Begin(x)
        PROVE  /\ transfer' \in [Transfers -> TransferState]
               /\ \A y \in Transfers : TransferProven(y)'
    <3> DEFINE r == [transfer[x] EXCEPT !.pc = "ready",
                       !.chosen = thread[UI].chosen,
                       !.endpoint = thread[UI].endpoint]
    <3>1. transfer' = [transfer EXCEPT ![x] = r]
      BY <2>2 DEF Begin
    <3>2. r \in TransferState
      <4>1. /\ thread[UI].chosen \in Maybe(Devices)
            /\ thread[UI].endpoint \in Maybe(Endpoints)
        BY <1>2 DEF Maybe
      <4> QED
        <5>1. transfer[x] \in TransferState
          BY DEF PeersInv, TypeOK
        <5> QED
          BY <4>1, <5>1, TransferBegins
    <3>3. transfer'[x] = r /\ transfer[x].reached = {} /\ transfer[x] \in TransferState
      <4>1. transfer \in [Transfers -> TransferState]
        BY DEF PeersInv, TypeOK
      <4>2. transfer[x].reached = {}
        <5>1. transfer[x] = NoTransfer
          BY <2>2 DEF Begin
        <5> QED
          BY <5>1 DEF NoTransfer
      <4> QED
        BY <3>1, <4>1, <4>2
    <3>4. TransferProven(x)'
      BY <3>3, <1>1, <1>2 DEF TransferProven, TransferState, Proven, netVars
    <3> QED
      BY <3>1, <3>2, <3>4, <1>1, TransferStep
  <2> QED
    BY <2>1, <2>2
<1> QED
  BY <1>1, <1>3, <1>4, <1>5, <1>ui, ThreadStep, Untouched DEF PeersInv, TypeOK,
     netVars, storeVars, Written

\* Peers that pair, devices that move, restarts.
LEMMA WorldInv ==
  ASSUME PeersInv, Next,
         \/ \E e \in Endpoints : PeerPairs(e) \/ Move(e)
         \/ \E d \in Devices : PairingExpires(d)
         \/ Restarted
  PROVE  PeersInv'
<1>1. ASSUME NEW e \in Endpoints, PeerPairs(e)
      PROVE  PeersInv'
  <2>1. UNCHANGED <<netVars, storeVars, outbound, resolved, vouched, thread,
                    transfer, crashed>>
    BY <1>1 DEF PeerPairs
  <2>2. at[e] \in Devices /\ Proven(at[e], e)
    BY <1>1 DEF PeerPairs, PeersInv, TypeOK, Maybe, Proven
  <2>3. inbound' \in [Devices -> Maybe(Endpoints)] /\ PairingsProven'
    BY <1>1, <2>1, <2>2 DEF PeerPairs, PeersInv, TypeOK, PairingsProven, Proven,
       netVars, Maybe
  <2>4. ops' \in 0..MaxOps
    BY <1>1, PeersAssumption DEF PeerPairs, Operate, PeersInv, TypeOK
  <2> QED
    BY <2>1, <2>3, <2>4, Untouched DEF PeersInv, TypeOK, netVars, storeVars
<1>2. ASSUME NEW e \in Endpoints, Move(e)
      PROVE  PeersInv'
  <2>1. UNCHANGED <<storeVars, cacheVars, vouched, thread, transfer, ops, crashed>>
    BY <1>2 DEF Move
  <2>2. at' \in [Endpoints -> Maybe(Devices)] /\ moved' \in SUBSET Endpoints
    BY <1>2 DEF Move, PeersInv, TypeOK
  <2> QED
    BY <2>1, <2>2, Untouched DEF PeersInv, TypeOK, storeVars, cacheVars
<1>3. ASSUME NEW d \in Devices, PairingExpires(d)
      PROVE  PeersInv'
  <2>1. UNCHANGED <<netVars, storeVars, outbound, resolved, vouched, thread,
                    transfer, ops, crashed>>
    BY <1>3 DEF PairingExpires
  <2>2. inbound' \in [Devices -> Maybe(Endpoints)] /\ PairingsProven'
    BY <1>3, <2>1 DEF PairingExpires, PeersInv, TypeOK, PairingsProven, Proven,
       netVars, Maybe
  <2> QED
    BY <2>1, <2>2, Untouched DEF PeersInv, TypeOK, netVars, storeVars
<1>4. CASE Restarted
  <2>1. Idle \in ThreadState /\ NoTransfer \in TransferState
    <3>1. 0 \in 0..MaxRetries
      BY PeersAssumption
    <3> QED
      BY <3>1 DEF Idle, NoTransfer, ThreadState, TransferState, Maybe
  <2>2. TypeOK'
    <3>1. NoPeer \in [device : Maybe(Devices), trusted : BOOLEAN]
      BY DEF NoPeer, Maybe
    <3> QED
      BY <1>4, <2>1, <3>1 DEF Restarted, PeersInv, TypeOK, Maybe, netVars, storeVars
  <2>3. PairingsProven'
    BY <1>4 DEF Restarted, PairingsProven
  <2>4. \A p \in Threads : ThreadProven(p)'
    BY <1>4 DEF Restarted, ThreadProven, Idle, Connects, Holds
  <2>5. \A x \in Transfers : TransferProven(x)'
    BY <1>4 DEF Restarted, TransferProven, NoTransfer
  <2> QED
    BY <1>4, <2>2, <2>3, <2>4, <2>5, Untouched DEF PeersInv, Restarted, storeVars
<1> QED
  BY <1>1, <1>2, <1>3, <1>4

-----------------------------------------------------------------------------
THEOREM PeersInvariant == Spec => []PeersInv
<1>1. Init => PeersInv
  <2> SUFFICES ASSUME Init PROVE PeersInv
    OBVIOUS
  <2>1. Idle \in ThreadState /\ NoTransfer \in TransferState
    <3>1. 0 \in 0..MaxRetries
      BY PeersAssumption
    <3> QED
      BY <3>1 DEF Idle, NoTransfer, ThreadState, TransferState, Maybe
  <2>2. TypeOK
    <3>1. NoPeer \in [device : Maybe(Devices), trusted : BOOLEAN]
      BY DEF NoPeer, Maybe
    <3>2. /\ \A S : None \in Maybe(S)
          /\ 0 \in 0..MaxOps
      BY PeersAssumption DEF Maybe
    <3>3. /\ at \in [Endpoints -> Maybe(Devices)] /\ moved = {} /\ trusted = {}
          /\ vouched = {} /\ ops = 0 /\ crashed = FALSE
          /\ book \in [Devices -> Maybe(Endpoints)]
          /\ outbound \in [Devices -> Maybe(Endpoints)]
          /\ inbound \in [Devices -> Maybe(Endpoints)]
      BY <3>2 DEF Init
    <3>4. /\ resolved \in [Ips -> [device : Maybe(Devices), trusted : BOOLEAN]]
          /\ thread \in [Threads -> ThreadState]
          /\ transfer \in [Transfers -> TransferState]
      BY <2>1, <3>1 DEF Init
    <3> QED
      BY <3>2, <3>3, <3>4 DEF TypeOK
  <2>3. PairingsProven /\ BookIsProven
    BY DEF Init, PairingsProven, BookIsProven
  <2>4. \A p \in Threads : ThreadProven(p)
    BY DEF Init, ThreadProven, Idle, Connects, Holds
  <2>5. \A x \in Transfers : TransferProven(x)
    BY DEF Init, TransferProven, NoTransfer
  <2> QED
    BY <2>2, <2>3, <2>4, <2>5 DEF PeersInv, Init
<1>2. PeersInv /\ [Next]_vars => PeersInv'
  <2> SUFFICES ASSUME PeersInv, [Next]_vars PROVE PeersInv'
    OBVIOUS
  <2>1. CASE UNCHANGED vars
    BY <2>1, Untouched DEF PeersInv, TypeOK, vars, netVars, storeVars, cacheVars
  <2>2. CASE Next
    <3>1. ASSUME NEW p \in Threads,
                 \/ ConnectStep(p) \/ Shown(p)
                 \/ \E e \in Endpoints : StartConnect(p, e) /\ p # UI
          PROVE  PeersInv'
      BY <2>2, <3>1, ConnectInv
    <3>2. ASSUME NEW w \in Workers,
                 Shown(w) \/ \E e \in Endpoints : StartConnect(w, e)
          PROVE  PeersInv'
      <4>1. w \in Threads /\ w # UI
        BY PeersAssumption DEF Threads
      <4> QED
        BY <3>1, <3>2, <4>1
    <3>3. ASSUME \/ Crash \/ \E p \in Threads : RecordRaises(p)
          PROVE  PeersInv'
      BY <2>2, <3>3, WorldInv DEF Crash, RecordRaises
    <3> QED
      BY <2>2, <3>1, <3>2, <3>3, UserInv, TransferInv, BeginInv, WorldInv DEF Next
  <2> QED
    BY <2>1, <2>2
<1> QED
  BY <1>1, <1>2, PTL DEF Spec

\* Everything the service keeps about its peers has its type (service.py).
THEOREM PeersTypes == Spec => []TypeOK
<1>1. PeersInv => TypeOK
  BY DEF PeersInv
<1> QED
  BY <1>1, PeersInvariant, PTL

\* An entry's endpoint was the device's when put or record_success wrote it
\* (address_book.py:72-131).
THEOREM EntriesAreProven == Spec => []BookIsProven
<1>1. PeersInv => BookIsProven
  BY DEF PeersInv
<1> QED
  BY <1>1, PeersInvariant, PTL

\* Content goes to the chosen device, for all interleavings of send_files,
\* connect, trust and _resolve_trusted_peer (service.py:114-267,
\* transfer.py:1095-1110).
THEOREM ChosenIsReached == Spec => []FilesReachChosen
<1>1. PeersInv => FilesReachChosen
  BY DEF PeersInv, TransferProven, FilesReachChosen, Proven
<1> QED
  BY <1>1, PeersInvariant, PTL
-----------------------------------------------------------------------------
\* The devices on the list, and how they differ from the trusted ones while the
\* user's thread is between the two writes of trust or of forget_device.
Listed == {d \in Devices : book[d] # None}
Between == thread[UI].pc \in {"put", "unlist"}

Agreed ==
  /\ ~Between => trusted = Listed
  /\ thread[UI].pc = "put" => trusted = Listed \cup {thread[UI].peer}
  /\ thread[UI].pc = "unlist" => trusted = Listed \ {thread[UI].peer}

\* Steps that write neither store, and leave the user's thread where it was or
\* move it outside the two operations.
LEMMA StoresStay ==
  ASSUME Agreed, trusted' = trusted, Listed' = Listed,
         \/ thread'[UI].pc = thread[UI].pc /\ thread'[UI].peer = thread[UI].peer
         \/ ~Between /\ ~Between'
  PROVE  Agreed'
BY DEF Agreed, Between

LEMMA ConnectAgrees ==
  ASSUME PeersInv, Agreed, NEW p \in Threads,
         ConnectStep(p) \/ Shown(p) \/ \E e \in Endpoints : StartConnect(p, e) /\ p # UI
  PROVE  Agreed'
<1>1. UI \in Threads /\ thread \in [Threads -> ThreadState]
  BY DEF Threads, PeersInv, TypeOK
<1>2. trusted' = trusted /\ Listed' = Listed
  <2>1. CASE Record(p)
    <3>1. thread[p].peer \in Devices /\ thread[p].endpoint \in Endpoints
      BY <2>1 DEF Record, PeersInv, ThreadProven, Holds
    <3> QED
      BY <2>1, <3>1, PeersAssumption DEF Record, Listed, PeersInv, TypeOK
  <2> QED
    BY <2>1 DEF ConnectStep, Pair, Assess, Remember, Check, Prove, Shown, StartConnect,
       storeVars, Listed
<1>3. p # UI => thread'[UI] = thread[UI]
  BY <1>1 DEF ConnectStep, Pair, Assess, Remember, Check, Prove, Record, Shown,
     StartConnect, Goto, End
<1>4. p = UI => ~Between /\ ~Between'
  BY <1>1 DEF ConnectStep, Pair, Assess, Remember, Check, Prove, Record, Shown,
     StartConnect, Goto, End, Idle, Between, ThreadState
<1> QED
  BY <1>2, <1>3, <1>4, StoresStay

LEMMA UserAgrees ==
  ASSUME PeersInv, Agreed,
         \/ PutEntry \/ CacheTrusted \/ Unlist \/ NoSlot
         \/ \E d \in Devices : Trust(d) \/ Dismiss(d) \/ Forget(d) \/ StartSend(d)
         \/ \E x \in Transfers : Begin(x)
  PROVE  Agreed'
<1>1. UI \in Threads /\ thread \in [Threads -> ThreadState]
  BY DEF Threads, PeersInv, TypeOK
<1>2. CASE PutEntry
  <2>1. thread[UI].peer \in Devices /\ thread[UI].endpoint \in Endpoints
    BY <1>1, <1>2 DEF PutEntry, PeersInv, ThreadProven, Holds
  <2>2. Listed' = Listed \cup {thread[UI].peer}
    BY <1>2, <2>1, PeersAssumption DEF PutEntry, Listed, PeersInv, TypeOK
  <2>3. thread'[UI].pc = "cache"
    BY <1>1, <1>2 DEF PutEntry, Goto, ThreadState
  <2> QED
    BY <1>2, <2>2, <2>3 DEF PutEntry, Agreed, Between
<1>3. CASE Unlist
  <2>1. thread[UI].peer \in Devices
    BY <1>1, <1>3 DEF Unlist, PeersInv, ThreadProven
  <2>2. Listed' = Listed \ {thread[UI].peer}
    BY <1>3, <2>1 DEF Unlist, Listed, PeersInv, TypeOK
  <2>3. thread'[UI] = Idle
    BY <1>1, <1>3 DEF Unlist, End
  <2> QED
    BY <1>3, <2>2, <2>3 DEF Unlist, Agreed, Between, Idle
<1>4. ASSUME NEW d \in Devices, Trust(d)
      PROVE  Agreed'
  <2>1. thread[UI] = Idle /\ trusted' = trusted \cup {d} /\ Listed' = Listed
    BY <1>4 DEF Trust, UserIdle, Listed
  <2>2. thread'[UI].pc = "put" /\ thread'[UI].peer = d
    BY <1>1, <1>4 DEF Trust, ThreadState
  <2> QED
    BY <2>1, <2>2 DEF Agreed, Between, Idle
<1>5. ASSUME NEW d \in Devices, Forget(d)
      PROVE  Agreed'
  <2>1. thread[UI] = Idle /\ trusted' = trusted \ {d} /\ Listed' = Listed
    BY <1>5 DEF Forget, UserIdle, Listed
  <2>2. thread'[UI].pc = "unlist" /\ thread'[UI].peer = d
    BY <1>1, <1>5 DEF Forget, ThreadState
  <2> QED
    BY <2>1, <2>2 DEF Agreed, Between, Idle
<1>6. CASE \/ CacheTrusted \/ NoSlot \/ \E x \in Transfers : Begin(x)
           \/ \E d \in Devices : Dismiss(d) \/ StartSend(d)
  <2>1. trusted' = trusted /\ Listed' = Listed
    BY <1>6 DEF CacheTrusted, NoSlot, Begin, Dismiss, StartSend, storeVars, Listed
  <2>2. CASE \E d \in Devices : Dismiss(d)
    BY <2>1, <2>2, StoresStay DEF Dismiss
  <2>3. CASE \/ CacheTrusted \/ NoSlot \/ \E x \in Transfers : Begin(x)
             \/ \E d \in Devices : StartSend(d)
    <3>1. thread[UI].pc \in {"cache", "begin", "idle"}
      <4>1. CASE \E d \in Devices : StartSend(d)
        <5>1. thread[UI] = Idle
          BY <4>1 DEF StartSend, UserIdle
        <5> QED
          BY <5>1 DEF Idle
      <4>2. CASE CacheTrusted
        BY <4>2 DEF CacheTrusted
      <4>3. CASE NoSlot \/ \E x \in Transfers : Begin(x)
        BY <4>3 DEF NoSlot, Begin
      <4> QED
        BY <2>3, <4>1, <4>2, <4>3
    <3>2. CASE \E d \in Devices : StartSend(d)
      <4>1. thread'[UI].pc = "pair"
        BY <1>1, <3>2 DEF StartSend, ThreadState
      <4> QED
        BY <2>1, <3>1, <4>1, StoresStay DEF Between
    <3>3. CASE CacheTrusted \/ NoSlot \/ \E x \in Transfers : Begin(x)
      <4>1. End(UI)
        <5>1. CASE CacheTrusted
          BY <5>1 DEF CacheTrusted
        <5>2. CASE NoSlot \/ \E x \in Transfers : Begin(x)
          BY <5>2 DEF NoSlot, Begin
        <5> QED
          BY <3>3, <5>1, <5>2
      <4>2. thread'[UI].pc = "idle"
        BY <1>1, <4>1 DEF End, Idle
      <4> QED
        BY <2>1, <3>1, <4>2, StoresStay DEF Between
    <3> QED
      BY <2>3, <3>2, <3>3
  <2> QED
    BY <1>6, <2>2, <2>3
<1> QED
  BY <1>2, <1>3, <1>4, <1>5, <1>6

\* Between the user's operations the trust store and the address book name the
\* same devices (trust and forget_device, service.py), until a restart has come
\* between their two writes: record_success never adds a device of its own.
THEOREM StoresAgree == Spec => []ListedWhenTrusted
<1>1. Init => Agreed
  BY DEF Init, Agreed, Between, Listed, Idle, Threads
<1>2. PeersInv /\ (~crashed => Agreed) /\ [Next]_vars => (~crashed => Agreed)'
  <2> SUFFICES ASSUME PeersInv, ~crashed => Agreed, [Next]_vars, ~crashed'
               PROVE  Agreed'
    OBVIOUS
  <2>1. CASE Restarted
    BY <2>1 DEF Restarted
  <2>2. CASE UNCHANGED <<trusted, book, thread, crashed>>
    BY <2>2 DEF Agreed, Between, Listed
  <2>3. ASSUME NEW p \in Threads,
               \/ ConnectStep(p) \/ Shown(p)
               \/ \E e \in Endpoints : StartConnect(p, e) /\ p # UI
        PROVE  Agreed'
    <3>1. crashed' = crashed
      BY <2>3 DEF ConnectStep, Pair, Assess, Remember, Check, Prove, Record, Shown,
         StartConnect
    <3> QED
      BY <2>3, <3>1, ConnectAgrees
  <2>4. CASE \/ PutEntry \/ CacheTrusted \/ Unlist \/ NoSlot
             \/ \E d \in Devices : Trust(d) \/ Dismiss(d) \/ Forget(d) \/ StartSend(d)
             \/ \E x \in Transfers : Begin(x)
    <3>1. crashed' = crashed
      BY <2>4 DEF PutEntry, CacheTrusted, Unlist, NoSlot, Trust, Dismiss, Forget,
         StartSend, Begin
    <3> QED
      BY <2>4, <3>1, UserAgrees
  <2>5. CASE \/ \E x \in Transfers :
                  Dial(x) \/ Resolve(x) \/ Shake(x) \/ Retry(x) \/ Finish(x)
             \/ \E e \in Endpoints : PeerPairs(e) \/ Move(e)
             \/ \E d \in Devices : PairingExpires(d)
    BY <2>2, <2>5 DEF Dial, Resolve, Shake, Retry, Finish, Attempt, PeerPairs, Move,
       PairingExpires, storeVars
  <2>6. \A w \in Workers : w \in Threads /\ w # UI
    BY PeersAssumption DEF Threads
  <2> QED
    BY <2>1, <2>2, <2>3, <2>4, <2>5, <2>6 DEF Next, Crash, RecordRaises, vars, storeVars
<1>3. Agreed => (thread[UI].pc \notin {"put", "unlist"} => trusted = Listed)
  BY DEF Agreed, Between
<1>4. (~crashed => Agreed) => ListedWhenTrusted
  BY <1>3 DEF ListedWhenTrusted, Listed
<1> QED
  BY <1>1, <1>2, <1>4, PeersInvariant, PTL DEF Spec

-----------------------------------------------------------------------------
(* The terminal *)

Fields == {"kind", "rows", "cursor", "picked", "detail", "device"}
HasFields(s) == s = [f \in Fields |-> s[f]]

\* What is described below a table is the row under its cursor.
Describes(s) == HasFields(s) /\ s.detail \in {NoKey, Current(s)}

\* The dashboard is below all other screens, so something is always on top.
StackOK(st) ==
  /\ \E S : st \in Seq(S)
  /\ st # <<>> /\ st[1].kind = "peers"
  /\ \A i \in 1..Len(st) : Describes(st[i])

TerminalInv ==
  /\ core = [pending |-> core.pending, pairings |-> core.pairings, book |-> core.book]
  /\ keys \in Nat /\ StackOK(stack)
  /\ did.act = "decide" => did.shown \in {NoKey, did.key}

LEMMA DescribedDescribes ==
  ASSUME NEW s, NEW c, HasFields(s)
  PROVE  /\ Describes(Described(s, c))
         /\ Described(s, c).kind = s.kind
<1>1. Detail(s, c) \in {NoKey, Current(s)}
  BY DEF Detail
<1> QED
  BY <1>1 DEF Describes, HasFields, Fields, Described, Current

\* refresh_rows describes the row it leaves the cursor on.
LEMMA RefilledDescribes ==
  ASSUME NEW s, NEW c, Describes(s)
  PROVE  Describes(Refilled(s, c)) /\ Refilled(s, c).kind = s.kind
<1> DEFINE rows == RowsOf(s.kind, c)
           t == [s EXCEPT !.rows = rows, !.cursor = CursorAfter(s, Len(rows))]
<1>1. CASE s.kind \in Tables
  <2>1. HasFields(t) /\ t.kind = s.kind
    <3> HIDE DEF rows
    <3> QED
      BY DEF Describes, HasFields, Fields
  <2>2. Refilled(s, c) = Described(t, c)
    BY <1>1 DEF Refilled, Reshown
  <2> HIDE DEF t
  <2> QED
    BY <2>1, <2>2, DescribedDescribes
<1>2. CASE s.kind \notin Tables
  BY <1>2 DEF Refilled
<1> QED
  BY <1>1, <1>2

LEMMA ScreenDescribes ==
  ASSUME NEW k, NEW d
  PROVE  Describes(Screen(k, d)) /\ Screen(k, d).kind = k
  BY DEF Describes, HasFields, Fields, Screen

LEMMA PushOK ==
  ASSUME NEW st, NEW s, StackOK(st), Describes(s)
  PROVE  StackOK(Append(st, s))
<1>1. PICK S : st \in Seq(S)
  BY DEF StackOK
<1> DEFINE T == S \cup {s}
<1>2. st \in Seq(T) /\ s \in T
  BY <1>1
<1>3. Append(st, s) \in Seq(T) /\ Len(Append(st, s)) = Len(st) + 1
  BY <1>2
<1>4. \A i \in 1..Len(st) + 1 : Append(st, s)[i] = IF i = Len(st) + 1 THEN s ELSE st[i]
  BY <1>2
<1>5. Len(st) \in Nat /\ Len(st) > 0
  BY <1>1 DEF StackOK
<1> HIDE DEF T
<1> QED
  BY <1>1, <1>3, <1>4, <1>5 DEF StackOK

\* The screens below the one on top.
LEMMA UnderIs ==
  ASSUME NEW S, stack \in Seq(S), NEW n \in Nat, n > 0, Len(stack) = n
  PROVE  /\ Under \in Seq(S) /\ Len(Under) = n - 1
         /\ \A i \in 1..n - 1 : Under[i] = stack[i]
<1> DEFINE u == SubSeq(stack, 1, n - 1)
<1>1. u = Under
  BY DEF Under
<1>2. \A i \in 1..n - 1 : stack[i] \in S
  OBVIOUS
<1>3. /\ u \in Seq(S) /\ Len(u) = IF 1 <= n - 1 THEN n - 1 - 1 + 1 ELSE 0
      /\ \A i \in 1..n - 1 - 1 + 1 : u[i] = stack[1 + i - 1]
  BY <1>2, SubSeqProperties
<1>4. Len(u) = n - 1
  BY <1>3
<1>5. ASSUME NEW i \in 1..n - 1 PROVE u[i] = stack[i]
  <2>1. i \in 1..n - 1 - 1 + 1 /\ 1 + i - 1 = i
    OBVIOUS
  <2> HIDE DEF u
  <2> QED
    BY <1>3, <2>1
<1> QED
  BY <1>1, <1>3, <1>4, <1>5

\* The top is no dashboard, unless it is alone.
LEMMA UnderOK ==
  ASSUME StackOK(stack)
  PROVE  /\ Describes(Top)
         /\ (Len(stack) > 1 \/ Top.kind # "peers" => StackOK(Under))
<1>1. PICK S : stack \in Seq(S)
  BY DEF StackOK
<1>2. PICK n \in Nat : Len(stack) = n /\ n > 0
  BY <1>1 DEF StackOK
<1>3. /\ Under \in Seq(S) /\ Len(Under) = n - 1
      /\ \A i \in 1..n - 1 : Under[i] = stack[i]
  BY <1>1, <1>2, UnderIs
<1>4. Top = stack[n]
  BY <1>2 DEF Top
<1>5. Len(stack) > 1 \/ Top.kind # "peers" => n > 1
  BY <1>2, <1>4 DEF StackOK
<1> QED
  BY <1>2, <1>3, <1>4, <1>5 DEF StackOK

LEMMA TopOK ==
  ASSUME StackOK(stack), NEW s, Describes(s), s.kind = Top.kind
  PROVE  StackOK(WithTop(s))
<1>1. PICK S : stack \in Seq(S)
  BY DEF StackOK
<1>2. PICK n \in Nat : Len(stack) = n /\ n > 0
  BY <1>1 DEF StackOK
<1>3. /\ Under \in Seq(S) /\ Len(Under) = n - 1
      /\ \A i \in 1..n - 1 : Under[i] = stack[i]
  BY <1>1, <1>2, UnderIs
<1> DEFINE T == S \cup {s}
           w == Append(Under, s)
<1>4. Under \in Seq(T) /\ s \in T
  BY <1>3
<1>5. w \in Seq(T) /\ Len(w) = n - 1 + 1
  BY <1>3, <1>4
<1>6. \A i \in 1..n - 1 + 1 : w[i] = IF i = n - 1 + 1 THEN s ELSE Under[i]
  BY <1>3, <1>4
<1>7. w = WithTop(s) /\ Top = stack[n]
  BY <1>2 DEF WithTop, Top
<1>8. \A i \in 1..n : w[i] = IF i = n THEN s ELSE stack[i]
  BY <1>3, <1>6
<1> HIDE DEF T, w
<1> QED
  BY <1>2, <1>5, <1>7, <1>8 DEF StackOK

\* A stack in which some screens have been replaced.
LEMMA ReplacedOK ==
  ASSUME NEW st, NEW st2, StackOK(st), st2 = [i \in DOMAIN st |-> st2[i]],
         \A i \in DOMAIN st : Describes(st2[i]) /\ st2[i].kind = st[i].kind
  PROVE  StackOK(st2)
<1>1. PICK S : st \in Seq(S)
  BY DEF StackOK
<1>2. DOMAIN st = 1..Len(st) /\ Len(st) \in Nat /\ Len(st) > 0
  BY <1>1 DEF StackOK
<1> DEFINE T == {st2[i] : i \in 1..Len(st)}
<1>3. st2 \in [1..Len(st) -> T]
  BY <1>2
<1>4. st2 \in Seq(T) /\ Len(st2) = Len(st)
  BY <1>2, <1>3
<1>5. st2 # <<>>
  BY <1>2, <1>4
<1>6. st2[1].kind = "peers"
  <2>1. 1 \in DOMAIN st /\ st[1].kind = "peers"
    BY <1>2 DEF StackOK
  <2> QED
    BY <2>1
<1>7. \A i \in 1..Len(st2) : Describes(st2[i])
  BY <1>2, <1>4
<1> HIDE DEF T
<1> QED
  BY <1>4, <1>5, <1>6, <1>7 DEF StackOK

LEMMA OneReplacedOK ==
  ASSUME NEW st, StackOK(st), NEW j, NEW s, Describes(s), s.kind = st[j].kind
  PROVE  StackOK([st EXCEPT ![j] = s])
<1> DEFINE st2 == [st EXCEPT ![j] = s]
<1>1. DOMAIN st = 1..Len(st)
  BY DEF StackOK
<1>2. \A i \in DOMAIN st : Describes(st2[i]) /\ st2[i].kind = st[i].kind
  BY <1>1 DEF StackOK
<1>3. st2 = [i \in DOMAIN st |-> st2[i]]
  OBVIOUS
<1> HIDE DEF st2
<1>4. StackOK(st2)
  BY <1>2, <1>3, ReplacedOK
<1> QED
  BY <1>4 DEF st2

LEMMA DashboardOK ==
  ASSUME NEW st, NEW c, StackOK(st) PROVE StackOK(Dashboard(st, c))
<1>1. Describes(st[1])
  <2>1. Len(st) \in Nat /\ Len(st) > 0
    BY DEF StackOK
  <2> QED
    BY <2>1 DEF StackOK
<1>2. StackOK([st EXCEPT ![1] = Refilled(st[1], c)])
  BY <1>1, RefilledDescribes, OneReplacedOK
<1> QED
  BY <1>2 DEF Dashboard

\* Other threads leave the screens and the address book alone.
LEMMA NewsKeep ==
  ASSUME TerminalInv, NEW o, NEW d,
         \/ Arrives(o) \/ Leaves(o)
         \/ Introduces(d) \/ IntroductionExpires(d) \/ Answers(d)
  PROVE  TerminalInv' /\ core'.book = core.book
<1> USE DEF TerminalInv, NoKeys
<1>1. CASE Arrives(o) \/ Leaves(o)
  BY <1>1 DEF Arrives, Leaves
<1>2. CASE Introduces(d) \/ IntroductionExpires(d) \/ Answers(d)
  BY <1>2 DEF Introduces, IntroductionExpires, Answers
<1> QED
  BY <1>1, <1>2

\* Without a key, tables are filled again and dialogs opened.
LEMMA RefreshKeeps ==
  ASSUME TerminalInv, NEW e, NEW kind, NEW r,
         Show(e) \/ Tick(kind) \/ Connected(r)
  PROVE  TerminalInv' /\ core'.book = core.book
<1> USE DEF NoKeys
<1>1. core' = core /\ did' = did /\ keys' = keys
  BY DEF Show, Tick, Connected
<1>2. CASE Show(e)
  <2>1. stack' \in {stack, WithTop(Refilled(Top, core))}
    BY <1>2 DEF Show
  <2> QED
    BY <1>1, <2>1, UnderOK, RefilledDescribes, TopOK DEF TerminalInv
<1>3. CASE Tick(kind)
  <2>1. stack' = [i \in DOMAIN stack |-> FilledByTimer(stack[i], kind)]
    BY <1>3 DEF Tick
  <2>2. \A i \in DOMAIN stack : Describes(stack[i])
    BY DEF TerminalInv, StackOK
  <2>3. \A i \in DOMAIN stack : Describes(stack'[i]) /\ stack'[i].kind = stack[i].kind
    BY <2>1, <2>2, RefilledDescribes DEF FilledByTimer
  <2>4. stack' = [i \in DOMAIN stack |-> stack'[i]]
    BY <2>1
  <2>5. StackOK(stack')
    BY <2>3, <2>4, ReplacedOK DEF TerminalInv
  <2> QED
    BY <1>1, <2>5 DEF TerminalInv, StackOK
<1>4. CASE Connected(r)
  <2>1. \/ stack' = Dashboard(stack, core)
        \/ stack' = Append(stack, Screen("trust", r.device))
    BY <1>4 DEF Connected
  <2>2. StackOK(stack')
    BY <2>1, DashboardOK, PushOK, ScreenDescribes DEF TerminalInv
  <2> QED
    BY <1>1, <2>2 DEF TerminalInv, StackOK
<1> QED
  BY <1>2, <1>3, <1>4

\* Keys that decide nothing.
LEMMA BrowseKeeps ==
  ASSUME TerminalInv, NEW n, NEW kind,
         \/ MoveCursor(n) \/ Open(kind) \/ Leave
         \/ Connect \/ AskFile
  PROVE  TerminalInv' /\ core'.book = core.book
<1> USE DEF Press
<1>1. core' = core /\ did' = did /\ keys' = keys + 1
  BY DEF MoveCursor, Open, Leave, Connect, AskFile
<1>2. CASE MoveCursor(n)
  <2> DEFINE t == [Top EXCEPT !.cursor = n, !.picked = Top.rows[n]]
  <2>1. HasFields(t) /\ t.kind = Top.kind
    BY UnderOK DEF TerminalInv, Describes, HasFields, Fields
  <2>2. stack' = WithTop(Described(t, core))
    BY <1>2 DEF MoveCursor
  <2> HIDE DEF t
  <2>3. StackOK(stack')
    BY <2>1, <2>2, DescribedDescribes, TopOK DEF TerminalInv
  <2> QED
    BY <1>1, <2>3 DEF TerminalInv, StackOK
<1>3. CASE Open(kind)
  <2>1. stack' = Append(stack, Refilled(Screen(kind, NoOne), core))
    BY <1>3 DEF Open
  <2>2. StackOK(stack')
    BY <2>1, ScreenDescribes, RefilledDescribes, PushOK DEF TerminalInv
  <2> QED
    BY <1>1, <2>2 DEF TerminalInv, StackOK
<1>4. CASE Leave \/ Connect
  <2>1. stack' = Under /\ (Len(stack) > 1 \/ Top.kind # "peers")
    BY <1>4 DEF Leave, Connect
  <2>2. StackOK(stack')
    BY <2>1, UnderOK DEF TerminalInv
  <2> QED
    BY <1>1, <2>2 DEF TerminalInv, StackOK
<1>5. CASE AskFile
  <2>1. stack' = Append(stack, Screen("send", selected'))
    BY <1>5 DEF AskFile
  <2>2. StackOK(stack')
    BY <2>1, ScreenDescribes, PushOK DEF TerminalInv
  <2> QED
    BY <1>1, <2>2 DEF TerminalInv, StackOK
<1> QED
  BY <1>2, <1>3, <1>4, <1>5

\* The screen on top, filled again after a decision on a row.
LEMMA AgainOK ==
  ASSUME StackOK(stack), NEW c PROVE StackOK(Again(c))
<1> DEFINE x == Refilled(Top, c)
           s == [x EXCEPT !.picked = NoKey]
<1>1. Describes(x) /\ x.kind = Top.kind
  BY UnderOK, RefilledDescribes
<1> HIDE DEF x
<1>2. Describes(s) /\ s.kind = Top.kind
  BY <1>1 DEF Describes, HasFields, Fields, Current
<1>3. Again(c) = WithTop(s)
  BY DEF Again, x
<1> HIDE DEF s
<1> QED
  BY <1>2, <1>3, TopOK

\* Who becomes trusted has been on the screen on top.
Displayed(d) ==
  \/ Top.kind = "trust" /\ Top.device = d
  \/ Key("pairing", d) = Current(Top)

OnlyDisplayed ==
  \A d \in core'.book \ core.book : keys' # keys /\ Displayed(d)

LEMMA DecideKeeps ==
  ASSUME TerminalInv, Decide PROVE TerminalInv' /\ core'.book = core.book
<1> USE DEF TerminalInv, Decide, Press, Decided
<1>1. core'.book = core.book /\ core' = [pending |-> core'.pending,
         pairings |-> core'.pairings, book |-> core'.book]
  OBVIOUS
<1>2. StackOK(stack')
  BY AgainOK
<1>3. did'.shown \in {NoKey, did'.key}
  BY UnderOK DEF Describes
<1> QED
  BY <1>1, <1>2, <1>3 DEF StackOK

\* Of the keys on rows, approving one is all that adds to the address book.
LEMMA RowKeysKeep ==
  ASSUME TerminalInv, Approve \/ DismissPairing \/ ForgetDevice
  PROVE  TerminalInv' /\ OnlyDisplayed
<1> USE DEF TerminalInv, Press, Decided
<1>1. CASE Approve
  <2> DEFINE d == RowKeyOf(Top).id
  <2>1. \/ core' = core /\ stack' = stack
        \/ core' = Trusting(d) /\ stack' = Dashboard(Again(core'), core')
    BY <1>1 DEF Approve
  <2>2. StackOK(stack')
    BY <2>1, AgainOK, DashboardOK
  <2>3. /\ core' = [pending |-> core'.pending, pairings |-> core'.pairings, book |-> core'.book]
        /\ core'.book \subseteq core.book \cup {d}
    BY <2>1 DEF Trusting
  <2>4. keys' = keys + 1 /\ did'.act = "trust"
    BY <1>1 DEF Approve
  <2>5. Displayed(d)
    BY <1>1 DEF Approve, Waiting, RowKeyOf, Key, Displayed
  <2> HIDE DEF d
  <2> QED
    BY <2>2, <2>3, <2>4, <2>5 DEF StackOK, OnlyDisplayed
<1>2. CASE DismissPairing \/ ForgetDevice
  <2>1. stack' = Dashboard(Again(core'), core')
    BY <1>2 DEF DismissPairing, ForgetDevice, Republished
  <2>2. StackOK(stack')
    BY <2>1, AgainOK, DashboardOK
  <2>3. /\ core' = [pending |-> core'.pending, pairings |-> core'.pairings, book |-> core'.book]
        /\ core'.book \subseteq core.book
    BY <1>2 DEF DismissPairing, ForgetDevice
  <2>4. keys' = keys + 1 /\ did'.act \in {"dismiss", "forget"}
    BY <1>2 DEF DismissPairing, ForgetDevice
  <2> QED
    BY <2>2, <2>3, <2>4 DEF StackOK, OnlyDisplayed
<1> QED
  BY <1>1, <1>2

LEMMA DialogsKeep ==
  ASSUME TerminalInv, FinishTrust \/ Send
  PROVE  TerminalInv' /\ OnlyDisplayed
<1> USE DEF TerminalInv, Press, Decided
<1>1. CASE FinishTrust
  <2> DEFINE u == Under
  <2>1. StackOK(u)
    BY <1>1, UnderOK DEF FinishTrust
  <2>2. PICK below \in {u[Len(u)], Refilled(u[Len(u)], core')} :
          stack' = Dashboard([u EXCEPT ![Len(u)] = below], core')
    BY <1>1 DEF FinishTrust
  <2> HIDE DEF u
  <2>3. Describes(u[Len(u)])
    <3>1. Len(u) \in Nat /\ Len(u) > 0
      BY <2>1 DEF StackOK
    <3> QED
      BY <2>1, <3>1 DEF StackOK
  <2>4. StackOK(stack')
    BY <2>1, <2>2, <2>3, RefilledDescribes, OneReplacedOK, DashboardOK
  <2>5. /\ core' = [pending |-> core'.pending, pairings |-> core'.pairings, book |-> core'.book]
        /\ core'.book \subseteq core.book \cup {Top.device}
    BY <1>1 DEF FinishTrust, Trusting
  <2>6. keys' = keys + 1 /\ did'.act = "trust" /\ Top.kind = "trust"
    BY <1>1 DEF FinishTrust
  <2> QED
    BY <2>4, <2>5, <2>6 DEF StackOK, OnlyDisplayed, Displayed
<1>2. CASE Send
  <2>1. stack' = Under /\ Top.kind = "send" /\ core' = core
        /\ keys' = keys + 1 /\ did'.act = "send"
    BY <1>2 DEF Send
  <2>2. StackOK(stack')
    BY <2>1, UnderOK
  <2> QED
    BY <2>1, <2>2 DEF StackOK, OnlyDisplayed
<1> QED
  BY <1>1, <1>2

LEMMA TerminalStep ==
  ASSUME TerminalInv, ScreensNext PROVE TerminalInv' /\ OnlyDisplayed
<1>1. ASSUME core'.book = core.book PROVE OnlyDisplayed
  BY <1>1 DEF OnlyDisplayed
<1>2. ASSUME NEW o, NEW d,
         \/ Arrives(o) \/ Leaves(o)
         \/ Introduces(d) \/ IntroductionExpires(d) \/ Answers(d)
      PROVE  TerminalInv' /\ OnlyDisplayed
  BY <1>1, <1>2, NewsKeep
<1>3. ASSUME NEW e, NEW kind, NEW r,
         Show(e) \/ Tick(kind) \/ Connected(r)
      PROVE  TerminalInv' /\ OnlyDisplayed
  BY <1>1, <1>3, RefreshKeeps
<1>4. ASSUME NEW n, NEW kind,
         \/ MoveCursor(n) \/ Open(kind) \/ Leave
         \/ Connect \/ AskFile
      PROVE  TerminalInv' /\ OnlyDisplayed
  BY <1>1, <1>4, BrowseKeeps
<1> QED
  BY <1>1, <1>2, <1>3, <1>4, DecideKeeps, RowKeysKeep, DialogsKeep DEF ScreensNext

\* A decision is about the offer that was described, and trust begins with a key on a
\* screen that shows this device, whatever other threads do to the tables meanwhile
\* (action_accept and action_approve, screens.py:88-98 and 174-184; _finish_trust,
\* dashboard.py:177-185).
THEOREM KeysActOnTheShown == ScreensSpec => ActsOnWhatIsShown
<1> DEFINE Agrees == did.act = "decide" => did.shown \in {NoKey, did.key}
<1>1. ScreensInit => TerminalInv
  <2> SUFFICES ASSUME ScreensInit PROVE TerminalInv
    OBVIOUS
  <2> DEFINE s == Screen("peers", NoOne)
  <2>1. stack = <<s>> /\ Describes(s) /\ s.kind = "peers"
    BY ScreenDescribes DEF ScreensInit
  <2> HIDE DEF s
  <2>2. stack \in Seq({s}) /\ Len(stack) = 1 /\ stack[1] = s /\ stack # <<>>
    BY <2>1
  <2>3. StackOK(stack)
    <3>1. \A i \in 1..Len(stack) : Describes(stack[i])
      BY <2>1, <2>2
    <3>2. \E S : stack \in Seq(S)
      BY <2>2
    <3> QED
      BY <2>1, <2>2, <3>1, <3>2 DEF StackOK
  <2>4. did.act # "decide" /\ keys \in Nat /\ core = [pending |-> core.pending,
         pairings |-> core.pairings, book |-> core.book]
    BY DEF ScreensInit, Nothing
  <2> QED
    BY <2>3, <2>4 DEF TerminalInv
<1>2. TerminalInv /\ [ScreensNext]_(screenVars) => TerminalInv'
  BY TerminalStep DEF screenVars, behindVars, TerminalInv, StackOK
<1>3. TerminalInv => Agrees
  BY DEF TerminalInv
<1>4. TerminalInv /\ [ScreensNext]_(screenVars)
        => [\A d \in core'.book \ core.book :
              /\ keys' # keys
              /\ \/ Top.kind = "trust" /\ Top.device = d
                 \/ Key("pairing", d) = Current(Top)]_(screenVars)
  BY TerminalStep DEF OnlyDisplayed, Displayed
<1> QED
  BY <1>1, <1>2, <1>3, <1>4, PTL DEF ScreensSpec, ActsOnWhatIsShown

=============================================================================
