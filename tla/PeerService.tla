---------------------------- MODULE PeerService ----------------------------
(***************************************************************************)
(* What one user's program knows of the other devices (DirectPeerService   *)
(* in core/service.py with the trust store, the address book, the pairing  *)
(* inbox and the peer cache keyed by address), while devices change their  *)
(* addresses: connecting on worker threads, trusting, forgetting and       *)
(* sending on the thread of the user interface, and the transfers that     *)
(* look their peer up again in every attempt.                              *)
(***************************************************************************)
EXTENDS Naturals, FiniteSets

CONSTANTS
  Devices,      \* the other devices; a device id is derived from its key
  Endpoints,    \* host and port
  IpOf,         \* the address an endpoint resolves to
  Workers,      \* threads that connect for the user
  Transfers,    \* transfers that may be started
  MaxPairings,  \* max_pending of the pairing inbox
  MaxOps,       \* bound: what the user and the pairing peers do
  MaxMoves,     \* bound: endpoints that change hands
  MaxRetries    \* attempts of a transfer after the first

None == "none"
UI == "ui"
Threads == Workers \cup {UI}

ASSUME PeersAssumption ==
  /\ None \notin Devices /\ None \notin Endpoints /\ UI \notin Workers
  /\ IpOf \in [Endpoints -> {IpOf[e] : e \in Endpoints}]
  /\ MaxPairings \in Nat \ {0}
  /\ MaxOps \in Nat /\ MaxMoves \in Nat /\ MaxRetries \in Nat

Ips == {IpOf[e] : e \in Endpoints}

VARIABLES
  at,        \* the device that listens at each endpoint
  moved,     \* history: the endpoints that have changed hands
  trusted,   \* TrustStore._devices and its file
  book,      \* AddressBook._entries and its file: the endpoint of each device
  outbound,  \* _outbound_pairings: where each device was paired
  inbound,   \* PairingInbox._items: where each device says it listens
  resolved,  \* _resolved: the peer cached for each address
  vouched,   \* history: devices the user has trusted at some time
  thread,    \* what each thread is doing
  transfer,  \* the sending workers
  ops,       \* bound
  crashed    \* bound and history: the program has been restarted

netVars == <<at, moved>>
storeVars == <<trusted, book>>
cacheVars == <<outbound, inbound, resolved>>
vars ==
  <<netVars, storeVars, cacheVars, vouched, thread, transfer, ops, crashed>>

Maybe(S) == S \cup {None}

\* A thread in _open_connection, client_pair and the steps after them: its
\* endpoint, the identity it received, whether that was trusted and whether the
\* endpoint was another's when it was assessed, whether a handshake has
\* succeeded, and the device to send to.
Idle == [pc |-> "idle", endpoint |-> None, peer |-> None, known |-> FALSE,
         changed |-> FALSE, proved |-> FALSE, chosen |-> None]

\* A transfer: the device it is for, its endpoint, the device that has
\* answered, the trusted record looked up, and whom content has reached.
NoTransfer == [pc |-> "none", chosen |-> None, endpoint |-> None,
               remote |-> None, record |-> None, reached |-> {}, retries |-> 0]

NoPeer == [device |-> None, trusted |-> FALSE]

ThreadState ==
  [pc : {"idle", "pair", "assess", "remember", "check", "prove", "record",
         "shown", "begin", "put", "cache", "unlist"},
   endpoint : Maybe(Endpoints), peer : Maybe(Devices), known : BOOLEAN,
   changed : BOOLEAN, proved : BOOLEAN, chosen : Maybe(Devices)]

TransferState ==
  [pc : {"none", "ready", "dialed", "resolved", "open", "ended"},
   chosen : Maybe(Devices), endpoint : Maybe(Endpoints),
   remote : Maybe(Devices), record : Maybe(Devices),
   reached : SUBSET Devices, retries : 0..MaxRetries]

TypeOK ==
  /\ at \in [Endpoints -> Maybe(Devices)] /\ moved \in SUBSET Endpoints
  /\ trusted \in SUBSET Devices /\ book \in [Devices -> Maybe(Endpoints)]
  /\ outbound \in [Devices -> Maybe(Endpoints)]
  /\ inbound \in [Devices -> Maybe(Endpoints)]
  /\ resolved \in [Ips -> [device : Maybe(Devices), trusted : BOOLEAN]]
  /\ thread \in [Threads -> ThreadState]
  /\ transfer \in [Transfers -> TransferState]
  /\ vouched \in SUBSET Devices
  /\ ops \in 0..MaxOps /\ crashed \in BOOLEAN

Init ==
  /\ at \in [Endpoints -> Maybe(Devices)] /\ moved = {}
  /\ trusted = {} /\ book = [d \in Devices |-> None]
  /\ outbound = [d \in Devices |-> None] /\ inbound = [d \in Devices |-> None]
  /\ resolved = [i \in Ips |-> NoPeer] /\ vouched = {}
  /\ thread = [p \in Threads |-> Idle]
  /\ transfer = [x \in Transfers |-> NoTransfer]
  /\ ops = 0 /\ crashed = FALSE

Operate == ops < MaxOps /\ ops' = ops + 1

-----------------------------------------------------------------------------
(* connect: a pairing, then a handshake on a fresh connection *)

Goto(p, pc) == thread' = [thread EXCEPT ![p].pc = pc]

\* The steps by which connect ends: it returns or raises.
End(p) == thread' = [thread EXCEPT ![p] = Idle]

StartConnect(w, e) ==
  /\ thread[w] = Idle /\ Operate
  /\ thread' = [thread EXCEPT ![w].pc = "pair", ![w].endpoint = e]
  /\ UNCHANGED <<netVars, storeVars, cacheVars, vouched, transfer, crashed>>

\* Whoever listens at the endpoint proves an identity.
Pair(p) ==
  /\ thread[p].pc = "pair"
  /\ LET d == at[thread[p].endpoint] IN
       IF d = None THEN End(p)
       ELSE thread' = [thread EXCEPT ![p].pc = "assess", ![p].peer = d]
  /\ UNCHANGED <<netVars, storeVars, cacheVars, vouched, transfer, ops,
                 crashed>>

\* find_endpoint: the first entry with this endpoint, in the order of a
\* dictionary that a restart sorts anew.
FindEndpoint(e) ==
  LET found == {d \in Devices : book[d] = e}
  IN IF found = {} THEN {None} ELSE found

\* The identity is assessed and its pairing kept for a decision of the user.
Assess(p) ==
  /\ thread[p].pc = "assess"
  /\ LET d == thread[p].peer IN
       /\ outbound' = [outbound EXCEPT ![d] = thread[p].endpoint]
       /\ \E f \in FindEndpoint(thread[p].endpoint) :
            thread' = [thread EXCEPT ![p].pc = "remember",
                                     ![p].known = d \in trusted,
                                     ![p].changed = f \notin {None, d}]
  /\ UNCHANGED <<netVars, storeVars, inbound, resolved, vouched, transfer, ops,
                 crashed>>

\* Between the two, the user interface has shown the progress.  The peer is
\* cached with what was assessed before, and also when the endpoint turns out
\* to belong to another device, with which connect ends.
Remember(p) ==
  /\ thread[p].pc = "remember"
  /\ resolved' = [resolved EXCEPT ![IpOf[thread[p].endpoint]] =
                    [device |-> thread[p].peer, trusted |-> thread[p].known]]
  /\ IF thread[p].changed THEN End(p) ELSE Goto(p, "check")
  /\ UNCHANGED <<netVars, storeVars, outbound, inbound, vouched, transfer, ops,
                 crashed>>

\* An identity that is not trusted goes back to the user.  The user is asked
\* only if it was not trusted when it was received: otherwise the window shows
\* the device as authenticated.  send_files raises in both cases.
Check(p) ==
  /\ thread[p].pc = "check"
  /\ IF thread[p].peer \in trusted THEN Goto(p, "prove")
     ELSE IF p # UI /\ thread[p].known THEN Goto(p, "shown")
     ELSE End(p)
  /\ UNCHANGED <<netVars, storeVars, cacheVars, vouched, transfer, ops,
                 crashed>>

\* client_handshake with the trusted record; the peer may not trust us.
Prove(p) ==
  /\ thread[p].pc = "prove"
  /\ \/ /\ at[thread[p].endpoint] = thread[p].peer
        /\ thread' = [thread EXCEPT ![p].pc = "record", ![p].proved = TRUE]
     \/ End(p)
  /\ UNCHANGED <<netVars, storeVars, cacheVars, vouched, transfer, ops,
                 crashed>>

\* Mutant of Record: an entry that is gone is written anew.
RecordAnew(p) ==
  /\ thread[p].pc = "record"
  /\ book' = [book EXCEPT ![thread[p].peer] = thread[p].endpoint]
  /\ Goto(p, IF p = UI THEN "begin" ELSE "shown")
  /\ UNCHANGED <<netVars, trusted, cacheVars, vouched, transfer, ops, crashed>>

\* record_success, for a device that has an entry.
Record(p) ==
  /\ thread[p].pc = "record" /\ book[thread[p].peer] # None
  /\ book' = [book EXCEPT ![thread[p].peer] = thread[p].endpoint]
  /\ Goto(p, IF p = UI THEN "begin" ELSE "shown")
  /\ UNCHANGED <<netVars, trusted, cacheVars, vouched, transfer, ops, crashed>>

\* _connected has updated the status line.
Shown(w) ==
  /\ thread[w].pc = "shown"
  /\ End(w)
  /\ UNCHANGED <<netVars, storeVars, cacheVars, vouched, transfer, ops,
                 crashed>>

ConnectStep(p) ==
  Pair(p) \/ Assess(p) \/ Remember(p) \/ Check(p) \/ Prove(p) \/ Record(p)

-----------------------------------------------------------------------------
(* The user: trust, forget, dismiss, send *)

UserIdle == thread[UI] = Idle /\ Operate

\* trust takes the outbound pairing of the device, or else the inbound one,
\* and saves the decision before the address.
Trust(d) ==
  /\ UserIdle
  /\ outbound[d] # None \/ inbound[d] # None
  /\ trusted' = trusted \cup {d} /\ vouched' = vouched \cup {d}
  /\ thread' = [thread EXCEPT
       ![UI].pc = "put", ![UI].peer = d,
       ![UI].endpoint = IF outbound[d] # None THEN outbound[d] ELSE inbound[d]]
  /\ UNCHANGED <<netVars, book, cacheVars, transfer, crashed>>

PutEntry ==
  /\ thread[UI].pc = "put"
  /\ book' = [book EXCEPT ![thread[UI].peer] = thread[UI].endpoint]
  /\ Goto(UI, "cache")
  /\ UNCHANGED <<netVars, trusted, cacheVars, vouched, transfer, ops, crashed>>

CacheTrusted ==
  /\ thread[UI].pc = "cache"
  /\ inbound' = [inbound EXCEPT ![thread[UI].peer] = None]
  /\ resolved' = [resolved EXCEPT ![IpOf[thread[UI].endpoint]] =
                    [device |-> thread[UI].peer, trusted |-> TRUE]]
  /\ End(UI)
  /\ UNCHANGED <<netVars, storeVars, outbound, vouched, transfer, ops, crashed>>

Dismiss(d) ==
  /\ UserIdle /\ inbound[d] # None
  /\ inbound' = [inbound EXCEPT ![d] = None]
  /\ UNCHANGED <<netVars, storeVars, outbound, resolved, vouched, thread,
                 transfer, crashed>>

\* forget_device, for a device on the list; the caches keep it.
Forget(d) ==
  /\ UserIdle /\ book[d] # None
  /\ trusted' = trusted \ {d}
  /\ thread' = [thread EXCEPT ![UI].pc = "unlist", ![UI].peer = d]
  /\ UNCHANGED <<netVars, book, cacheVars, vouched, transfer, crashed>>

Unlist ==
  /\ thread[UI].pc = "unlist"
  /\ book' = [book EXCEPT ![thread[UI].peer] = None]
  /\ End(UI)
  /\ UNCHANGED <<netVars, trusted, cacheVars, vouched, transfer, ops, crashed>>

\* send_files to a device on the list connects to its endpoint first.
StartSend(d) ==
  /\ UserIdle /\ d \in trusted /\ book[d] # None
  /\ thread' = [thread EXCEPT ![UI].pc = "pair", ![UI].endpoint = book[d],
                              ![UI].chosen = d]
  /\ UNCHANGED <<netVars, storeVars, cacheVars, vouched, transfer, crashed>>

\* The chosen device, not the one that has just been authenticated, becomes
\* the peer of the address, and a sending worker starts.
Begin(x) ==
  /\ thread[UI].pc = "begin" /\ transfer[x] = NoTransfer
  /\ resolved' = [resolved EXCEPT ![IpOf[thread[UI].endpoint]] =
                    [device |-> thread[UI].chosen, trusted |-> TRUE]]
  /\ transfer' = [transfer EXCEPT
       ![x].pc = "ready", ![x].chosen = thread[UI].chosen,
       ![x].endpoint = thread[UI].endpoint]
  /\ End(UI)
  /\ UNCHANGED <<netVars, storeVars, outbound, inbound, vouched, ops, crashed>>

\* send_batch raises: no worker slot is free.
NoSlot ==
  /\ thread[UI].pc = "begin" /\ \A x \in Transfers : transfer[x] # NoTransfer
  /\ resolved' = [resolved EXCEPT ![IpOf[thread[UI].endpoint]] =
                    [device |-> thread[UI].chosen, trusted |-> TRUE]]
  /\ End(UI)
  /\ UNCHANGED <<netVars, storeVars, outbound, inbound, vouched, transfer,
                 ops, crashed>>

-----------------------------------------------------------------------------
(* A sending worker: in every attempt it dials, looks its peer up by address *)
(* and demands that identity of whoever has answered.                        *)

Attempt(x, from, to) ==
  /\ transfer[x].pc = from
  /\ transfer' = [transfer EXCEPT ![x].pc = to]
  /\ UNCHANGED <<netVars, storeVars, cacheVars, vouched, thread, ops, crashed>>

Dial(x) ==
  /\ transfer[x].pc = "ready" /\ at[transfer[x].endpoint] # None
  /\ transfer' = [transfer EXCEPT ![x].pc = "dialed",
                                  ![x].remote = at[transfer[x].endpoint]]
  /\ UNCHANGED <<netVars, storeVars, cacheVars, vouched, thread, ops, crashed>>

\* _resolve_trusted_peer.  When _resolved has no peer, _resolve_peer asks the
\* address book for an address as if it were a device id, and finds none.
Resolve(x) ==
  /\ transfer[x].pc = "dialed"
  /\ LET peer == resolved[IpOf[transfer[x].endpoint]] IN
       transfer' = IF peer.trusted /\ peer.device \in trusted
         THEN [transfer EXCEPT ![x].pc = "resolved", ![x].record = peer.device]
         ELSE [transfer EXCEPT ![x].pc = "ended"]
  /\ UNCHANGED <<netVars, storeVars, cacheVars, vouched, thread, ops, crashed>>

\* Mutant of Shake: any identity will do.
ShakeAnyone(x) ==
  /\ transfer[x].pc = "resolved"
  /\ transfer' = [transfer EXCEPT ![x].pc = "open",
                                  ![x].reached = @ \cup {transfer[x].remote}]
  /\ UNCHANGED <<netVars, storeVars, cacheVars, vouched, thread, ops, crashed>>

\* client_handshake: another identity than the record's fails for good.
Shake(x) ==
  /\ transfer[x].pc = "resolved"
  /\ transfer' = IF transfer[x].remote = transfer[x].record
       THEN [transfer EXCEPT ![x].pc = "open",
                             ![x].reached = @ \cup {transfer[x].remote}]
       ELSE [transfer EXCEPT ![x].pc = "ended"]
  /\ UNCHANGED <<netVars, storeVars, cacheVars, vouched, thread, ops, crashed>>

\* The connection is lost while files stream: the attempt is repeated.
Retry(x) ==
  /\ transfer[x].pc = "open" /\ transfer[x].retries < MaxRetries
  /\ transfer' = [transfer EXCEPT ![x].pc = "ready", ![x].retries = @ + 1]
  /\ UNCHANGED <<netVars, storeVars, cacheVars, vouched, thread, ops, crashed>>

\* Nobody answers, the connection is lost, everything is sent.
Finish(x) ==
  \E pc \in {"ready", "dialed", "resolved", "open"} : Attempt(x, pc, "ended")

-----------------------------------------------------------------------------
(* The world outside *)

\* Mutant of PeerPairs: the port the device announces is not the one kept.
PeerPairsAnyPort(e) ==
  /\ Operate /\ at[e] # None
  /\ \/ inbound[at[e]] # None
     \/ Cardinality({d \in Devices : inbound[d] # None}) < MaxPairings
  /\ \E f \in Endpoints :
       IpOf[f] = IpOf[e] /\ inbound' = [inbound EXCEPT ![at[e]] = f]
  /\ UNCHANGED <<netVars, storeVars, outbound, resolved, vouched, thread,
                 transfer, crashed>>

\* A device whose user connects to us leaves its identity and its endpoint.
PeerPairs(e) ==
  /\ Operate /\ at[e] # None
  /\ \/ inbound[at[e]] # None
     \/ Cardinality({d \in Devices : inbound[d] # None}) < MaxPairings
  /\ inbound' = [inbound EXCEPT ![at[e]] = e]
  /\ UNCHANGED <<netVars, storeVars, outbound, resolved, vouched, thread,
                 transfer, crashed>>

PairingExpires(d) ==
  /\ inbound[d] # None
  /\ inbound' = [inbound EXCEPT ![d] = None]
  /\ UNCHANGED <<netVars, storeVars, outbound, resolved, vouched, thread,
                 transfer, ops, crashed>>

Move(e) ==
  /\ Cardinality(moved) < MaxMoves
  /\ \E d \in Maybe(Devices) \ {at[e]} : at' = [at EXCEPT ![e] = d]
  /\ moved' = moved \cup {e}
  /\ UNCHANGED <<storeVars, cacheVars, vouched, thread, transfer, ops, crashed>>

\* The files stay.
Restarted ==
  /\ outbound' = [d \in Devices |-> None] /\ inbound' = [d \in Devices |-> None]
  /\ resolved' = [i \in Ips |-> NoPeer]
  /\ thread' = [p \in Threads |-> Idle]
  /\ transfer' = [x \in Transfers |-> NoTransfer]
  /\ crashed' = TRUE
  /\ UNCHANGED <<netVars, storeVars, vouched, ops>>

Crash == ~crashed /\ Restarted

\* record_success, for a device without an entry: KeyError, which no caller
\* of connect catches, so that the program ends.
RecordRaises(p) ==
  /\ thread[p].pc = "record" /\ book[thread[p].peer] = None
  /\ Restarted

-----------------------------------------------------------------------------
Next ==
  \/ \E w \in Workers : Shown(w) \/ \E e \in Endpoints : StartConnect(w, e)
  \/ \E p \in Threads : ConnectStep(p) \/ RecordRaises(p)
  \/ \E d \in Devices :
       Trust(d) \/ Dismiss(d) \/ Forget(d) \/ StartSend(d) \/ PairingExpires(d)
  \/ PutEntry \/ CacheTrusted \/ Unlist \/ NoSlot
  \/ \E x \in Transfers :
       Begin(x) \/ Dial(x) \/ Resolve(x) \/ Shake(x) \/ Retry(x) \/ Finish(x)
  \/ \E e \in Endpoints : PeerPairs(e) \/ Move(e)
  \/ Crash

Spec == Init /\ [][Next]_vars

-----------------------------------------------------------------------------
(* Properties *)

\* What is known of an endpoint is true unless the endpoint changed hands.
Proven(d, e) == at[e] = d \/ e \in moved

\* Every saved endpoint was the device's own when it was saved, whichever of
\* pair, trust and record_success wrote it and whatever was forgotten between.
BookIsProven == \A d \in Devices : book[d] # None => Proven(d, book[d])

\* Content reaches the device the user chose, although the peer of a transfer
\* is looked up by address in every attempt, other connections overwrite that
\* cache and two devices may share an address.  Only an endpoint that has
\* changed hands leads a transfer to another device, and then to one that the
\* user has trusted too.
FilesReachChosen ==
  \A x \in Transfers : \A d \in transfer[x].reached :
    /\ d \in vouched
    /\ d = transfer[x].chosen \/ transfer[x].endpoint \in moved

\* Trust store and address book are two files, yet between the user's
\* operations a device has an entry exactly when it is trusted.  A restart
\* between the two writes takes them apart.
ListedWhenTrusted ==
  ~crashed /\ thread[UI].pc \notin {"put", "unlist"}
    => trusted = {d \in Devices : book[d] # None}

\* Stated by README.md:15, "a fresh connection performs the protocol-v3
\* handshake": a device is shown as authenticated only after a handshake.
ShownIsProved == \A w \in Workers : thread[w].pc = "shown" => thread[w].proved
=============================================================================
