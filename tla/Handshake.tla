----------------------------- MODULE Handshake -----------------------------
(***************************************************************************)
(* The signed messages of the session handshake (core/session.py) and of   *)
(* the pairing (core/pairing.py), up to the first encrypted frame.  An     *)
(* endpoint is only an address: a message may reach another connection     *)
(* than the one it was sent on, late, more than once or never.  Nobody can *)
(* sign for a device but that device.  A fresh ephemeral key and nonce are *)
(* named by the connection end that made them.                             *)
(***************************************************************************)
EXTENDS Naturals, FiniteSets

CONSTANTS
  Devices,   \* devices, each known by its key
  Clients,   \* connecting ends
  Servers,   \* accepting ends
  Owner,     \* the device of each end
  Pairs,     \* the connecting ends that only want to know who is there
  Wants,     \* the device every other connecting end is for
  MaxTrust   \* bound: changes of trust by the users

None == "none"

ASSUME HandshakeAssumption ==
  /\ Clients \cap Servers = {} /\ Pairs \subseteq Clients
  /\ Owner \in [Clients \cup Servers -> Devices]
  /\ Wants \in [Clients -> Devices]
  /\ None \notin Devices /\ MaxTrust \in Nat

Kinds == {"pair_hello", "hello"}
KindOf(c) == IF c \in Pairs THEN "pair_hello" ELSE "hello"

NoHello ==
  [kind |-> None, role |-> None, device |-> None, fresh |-> None, re |-> None]

\* _create_hello and _hello, with and without peer_hello_hash.
ClientHello(c) ==
  [kind |-> KindOf(c), role |-> "client", device |-> Owner[c], fresh |-> c,
   re |-> None]
ServerHello(s, hello) ==
  [kind |-> hello.kind, role |-> "server", device |-> Owner[s], fresh |-> s,
   re |-> hello]

ClientHellos == {ClientHello(c) : c \in Clients}
ServerHellos == {ServerHello(s, h) : s \in Servers, h \in ClientHellos}
Hellos == ClientHellos \cup ServerHellos

VARIABLES
  trusts,  \* the devices each device trusts
  pc,      \* where each end is
  got,     \* the message of the other end each end works with
  sent,    \* the messages in the network
  frames,  \* the keys of encrypted frames in the network
  changes  \* bound

endVars == <<pc, got>>
vars == <<trusts, endVars, sent, frames, changes>>

Ends == Clients \cup Servers

TypeOK ==
  /\ trusts \in [Devices -> SUBSET Devices]
  /\ pc \in [Ends -> {"idle", "wait", "ready", "served", "paired", "failed"}]
  /\ got \in [Ends -> Hellos \cup {NoHello}]
  /\ sent \in SUBSET Hellos
  /\ frames \in SUBSET (ClientHellos \X ServerHellos)
  /\ changes \in 0..MaxTrust

Init ==
  /\ trusts \in [Devices -> SUBSET Devices]
  /\ pc = [e \in Ends |-> "idle"] /\ got = [e \in Ends |-> NoHello]
  /\ sent = {} /\ frames = {} /\ changes = 0

Goto(e, place) == pc' = [pc EXCEPT ![e] = place]

\* A timeout, a lost connection, a message that is damaged or not valid here.
Fail(e) ==
  /\ pc[e] \in {"idle", "wait", "ready"} /\ Goto(e, "failed")
  /\ UNCHANGED <<trusts, got, sent, frames, changes>>

-----------------------------------------------------------------------------
(* The connecting end *)

\* A session is begun only with a device trusted at this moment.
Begin(c) ==
  /\ pc[c] = "idle" /\ (c \in Pairs \/ Wants[c] \in trusts[Owner[c]])
  /\ Goto(c, "wait") /\ sent' = sent \cup {ClientHello(c)}
  /\ UNCHANGED <<trusts, got, frames, changes>>

\* Mutants of AnswersTo: the answer of any device; an answer to any hello.
AnswersAnyone(c, m) ==
  m.role = "server" /\ m.kind = KindOf(c) /\ m.re = ClientHello(c)
AnswersOther(c, m) ==
  /\ m.role = "server" /\ m.kind = KindOf(c)
  /\ c \notin Pairs => m.device = Wants[c]

\* What is asked of the answer: its form, the identity if that is known, and
\* the hash of the hello it answers.
AnswersTo(c, m) ==
  /\ m.role = "server" /\ m.kind = KindOf(c)
  /\ c \notin Pairs => m.device = Wants[c]
  /\ m.re = ClientHello(c)

Accept(c) ==
  /\ pc[c] = "wait"
  /\ \E m \in sent :
       /\ AnswersTo(c, m)
       /\ Goto(c, IF c \in Pairs THEN "paired" ELSE "ready")
       /\ got' = [got EXCEPT ![c] = m]
  /\ UNCHANGED <<trusts, sent, frames, changes>>

\* _derive_key: own ephemeral key and nonce with those of the other end, bound
\* to both messages.
ClientKey(c) == <<ClientHello(c), got[c]>>
ServerKey(s) == <<got[s], ServerHello(s, got[s])>>

\* The offer, and whatever follows, is encrypted.
SendOffer(c) ==
  /\ pc[c] = "ready" /\ Goto(c, "served")
  /\ frames' = frames \cup {ClientKey(c)}
  /\ UNCHANGED <<trusts, got, sent, changes>>

-----------------------------------------------------------------------------
(* The accepting end *)

\* The first message says what the connection is for.
Answer(s) ==
  /\ pc[s] = "idle"
  /\ \E m \in sent :
       /\ m.role = "client"
       /\ m.kind = "pair_hello" \/ m.device \in trusts[Owner[s]]
       /\ Goto(s, IF m.kind = "pair_hello" THEN "paired" ELSE "ready")
       /\ got' = [got EXCEPT ![s] = m]
       /\ sent' = sent \cup {ServerHello(s, m)}
  /\ UNCHANGED <<trusts, frames, changes>>

\* A frame that the key of this session opens is taken for the peer's.
Serve(s) ==
  /\ pc[s] = "ready" /\ ServerKey(s) \in frames /\ Goto(s, "served")
  /\ UNCHANGED <<trusts, got, sent, frames, changes>>

-----------------------------------------------------------------------------
\* A user trusts or forgets a device.
Decide(d, p) ==
  /\ changes < MaxTrust /\ changes' = changes + 1
  /\ \/ trusts' = [trusts EXCEPT ![d] = @ \cup {p}]
     \/ trusts' = [trusts EXCEPT ![d] = @ \ {p}]
  /\ UNCHANGED <<endVars, sent, frames>>

Next ==
  \/ \E c \in Clients : Begin(c) \/ Accept(c) \/ SendOffer(c)
  \/ \E s \in Servers : Answer(s) \/ Serve(s)
  \/ \E e \in Ends : Fail(e)
  \/ \E d, p \in Devices : Decide(d, p)

Spec == Init /\ [][Next]_vars

-----------------------------------------------------------------------------
(* Properties *)

\* A connecting end that has its answer shares its key with an end of the very
\* device it is for, which answered this hello and no other, even if by then
\* another device has the address, or an answer to another connection arrives
\* (client_handshake).
ClientAgrees ==
  \A c \in Clients \ Pairs : pc[c] \in {"ready", "served"} =>
    \E s \in Servers :
      Owner[s] = Wants[c] /\ got[s] = ClientHello(c) /\ ServerKey(s) = ClientKey(c)

\* Whoever an accepting end serves is a session of the device that the hello
\* names, meant for this device, at its end of the same key, and past its own
\* checks: the hello alone, which may be one of an earlier connection, is not
\* enough (server_handshake).
ServerAgrees ==
  \A s \in Servers : pc[s] = "served" =>
    \E c \in Clients \ Pairs :
      /\ pc[c] = "served" /\ ClientKey(c) = ServerKey(s)
      /\ Owner[c] = got[s].device /\ Wants[c] = Owner[s]

\* A key is shared by two ends that know each other, whichever looks at it.
EndsAgree == ClientAgrees /\ ServerAgrees

\* The device a pairing found is one that is there now: it answered this very
\* hello (client_pair).
PairIsAnswered ==
  \A c \in Pairs : pc[c] = "paired" =>
    \E s \in Servers :
      /\ Owner[s] = got[c].device
      /\ pc[s] = "paired" /\ got[s] = ClientHello(c)

=============================================================================
