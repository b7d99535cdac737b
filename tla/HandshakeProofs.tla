--------------------------- MODULE HandshakeProofs --------------------------
(***************************************************************************)
(* What Handshake guarantees for any number of devices and connections:    *)
(* an answer on the network has one author, which answered one hello; the  *)
(* first encrypted frame shows that the author of the hello is there, now. *)
(***************************************************************************)
EXTENDS Handshake, TLAPS

\* Every answer in the network is the one of an accepting end.
AnswersAreSent ==
  \A m \in sent : m.role = "server" =>
    \E s \in Servers : got[s] \in ClientHellos /\ m = ServerHello(s, got[s])

ServerOK(s) ==
  /\ pc[s] = "idle" => got[s] = NoHello
  /\ pc[s] \in {"ready", "served", "paired"} => got[s] \in ClientHellos
  /\ got[s] \in ClientHellos /\ got[s].kind = "pair_hello" => pc[s] = "paired"
  /\ pc[s] = "served" => ServerKey(s) \in frames

ClientOK(c) ==
  /\ pc[c] \in {"ready", "served", "paired"} =>
       got[c] \in sent /\ AnswersTo(c, got[c])
  /\ pc[c] \in {"ready", "served"} => c \notin Pairs

FramesAreOfPeers ==
  \A k \in frames :
    \E c \in Clients \ Pairs : pc[c] = "served" /\ k = ClientKey(c)

HandshakeInv ==
  /\ TypeOK /\ AnswersAreSent /\ FramesAreOfPeers
  /\ \A s \in Servers : ServerOK(s)
  /\ \A c \in Clients : ClientOK(c)

USE HandshakeAssumption

LEMMA HelloFields ==
  /\ NoHello \notin ClientHellos
  /\ \A c \in Clients :
       /\ ClientHello(c) \in ClientHellos /\ ClientHello(c) \in Hellos
       /\ ClientHello(c).role = "client" /\ ClientHello(c).device = Owner[c]
       /\ ClientHello(c).kind = KindOf(c) /\ ClientHello(c).fresh = c
  /\ \A s \in Servers, h \in ClientHellos :
       /\ ServerHello(s, h) \in ServerHellos /\ ServerHello(s, h) \in Hellos
       /\ ServerHello(s, h).role = "server" /\ ServerHello(s, h).re = h
       /\ ServerHello(s, h).device = Owner[s] /\ ServerHello(s, h).kind = h.kind
  /\ \A m \in Hellos : m.role = "client" => m \in ClientHellos
  /\ \A m \in Hellos : m.role = "server" => m \in ServerHellos
  /\ \A c \in Clients : KindOf(c) = "pair_hello" <=> c \in Pairs
<1>1. NoHello \notin ClientHellos
  BY DEF NoHello, None, ClientHellos, ClientHello
<1>2. \A c \in Clients :
       /\ ClientHello(c) \in ClientHellos /\ ClientHello(c) \in Hellos
       /\ ClientHello(c).role = "client" /\ ClientHello(c).device = Owner[c]
       /\ ClientHello(c).kind = KindOf(c) /\ ClientHello(c).fresh = c
  BY DEF ClientHellos, Hellos, ClientHello
<1>3. \A s \in Servers, h \in ClientHellos :
       /\ ServerHello(s, h) \in ServerHellos /\ ServerHello(s, h) \in Hellos
       /\ ServerHello(s, h).role = "server" /\ ServerHello(s, h).re = h
       /\ ServerHello(s, h).device = Owner[s] /\ ServerHello(s, h).kind = h.kind
  BY DEF ServerHellos, Hellos, ServerHello
<1>4. \A m \in Hellos : m.role = "client" => m \in ClientHellos
  BY DEF ServerHellos, Hellos, ServerHello
<1>5. \A m \in Hellos : m.role = "server" => m \in ServerHellos
  BY DEF ClientHellos, Hellos, ClientHello
<1>6. \A c \in Clients : KindOf(c) = "pair_hello" <=> c \in Pairs
  BY DEF KindOf
<1>. QED  BY <1>1, <1>2, <1>3, <1>4, <1>5, <1>6

LEMMA HandshakeInit == ASSUME Init PROVE HandshakeInv
<1>1. TypeOK
  BY DEF Init, TypeOK, Ends
<1>2. AnswersAreSent /\ FramesAreOfPeers
  BY DEF Init, AnswersAreSent, FramesAreOfPeers
<1>3. ASSUME NEW s \in Servers PROVE ServerOK(s)
  BY HelloFields DEF Init, ServerOK, Ends
<1>4. ASSUME NEW c \in Clients PROVE ClientOK(c)
  BY DEF Init, ClientOK, Ends
<1>. QED  BY <1>1, <1>2, <1>3, <1>4 DEF HandshakeInv

\* A step that leaves the messages of both ends and the network as they are, and
\* takes one end to a state that asks nothing new of it.
LEMMA HandshakeQuiet ==
  ASSUME HandshakeInv, TypeOK', UNCHANGED <<got, sent, frames>>,
         \A e \in Ends : pc'[e] = pc[e]
            \/ (pc[e] \in {"idle", "wait", "ready"} /\ pc'[e] = "failed")
            \/ (e \in Clients /\ pc[e] = "idle" /\ pc'[e] = "wait")
  PROVE  HandshakeInv'
<1>1. AnswersAreSent'
  BY DEF HandshakeInv, AnswersAreSent, ServerHello
<1>2. FramesAreOfPeers'
  BY DEF HandshakeInv, FramesAreOfPeers, ClientKey, Ends
<1>3. ASSUME NEW s \in Servers PROVE ServerOK(s)'
  BY <1>3 DEF HandshakeInv, ServerOK, ServerKey, Ends
<1>4. ASSUME NEW c \in Clients PROVE ClientOK(c)'
  BY <1>4 DEF HandshakeInv, ClientOK, Ends, AnswersTo
<1>. QED  BY <1>1, <1>2, <1>3, <1>4 DEF HandshakeInv

LEMMA BeginKeeps ==
  ASSUME HandshakeInv, NEW c \in Clients, Begin(c) PROVE HandshakeInv'
<1>. USE DEF HandshakeInv, Begin, Goto
<1>1. TypeOK'
  BY HelloFields DEF TypeOK, Ends
<1>2. AnswersAreSent'
  BY HelloFields DEF AnswersAreSent
<1>3. FramesAreOfPeers'
  BY DEF FramesAreOfPeers, ClientKey, TypeOK, Ends
<1>4. ASSUME NEW s \in Servers PROVE ServerOK(s)'
  BY <1>4 DEF ServerOK, ServerKey, TypeOK, Ends
<1>5. ASSUME NEW b \in Clients PROVE ClientOK(b)'
  BY <1>5 DEF ClientOK, TypeOK, Ends, AnswersTo
<1>. QED  BY <1>1, <1>2, <1>3, <1>4, <1>5

LEMMA AcceptKeeps ==
  ASSUME HandshakeInv, NEW c \in Clients, Accept(c) PROVE HandshakeInv'
<1>. USE DEF HandshakeInv
<1>1. PICK m \in sent :
        /\ AnswersTo(c, m)
        /\ Goto(c, IF c \in Pairs THEN "paired" ELSE "ready")
        /\ got' = [got EXCEPT ![c] = m]
  BY DEF Accept
<1>2. /\ pc[c] = "wait" /\ UNCHANGED <<trusts, sent, frames, changes>>
      /\ \A s \in Servers : pc'[s] = pc[s] /\ got'[s] = got[s]
      /\ \A b \in Clients : b # c => pc'[b] = pc[b] /\ got'[b] = got[b]
      /\ pc'[c] = (IF c \in Pairs THEN "paired" ELSE "ready") /\ got'[c] = m
  BY <1>1 DEF Accept, TypeOK, Ends, Goto
<1>3. TypeOK'
  BY <1>1, <1>2 DEF TypeOK, Ends, Goto
<1>4. AnswersAreSent'
  BY <1>2 DEF AnswersAreSent, ServerHello
<1>5. FramesAreOfPeers'
  BY <1>2 DEF FramesAreOfPeers, ClientKey
<1>6. ASSUME NEW s \in Servers PROVE ServerOK(s)'
  BY <1>2, <1>6 DEF ServerOK, ServerKey
<1>7. ASSUME NEW b \in Clients PROVE ClientOK(b)'
  BY <1>1, <1>2, <1>7 DEF ClientOK, AnswersTo
<1>. QED  BY <1>3, <1>4, <1>5, <1>6, <1>7

LEMMA SendOfferKeeps ==
  ASSUME HandshakeInv, NEW c \in Clients, SendOffer(c) PROVE HandshakeInv'
<1>. USE DEF HandshakeInv
<1>1. /\ pc[c] = "ready" /\ pc'[c] = "served"
      /\ UNCHANGED <<trusts, got, sent, changes>>
      /\ frames' = frames \cup {ClientKey(c)}
      /\ \A e \in Ends : e # c => pc'[e] = pc[e]
  BY DEF SendOffer, Goto, TypeOK, Ends
<1>2. c \notin Pairs /\ got[c] \in sent /\ AnswersTo(c, got[c])
  BY <1>1 DEF ClientOK
<1>3. ClientKey(c) \in ClientHellos \X ServerHellos
  <2>1. got[c] \in Hellos /\ got[c].role = "server"
    BY <1>2 DEF TypeOK, AnswersTo
  <2>. QED  BY <2>1, HelloFields DEF ClientKey
<1>4. TypeOK'
  BY <1>1, <1>3 DEF TypeOK, SendOffer, Goto
<1>5. AnswersAreSent'
  BY <1>1 DEF AnswersAreSent, ServerHello
<1>6. FramesAreOfPeers'
  BY <1>1, <1>2 DEF FramesAreOfPeers, ClientKey, Ends
<1>7. ASSUME NEW s \in Servers PROVE ServerOK(s)'
  BY <1>1, <1>7 DEF ServerOK, ServerKey, Ends
<1>8. ASSUME NEW b \in Clients PROVE ClientOK(b)'
  BY <1>1, <1>8 DEF ClientOK, AnswersTo, Ends
<1>. QED  BY <1>4, <1>5, <1>6, <1>7, <1>8

LEMMA AnswerKeeps ==
  ASSUME HandshakeInv, NEW s \in Servers, Answer(s) PROVE HandshakeInv'
<1>. USE DEF HandshakeInv
<1>1. PICK m \in sent :
        /\ m.role = "client"
        /\ Goto(s, IF m.kind = "pair_hello" THEN "paired" ELSE "ready")
        /\ got' = [got EXCEPT ![s] = m]
        /\ sent' = sent \cup {ServerHello(s, m)}
  BY DEF Answer
<1>2. m \in ClientHellos
  BY <1>1, HelloFields DEF TypeOK
<1>3. /\ pc[s] = "idle" /\ UNCHANGED <<trusts, frames, changes>>
      /\ \A c \in Clients : pc'[c] = pc[c] /\ got'[c] = got[c]
      /\ \A r \in Servers : r # s => pc'[r] = pc[r] /\ got'[r] = got[r]
      /\ pc'[s] = (IF m.kind = "pair_hello" THEN "paired" ELSE "ready")
      /\ got'[s] = m
  BY <1>1 DEF Answer, TypeOK, Ends, Goto
<1>4. TypeOK'
  BY <1>1, <1>2, <1>3, HelloFields DEF TypeOK, Ends, Goto
<1>5. got[s] \notin ClientHellos
  BY <1>3, HelloFields DEF ServerOK
<1>6. AnswersAreSent'
  BY <1>1, <1>2, <1>3, <1>5, HelloFields DEF AnswersAreSent, ServerHello
<1>7. FramesAreOfPeers'
  BY <1>3 DEF FramesAreOfPeers, ClientKey
<1>8. ASSUME NEW r \in Servers PROVE ServerOK(r)'
  BY <1>2, <1>3, <1>8 DEF ServerOK, ServerKey
<1>9. ASSUME NEW c \in Clients PROVE ClientOK(c)'
  BY <1>1, <1>3, <1>9 DEF ClientOK, AnswersTo
<1>. QED  BY <1>4, <1>6, <1>7, <1>8, <1>9

LEMMA ServeKeeps ==
  ASSUME HandshakeInv, NEW s \in Servers, Serve(s) PROVE HandshakeInv'
<1>. USE DEF HandshakeInv
<1>1. /\ pc[s] = "ready" /\ pc'[s] = "served" /\ ServerKey(s) \in frames
      /\ UNCHANGED <<trusts, got, sent, frames, changes>>
      /\ \A e \in Ends : e # s => pc'[e] = pc[e]
  BY DEF Serve, Goto, TypeOK, Ends
<1>2. TypeOK'
  BY <1>1 DEF TypeOK, Serve, Goto
<1>3. AnswersAreSent'
  BY <1>1 DEF AnswersAreSent, ServerHello
<1>4. FramesAreOfPeers'
  BY <1>1 DEF FramesAreOfPeers, ClientKey, Ends
<1>5. ASSUME NEW r \in Servers PROVE ServerOK(r)'
  BY <1>1, <1>5 DEF ServerOK, ServerKey, Ends
<1>6. ASSUME NEW c \in Clients PROVE ClientOK(c)'
  BY <1>1, <1>6 DEF ClientOK, AnswersTo, Ends
<1>. QED  BY <1>2, <1>3, <1>4, <1>5, <1>6

LEMMA HandshakeStep == ASSUME HandshakeInv, [Next]_vars PROVE HandshakeInv'
<1>1. ASSUME NEW c \in Clients, Begin(c) \/ Accept(c) \/ SendOffer(c)
      PROVE HandshakeInv'
  BY <1>1, BeginKeeps, AcceptKeeps, SendOfferKeeps
<1>2. ASSUME NEW s \in Servers, Answer(s) \/ Serve(s) PROVE HandshakeInv'
  BY <1>2, AnswerKeeps, ServeKeeps
<1>3. ASSUME NEW e \in Ends, Fail(e) PROVE HandshakeInv'
  <2>1. TypeOK'
    BY <1>3 DEF HandshakeInv, TypeOK, Fail, Goto
  <2>2. /\ UNCHANGED <<got, sent, frames>>
        /\ \A f \in Ends : pc'[f] = pc[f]
             \/ (pc[f] \in {"idle", "wait", "ready"} /\ pc'[f] = "failed")
    BY <1>3 DEF HandshakeInv, TypeOK, Fail, Goto
  <2>. QED  BY <2>1, <2>2, HandshakeQuiet
<1>4. ASSUME NEW d \in Devices, NEW p \in Devices, Decide(d, p)
      PROVE HandshakeInv'
  <2>1. TypeOK'
    BY <1>4 DEF HandshakeInv, TypeOK, Decide, endVars
  <2>. QED  BY <1>4, <2>1, HandshakeQuiet DEF Decide, endVars
<1>5. ASSUME UNCHANGED vars PROVE HandshakeInv'
  <2>1. TypeOK'
    BY <1>5 DEF HandshakeInv, TypeOK, vars, endVars
  <2>. QED  BY <1>5, <2>1, HandshakeQuiet DEF vars, endVars
<1>. QED  BY <1>1, <1>2, <1>3, <1>4, <1>5 DEF Next

\* Every reachable state satisfies the invariant, with any number of connections.
THEOREM HandshakeIsInv == Spec => []HandshakeInv
BY HandshakeInit, HandshakeStep, PTL DEF Spec

\* Messages, keys and places are well-formed in every reachable state.
THEOREM HandshakeTypes == Spec => []TypeOK
<1>1. HandshakeInv => TypeOK
  BY DEF HandshakeInv
<1>. QED  BY <1>1, HandshakeIsInv, PTL

\* A connecting end that accepted an answer shares its key with an end of the
\* device it wanted (client_handshake).
THEOREM ClientsAgree == Spec => []ClientAgrees
<1>1. HandshakeInv => ClientAgrees
  <2>1. SUFFICES ASSUME HandshakeInv, NEW c \in Clients \ Pairs,
                        pc[c] \in {"ready", "served"}
                 PROVE  \E s \in Servers :
                          /\ Owner[s] = Wants[c] /\ got[s] = ClientHello(c)
                          /\ ServerKey(s) = ClientKey(c)
    BY DEF ClientAgrees
  <2>2. got[c] \in sent /\ AnswersTo(c, got[c])
    BY <2>1 DEF HandshakeInv, ClientOK
  <2>3. PICK s \in Servers :
          got[s] \in ClientHellos /\ got[c] = ServerHello(s, got[s])
    BY <2>1, <2>2 DEF HandshakeInv, AnswersAreSent, AnswersTo
  <2>. QED  BY <2>2, <2>3, HelloFields DEF AnswersTo, ServerKey, ClientKey
<1>. QED  BY <1>1, HandshakeIsInv, PTL

\* Whoever an accepting end serves is at its end of the same key, and meant this
\* device (server_handshake and the offer that follows it).
THEOREM ServersAgree == Spec => []ServerAgrees
<1>1. HandshakeInv => ServerAgrees
  <2>1. SUFFICES ASSUME HandshakeInv, NEW s \in Servers, pc[s] = "served"
                 PROVE  \E c \in Clients \ Pairs :
                          /\ pc[c] = "served" /\ ClientKey(c) = ServerKey(s)
                          /\ Owner[c] = got[s].device /\ Wants[c] = Owner[s]
    BY DEF ServerAgrees
  <2>2. ServerKey(s) \in frames /\ got[s] \in ClientHellos
    BY <2>1 DEF HandshakeInv, ServerOK
  <2>3. PICK c \in Clients \ Pairs :
          pc[c] = "served" /\ ServerKey(s) = ClientKey(c)
    BY <2>1, <2>2 DEF HandshakeInv, FramesAreOfPeers
  <2>4. got[s] = ClientHello(c) /\ got[c] = ServerHello(s, got[s])
    BY <2>3 DEF ServerKey, ClientKey
  <2>5. AnswersTo(c, got[c])
    BY <2>1, <2>3 DEF HandshakeInv, ClientOK
  <2>. QED  BY <2>2, <2>3, <2>4, <2>5, HelloFields DEF AnswersTo
<1>. QED  BY <1>1, HandshakeIsInv, PTL

\* Whoever looks at a key that both handshakes have agreed on finds the other end
\* there, for any number of connections, late, doubled and diverted messages.
THEOREM AgreementHolds == Spec => []EndsAgree
<1>1. ClientAgrees /\ ServerAgrees => EndsAgree
  BY DEF EndsAgree
<1>. QED  BY <1>1, ClientsAgree, ServersAgree, PTL

\* A pairing names a device that answered it (client_pair).
THEOREM PairsAreAnswered == Spec => []PairIsAnswered
<1>1. HandshakeInv => PairIsAnswered
  <2>1. SUFFICES ASSUME HandshakeInv, NEW c \in Pairs, pc[c] = "paired"
                 PROVE  \E s \in Servers :
                          /\ Owner[s] = got[c].device
                          /\ pc[s] = "paired" /\ got[s] = ClientHello(c)
    BY DEF PairIsAnswered
  <2>2. got[c] \in sent /\ AnswersTo(c, got[c])
    BY <2>1 DEF HandshakeInv, ClientOK
  <2>3. PICK s \in Servers :
          got[s] \in ClientHellos /\ got[c] = ServerHello(s, got[s])
    BY <2>1, <2>2 DEF HandshakeInv, AnswersAreSent, AnswersTo
  <2>4. Owner[s] = got[c].device /\ got[s] = ClientHello(c)
    BY <2>2, <2>3, HelloFields DEF AnswersTo
  <2>. QED  BY <2>1, <2>3, <2>4, HelloFields DEF HandshakeInv, ServerOK
<1>. QED  BY <1>1, HandshakeIsInv, PTL

=============================================================================
