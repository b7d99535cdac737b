------------------------------- MODULE Frames -------------------------------
(***************************************************************************)
(* The frames of a session on one TCP connection (utils/crypto.py and the  *)
(* send and receive functions of core/protocol.py): a length and a content *)
(* that is encrypted and authenticated.  The stream arrives in pieces, and *)
(* a read may time out between any two of them.  Whoever waits for the     *)
(* decision of a user reads with a short timeout and goes on: the sender   *)
(* of a transfer by catching it, the receiver by asking first whether      *)
(* there is anything to read.                                              *)
(***************************************************************************)
EXTENDS Naturals, Sequences

CONSTANTS
  Content,  \* the length of each frame, in units of the stream, at least one
  Header,   \* units of its length field, at least one
  MaxSize,  \* units a content may have
  Selects   \* the reader asks first (receiver), or catches the timeout (sender)

Numbers == DOMAIN Content

\* Where frame i begins in the stream, which ends where a further one would begin.
Offset[i \in Nat] == IF i <= 1 THEN 0 ELSE Offset[i - 1] + Header + Content[i - 1]
Total == Offset[Len(Content) + 1]

VARIABLES
  arrived,  \* units of the stream that have arrived
  pos,      \* units taken from the socket
  start,    \* where the part begins that is being read
  need,     \* units of this part
  part,     \* what the reader takes it for: "length" or "content"
  heard,    \* the frames returned to the session
  state     \* reading, closed by an end the session expects, or by any other

vars == <<arrived, pos, start, need, part, heard, state>>

TypeOK ==
  /\ arrived \in 0..Total /\ pos \in 0..arrived /\ start \in 0..pos
  /\ part \in {"length", "content"} /\ need \in 0..(Header + MaxSize)
  /\ pos <= start + need
  /\ heard \in Seq(Numbers) /\ state \in {"reading", "closed", "broken"}

Init ==
  /\ arrived = 0 /\ pos = 0 /\ start = 0 /\ need = Header /\ part = "length"
  /\ heard = <<>> /\ state = "reading"

\* One frame ends the wait, a cancel or a response; what follows is sent when the
\* peer has been asked for it.
Sendable == IF heard = <<>> THEN Offset[2] ELSE Total

\* sendall: all bytes of the frames, in order, in pieces of any size.
Arrive ==
  /\ \E n \in (arrived + 1)..Sendable : arrived' = n
  /\ UNCHANGED <<pos, start, need, part, heard, state>>

Missing(n) == n <= start + need

\* One recv returns what there is, up to what is missing.
Receive ==
  /\ state = "reading" /\ pos < arrived /\ pos < start + need
  /\ \E n \in (pos + 1)..arrived : Missing(n) /\ pos' = n
  /\ UNCHANGED <<arrived, start, need, part, heard, state>>

\* _recv_exact goes on until the part is whole.
Whole == pos = start + need

NextPart(name, size) == part' = name /\ need' = size /\ start' = pos

\* Any other part of the stream, taken for a length, may have any value.
LengthRead ==
  /\ state = "reading" /\ part = "length" /\ Whole
  /\ \/ \E i \in Numbers : start = Offset[i] /\ NextPart("content", Content[i])
     \/ /\ start \notin {Offset[i] : i \in Numbers}
        /\ \E n \in 0..MaxSize : NextPart("content", n)
  /\ UNCHANGED <<arrived, pos, heard, state>>

\* Only the content of a frame decrypts, and only as a whole.
ContentRead ==
  /\ state = "reading" /\ part = "content" /\ Whole
  /\ \E i \in Numbers :
       /\ start = Offset[i] + Header /\ pos = start + Content[i]
       /\ heard' = Append(heard, i)
  /\ NextPart("length", Header) /\ UNCHANGED <<arrived, pos, state>>

\* A length that is too large, a content that does not decrypt: an error that no
\* lost connection explains.
Misread ==
  /\ state = "reading" /\ Whole
  /\ \/ part = "length" /\ start \notin {Offset[i] : i \in Numbers}
     \/ /\ part = "content"
        /\ \A i \in Numbers : start # Offset[i] + Header \/ pos # start + Content[i]
  /\ state' = "broken"
  /\ UNCHANGED <<arrived, pos, start, need, part, heard>>

-----------------------------------------------------------------------------
(* Timeouts *)

AtFrame == part = "length" /\ pos = start

\* The sender's timeout may come anywhere, select's only before a frame.
MayPoll == Selects => AtFrame

\* While the user has not decided, nothing to read is no reason to end: the next
\* read begins a frame, whatever the one before has taken.
Poll ==
  /\ state = "reading" /\ heard = <<>> /\ pos = arrived /\ ~Whole /\ MayPoll
  /\ NextPart("length", Header) /\ UNCHANGED <<arrived, pos, heard, state>>

\* The peer, a timeout of the session or the user ends the connection.
Close ==
  /\ state = "reading" /\ state' = "closed"
  /\ UNCHANGED <<arrived, pos, start, need, part, heard>>

Next ==
  \/ Arrive \/ Receive \/ LengthRead \/ ContentRead \/ Misread \/ Poll \/ Close

Spec == Init /\ [][Next]_vars

-----------------------------------------------------------------------------
(* Properties *)

\* tests/test_protocol.py:81 reads a frame as it was sent.  However the stream is
\* cut, no part of it is taken for another one.
NeverMisread == state # "broken"

=============================================================================
