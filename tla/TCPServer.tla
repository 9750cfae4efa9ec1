----------------------------- MODULE TCPServer -----------------------------
(***************************************************************************)
(* The provider's TCP listener: each accepted connection is a task that    *)
(* sends its commitment, waits a bounded time for the client's ack, and    *)
(* then reads ticket frames until the peer goes away.                      *)
(*                                                                         *)
(* TCP delivers bytes, so a frame reaches the server in pieces: the first  *)
(* bytes of its header, the rest of the header, the payload.  The peer is  *)
(* external: it may send any frames, stall between any two pieces, and     *)
(* close at any point.  So is the socket that takes HandshakeInit: the     *)
(* write may take any time, under a timeout of its own.                    *)
(***************************************************************************)
EXTENDS Integers, SequencesExt

CONSTANTS Conns,               \* the connections of a run
          PeerFrames,          \* the frames peers may send
          MAX_FRAME_SIZE,      \* largest payload accepted
          ACK_LEN,             \* channel id and address: the ack's payload
          HANDSHAKE_TIMEOUT,   \* seconds
          MaxUint64,           \* u64::MAX
          MaxFrames            \* bound on the frames of one peer, for model checking

MsgTypes == {"HandshakeAck", "TicketRequest", "ComputeResp", "unknown"}

(* A body is a client's identity, a ticket's nonce, or undecodable bytes.  *)
Frames == [magic : BOOLEAN, type : MsgTypes, len : Nat,
           decodes : BOOLEAN, nonce : 0 .. MaxUint64]

ASSUME ServerAssumption ==
  /\ \A frame \in PeerFrames : frame \in Frames
  /\ MAX_FRAME_SIZE \in Nat /\ ACK_LEN \in 1 .. MAX_FRAME_SIZE
  /\ HANDSHAKE_TIMEOUT \in Nat \ {0}
  /\ MaxUint64 \in Nat /\ MaxFrames \in Nat

VARIABLES listening,  \* start()'s loop is running
          phase,      \* where each connection's task stands
          outcome,    \* how it ended
          watermark,  \* session.last_nonce
          reading,    \* the frame whose payload read_frame awaits, if any
          timer,      \* seconds the pending timeout has run, the write's or the ack's
          age,        \* seconds since the connection was accepted
          wire,       \* pieces sent and not yet read
          sending,    \* the pieces the peer has still to send of its frame
          fin,        \* "open", or how the peer ended: "closed" or "reset"
          sent,       \* history: frames the peer has sent completely
          handled     \* history: frames the task has read completely

serverVars == <<phase, outcome, watermark, reading>>
peerVars == <<sending, fin, sent>>
vars == <<listening, serverVars, timer, age, wire, peerVars, handled>>

Init ==
  /\ listening = TRUE
  /\ phase = [c \in Conns |-> "none"]
  /\ outcome = [c \in Conns |-> "none"]
  /\ watermark = [c \in Conns |-> 0]
  /\ reading = [c \in Conns |-> <<>>]
  /\ timer = [c \in Conns |-> 0]
  /\ age = [c \in Conns |-> 0]
  /\ wire = [c \in Conns |-> <<>>]
  /\ sending = [c \in Conns |-> <<>>]
  /\ fin = [c \in Conns |-> "open"]
  /\ sent = [c \in Conns |-> <<>>]
  /\ handled = [c \in Conns |-> <<>>]

-----------------------------------------------------------------------------
(* start(): an accept error ends the loop; the running tasks go on.        *)
Accept(c) ==
  /\ listening
  /\ phase[c] = "none"
  /\ phase' = [phase EXCEPT ![c] = "init"]
  /\ UNCHANGED <<listening, outcome, watermark, reading, timer, age, wire, peerVars, handled>>

AcceptFails ==
  /\ listening
  /\ listening' = FALSE
  /\ UNCHANGED <<serverVars, timer, age, wire, peerVars, handled>>

End(c, how) ==
  /\ phase' = [phase EXCEPT ![c] = "ended"]
  /\ outcome' = [outcome EXCEPT ![c] = how]
  /\ UNCHANGED watermark

(* HandshakeInit goes out, or the peer has already reset the connection.   *)
(* Either starts no clock but the ack's: the write's was its own.          *)
SendInit(c) ==
  /\ phase[c] = "init"
  /\ \/ phase' = [phase EXCEPT ![c] = "ack"] /\ UNCHANGED <<outcome, watermark>>
     \/ fin[c] = "reset" /\ End(c, "error")
  /\ timer' = [timer EXCEPT ![c] = 0]
  /\ UNCHANGED <<listening, reading, age, wire, peerVars, handled>>

(* The timeout around the write expires, or the one around the ack.        *)
HandshakeTimesOut(c) ==
  /\ phase[c] \in {"init", "ack"} /\ timer[c] = HANDSHAKE_TIMEOUT
  /\ End(c, "timeout")
  /\ UNCHANGED <<listening, reading, timer, age, wire, peerVars, handled>>

-----------------------------------------------------------------------------
(* read_frame, first read_exact: the nine bytes of a header.               *)
Awaits(c) == phase[c] \in {"ack", "serving"}

HeaderArrived(c) == Len(wire[c]) >= 2 /\ wire[c][2].part = "header"

AcceptsHeader(frame) == frame.magic /\ frame.len <= MAX_FRAME_SIZE

(* A fault: the handshake timeout starts again for the payload.            *)
ReadHeaderRearms(c) ==
  /\ Awaits(c) /\ reading[c] = <<>> /\ HeaderArrived(c)
  /\ wire' = [wire EXCEPT ![c] = SubSeq(@, 3, Len(@))]
  /\ LET frame == wire[c][2].frame
     IN  IF AcceptsHeader(frame)
         THEN reading' = [reading EXCEPT ![c] = <<frame>>] /\ UNCHANGED <<phase, outcome, watermark>>
         ELSE End(c, "error") /\ UNCHANGED reading
  /\ timer' = [timer EXCEPT ![c] = 0]
  /\ UNCHANGED <<listening, age, peerVars, handled>>

ReadHeader(c) ==
  /\ Awaits(c) /\ reading[c] = <<>> /\ HeaderArrived(c)
  /\ wire' = [wire EXCEPT ![c] = SubSeq(@, 3, Len(@))]
  /\ LET frame == wire[c][2].frame
     IN  IF AcceptsHeader(frame)
         THEN reading' = [reading EXCEPT ![c] = <<frame>>] /\ UNCHANGED <<phase, outcome, watermark>>
         ELSE End(c, "error") /\ UNCHANGED reading
  /\ UNCHANGED <<listening, timer, age, peerVars, handled>>

(* A fault: a close is acted on before what arrived earlier is read.       *)
EofAtOnce(c) == TRUE

(* The stream ends before nine bytes are there: with none of them, or with *)
(* some.                                                                   *)
EofInHeader(c) == Len(wire[c]) < 2

(* A close ends the session cleanly in both cases; a reset, or either of   *)
(* them in the handshake, is an error.                                     *)
ReadEof(c) ==
  /\ Awaits(c) /\ reading[c] = <<>> /\ fin[c] # "open" /\ EofInHeader(c)
  /\ End(c, IF phase[c] = "serving" /\ fin[c] = "closed" THEN "clean" ELSE "error")
  /\ UNCHANGED <<listening, reading, timer, age, wire, peerVars, handled>>

(* read_frame, second read_exact: the payload, if the frame has one.       *)
PayloadArrived(c) == reading[c][1].len = 0 \/ wire[c] # <<>>

(* A fault: an end within a payload is read again instead of reported.     *)
PayloadEofRetries(c) ==
  /\ Awaits(c) /\ reading[c] # <<>> /\ ~PayloadArrived(c) /\ fin[c] # "open"
  /\ UNCHANGED vars

PayloadEof(c) ==
  /\ Awaits(c) /\ reading[c] # <<>> /\ ~PayloadArrived(c) /\ fin[c] # "open"
  /\ End(c, "error")
  /\ UNCHANGED <<listening, reading, timer, age, wire, peerVars, handled>>

IsAck(frame) == frame.type = "HandshakeAck" /\ frame.len = ACK_LEN

(* A fault: the payload is decoded whatever the frame's type.              *)
DecodesAnyType(frame) == frame.decodes

IsTicket(frame) == frame.type = "TicketRequest" /\ frame.decodes

(* A fault: the session keeps the nonce it expects next.                   *)
NextNonce(frame) == frame.nonce + 1

SeenNonce(frame) == frame.nonce

(* What the task does with a whole frame.  In the handshake anything but   *)
(* an ack is an error; afterwards a frame that is no ticket is skipped.  A *)
(* ticket moves the watermark; logging the nonce expected next overflows   *)
(* at u64::MAX, which panics in a build with overflow checks.              *)
Handle(c, frame) ==
  IF phase[c] = "ack" THEN
    IF IsAck(frame) THEN phase' = [phase EXCEPT ![c] = "serving"] /\ UNCHANGED <<outcome, watermark>>
    ELSE End(c, "error")
  ELSE IF IsTicket(frame) THEN
    \/ watermark' = [watermark EXCEPT ![c] = SeenNonce(frame)] /\ UNCHANGED <<phase, outcome>>
    \/ watermark[c] = MaxUint64 /\ End(c, "panic")
  ELSE UNCHANGED <<phase, outcome, watermark>>

ReadPayload(c) ==
  /\ Awaits(c) /\ reading[c] # <<>> /\ PayloadArrived(c)
  /\ wire' = [wire EXCEPT ![c] = IF reading[c][1].len = 0 THEN @ ELSE Tail(@)]
  /\ reading' = [reading EXCEPT ![c] = <<>>]
  /\ handled' = [handled EXCEPT ![c] = Append(@, reading[c][1])]
  /\ Handle(c, reading[c][1])
  /\ UNCHANGED <<listening, timer, age, peerVars>>

-----------------------------------------------------------------------------
(* The peer sends its frames piece by piece, and may close between two.    *)
Pieces(frame) ==
  LET part(p) == [frame |-> frame, part |-> p]
  IN  <<part("start"), part("header")>> \o (IF frame.len = 0 THEN <<>> ELSE <<part("payload")>>)

PeerStarts(c, frame) ==
  /\ phase[c] # "ended" /\ fin[c] = "open" /\ sending[c] = <<>> /\ Len(sent[c]) < MaxFrames
  /\ sending' = [sending EXCEPT ![c] = Pieces(frame)]
  /\ UNCHANGED <<listening, serverVars, timer, age, wire, fin, sent, handled>>

PeerSends(c) ==
  /\ phase[c] # "ended" /\ fin[c] = "open" /\ sending[c] # <<>>
  /\ wire' = [wire EXCEPT ![c] = Append(@, Head(sending[c]))]
  /\ sending' = [sending EXCEPT ![c] = Tail(@)]
  /\ sent' = [sent EXCEPT ![c] = IF Len(sending[c]) = 1 THEN Append(@, sending[c][1].frame) ELSE @]
  /\ UNCHANGED <<listening, serverVars, timer, age, fin, handled>>

PeerEnds(c) ==
  /\ phase[c] # "ended" /\ fin[c] = "open"
  /\ \E how \in {"closed", "reset"} : fin' = [fin EXCEPT ![c] = how]
  /\ UNCHANGED <<listening, serverVars, timer, age, wire, sending, sent, handled>>

(* A second passes.  The tasks are never a second late: an expired timeout *)
(* comes first.                                                            *)
Shaking == {c \in Conns : phase[c] \in {"init", "ack"}}

Tick ==
  /\ Shaking # {}
  /\ \A c \in Shaking : timer[c] < HANDSHAKE_TIMEOUT
  /\ timer' = [c \in Conns |-> IF c \in Shaking THEN timer[c] + 1 ELSE timer[c]]
  /\ age' = [c \in Conns |-> IF c \in Shaking THEN age[c] + 1 ELSE age[c]]
  /\ UNCHANGED <<listening, serverVars, wire, peerVars, handled>>

Polled(c) == \/ HandshakeTimesOut(c)
             \/ ReadHeader(c) \/ ReadEof(c) \/ PayloadEof(c) \/ ReadPayload(c)

Task(c) == SendInit(c) \/ Polled(c)

Peer(c) == \/ \E frame \in PeerFrames : PeerStarts(c, frame)
           \/ PeerSends(c) \/ PeerEnds(c)

Next ==
  \/ \E c \in Conns : Accept(c) \/ Task(c) \/ Peer(c)
  \/ AcceptFails
  \/ Tick

Spec == Init /\ [][Next]_vars

(* The runtime polls the listener and every task that can move, and time   *)
(* passes.  Nothing is asked of the peers, nor that the write completes.   *)
FairSpec ==
  /\ Spec
  /\ WF_vars(Tick)
  /\ \A c \in Conns : WF_vars(Accept(c)) /\ WF_vars(Polled(c))

-----------------------------------------------------------------------------
TypeOK ==
  /\ listening \in BOOLEAN
  /\ phase \in [Conns -> {"none", "init", "ack", "serving", "ended"}]
  /\ outcome \in [Conns -> {"none", "clean", "error", "timeout", "panic"}]
  /\ watermark \in [Conns -> 0 .. MaxUint64]
  /\ timer \in [Conns -> 0 .. HANDSHAKE_TIMEOUT]
  /\ fin \in [Conns -> {"open", "closed", "reset"}]
  /\ \A c \in Conns :
       /\ Len(reading[c]) \in 0 .. 1
       /\ phase[c] = "ended" <=> outcome[c] # "none"

(* A peer that stalls, however it slices its ack, holds the handshake no   *)
(* longer than the timeout of the write and, after it, that of the ack,    *)
(* whatever arrives in between: transport.rs:150, 155.  Line 45 calls the  *)
(* one timeout the budget for both.                                        *)
HandshakeWithinBudget ==
  \A c \in Shaking :
    age[c] <= IF phase[c] = "init" THEN HANDSHAKE_TIMEOUT ELSE 2 * HANDSHAKE_TIMEOUT

(* A session that ends without an error has handled every frame its peer   *)
(* sent completely before closing, in that order.                          *)
CleanEndLosesNothing == \A c \in Conns : outcome[c] = "clean" => handled[c] = sent[c]

(* The session's watermark is the nonce of the last ticket among the       *)
(* frames handled since the ack; the frames skipped leave it alone.        *)
WatermarkIsLastTicket ==
  \A c \in Conns : phase[c] = "serving" =>
    LET tickets == {i \in 2 .. Len(handled[c]) :
                      handled[c][i].type = "TicketRequest" /\ handled[c][i].decodes}
    IN  \/ tickets = {} /\ watermark[c] = 0
        \/ \E i \in tickets : /\ \A j \in tickets : j <= i
                              /\ watermark[c] = handled[c][i].nonce

(* Only a connected peer past its handshake may keep a task.  A handshake  *)
(* ends whatever the peer does, and a connection whose peer has closed or  *)
(* reset it ends too, wherever in a frame that was: after the handshake no *)
(* timeout would end its task.  transport.rs:111, 155.                     *)
OnlyLivePeersHoldTasks ==
  \A c \in Conns :
    /\ phase[c] \in {"init", "ack"} ~> phase[c] \in {"serving", "ended"}
    /\ fin[c] # "open" /\ phase[c] # "none" ~> phase[c] = "ended"

(* transport.rs:73-74: the server accepts connections forever, whatever    *)
(* happened to an earlier one.                                             *)
EveryPeerIsAccepted == \A c \in Conns : phase[c] = "none" ~> phase[c] # "none"
=============================================================================
