--------------------------- MODULE TicketPipeline ---------------------------
(***************************************************************************)
(* The client daemon's payment pipeline: concurrent calls draw nonces from *)
(* one Signer, then take turns on one TCPClient, whose lock a call holds   *)
(* from the write of its ticket to the read of the answer: of its header   *)
(* first, then of its payload.  A connector replaces the stream and        *)
(* performs the handshake, each under the lock but not both together.      *)
(*                                                                         *)
(* The provider greets with its commitment and expects an ack, as this     *)
(* repository's does.  What it does with a ticket is the server the        *)
(* daemon's pieces are written for and no code of src/ assembles: it       *)
(* answers a ticket the verifier accepts and halts the connection          *)
(* otherwise (types.rs:70-79), or it never answers, which is all that      *)
(* handle_client does.  Seeds are numbered; the listener keeps announcing  *)
(* the one it was made with, which is the verifier's first.                *)
(*                                                                         *)
(* An answer is named by its ticket's nonce, and the bytes of a frame are  *)
(* told apart only as far as a read may stop among them: in front of the   *)
(* frame or inside it.  Text inside a frame is taken not to look like a    *)
(* header.  A call may be dropped by its caller at every await, also in    *)
(* the middle of a read, and the client may restart; a write of one frame  *)
(* is taken to fit the socket's buffer.                                    *)
(***************************************************************************)
EXTENDS Integers, FiniteSets, SequencesExt

CONSTANTS Tasks,      \* concurrent callers
          NoTask,
          MaxNonce,   \* bound on the tickets drawn, for model checking
          MaxConns,   \* bound on the connections, for model checking
          MaxSeeds,   \* bound on the provider's seeds, for model checking
          MaxLives    \* bound on the client's runs, for model checking

ASSUME PipelineAssumption ==
  /\ IsFiniteSet(Tasks) /\ NoTask \notin Tasks
  /\ {MaxNonce, MaxConns, MaxLives} \subseteq Nat /\ MaxSeeds \in Nat \ {0}

VARIABLES nonce_watermark,  \* Signer.nonce_watermark
          provider_commitment,  \* TCPClient.provider_commitment, 0 for B256::ZERO
          task,             \* where each call stands, its nonce and commitment
          lock,             \* the holder of TCPClient.stream's lock
          shaking,          \* connect() has returned, perform_handshake() has not
          conns,            \* connections made so far
          stream,           \* the stream, as its two ends see it
          seed,             \* the verifier's seed, and whether it is spent
          life,             \* how often the client has been started
          order,            \* history: nonces written to this stream
          unread,           \* history: those whose call left before the end of its answer
          answers,          \* history: what calls on this stream returned
          lost,             \* history: nonces this client drew and never wrote
          served            \* history: the tickets served, in order

callVars == <<task, lock, answers>>
connVars == <<shaking, conns, provider_commitment>>
gateVars == <<seed, served>>
history == <<order, unread, lost>>
vars == <<nonce_watermark, callVars, connVars, stream, gateVars, life, history>>

Fresh == 1   \* the seed TCPServer::new and the verifier start with

NoStream == [phase |-> "none", up |-> FALSE, inside |-> FALSE, last_nonce |-> 0,
             halted |-> <<>>, requests |-> <<>>, responses |-> <<>>]

NewCall == [at |-> "idle", nonce |-> 0, commitment |-> 0]

Init ==
  /\ nonce_watermark = 0
  /\ provider_commitment = 0
  /\ task = [t \in Tasks |-> NewCall]
  /\ lock = NoTask
  /\ shaking = FALSE
  /\ conns = 0
  /\ stream = NoStream
  /\ seed = [epoch |-> Fresh, spent |-> FALSE]
  /\ life = 1
  /\ order = <<>> /\ unread = {} /\ answers = {} /\ lost = {} /\ served = <<>>

Frame(type, nonce, commitment) == [type |-> type, nonce |-> nonce, commitment |-> commitment]

Ticket(t) == Frame("TicketRequest", task[t].nonce, task[t].commitment)

Return(t) == task' = [task EXCEPT ![t].at = "idle"]

-----------------------------------------------------------------------------
(* A call asks the transport for the commitment it will put in its ticket. *)
get_provider_commitment(t) ==
  /\ task[t].at = "idle"
  /\ nonce_watermark + Cardinality({u \in Tasks : task[u].at = "begun"}) < MaxNonce
  /\ task' = [task EXCEPT ![t] = [at |-> "begun", nonce |-> 0, commitment |-> provider_commitment]]
  /\ UNCHANGED <<nonce_watermark, lock, answers, connVars, stream, gateVars, life, history>>

(* Signer::sign_next_ticket: the nonce first, then everything that may     *)
(* fail.  A failure does not give the nonce back.                          *)
NextNonce(t) ==
  /\ task[t].at = "begun"
  /\ nonce_watermark' = nonce_watermark + 1
  /\ task' = [task EXCEPT ![t].at = "signing", ![t].nonce = nonce_watermark + 1]
  /\ UNCHANGED <<lock, answers, connVars, stream, gateVars, life, history>>

SignOk(t) ==
  /\ task[t].at = "signing"
  /\ task' = [task EXCEPT ![t].at = "signed"]
  /\ UNCHANGED <<nonce_watermark, lock, answers, connVars, stream, gateVars, life, history>>

(* A fault: a failed call decrements the counter it incremented.           *)
SignFailsAndReturnsNonce(t) ==
  /\ task[t].at = "signing"
  /\ Return(t)
  /\ nonce_watermark' = nonce_watermark - 1
  /\ lost' = lost \union {task[t].nonce}
  /\ UNCHANGED <<lock, answers, connVars, stream, gateVars, life, order, unread>>

SignFails(t) ==
  /\ task[t].at = "signing"
  /\ Return(t)
  /\ lost' = lost \union {task[t].nonce}
  /\ UNCHANGED <<nonce_watermark, lock, answers, connVars, stream, gateVars, life, order, unread>>

-----------------------------------------------------------------------------
(* TCPClient::send_ticket_and_prompt.  Without a stream, or when the       *)
(* provider has gone, the ticket may never leave.                          *)
CanLock(t) == task[t].at = "signed" /\ lock = NoTask

SendFails(t) ==
  /\ CanLock(t) /\ ~stream.up
  /\ Return(t)
  /\ lost' = lost \union {task[t].nonce}
  /\ UNCHANGED <<nonce_watermark, lock, answers, connVars, stream, gateVars, life, order, unread>>

(* A fault: the lock covers the write and the read separately.             *)
SendReleasesLock(t) ==
  /\ CanLock(t) /\ stream.phase # "none"
  /\ task' = [task EXCEPT ![t].at = "awaiting"]
  /\ stream' = [stream EXCEPT !.requests = Append(@, Ticket(t))]
  /\ order' = Append(order, task[t].nonce)
  /\ UNCHANGED <<nonce_watermark, lock, answers, connVars, gateVars, life, unread, lost>>

Send(t) ==
  /\ CanLock(t) /\ stream.phase # "none"
  /\ lock' = t
  /\ task' = [task EXCEPT ![t].at = "awaiting"]
  /\ stream' = [stream EXCEPT !.requests = Append(@, Ticket(t))]
  /\ order' = Append(order, task[t].nonce)
  /\ UNCHANGED <<nonce_watermark, answers, connVars, gateVars, life, unread, lost>>

(* Where a read may stop that does not take a whole frame: where it was,   *)
(* further inside the first frame, at its end, or inside the next one.     *)
FurtherInFirst == stream.responses # <<>> /\ stream' = [stream EXCEPT !.inside = TRUE]

ToEndOfFirst ==
  stream.inside /\ stream' = [stream EXCEPT !.responses = Tail(@), !.inside = FALSE]

IntoNext ==
  /\ stream.inside /\ Len(stream.responses) > 1
  /\ stream' = [stream EXCEPT !.responses = Tail(@)]

ReadsOn == FurtherInFirst \/ ToEndOfFirst \/ IntoNext

(* The call is over and its guard dropped, with the answer not read to its *)
(* end.                                                                    *)
Leaves(t) ==
  /\ lock' = NoTask
  /\ Return(t)
  /\ unread' = unread \union {task[t].nonce}

(* read_exact of nine bytes.  In front of a frame they are its header.     *)
ReceiveHeader(t) ==
  /\ task[t].at = "awaiting"
  /\ ~stream.inside /\ stream.responses # <<>> /\ Head(stream.responses).type = "ComputeResp"
  /\ task' = [task EXCEPT ![t].at = "reading"]
  /\ UNCHANGED <<nonce_watermark, lock, answers, connVars, stream, gateVars, life, history>>

(* A header of another type is an error, and its payload stays.            *)
ReceiveWrongType(t) ==
  /\ task[t].at = "awaiting"
  /\ ~stream.inside /\ stream.responses # <<>> /\ Head(stream.responses).type # "ComputeResp"
  /\ Leaves(t)
  /\ FurtherInFirst
  /\ UNCHANGED <<nonce_watermark, answers, connVars, gateVars, life, order, lost>>

(* Inside a frame they are no header, whatever is read of it.              *)
ReceiveBadMagic(t) ==
  /\ task[t].at = "awaiting" /\ stream.inside
  /\ Leaves(t)
  /\ ReadsOn
  /\ UNCHANGED <<nonce_watermark, answers, connVars, gateVars, life, order, lost>>

(* read_exact of the payload, and with it the whole frame, even when the   *)
(* payload turns out to be empty or no UTF-8.                              *)
ReceivePayload(t) ==
  /\ task[t].at = "reading"
  /\ lock' = NoTask
  /\ Return(t)
  /\ stream' = [stream EXCEPT !.responses = Tail(@)]
  /\ \/ answers' = answers \union {[nonce |-> task[t].nonce, answer |-> Head(stream.responses).nonce]}
     \/ UNCHANGED answers
  /\ UNCHANGED <<nonce_watermark, connVars, gateVars, life, history>>

(* A fault: an end in front of an answer is taken for an answer to come.   *)
ReceiveFailsInsideOnly(t) ==
  /\ lock = t
  /\ ~stream.up /\ Len(stream.responses) = 1
  /\ Leaves(t)
  /\ stream' = [stream EXCEPT !.responses = <<>>, !.inside = FALSE]
  /\ UNCHANGED <<nonce_watermark, answers, connVars, gateVars, life, order, lost>>

(* The stream ends under a read, perhaps in the middle of the last frame.  *)
ReceiveFails(t) ==
  /\ lock = t
  /\ ~stream.up /\ Len(stream.responses) <= 1
  /\ Leaves(t)
  /\ stream' = [stream EXCEPT !.responses = <<>>, !.inside = FALSE]
  /\ UNCHANGED <<nonce_watermark, answers, connVars, gateVars, life, order, lost>>

(* The caller drops the call at one of its awaits.  With the lock goes     *)
(* what the read under way had taken: some of the header's bytes, or the   *)
(* header and some of the payload.                                         *)
CancelWaiting(t) ==
  /\ task[t].at = "awaiting"
  /\ Leaves(t)
  /\ UNCHANGED stream \/ ReadsOn
  /\ UNCHANGED <<nonce_watermark, answers, connVars, gateVars, life, order, lost>>

CancelReading(t) ==
  /\ task[t].at = "reading"
  /\ Leaves(t)
  /\ FurtherInFirst
  /\ UNCHANGED <<nonce_watermark, answers, connVars, gateVars, life, order, lost>>

CancelEarly(t) ==
  /\ task[t].at \in {"begun", "signing", "signed"}
  /\ Return(t)
  /\ lost' = IF task[t].at = "begun" THEN lost ELSE lost \union {task[t].nonce}
  /\ UNCHANGED <<nonce_watermark, lock, answers, connVars, stream, gateVars, life, order, unread>>

Cancel(t) == CancelEarly(t) \/ CancelWaiting(t) \/ CancelReading(t)

-----------------
(* connect() and perform_handshake().  A new stream starts with the        *)
(* listener's HandshakeInit.                                               *)
NewStream ==
  [NoStream EXCEPT !.phase = "raw", !.up = TRUE, !.responses = <<Frame("HandshakeInit", 0, Fresh)>>]

(* A fault: a new connection counts from one again, as its watermark does. *)
ConnectResetsNonce ==
  /\ ~shaking /\ lock = NoTask /\ conns < MaxConns
  /\ shaking' = TRUE
  /\ conns' = conns + 1
  /\ stream' = NewStream
  /\ nonce_watermark' = 0
  /\ order' = <<>> /\ unread' = {} /\ answers' = {}
  /\ UNCHANGED <<task, lock, provider_commitment, gateVars, life, lost>>

Connect ==
  /\ ~shaking /\ lock = NoTask /\ conns < MaxConns
  /\ shaking' = TRUE
  /\ conns' = conns + 1
  /\ stream' = NewStream
  /\ order' = <<>> /\ unread' = {} /\ answers' = {}
  /\ UNCHANGED <<nonce_watermark, task, lock, provider_commitment, gateVars, life, lost>>

(* The greeting is read and acknowledged.  A call that read it first has   *)
(* left the connector bytes that are no header, or nothing: then it waits, *)
(* with the lock, until the provider gives up.                             *)
HandshakeOk ==
  /\ ~stream.inside /\ stream.responses # <<>>
  /\ stream' = [stream EXCEPT !.responses = Tail(@), !.requests = Append(@, Frame("HandshakeAck", 0, 0))]
  /\ provider_commitment' = Head(stream.responses).commitment

HandshakeFails ==
  /\ UNCHANGED provider_commitment
  /\ \/ stream.inside /\ ReadsOn
     \/ stream.responses = <<>> /\ stream' = [stream EXCEPT !.up = FALSE]

Handshake ==
  /\ shaking /\ lock = NoTask
  /\ shaking' = FALSE
  /\ HandshakeOk \/ HandshakeFails
  /\ UNCHANGED <<nonce_watermark, callVars, conns, gateVars, life, history>>

(* The client's process ends and starts again: Signer::new and             *)
(* TCPClient::new, and nothing of the old calls.                           *)
Restart ==
  /\ life < MaxLives
  /\ life' = life + 1
  /\ nonce_watermark' = 0 /\ provider_commitment' = 0
  /\ task' = [t \in Tasks |-> NewCall] /\ lock' = NoTask /\ shaking' = FALSE
  /\ stream' = NoStream
  /\ order' = <<>> /\ unread' = {} /\ answers' = {} /\ lost' = {}
  /\ UNCHANGED <<conns, gateVars>>

-----------------------------------------------------------------------------
(* The provider's end of the stream: the handshake of this repository,     *)
(* and the service of tickets its decisions are meant for.                 *)
ProviderHandshakes ==
  /\ stream.up /\ stream.phase = "raw" /\ stream.requests # <<>>
  /\ stream' = [stream EXCEPT !.requests = Tail(@),
                  !.phase = IF Head(stream.requests).type = "HandshakeAck" THEN "open" ELSE @,
                  !.up = Head(stream.requests).type = "HandshakeAck"]
  /\ UNCHANGED <<nonce_watermark, callVars, connVars, gateVars, life, history>>

Answered(ticket) ==
  [stream EXCEPT !.requests = Tail(@), !.responses = Append(@, Frame("ComputeResp", ticket.nonce, 0))]

(* A fault: a served ticket leaves the watermark where it was.             *)
ServesKeepingWatermark(ticket) == stream' = Answered(ticket)

Serves(ticket) == stream' = [Answered(ticket) EXCEPT !.last_nonce = ticket.nonce]

Halts(ticket) == stream' = [stream EXCEPT !.requests = Tail(@), !.halted = <<ticket>>, !.up = FALSE]

(* The gate's checks that tell apart the tickets of an honest client.      *)
Accepts(ticket) ==
  /\ ~seed.spent
  /\ ticket.nonce = stream.last_nonce + 1
  /\ ticket.commitment = seed.epoch

Gate ==
  /\ stream.up /\ stream.phase = "open" /\ stream.requests # <<>>
  /\ LET ticket == Head(stream.requests)
     IN  IF Accepts(ticket)
         THEN /\ Serves(ticket)
              /\ served' = Append(served, [life |-> life, nonce |-> ticket.nonce])
              /\ \E wins \in BOOLEAN : seed' = [seed EXCEPT !.spent = wins]
         ELSE Halts(ticket) /\ UNCHANGED gateVars
  /\ UNCHANGED <<nonce_watermark, callVars, connVars, life, history>>

(* A client of another stream draws a win from the shared verifier.        *)
OtherSessionWins ==
  /\ ~seed.spent /\ seed.epoch < MaxSeeds
  /\ seed' = [seed EXCEPT !.spent = TRUE]
  /\ UNCHANGED <<nonce_watermark, callVars, connVars, stream, served, life, history>>

(* The new commitment reaches the verifier and nobody else.                *)
Rotate ==
  /\ seed.spent /\ seed.epoch < MaxSeeds
  /\ seed' = [epoch |-> seed.epoch + 1, spent |-> FALSE]
  /\ UNCHANGED <<nonce_watermark, callVars, connVars, stream, served, life, history>>

(* The provider's handshake timeout, its exit, or the network's loss.      *)
ConnectionEnds ==
  /\ stream.up
  /\ stream' = [stream EXCEPT !.up = FALSE]
  /\ UNCHANGED <<nonce_watermark, callVars, connVars, gateVars, life, history>>

Call(t) == \/ NextNonce(t) \/ SignOk(t) \/ SignFails(t)
           \/ Send(t) \/ SendFails(t)
           \/ ReceiveHeader(t) \/ ReceivePayload(t)
           \/ ReceiveWrongType(t) \/ ReceiveBadMagic(t) \/ ReceiveFails(t)

Provider == ProviderHandshakes \/ Gate

Next ==
  \/ \E t \in Tasks : get_provider_commitment(t) \/ Call(t) \/ Cancel(t)
  \/ Connect \/ Handshake \/ Restart
  \/ Provider \/ OtherSessionWins \/ Rotate \/ ConnectionEnds

Spec == Init /\ [][Next]_vars

(* The client's own runtime only: it polls a call that can go on, and the  *)
(* tokio lock is first come, first served.  Nothing is asked of callers,   *)
(* connector, provider or network.                                         *)
FairSpec ==
  /\ Spec
  /\ \A t \in Tasks : WF_vars(Call(t))

-----------------------------------------------------------------------------
(* Types; a call waits for its answer exactly while it holds the lock, and *)
(* one that has read the header is in front of an answer.                  *)
TypeOK ==
  /\ nonce_watermark \in 0 .. MaxNonce
  /\ provider_commitment \in {0, Fresh}
  /\ task \in [Tasks -> [at : {"idle", "begun", "signing", "signed", "awaiting", "reading"},
                         nonce : 0 .. MaxNonce, commitment : {0, Fresh}]]
  /\ \A t \in Tasks : task[t].at \in {"awaiting", "reading"} <=> lock = t
  /\ \A t \in Tasks : task[t].at = "reading" => ~stream.inside /\ stream.responses # <<>>
  /\ stream.inside => stream.responses # <<>>
  /\ lock \in Tasks \union {NoTask}
  /\ stream.phase \in {"none", "raw", "open"}
  /\ stream.last_nonce \in 0 .. MaxNonce
  /\ seed \in [epoch : 1 .. MaxSeeds, spent : BOOLEAN]

(* While a client lives no two of its tickets carry the same nonce,        *)
(* whatever failed in between: the nonces in hand, written and lost are    *)
(* all different.  crypto.rs:95.                                           *)
NoncesAreUnique ==
  LET held(t) == task[t].at \in {"signing", "signed"}
  IN  /\ \A t, u \in Tasks : held(t) /\ held(u) /\ task[t].nonce = task[u].nonce => t = u
      /\ \A t \in Tasks : held(t) => task[t].nonce \notin lost \union ToSet(order)
      /\ ToSet(order) \intersect lost = {}
      /\ IsInjective(order)

(* A provider serves a nonce once in a client's life, over all of its      *)
(* connections, although every handshake sets the watermark back to zero:  *)
(* no two wins of one life meet at one nullifier of the contract.  Only a  *)
(* restarted client is served a nonce again.  crypto.rs:59, transport.rs:185. *)
NonceServedOnce == IsInjective(served)

(* The provider halts an honest client for three reasons only.  It left a  *)
(* gap: some smaller nonce had not been written to this stream when the    *)
(* rejected one was, because it was overtaken, lost, or spent on an        *)
(* earlier stream.  Its call began before the first handshake.  Or a win   *)
(* has been drawn from the listener's seed: the listener never learns of a *)
(* rotation, transport.rs:86.                                              *)
LeftGap(ticket) ==
  \E g \in 1 .. ticket.nonce - 1 :
    \A i, j \in DOMAIN order : order[i] = g /\ order[j] = ticket.nonce => i > j

HaltIsExplained ==
  \A ticket \in ToSet(stream.halted) :
    \/ LeftGap(ticket)
    \/ ticket.commitment = 0
    \/ seed # [epoch |-> Fresh, spent |-> FALSE]

(* What a call returns is the answer to its own ticket as long as every    *)
(* earlier call on the stream read its answer to the end.  After one that  *)
(* was dropped, or found bytes that are no header, a call that is answered *)
(* at all gets an earlier ticket's answer, never a later one's; it is late *)
(* by no more than there were such calls, and no answer is given twice.    *)
(* The lock alone keeps requests and answers in step, transport.rs:166.    *)
LeftBefore(i) == {k \in 1 .. i - 1 : order[k] \in unread}

AnswersAreOwnOrLate ==
  /\ \A r \in answers :
       \E i, j \in DOMAIN order :
         /\ order[i] = r.nonce /\ order[j] = r.answer
         /\ j <= i /\ i - j <= Cardinality(LeftBefore(i))
         /\ i = j <=> LeftBefore(i) = {}
  /\ \A r, s \in answers : r.answer = s.answer => r = s

(* The reads have no timeout and hold the lock (transport.rs:172, 186), so *)
(* a provider that stays silent on an open connection blocks every caller. *)
(* Nothing else does: the holder of the lock returns once an answer or the *)
(* connection's end is there, wherever in the frame it stands, and while   *)
(* the client has no connection every call returns.                        *)
HolderCanGoOn(t) ==
  lock = t /\ (~stream.up \/ (~stream.inside /\ stream.responses # <<>>))

OnlySilenceBlocks ==
  \A t \in Tasks :
    /\ HolderCanGoOn(t) ~> lock # t
    /\ <>[](~stream.up) => []<>(task[t].at = "idle")
=============================================================================
