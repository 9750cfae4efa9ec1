---------------------------- MODULE MCTCPServer ----------------------------
(***************************************************************************)
(* The TCP server for TLC: a 5 s timeout is 2 ticks, a payload at the size *)
(* limit is 3, and an ack is 2 long.                                       *)
(***************************************************************************)
EXTENDS TCPServer, TLC

frame(type, len, nonce) ==
  [magic |-> TRUE, type |-> type, len |-> len, decodes |-> type = "TicketRequest", nonce |-> nonce]

Ack == frame("HandshakeAck", ACK_LEN, 0)

(* Tickets at the limit of the size and of the nonces, a ticket cut short, *)
(* a frame that is no ticket but would decode as one, an empty payload, an *)
(* oversized one, and a stream that is not SPMP.                           *)
McFrames ==
  {Ack, frame("HandshakeAck", ACK_LEN - 1, 0), frame("TicketRequest", MAX_FRAME_SIZE, 1),
   frame("TicketRequest", MAX_FRAME_SIZE, MaxUint64),
   [frame("TicketRequest", 1, 0) EXCEPT !.decodes = FALSE],
   [frame("ComputeResp", MAX_FRAME_SIZE, 1) EXCEPT !.decodes = TRUE],
   frame("unknown", 0, 0), frame("TicketRequest", MAX_FRAME_SIZE + 1, 1),
   [Ack EXCEPT !.magic = FALSE]}

(* The few that matter to the handshake.                                   *)
McHandshakeFrames == {Ack, frame("TicketRequest", MAX_FRAME_SIZE, 1)}
=============================================================================
