----------------------------- MODULE WireFormat -----------------------------
(***************************************************************************)
(* The frames of the SPMP wire: what the client encodes and the provider   *)
(* decodes, and the other way round.  The repository writes every layout   *)
(* twice, once in each daemon.                                             *)
(*                                                                         *)
(* A buffer is a sequence of cells, a cell a number.  The fixed-width      *)
(* fields (magic, u32 lengths) are one cell each, so a header is three     *)
(* cells; a ticket's ABI encoding is two, its face value and the rest.     *)
(* The cast "len as u32" keeps its modulus, U32.                           *)
(***************************************************************************)
EXTENDS Integers, SequencesExt

CONSTANTS SPMP_MAGIC,
          MAX_FRAME_SIZE,   \* largest payload the provider reads
          U32,              \* 2^32
          MaxUint128,       \* u128::MAX
          Leads, Conts,     \* bytes that begin and continue a two-byte character
          REPLACEMENT       \* U+FFFD

ASSUME WireAssumption ==
  /\ SPMP_MAGIC \in Nat /\ MaxUint128 \in Nat
  /\ U32 \in Nat /\ MAX_FRAME_SIZE \in 0 .. U32 - 1
  /\ Leads \subseteq Nat /\ Conts \subseteq Nat /\ Leads \intersect Conts = {}
  /\ REPLACEMENT \in Nat \ (Leads \union Conts)

TICKET_ABI_LEN == 2
HEADER_LEN == 3

TicketRequest == 3
ComputeResp == 4
MsgTypeBytes == {1, 2, 3, 4, 5, 255}

Err == [ok |-> FALSE]

Drop(s, n) == SubSeq(s, n + 1, Len(s))
Take(s, n) == SubSeq(s, 1, n)

-----------------------------------------------------------------------------
(* String::from_utf8: every byte belongs to a whole character.             *)
Whole(bytes, i) ==
  \/ bytes[i] \notin Leads \union Conts
  \/ bytes[i] \in Leads /\ i < Len(bytes) /\ bytes[i + 1] \in Conts
  \/ bytes[i] \in Conts /\ i > 1 /\ bytes[i - 1] \in Leads

IsUtf8(bytes) == \A i \in DOMAIN bytes : Whole(bytes, i)

-----------------------------------------------------------------------------
(* The client's side.  A ticket is <<rest, faceValue>>; the wire has 128   *)
(* bits for the face value, and a larger one becomes zero.                 *)
WireTicket(ticket) == <<ticket[1], IF ticket[2] <= MaxUint128 THEN ticket[2] ELSE 0>>

Block(bytes) == <<Len(bytes) % U32>> \o bytes

build_frame(type, payload) == <<SPMP_MAGIC, type>> \o Block(payload)

encode_ticket_frame(ticket, signature, prompt) ==
  build_frame(TicketRequest, WireTicket(ticket) \o Block(signature) \o Block(prompt))

Response(payload) ==
  IF payload # <<>> /\ IsUtf8(Tail(payload))
  THEN [ok |-> TRUE, text |-> Tail(payload), is_done |-> Head(payload) # 0] ELSE Err

IsResponse(buf) == buf[1] = SPMP_MAGIC /\ buf[2] = ComputeResp

(* A fault: the buffer must be one frame exactly.                          *)
decode_response_frame_exact(buf) ==
  IF /\ Len(buf) >= HEADER_LEN + 1
     /\ IsResponse(buf)
     /\ Len(buf) = HEADER_LEN + buf[3]
  THEN Response(Drop(buf, HEADER_LEN)) ELSE Err

decode_response_frame(buf) ==
  IF /\ Len(buf) >= HEADER_LEN + 1
     /\ IsResponse(buf)
     /\ Len(buf) >= HEADER_LEN + buf[3]
  THEN Response(Take(Drop(buf, HEADER_LEN), buf[3])) ELSE Err

(* The decoder inlined in send_ticket_and_prompt, over a stream that has   *)
(* delivered all it will: two read_exact calls.                            *)
receive_response(stream) ==
  IF Len(stream) < HEADER_LEN \/ ~IsResponse(stream) THEN Err
  ELSE LET rest == Drop(stream, HEADER_LEN)
       IN  IF Len(rest) < stream[3] THEN Err ELSE Response(Take(rest, stream[3]))

-----------------------------------------------------------------------------
(* The provider's side.                                                    *)
encode_response_frame(token_chunk, is_finished) ==
  build_frame(ComputeResp, <<IF is_finished THEN 1 ELSE 0>> \o token_chunk)

Fits(len) == len <= MAX_FRAME_SIZE

(* read_frame drops the length from the frame it returns, with what it     *)
(* leaves in the stream.  Its end within a header is a clean one.          *)
read_frame(stream) ==
  IF Len(stream) < HEADER_LEN THEN [ok |-> TRUE, frame |-> <<>>, rest |-> <<>>]
  ELSE LET rest == Drop(stream, HEADER_LEN)
           len == stream[3]
       IN  IF stream[1] # SPMP_MAGIC \/ ~Fits(len) \/ Len(rest) < len THEN Err
           ELSE [ok |-> TRUE, frame |-> Take(stream, 2) \o Take(rest, len), rest |-> Drop(rest, len)]

split_frame(buf) ==
  IF Len(buf) < 2 \/ buf[1] # SPMP_MAGIC \/ buf[2] \notin MsgTypeBytes THEN Err
  ELSE [ok |-> TRUE, type |-> buf[2], payload |-> Drop(buf, 2)]

(* A length-prefixed block off the front of a buffer, at least min cells   *)
(* being left behind it.                                                   *)
TakeBlock(buf, min) ==
  IF buf = <<>> \/ Len(buf) < 1 + buf[1] + min THEN Err
  ELSE [ok |-> TRUE, block |-> Take(Tail(buf), buf[1]), rest |-> Drop(buf, 1 + buf[1])]

(* A fault: the prompt is all that is left of the frame.                   *)
PromptIsTheRest(buf) == IF buf = <<>> THEN Err ELSE [ok |-> TRUE, block |-> Tail(buf)]

PromptOf(buf) == TakeBlock(buf, 0)

(* decode_ticket: the padding of the ABI's words must be zero, so a face   *)
(* value above 128 bits is refused.                                        *)
decode_ticket(cells) == IF cells[2] <= MaxUint128 THEN [ok |-> TRUE, ticket |-> cells] ELSE Err

decode_ticket_frame(buf) ==
  LET frame == split_frame(buf)
  IN  IF ~frame.ok THEN Err
      ELSE IF frame.type # TicketRequest \/ Len(frame.payload) < TICKET_ABI_LEN + 1 THEN Err
      ELSE LET ticket == decode_ticket(Take(frame.payload, TICKET_ABI_LEN))
               signature == TakeBlock(Drop(frame.payload, TICKET_ABI_LEN), 1)
           IN  IF ~ticket.ok \/ ~signature.ok THEN Err
               ELSE LET prompt == PromptOf(signature.rest)
                    IN  IF ~prompt.ok THEN Err
                        ELSE [ok |-> TRUE, ticket |-> ticket.ticket,
                              signature |-> signature.block, prompt_payload |-> prompt.block]

-----------------------------------------------------------------------------
(* A signed ticket with its prompt arrives as it was sent, and what        *)
(* follows it in the stream is untouched; a frame above the provider's     *)
(* limit, which the client does not know, ends the session.                *)
TicketArrives(ticket, signature, prompt, following) ==
  LET size == TICKET_ABI_LEN + 1 + Len(signature) + 1 + Len(prompt)
      read == read_frame(encode_ticket_frame(ticket, signature, prompt) \o following)
  IN  IF size <= MAX_FRAME_SIZE
      THEN /\ read.ok /\ read.rest = following
           /\ decode_ticket_frame(read.frame) =
                [ok |-> TRUE, ticket |-> ticket, signature |-> signature, prompt_payload |-> prompt]
      ELSE size < U32 => ~read.ok

(* Whatever bytes the provider takes for a ticket frame are the client's   *)
(* encoding of what it reads in them, and bytes it ignores after it.       *)
AcceptedIsEncoded(buf) ==
  LET read == decode_ticket_frame(buf)
  IN  read.ok =>
        LET sent == encode_ticket_frame(read.ticket, read.signature, read.prompt_payload)
        IN  IsPrefix(Drop(sent, HEADER_LEN), Drop(buf, 2))

(* The client's two decoders of a response are one function.               *)
DecodersAgree(buf) == decode_response_frame(buf) = receive_response(buf)
=============================================================================
