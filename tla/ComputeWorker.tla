--------------------------- MODULE ComputeWorker ---------------------------
(***************************************************************************)
(* The provider's compute worker: it forwards the body of an LLM server's  *)
(* HTTP response chunk by chunk, each chunk decoded on its own.  A token   *)
(* reaches the client in a ComputeResp frame.  A character is one byte or  *)
(* two here, the shortest kind that can be cut; a replaced byte stays one  *)
(* cell.                                                                   *)
(***************************************************************************)
EXTENDS WireFormat

(* A chunk is [ok, bytes]; one that is not ok is a transport error.        *)

(* String::from_utf8_lossy: a byte of no whole character is replaced.      *)
from_utf8_lossy(bytes) == [i \in DOMAIN bytes |-> IF Whole(bytes, i) THEN bytes[i] ELSE REPLACEMENT]

(* A fault: the bytes are passed on as they are.                           *)
TokenUnchecked(chunk) == IF chunk.ok THEN chunk.bytes ELSE <<>>

Token(chunk) == IF chunk.ok THEN from_utf8_lossy(chunk.bytes) ELSE <<>>

generate_token_stream(chunks) == [i \in DOMAIN chunks |-> Token(chunks[i])]

(* What the client reads of them.                                          *)
Received(chunks) ==
  [i \in DOMAIN chunks |->
     receive_response(encode_response_frame(generate_token_stream(chunks)[i], FALSE))]

-----------------------------------------------------------------------------
(* The bytes that came of the answer, and where its chunks end in them.    *)
Arrived(chunks) == [i \in DOMAIN chunks |-> IF chunks[i].ok THEN chunks[i].bytes ELSE <<>>]
Ends(chunks) == {Len(FlattenSeq(SubSeq(Arrived(chunks), 1, k))) : k \in DOMAIN chunks}

(* However an answer is cut into chunks, every one reaches the client as   *)
(* text; put together they are the answer that arrived, byte for byte, but *)
(* for the characters that lie across two chunks.  A chunk that failed     *)
(* leaves no trace.                                                        *)
TokensArrive(chunks) ==
  LET received == Received(chunks)
      sent == FlattenSeq(Arrived(chunks))
      text == FlattenSeq([i \in DOMAIN chunks |-> received[i].text])
      cut(p) == \/ sent[p] \in Leads /\ p \in Ends(chunks)
                \/ sent[p] \in Conts /\ p - 1 \in Ends(chunks)
  IN  /\ \A i \in DOMAIN received : received[i].ok
      /\ IsUtf8(sent) =>
           text = [p \in DOMAIN sent |-> IF cut(p) THEN REPLACEMENT ELSE sent[p]]
=============================================================================
