--------------------------- MODULE MCAlgorithms ---------------------------
(***************************************************************************)
(* The sequential code for TLC.  A behaviour takes one part and sweeps     *)
(* its inputs: the lottery draw over every odds and hash of a small word,  *)
(* byte sequences that grow cell by cell, as a prompt, as a buffer from    *)
(* the network, or as an answer that arrives in chunks, and the runs of    *)
(* the simulate binary.                                                    *)
(***************************************************************************)
EXTENDS Simulator, ComputeWorker, MCWinOdds

VARIABLES topic, bytes, chunks

algVars == <<topic, bytes, chunks, oddsVars, allVars>>

(* The cells each topic's sequences are made of, and their length.         *)
Cells == [prompt |-> {0, 1}, request |-> {0, 1, 2}, answer |-> {0} \union Leads \union Conts,
          response |-> {0, 1, 2, ComputeResp, SPMP_MAGIC} \union Leads \union Conts]

MaxLen == [prompt |-> 6, request |-> 8, answer |-> 2, response |-> 6]

(* A u32 holds the length of the longest of them.                          *)
ASSUME LengthsFit == 2 + MaxLen.request <= U32

Topics == {"odds", "simulate"} \union DOMAIN Cells

AlgInit ==
  /\ topic \in Topics
  /\ IF topic = "odds" THEN OddsInit ELSE num = 0 /\ denom = 0 /\ hash = 0
  /\ bytes = <<>>
  /\ chunks = <<>>
  /\ SimInit

SweepOdds ==
  /\ topic = "odds"
  /\ Draw
  /\ UNCHANGED <<topic, bytes, chunks, allVars>>

Simulate ==
  /\ topic = "simulate"
  /\ SimNext
  /\ UNCHANGED <<topic, bytes, chunks, oddsVars>>

Grow ==
  /\ topic \in DOMAIN Cells /\ Len(bytes) < MaxLen[topic]
  /\ \E cell \in Cells[topic] : bytes' = Append(bytes, cell)
  /\ UNCHANGED <<topic, chunks, oddsVars, allVars>>

(* The bytes gathered so far, none possibly, become a chunk.               *)
Chunk ==
  /\ topic = "answer" /\ Len(chunks) < 3
  /\ \E ok \in BOOLEAN : chunks' = Append(chunks, [ok |-> ok, bytes |-> bytes])
  /\ bytes' = <<>>
  /\ UNCHANGED <<topic, oddsVars, allVars>>

AlgNext == SweepOdds \/ Simulate \/ Grow \/ Chunk

AlgSpec == AlgInit /\ [][AlgNext]_algVars

-----------------------------------------------------------------------------
(* Below certainty, gatekeeper and contract draw alike (verifier.rs target *)
(* clamping against claimTicket's checked product), at any odds no draw    *)
(* the contract pays is served as a losing ticket, and the target realises *)
(* the advertised odds up to rounding.                                     *)
LotteryIsFair ==
  BelowCertaintyDrawsAgree /\ NoPayoutIsMissed /\ OddsAsAdvertised

(* The two daemons' ticket codecs are inverse.  What encode_ticket_frame   *)
(* sends passes read_frame and decode_ticket_frame unchanged up to the     *)
(* frame limit (transport.rs:298), and is refused above it; what           *)
(* decode_ticket_frame accepts has that one reading only.                  *)
TicketCodecsAreInverse ==
  /\ topic = "prompt" =>
       \A face \in 0 .. MaxUint128, signature \in {<<>>, <<0>>, <<1, 0>>},
          following \in {<<>>, <<0>>, <<SPMP_MAGIC, 3, 1>>} :
         TicketArrives(<<7, face>>, signature, bytes, following)
  /\ topic = "request" => AcceptedIsEncoded(<<SPMP_MAGIC, 3>> \o bytes)

(* decode_response_frame and the decoder inlined in send_ticket_and_prompt *)
(* accept the same bytes and read the same in them.                        *)
ResponseDecodersAgree == topic = "response" => DecodersAgree(bytes)

(* worker.rs:50: chunks are decoded one by one, and only characters cut in *)
(* two are damaged.                                                        *)
AnswersArriveWhole == topic = "answer" => TokensArrive(chunks)
=============================================================================
