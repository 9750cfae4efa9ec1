------------------------------ MODULE Tickets ------------------------------
(***************************************************************************)
(* The data both daemons and the contract exchange: tickets, the client's  *)
(* signature over one, and the claim a provider submits for it.            *)
(*                                                                         *)
(* Hash functions are injective constructors, and the combined hash of the *)
(* lottery is a parameter, so that every outcome of the draw is covered.   *)
(* Ticket.provider is part of the signed digest only: neither the contract *)
(* nor the gatekeeper ever compares it, so the record leaves it out.       *)
(***************************************************************************)
EXTENDS WinOdds

CONSTANTS Pairs,                  \* the (client, provider) pairs of the system
          Nonces,                 \* ticket nonces
          Seeds,                  \* 32-byte secrets: rP and rR
          TicketSet,              \* the tickets clients may have signed
          CombinedHash(_, _),     \* keccak(digest(ticket) ++ clientSeed ++ rP)
          SECP256K1_N,            \* curve order
          SECP256K1_HALF_ORDER    \* the low-s limit written in types.rs

(* A channel id is the hash of the pair of addresses: the pair itself.     *)
getChannelId(client, provider) == <<client, provider>>

Keccak(seed) == [keccak256 |-> seed]

Commitments == {Keccak(seed) : seed \in Seeds}

Tickets ==
  [channelId : Pairs, nonce : Nonces, faceValue : 0 .. MaxUint256,
   winProbNumerator : Odds, winProbDenominator : Odds,
   expiry : Nat, clientSeed : Seeds, providerCommitment : Commitments]

ASSUME TicketAssumption ==
  /\ Pairs \subseteq Accounts \X Accounts
  /\ Nonces \subseteq Nat
  /\ TicketSet \subseteq Tickets
  /\ \A ticket \in TicketSet, seed \in Seeds : CombinedHash(ticket, seed) \in Hashes
  /\ SECP256K1_N \in Nat \ {0}
  /\ SECP256K1_HALF_ORDER \in 0 .. SECP256K1_N - 1

-----------------------------------------------------------------------------
(* ECDSA.  A signature carries the s value that malleability is about;     *)
(* negating s (and flipping the recovery bit) recovers the same signer.    *)
Signatures == [signer : Accounts, over : TicketSet, s : 1 .. SECP256K1_N - 1]

Malleated(sig) == [sig EXCEPT !.s = SECP256K1_N - @]

(* A signature over another message recovers an address nobody holds.      *)
Recover(ticket, sig) == IF sig.over = ticket THEN sig.signer ELSE NoAddress

(* What claimTicket takes: the ticket, its signature, the revealed seed.   *)
Claims == [ticket : TicketSet, signature : Signatures, providerSeed : Seeds]

-----------------------------------------------------------------------------
(* The checks of claimTicket that depend on the claim alone.               *)
SeedMatches(claim) == Keccak(claim.providerSeed) = claim.ticket.providerCommitment

(* OpenZeppelin's recover reverts on an s above half the curve order.      *)
SignedBy(claim, client) ==
  /\ claim.signature.s <= SECP256K1_N \div 2
  /\ Recover(claim.ticket, claim.signature) = client

Wins(claim) ==
  ChainWins(claim.ticket.winProbNumerator, claim.ticket.winProbDenominator,
            CombinedHash(claim.ticket, claim.providerSeed))

=============================================================================
