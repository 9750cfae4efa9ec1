-------------------------- MODULE MCTicketVerifier --------------------------
(***************************************************************************)
(* Two clients share one verifier.  Each client's tickets cover the nonces *)
(* of a very short 64-bit range and both outcomes of the draw under each   *)
(* seed the provider may hold.                                             *)
(***************************************************************************)
EXTENDS TicketVerifier, FiniteSetsExt

CONSTANTS alice, bob, carol, seed1, seed2, seed3

MCClients == {alice, bob}
MCAccounts == {alice, bob, carol}
MCPairs == {<<alice, carol>>, <<bob, carol>>}

(* Whether a ticket wins is written in its client entropy: seed1 draws a   *)
(* winning hash, seed2 a losing one.                                       *)
MCCombinedHash(ticket, seed) == IF ticket.clientSeed = seed1 THEN 0 ELSE MaxUint256 - 1

Ticket(client, nonce, num, expiry, clientSeed, seed) ==
  [channelId |-> <<client, carol>>, nonce |-> nonce, faceValue |-> 1,
   winProbNumerator |-> num, winProbDenominator |-> 2, expiry |-> expiry,
   clientSeed |-> clientSeed, providerCommitment |-> Keccak(seed)]

(* The last ticket of each client is certain to win; the wrapped nonce 0   *)
(* must never be served.                                                   *)
MCTickets ==
  {Ticket(alice, nonce, 1, 2, draw, seed) :
     nonce \in {0, 1, 2}, draw \in {seed1, seed2}, seed \in {seed1, seed2}} \cup
  {Ticket(bob, 1, 1, 1, draw, seed) : draw \in {seed1, seed2}, seed \in {seed1, seed2}} \cup
  {Ticket(bob, 2, 2, 2, seed2, seed2)}

Frame(ticket, signer, s) ==
  [ticket |-> ticket, signature |-> [signer |-> signer, over |-> ticket, s |-> s]]

(* Low signatures, their malleated twins, and a stranger's.                *)
MCFrames ==
  {Frame(t, t.channelId[1], 2) : t \in MCTickets} \cup
  {Frame(Ticket(alice, 1, 1, 2, seed1, seed1), alice, SECP256K1_N - 2),
   Frame(Ticket(alice, 1, 1, 2, seed2, seed1), bob, 2)}

(* The s that lies above half the order and below the constant's value.    *)
GapFrames == {Frame(Ticket(alice, 1, 1, 2, draw, seed1), alice, 6) : draw \in {seed1, seed2}}

AllFrames == MCFrames \cup GapFrames

(* The curve constants as the code has them, in 16-bit digits: the literal *)
(* SECP256K1_HALF_ORDER is larger than half of SECP256K1_N, as 6 is larger *)
(* than half of 11 in this instance.                                       *)
OrderDigits ==
  <<65535, 65535, 65535, 65535, 65535, 65535, 65535, 65534,
    47790, 56550, 44872, 41019, 49106, 24204, 53302, 16705>>

HalfOrderDigits ==
  <<32767, 65535, 65535, 65535, 65535, 65535, 65535, 65535,
    23895, 28275, 24254, 1881, 32167, 34368, 3730, 32464>>

HalfOf(digits) ==
  [i \in DOMAIN digits |->
     (digits[i] + (IF i = 1 THEN 0 ELSE 65536 * (digits[i - 1] % 2))) \div 2]

Below(a, b) == LET d == Min({i \in DOMAIN a : a[i] # b[i]}) IN a[d] < b[d]

ASSUME LiteralIsTooLarge == Below(HalfOf(OrderDigits), HalfOrderDigits)

=============================================================================
