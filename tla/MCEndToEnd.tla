----------------------------- MODULE MCEndToEnd -----------------------------
(***************************************************************************)
(* One client and its provider, who draws up to three seeds.  The client's *)
(* tickets repeat the first nonce under a second seed, as after a          *)
(* reconnect; two of the wins exceed the channel's balance together.       *)
(***************************************************************************)
EXTENDS EndToEnd

CONSTANTS alice, carol, seed1, seed2, seed3

MCClients == {alice}
MCAccounts == {alice, carol}
MCPairs == {<<alice, carol>>}

Ticket(nonce, faceValue, draw, seed) ==
  [channelId |-> <<alice, carol>>, nonce |-> nonce, faceValue |-> faceValue,
   winProbNumerator |-> 1, winProbDenominator |-> 2, expiry |-> 2,
   clientSeed |-> draw, providerCommitment |-> Keccak(seed)]

MCTickets ==
  {Ticket(1, 1, seed1, seed1), Ticket(1, 2, seed1, seed2),
   Ticket(1, 1, seed2, seed1), Ticket(2, 1, seed1, seed2),
   Ticket(1, 1, seed1, seed3), Ticket(2, 1, seed1, seed1)}

(* The client's entropy decides: seed1 wins, seed2 loses.                  *)
MCCombinedHash(ticket, seed) == IF ticket.clientSeed = seed1 THEN 0 ELSE MaxUint256

MCFrames ==
  {[ticket |-> t, signature |-> [signer |-> alice, over |-> t, s |-> 2]] : t \in MCTickets}

MCClaims == {Gate!ClaimOf(frame, seed) : frame \in MCFrames, seed \in Seeds}

=============================================================================
