------------------------------ MODULE MCEscrow ------------------------------
(***************************************************************************)
(* A small instance of the escrow: two clients, one provider, a token      *)
(* supply of two, and the claims that tell the contract's checks apart.    *)
(***************************************************************************)
EXTENDS SPMPEscrow

CONSTANTS alice, bob, carol, escrow, seed1, seed2

Clients    == {alice, bob}
MCAccounts == {alice, bob, carol}
MCPairs    == {<<client, carol>> : client \in Clients}

(* Half the odds: hashes below 7 win.  Only the pair of ticket and seed     *)
(* that loses is named; every other draw wins.                             *)
Ticket(client, nonce, faceValue, expiry) ==
  [channelId |-> <<client, carol>>, nonce |-> nonce, faceValue |-> faceValue,
   winProbNumerator |-> 1, winProbDenominator |-> 2, expiry |-> expiry,
   clientSeed |-> seed1, providerCommitment |-> Keccak(seed1)]

(* Two tickets of one nonce, a second nonce that expires early, a losing   *)
(* nonce, and a ticket of the other client.                                *)
Cheap  == Ticket(alice, 1, 1, 5)
Dear   == Ticket(alice, 1, 2, 4)
Early  == Ticket(alice, 2, 1, 2)
Losing == Ticket(alice, 3, 1, 5)
Other  == Ticket(bob, 1, 1, 5)

MCTickets == {Cheap, Dear, Early, Losing, Other}

MCCombinedHash(ticket, seed) == IF ticket = Losing THEN 7 ELSE 6

Sign(signer, ticket, s) == [signer |-> signer, over |-> ticket, s |-> s]

Claim(ticket, signature, seed) ==
  [ticket |-> ticket, signature |-> signature, providerSeed |-> seed]

(* The honest claim of each ticket, and for one ticket a malleated         *)
(* signature, a signature over another ticket, the provider's own          *)
(* signature and a wrong seed.                                             *)
MCClaims ==
  {Claim(t, Sign(t.channelId[1], t, 3), seed1) : t \in MCTickets} \cup
  {Claim(Cheap, Malleated(Sign(alice, Cheap, 3)), seed1),
   Claim(Cheap, Sign(alice, Dear, 3), seed1),
   Claim(Cheap, Sign(carol, Cheap, 3), seed1),
   Claim(Cheap, Sign(alice, Cheap, 3), seed2)}

=============================================================================
