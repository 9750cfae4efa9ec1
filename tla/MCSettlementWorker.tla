------------------------- MODULE MCSettlementWorker -------------------------
(***************************************************************************)
(* One channel, a client that may close it, and claims that compete for    *)
(* its money: two winning tickets the balance cannot cover together, one   *)
(* that expires early and one the contract's draw refuses.                 *)
(***************************************************************************)
EXTENDS SettlementWorker

CONSTANTS alice, carol, seed1

MCAccounts == {alice, carol}
MCPairs == {<<alice, carol>>}

Ticket(nonce, faceValue, expiry) ==
  [channelId |-> <<alice, carol>>, nonce |-> nonce, faceValue |-> faceValue,
   winProbNumerator |-> 1, winProbDenominator |-> 2, expiry |-> expiry,
   clientSeed |-> seed1, providerCommitment |-> Keccak(seed1)]

MCTickets == {Ticket(1, 2, 2), Ticket(2, 1, 1), Ticket(3, 1, 2)}

MCCombinedHash(ticket, seed) == IF ticket.nonce = 3 THEN MaxUint256 ELSE 0

MCClaims ==
  {[ticket |-> t, signature |-> [signer |-> alice, over |-> t, s |-> 2],
    providerSeed |-> seed1] : t \in MCTickets}

=============================================================================
