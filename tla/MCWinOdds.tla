----------------------------- MODULE MCWinOdds -----------------------------
(***************************************************************************)
(* Every draw over a small word size: the odds are chosen at the start and *)
(* the steps sweep the hash values, so the invariants below are checked    *)
(* for every odds and every hash.                                          *)
(***************************************************************************)
EXTENDS WinOdds

VARIABLES num, denom, hash

oddsVars == <<num, denom, hash>>

OddsInit == num \in Odds /\ denom \in Odds /\ hash = 0

Draw == /\ hash' = IF hash = MaxUint256 THEN 0 ELSE hash + 1
        /\ UNCHANGED <<num, denom>>

OddsSpec == OddsInit /\ [][Draw]_oddsVars

-----------------------------------------------------------------------------
(* Below certainty, gatekeeper and contract draw alike (verifier.rs target *)
(* clamping against claimTicket's checked product).                        *)
BelowCertaintyDrawsAgree == DrawsAgree(num, denom, hash)

(* No draw the contract pays is served as a losing ticket.                 *)
NoPayoutIsMissed == NoMissedPayout(num, denom, hash)

(* The target realises the advertised odds up to rounding.                 *)
OddsAsAdvertised == AdvertisedOdds(num, denom)

(* "Ticket is valid winning! Submit claim on-chain" (types.rs): a ticket   *)
(* the gatekeeper calls winning wins on chain.  Violated by the clamp.     *)
WinIsClaimable == GateWins(num, denom, hash) => ChainWins(num, denom, hash)

=============================================================================
