------------------------------ MODULE WinOdds ------------------------------
(***************************************************************************)
(* The lottery draw of a probabilistic ticket.  The same draw is computed  *)
(* twice: by the provider's gatekeeper (verifier.rs), which clamps odds of *)
(* one or more, and by the escrow contract (SPMPEscrow.sol), whose checked *)
(* arithmetic reverts instead.  Where the two disagree the provider serves *)
(* a ticket it cannot be paid for.                                         *)
(*                                                                         *)
(* A combined hash is a number of 0 .. MaxUint256; numerator and           *)
(* denominator are 32-bit fields of the ticket.                            *)
(***************************************************************************)
EXTENDS EvmTypes

Odds   == 0 .. MaxUint32
Hashes == 0 .. MaxUint256

(* The product both sides start from: divide first, then scale.            *)
Scaled(num, denom) == (MaxUint256 \div denom) * num

-----------------------------------------------------------------------------
(* A fault the properties must expose: the divide-first order is lost.     *)
GateTargetMultipliesFirst(num, denom) ==
  IF denom = 0 \/ num = 0 THEN 0
  ELSE IF num >= denom THEN MaxUint256
  ELSE (MaxUint256 * num) \div denom

(* The gatekeeper (verifier.rs): zero odds never win, odds of one or more  *)
(* are clamped to certainty.                                               *)
GateTarget(num, denom) ==
  IF denom = 0 \/ num = 0 THEN 0
  ELSE IF num >= denom THEN MaxUint256
  ELSE Scaled(num, denom)

GateWins(num, denom, hash) ==
  LET target == GateTarget(num, denom)
  IN  target = MaxUint256 \/ hash < target

-----------------------------------------------------------------------------
(* The contract: a zero denominator and an overflowing product panic, and  *)
(* the whole transaction reverts.                                          *)
ChainPanics(num, denom) == denom = 0 \/ Scaled(num, denom) > MaxUint256

ChainWins(num, denom, hash) ==
  /\ ~ChainPanics(num, denom)
  /\ hash < Scaled(num, denom)

-----------------------------------------------------------------------------
(* Up to a win probability of 1, excluded, the two sides draw alike: what  *)
(* the gatekeeper calls winning the contract pays, and nothing else.       *)
DrawsAgree(num, denom, hash) ==
  num < denom => (GateWins(num, denom, hash) <=> ChainWins(num, denom, hash))

(* Whatever the odds, a draw the contract would pay is never served as a   *)
(* losing one: the provider misses no payout.                              *)
NoMissedPayout(num, denom, hash) ==
  ChainWins(num, denom, hash) => GateWins(num, denom, hash)

(* The winning share of the hashes is the advertised num/denom, rounded    *)
(* down by at most num hash values: the client never pays more often     *)
(* than the ticket says, and the provider loses a bounded sliver.          *)
AdvertisedOdds(num, denom) ==
  num < denom =>
    LET target == GateTarget(num, denom)
    IN  /\ target * denom <= MaxUint256 * num
        /\ MaxUint256 * num <= (target + num) * denom

=============================================================================
