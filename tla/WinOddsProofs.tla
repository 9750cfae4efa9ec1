--------------------------- MODULE WinOddsProofs ---------------------------
(***************************************************************************)
(* The lottery draw, for every word size and every odds.  Both users of    *)
(* the draw, the gatekeeper alone and the gatekeeper in front of the       *)
(* contract, rest on these facts.                                          *)
(***************************************************************************)
EXTENDS WinOdds, TLAPS

(* Integer division, in the form the proofs below use it.                  *)
LEMMA QuotientBounds ==
  ASSUME NEW d \in Odds, d # 0
  PROVE  LET q == MaxUint256 \div d
         IN  /\ q \in Nat
             /\ q * d <= MaxUint256
             /\ MaxUint256 < (q + 1) * d
BY WordSizes DEF Odds

(* Products of natural numbers are monotone (the one nonlinear fact).      *)
LEMMA ProductMonotone ==
  ASSUME NEW a \in Nat, NEW b \in Nat, NEW c \in Nat, b <= c
  PROVE  a * b \in Nat /\ a * b <= a * c
OBVIOUS

(* What a 256-bit word divided by a 32-bit denominator leaves: a quotient  *)
(* at least as large as the denominator.                                   *)
LEMMA QuotientIsLarge ==
  ASSUME NEW d \in Odds, d # 0
  PROVE  LET q == MaxUint256 \div d IN q \in Nat /\ d <= q
<1> DEFINE q == MaxUint256 \div d
<1>1. q \in Nat /\ MaxUint256 < (q + 1) * d
  BY QuotientBounds
<1>2. d \in Nat /\ d >= 1 /\ MaxUint256 \in Nat /\ MaxUint32 \in Nat /\ d <= MaxUint32
  BY WordSizes DEF Odds
<1>3. d * d <= MaxUint256
  <2>1. d * d <= d * MaxUint32
    BY <1>2, ProductMonotone
  <2>2. MaxUint32 * d <= MaxUint32 * MaxUint32
    BY <1>2, ProductMonotone
  <2>3. d * MaxUint32 = MaxUint32 * d
    BY <1>2
  <2> QED
    BY <2>1, <2>2, <2>3, <1>2, WordSizes
<1>4. ASSUME q + 1 <= d PROVE FALSE
  <2>1. d * (q + 1) <= d * d
    BY <1>1, <1>2, <1>4, ProductMonotone
  <2>2. d * (q + 1) = (q + 1) * d
    BY <1>1, <1>2
  <2> QED
    BY <2>1, <2>2, <1>1, <1>2, <1>3
<1> QED
  BY <1>1, <1>2, <1>4

(* Below certainty the scaled target is a proper 256-bit number: the       *)
(* multiplication in verifier.rs cannot overflow and never yields the      *)
(* value that means "always wins".                                         *)
LEMMA ScaledFits ==
  ASSUME NEW n \in Odds, NEW d \in Odds, n < d
  PROVE  Scaled(n, d) \in Nat /\ Scaled(n, d) < MaxUint256
<1> DEFINE q == MaxUint256 \div d
<1>1. d \in Nat /\ n \in Nat /\ d # 0 /\ MaxUint256 \in Nat
  BY WordSizes DEF Odds
<1>2. q \in Nat /\ q * d <= MaxUint256 /\ d <= q
  BY <1>1, QuotientBounds, QuotientIsLarge
<1>3. q * n \in Nat /\ q * n <= q * (d - 1)
  BY <1>1, <1>2, ProductMonotone
<1>4. q * (d - 1) = q * d - q
  BY <1>1, <1>2
<1>5. q >= 1 /\ q * d \in Nat
  BY <1>1, <1>2
<1> HIDE DEF q
<1>6. q * n \in Nat /\ q * n < MaxUint256
  BY <1>1, <1>2, <1>3, <1>4, <1>5
<1> QED
  BY <1>6 DEF Scaled, q

(* Below certainty, gatekeeper and contract agree on every draw.           *)
THEOREM BelowCertaintyAgree ==
  ASSUME NEW n \in Odds, NEW d \in Odds, NEW h \in Hashes
  PROVE  DrawsAgree(n, d, h)
<1> SUFFICES ASSUME n < d
             PROVE  GateWins(n, d, h) <=> ChainWins(n, d, h)
  BY DEF DrawsAgree
<1>1. Scaled(n, d) \in Nat /\ Scaled(n, d) < MaxUint256
  BY ScaledFits
<1>2. n \in Nat /\ d \in Nat /\ d # 0 /\ h \in Nat /\ MaxUint256 \in Nat
  BY WordSizes DEF Odds, Hashes
<1>3. n = 0 => Scaled(n, d) = 0
  <2>1. MaxUint256 \div d \in Nat
    BY <1>2, QuotientBounds
  <2> QED
    BY <2>1 DEF Scaled
<1>4. GateTarget(n, d) = Scaled(n, d)
  BY <1>2, <1>3 DEF GateTarget
<1> QED
  BY <1>1, <1>2, <1>4 DEF GateWins, ChainWins, ChainPanics

(* For every odds the gatekeeper recognises each draw the contract pays.   *)
THEOREM EveryPayoutIsRecognised ==
  ASSUME NEW n \in Odds, NEW d \in Odds, NEW h \in Hashes
  PROVE  NoMissedPayout(n, d, h)
<1>1. CASE n < d
  BY <1>1, BelowCertaintyAgree DEF NoMissedPayout, DrawsAgree
<1>2. CASE n >= d
  <2>1. ChainWins(n, d, h) => d # 0 /\ n # 0
    BY <1>2 DEF ChainWins, ChainPanics, Odds
  <2>2. d # 0 /\ n # 0 => GateTarget(n, d) = MaxUint256
    BY <1>2 DEF GateTarget
  <2> QED
    BY <2>1, <2>2 DEF NoMissedPayout, GateWins
<1> QED
  BY <1>1, <1>2 DEF Odds

(* The share of winning hashes is the advertised one, rounded down.        *)
THEOREM OddsAreAdvertised ==
  ASSUME NEW n \in Odds, NEW d \in Odds
  PROVE  AdvertisedOdds(n, d)
<1> SUFFICES ASSUME n < d
             PROVE  /\ GateTarget(n, d) * d <= MaxUint256 * n
                    /\ MaxUint256 * n <= (GateTarget(n, d) + n) * d
  BY DEF AdvertisedOdds
<1> DEFINE q == MaxUint256 \div d
<1>1. d \in Nat /\ n \in Nat /\ d # 0 /\ MaxUint256 \in Nat
  BY WordSizes DEF Odds
<1>2. q \in Nat /\ q * d <= MaxUint256 /\ MaxUint256 < (q + 1) * d
  BY <1>1, QuotientBounds
<1>3. GateTarget(n, d) = q * n
  <2>1. n = 0 => q * n = 0
    BY <1>2
  <2> QED
    BY <1>1, <2>1 DEF GateTarget, Scaled
<1> HIDE DEF q
<1>4. n * (q * d) <= n * MaxUint256
  BY <1>1, <1>2, ProductMonotone
<1>5. n * MaxUint256 <= n * ((q + 1) * d)
  BY <1>1, <1>2, ProductMonotone
<1>6. n * (q * d) = (q * n) * d
  BY <1>1, <1>2
<1>7. n * ((q + 1) * d) = (q * n + n) * d
  BY <1>1, <1>2
<1>8. n * MaxUint256 = MaxUint256 * n
  BY <1>1
<1> QED
  BY <1>3, <1>4, <1>5, <1>6, <1>7, <1>8

(* Odds above certainty never pay: the contract's product overflows and    *)
(* claimTicket reverts, although the gatekeeper calls every draw winning.  *)
THEOREM AboveCertaintyPanics ==
  ASSUME NEW n \in Odds, NEW d \in Odds, d < n
  PROVE  ChainPanics(n, d)
<1> DEFINE q == MaxUint256 \div d
<1>1. SUFFICES ASSUME d # 0 PROVE q * n > MaxUint256
  BY DEF ChainPanics, Scaled
<1>2. d \in Nat /\ n \in Nat /\ MaxUint256 \in Nat
  BY WordSizes DEF Odds
<1>3. q \in Nat /\ MaxUint256 < (q + 1) * d /\ d <= q
  BY <1>1, QuotientBounds, QuotientIsLarge
<1> HIDE DEF q
<1>4. q * (d + 1) <= q * n
  BY <1>2, <1>3, ProductMonotone
<1>5. q * (d + 1) = q * d + q /\ (q + 1) * d = q * d + d /\ q * d \in Nat /\ q * n \in Nat
  BY <1>2, <1>3
<1> QED
  BY <1>2, <1>3, <1>4, <1>5

=============================================================================
