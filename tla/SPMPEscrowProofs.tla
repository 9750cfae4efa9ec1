-------------------------- MODULE SPMPEscrowProofs --------------------------
(***************************************************************************)
(* The escrow, for every set of accounts, pairs, tickets and claims, every *)
(* outcome of the draws, every delay and every token supply.               *)
(***************************************************************************)
EXTENDS SPMPEscrow, FiniteSetTheorems, WellFoundedInduction, TLAPS

(* What the assumptions say about the amounts a call can carry.            *)
LEMMA AmountsAreNumbers ==
  /\ Amounts \subseteq Nat /\ Approvals \subseteq Nat
  /\ \A amount \in Amounts : amount <= MaxUint256
  /\ \A ticket \in TicketSet : ticket.faceValue \in Nat
  /\ MaxUint256 \in Nat
BY WordSizes, TokenAssumption, TicketAssumption DEF Tickets

(* A transfer between two holders keeps every balance a number.            *)
LEMMA TransferType ==
  ASSUME TokenTypeOK,
         NEW from \in Holders, NEW to \in Holders, NEW amount \in Nat,
         transfer(from, to, amount)
  PROVE  balanceOf' \in [Holders -> Nat] /\ totalSupply' \in 0 .. MaxUint256
<1> DEFINE debited == [balanceOf EXCEPT ![from] = @ - amount]
<1>1. debited \in [Holders -> Nat]
  BY DEF TokenTypeOK, transfer
<1>2. balanceOf' = [debited EXCEPT ![to] = @ + amount]
  BY DEF transfer, Move
<1> HIDE DEF debited
<1>3. balanceOf' \in [Holders -> Nat]
  BY <1>1, <1>2
<1> QED
  BY <1>3 DEF transfer, TokenTypeOK

(* Pulling money into the escrow keeps the token well-typed.               *)
LEMMA TransferFromType ==
  ASSUME TokenTypeOK,
         NEW owner \in Accounts, NEW amount \in Nat,
         transferFrom(owner, amount)
  PROVE  TokenTypeOK'
<1>1. transfer(owner, Escrow, amount) /\ owner \in Holders /\ Escrow \in Holders
  BY DEF transferFrom, Holders
<1>2. balanceOf' \in [Holders -> Nat] /\ totalSupply' \in 0 .. MaxUint256
  BY <1>1, TransferType
<1>3. allowance' \in [Accounts -> Nat]
  BY DEF transferFrom, TokenTypeOK
<1> QED
  BY <1>2, <1>3 DEF TokenTypeOK

-----------------------------------------------------------------------------
(* The inductive invariant: types, and records that belong to their pair.  *)
IInv == TypeOK /\ ChannelsAreWhole

LEMMA InitIInv == Init => IInv
<1> SUFFICES ASSUME Init PROVE IInv
  OBVIOUS
<1>1. TokenTypeOK
  BY WordSizes, TokenAssumption DEF Init, TokenInit, TokenTypeOK
<1>2. NoChannel \in Channel
  BY WordSizes DEF NoChannel, Channel
<1> QED
  BY <1>1, <1>2 DEF Init, IInv, TypeOK, ChannelsAreWhole

LEMMA OpenKeepsIInv ==
  ASSUME IInv, NEW sender \in Accounts, NEW provider \in Accounts,
         NEW amount \in Amounts, openChannel(sender, provider, amount)
  PROVE  IInv'
<1> DEFINE id == getChannelId(sender, provider)
           opened == [client |-> sender, provider |-> provider,
                      balance |-> amount, closeRequestedAt |-> 0]
<1>1. id \in Pairs /\ id[1] = sender /\ id[2] = provider
  BY DEF openChannel, getChannelId
<1>2. TokenTypeOK'
  BY AmountsAreNumbers, TransferFromType DEF openChannel, IInv, TypeOK
<1>3. opened \in Channel
  BY AmountsAreNumbers DEF Channel
<1>4. channels' = [channels EXCEPT ![id] = opened]
  BY DEF openChannel
<1> HIDE DEF id, opened
<1>5. channels' \in [Pairs -> Channel]
  BY <1>1, <1>3, <1>4 DEF IInv, TypeOK
<1>6. ChannelsAreWhole'
  <2> SUFFICES ASSUME NEW other \in Pairs
               PROVE  \/ channels'[other] = NoChannel
                      \/ channels'[other].client = other[1]
                         /\ channels'[other].provider = other[2]
    BY DEF ChannelsAreWhole
  <2>1. CASE other = id
    BY <2>1, <1>1, <1>4 DEF IInv, TypeOK, opened
  <2>2. CASE other # id
    BY <2>2, <1>1, <1>4 DEF IInv, TypeOK, ChannelsAreWhole
  <2> QED
    BY <2>1, <2>2
<1> QED
  BY <1>2, <1>5, <1>6 DEF IInv, TypeOK, openChannel

LEMMA DepositKeepsIInv ==
  ASSUME IInv, NEW sender \in Accounts, NEW id \in Pairs,
         NEW amount \in Amounts, deposit(sender, id, amount)
  PROVE  IInv'
<1>1. TokenTypeOK'
  BY AmountsAreNumbers, TransferFromType DEF deposit, IInv, TypeOK
<1>2. channels' = [channels EXCEPT ![id].balance = @ + amount]
  BY DEF deposit
<1>3. channels[id].balance + amount \in 0 .. MaxUint256
  BY AmountsAreNumbers DEF deposit, IInv, TypeOK, Channel
<1>4. channels' \in [Pairs -> Channel]
  BY <1>2, <1>3 DEF IInv, TypeOK, Channel
<1>5. ChannelsAreWhole'
  BY <1>2 DEF IInv, TypeOK, ChannelsAreWhole, deposit, Exists, Channel, NoChannel
<1> QED
  BY <1>1, <1>4, <1>5 DEF IInv, TypeOK, deposit

LEMMA ClaimKeepsIInv ==
  ASSUME IInv, NEW sender \in Accounts, NEW claim \in ClaimSet,
         claimTicket(sender, claim)
  PROVE  IInv'
<1> DEFINE ticket == claim.ticket
           id == ticket.channelId
<1>1. ticket \in TicketSet /\ id \in Pairs /\ ticket.faceValue \in 0 .. MaxUint256
      /\ ticket.nonce \in Nonces
  BY EscrowAssumption, TicketAssumption DEF Claims, Tickets
<1>2. /\ channels[id] # NoChannel
      /\ ticket.faceValue <= channels[id].balance
      /\ channels[id].provider \in Holders
  BY <1>1 DEF claimTicket, CanClaim, Covered, Exists, NoChannel, IInv, TypeOK, Channel, Holders
<1>3. channels' = [channels EXCEPT ![id].balance = @ - ticket.faceValue]
  BY DEF claimTicket
<1>4. transfer(Escrow, channels[id].provider, ticket.faceValue) /\ allowance' = allowance
  BY DEF claimTicket
<1>5. nullifiers' = nullifiers \cup {<<id, ticket.nonce>>} /\ now' = now
  BY DEF claimTicket, Nullifier
<1> HIDE DEF ticket, id
<1>6. TokenTypeOK'
  <2>1. ticket.faceValue \in Nat /\ Escrow \in Holders
    BY <1>1, WordSizes DEF Holders
  <2>2. balanceOf' \in [Holders -> Nat] /\ totalSupply' \in 0 .. MaxUint256
    BY <2>1, <1>2, <1>4, TransferType DEF IInv, TypeOK
  <2> QED
    BY <2>2, <1>4 DEF IInv, TypeOK, TokenTypeOK
<1>7. channels[id].balance - ticket.faceValue \in 0 .. MaxUint256
  BY <1>1, <1>2, WordSizes DEF IInv, TypeOK, Channel
<1>8. channels' \in [Pairs -> Channel]
  BY <1>1, <1>3, <1>7 DEF IInv, TypeOK, Channel
<1>9. ChannelsAreWhole'
  BY <1>1, <1>2, <1>3 DEF IInv, TypeOK, ChannelsAreWhole, Channel
<1>10. nullifiers' \subseteq Pairs \X Nonces
  BY <1>1, <1>5 DEF IInv, TypeOK
<1> QED
  BY <1>5, <1>6, <1>8, <1>9, <1>10 DEF IInv, TypeOK

LEMMA RequestCloseKeepsIInv ==
  ASSUME IInv, NEW sender \in Accounts, NEW id \in Pairs, requestClose(sender, id)
  PROVE  IInv'
<1>1. channels[id] # NoChannel
  BY ZeroAddress DEF requestClose, NoChannel
<1>2. channels' = [channels EXCEPT ![id].closeRequestedAt = now]
  BY DEF requestClose
<1>3. channels' \in [Pairs -> Channel]
  BY <1>2 DEF IInv, TypeOK, Channel
<1>4. ChannelsAreWhole'
  BY <1>1, <1>2 DEF IInv, TypeOK, ChannelsAreWhole, Channel
<1>5. UNCHANGED <<tokenVars, nullifiers, now>>
  BY DEF requestClose
<1> QED
  BY <1>3, <1>4, <1>5 DEF IInv, TypeOK, TokenTypeOK, tokenVars

LEMMA WithdrawKeepsIInv ==
  ASSUME IInv, NEW sender \in Accounts, NEW id \in Pairs, withdraw(sender, id)
  PROVE  IInv'
<1>1. channels' = [channels EXCEPT ![id] = NoChannel]
  BY DEF withdraw
<1>2. transfer(Escrow, sender, channels[id].balance)
      /\ UNCHANGED <<allowance, nullifiers, now>>
  BY DEF withdraw
<1>3. TokenTypeOK'
  <2>1. channels[id].balance \in Nat /\ sender \in Holders /\ Escrow \in Holders
    BY WordSizes DEF IInv, TypeOK, Channel, Holders
  <2>2. balanceOf' \in [Holders -> Nat] /\ totalSupply' \in 0 .. MaxUint256
    BY <1>2, <2>1, TransferType DEF IInv, TypeOK
  <2> QED
    BY <2>2, <1>2 DEF IInv, TypeOK, TokenTypeOK
<1>4. NoChannel \in Channel
  BY WordSizes DEF NoChannel, Channel
<1>5. channels' \in [Pairs -> Channel]
  BY <1>1, <1>4 DEF IInv, TypeOK
<1>6. ChannelsAreWhole'
  BY <1>1 DEF IInv, TypeOK, ChannelsAreWhole
<1> QED
  BY <1>2, <1>3, <1>5, <1>6 DEF IInv, TypeOK

LEMMA TokenStepKeepsIInv ==
  ASSUME IInv, TokenStep, UNCHANGED <<escrowVars, now>>
  PROVE  IInv'
<1>1. TokenTypeOK'
  <2> USE AmountsAreNumbers DEF IInv, TypeOK
  <2>1. ASSUME NEW owner \in Accounts, NEW amount \in Approvals, approve(owner, amount)
        PROVE  TokenTypeOK'
    BY <2>1 DEF approve, TokenTypeOK
  <2>2. ASSUME NEW to \in Holders, NEW amount \in Amounts, mint(to, amount)
        PROVE  TokenTypeOK'
    <3>1. amount \in Nat /\ totalSupply' \in 0 .. MaxUint256
      BY <2>2, TokenAssumption, WordSizes DEF mint, TokenTypeOK
    <3>2. balanceOf' \in [Holders -> Nat]
      BY <2>2, <3>1 DEF mint, TokenTypeOK
    <3> QED
      BY <2>2, <3>1, <3>2 DEF mint, TokenTypeOK
  <2>3. ASSUME NEW from \in Accounts, NEW to \in Holders, NEW amount \in Amounts,
               transfer(from, to, amount), UNCHANGED allowance
        PROVE  TokenTypeOK'
    <3>1. from \in Holders /\ amount \in Nat
      BY DEF Holders
    <3>2. balanceOf' \in [Holders -> Nat] /\ totalSupply' \in 0 .. MaxUint256
      BY <2>3, <3>1, TransferType
    <3> QED
      BY <2>3, <3>2 DEF TokenTypeOK
  <2> QED
    BY <2>1, <2>2, <2>3 DEF TokenStep
<1> QED
  BY <1>1 DEF IInv, TypeOK, ChannelsAreWhole, escrowVars

(* Every step keeps the invariant: one case per action.                    *)
LEMMA NextKeepsIInv == IInv /\ [Next]_vars => IInv'
<1> SUFFICES ASSUME IInv, [Next]_vars PROVE IInv'
  OBVIOUS
<1>1. CASE \E sender \in Accounts, provider \in Accounts, amount \in Amounts :
             openChannel(sender, provider, amount)
  BY <1>1, OpenKeepsIInv
<1>2. CASE \E sender \in Accounts, id \in Pairs, amount \in Amounts :
             deposit(sender, id, amount)
  BY <1>2, DepositKeepsIInv
<1>3. CASE \E sender \in Accounts, claim \in ClaimSet : claimTicket(sender, claim)
  BY <1>3, ClaimKeepsIInv
<1>4. CASE \E sender \in Accounts, id \in Pairs :
             requestClose(sender, id) \/ withdraw(sender, id)
  BY <1>4, RequestCloseKeepsIInv, WithdrawKeepsIInv
<1>5. CASE TokenStep /\ UNCHANGED <<escrowVars, now>>
  BY <1>5, TokenStepKeepsIInv
<1>6. CASE Tick
  BY <1>6 DEF Tick, IInv, TypeOK, TokenTypeOK, ChannelsAreWhole, tokenVars, escrowVars
<1>7. CASE UNCHANGED vars
  BY <1>7 DEF vars, IInv, TypeOK, TokenTypeOK, ChannelsAreWhole, tokenVars, escrowVars
<1> QED
  BY <1>1, <1>2, <1>3, <1>4, <1>5, <1>6, <1>7 DEF Next

LEMMA Invariance == Spec => []IInv
<1> QED
  BY InitIInv, NextKeepsIInv, PTL DEF Spec

-----------------------------------------------------------------------------
(* Every variable of the escrow and the token keeps its type: in           *)
(* particular no channel balance underflows in claimTicket or exceeds a    *)
(* word in deposit.                                                        *)
THEOREM TypeCorrect == Spec => []TypeOK
<1>1. IInv => TypeOK
  BY DEF IInv
<1> QED
  BY <1>1, Invariance, PTL

(* A record is either absent altogether or belongs to the pair it is       *)
(* stored under: withdraw leaves nothing behind and nothing but            *)
(* openChannel creates a record.                                           *)
THEOREM RecordsBelongToTheirPair == Spec => []ChannelsAreWhole
<1>1. IInv => ChannelsAreWhole
  BY DEF IInv
<1> QED
  BY <1>1, Invariance, PTL

-----------------------------------------------------------------------------
(* A claim stands as long as its record keeps owner and cover, its nonce   *)
(* is unpaid and its ticket has not expired: nothing else in the state     *)
(* matters to it.                                                          *)
LEMMA ClaimStands ==
  ASSUME NEW sender, NEW claim,
         CanClaim(sender, claim),
         channels'[claim.ticket.channelId].client = channels[claim.ticket.channelId].client,
         channels'[claim.ticket.channelId].provider = channels[claim.ticket.channelId].provider,
         claim.ticket.faceValue <= channels'[claim.ticket.channelId].balance,
         Nullifier(claim.ticket) \notin nullifiers',
         now' <= claim.ticket.expiry
  PROVE  CanClaim(sender, claim)'
BY DEF CanClaim, Exists, NotExpired, Covered, Unclaimed, SignedBy

(* A step of the contract takes a claim away only in the ways LostFairly   *)
(* lists.                                                                  *)
LEMMA StepLosesFairly ==
  ASSUME IInv, [Next]_vars, NEW sender \in Accounts, NEW claim \in ClaimSet,
         CanClaim(sender, claim), ~CanClaim(sender, claim)'
  PROVE  LostFairly(claim)
<1> DEFINE ticket == claim.ticket
           id == ticket.channelId
<1>1. /\ id \in Pairs /\ ticket.faceValue \in Nat /\ ticket.nonce \in Nonces
      /\ ticket.expiry \in Nat
  BY EscrowAssumption, TicketAssumption, WordSizes DEF Claims, Tickets
<1>2. /\ channels[id] \in Channel /\ channels[id].balance \in Nat
      /\ now \in Nat
      /\ channels[id].client # NoAddress
      /\ ticket.faceValue <= channels[id].balance
      /\ Nullifier(ticket) \notin nullifiers
      /\ now <= ticket.expiry
  BY <1>1, WordSizes
     DEF IInv, TypeOK, Channel, CanClaim, Exists, Covered, Unclaimed, NotExpired
<1>3. ~ /\ channels'[id].client = channels[id].client
        /\ channels'[id].provider = channels[id].provider
        /\ ticket.faceValue <= channels'[id].balance
        /\ Nullifier(ticket) \notin nullifiers'
        /\ now' <= ticket.expiry
  BY ClaimStands
<1>4. channels'[id] = channels[id] /\ nullifiers' = nullifiers
        => now' > ticket.expiry \/ ~(now' \in Nat)
  BY <1>1, <1>2, <1>3
<1>5. ASSUME NEW caller \in Accounts, NEW provider \in Accounts, NEW amount \in Amounts,
             openChannel(caller, provider, amount)
      PROVE  FALSE
  <2> DEFINE new == getChannelId(caller, provider)
  <2>1. channels'[id] = channels[id] /\ UNCHANGED <<nullifiers, now>>
    BY <1>1, <1>2, <1>5 DEF openChannel, Exists, IInv, TypeOK
  <2> QED
    BY <2>1, <1>1, <1>2, <1>4
<1>6. ASSUME NEW caller \in Accounts, NEW other \in Pairs, NEW amount \in Amounts,
             deposit(caller, other, amount)
      PROVE  FALSE
  <2>1. channels' = [channels EXCEPT ![other].balance = @ + amount]
        /\ UNCHANGED <<nullifiers, now>>
    BY <1>6 DEF deposit
  <2>2. /\ channels'[id].client = channels[id].client
        /\ channels'[id].provider = channels[id].provider
        /\ \/ channels'[id].balance = channels[id].balance
           \/ channels'[id].balance = channels[id].balance + amount
    BY <2>1, <1>1, <1>2 DEF IInv, TypeOK, Channel
  <2> QED
    BY <2>1, <2>2, <1>1, <1>2, <1>3, AmountsAreNumbers
<1>7. ASSUME NEW caller \in Accounts, NEW paying \in ClaimSet, claimTicket(caller, paying)
      PROVE  LostFairly(claim)
  <2> DEFINE other == paying.ticket.channelId
  <2>1. /\ channels' = [channels EXCEPT ![other].balance = @ - paying.ticket.faceValue]
        /\ nullifiers' = nullifiers \cup {Nullifier(paying.ticket)}
        /\ now' = now
        /\ Nullifier(paying.ticket) \notin nullifiers
    BY <1>7 DEF claimTicket, CanClaim, Unclaimed
  <2>2. CASE other = id
    <3>1. /\ channels'[id].client = channels[id].client
          /\ channels'[id].provider = channels[id].provider
      BY <2>1, <2>2, <1>1, <1>2 DEF IInv, TypeOK, Channel
    <3>2. Nullifier(paying.ticket) \in {n \in nullifiers' \ nullifiers : n[1] = id}
      BY <2>1, <2>2 DEF Nullifier
    <3>3. \/ Nullifier(ticket) = Nullifier(paying.ticket)
          \/ ~(ticket.faceValue <= channels'[id].balance)
      BY <2>1, <3>1, <1>2, <1>3
    <3>4. channels'[id].balance \in Int
      <4>1. paying.ticket.faceValue \in Int
        BY EscrowAssumption, TicketAssumption, WordSizes DEF Claims, Tickets
      <4>2. channels'[id].balance = channels[id].balance - paying.ticket.faceValue
        BY <2>1, <2>2, <1>1, <1>2 DEF IInv, TypeOK, Channel
      <4> QED
        BY <4>1, <4>2, <1>2
    <3> QED
      BY <3>2, <3>3, <3>4, <1>1 DEF LostFairly
  <2>3. CASE other # id
    <3>1. channels'[id] = channels[id]
      BY <2>1, <2>3, <1>1 DEF IInv, TypeOK
    <3>2. Nullifier(ticket) \notin nullifiers'
      BY <2>1, <2>3, <1>2 DEF Nullifier
    <3> QED
      BY <3>1, <3>2, <2>1, <1>2, <1>3
  <2> QED
    BY <2>2, <2>3
<1>8. ASSUME NEW caller \in Accounts, NEW other \in Pairs, requestClose(caller, other)
      PROVE  FALSE
  <2>1. channels' = [channels EXCEPT ![other].closeRequestedAt = now]
        /\ UNCHANGED <<nullifiers, now>>
    BY <1>8 DEF requestClose
  <2>2. /\ channels'[id].client = channels[id].client
        /\ channels'[id].provider = channels[id].provider
        /\ channels'[id].balance = channels[id].balance
    BY <2>1, <1>1, <1>2 DEF IInv, TypeOK, Channel
  <2> QED
    BY <2>1, <2>2, <1>2, <1>3
<1>9. ASSUME NEW caller \in Accounts, NEW other \in Pairs, withdraw(caller, other)
      PROVE  LostFairly(claim)
  <2>1. channels' = [channels EXCEPT ![other] = NoChannel]
        /\ UNCHANGED <<nullifiers, now>> /\ DelayPassed(other)
    BY <1>9 DEF withdraw
  <2>2. CASE other = id
    <3>1. channels'[id] = NoChannel
      BY <2>1, <2>2, <1>1 DEF IInv, TypeOK
    <3>2. channels[id].closeRequestedAt + WITHDRAWAL_DELAY <= now
          /\ channels[id].closeRequestedAt # 0
      BY <2>1, <2>2, <1>2, EscrowAssumption DEF DelayPassed, Channel
    <3> QED
      BY <3>1, <3>2 DEF LostFairly
  <2>3. CASE other # id
    BY <2>1, <2>3, <1>1, <1>2, <1>3 DEF IInv, TypeOK
  <2> QED
    BY <2>2, <2>3
<1>10. ASSUME UNCHANGED <<escrowVars, now>> PROVE FALSE
  BY <1>10, <1>2, <1>3 DEF escrowVars
<1>11. CASE Tick
  BY <1>11, <1>1, <1>2, <1>4 DEF Tick, escrowVars, LostFairly
<1>12. CASE UNCHANGED vars
  BY <1>12, <1>10 DEF vars
<1> QED
  BY <1>5, <1>6, <1>7, <1>8, <1>9, <1>10, <1>11, <1>12 DEF Next

(* The provider's protection: a claim that could be submitted is lost only *)
(* to its own nonce, its expiry, a sibling ticket that drained the channel *)
(* or a withdrawal a full delay after the request.                         *)
THEOREM ClaimsAreProtected == Spec => ClaimsSurvive
<1>1. IInv /\ [Next]_vars =>
        [\A sender \in Accounts, claim \in ClaimSet :
           CanClaim(sender, claim) /\ ~CanClaim(sender, claim)' => LostFairly(claim)]_vars
  BY StepLosesFairly
<1> QED
  BY <1>1, Invariance, PTL DEF Spec, ClaimsSurvive

-----------------------------------------------------------------------------
(* The refinement mapping, under names: what the ledger's variables are.   *)
People == [holder \in Accounts |-> balanceOf[holder]]
Locked == [id \in Pairs |-> channels[id].balance]
Notice == [id \in Pairs |-> channels[id].closeRequestedAt]

(* Pulling money in debits one wallet and credits the vault.               *)
LEMMA PullIsLocking ==
  ASSUME IInv, NEW owner \in Accounts, NEW amount \in Nat, transferFrom(owner, amount)
  PROVE  /\ amount <= People[owner]
         /\ People' = [People EXCEPT ![owner] = @ - amount]
         /\ balanceOf'[Escrow] = balanceOf[Escrow] + amount
<1> DEFINE debited == [balanceOf EXCEPT ![owner] = @ - amount]
<1>1. owner # Escrow /\ owner \in Holders /\ Escrow \in Holders
  BY TokenAssumption DEF Holders
<1>2. balanceOf \in [Holders -> Nat] /\ amount <= balanceOf[owner]
  BY DEF IInv, TypeOK, TokenTypeOK, transferFrom, transfer
<1>3. balanceOf' = [debited EXCEPT ![Escrow] = @ + amount]
  BY DEF transferFrom, transfer, Move
<1>4. \A holder \in Accounts :
        balanceOf'[holder] = IF holder = owner THEN balanceOf[owner] - amount
                             ELSE balanceOf[holder]
  BY <1>1, <1>2, <1>3, TokenAssumption DEF Holders
<1>5. balanceOf'[Escrow] = balanceOf[Escrow] + amount
  BY <1>1, <1>2, <1>3
<1> QED
  BY <1>1, <1>2, <1>4, <1>5 DEF People

(* Paying out debits the vault and credits one wallet.                     *)
LEMMA PayingOut ==
  ASSUME IInv, NEW payee \in Accounts, NEW amount \in Nat, transfer(Escrow, payee, amount)
  PROVE  /\ People' = [People EXCEPT ![payee] = @ + amount]
         /\ balanceOf'[Escrow] = balanceOf[Escrow] - amount
<1> DEFINE debited == [balanceOf EXCEPT ![Escrow] = @ - amount]
<1>1. payee # Escrow /\ payee \in Holders /\ Escrow \in Holders
  BY TokenAssumption DEF Holders
<1>2. balanceOf \in [Holders -> Nat]
  BY DEF IInv, TypeOK, TokenTypeOK
<1>3. balanceOf' = [debited EXCEPT ![payee] = @ + amount]
  BY DEF transfer, Move
<1>4. \A holder \in Accounts :
        balanceOf'[holder] = IF holder = payee THEN balanceOf[payee] + amount
                             ELSE balanceOf[holder]
  BY <1>1, <1>2, <1>3, TokenAssumption DEF Holders
<1>5. balanceOf'[Escrow] = balanceOf[Escrow] - amount
  BY <1>1, <1>2, <1>3
<1> QED
  BY <1>1, <1>2, <1>4, <1>5 DEF People

LEMMA InitRefines == Init => Ledger!Init
<1> SUFFICES ASSUME Init PROVE Ledger!Init
  OBVIOUS
<1>1. balanceOf \in [Holders -> Nat]
  BY WordSizes, TokenAssumption DEF Init, TokenInit
<1>2. People \in [Accounts -> Nat] /\ balanceOf[Escrow] \in Nat
  BY <1>1 DEF Holders, People
<1>3. Locked = [pair \in Pairs |-> 0] /\ Notice = [pair \in Pairs |-> 0]
  BY DEF Init, NoChannel, Locked, Notice
<1> QED
  BY <1>2, <1>3 DEF Init, Ledger!Init, People, Locked, Notice

LEMMA OpenRefines ==
  ASSUME IInv, NEW sender \in Accounts, NEW provider \in Accounts,
         NEW amount \in Amounts, openChannel(sender, provider, amount)
  PROVE  Ledger!Next
<1> DEFINE id == getChannelId(sender, provider)
<1>1. id \in Pairs /\ amount \in 0 .. MaxUint256 /\ amount \in Nat /\ 0 < amount
  BY AmountsAreNumbers, TokenAssumption DEF openChannel
<1>2. channels[id] = NoChannel
  BY <1>1, ZeroAddress, TicketAssumption DEF openChannel, Exists, IInv, ChannelsAreWhole
<1>3. /\ amount <= People[sender]
      /\ People' = [People EXCEPT ![sender] = @ - amount]
      /\ balanceOf'[Escrow] = balanceOf[Escrow] + amount
  BY <1>1, PullIsLocking DEF openChannel
<1>4. channels' = [channels EXCEPT ![id] =
         [client |-> sender, provider |-> provider,
          balance |-> amount, closeRequestedAt |-> 0]]
  BY DEF openChannel
<1>5. Locked' = [Locked EXCEPT ![id] = @ + amount] /\ Notice' = Notice
  <2>1. \A other \in Pairs :
          /\ channels'[other].balance = IF other = id THEN amount ELSE channels[other].balance
          /\ channels'[other].closeRequestedAt = channels[other].closeRequestedAt
    BY <1>1, <1>2, <1>4 DEF IInv, TypeOK, NoChannel
  <2>2. Locked[id] = 0
    BY <1>1, <1>2 DEF Locked, NoChannel
  <2> HIDE DEF id
  <2>3. Locked' = [Locked EXCEPT ![id] = amount] /\ Notice' = Notice
    BY <1>1, <2>1 DEF Locked, Notice
  <2>4. Locked[id] + amount = amount
    BY <1>1, <2>2
  <2> QED
    BY <2>3, <2>4
<1>6. Ledger!Lock(sender, id, amount)
  BY <1>1, <1>3, <1>5 DEF Ledger!Lock, People, Locked, Notice, openChannel
<1> QED
  BY <1>1, <1>6 DEF Ledger!Next

LEMMA DepositRefines ==
  ASSUME IInv, NEW sender \in Accounts, NEW id \in Pairs,
         NEW amount \in Amounts, deposit(sender, id, amount)
  PROVE  Ledger!Next
<1>1. amount \in 0 .. MaxUint256 /\ amount \in Nat /\ 0 < amount
  BY AmountsAreNumbers, TokenAssumption DEF deposit
<1>2. /\ amount <= People[sender]
      /\ People' = [People EXCEPT ![sender] = @ - amount]
      /\ balanceOf'[Escrow] = balanceOf[Escrow] + amount
  BY <1>1, PullIsLocking DEF deposit
<1>3. channels' = [channels EXCEPT ![id].balance = @ + amount]
  BY DEF deposit
<1>4. Locked' = [Locked EXCEPT ![id] = @ + amount] /\ Notice' = Notice
  <2>1. \A other \in Pairs :
          /\ channels'[other].balance = IF other = id THEN channels[id].balance + amount
                                        ELSE channels[other].balance
          /\ channels'[other].closeRequestedAt = channels[other].closeRequestedAt
    BY <1>3 DEF IInv, TypeOK, Channel
  <2> QED
    BY <2>1 DEF Locked, Notice
<1>5. Ledger!Lock(sender, id, amount)
  BY <1>1, <1>2, <1>4 DEF Ledger!Lock, People, Locked, Notice, deposit
<1> QED
  BY <1>1, <1>5 DEF Ledger!Next

LEMMA ClaimRefines ==
  ASSUME IInv, NEW sender \in Accounts, NEW claim \in ClaimSet, claimTicket(sender, claim)
  PROVE  Ledger!Next
<1> DEFINE ticket == claim.ticket
           id == ticket.channelId
           amount == ticket.faceValue
<1>1. /\ id \in Pairs /\ ticket.nonce \in Nonces
      /\ amount \in 0 .. MaxUint256 /\ amount \in Nat
  BY EscrowAssumption, TicketAssumption, WordSizes DEF Claims, Tickets
<1>2. /\ channels[id].client # NoAddress
      /\ amount <= channels[id].balance
      /\ <<id, ticket.nonce>> \notin nullifiers
  BY DEF claimTicket, CanClaim, Exists, Covered, Unclaimed, Nullifier
<1>3. channels[id].provider = id[2] /\ id[2] \in Accounts
  BY <1>1, <1>2, TicketAssumption DEF IInv, ChannelsAreWhole, NoChannel
<1>4. /\ channels' = [channels EXCEPT ![id].balance = @ - amount]
      /\ nullifiers' = nullifiers \cup {<<id, ticket.nonce>>}
      /\ transfer(Escrow, channels[id].provider, amount)
      /\ now' = now
  BY DEF claimTicket, Nullifier
<1> HIDE DEF amount, id, ticket
<1>5. /\ People' = [People EXCEPT ![id[2]] = @ + amount]
      /\ balanceOf'[Escrow] = balanceOf[Escrow] - amount
  BY <1>1, <1>3, <1>4, PayingOut
<1>6. Locked' = [Locked EXCEPT ![id] = @ - amount] /\ Notice' = Notice
  BY <1>1, <1>4 DEF IInv, TypeOK, Channel, Locked, Notice
<1>7. amount <= Locked[id]
  BY <1>1, <1>2 DEF Locked
<1>8. Ledger!Settle(id, ticket.nonce, amount)
  BY <1>1, <1>2, <1>4, <1>5, <1>6, <1>7 DEF Ledger!Settle, People, Locked, Notice
<1> QED
  BY <1>1, <1>8 DEF Ledger!Next

LEMMA RequestCloseRefines ==
  ASSUME IInv, NEW sender \in Accounts, NEW id \in Pairs, requestClose(sender, id)
  PROVE  Ledger!Next
<1>1. channels' = [channels EXCEPT ![id].closeRequestedAt = now]
      /\ UNCHANGED <<tokenVars, nullifiers, now>>
      /\ channels[id].closeRequestedAt = 0
  BY DEF requestClose
<1>2. People' = People /\ balanceOf' = balanceOf
  BY <1>1 DEF tokenVars, People
<1>3. Locked' = Locked /\ Notice' = [Notice EXCEPT ![id] = now] /\ Notice[id] = 0
  <2>1. \A other \in Pairs :
          /\ channels'[other].balance = channels[other].balance
          /\ channels'[other].closeRequestedAt =
               IF other = id THEN now ELSE channels[other].closeRequestedAt
    BY <1>1 DEF IInv, TypeOK, Channel
  <2> QED
    BY <1>1, <2>1 DEF Locked, Notice
<1>4. Ledger!GiveNotice(id)
  BY <1>1, <1>2, <1>3 DEF Ledger!GiveNotice, People, Locked, Notice
<1> QED
  BY <1>4 DEF Ledger!Next

LEMMA WithdrawRefines ==
  ASSUME IInv, NEW sender \in Accounts, NEW id \in Pairs, withdraw(sender, id)
  PROVE  Ledger!Next
<1> DEFINE amount == channels[id].balance
<1>1. /\ channels' = [channels EXCEPT ![id] = NoChannel]
      /\ transfer(Escrow, sender, amount)
      /\ nullifiers' = nullifiers /\ now' = now
      /\ channels[id].client = sender
      /\ channels[id].closeRequestedAt # 0
      /\ now >= channels[id].closeRequestedAt + WITHDRAWAL_DELAY
  BY DEF withdraw, DelayPassed
<1>2. sender = id[1]
  BY <1>1, ZeroAddress DEF IInv, ChannelsAreWhole, NoChannel
<1>3. amount \in Nat /\ amount = Locked[id]
      /\ channels[id].closeRequestedAt = Notice[id]
  BY WordSizes DEF IInv, TypeOK, Channel, Locked, Notice
<1> HIDE DEF amount
<1>4. /\ People' = [People EXCEPT ![sender] = @ + amount]
      /\ balanceOf'[Escrow] = balanceOf[Escrow] - amount
  BY <1>1, <1>3, PayingOut
<1>5. Locked' = [Locked EXCEPT ![id] = 0] /\ Notice' = [Notice EXCEPT ![id] = 0]
  BY <1>1 DEF IInv, TypeOK, NoChannel, Locked, Notice
<1>6. Ledger!Refund(id)
  BY <1>1, <1>2, <1>3, <1>4, <1>5 DEF Ledger!Refund, People, Locked, Notice
<1> QED
  BY <1>6 DEF Ledger!Next

LEMMA TokenStepRefines ==
  ASSUME IInv, TokenStep, UNCHANGED <<escrowVars, now>>
  PROVE  Ledger!Next
<1>1. balanceOf' \in [Holders -> Nat]
  BY TokenStepKeepsIInv DEF IInv, TypeOK, TokenTypeOK
<1>2. balanceOf'[Escrow] >= balanceOf[Escrow]
  <2>1. Escrow \in Holders /\ Escrow \notin Accounts /\ balanceOf \in [Holders -> Nat]
    BY TokenAssumption DEF Holders, IInv, TypeOK, TokenTypeOK
  <2>2. ASSUME NEW owner \in Accounts, NEW amount \in Approvals, approve(owner, amount)
        PROVE  balanceOf'[Escrow] >= balanceOf[Escrow]
    BY <2>1, <2>2 DEF approve
  <2>3. ASSUME NEW to \in Holders, NEW amount \in Amounts, mint(to, amount)
        PROVE  balanceOf'[Escrow] >= balanceOf[Escrow]
    BY <2>1, <2>3, AmountsAreNumbers DEF mint
  <2>4. ASSUME NEW from \in Accounts, NEW to \in Holders, NEW amount \in Amounts,
               transfer(from, to, amount)
        PROVE  balanceOf'[Escrow] >= balanceOf[Escrow]
    <3> DEFINE debited == [balanceOf EXCEPT ![from] = @ - amount]
    <3>1. debited[Escrow] = balanceOf[Escrow] /\ amount \in Nat
      BY <2>1, AmountsAreNumbers
    <3>2. balanceOf' = [debited EXCEPT ![to] = @ + amount] /\ Escrow \in DOMAIN debited
      BY <2>1, <2>4 DEF transfer, Move
    <3> HIDE DEF debited
    <3> QED
      BY <2>1, <3>1, <3>2
  <2> QED
    BY <2>2, <2>3, <2>4 DEF TokenStep
<1>3. Ledger!Elsewhere
  <2>1. People' \in [Accounts -> Nat] /\ balanceOf'[Escrow] \in Nat
    BY <1>1 DEF People, Holders
  <2> QED
    BY <1>2, <2>1 DEF Ledger!Elsewhere, People, escrowVars
<1> QED
  BY <1>3 DEF Ledger!Next

LEMMA StepRefines == IInv /\ [Next]_vars => [Ledger!Next]_(Ledger!ledgerVars)
<1> SUFFICES ASSUME IInv, [Next]_vars PROVE [Ledger!Next]_(Ledger!ledgerVars)
  OBVIOUS
<1>1. CASE \E sender \in Accounts, provider \in Accounts, amount \in Amounts :
             openChannel(sender, provider, amount)
  BY <1>1, OpenRefines
<1>2. CASE \E sender \in Accounts, id \in Pairs, amount \in Amounts :
             deposit(sender, id, amount)
  BY <1>2, DepositRefines
<1>3. CASE \E sender \in Accounts, claim \in ClaimSet : claimTicket(sender, claim)
  BY <1>3, ClaimRefines
<1>4. CASE \E sender \in Accounts, id \in Pairs :
             requestClose(sender, id) \/ withdraw(sender, id)
  BY <1>4, RequestCloseRefines, WithdrawRefines
<1>5. CASE TokenStep /\ UNCHANGED <<escrowVars, now>>
  BY <1>5, TokenStepRefines
<1>6. CASE Tick
  <2>1. Ledger!Pass
    BY <1>6 DEF Tick, Ledger!Pass, tokenVars, escrowVars, IInv, TypeOK
  <2> QED
    BY <2>1 DEF Ledger!Next
<1>7. CASE UNCHANGED vars
  BY <1>7 DEF vars, tokenVars, escrowVars, Ledger!ledgerVars
<1> QED
  BY <1>1, <1>2, <1>3, <1>4, <1>5, <1>6, <1>7 DEF Next

(* The contract keeps the ledger's promise: money leaves the vault only    *)
(* for a slot that was never paid, to that slot's payee and out of that    *)
(* pair's own money, or back to the payer after notice and delay.          *)
THEOREM EscrowImplementsLedger == Spec => ImplementsLedger
<1> QED
  BY InitRefines, StepRefines, Invariance, PTL DEF Spec, ImplementsLedger, Ledger!Spec

-----------------------------------------------------------------------------
(* Sums over finite sets.  The provers cannot instantiate an induction     *)
(* theorem; a set of counterexamples with no smallest member does as well. *)
LEMMA LeastNumber ==
  ASSUME NEW T, T \subseteq Nat, T # {}
  PROVE  \E n \in T : \A m \in T : n <= m
<1> DEFINE R == OpToRel(<, Nat)
<1>1. IsWellFoundedOn(R, Nat)
  BY NatLessThanWellFounded
<1>2. \A m, n \in Nat : m < n => <<m, n>> \in R
  BY DEF OpToRel
<1> HIDE DEF R
<1>3. PICK n \in T : \A m \in T : ~ (<<m, n>> \in R)
  BY <1>1, WFMin
<1>4. \A m \in T : ~(m < n)
  BY <1>2, <1>3
<1> QED
  BY <1>4

LEMMA SmallestSet ==
  ASSUME NEW S, IsFiniteSet(S), NEW Bad, Bad \subseteq SUBSET S, Bad # {}
  PROVE  \E s \in Bad : \A r \in Bad : ~(Cardinality(r) < Cardinality(s))
<1> DEFINE Sizes == {Cardinality(s) : s \in Bad}
<1>1. \A s \in Bad : Cardinality(s) \in Nat
  BY FS_Subset, FS_CardinalityType
<1>2. Sizes \subseteq Nat /\ Sizes # {}
  BY <1>1
<1>3. PICK n \in Sizes : \A m \in Sizes : n <= m
  <2> HIDE DEF Sizes
  <2> QED
    BY <1>2, LeastNumber
<1> QED
  BY <1>1, <1>3

Chosen(s) == CHOOSE x \in s : TRUE

LEMMA Removal ==
  ASSUME NEW S, IsFiniteSet(S), NEW s \in SUBSET S, NEW x \in s
  PROVE  /\ IsFiniteSet(s) /\ s \ {x} \in SUBSET S
         /\ Cardinality(s) \in Nat \ {0} /\ Cardinality(s \ {x}) = Cardinality(s) - 1
<1>1. IsFiniteSet(s)
  BY FS_Subset
<1>2. Cardinality(s) \in Nat /\ Cardinality(s) # 0
  BY <1>1, FS_CardinalityType, FS_EmptySet
<1> QED
  BY <1>1, <1>2, FS_RemoveElement

(* A function from sets to the sums of their values, which adds the chosen *)
(* element of a set to the sum of the rest.                                *)
Adds(g, val, s) == IF s = {} THEN 0 ELSE val[Chosen(s)] + g[s \ {Chosen(s)}]

Solves(g, val, D) == g = [s \in D |-> Adds(g, val, s)]

Small(S, n) == {s \in SUBSET S : Cardinality(s) <= n}

LEMMA SolutionsExist ==
  ASSUME NEW S, IsFiniteSet(S), NEW val, NEW n \in Nat
  PROVE  \E g : Solves(g, val, Small(S, n))
<1> DEFINE Bad == {m \in Nat : ~ \E g : Solves(g, val, Small(S, m))}
<1> SUFFICES ASSUME Bad # {} PROVE FALSE
  OBVIOUS
<1>1. PICK m \in Bad : \A k \in Bad : m <= k
  BY LeastNumber
<1>2. CASE m = 0
  <2> DEFINE g == [s \in Small(S, 0) |-> 0]
  <2>1. ASSUME NEW s \in Small(S, 0) PROVE s = {}
    <3>1. IsFiniteSet(s) /\ Cardinality(s) <= 0
      BY FS_Subset DEF Small
    <3> QED
      BY <3>1, FS_CardinalityType, FS_EmptySet
  <2>2. Solves(g, val, Small(S, 0))
    BY <2>1 DEF Solves, Adds
  <2> QED
    BY <1>2, <2>2
<1>3. CASE m # 0
  <2> DEFINE k == m - 1
  <2>1. k \in Nat /\ k \notin Bad
    BY <1>1, <1>3
  <2>2. PICK g : Solves(g, val, Small(S, k))
    BY <2>1
  <2> DEFINE h == [s \in Small(S, m) |-> Adds(g, val, s)]
  <2>3. ASSUME NEW s \in Small(S, m)
        PROVE  Adds(g, val, s) = Adds(h, val, s)
    <3>1. CASE s = {}
      BY <3>1 DEF Adds
    <3>2. CASE s # {}
      <4> DEFINE r == s \ {Chosen(s)}
      <4>1. s \in SUBSET S /\ Chosen(s) \in s
        BY <3>2 DEF Chosen, Small
      <4>2. r \in Small(S, k) /\ r \in Small(S, m)
        BY <4>1, Removal DEF Small
      <4> HIDE DEF r
      <4>3. g[r] = Adds(g, val, r)
        BY <2>2, <4>2 DEF Solves
      <4>4. h[r] = Adds(g, val, r)
        BY <4>2
      <4> QED
        BY <4>3, <4>4 DEF Adds, r
    <3> QED
      BY <3>1, <3>2
  <2>4. Solves(h, val, Small(S, m))
    BY <2>3 DEF Solves
  <2> QED
    BY <2>4
<1> QED
  BY <1>2, <1>3

LEMMA SumFunctionExists ==
  ASSUME NEW S, IsFiniteSet(S), NEW val
  PROVE  \E g : Solves(g, val, SUBSET S)
<1>1. Cardinality(S) \in Nat /\ Small(S, Cardinality(S)) = SUBSET S
  BY FS_CardinalityType, FS_Subset DEF Small
<1>2. \E g : Solves(g, val, Small(S, Cardinality(S)))
  BY <1>1, SolutionsExist
<1> QED
  BY <1>1, <1>2

LEMMA SumFunctionsAgree ==
  ASSUME NEW S, IsFiniteSet(S), NEW T, S \subseteq T,
         NEW val, NEW g, NEW h, Solves(g, val, SUBSET T), Solves(h, val, SUBSET S)
  PROVE  \A s \in SUBSET S : g[s] = h[s]
<1> DEFINE Bad == {s \in SUBSET S : g[s] # h[s]}
<1> SUFFICES ASSUME Bad # {} PROVE FALSE
  OBVIOUS
<1>1. PICK s \in Bad : \A r \in Bad : ~(Cardinality(r) < Cardinality(s))
  BY SmallestSet
<1>2. g[s] = Adds(g, val, s) /\ h[s] = Adds(h, val, s)
  BY DEF Solves
<1>3. s # {}
  BY <1>2 DEF Adds
<1> DEFINE r == s \ {Chosen(s)}
<1>4. Chosen(s) \in s
  BY <1>3 DEF Chosen
<1>5. r \in SUBSET S /\ Cardinality(r) < Cardinality(s)
  BY <1>4, Removal
<1>6. g[r] = h[r]
  BY <1>1, <1>5
<1> QED
  BY <1>2, <1>3, <1>6 DEF Adds

(* The sum of val[x] over the elements x of a finite set.                  *)
SumOf(val, S) == (CHOOSE g : Solves(g, val, SUBSET S))[S]

IsSumFunction(g, val, T) ==
  /\ Solves(g, val, SUBSET T)
  /\ \A s \in SUBSET T : SumOf(val, s) = g[s]

LEMMA SumsBySolution ==
  ASSUME NEW T, IsFiniteSet(T), NEW val
  PROVE  \E g : IsSumFunction(g, val, T)
<1>1. PICK g : Solves(g, val, SUBSET T)
  BY SumFunctionExists
<1>2. ASSUME NEW S \in SUBSET T
      PROVE  SumOf(val, S) = g[S]
  <2> DEFINE h == CHOOSE h : Solves(h, val, SUBSET S)
  <2>1. IsFiniteSet(S)
    BY FS_Subset
  <2>2. Solves(h, val, SUBSET S)
    BY <2>1, SumFunctionExists
  <2>3. SumOf(val, S) = h[S]
    BY DEF SumOf
  <2> HIDE DEF h
  <2> QED
    BY <1>1, <2>1, <2>2, <2>3, SumFunctionsAgree
<1> QED
  BY <1>1, <1>2 DEF IsSumFunction

(* The order of the summands is of no matter.                              *)
LEMMA SumStep ==
  ASSUME NEW S, IsFiniteSet(S), NEW val, \A x \in S : val[x] \in Int
  PROVE  /\ SumOf(val, {}) = 0
         /\ SumOf(val, S) \in Int
         /\ \A x \in S : SumOf(val, S) = val[x] + SumOf(val, S \ {x})
<1>1. PICK g : IsSumFunction(g, val, S)
  BY SumsBySolution
<1>2. Solves(g, val, SUBSET S) /\ \A s \in SUBSET S : SumOf(val, s) = g[s]
  BY <1>1 DEF IsSumFunction
<1>3. g[{}] = 0
  BY <1>2 DEF Solves, Adds
<1> DEFINE Right(s) == g[s] \in Int /\ \A x \in s : g[s] = val[x] + g[s \ {x}]
           Bad == {s \in SUBSET S : ~Right(s)}
<1>4. Bad = {}
  <2> SUFFICES ASSUME Bad # {} PROVE FALSE
    OBVIOUS
  <2>1. PICK s \in Bad : \A r \in Bad : ~(Cardinality(r) < Cardinality(s))
    BY SmallestSet
  <2>2. ASSUME NEW x \in s PROVE Right(s \ {x})
    <3>1. s \ {x} \in SUBSET S /\ Cardinality(s \ {x}) < Cardinality(s)
      BY Removal
    <3> QED
      BY <2>1, <3>1
  <2>3. s # {}
    BY <1>3, <2>1
  <2> DEFINE c == Chosen(s)
  <2>4. c \in s
    BY <2>3 DEF Chosen
  <2>5. g[s] = val[c] + g[s \ {c}]
    BY <1>2, <2>3 DEF Solves, Adds
  <2> HIDE DEF c
  <2>6. val[c] \in Int /\ g[s \ {c}] \in Int
    BY <2>2, <2>4
  <2>7. ASSUME NEW x \in s, x # c
        PROVE  g[s] = val[x] + g[s \ {x}]
    <3> DEFINE r == (s \ {c}) \ {x}
    <3>1. x \in s \ {c} /\ c \in s \ {x} /\ (s \ {x}) \ {c} = r
      BY <2>4, <2>7
    <3>2. g[s \ {c}] = val[x] + g[r]
      BY <2>2, <2>4, <3>1
    <3>3. g[s \ {x}] = val[c] + g[r]
      BY <2>2, <2>7, <3>1
    <3>4. g[r] \in Int
      <4>1. r \in SUBSET S /\ Cardinality(r) < Cardinality(s)
        <5>1. s \ {c} \in SUBSET S /\ Cardinality(s \ {c}) = Cardinality(s) - 1 /\ Cardinality(s) \in Nat
          BY <2>4, Removal
        <5> DEFINE p == s \ {c}
        <5>2. p \in SUBSET S /\ x \in p
          BY <3>1, <5>1
        <5> HIDE DEF p
        <5>3. p \ {x} \in SUBSET S /\ Cardinality(p \ {x}) = Cardinality(p) - 1
          BY <5>2, Removal
        <5> QED
          BY <5>1, <5>3 DEF p
      <4> QED
        BY <2>1, <4>1
    <3> HIDE DEF r
    <3>5. val[x] \in Int
      BY <2>7
    <3> QED
      BY <2>5, <2>6, <3>2, <3>3, <3>4, <3>5
  <2>8. g[s] \in Int
    BY <2>5, <2>6
  <2>9. Right(s)
    BY <2>5, <2>7, <2>8
  <2> QED
    BY <2>9
<1>5. Right(S)
  BY <1>4
<1>6. \A x \in S : S \ {x} \in SUBSET S
  OBVIOUS
<1> QED
  BY <1>2, <1>3, <1>5, <1>6

(* More summands, or larger ones, make no smaller sum.                     *)
LEMMA SumCompare ==
  ASSUME NEW T, IsFiniteSet(T), NEW S, S \subseteq T, NEW v, NEW w,
         \A x \in T : w[x] \in Nat, \A x \in S : v[x] \in Nat /\ v[x] <= w[x]
  PROVE  SumOf(v, S) \in Nat /\ SumOf(w, T) \in Nat /\ SumOf(v, S) <= SumOf(w, T)
<1> DEFINE Right(s) == SumOf(v, s \intersect S) \in Nat /\ SumOf(w, s) \in Nat
                       /\ SumOf(v, s \intersect S) <= SumOf(w, s)
           Bad == {s \in SUBSET T : ~Right(s)}
<1>1. Bad = {}
  <2> SUFFICES ASSUME Bad # {} PROVE FALSE
    OBVIOUS
  <2>1. PICK s \in Bad : \A r \in Bad : ~(Cardinality(r) < Cardinality(s))
    BY SmallestSet
  <2>2. IsFiniteSet(s) /\ IsFiniteSet(s \intersect S) /\ s \intersect S \in SUBSET T
    BY FS_Subset
  <2>3. SumOf(v, {}) = 0 /\ SumOf(w, {}) = 0
    BY FS_EmptySet, SumStep
  <2>4. s # {}
    <3>1. s = {} => s \intersect S = {}
      OBVIOUS
    <3> QED
      BY <2>1, <2>3, <3>1
  <2>5. PICK x : x \in s
    BY <2>4
  <2> DEFINE r == s \ {x}
             p == s \intersect S
  <2>6. r \in SUBSET T /\ Cardinality(r) < Cardinality(s)
    BY <2>5, Removal
  <2>7. Right(r)
    BY <2>1, <2>6
  <2>8. SumOf(w, s) = w[x] + SumOf(w, r)
    BY <2>2, <2>5, SumStep
  <2>9. w[x] \in Nat
    BY <2>5
  <2>10. CASE x \in S
    <3>1. x \in p /\ p \ {x} = r \intersect S
      BY <2>5, <2>10
    <3>2. IsFiniteSet(p) /\ \A y \in p : v[y] \in Int
      BY <2>2
    <3>3. SumOf(v, p) = v[x] + SumOf(v, r \intersect S)
      BY <3>1, <3>2, SumStep
    <3>4. v[x] \in Nat /\ v[x] <= w[x]
      BY <2>10
    <3> HIDE DEF r, p
    <3>5. SumOf(v, p) \in Nat /\ SumOf(w, s) \in Nat /\ SumOf(v, p) <= SumOf(w, s)
      BY <2>7, <2>8, <2>9, <3>3, <3>4
    <3> QED
      BY <3>5 DEF p
  <2>11. CASE x \notin S
    <3>1. p = r \intersect S
      BY <2>11
    <3> HIDE DEF r, p
    <3>2. SumOf(v, p) \in Nat /\ SumOf(w, s) \in Nat /\ SumOf(v, p) <= SumOf(w, s)
      BY <2>7, <2>8, <2>9, <3>1
    <3> QED
      BY <3>2 DEF p
  <2> QED
    BY <2>10, <2>11
<1>2. T \in SUBSET T /\ T \intersect S = S
  OBVIOUS
<1> QED
  BY <1>1, <1>2

(* Changing one value changes the sum by as much.                          *)
LEMMA SumChange ==
  ASSUME NEW S, IsFiniteSet(S), NEW v, NEW w, NEW id \in S,
         \A x \in S : v[x] \in Nat /\ w[x] \in Nat,
         \A x \in S \ {id} : v[x] = w[x]
  PROVE  /\ SumOf(v, S) \in Nat /\ SumOf(w, S) \in Nat
         /\ SumOf(w, S) - w[id] = SumOf(v, S) - v[id]
<1> DEFINE R == S \ {id}
<1>1. IsFiniteSet(R) /\ R \subseteq S
  BY FS_RemoveElement
<1>2. /\ SumOf(v, R) \in Nat /\ SumOf(w, R) \in Nat
      /\ SumOf(v, R) <= SumOf(w, R) /\ SumOf(w, R) <= SumOf(v, R)
  BY <1>1, SumCompare
<1>3. SumOf(v, S) \in Nat /\ SumOf(w, S) \in Nat
  BY SumCompare
<1>4. SumOf(v, S) = v[id] + SumOf(v, R) /\ SumOf(w, S) = w[id] + SumOf(w, R)
  BY SumStep
<1> HIDE DEF R
<1> QED
  BY <1>2, <1>3, <1>4

-----------------------------------------------------------------------------
(* The total of a function's values is such a sum.                         *)
LEMMA TotalIsSum ==
  ASSUME NEW val, IsFiniteSet(DOMAIN val)
  PROVE  Total(val) = SumOf(val, DOMAIN val)
<1> DEFINE S == DOMAIN val
           iter == CHOOSE iter : iter = [s \in SUBSET S |->
                     IF s = {} THEN 0
                     ELSE val[CHOOSE x \in s : TRUE] + iter[s \ {CHOOSE x \in s : TRUE}]]
<1>1. Total(val) = iter[S]
  BY DEF Total, MapThenSumSet, MapThenFoldSet
<1>2. ASSUME NEW g, NEW s \in SUBSET S
      PROVE  Adds(g, val, s) = IF s = {} THEN 0
               ELSE val[CHOOSE x \in s : TRUE] + g[s \ {CHOOSE x \in s : TRUE}]
  BY DEF Adds, Chosen
<1>3. IsFiniteSet(S)
  OBVIOUS
<1> HIDE DEF S
<1>4. \E g : Solves(g, val, SUBSET S)
  BY <1>3, SumFunctionExists
<1>5. Solves(iter, val, SUBSET S)
  <2> DEFINE Unfolds(g) == g = [s \in SUBSET S |->
                IF s = {} THEN 0
                ELSE val[CHOOSE x \in s : TRUE] + g[s \ {CHOOSE x \in s : TRUE}]]
  <2>1. \A g : Solves(g, val, SUBSET S) <=> Unfolds(g)
    BY <1>2 DEF Solves
  <2>2. iter = CHOOSE g : Unfolds(g)
    OBVIOUS
  <2> HIDE DEF Unfolds, iter
  <2>3. \E g : Unfolds(g)
    BY <1>4, <2>1
  <2> QED
    BY <2>1, <2>2, <2>3
<1>6. PICK g : IsSumFunction(g, val, S)
  BY <1>3, SumsBySolution
<1> HIDE DEF iter
<1>7. iter[S] = g[S] /\ SumOf(val, S) = g[S]
  <2>1. Solves(g, val, SUBSET S) /\ SumOf(val, S) = g[S]
    BY <1>6 DEF IsSumFunction
  <2>2. S \subseteq S /\ S \in SUBSET S
    OBVIOUS
  <2>3. \A s \in SUBSET S : g[s] = iter[s]
    BY <1>3, <1>5, <2>1, <2>2, SumFunctionsAgree
  <2> QED
    BY <2>1, <2>2, <2>3
<1> QED
  BY <1>1, <1>7 DEF S

LEMMA SolventBySum ==
  /\ Solvent <=> SumOf(Locked, Pairs) <= balanceOf[Escrow]
  /\ Solvent' <=> SumOf(Locked', Pairs) <= balanceOf'[Escrow]
<1> DEFINE v == Locked
           w == Locked'
<1>1. DOMAIN v = Pairs /\ DOMAIN w = Pairs
  BY DEF Locked
<1>2. Solvent <=> Total(v) <= balanceOf[Escrow]
  BY DEF Solvent, Locked
<1>3. Solvent' <=> Total(w) <= balanceOf'[Escrow]
  BY DEF Solvent, Locked, Total, MapThenSumSet, MapThenFoldSet
<1> HIDE DEF v, w
<1>4. Total(v) = SumOf(v, Pairs) /\ Total(w) = SumOf(w, Pairs)
  BY <1>1, TotalIsSum, EscrowAssumption
<1> QED
  BY <1>2, <1>3, <1>4 DEF v, w

(* Every step of the ledger moves the vault as much as what is locked.     *)
LEMMA StepKeepsSolvent ==
  ASSUME IInv, IInv', Solvent, [Next]_vars
  PROVE  Solvent'
<1> DEFINE vault == balanceOf[Escrow]
<1>1. /\ IsFiniteSet(Pairs) /\ vault \in Nat /\ vault' \in Nat
      /\ \A id \in Pairs : Locked[id] \in Nat /\ Locked'[id] \in Nat
  BY EscrowAssumption, WordSizes DEF IInv, TypeOK, TokenTypeOK, Channel, Locked, Holders
<1>2. SumOf(Locked, Pairs) \in Nat /\ SumOf(Locked, Pairs) <= vault
  BY <1>1, SumCompare, SolventBySum
<1> SUFFICES SumOf(Locked', Pairs) <= vault'
  BY SolventBySum
<1>3. [Ledger!Next]_(Ledger!ledgerVars)
  BY StepRefines
<1>4. ASSUME NEW id \in Pairs, NEW d \in Int,
             Locked' = [Locked EXCEPT ![id] = @ + d], vault' = vault + d
      PROVE  SumOf(Locked', Pairs) <= vault'
  <2>1. /\ Locked'[id] = Locked[id] + d /\ \A x \in Pairs \ {id} : Locked[x] = Locked'[x]
        /\ \A x \in Pairs : Locked[x] \in Nat /\ Locked'[x] \in Nat
    BY <1>1, <1>4 DEF Locked
  <2>2. /\ SumOf(Locked', Pairs) \in Nat
        /\ SumOf(Locked', Pairs) - Locked'[id] = SumOf(Locked, Pairs) - Locked[id]
    <3> DEFINE v == Locked
               w == Locked'
    <3> HIDE DEF v, w
    <3>1. /\ \A x \in Pairs : v[x] \in Nat /\ w[x] \in Nat
          /\ \A x \in Pairs \ {id} : v[x] = w[x]
      BY <2>1 DEF v, w
    <3>2. SumOf(w, Pairs) \in Nat /\ SumOf(w, Pairs) - w[id] = SumOf(v, Pairs) - v[id]
      BY <1>1, <3>1, SumChange
    <3> QED
      BY <3>2 DEF v, w
  <2> HIDE DEF vault
  <2> QED
    BY <1>1, <1>2, <1>4, <2>1, <2>2
<1>5. ASSUME Locked' = Locked, vault' >= vault
      PROVE  SumOf(Locked', Pairs) <= vault'
  <2> HIDE DEF vault
  <2> QED
    BY <1>1, <1>2, <1>5
<1> USE DEF Locked
<1>6. ASSUME NEW from \in Accounts, NEW id \in Pairs, NEW amount \in 0 .. MaxUint256,
             Ledger!Lock(from, id, amount)
      PROVE  SumOf(Locked', Pairs) <= vault'
  BY <1>4, <1>6, WordSizes DEF Ledger!Lock
<1>7. ASSUME NEW id \in Pairs, NEW nonce \in Nonces, NEW amount \in 0 .. MaxUint256,
             Ledger!Settle(id, nonce, amount)
      PROVE  SumOf(Locked', Pairs) <= vault'
  <2>1. Locked' = [Locked EXCEPT ![id] = @ + (0 - amount)] /\ vault' = vault + (0 - amount)
    <3>1. /\ Locked' = [Locked EXCEPT ![id] = @ - amount] /\ vault' = vault - amount
      BY <1>7 DEF Ledger!Settle
    <3>2. Locked[id] - amount = Locked[id] + (0 - amount) /\ vault - amount = vault + (0 - amount)
      BY <1>1, WordSizes
    <3> HIDE DEF vault
    <3> QED
      BY <3>1, <3>2
  <2> QED
    BY <1>4, <2>1, WordSizes
<1>8. ASSUME NEW id \in Pairs, Ledger!Refund(id)
      PROVE  SumOf(Locked', Pairs) <= vault'
  <2>1. Locked' = [Locked EXCEPT ![id] = @ + (0 - Locked[id])] /\ vault' = vault + (0 - Locked[id])
    <3>1. /\ Locked' = [Locked EXCEPT ![id] = 0] /\ vault' = vault - Locked[id]
      BY <1>8 DEF Ledger!Refund
    <3>2. Locked[id] + (0 - Locked[id]) = 0 /\ vault - Locked[id] = vault + (0 - Locked[id])
      BY <1>1
    <3> HIDE DEF vault
    <3> QED
      BY <3>1, <3>2
  <2> QED
    BY <1>1, <1>4, <2>1
<1>9. CASE Ledger!Elsewhere \/ Ledger!Pass \/ UNCHANGED Ledger!ledgerVars
  BY <1>1, <1>5, <1>9 DEF Ledger!Elsewhere, Ledger!Pass, Ledger!ledgerVars
<1>10. ASSUME NEW id \in Pairs, Ledger!GiveNotice(id)
       PROVE  SumOf(Locked', Pairs) <= vault'
  BY <1>1, <1>5, <1>10 DEF Ledger!GiveNotice
<1> QED
  BY <1>3, <1>6, <1>7, <1>8, <1>9, <1>10 DEF Ledger!Next

LEMMA InitSolvent == Init => Solvent
<1> SUFFICES ASSUME Init PROVE SumOf(Locked, Pairs) <= balanceOf[Escrow]
  BY SolventBySum
<1>1. IsFiniteSet(Pairs) /\ \A id \in Pairs : Locked[id] = 0
  BY EscrowAssumption DEF Init, NoChannel, Locked
<1>2. SumOf(Locked, Pairs) = 0
  <2> DEFINE none == [s \in SUBSET Pairs |-> 0]
  <2>1. ASSUME NEW s \in SUBSET Pairs PROVE Adds(none, Locked, s) = 0
    <3>1. s # {} => Chosen(s) \in Pairs
      BY DEF Chosen
    <3>2. \A r \in SUBSET Pairs : none[r] = 0
      OBVIOUS
    <3> HIDE DEF none
    <3> QED
      BY <1>1, <3>1, <3>2 DEF Adds
  <2>2. Solves(none, Locked, SUBSET Pairs)
    BY <2>1 DEF Solves
  <2>3. none[Pairs] = 0
    OBVIOUS
  <2> HIDE DEF none
  <2>4. PICK g : IsSumFunction(g, Locked, Pairs)
    BY <1>1, SumsBySolution
  <2> QED
    BY <1>1, <2>2, <2>3, <2>4, SumFunctionsAgree DEF IsSumFunction
<1>3. balanceOf[Escrow] \in Nat
  BY WordSizes, TokenAssumption DEF Init, TokenInit, Holders
<1> QED
  BY <1>2, <1>3

(* The escrow can always pay what its records promise, all of it at once:  *)
(* no call takes out of the contract what belongs to another channel.      *)
THEOREM EscrowStaysSolvent == Spec => []Solvent
<1>1. Init => IInv /\ Solvent
  BY InitIInv, InitSolvent
<1>2. IInv /\ Solvent /\ [Next]_vars => IInv' /\ Solvent'
  BY NextKeepsIInv, StepKeepsSolvent
<1> QED
  BY <1>1, <1>2, PTL DEF Spec

=============================================================================
