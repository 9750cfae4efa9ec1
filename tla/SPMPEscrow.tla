----------------------------- MODULE SPMPEscrow -----------------------------
(***************************************************************************)
(* The escrow contract.  A transaction is one atomic action (the contract  *)
(* is nonReentrant and the token calls nobody back); a transaction whose   *)
(* guard fails reverts and changes nothing, so it is no action.            *)
(***************************************************************************)
EXTENDS Tickets, MockUSDC, FiniteSetsExt

CONSTANTS ClaimSet,           \* the claims that may be submitted
          WITHDRAWAL_DELAY,   \* from the close request to the withdrawal
          MaxTime             \* bound on block.timestamp, for model checking

ASSUME EscrowAssumption ==
  /\ IsFiniteSet(Pairs)
  /\ ClaimSet \subseteq Claims
  /\ WITHDRAWAL_DELAY \in Nat
  /\ MaxTime \in Nat
  /\ Escrow # NoAddress

VARIABLES channels,     \* the record of each pair; its client is NoAddress when absent
          nullifiers,   \* the (channelId, nonce) already paid
          now           \* block.timestamp

escrowVars == <<channels, nullifiers>>
vars == <<tokenVars, escrowVars, now>>

Channel ==
  [client : Accounts \cup {NoAddress}, provider : Accounts \cup {NoAddress},
   balance : 0 .. MaxUint256, closeRequestedAt : Nat]

NoChannel ==
  [client |-> NoAddress, provider |-> NoAddress, balance |-> 0, closeRequestedAt |-> 0]

Init ==
  /\ TokenInit
  /\ channels = [id \in Pairs |-> NoChannel]
  /\ nullifiers = {}
  /\ now = 1

-----------------------------------------------------------------------------
ExistsUnchecked(id) == TRUE   \* a fault

Exists(id) == channels[id].client # NoAddress

openChannel(sender, provider, amount) ==
  LET id == getChannelId(sender, provider)
  IN  /\ amount > 0
      /\ id \in Pairs
      /\ ~Exists(id)
      /\ channels' = [channels EXCEPT ![id] =
           [client |-> sender, provider |-> provider,
            balance |-> amount, closeRequestedAt |-> 0]]
      /\ transferFrom(sender, amount)
      /\ UNCHANGED <<nullifiers, now>>

(* Anyone may add to a channel, also to one that is closing.               *)
deposit(sender, id, amount) ==
  /\ Exists(id)
  /\ amount > 0
  /\ channels[id].balance + amount <= MaxUint256
  /\ channels' = [channels EXCEPT ![id].balance = @ + amount]
  /\ transferFrom(sender, amount)
  /\ UNCHANGED <<nullifiers, now>>

-----------------------------------------------------------------------------
(* The checks of claimTicket that read the contract's state.               *)
Nullifier(ticket) == <<ticket.channelId, ticket.nonce>>

NotExpired(ticket) == now <= ticket.expiry

CoveredUnchecked(ticket) == TRUE   \* a fault

Covered(ticket) == ticket.faceValue <= channels[ticket.channelId].balance

UnclaimedUnchecked(ticket) == TRUE   \* a fault

Unclaimed(ticket) == Nullifier(ticket) \notin nullifiers

CanClaim(sender, claim) ==
  LET ticket == claim.ticket
      channel == channels[ticket.channelId]
  IN  /\ Exists(ticket.channelId)
      /\ channel.provider = sender
      /\ NotExpired(ticket)
      /\ Covered(ticket)
      /\ Unclaimed(ticket)
      /\ SeedMatches(claim)
      /\ SignedBy(claim, channel.client)
      /\ Wins(claim)

claimTicket(sender, claim) ==
  LET ticket == claim.ticket
      channel == channels[ticket.channelId]
  IN  /\ CanClaim(sender, claim)
      /\ nullifiers' = nullifiers \cup {Nullifier(ticket)}
      /\ channels' = [channels EXCEPT ![ticket.channelId].balance = @ - ticket.faceValue]
      /\ transfer(Escrow, channel.provider, ticket.faceValue)
      /\ UNCHANGED <<allowance, now>>

-----------------------------------------------------------------------------
(* A fault: the request may be repeated, and each time restarts the delay. *)
requestCloseAgain(sender, id) ==
  /\ channels[id].client = sender
  /\ channels' = [channels EXCEPT ![id].closeRequestedAt = now]
  /\ UNCHANGED <<tokenVars, nullifiers, now>>

requestClose(sender, id) ==
  /\ channels[id].client = sender
  /\ channels[id].closeRequestedAt = 0
  /\ channels' = [channels EXCEPT ![id].closeRequestedAt = now]
  /\ UNCHANGED <<tokenVars, nullifiers, now>>

DelaySkipped(id) == channels[id].closeRequestedAt # 0   \* a fault

(* The end of the delay window of a channel whose close was requested.     *)
DelayPassed(id) ==
  /\ channels[id].closeRequestedAt # 0
  /\ now >= channels[id].closeRequestedAt + WITHDRAWAL_DELAY

(* A fault: the refund leaves the record behind.                           *)
withdrawKeepsRecord(sender, id) ==
  /\ channels[id].client = sender
  /\ DelayPassed(id)
  /\ channels' = [channels EXCEPT ![id].closeRequestedAt = 0]
  /\ transfer(Escrow, sender, channels[id].balance)
  /\ UNCHANGED <<allowance, nullifiers, now>>

withdraw(sender, id) ==
  /\ channels[id].client = sender
  /\ DelayPassed(id)
  /\ channels' = [channels EXCEPT ![id] = NoChannel]
  /\ transfer(Escrow, sender, channels[id].balance)
  /\ UNCHANGED <<allowance, nullifiers, now>>

Tick ==
  /\ now < MaxTime
  /\ now' = now + 1
  /\ UNCHANGED <<tokenVars, escrowVars>>

Next ==
  \/ \E sender \in Accounts, provider \in Accounts, amount \in Amounts :
       openChannel(sender, provider, amount)
  \/ \E sender \in Accounts, id \in Pairs, amount \in Amounts : deposit(sender, id, amount)
  \/ \E sender \in Accounts, claim \in ClaimSet : claimTicket(sender, claim)
  \/ \E sender \in Accounts, id \in Pairs :
       requestClose(sender, id) \/ withdraw(sender, id)
  \/ TokenStep /\ UNCHANGED <<escrowVars, now>>
  \/ Tick

Spec == Init /\ [][Next]_vars

(* Blocks keep coming, and a client who may withdraw does so eventually.   *)
FairSpec ==
  /\ Spec
  /\ WF_vars(Tick)
  /\ \A sender \in Accounts, id \in Pairs : WF_vars(withdraw(sender, id))

-----------------------------------------------------------------------------
TypeOK ==
  /\ TokenTypeOK
  /\ channels \in [Pairs -> Channel]
  /\ nullifiers \subseteq Pairs \X Nonces
  /\ now \in Nat \ {0}

(* The sum of a function's values.                                         *)
Total(val) == MapThenSumSet(LAMBDA x : val[x], DOMAIN val)

(* Every token a channel record promises is in the contract: claims and    *)
(* refunds of all channels can be paid at once, in any order.              *)
Solvent == Total([id \in Pairs |-> channels[id].balance]) <= balanceOf[Escrow]

(* A record belongs to the pair that is its key, or is entirely clear: no  *)
(* closed channel keeps money, a pending close request or an owner.        *)
ChannelsAreWhole ==
  \A id \in Pairs :
    \/ channels[id] = NoChannel
    \/ channels[id].client = id[1] /\ channels[id].provider = id[2]

-----------------------------------------------------------------------------
(* The window the delay gives the provider.  A claim the provider could    *)
(* have submitted before a step and no longer can after it was lost in one *)
(* of four ways: the same nonce was paid; the ticket expired; another      *)
(* ticket of the same channel was paid and left too little; or the client  *)
(* withdrew, a full delay after asking to.                                 *)
LostFairly(claim) ==
  LET id == claim.ticket.channelId
      paid == {n \in nullifiers' \ nullifiers : n[1] = id}
  IN  \/ Nullifier(claim.ticket) \in paid
      \/ now' > claim.ticket.expiry
      \/ paid # {} /\ channels'[id].balance < claim.ticket.faceValue
      \/ /\ channels[id].closeRequestedAt # 0
         /\ channels[id].closeRequestedAt + WITHDRAWAL_DELAY <= now
         /\ channels'[id] = NoChannel

ClaimsSurvive ==
  [][\A sender \in Accounts, claim \in ClaimSet :
       CanClaim(sender, claim) /\ ~CanClaim(sender, claim)' => LostFairly(claim)]_vars

(* The contract implements the payment ledger: slots are nonces, the vault *)
(* is the contract's token balance, notice is the close request.           *)
Ledger == INSTANCE PaymentLedger WITH
  People <- Accounts, PayerPayee <- Pairs, SlotNumbers <- Nonces,
  Money <- 0 .. MaxUint256, Grace <- WITHDRAWAL_DELAY,
  wallet <- [holder \in Accounts |-> balanceOf[holder]],
  vault <- balanceOf[Escrow],
  locked <- [id \in Pairs |-> channels[id].balance],
  noticeAt <- [id \in Pairs |-> channels[id].closeRequestedAt],
  settled <- nullifiers,
  clock <- now

ImplementsLedger == Ledger!Spec

(* A client who asked to close gets the channel's money back, unless it    *)
(* was claimed before: a close request is followed by the end of the       *)
(* channel, as long as the clock can reach the end of the delay.           *)
CloseLeadsToRefund ==
  \A id \in Pairs :
    (channels[id].closeRequestedAt # 0
       /\ channels[id].closeRequestedAt + WITHDRAWAL_DELAY <= MaxTime)
      ~> (channels[id] = NoChannel)

=============================================================================
