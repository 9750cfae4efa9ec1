------------------------------ MODULE EndToEnd ------------------------------
(***************************************************************************)
(* From a signed ticket to its payment: the gatekeeper, the settlement     *)
(* worker and the contract as one system.  The gate serves tickets; a win  *)
(* becomes a claim, the claim goes through the worker's queue to the node  *)
(* and is mined while clients open, fund, close and withdraw.  Clients     *)
(* reconnect, which resets their watermark, and the provider's daemon may  *)
(* be restarted, which resets everything it keeps in memory.  The          *)
(* contract's nullifiers outlive both.                                     *)
(*                                                                         *)
(* Between gate and worker stands the caller that types.rs:75 asks for and *)
(* no code of src/ is: it makes a claim of each win, rotates the seed and  *)
(* queues the claim, once.  The gate's clock and block.timestamp are taken *)
(* to be the same.                                                         *)
(***************************************************************************)
EXTENDS SettlementWorker

CONSTANTS Clients, FrameSet, MaxUint64, MaxSessions

VARIABLES provider_seed, provider_commitment, seed_invalidated,
          last_nonce, usedSeeds, winning,
          tasks,      \* history: every claim made
          held,       \* the claims made and not yet on the worker's queue
          served, session, sessions

Gate == INSTANCE TicketVerifier

(* Clients have accounts, the provider's own is no client's and starts     *)
(* empty, nonces are 64-bit words, and the worker is modelled on every     *)
(* claim the gate can hand it.                                             *)
ASSUME SystemAssumption ==
  /\ Clients \subseteq Accounts \ {Provider}
  /\ Deployer = Provider => InitialSupply = 0
  /\ MaxUint64 \in Nat /\ Nonces \subseteq 0 .. MaxUint64
  /\ \A frame \in FrameSet, seed \in Seeds : Gate!ClaimOf(frame, seed) \in ClaimSet

gateVars == <<provider_seed, provider_commitment, seed_invalidated,
              last_nonce, usedSeeds, winning, tasks, served, session, sessions>>
systemVars == <<allVars, gateVars, held>>

SystemInit == WorkerInit /\ Gate!VerifierInit /\ held = {}

-----------------------------------------------------------------------------
GateStep ==
  /\ \/ \E client \in Clients, frame \in FrameSet :
          Gate!ServeLosing(client, frame) \/ Gate!ServeWinning(client, frame)
     \/ \E new_seed \in Seeds : Gate!ClaimAndRotate(new_seed)
     \/ \E client \in Clients : Gate!Handshake(client)
  /\ held' = held \cup (tasks' \ tasks)
  /\ UNCHANGED allVars

(* The claim of a win goes on the worker's queue.                          *)
HandOver ==
  /\ \E task \in held : Enqueue(task) /\ held' = held \ {task}
  /\ UNCHANGED gateVars

WorkerStep ==
  /\ \/ Start \/ Recv \/ Broadcast \/ SendFails \/ SendUnanswered
     \/ WatchFails \/ WatchOk \/ Mine
  /\ UNCHANGED <<gateVars, held>>

(* A fault: the daemon reads its seed from its configuration, an old one.  *)
ProviderRestartOldSeed(new_seed) ==
  /\ Restart
  /\ new_seed \in usedSeeds
  /\ Gate!rotate_seed(new_seed)
  /\ last_nonce' = [client \in Clients |-> 0]
  /\ session' = [client \in Clients |-> <<>>]
  /\ winning' = {} /\ held' = {}
  /\ UNCHANGED <<usedSeeds, tasks, served, sessions>>

(* The daemon ends, and with it all it knows: the seed, the watermarks and *)
(* every win that the node does not have yet, at the gate, in its caller,  *)
(* on the worker's queue or in its hand.                                   *)
ProviderRestart(new_seed) ==
  /\ Restart
  /\ new_seed \notin usedSeeds
  /\ Gate!rotate_seed(new_seed)
  /\ usedSeeds' = usedSeeds \cup {new_seed}
  /\ last_nonce' = [client \in Clients |-> 0]
  /\ session' = [client \in Clients |-> <<>>]
  /\ winning' = {} /\ held' = {}
  /\ UNCHANGED <<tasks, served, sessions>>

(* What clients send to the contract; claims come from the worker alone.   *)
ClientTransaction ==
  /\ \E client \in Clients :
       \/ \E amount \in Amounts : openChannel(client, Provider, amount)
       \/ \E id \in Pairs, amount \in Amounts : deposit(client, id, amount)
       \/ \E id \in Pairs : requestClose(client, id) \/ withdraw(client, id)
       \/ \E amount \in Approvals :
            approve(client, amount) /\ UNCHANGED <<escrowVars, now>>
  /\ UNCHANGED <<workerVars, nodeVars, logVars, crashVars, gateVars, held>>

Time == Tick /\ UNCHANGED <<workerVars, nodeVars, logVars, crashVars, gateVars, held>>

SystemNext ==
  \/ GateStep \/ HandOver \/ WorkerStep
  \/ \E new_seed \in Seeds : ProviderRestart(new_seed)
  \/ ClientTransaction \/ Time

SystemSpec == SystemInit /\ [][SystemNext]_systemVars

-----------------------------------------------------------------------------
(* A broadcast claim shows its seed to everyone who reads the mempool.     *)
(* The gate serves no ticket under such a seed, whatever the order of      *)
(* rotation, hand-over, broadcast, mining and restarts.                    *)
RevealedSeedServesNothing ==
  [][Gate!Serves => \A i \in DOMAIN broadcasts :
                      broadcasts[i].providerSeed # provider_seed]_systemVars

(* What a set of tickets is worth if each nonce is paid once, at its       *)
(* dearest.                                                                *)
WinsOf(history) == {r.frame.ticket : r \in {r \in history : r.won}}

NoncesOf(wins) == {Nullifier(t) : t \in wins}

DearestOf(wins) ==
  [n \in NoncesOf(wins) |-> Max({t.faceValue : t \in {t \in wins : Nullifier(t) = n}})]

(* A nonce of a channel is charged once, for a ticket the gate called a    *)
(* win, even when a reconnect or a restart makes the gate serve the nonce  *)
(* again: the provider has no more money than the dearest win of each      *)
(* nonce it served.                                                        *)
ChargedOncePerNonce == balanceOf[Provider] <= Total(DearestOf(WinsOf(served)))

(* What the gate checks is enough for claimTicket: a regular claim, however *)
(* late it is sent and whatever was done to the channel meanwhile, is      *)
(* payable exactly as long as it has not expired, its nonce is unpaid and  *)
(* its channel exists and covers it.  No seed, signature, payee or draw of *)
(* it is ever refused on chain.                                            *)
RegularClaimsNeedOnlyFunds ==
  \A claim \in tasks :
    LET ticket == claim.ticket
    IN  Gate!Regular(claim) =>
          (CanClaim(Provider, claim) <=>
             /\ Exists(ticket.channelId) /\ NotExpired(ticket)
             /\ Covered(ticket) /\ Unclaimed(ticket))

(* A served win leaves the daemon's memory, where it is pending, held,     *)
(* queued or in hand, for the node, for the log of failed claims, or with  *)
(* the daemon itself, which writes nothing down: settlement.rs:26.  The    *)
(* gate takes no second win in the place of one not yet claimed, the       *)
(* worker drops none without a word, and what the node was given outlives  *)
(* every restart.                                                          *)
ClaimFor(r) == Gate!ClaimOf(r.frame, r.seed)

InMemory(r) == \/ r.frame \in winning /\ r.seed = provider_seed
               \/ ClaimFor(r) \in held \cup ToSet(queue) \cup InHand

OnTheNode(r) == ClaimFor(r) \in ToSet(mempool) \cup mined

OnlyRestartsLoseWins ==
  [][\A r \in served :
       r.won =>
         /\ InMemory(r) => \/ InMemory(r)' \/ OnTheNode(r)'
                           \/ ClaimFor(r) \in failed' \/ restarts' # restarts
         /\ OnTheNode(r) => OnTheNode(r)']_systemVars

=============================================================================
