--------------------------- MODULE TicketVerifier ---------------------------
(***************************************************************************)
(* The provider's gatekeeper: one verifier with one secret seed, asked     *)
(* about the tickets of several client sessions.  The session watermark    *)
(* and what is done with a decision belong to its callers: a served ticket *)
(* moves the watermark, a handshake resets it, and a win makes the caller  *)
(* rotate the seed.  The caller in src/, the simulator, only counts a win; *)
(* the one types.rs:75 asks for and docs/DEV2_GATEKEEPER_LOG.md spells out *)
(* claims it first.  Both are callers here.                                *)
(***************************************************************************)
EXTENDS Tickets, Sequences

CONSTANTS Clients,       \* the addresses that open sessions
          Provider,      \* the provider's own address
          FrameSet,      \* the ticket frames clients may send
          MaxUint64,     \* u64::MAX
          MaxSessions,   \* bound on handshakes, for model checking
          MaxTime        \* bound on the clock, for model checking

Frames == [ticket : TicketSet, signature : Signatures]

ASSUME VerifierAssumption ==
  /\ Clients \subseteq Accounts
  /\ FrameSet \subseteq Frames
  /\ MaxUint64 \in Nat
  /\ Nonces \subseteq 0 .. MaxUint64
  /\ MaxSessions \in Nat
  /\ MaxTime \in Nat

VARIABLES provider_seed, provider_commitment, seed_invalidated,
          last_nonce,    \* watermark of each client's session
          now,           \* SystemTime, in seconds
          usedSeeds,     \* every seed the provider has had
          winning,       \* the winning frame its caller has yet to answer, if any
          tasks,         \* the claims made for settlement
          served,        \* history: [client, frame, seed, won] of every served ticket
          session,       \* history: the nonces served to each client since its handshake
          sessions       \* handshakes so far

verifierVars == <<provider_seed, provider_commitment, seed_invalidated>>
callerVars == <<last_nonce, usedSeeds, winning, tasks, served, session, sessions>>
vars == <<verifierVars, callerVars, now>>

VerifierInit ==
  /\ provider_seed \in Seeds
  /\ provider_commitment = Keccak(provider_seed)
  /\ seed_invalidated = FALSE
  /\ last_nonce = [client \in Clients |-> 0]
  /\ usedSeeds = {provider_seed}
  /\ winning = {}
  /\ tasks = {}
  /\ served = {}
  /\ session = [client \in Clients |-> <<>>]
  /\ sessions = 0

Init == VerifierInit /\ now = 0

-----------------------------------------------------------------------------
(* verify_ticket.  Bytes that are no signature at all and signatures over  *)
(* something else end in the same verdict.                                 *)
NonceWraps(nonce, last) == nonce = (last + 1) % (MaxUint64 + 1)   \* a fault

NonceFollows(nonce, last) ==
  /\ nonce = (last + 1) % (MaxUint64 + 1)
  /\ last # MaxUint64

CommitmentUnchecked(ticket) == TRUE   \* a fault

CommitmentIsCurrent(ticket) == ticket.providerCommitment = provider_commitment

SignatureHolds(frame, client_addr) ==
  /\ frame.signature.s <= SECP256K1_HALF_ORDER
  /\ Recover(frame.ticket, frame.signature) = client_addr

WinsUnder(ticket, seed) ==
  GateWins(ticket.winProbNumerator, ticket.winProbDenominator, CombinedHash(ticket, seed))

verify_ticket(frame, client_addr, last) ==
  LET ticket == frame.ticket
  IN  IF ~NonceFollows(ticket.nonce, last) THEN "InvalidNonce"
      ELSE IF ~CommitmentIsCurrent(ticket) THEN "InvalidCommitment"
      ELSE IF ticket.expiry <= now THEN "Expired"
      ELSE IF ~SignatureHolds(frame, client_addr) THEN "InvalidSignature"
      ELSE IF WinsUnder(ticket, provider_seed) THEN "ValidWinning"
      ELSE "ValidLosing"

GateIgnoresFlag(frame, client_addr, last) ==   \* a fault
  verify_ticket(frame, client_addr, last)

(* evaluate_and_gate.  A spent seed rejects everything before any check.   *)
Gate(frame, client_addr, last) ==
  IF seed_invalidated THEN "InvalidCommitment"
  ELSE verify_ticket(frame, client_addr, last)

Serve(client, frame, won) ==
  /\ last_nonce' = [last_nonce EXCEPT ![client] = frame.ticket.nonce]
  /\ session' = [session EXCEPT ![client] = Append(@, frame.ticket.nonce)]
  /\ served' = served \cup
       {[client |-> client, frame |-> frame, seed |-> provider_seed, won |-> won]}

ServeLosing(client, frame) ==
  /\ Gate(frame, client, last_nonce[client]) = "ValidLosing"
  /\ Serve(client, frame, FALSE)
  /\ UNCHANGED <<verifierVars, usedSeeds, winning, tasks, sessions, now>>

ServeWinning(client, frame) ==
  /\ Gate(frame, client, last_nonce[client]) = "ValidWinning"
  /\ seed_invalidated' = TRUE
  /\ winning' = {frame}
  /\ Serve(client, frame, TRUE)
  /\ UNCHANGED <<provider_seed, provider_commitment, usedSeeds, tasks, sessions, now>>

-----------------------------------------------------------------------------
(* A fault: rotation leaves the published commitment behind.               *)
rotate_seed_only(new_seed) ==
  /\ provider_seed' = new_seed
  /\ seed_invalidated' = FALSE
  /\ UNCHANGED provider_commitment

rotate_seed(new_seed) ==
  /\ provider_seed' = new_seed
  /\ provider_commitment' = Keccak(new_seed)
  /\ seed_invalidated' = FALSE

(* The simulator's answer to a win: a random new seed, which no draw of    *)
(* the generator repeats, and no claim.                                    *)
Rotate(new_seed) ==
  /\ winning # {}
  /\ new_seed \notin usedSeeds
  /\ rotate_seed(new_seed)
  /\ usedSeeds' = usedSeeds \cup {new_seed}
  /\ winning' = {}
  /\ UNCHANGED <<last_nonce, tasks, served, session, sessions, now>>

(* The intended caller's answer: a claim that reveals the winning seed     *)
(* first, which no code of src/ makes.                                     *)
ClaimOf(frame, seed) ==
  [ticket |-> frame.ticket, signature |-> frame.signature, providerSeed |-> seed]

ClaimAndRotate(new_seed) ==
  /\ winning # {}
  /\ new_seed \notin usedSeeds
  /\ tasks' = tasks \cup {ClaimOf(frame, provider_seed) : frame \in winning}
  /\ rotate_seed(new_seed)
  /\ usedSeeds' = usedSeeds \cup {new_seed}
  /\ winning' = {}
  /\ UNCHANGED <<last_nonce, served, session, sessions, now>>

(* A client connects again: its session starts from watermark 0.           *)
Handshake(client) ==
  /\ sessions < MaxSessions
  /\ sessions' = sessions + 1
  /\ last_nonce' = [last_nonce EXCEPT ![client] = 0]
  /\ session' = [session EXCEPT ![client] = <<>>]
  /\ UNCHANGED <<verifierVars, usedSeeds, winning, tasks, served, now>>

Tick ==
  /\ now < MaxTime
  /\ now' = now + 1
  /\ UNCHANGED <<verifierVars, callerVars>>

Next ==
  \/ \E client \in Clients, frame \in FrameSet :
       ServeLosing(client, frame) \/ ServeWinning(client, frame)
  \/ \E new_seed \in Seeds : Rotate(new_seed) \/ ClaimAndRotate(new_seed)
  \/ \E client \in Clients : Handshake(client)
  \/ Tick

Spec == Init /\ [][Next]_vars

-----------------------------------------------------------------------------
TypeOK ==
  /\ provider_seed \in Seeds
  /\ provider_commitment = Keccak(provider_seed)
  /\ seed_invalidated \in BOOLEAN
  /\ last_nonce \in [Clients -> 0 .. MaxUint64]
  /\ now \in Nat
  /\ usedSeeds \subseteq Seeds
  /\ winning \subseteq FrameSet
  /\ tasks \subseteq Claims
  /\ served \subseteq [client : Clients, frame : FrameSet, seed : Seeds, won : BOOLEAN]
  /\ session \in [Clients -> Seq(Nonces)]
  /\ sessions \in Nat

(* A seed whose draw was won is about to be public, and a client that      *)
(* knows it can choose tickets that win.  No ticket is served under such a *)
(* seed, whichever session it comes from and however long the claim and    *)
(* the rotation take (evaluate_and_gate, rotate_seed).                     *)
Serves == \E client \in Clients, frame \in FrameSet :
            ServeLosing(client, frame) \/ ServeWinning(client, frame)

SpentSeedServesNothing ==
  [][Serves => \A win \in {r \in served : r.won} :
                 win.seed # provider_seed]_vars

(* What a session was served are the nonces 1, 2, 3, ... without gap or    *)
(* repetition, up to its watermark, also at the end of the 64-bit range.   *)
SessionIsContiguous ==
  \A client \in Clients : session[client] = [i \in 1 .. last_nonce[client] |-> i]

(* Every claim made for settlement passes those checks of claimTicket that *)
(* depend on the claim alone: it opens the commitment the client signed,   *)
(* recovers the channel's client and wins.  The odds must be below         *)
(* certainty, s a low value by the contract's reckoning, and the ticket    *)
(* drawn on the signer's own channel: the gatekeeper checks none of these. *)
Regular(claim) ==
  /\ claim.ticket.winProbNumerator < claim.ticket.winProbDenominator
  /\ claim.signature.s <= SECP256K1_N \div 2
  /\ claim.ticket.channelId = getChannelId(claim.signature.signer, Provider)

ClaimsArePayable ==
  \A claim \in tasks :
    Regular(claim) => /\ SeedMatches(claim)
                      /\ SignedBy(claim, claim.ticket.channelId[1])
                      /\ Wins(claim)

(* The gatekeeper and its callers implement the seed's life cycle: one     *)
(* step of the watermark per served ticket, nothing under a spent seed,    *)
(* and no seed revealed but the one that is replaced.  That a claim takes  *)
(* its seed before the rotation is the intended caller's part.             *)
Sessions == INSTANCE SeedSessions WITH
  People <- Clients, SeedValues <- Seeds,
  count <- last_nonce, seed <- provider_seed, spent <- seed_invalidated,
  revealed <- {claim.providerSeed : claim \in tasks}

ImplementsSessions == Sessions!Spec

(* docs/DEV2_GATEKEEPER_LOG.md: the gatekeeper accepts a signature only if *)
(* s <= n / 2.  Violated: the constant in types.rs is larger.              *)
AcceptedSignaturesAreLow ==
  \A r \in served : r.frame.signature.s <= SECP256K1_N \div 2

=============================================================================
