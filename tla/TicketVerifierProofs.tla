------------------------ MODULE TicketVerifierProofs ------------------------
(***************************************************************************)
(* The gatekeeper, for every set of clients, tickets, seeds and frames,    *)
(* every outcome of the draws and every width of the nonce.                *)
(***************************************************************************)
EXTENDS TicketVerifier, WinOddsProofs

-----------------------------------------------------------------------------
(* What makes the properties inductive.  While no win is pending the       *)
(* current seed is unspent; a pending win was drawn under the current seed *)
(* and signed by whom its signature names.                                 *)
SeedLifecycle ==
  /\ seed_invalidated \/ winning = {}
  /\ provider_seed \in usedSeeds
  /\ \A r \in served :
       /\ r.seed \in usedSeeds
       /\ r.won /\ r.seed = provider_seed => seed_invalidated
  /\ \A claim \in tasks : claim.providerSeed \in usedSeeds

Drawn(ticket, signature, seed) ==
  /\ Keccak(seed) = ticket.providerCommitment
  /\ signature.over = ticket
  /\ GateWins(ticket.winProbNumerator, ticket.winProbDenominator, CombinedHash(ticket, seed))

WinsAreDrawn ==
  /\ \A frame \in winning : Drawn(frame.ticket, frame.signature, provider_seed)
  /\ \A claim \in tasks : Drawn(claim.ticket, claim.signature, claim.providerSeed)

IInv == TypeOK /\ SeedLifecycle /\ WinsAreDrawn /\ SessionIsContiguous

-----------------------------------------------------------------------------
LEMMA SmallModulus ==
  ASSUME NEW a \in Nat, NEW m \in Nat, a < m
  PROVE  a % m = a
OBVIOUS

LEMMA NonceIsNext ==
  ASSUME NEW nonce, NEW last \in 0 .. MaxUint64, NonceFollows(nonce, last)
  PROVE  nonce = last + 1 /\ last + 1 \in 0 .. MaxUint64
<1>1. MaxUint64 \in Nat /\ last + 1 < MaxUint64 + 1 /\ last + 1 \in Nat
  BY VerifierAssumption DEF NonceFollows
<1>2. (last + 1) % (MaxUint64 + 1) = last + 1
  BY <1>1, SmallModulus
<1> QED
  BY <1>1, <1>2 DEF NonceFollows

(* One more nonce extends the contiguous prefix.                           *)
LEMMA ExtendPrefix ==
  ASSUME NEW n \in Nat
  PROVE  Append([i \in 1 .. n |-> i], n + 1) = [i \in 1 .. n + 1 |-> i]
<1> DEFINE s == [i \in 1 .. n |-> i]
<1>1. s \in Seq(Nat) /\ Len(s) = n
  OBVIOUS
<1>2. DOMAIN Append(s, n + 1) = 1 .. n + 1
  BY <1>1
<1>3. \A i \in 1 .. n + 1 : Append(s, n + 1)[i] = i
  BY <1>1
<1>4. Append(s, n + 1) = [i \in 1 .. n + 1 |-> Append(s, n + 1)[i]]
  BY <1>1, <1>2
<1> HIDE DEF s
<1> QED
  BY <1>3, <1>4 DEF s

(* What the gate has established about a frame it lets pass.               *)
LEMMA GatePasses ==
  ASSUME IInv, NEW client \in Clients, NEW frame \in FrameSet,
         NEW verdict \in {"ValidLosing", "ValidWinning"},
         Gate(frame, client, last_nonce[client]) = verdict
  PROVE  /\ ~seed_invalidated
         /\ NonceFollows(frame.ticket.nonce, last_nonce[client])
         /\ frame.ticket.providerCommitment = Keccak(provider_seed)
         /\ SignatureHolds(frame, client)
         /\ verdict = "ValidWinning" => WinsUnder(frame.ticket, provider_seed)
BY DEF Gate, verify_ticket, CommitmentIsCurrent, IInv, TypeOK

LEMMA InitIInv == Init => IInv
<1> SUFFICES ASSUME Init PROVE IInv
  OBVIOUS
<1>1. MaxUint64 \in Nat
  BY VerifierAssumption
<1>2. TypeOK
  <2>1. session \in [Clients -> Seq(Nonces)]
    <3>1. <<>> \in Seq(Nonces)
      OBVIOUS
    <3> QED
      BY <3>1 DEF Init, VerifierInit
  <2>2. last_nonce \in [Clients -> 0 .. MaxUint64]
    BY <1>1 DEF Init, VerifierInit
  <2> QED
    BY <2>1, <2>2 DEF Init, VerifierInit, TypeOK
<1>3. SeedLifecycle /\ WinsAreDrawn
  BY DEF Init, VerifierInit, SeedLifecycle, WinsAreDrawn
<1>4. SessionIsContiguous
  <2> SUFFICES ASSUME NEW client \in Clients
               PROVE  session[client] = [i \in 1 .. last_nonce[client] |-> i]
    BY DEF SessionIsContiguous
  <2>1. session[client] = <<>> /\ last_nonce[client] = 0
    BY DEF Init, VerifierInit
  <2> QED
    BY <2>1
<1> QED
  BY <1>2, <1>3, <1>4 DEF IInv

(* Serving keeps the session's history and watermark in step.              *)
LEMMA ServeKeepsSession ==
  ASSUME IInv, NEW client \in Clients, NEW frame \in FrameSet, NEW won \in BOOLEAN,
         NonceFollows(frame.ticket.nonce, last_nonce[client]),
         Serve(client, frame, won)
  PROVE  /\ last_nonce' \in [Clients -> 0 .. MaxUint64]
         /\ session' \in [Clients -> Seq(Nonces)]
         /\ served' \subseteq [client : Clients, frame : FrameSet, seed : Seeds, won : BOOLEAN]
         /\ SessionIsContiguous'
<1> DEFINE nonce == frame.ticket.nonce
<1>1. nonce \in Nonces
  BY VerifierAssumption, TicketAssumption DEF Frames, Tickets
<1>2. last_nonce[client] \in 0 .. MaxUint64 /\ last_nonce[client] \in Nat
  BY VerifierAssumption DEF IInv, TypeOK
<1>3. nonce = last_nonce[client] + 1 /\ nonce \in 0 .. MaxUint64
  BY <1>2, NonceIsNext
<1>4. last_nonce' = [last_nonce EXCEPT ![client] = nonce]
      /\ session' = [session EXCEPT ![client] = Append(@, nonce)]
  BY DEF Serve
<1> HIDE DEF nonce
<1>5. last_nonce' \in [Clients -> 0 .. MaxUint64]
  BY <1>3, <1>4 DEF IInv, TypeOK
<1>6. session[client] \in Seq(Nonces) /\ Append(session[client], nonce) \in Seq(Nonces)
  BY <1>1 DEF IInv, TypeOK
<1>7. session' \in [Clients -> Seq(Nonces)]
  BY <1>4, <1>6 DEF IInv, TypeOK
<1>8. served' \subseteq [client : Clients, frame : FrameSet, seed : Seeds, won : BOOLEAN]
  BY DEF Serve, IInv, TypeOK
<1>9. SessionIsContiguous'
  <2> SUFFICES ASSUME NEW other \in Clients
               PROVE  session'[other] = [i \in 1 .. last_nonce'[other] |-> i]
    BY DEF SessionIsContiguous
  <2>1. CASE other = client
    <3>1. session'[other] = Append(session[client], nonce) /\ last_nonce'[other] = nonce
      BY <2>1, <1>4 DEF IInv, TypeOK
    <3>2. session[client] = [i \in 1 .. last_nonce[client] |-> i]
      BY DEF IInv, SessionIsContiguous
    <3>3. Append([i \in 1 .. last_nonce[client] |-> i], last_nonce[client] + 1)
            = [i \in 1 .. last_nonce[client] + 1 |-> i]
      BY <1>2, ExtendPrefix
    <3> QED
      BY <3>1, <3>2, <3>3, <1>3
  <2>2. CASE other # client
    <3>1. session'[other] = session[other] /\ last_nonce'[other] = last_nonce[other]
      BY <2>2, <1>4 DEF IInv, TypeOK
    <3> QED
      BY <3>1 DEF IInv, SessionIsContiguous
  <2> QED
    BY <2>1, <2>2
<1> QED
  BY <1>5, <1>7, <1>8, <1>9

LEMMA ServeLosingKeepsIInv ==
  ASSUME IInv, NEW client \in Clients, NEW frame \in FrameSet, ServeLosing(client, frame)
  PROVE  IInv'
<1>1. /\ ~seed_invalidated
      /\ NonceFollows(frame.ticket.nonce, last_nonce[client])
  BY GatePasses DEF ServeLosing
<1>2. Serve(client, frame, FALSE)
      /\ UNCHANGED <<verifierVars, usedSeeds, winning, tasks, sessions, now>>
  BY DEF ServeLosing
<1>3. /\ last_nonce' \in [Clients -> 0 .. MaxUint64]
      /\ session' \in [Clients -> Seq(Nonces)]
      /\ served' \subseteq [client : Clients, frame : FrameSet, seed : Seeds, won : BOOLEAN]
      /\ SessionIsContiguous'
  BY <1>1, <1>2, ServeKeepsSession
<1>4. served' = served \cup
        {[client |-> client, frame |-> frame, seed |-> provider_seed, won |-> FALSE]}
  BY <1>2 DEF Serve
<1>5. TypeOK'
  BY <1>2, <1>3 DEF IInv, TypeOK, verifierVars
<1>6. SeedLifecycle'
  BY <1>2, <1>4 DEF IInv, SeedLifecycle, verifierVars
<1>7. WinsAreDrawn'
  BY <1>2 DEF IInv, WinsAreDrawn, verifierVars
<1> QED
  BY <1>3, <1>5, <1>6, <1>7 DEF IInv

LEMMA ServeWinningKeepsIInv ==
  ASSUME IInv, NEW client \in Clients, NEW frame \in FrameSet, ServeWinning(client, frame)
  PROVE  IInv'
<1>1. /\ ~seed_invalidated
      /\ NonceFollows(frame.ticket.nonce, last_nonce[client])
      /\ frame.ticket.providerCommitment = Keccak(provider_seed)
      /\ SignatureHolds(frame, client)
      /\ WinsUnder(frame.ticket, provider_seed)
  BY GatePasses DEF ServeWinning
<1>2. /\ Serve(client, frame, TRUE)
      /\ seed_invalidated' = TRUE /\ winning' = {frame}
      /\ UNCHANGED <<provider_seed, provider_commitment, usedSeeds, tasks, sessions, now>>
  BY DEF ServeWinning
<1>3. /\ last_nonce' \in [Clients -> 0 .. MaxUint64]
      /\ session' \in [Clients -> Seq(Nonces)]
      /\ served' \subseteq [client : Clients, frame : FrameSet, seed : Seeds, won : BOOLEAN]
      /\ SessionIsContiguous'
  BY <1>1, <1>2, ServeKeepsSession
<1>4. served' = served \cup
        {[client |-> client, frame |-> frame, seed |-> provider_seed, won |-> TRUE]}
  BY <1>2 DEF Serve
<1>5. winning = {}
  BY <1>1 DEF IInv, SeedLifecycle
<1>6. Drawn(frame.ticket, frame.signature, provider_seed)
  <2>1. client # NoAddress
    BY VerifierAssumption, ZeroAddress
  <2>2. frame.signature.over = frame.ticket
    BY <1>1, <2>1 DEF SignatureHolds, Recover
  <2> QED
    BY <1>1, <2>2 DEF Drawn, WinsUnder
<1>7. TypeOK'
  BY <1>2, <1>3 DEF IInv, TypeOK
<1>8. SeedLifecycle'
  BY <1>2, <1>4 DEF IInv, SeedLifecycle
<1>9. WinsAreDrawn'
  BY <1>2, <1>6 DEF IInv, WinsAreDrawn
<1> QED
  BY <1>3, <1>7, <1>8, <1>9 DEF IInv

LEMMA RotateKeepsIInv ==
  ASSUME IInv, NEW new_seed \in Seeds, Rotate(new_seed)
  PROVE  IInv'
<1>1. /\ new_seed \notin usedSeeds
      /\ provider_seed' = new_seed /\ provider_commitment' = Keccak(new_seed)
      /\ seed_invalidated' = FALSE
      /\ usedSeeds' = usedSeeds \cup {new_seed}
      /\ winning' = {}
      /\ UNCHANGED <<last_nonce, tasks, served, session, sessions, now>>
  BY DEF Rotate, rotate_seed
<1> QED
  BY <1>1 DEF IInv, TypeOK, SeedLifecycle, WinsAreDrawn, SessionIsContiguous

LEMMA ClaimAndRotateKeepsIInv ==
  ASSUME IInv, NEW new_seed \in Seeds, ClaimAndRotate(new_seed)
  PROVE  IInv'
<1>1. /\ new_seed \notin usedSeeds
      /\ tasks' = tasks \cup {ClaimOf(frame, provider_seed) : frame \in winning}
      /\ provider_seed' = new_seed /\ provider_commitment' = Keccak(new_seed)
      /\ seed_invalidated' = FALSE
      /\ usedSeeds' = usedSeeds \cup {new_seed}
      /\ winning' = {}
      /\ UNCHANGED <<last_nonce, served, session, sessions, now>>
  BY DEF ClaimAndRotate, rotate_seed
<1>2. \A frame \in winning : ClaimOf(frame, provider_seed) \in Claims
  BY VerifierAssumption DEF IInv, TypeOK, ClaimOf, Claims, Frames
<1>3. TypeOK'
  BY <1>1, <1>2 DEF IInv, TypeOK
<1>4. SeedLifecycle'
  BY <1>1 DEF IInv, SeedLifecycle, ClaimOf
<1>5. WinsAreDrawn'
  <2>1. \A frame \in winning :
          LET claim == ClaimOf(frame, provider_seed)
          IN  Drawn(claim.ticket, claim.signature, claim.providerSeed)
    BY DEF IInv, WinsAreDrawn, ClaimOf
  <2> QED
    BY <1>1, <2>1 DEF IInv, WinsAreDrawn
<1>6. SessionIsContiguous'
  BY <1>1 DEF IInv, SessionIsContiguous
<1> QED
  BY <1>3, <1>4, <1>5, <1>6 DEF IInv

LEMMA HandshakeKeepsIInv ==
  ASSUME IInv, NEW client \in Clients, Handshake(client)
  PROVE  IInv'
<1>1. /\ last_nonce' = [last_nonce EXCEPT ![client] = 0]
      /\ session' = [session EXCEPT ![client] = <<>>]
      /\ sessions' = sessions + 1
      /\ UNCHANGED <<verifierVars, usedSeeds, winning, tasks, served, now>>
  BY DEF Handshake
<1>2. TypeOK'
  BY <1>1, VerifierAssumption DEF IInv, TypeOK, verifierVars
<1>3. SeedLifecycle' /\ WinsAreDrawn'
  BY <1>1 DEF IInv, SeedLifecycle, WinsAreDrawn, verifierVars
<1>4. SessionIsContiguous'
  <2> SUFFICES ASSUME NEW other \in Clients
               PROVE  session'[other] = [i \in 1 .. last_nonce'[other] |-> i]
    BY DEF SessionIsContiguous
  <2>1. CASE other = client
    <3>1. session'[other] = <<>> /\ last_nonce'[other] = 0
      BY <2>1, <1>1 DEF IInv, TypeOK
    <3> QED
      BY <3>1
  <2>2. CASE other # client
    <3>1. session'[other] = session[other] /\ last_nonce'[other] = last_nonce[other]
      BY <2>2, <1>1 DEF IInv, TypeOK
    <3> QED
      BY <3>1 DEF IInv, SessionIsContiguous
  <2> QED
    BY <2>1, <2>2
<1> QED
  BY <1>2, <1>3, <1>4 DEF IInv

LEMMA NextKeepsIInv == IInv /\ [Next]_vars => IInv'
<1> SUFFICES ASSUME IInv, [Next]_vars PROVE IInv'
  OBVIOUS
<1>1. CASE \E client \in Clients, frame \in FrameSet :
             ServeLosing(client, frame) \/ ServeWinning(client, frame)
  BY <1>1, ServeLosingKeepsIInv, ServeWinningKeepsIInv
<1>2. CASE \E new_seed \in Seeds : Rotate(new_seed) \/ ClaimAndRotate(new_seed)
  BY <1>2, RotateKeepsIInv, ClaimAndRotateKeepsIInv
<1>3. CASE \E client \in Clients : Handshake(client)
  BY <1>3, HandshakeKeepsIInv
<1>4. CASE Tick \/ UNCHANGED vars
  <2>1. now' \in Nat /\ UNCHANGED <<verifierVars, callerVars>>
    BY <1>4 DEF Tick, vars, IInv, TypeOK
  <2> QED
    BY <2>1 DEF verifierVars, callerVars, IInv, TypeOK, SeedLifecycle, WinsAreDrawn,
                SessionIsContiguous
<1> QED
  BY <1>1, <1>2, <1>3, <1>4 DEF Next

LEMMA Invariance == Spec => []IInv
<1> QED
  BY InitIInv, NextKeepsIInv, PTL DEF Spec

-----------------------------------------------------------------------------
(* The verifier, its callers' bookkeeping and the history keep their       *)
(* types; the published commitment is always that of the current seed.     *)
THEOREM TypeCorrect == Spec => []TypeOK
<1>1. IInv => TypeOK
  BY DEF IInv
<1> QED
  BY <1>1, Invariance, PTL

(* No ticket is ever served under a seed that has won.                     *)
THEOREM SpentSeedIsSafe == Spec => SpentSeedServesNothing
<1>1. IInv /\ Serves => \A win \in {r \in served : r.won} : win.seed # provider_seed
  <2> SUFFICES ASSUME IInv, NEW client \in Clients, NEW frame \in FrameSet,
                      ServeLosing(client, frame) \/ ServeWinning(client, frame),
                      NEW win \in served, win.won
               PROVE  win.seed # provider_seed
    BY DEF Serves
  <2>1. ~seed_invalidated
    BY GatePasses DEF ServeLosing, ServeWinning
  <2> QED
    BY <2>1 DEF IInv, SeedLifecycle
<1>2. IInv /\ [Next]_vars =>
        [Serves => \A win \in {r \in served : r.won} : win.seed # provider_seed]_vars
  BY <1>1
<1> QED
  BY <1>2, Invariance, PTL DEF Spec, SpentSeedServesNothing

(* The nonces served in one session are 1, 2, 3, ... up to the watermark.  *)
THEOREM NoncesAreContiguous == Spec => []SessionIsContiguous
<1>1. IInv => SessionIsContiguous
  BY DEF IInv
<1> QED
  BY <1>1, Invariance, PTL

(* A regular claim passes every check of claimTicket that depends on the   *)
(* claim alone: the gatekeeper's draw and the contract's agree.            *)
THEOREM RegularClaimsPay == Spec => []ClaimsArePayable
<1>1. IInv => ClaimsArePayable
  <2> SUFFICES ASSUME IInv, NEW claim \in tasks, Regular(claim)
               PROVE  /\ SeedMatches(claim)
                      /\ SignedBy(claim, claim.ticket.channelId[1])
                      /\ Wins(claim)
    BY DEF ClaimsArePayable
  <2>1. Drawn(claim.ticket, claim.signature, claim.providerSeed)
    BY DEF IInv, WinsAreDrawn
  <2>2. /\ claim.ticket.winProbNumerator \in Odds
        /\ claim.ticket.winProbDenominator \in Odds
        /\ CombinedHash(claim.ticket, claim.providerSeed) \in Hashes
    BY TicketAssumption DEF IInv, TypeOK, Claims, Tickets
  <2>3. Wins(claim)
    BY <2>1, <2>2, BelowCertaintyAgree DEF Wins, Drawn, DrawsAgree, Regular
  <2>4. SeedMatches(claim)
    BY <2>1 DEF Drawn, SeedMatches
  <2>5. SignedBy(claim, claim.ticket.channelId[1])
    BY <2>1 DEF Drawn, SignedBy, Recover, Regular, getChannelId
  <2> QED
    BY <2>3, <2>4, <2>5
<1> QED
  BY <1>1, Invariance, PTL

-----------------------------------------------------------------------------
LEMMA ServingIsAUnit ==
  ASSUME IInv, NEW client \in Clients, NEW frame \in FrameSet,
         ServeLosing(client, frame) \/ ServeWinning(client, frame)
  PROVE  Sessions!Unit(client)
<1>1. ~seed_invalidated /\ NonceFollows(frame.ticket.nonce, last_nonce[client])
  BY GatePasses DEF ServeLosing, ServeWinning
<1>2. frame.ticket.nonce = last_nonce[client] + 1
  BY <1>1, NonceIsNext DEF IInv, TypeOK
<1>3. last_nonce' = [last_nonce EXCEPT ![client] = last_nonce[client] + 1]
  BY <1>2 DEF ServeLosing, ServeWinning, Serve
<1>4. /\ seed_invalidated' \in BOOLEAN
      /\ UNCHANGED <<provider_seed, tasks>>
  <2>1. CASE ServeLosing(client, frame)
    <3>1. UNCHANGED <<seed_invalidated, provider_seed, tasks>>
      BY <2>1 DEF ServeLosing, verifierVars
    <3> QED
      BY <3>1 DEF IInv, TypeOK
  <2>2. CASE ServeWinning(client, frame)
    BY <2>2 DEF ServeWinning
  <2> QED
    BY <2>1, <2>2
<1> QED
  BY <1>1, <1>3, <1>4 DEF Sessions!Unit

LEMMA RotatingReplaces ==
  ASSUME IInv, NEW new_seed \in Seeds, ClaimAndRotate(new_seed)
  PROVE  Sessions!Replace(new_seed)
<1> DEFINE shown(claims) == {claim.providerSeed : claim \in claims}
<1>1. seed_invalidated
  BY DEF ClaimAndRotate, IInv, SeedLifecycle
<1>2. new_seed \notin shown(tasks) \cup {provider_seed}
  BY DEF ClaimAndRotate, IInv, SeedLifecycle
<1>3. shown(tasks') = shown(tasks) \cup {provider_seed}
  <2>1. PICK frame \in winning : TRUE
    BY DEF ClaimAndRotate
  <2>2. tasks' = tasks \cup {ClaimOf(f, provider_seed) : f \in winning}
    BY DEF ClaimAndRotate
  <2>3. \A f : ClaimOf(f, provider_seed).providerSeed = provider_seed
    BY DEF ClaimOf
  <2>4. \A claim \in tasks' : claim \in tasks \/ claim.providerSeed = provider_seed
    BY <2>2, <2>3
  <2>5. \E claim \in tasks' : claim.providerSeed = provider_seed
    BY <2>1, <2>2, <2>3
  <2>6. tasks \subseteq tasks'
    BY <2>2
  <2> QED
    BY <2>4, <2>5, <2>6
<1>4. provider_seed' = new_seed /\ seed_invalidated' = FALSE /\ UNCHANGED last_nonce
  BY DEF ClaimAndRotate, rotate_seed
<1> QED
  BY <1>1, <1>2, <1>3, <1>4 DEF Sessions!Replace

LEMMA ForgettingReplaces ==
  ASSUME IInv, NEW new_seed \in Seeds, Rotate(new_seed)
  PROVE  Sessions!Replace(new_seed)
<1>1. seed_invalidated /\ new_seed \notin {claim.providerSeed : claim \in tasks} \cup {provider_seed}
  BY DEF Rotate, IInv, SeedLifecycle
<1>2. provider_seed' = new_seed /\ seed_invalidated' = FALSE /\ UNCHANGED <<last_nonce, tasks>>
  BY DEF Rotate, rotate_seed
<1> QED
  BY <1>1, <1>2 DEF Sessions!Replace

LEMMA NextImplementsSessions ==
  IInv /\ [Next]_vars => [Sessions!Next]_Sessions!sessionVars
<1> SUFFICES ASSUME IInv, [Next]_vars PROVE [Sessions!Next]_Sessions!sessionVars
  OBVIOUS
<1>1. CASE \E client \in Clients, frame \in FrameSet :
             ServeLosing(client, frame) \/ ServeWinning(client, frame)
  BY <1>1, ServingIsAUnit DEF Sessions!Next
<1>2. CASE \E new_seed \in Seeds : Rotate(new_seed) \/ ClaimAndRotate(new_seed)
  BY <1>2, RotatingReplaces, ForgettingReplaces DEF Sessions!Next
<1>3. CASE \E client \in Clients : Handshake(client)
  BY <1>3 DEF Handshake, verifierVars, Sessions!Next, Sessions!NewSession
<1>4. CASE Tick \/ UNCHANGED vars
  BY <1>4 DEF Tick, vars, verifierVars, callerVars, Sessions!sessionVars
<1> QED
  BY <1>1, <1>2, <1>3, <1>4 DEF Next

(* The gatekeeper with its callers implements the abstract seed sessions:  *)
(* a spent seed serves nothing and is the only one a claim, if the caller  *)
(* makes one, ever reveals.                                                *)
THEOREM VerifierImplementsSessions == Spec => ImplementsSessions
<1>1. Init => Sessions!Init
  BY DEF Init, VerifierInit, Sessions!Init
<1> QED
  BY <1>1, NextImplementsSessions, Invariance, PTL DEF Spec, ImplementsSessions, Sessions!Spec

=============================================================================
