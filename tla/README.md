# SPMP in TLA+

SPMP pays a provider of compute in lottery tickets. A client escrows tokens in a contract, signs one
ticket per chunk of work and streams the tickets over TCP; most tickets lose and cost nothing, a
winning one is claimed on chain for its face value. The specifications here model the contract, both
daemons and the simulator of this repository, check them with TLC on small instances and prove the
central properties with TLAPS for every value of the constants.

## The system

| Part | Source | State | Operations | Correct when |
|---|---|---|---|---|
| Escrow contract | `contracts/SPMPEscrow.sol` | channels by (client, provider), nullifiers | openChannel, deposit, claimTicket, requestClose, withdraw | always solvent; a nonce is paid at most once ever, to the pair's provider, from the pair's money; a payable claim is not taken away before the withdrawal delay |
| Token | `contracts/MockUSDC.sol` | balances, allowances | mint, ERC20 | conserves money |
| Gatekeeper | `provider-daemon/src/verifier.rs`, `types.rs` | seed, commitment, invalidation flag | rotate_seed, verify_ticket, evaluate_and_gate | serves each session nonces 1, 2, 3, ...; serves nothing under a seed about to be revealed; what it calls a win is payable |
| Settlement worker | `provider-daemon/src/settlement.rs` | bounded queue, task in hand | run | every task gets one outcome, unless the daemon restarts; none is broadcast twice |
| Provider TCP server | `provider-daemon/src/transport.rs` | one task per connection, session watermark | accept, handshake, frame loop | a handshake ends within the timeouts of its write and its read; a clean end loses no frame |
| Client signer | `client-daemon/src/crypto.rs` | atomic nonce counter | sign_next_ticket | no nonce is used twice |
| Client TCP transport | `client-daemon/src/transport.rs` | stream behind an async lock, commitment | connect, perform_handshake, send_ticket_and_prompt | an answer goes to its own call, or to a later one when a call before it left early; only a silent provider blocks a call |
| HTTP proxy | `client-daemon/src/proxy.rs` | token channel of 32 per request | chat_completions | tokens in order, `[DONE]` last; a side that waits for ever waits for the other one's own doing |
| Wire format | `client-daemon/src/transport.rs`, `provider-daemon/src/transport.rs`, `types.rs` | none | encode and decode of tickets and responses, written once per daemon | a frame has one reading; what one daemon encodes the other decodes, up to the frame limit |
| Simulator, governor | `provider-daemon/src/bin/simulate.rs` | a verifier, a sliding window of 50 outcomes | audit loop; sandbox with tampering options and repeated trials | trips on exactly the second win within 50 tickets; the audit meets no rejection; the report is the verdict |
| Compute worker | `provider-daemon/src/worker.rs` | none | HTTP chunks to tokens | an answer is damaged only where a character is cut |
| Orchestrator, `main`s | `client-daemon/src/orchestrator.rs`, `main.rs` | none | none | not modelled: a trait and two stubs |

How they interact. The HTTP proxy hands a prompt to an engine, which (in the intended wiring) signs a
ticket and sends it with the prompt through the TCP client. The TCP server greets with the commitment
to the provider's seed, takes the client's ack, and decodes ticket frames. The gatekeeper decides about
each ticket; a win is to become a `ClaimTask` with the current seed on the queue of the settlement worker,
and the seed is to be rotated. The worker submits `claimTicket`, which draws the same lottery again, on chain.
**This wiring is not in the repository yet**: `TCPServer::handle_client` does not call the gate, both
`main` functions only log a line, and the only caller of the gate is `simulate.rs`, which counts a win and rotates the seed but
makes no claim. That a win is claimed is said in types.rs:75 and in DEV2_GATEKEEPER_LOG.md:150-160; transport.rs:98-100 calls the
missing caller "the daemon's orchestration layer". `EndToEnd` composes gate, worker and contract as those places prescribe. The
steps no code performs (the claim, its hand-over, the answer to a ticket) are marked external in `PROJECT.json`, and what rests on
them is a promise of the pieces to that caller.

What is hard here: concurrent calls racing for nonces and for one stream; calls dropped between a
request and its answer; seeds that must not be used once they are about to be public; two
implementations of one draw in two arithmetics; a clock that passes between acceptance and payment; a
client that withdraws while claims are on their way; streams that stop at any byte. `PROJECT.json` lists each
hazard at its line with the properties that guard it.

## Modules

| Module | Models | Correspondence |
|---|---|---|
| `EvmTypes` | words and addresses | `MaxUint256` and `MaxUint32` are parameters; the only assumption is that a square of a 32-bit number fits a word |
| `WinOdds` | the draw, twice | `GateTarget`/`GateWins` is verifier.rs:138-152, `ChainPanics`/`ChainWins` is SPMPEscrow.sol:176-177 with checked arithmetic |
| `Tickets` | tickets, signatures, claims | hashes are injective constructors; the combined hash is a parameter, so any draw is covered; a signature carries the `s` value that malleability is about |
| `MockUSDC` | the token | one spender, the escrow |
| `SPMPEscrow` | the contract | one action per external function; a failed `require` or `revert` is a disabled action, since the transaction then changes nothing |
| `PaymentLedger` | what the contract promises | abstract: money is locked, settled once per slot, or refunded after notice |
| `SeedSessions` | what the gatekeeper promises | abstract: sessions served unit by unit, a seed that is spent, replaced and only then revealed |
| `TicketVerifier` | gatekeeper and its callers | `verify_ticket` returns the verdict in the code's order of checks; watermark and rotation without a claim (`Rotate`) follow simulate.rs:179-186 and the handshake of transport.rs; the caller that claims before it rotates (`ClaimAndRotate`) is external |
| `SettlementWorker` | worker, RPC node and live contract | extends `SPMPEscrow`; the worker's claims execute `claimTicket` when mined, and every other contract action may come in between; the node may refuse a call, or accept it and lose its answer; a restart empties the queue and the hand but not the mempool |
| `EndToEnd` | gate, worker, contract | extends `SettlementWorker` and instantiates `TicketVerifier` on the same tickets and clock; the claims made and not yet queued are `held` by the external caller; a restart draws a fresh seed and clears gate, `held`, queue and hand together |
| `TCPServer` | listener and sessions | a frame is two header pieces and a payload, sent and read separately; `fin` ends a stream anywhere; the write of the greeting and the read of the ack have a timeout each |
| `TicketPipeline` | signer and TCP client | a call asks for the commitment, draws, signs, waits for the lock, reads the header and then the payload of its answer; it may be dropped at every await, also within a read, and whoever finds the stream inside a frame finds no header; the provider is the listener's fixed commitment and the verifier's seed, flag and watermark, and the server that answers tickets is external and may stay silent; seeds are numbered |
| `WireFormat` | both daemons' codecs | a buffer is a sequence of cells; a fixed-width field is one cell, `as u32` keeps its modulus, the wire's 128-bit face value its limit |
| `ComputeWorker` | chunks to tokens, up to the client's decoder | UTF-8 with characters of one or two bytes |
| `ChatProxy` | HTTP proxy | engine task, which computes or is in a send, bounded channel, response body, which waits for its HTTP client or is in a recv; engine and HTTP client are external |
| `BudgetGovernor` | governor and dry spells of the audit | one action per loop round |
| `Simulator` | both modes of the binary | extends `BudgetGovernor`; the audit's round goes through the gate and rotates, the sandbox evaluates one tampered ticket |
| `MCAlgorithms` | sweep over the inputs of the sequential code | a behaviour takes one part: draw (`MCWinOdds`), codec, chunked answer, simulator |
| `MCWinOdds`, `MCEscrow`, `MCTicketVerifier`, `MCSettlementWorker`, `MCEndToEnd`, `MCTCPServer` | instances | definitions the `.cfg` files substitute for constants; the other cfgs need none |
| `SPMPEscrowProofs`, `WinOddsProofs`, `TicketVerifierProofs`, `EndToEndProofs`, `TicketPipelineProofs`, `TCPServerProofs`, `ChatProxyProofs`, `AlgorithmsProofs` | theorems about the module each is named after; the settlement worker's open `EndToEndProofs`, which rests on them, and those of codecs, compute worker and simulator are in `AlgorithmsProofs`, about `MCAlgorithms` | see below |

Definitions marked "a fault" are plausible bugs; substituting one for the definition it follows must
break the property that `PROJECT.json` pairs it with. No specification uses them.

## Runs

`tlc -config <cfg> <module>`; the violation runs are expected to fail.

| Run | What it shows | Bounds, and why they are enough |
|---|---|---|
| `algorithms` | Draws: below certainty gate and contract agree, every payable draw is a win at the gate, and the target is the advertised odds rounded down by at most the numerator (`LotteryIsFair`). Codecs: a ticket and its prompt arrive up to the frame limit and are refused above it, and an accepted ticket frame has one reading (`TicketCodecsAreInverse`), the client's two response decoders are one function (`ResponseDecodersAgree`), an answer is damaged only where a character is cut (`AnswersArriveWhole`). Simulator: window, trips and dry spell equal their definitions over the whole history (`AuditFiguresAreRight`), the audit never panics and the report is the verdict but for a spent seed (`ReportIsVerdict`) | every numerator, denominator and hash of a small word, zero and above-certainty odds included; prompts across the limit of 8 cells, request bodies of up to 8 cells, responses of up to 6, three chunks of up to two bytes, which cut a character between and within chunks; window 4 with all 2^11 outcome sequences; every option set, 0 to 3 iterations, `u64::MAX` 3 so that the tampered nonce wraps |
| `odds_saturation` (violation) | odds above certainty win at the gate and revert on chain | as above |
| `escrow` | `ChannelsAreWhole`, `Solvent`, `ClaimsSurvive`, refinement of `PaymentLedger` (`ImplementsLedger`), `CloseLeadsToRefund` | two clients of one provider share the contract's tokens; supply 2 lets two tickets compete for a balance; two tickets share a nonce, one expires early, one loses; forged, malleated and wrong-seed claims; delay 2 and 4 time steps let a channel close and reopen; allowance 1 makes the ERC20 limit bite (the unlimited one occurs in `settlement`) |
| `verifier` | contiguous sessions, no service under a spent seed, regular claims are payable (`ClaimsArePayable`), refinement of `SeedSessions` (`ImplementsSessions`) | two clients share the verifier, three seeds allow two rotations, `u64::MAX` is 2 so that the range ends, two reconnects |
| `verifier_high_s` (violation) | the low-s literal is above n/2 | order 11 and literal 6 stand for the real numbers; the module compares the real ones digit by digit in an `ASSUME` |
| `settlement` | one place per task, broadcast at most once in order, mined reverts are explained, every task gets an outcome, also when the node's answers are lost | three claims on a queue of two that compete for the balance, one expires early, one fails its estimate; a close and a withdrawal fit in the time bound; one restart at any moment |
| `end_to_end` | a seed shown in the mempool serves nothing (`RevealedSeedServesNothing`), the provider earns at most one ticket per nonce it served as a win (`ChargedOncePerNonce`), the contract accepts a regular claim exactly while it is in time, unpaid and covered (`RegularClaimsNeedOnlyFunds`), and a served win leaves the daemon's memory only for the node, for the log of failed claims, or with the daemon itself, and never leaves the node again (`OnlyRestartsLoseWins`) | three seeds, two reconnects, one restart; six tickets of which five win, with nonce 1 under each seed, so that a nonce is served again after a reconnect or a restart, as another ticket; the balance covers them only in part, and the clock passes the expiry of some |
| `settlement_confirmed` (violation) | a mined revert is logged as paid | as above |
| `tcp_server` | the handshake ends within its two timeouts (`HandshakeWithinBudget`), a clean end has handled every complete frame, the watermark follows tickets alone, every wait for an ack ends and a peer that ended its stream leaves no task (`OnlyLivePeersHoldTasks`) | nine kinds of frame, three per connection (ack, ticket at `u64::MAX`, one more), cuts and stalls at every piece; connections share nothing but the clock and the listener |
| `tcp_accept` (violation) | one accept error stops the listener | two peers |
| `pipeline` | unique nonces in a client's life, each served once in it (`NonceServedOnce`), the provider halts for a gap, a call begun before the handshake or a seed that was won only (`HaltIsExplained`), an answer is the call's own while every earlier call read its answer to the end, and else an earlier ticket's, never a later one's (`AnswersAreOwnOrLate`), nothing but a silent provider blocks a call (`OnlySilenceBlocks`) | two callers, three nonces, a reconnect, a client restart, two seeds: overtaking, burned nonces, a ticket between connect and handshake, a win in another session, a drop between header and payload and two drops in a row all occur |
| `proxy` | order, `[DONE]` after everything, backpressure (`DoneAfterEveryToken`); engine and body never wait on each other for good (`OnlyThePeerBlocks`) | channel of 2 and 4 tokens: it fills while the reader stalls |

The cfgs that say `CHECK_DEADLOCK FALSE` do so because these systems may really stop: peers stop
sending, sessions end, and the counters that bound a run (`MaxNonce`, `MaxConns`, `MaxSeeds`, `MaxLives`, `MaxRestarts`, `MaxIterations`, `MaxFrames`, `MaxTokens`, `MaxTickets`,
`MaxSessions`, `MaxTime`) are reached. Those bounds are guards on environment actions only.

### Fairness

* Contract: blocks keep coming (`Tick`), and a client who may withdraw eventually does. No claim or deposit
  is assumed. `CloseLeadsToRefund` is conditional on the delay's end lying within `MaxTime`.
* Worker: tokio polls the task, the node answers each call with success or failure, and it mines. An
  unreachable node is the failure outcome (`SendFails`, `SendUnanswered`, `WatchFails`), not a missing answer.
* TCP server: the runtime polls tasks that can move and timers fire; peers owe nothing, and nothing is asked of the greeting's write but
  its timer. `OnlyLivePeersHoldTasks` therefore speaks of handshakes, which a timer ends, and of peers whose stream has ended.
* `EndToEnd` and `algorithms` state safety only: no code fixes when the orchestration hands a claim over.
* Pipeline: the client's own runtime polls a call that can go on, and tokio's mutex is first come first served. Nothing is asked of
  callers, connector, network or provider: today's `handle_client` never answers a ticket, the reads have no timeout, and so a
  call may hold the lock for ever. `OnlySilenceBlocks` says that this is the only way.
* Proxy: a send or a recv that can complete does. The engine may compute for ever and notices a disconnect at its next send at the
  earliest; the HTTP client may never read again.

### Disagreements found

1. `verifier.rs:140` saturates odds above certainty; the contract reverts on them, so a served "win" can never be paid.
2. `types.rs:8` is not n/2 but larger; signatures in between pass the gate and fail on chain. The docs repeat the wrong literal beside the right formula.
3. `settlement.rs:112-117` logs a payout for any mined transaction, reverted or not.
4. `transport.rs:83` returns from the "accepts forever" loop on the first accept error.

Observed while modelling, without a run of their own: `transport.rs:150` and `155` give the greeting and the ack five seconds each, where `transport.rs:45`
speaks of five for both; a reconnect or a client restart
puts the gate's watermark and the signer's counter out of step (every later ticket is rejected); nonces of a
reopened channel must not restart, since nullifiers persist; anyone may deposit into a closing channel; a
dropped call leaves its answer, or the rest of it, on the stream, so that later calls fail or return an earlier ticket's answer; a stream cut inside a header ends as cleanly as one between frames;
an HTTP client cannot tell a failed answer from a complete one; the listener announces its first commitment for ever, so every
session fails after the first rotation (DEV2_GATEKEEPER_LOG.md:159 shows a `broadcast_handshake_init` that does not exist); the simulator
reports a valid winning ticket as a wrong commitment when it is evaluated more than once; a provider restart loses its queued wins for
good, since their seeds exist nowhere else; a client's prompt above 64 KiB ends its session.

## Proofs

The assumptions are the named `ASSUME`s of the modules; TLC evaluates each of them in the runs. Most only type the
constants. Those that say more: a 32-bit square fits a word (`WordSizes`); the callers of one client and the
channels of one contract are finite (`PipelineAssumption`, `EscrowAssumption`); the provider is not its own client and starts
without tokens, the claims the gate can make are among those the worker's module ranges over,
and nonces fit in 64 bits (`SystemAssumption`); a length cell holds the length of the longest buffer the sweep grows (`LengthsFit`).

What the runs check on small instances is proved here for every value of the constants: all invariants, action properties and
refinements but those listed at the end of this section.

| Module | Inductive invariant | Theorems |
|---|---|---|
| `WinOddsProofs` | none: these are about numbers | `BelowCertaintyAgree`, `EveryPayoutIsRecognised`, `OddsAreAdvertised`, `AboveCertaintyPanics` |
| `TicketVerifierProofs` | `IInv`: `SeedLifecycle`, `WinsAreDrawn` | `TypeOK`, `SpentSeedServesNothing`, `SessionIsContiguous`, `ClaimsArePayable`, `ImplementsSessions` |
| `SPMPEscrowProofs` | `TypeOK /\ ChannelsAreWhole`; for solvency a bound on a sum | `TypeOK`, `ChannelsAreWhole`, `ClaimsSurvive`, `ImplementsLedger`, `Solvent` |
| `EndToEndProofs` (worker) | `WorkerInv`: `QueueIsRest`, `EachOnce`, `BroadcastsAreBehind`, `OnePlaceEach`, `MempoolIsSound` | `WorkerTypeOK`, `EveryTaskHasOnePlace`, `BroadcastOnceInOrder`, `RevertsAreExplained` |
| `EndToEndProofs` (system) | `SeedInv`, `WorkerInv`, `GateInv`, `PaymentInv` | `SystemIsWorker`, `WorkerIsContract`, `PartsKeepTheirPromises`, `RevealedSeedServesNothing`, `SessionIsContiguous`, `SpentSeedServesNothing`, `ClaimsArePayable`, `RegularClaimsNeedOnlyFunds`, `OnlyRestartsLoseWins`, `ChargedOncePerNonce` |
| `TicketPipelineProofs` | `IInv`, fifteen parts | `TypeOK`, `NoncesAreUnique`, `NonceServedOnce`, `HaltIsExplained`, `AnswersAreOwnOrLate` |
| `TCPServerProofs` | `ServerInv`: one `Stream` per connection | `TypeOK`, `HandshakeWithinBudget`, `CleanEndLosesNothing`, `WatermarkIsLastTicket` |
| `ChatProxyProofs` | `IInv`: `InOrder` per request | `DoneAfterEveryToken` |
| `AlgorithmsProofs` (codecs, answers) | none: these are about all buffers and chunks | `TicketsArrive`, `AcceptedFramesAreEncodings`, `DecodersAreOne`, `AnswersAreWhole` |
| `AlgorithmsProofs` (simulator) | `GovernorInv`, `SimulatorInv` | `AuditIsGovernor`, `AuditFiguresAreRight`, `ReportIsVerdict` |
| `AlgorithmsProofs` (sweeps) | `AlgInv` | `LotteryIsFair`, `TicketCodecsAreInverse`, `ResponseDecodersAgree`, `AnswersArriveWhole` |

* The draw. With q the quotient of the word by the denominator d, d <= q because d*d
  fits, so a product q*n with n < d stays below the word (`ScaledFits`) and neither clamp nor overflow applies:
  both sides compare the hash with the same number (`BelowCertaintyAgree`). At and above certainty the gate always
  wins (`EveryPayoutIsRecognised`), while `AboveCertaintyPanics` shows that the product always overflows above it.
  The first three theorems give `LotteryIsFair`, the property of the sweep in `MCAlgorithms`, for every word size.
* The gatekeeper. `SeedLifecycle` says that a seed with a won draw is the current one only while the
  flag is set, and that every seed ever used is remembered; `WinsAreDrawn` that a
  winning frame won under the seed it was served with. The first gives `SpentSeedIsSafe`, the second with
  `BelowCertaintyAgree` gives `RegularClaimsPay`. `VerifierImplementsSessions` maps every served ticket to a unit, a rotation, with a claim or without,
  to a replacement and a handshake to a new session; it also needs that every revealed seed is remembered as used.
* The contract. Types alone are not
  inductive for the refinement: that a claim pays the *pair's* payee needs the record's provider to be
  the key's. From it follow `ClaimsAreProtected`, one case per action and per check of `claimTicket`
  an action can falsify, and `EscrowImplementsLedger`, where each action maps to the ledger step of
  the same meaning, a token operation to `Elsewhere`, and a zero-amount or self-transfer to a stutter.
  `EscrowStaysSolvent` is about a sum over a finite set of unknown size, and induction over data is out of the prover's
  reach. The sum (`SumOf`) is therefore got from a least counterexample: if some finite set had no sum, one of least cardinality would,
  and it is one element larger than a set that has (`LeastNumber`, `SumStep`). `SumChange` and `SumCompare` say what
  changing one term and bounding every term do to it, and `TotalIsSum` that it is the fold the property is stated with.
* The worker. The queue is the end of what was handed over and the task in hand the one before it (`QueueIsRest`), so a task received is never
  received again and broadcasts lie behind the hand (`BroadcastsAreBehind`). `MempoolIsSound` keeps
  the checks of `claimTicket` that no later step can undo, which leaves the reasons of `RevertsAreExplained` for the rest. The proof
  attempt found one more reason than that property first named: a ticket over nothing is
  covered by any balance and still reverts once its channel is withdrawn.
* The system. `SystemIsWorker` shows that gate, hand-over and restart drive the worker only as its specification allows, and `WorkerIsContract`
  the same of worker and contract; so `PartsKeepTheirPromises` carries the theorems about the parts over to the whole. `RevealedSeedsAreDead` needs that every
  claim carries a seed that was replaced in the step that made it (`ClaimsRevealOldSeeds`) and that no seed is drawn twice.
  The gate's own promises are not inherited, since the prover does not use theorems of an instantiated module and a restart is no action of `TicketVerifier`:
  it replaces the seed without a claim and clears the watermarks. `GateInv` is the gate's invariant with the restart as one more step. It says that an unspent seed
  has no pending win (`SeedIsCommitted`), that pending wins and claims won their draw over the ticket their signature is for (`ClaimsAreWon`), and that sessions are contiguous.
  From `ClaimsAreWon` and `BelowCertaintyAgree` the checks of `claimTicket` on seed, signature and draw always pass for a regular claim,
  so that `RegularClaimsArePaidIfCovered` leaves expiry, nullifier, channel and balance. `WinsOutliveAllButRestarts` needs that a second win, which would take the
  pending one's place in the rotation, is not served before it (the first has spent the seed), that the rotation's claim is a new one and so is held,
  and one step for each place of the worker a claim moves through. For `NoncesAreChargedOnce`,
  `PaymentInv` follows a won ticket from the pending win to the mempool: what is paid is a won nonce, paid once because of the nullifier, and by a ticket
  no dearer than the dearest win of that nonce.
* The pipeline. Every drawn nonce is in hand, written, or lost, and below the counter; what is written follows the order of the lock, and what a live stream still
  has to deliver comes after its watermark (`RequestsFollowOrder`, `ServedAreBehind`). `CallsAreAccounted`: a call
  that read its answer to the end took one frame off the stream, every other one at most one, and the first of those less than one. So the frame in
  front of the reader is its own until a call has left early, an earlier one from then on, and late by no more than the number of calls that left.
* The TCP server. `Stream` numbers the pieces on the wire by the frame they belong to: they continue what was read, in order, up to the frame being sent. Reading, sending
  and cutting each keep such a numbering (`StreamGrows`, `StreamShifts`, `StreamReadsHeader`, `StreamReadsPayload`), and a stream that is empty at a frame's boundary
  has handled everything sent (`StreamEndsClean`).
* The proxy. Body and channel count on from each other, and together hold what the engine has sent.
* The codecs. A buffer joined of two comes apart into them (`PartsOfConcat`), and any buffer is what is taken off it with the rest behind
  (`TakeWithDrop`). So a length-prefixed block is read back (`BlockIsTaken`), and whatever the provider takes for a block was one (`TakenIsBlock`); the two
  directions of `TicketCodecsAreInverse` are these, block by block. Both ask that the length fits its field: a prompt of 2^32 bytes
  or more, whose length `as u32` truncates, is outside of what `TicketArrives` promises.
* Answers. How far the first k chunks reach in the answer is counted up from the empty one (`CountUp`, induction over a set of numbers in the place of a predicate).
  `Placed` says that each chunk lies whole between two such ends and every byte in one chunk (`AllPlaced`). Decoding changes no length, so the tokens
  have the same ends; a byte of the answer is next to its partner or one of the two is at an end, and there alone it is replaced.
* The simulator. The governor's window is the end of the history, begins after the last trip and, unless it is full, right after it; it
  holds one win at most. So the second win within it is the same as a trip that is due (`TripIsSecondWin`). Runs of losses
  of the longer history are old ones or end in the new ticket (`NewLosses`). In the sandbox only a trial of a winning ticket spends the seed.

Only model-checked: all liveness (`CloseLeadsToRefund`, `TasksAreSettled`, `OnlyLivePeersHoldTasks`, `OnlySilenceBlocks`, `OnlyThePeerBlocks`), since the
prover does not reason about fairness and ENABLED. Everything else the passing runs check is proved.

## Not modelled

Byte order and the ABI's word layout (a field is one cell), events and log texts, key parsing, the parsing of the simulator's command line and its
floating-point statistics, the request to the LLM server, and the stubs (`orchestrator.rs`, both `main.rs`), which hold no behaviour.
The expiry the signer computes is a ticket's field here. A partial `write_all` of a dropped call is not modelled: a ticket frame is taken
to fit the socket's buffer. Nor is the text inside an answer that happens to look like a frame's header to a reader that stands there. The overflow of
transport.rs's log line at `u64::MAX` is an outcome of `TCPServer` (`panic`), which no property excludes, since no statement of the repository does. `EndToEnd` has no streams and no signer: its clients send any ticket of a fixed set, which includes what
a reconnected or restarted signer would send.

## Plan

The escrow and its ledger, gatekeeper and seed sessions, worker with restarts, transport, pipeline with rotation and client restarts, proxy, codecs,
simulator and the end-to-end composition are modelled, and their invariants are proved. What is left:

1. `EndToEnd`: the clients' signer and the TCP streams as parts of the composition, in the place of a fixed set of tickets; then the
   reasons for a halt (`HaltIsExplained`) with the restarts of both sides at once.
2. `PaymentLedger` and `SeedSessions`: properties of the abstract specifications themselves, so that they pass to what implements them.
3. The wire below the cell: a partial `write_all` of a dropped call, byte order and the words of the ticket's ABI encoding.
