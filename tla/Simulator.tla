----------------------------- MODULE Simulator -----------------------------
(***************************************************************************)
(* The simulate binary: one run is either the variance audit, which puts   *)
(* every ticket through a live verifier and feeds the outcome to the       *)
(* budget governor, or the sandbox, which evaluates one ticket, tampered   *)
(* with as the options say, a number of times.                             *)
(*                                                                         *)
(* Seeds are numbered, so a commitment is a number too, and 0 is the one   *)
(* of a tampered ticket.  Whether a ticket wins, and whether the high s of *)
(* a malleated signature falls below the gate's limit all the same, is     *)
(* drawn with the options.                                                 *)
(***************************************************************************)
EXTENDS BudgetGovernor

CONSTANTS MaxUint64,      \* u64::MAX
          NonceTamper,    \* 99: how far a tampered nonce lies from the watermark
          MaxIterations   \* bound on --iterations, for model checking

ASSUME SimulatorAssumption ==
  /\ MaxUint64 \in Nat
  /\ NonceTamper \in 2 .. MaxUint64
  /\ MaxIterations \in Nat

Flags == {"tamper_sig", "malleable_s", "tamper_nonce", "tamper_commitment", "expired",
          "wins", "low"}

Options == [nonce : 0 .. MaxUint64, last_nonce : 0 .. MaxUint64,
            iterations : 0 .. MaxIterations, flags : SUBSET Flags]

VARIABLES mode,           \* what the process is doing, or how it ended
          seed,           \* the verifier's seed, and seed_invalidated
          options,        \* of the sandbox
          trials,         \* iterations done
          last_decision

simVars == <<mode, seed, options, trials, last_decision>>
allVars == <<vars, simVars>>

Reject(verdict) == <<"Reject", verdict>>

SimInit ==
  /\ Init
  /\ mode = "started"
  /\ seed = [epoch |-> 1, invalidated |-> FALSE]
  /\ options = [nonce |-> 1, last_nonce |-> 0, iterations |-> 1, flags |-> {}]
  /\ trials = 0
  /\ last_decision = Reject("InvalidNonce")

(* evaluate_and_gate, given what verify_ticket says of the ticket.         *)
Decision(verdict) ==
  IF seed.invalidated THEN Reject("InvalidCommitment")
  ELSE IF verdict = "ValidWinning" THEN <<"ClaimAndRotateWinning">>
  ELSE IF verdict = "ValidLosing" THEN <<"ServeLosing">>
  ELSE Reject(verdict)

Spends(decision) == seed.invalidated \/ decision = <<"ClaimAndRotateWinning">>

-----------------------------------------------------------------------------
ChooseAudit ==
  /\ mode = "started"
  /\ mode' = "auditing"
  /\ UNCHANGED <<vars, seed, options, trials, last_decision>>

(* A fault: a win spends the seed and no other takes its place.            *)
NoRotation == seed' = [seed EXCEPT !.invalidated = TRUE]

(* rotate_seed, after a win.                                               *)
Rotation == seed' = [epoch |-> seed.epoch + 1, invalidated |-> FALSE]

(* One round of the audit: a ticket made for the verifier's present        *)
(* commitment with the next nonce, its decision, and the governor.         *)
AuditRound ==
  /\ mode = "auditing" /\ Len(drawn) < MaxTickets
  /\ \E wins \in BOOLEAN :
       LET decision == Decision(IF wins THEN "ValidWinning" ELSE "ValidLosing")
       IN  IF decision[1] = "Reject"
           THEN mode' = "panicked" /\ UNCHANGED <<vars, seed>>
           ELSE /\ Ticket(wins)
                /\ IF wins THEN Rotation ELSE UNCHANGED seed
                /\ UNCHANGED mode
  /\ UNCHANGED <<options, trials, last_decision>>

-----------------------------------------------------------------------------
(* run_single_or_bench_mode.  A tampered nonce is computed with unchecked  *)
(* 64-bit arithmetic: near the top it wraps, or panics in a build with     *)
(* overflow checks.                                                        *)
Tampered(opts) ==
  IF "tamper_nonce" \in opts.flags
  THEN [opts EXCEPT !.nonce = (opts.last_nonce + NonceTamper) % (MaxUint64 + 1)]
  ELSE opts

Overflows(opts) == "tamper_nonce" \in opts.flags /\ opts.last_nonce + NonceTamper > MaxUint64

ChooseSandbox ==
  /\ mode = "started"
  /\ \E opts \in Options :
       /\ options' = Tampered(opts)
       /\ mode' \in IF Overflows(opts) THEN {"warming", "overflowed"} ELSE {"warming"}
  /\ UNCHANGED <<vars, seed, trials, last_decision>>

(* A high s wins over corrupted bytes when both are asked for.             *)
SignatureHolds ==
  IF "malleable_s" \in options.flags THEN "low" \in options.flags
  ELSE "tamper_sig" \notin options.flags

(* verify_ticket of the sandbox's one ticket.                              *)
Verdict ==
  IF options.nonce # options.last_nonce + 1 THEN "InvalidNonce"
  ELSE IF "tamper_commitment" \in options.flags THEN "InvalidCommitment"
  ELSE IF "expired" \in options.flags THEN "Expired"
  ELSE IF ~SignatureHolds THEN "InvalidSignature"
  ELSE IF "wins" \in options.flags THEN "ValidWinning"
  ELSE "ValidLosing"

(* A fault: the warm-up goes through the gate.                             *)
WarmUpGates ==
  /\ mode = "warming"
  /\ mode' = "benching"
  /\ seed' = [seed EXCEPT !.invalidated = Spends(Decision(Verdict))]
  /\ UNCHANGED <<vars, options, trials, last_decision>>

(* Five evaluations by verify_ticket, which takes the verifier read-only.  *)
WarmUp ==
  /\ mode = "warming"
  /\ mode' = "benching"
  /\ UNCHANGED <<vars, seed, options, trials, last_decision>>

Trial ==
  /\ mode = "benching" /\ trials < options.iterations
  /\ trials' = trials + 1
  /\ last_decision' = Decision(Verdict)
  /\ seed' = [seed EXCEPT !.invalidated = Spends(last_decision')]
  /\ UNCHANGED <<vars, mode, options>>

Report ==
  /\ mode = "benching" /\ trials = options.iterations
  /\ mode' = "reported"
  /\ UNCHANGED <<vars, seed, options, trials, last_decision>>

SimNext ==
  \/ ChooseAudit \/ AuditRound
  \/ ChooseSandbox \/ WarmUp \/ Trial \/ Report

SimSpec == SimInit /\ [][SimNext]_allVars

-----------------------------------------------------------------------------
(* The ticket asked for is one the gate must refuse.  Corrupted bytes are  *)
(* not sent when a high s is asked for too.                                *)
Tampers ==
  \/ options.flags \intersect {"tamper_nonce", "tamper_commitment", "expired"} # {}
  \/ "tamper_sig" \in options.flags /\ "malleable_s" \notin options.flags

(* Both modes put many evaluations through one verifier, and each gets the *)
(* verdict on its ticket but for a spent seed.  The audit's "FATAL:        *)
(* Unexpected verifier rejection" (simulate.rs:192) is unreachable: after  *)
(* every win the next ticket meets a rotated seed.  The sandbox never      *)
(* rotates: a win makes any trial after the first report a wrong           *)
(* commitment, and without a trial the nonce is blamed.  No tampering gets *)
(* past the gate, not even a nonce that wrapped (simulate.rs:268).         *)
ReportIsVerdict ==
  /\ mode # "panicked"
  /\ mode = "reported" =>
       /\ last_decision =
            IF options.iterations = 0 THEN Reject("InvalidNonce")
            ELSE CASE Verdict = "ValidLosing" -> <<"ServeLosing">>
                   [] Verdict = "ValidWinning" -> IF options.iterations = 1 THEN <<"ClaimAndRotateWinning">>
                                                  ELSE Reject("InvalidCommitment")
                   [] OTHER -> Reject(Verdict)
       /\ seed.invalidated <=> Verdict = "ValidWinning" /\ options.iterations > 0
       /\ Tampers => last_decision[1] = "Reject"
=============================================================================
