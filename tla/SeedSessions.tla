---------------------------- MODULE SeedSessions ----------------------------
(***************************************************************************)
(* What the gatekeeper promises, without tickets, signatures or odds.      *)
(* Each client's session is served one unit after the other, all of them   *)
(* under one secret seed.  A unit may spend the seed; nothing is served    *)
(* under a spent seed, which is replaced by one that was never shown.      *)
(* Only a spent seed is revealed, and only as it is replaced.              *)
(***************************************************************************)
EXTENDS Naturals

CONSTANTS People, SeedValues

VARIABLES count,     \* units served to each client since its session began
          seed, spent,
          revealed   \* the seeds shown to the world

sessionVars == <<count, seed, spent, revealed>>

Init ==
  /\ count = [person \in People |-> 0]
  /\ seed \in SeedValues /\ spent = FALSE
  /\ revealed = {}

Unit(person) ==
  /\ ~spent
  /\ count' = [count EXCEPT ![person] = @ + 1]
  /\ spent' \in BOOLEAN
  /\ UNCHANGED <<seed, revealed>>

Replace(fresh) ==
  /\ spent
  /\ fresh \notin revealed \cup {seed}
  /\ seed' = fresh /\ spent' = FALSE
  /\ revealed' \in {revealed, revealed \cup {seed}}
  /\ UNCHANGED count

NewSession(person) ==
  /\ count' = [count EXCEPT ![person] = 0]
  /\ UNCHANGED <<seed, spent, revealed>>

Next ==
  \/ \E person \in People : Unit(person) \/ NewSession(person)
  \/ \E fresh \in SeedValues : Replace(fresh)

Spec == Init /\ [][Next]_sessionVars

=============================================================================
