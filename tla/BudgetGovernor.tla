--------------------------- MODULE BudgetGovernor ---------------------------
(***************************************************************************)
(* The client budget governor of the variance audit: it looks at the last  *)
(* WindowSize tickets, ends the stream at the second win among them, and   *)
(* starts afresh.  The audit also tracks the longest run of losses.        *)
(***************************************************************************)
EXTENDS Integers, FiniteSets, SequencesExt

CONSTANTS WindowSize,   \* 50 in the audit
          MaxTickets    \* bound on total_tickets, for model checking

ASSUME GovernorAssumption == WindowSize \in Nat \ {0} /\ MaxTickets \in Nat

VARIABLES sliding_window, window_wins, governor_triggers,
          current_dry_spell, max_dry_spell,
          drawn,   \* history: the outcome of every ticket
          trips    \* history: the tickets the governor tripped on

vars == <<sliding_window, window_wins, governor_triggers, current_dry_spell, max_dry_spell, drawn, trips>>

Init ==
  /\ sliding_window = <<>> /\ window_wins = 0 /\ governor_triggers = 0
  /\ current_dry_spell = 0 /\ max_dry_spell = 0
  /\ drawn = <<>> /\ trips = {}

Bit(b) == IF b THEN 1 ELSE 0

Full(window) == Len(window) = WindowSize

(* The window and its count after one more outcome.                        *)
Slide(is_win) ==
  LET kept == IF Full(sliding_window) THEN Tail(sliding_window) ELSE sliding_window
      left == IF Full(sliding_window) THEN window_wins - Bit(Head(sliding_window)) ELSE window_wins
  IN  [window |-> Append(kept, is_win), wins |-> left + Bit(is_win)]

(* A fault: a trip resets the count and keeps the window.                  *)
TripKeepsWindow(slid) ==
  /\ sliding_window' = slid.window /\ window_wins' = 0
  /\ governor_triggers' = governor_triggers + 1
  /\ trips' = trips \union {Len(drawn')}

Trip(slid) ==
  /\ sliding_window' = <<>> /\ window_wins' = 0
  /\ governor_triggers' = governor_triggers + 1
  /\ trips' = trips \union {Len(drawn')}

DrySpell(is_win) ==
  /\ current_dry_spell' = IF is_win THEN 0 ELSE current_dry_spell + 1
  /\ max_dry_spell' = IF current_dry_spell' > max_dry_spell THEN current_dry_spell' ELSE max_dry_spell

(* One round of the audit's loop, after the gate has decided.              *)
Ticket(is_win) ==
  /\ Len(drawn) < MaxTickets
  /\ drawn' = Append(drawn, is_win)
  /\ DrySpell(is_win)
  /\ LET slid == Slide(is_win)
     IN  IF slid.wins >= 2 THEN Trip(slid)
         ELSE /\ sliding_window' = slid.window /\ window_wins' = slid.wins
              /\ UNCHANGED <<governor_triggers, trips>>

Next == \E is_win \in BOOLEAN : Ticket(is_win)

Spec == Init /\ [][Next]_vars

-----------------------------------------------------------------------------
Wins(s) == {i \in DOMAIN s : s[i]}

(* The audit's figures are those of the outcomes drawn.  The counter, a    *)
(* usize decremented without a check, is the number of wins in the window  *)
(* at all times.  The governor trips on exactly the wins that follow       *)
(* another one, since the last trip, by less than the window: "2 wins in   *)
(* <= 50 tickets", simulate.rs:206.  The longest dry spell is the longest  *)
(* run of losses.                                                          *)
TripDue(i) ==
  /\ drawn[i]
  /\ \E j \in Wins(drawn) : /\ i - WindowSize < j /\ j < i
                            /\ \A k \in trips : k < j \/ k >= i

Losses == {n \in 0 .. Len(drawn) : \E i \in 1 .. Len(drawn) - n + 1 :
                                     \A k \in i .. i + n - 1 : ~drawn[k]}

AuditFiguresAreRight ==
  /\ window_wins = Cardinality(Wins(sliding_window)) /\ Len(sliding_window) <= WindowSize
  /\ governor_triggers = Cardinality(trips)
  /\ \A i \in DOMAIN drawn : i \in trips <=> TripDue(i)
  /\ max_dry_spell = CHOOSE n \in Losses : \A m \in Losses : m <= n
=============================================================================
