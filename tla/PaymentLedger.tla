--------------------------- MODULE PaymentLedger ---------------------------
(***************************************************************************)
(* What the escrow promises, without tickets, signatures, allowances or    *)
(* channel records.  Each pair of a payer and a payee has some money       *)
(* locked in the vault.  Money leaves the vault in two ways only: a slot   *)
(* is settled, at most once ever, to the payee of its pair and out of that *)
(* pair's own money; or all that is left is refunded to the payer, no      *)
(* sooner than Grace after the payer gave notice.                          *)
(***************************************************************************)
EXTENDS Integers

CONSTANTS People, PayerPayee, SlotNumbers, Money, Grace

VARIABLES wallet,    \* money each person holds
          vault,     \* money the vault holds
          locked,    \* the part of it that belongs to each pair
          noticeAt,  \* when the payer of a pair gave notice, 0 if not
          settled,   \* the slots paid so far
          clock

ledgerVars == <<wallet, vault, locked, noticeAt, settled, clock>>

Init ==
  /\ wallet \in [People -> Nat]
  /\ vault \in Nat
  /\ locked = [pair \in PayerPayee |-> 0]
  /\ noticeAt = [pair \in PayerPayee |-> 0]
  /\ settled = {}
  /\ clock \in Nat \ {0}

-----------------------------------------------------------------------------
Lock(from, pair, amount) ==
  /\ 0 < amount /\ amount <= wallet[from]
  /\ wallet' = [wallet EXCEPT ![from] = @ - amount]
  /\ vault' = vault + amount
  /\ locked' = [locked EXCEPT ![pair] = @ + amount]
  /\ UNCHANGED <<noticeAt, settled, clock>>

Settle(pair, number, amount) ==
  /\ <<pair, number>> \notin settled
  /\ amount <= locked[pair]
  /\ settled' = settled \cup {<<pair, number>>}
  /\ locked' = [locked EXCEPT ![pair] = @ - amount]
  /\ vault' = vault - amount
  /\ wallet' = [wallet EXCEPT ![pair[2]] = @ + amount]
  /\ UNCHANGED <<noticeAt, clock>>

GiveNotice(pair) ==
  /\ noticeAt[pair] = 0
  /\ noticeAt' = [noticeAt EXCEPT ![pair] = clock]
  /\ UNCHANGED <<wallet, vault, locked, settled, clock>>

Refund(pair) ==
  /\ noticeAt[pair] # 0
  /\ clock >= noticeAt[pair] + Grace
  /\ vault' = vault - locked[pair]
  /\ wallet' = [wallet EXCEPT ![pair[1]] = @ + locked[pair]]
  /\ locked' = [locked EXCEPT ![pair] = 0]
  /\ noticeAt' = [noticeAt EXCEPT ![pair] = 0]
  /\ UNCHANGED <<settled, clock>>

(* Money moves between people, is created, or is given to the vault.       *)
Elsewhere ==
  /\ wallet' \in [People -> Nat]
  /\ vault' \in Nat /\ vault' >= vault
  /\ UNCHANGED <<locked, noticeAt, settled, clock>>

Pass ==
  /\ clock' \in Nat /\ clock' > clock
  /\ UNCHANGED <<wallet, vault, locked, noticeAt, settled>>

Next ==
  \/ \E from \in People, pair \in PayerPayee, amount \in Money : Lock(from, pair, amount)
  \/ \E pair \in PayerPayee, number \in SlotNumbers, amount \in Money :
       Settle(pair, number, amount)
  \/ \E pair \in PayerPayee : GiveNotice(pair) \/ Refund(pair)
  \/ Elsewhere
  \/ Pass

Spec == Init /\ [][Next]_ledgerVars

=============================================================================
