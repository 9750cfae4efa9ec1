------------------------------ MODULE MockUSDC ------------------------------
(***************************************************************************)
(* The ERC-20 token the escrow holds, seen from the escrow: balances, and  *)
(* the allowance each holder has given the escrow (other spenders'         *)
(* transfers are transfers by their owner here).  mint and the constructor *)
(* are the repository's; approve and the two transfers are the inherited   *)
(* OpenZeppelin ERC20, as the escrow uses them.                            *)
(***************************************************************************)
EXTENDS EvmTypes

CONSTANTS Escrow,                   \* the address of the SPMPEscrow contract
          Deployer, InitialSupply,  \* who deploys MockUSDC, and its first mint
          SupplyBound,              \* bound on minting, for model checking
          Amounts, Approvals        \* the amounts calls are made with

Holders == Accounts \cup {Escrow}

ASSUME TokenAssumption ==
  /\ Escrow \notin Accounts
  /\ Deployer \in Accounts
  /\ SupplyBound \in 0 .. MaxUint256
  /\ InitialSupply \in 0 .. SupplyBound
  /\ Amounts \subseteq 0 .. MaxUint256
  /\ Approvals \subseteq 0 .. MaxUint256

VARIABLES balanceOf, allowance, totalSupply

tokenVars == <<balanceOf, allowance, totalSupply>>

TokenTypeOK ==
  /\ balanceOf \in [Holders -> Nat]
  /\ allowance \in [Accounts -> Nat]
  /\ totalSupply \in 0 .. MaxUint256

TokenInit ==
  /\ balanceOf = [holder \in Holders |-> IF holder = Deployer THEN InitialSupply ELSE 0]
  /\ allowance = [owner \in Accounts |-> 0]
  /\ totalSupply = InitialSupply

-----------------------------------------------------------------------------
(* The state change of a transfer; its guards are the callers'.            *)
Move(from, to, amount) ==
  LET debited == [balanceOf EXCEPT ![from] = @ - amount]
  IN  balanceOf' = [debited EXCEPT ![to] = @ + amount]

transfer(from, to, amount) ==
  /\ amount <= balanceOf[from]
  /\ Move(from, to, amount)
  /\ UNCHANGED totalSupply

(* The escrow pulls amount from an owner: the allowance is spent, unless   *)
(* it is the unlimited one, type(uint256).max.                             *)
transferFrom(owner, amount) ==
  /\ amount <= allowance[owner]
  /\ allowance' = IF allowance[owner] = MaxUint256 THEN allowance
                  ELSE [allowance EXCEPT ![owner] = @ - amount]
  /\ transfer(owner, Escrow, amount)

approve(owner, amount) ==
  /\ allowance' = [allowance EXCEPT ![owner] = amount]
  /\ UNCHANGED <<balanceOf, totalSupply>>

(* Anyone may mint to anyone; the supply is checked against its word.      *)
mint(to, amount) ==
  /\ totalSupply + amount <= SupplyBound
  /\ balanceOf' = [balanceOf EXCEPT ![to] = @ + amount]
  /\ totalSupply' = totalSupply + amount
  /\ UNCHANGED allowance

(* What happens to the token without the escrow taking part.               *)
TokenStep ==
  \/ \E owner \in Accounts, amount \in Approvals : approve(owner, amount)
  \/ \E to \in Holders, amount \in Amounts : mint(to, amount)
  \/ \E from \in Accounts, to \in Holders, amount \in Amounts :
       transfer(from, to, amount) /\ UNCHANGED allowance

=============================================================================
