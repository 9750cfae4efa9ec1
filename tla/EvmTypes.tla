------------------------------ MODULE EvmTypes ------------------------------
(***************************************************************************)
(* Word sizes and addresses, shared by everything that touches the chain.  *)
(* The sizes are parameters: all that is used of them is that the product  *)
(* of two 32-bit numbers fits in a 256-bit word.                           *)
(***************************************************************************)
EXTENDS Integers

CONSTANTS MaxUint256,   \* type(uint256).max, U256::MAX
          MaxUint32,    \* type(uint32).max
          Accounts,     \* externally owned addresses
          NoAddress     \* address(0)

ASSUME WordSizes ==
  /\ MaxUint256 \in Nat
  /\ MaxUint32 \in Nat \ {0}
  /\ MaxUint32 * MaxUint32 <= MaxUint256

ASSUME ZeroAddress == NoAddress \notin Accounts

=============================================================================
