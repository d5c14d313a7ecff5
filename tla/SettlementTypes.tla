--------------------------- MODULE SettlementTypes ---------------------------
(***************************************************************************)
(* contracts/settlement/SettlementTypes.sol and ISettlementAdapter.sol:    *)
(* what the controller, the adapters and the vaults share.                 *)
(***************************************************************************)
EXTENDS EvmTypes

CONSTANTS
  OriginationIds,       \* (commitment, source, loan)
  Borrowers

Status == {"NONE", "PENDING", "FUNDED", "FAILED"}

Terms == [recipient : Borrowers, amount : Uint \ {0}]

NoRequest == [state |-> "NONE"]
=============================================================================
