--------------------------- MODULE SettlementVault ---------------------------
(***************************************************************************)
(* contracts/settlement/SettlementVault.sol: pays the one authority's      *)
(* requests out of its funds, each origination and each transport          *)
(* reference once.  There may be several vaults, on several chains.        *)
(*                                                                         *)
(* funded and usedTransportIds are set together with funding and are       *)
(* derived from it here.  The asset is a token; whether its transfer       *)
(* succeeds (balance, pause, ...) is an argument.  Before an adapter has   *)
(* the authority, the account that has it (NoAdapter) makes no payments.    *)
(***************************************************************************)
EXTENDS SettlementTypes

CONSTANTS
  Adapters, NoAdapter,
  Vaults,
  TransportIds,         \* references relayers choose from
  NoTransport,
  MaxSends,             \* bound: messages, whose guids are 1..MaxSends
  NoPayment

ASSUME NoAdapterAssumption == NoAdapter \notin Adapters
ASSUME MaxSendsAssumption == MaxSends \in Nat

VARIABLES
  authority, authorityLocked,
  funding     \* per vault, what was paid for each origination

vaultVars == <<authority, authorityLocked, funding>>

References == TransportIds \cup 1..MaxSends

Payment == [terms : Terms, transportId : References]

ASSUME NoPaymentAssumption == NoPayment \notin Payment

VaultTypeOK ==
  /\ authority \in [Vaults -> Adapters \cup {NoAdapter}]
  /\ authorityLocked \in [Vaults -> BOOLEAN]
  /\ funding \in [Vaults -> [OriginationIds -> Payment \cup {NoPayment}]]

VaultInit ==
  /\ authority = [v \in Vaults |-> NoAdapter]
  /\ authorityLocked = [v \in Vaults |-> FALSE]
  /\ funding = [v \in Vaults |-> [id \in OriginationIds |-> NoPayment]]

(* By the owner, until the first payment. *)
SetAuthority(v, adapter) ==
  /\ ~authorityLocked[v]
  /\ authority' = [authority EXCEPT ![v] = adapter]
  /\ UNCHANGED <<authorityLocked, funding>>

Funded(v, id) == funding[v][id] # NoPayment

UsedTransportIds(v) ==
  {funding[v][id].transportId : id \in {i \in OriginationIds : Funded(v, i)}}

MayFund(v, by, id, transport) ==
  /\ authority[v] = by
  /\ ~Funded(v, id)
  /\ transport \notin UsedTransportIds(v)

(* fund, when it returns; otherwise it reverts and nothing changes. *)
Fund(v, by, id, terms, transport) ==
  /\ MayFund(v, by, id, transport)
  /\ funding' = [funding EXCEPT
       ![v][id] = [terms |-> terms, transportId |-> transport]]
  /\ authorityLocked' = [authorityLocked EXCEPT ![v] = TRUE]
  /\ UNCHANGED authority
=============================================================================
