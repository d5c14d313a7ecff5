------------------------------- MODULE PayOnce -------------------------------
(***************************************************************************)
(* What settlement promises, whatever carries the requests: an adapter     *)
(* takes one request per origination and never changes its terms; a        *)
(* request reports FUNDED exactly when its vault has paid those terms; a   *)
(* vault pays an origination once, and only for one adapter; a failed      *)
(* payment moves nothing and may be tried again.                           *)
(***************************************************************************)
EXTENDS SettlementTypes

CONSTANTS
  Adapters,
  Vaults,
  VaultFor,    \* the vault of each adapter
  NoPayment

VARIABLES
  order,  \* per adapter and origination, the request and its state
  paid    \* per vault and origination, the terms paid

payVars == <<order, paid>>

PayInit ==
  /\ order = [a \in Adapters |-> [id \in OriginationIds |-> NoRequest]]
  /\ paid = [v \in Vaults |-> [id \in OriginationIds |-> NoPayment]]

Ask(a, id) ==
  /\ order[a][id].state = "NONE"
  /\ \E terms \in Terms :
       order' = [order EXCEPT ![a][id] = [state |-> "PENDING", terms |-> terms]]
  /\ UNCHANGED paid

Fail(a, id) ==
  /\ order[a][id].state \in {"PENDING", "FAILED"}
  /\ order' = [order EXCEPT ![a][id].state = "FAILED"]
  /\ UNCHANGED paid

TryAgain(a, id) ==
  /\ order[a][id].state = "FAILED"
  /\ order' = [order EXCEPT ![a][id].state = "PENDING"]
  /\ UNCHANGED paid

Pay(a, id) ==
  /\ order[a][id].state \in {"PENDING", "FAILED"}
  /\ paid[VaultFor[a]][id] = NoPayment
  /\ \A b \in Adapters \ {a}, other \in OriginationIds :
       VaultFor[b] = VaultFor[a] => order[b][other].state # "FUNDED"
  /\ order' = [order EXCEPT ![a][id].state = "FUNDED"]
  /\ paid' = [paid EXCEPT ![VaultFor[a]][id] = order[a][id].terms]

PayNext == \E a \in Adapters, id \in OriginationIds :
  Ask(a, id) \/ Fail(a, id) \/ TryAgain(a, id) \/ Pay(a, id)

PayOnceSpec == PayInit /\ [][PayNext]_payVars
=============================================================================
