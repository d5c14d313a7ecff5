----------------------- MODULE DirectSettlementAdapter -----------------------
(***************************************************************************)
(* contracts/settlement/DirectSettlementAdapter.sol: the controller asks,  *)
(* a relayer binds a transport reference and has the vault pay.  A payment *)
(* that fails is recorded as such and retried with the same reference.  The *)
(* proof digest of a request is read by no guard and left out.              *)
(***************************************************************************)
EXTENDS SettlementVault

CONSTANTS
  Direct,       \* the adapter
  DirectVault

ASSUME DirectConstants == Direct \in Adapters /\ DirectVault \in Vaults

VARIABLES
  relayerAuthorized,  \* the one relayer
  requests,           \* per origination
  usedTransportIds

directVars == <<relayerAuthorized, requests, usedTransportIds>>

Request == [state : Status \ {"NONE"}, terms : Terms,
            transportId : References \cup {NoTransport}]

DirectTypeOK ==
  /\ relayerAuthorized \in BOOLEAN
  /\ requests \in [OriginationIds -> Request \cup {NoRequest}]
  /\ usedTransportIds \subseteq References

DirectInit ==
  /\ relayerAuthorized = FALSE
  /\ requests = [id \in OriginationIds |-> NoRequest]
  /\ usedTransportIds = {}

SetRelayer(authorized) ==
  /\ relayerAuthorized' = authorized
  /\ UNCHANGED <<requests, usedTransportIds>>

(* By the controller. *)
RequestFunding(id, terms) ==
  /\ requests[id].state = "NONE"
  /\ requests' = [requests EXCEPT
       ![id] = [state |-> "PENDING", terms |-> terms, transportId |-> NoTransport]]
  /\ UNCHANGED <<relayerAuthorized, usedTransportIds>>

(* _attemptFund with the reference the request is bound to. *)
AttemptPays(id, transport) ==
  /\ Fund(DirectVault, Direct, id, requests[id].terms, transport)
  /\ requests' = [requests EXCEPT ![id].state = "FUNDED",
                                  ![id].transportId = transport]
  /\ usedTransportIds' = usedTransportIds \cup {transport}

AttemptFails(id, transport) ==
  /\ requests' = [requests EXCEPT ![id].state = "FAILED",
                                  ![id].transportId = transport]
  /\ UNCHANGED <<vaultVars, usedTransportIds>>

(* The transfer may fail, and fund may revert before it. *)
AttemptFund(id, transport) ==
  /\ AttemptPays(id, transport) \/ AttemptFails(id, transport)
  /\ UNCHANGED relayerAuthorized

(* fund by a relayer, which restates the terms; a reference is bound by the *)
(* first attempt, and an attempt never leaves the request pending.          *)
MayAttempt(id, transport) ==
  /\ relayerAuthorized
  /\ requests[id].state = "PENDING"
  /\ requests[id].transportId \in {NoTransport, transport}
  /\ requests[id].transportId = NoTransport => transport \notin usedTransportIds

RelayerFund(id, transport) == MayAttempt(id, transport) /\ AttemptFund(id, transport)

(* Mutated form: retry has the guard of fund. *)
RetryPending(id) ==
  /\ relayerAuthorized
  /\ requests[id].state = "PENDING"
  /\ requests[id].transportId # NoTransport
  /\ AttemptFund(id, requests[id].transportId)

(* retry by a relayer. *)
RelayerRetry(id) ==
  /\ relayerAuthorized
  /\ requests[id].state = "FAILED"
  /\ requests[id].transportId # NoTransport
  /\ AttemptFund(id, requests[id].transportId)
=============================================================================
