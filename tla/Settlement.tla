----------------------------- MODULE Settlement -----------------------------
(***************************************************************************)
(* The direct adapter, the OApps and their vaults, over any origination    *)
(* that keeps the promise of Obligations.  The controller asks the adapter *)
(* in force, which its owner may replace at any time; OApps that are not   *)
(* the controller's are driven by an operator.                             *)
(***************************************************************************)
EXTENDS Obligations, DirectSettlementAdapter, LayerZeroSettlementOApp

VARIABLE settlementAdapter   \* of the controller

settlementVars == <<obligations, settlementAdapter, vaultVars, directVars, oappVars>>

ASSUME AdaptersAssumption == Adapters = {Direct} \cup OApps /\ Direct \notin OApps

SettlementInit ==
  /\ ObligationsInit
  /\ settlementAdapter = NoAdapter
  /\ VaultInit /\ DirectInit /\ OAppInit

RequestOf(adapter, id) ==
  IF adapter = Direct THEN requests[id] ELSE oappRequests[adapter][id]

StatusOf(adapter, id) == RequestOf(adapter, id).state

VaultFor == [a \in Adapters |-> IF a = Direct THEN DirectVault ELSE VaultOf[a]]

(* By the controller's owner.  An adapter that takes no requests from the   *)
(* controller reverts them all: naming it is left out.                      *)
SetSettlementAdapter(adapter) ==
  /\ adapter # Direct => deployment[adapter].owner = Controller
  /\ settlementAdapter' = adapter
  /\ UNCHANGED <<obligations, vaultVars, directVars, oappVars>>

(* By the institution that originated, also after its authorization is      *)
(* withdrawn and after the commitment is repaid.                            *)
RequestSettlement(id) ==
  /\ id \in Originations
  /\ settlementAdapter # NoAdapter
  /\ StatusOf(settlementAdapter, id) = "NONE"
  /\ \/ /\ settlementAdapter = Direct
        /\ RequestFunding(id, obligations[id])
        /\ UNCHANGED oappVars
     \/ /\ settlementAdapter \in OApps
        /\ \E digest \in Digests :
             SendFunding(settlementAdapter, Controller, id, obligations[id], digest)
        /\ UNCHANGED directVars
  /\ UNCHANGED <<obligations, settlementAdapter, vaultVars>>

OriginationStep ==
  /\ ObligationsNext
  /\ UNCHANGED <<settlementAdapter, vaultVars, directVars, oappVars>>

(* Naming an adapter of another vault is as good as naming none. *)
OwnerStep ==
  /\ \/ /\ \E a \in Adapters : SetAuthority(VaultFor[a], a)
        /\ UNCHANGED directVars
     \/ /\ \E authorized \in BOOLEAN : SetRelayer(authorized)
        /\ UNCHANGED vaultVars
  /\ UNCHANGED <<obligations, settlementAdapter, oappVars>>

RelayerStep(id) ==
  /\ RelayerRetry(id) \/ \E t \in TransportIds : RelayerFund(id, t)
  /\ UNCHANGED <<obligations, settlementAdapter, oappVars>>

OperatorSends(z, id) ==
  /\ \E terms \in Terms, digest \in Digests :
       SendFunding(z, Operator, id, terms, digest)
  /\ UNCHANGED <<obligations, settlementAdapter, vaultVars, directVars>>

OperatorReopens(z, id) ==
  /\ \E guid \in Guids : Reopen(z, Operator, guid, id)
  /\ UNCHANGED <<obligations, settlementAdapter, vaultVars, directVars>>

EndpointStep(guid) ==
  /\ guid \in Guids
  /\ LzReceive(guid) \/ Dispatch(guid)
  /\ UNCHANGED <<obligations, settlementAdapter, directVars>>

SettlementNext ==
  \/ OriginationStep \/ OwnerStep
  \/ \E a \in Adapters : SetSettlementAdapter(a)
  \/ \E id \in OriginationIds : RequestSettlement(id) \/ RelayerStep(id)
  \/ \E z \in OApps, id \in OriginationIds :
       OperatorSends(z, id) \/ OperatorReopens(z, id)
  \/ \E guid \in 1..MaxSends : EndpointStep(guid)

SettlementSpec == SettlementInit /\ [][SettlementNext]_settlementVars

(* Relayer, operator and endpoint keep trying, and a transfer that is tried *)
(* again and again succeeds in the end.                                     *)
PaidBy(step) == step /\ funding' # funding

FairSettlementSpec ==
  /\ SettlementSpec
  /\ \A id \in OriginationIds : WF_settlementVars(PaidBy(RelayerStep(id)))
  /\ \A guid \in 1..MaxSends : SF_settlementVars(PaidBy(EndpointStep(guid)))
  /\ \A z \in OApps, id \in OriginationIds :
       WF_settlementVars(OperatorReopens(z, id))

-----------------------------------------------------------------------------
(* Types of the vaults, the adapters and the endpoint. *)
SettlementTypeOK ==
  /\ ObligationsTypeOK
  /\ settlementAdapter \in Adapters \cup {NoAdapter}
  /\ VaultTypeOK /\ DirectTypeOK /\ OAppTypeOK

(* Whatever happens between controller, adapters, endpoint and vaults, each *)
(* request is paid at most once and reports what happened to it: "a retry   *)
(* for the same transport reference cannot pay twice"                       *)
(* (docs/superpowers/specs/2026-09-12-settlement-layerzero-design.md).      *)
Stripped(request) ==
  IF request = NoRequest THEN NoRequest
  ELSE [state |-> request.state, terms |-> request.terms]

Promise == INSTANCE PayOnce WITH
  order <- [a \in Adapters |-> [id \in OriginationIds |->
              Stripped(RequestOf(a, id))]],
  paid <- [v \in Vaults |-> [id \in OriginationIds |->
             IF Funded(v, id) THEN funding[v][id].terms ELSE NoPayment]]

PaysOnce == Promise!PayOnceSpec

(* A vault whose authority takes its requests from the controller pays what *)
(* was originated, to its borrower, and so for each commitment once,        *)
(* whatever peers, operator and relayers send.                              *)
TakesFromController(a) ==
  \/ a = Direct
  \/ a \in OApps /\ deployment[a].owner = Controller

ByController(v) == TakesFromController(authority[v])

PaidAsOriginated ==
  \A v \in Vaults : ByController(v) =>
    \A id \in OriginationIds : Funded(v, id) =>
      /\ id \in Originations
      /\ funding[v][id].terms = obligations[id]

(* A request that is never paid has one of the obstacles below, for good.   *)
(* The direct adapter: its vault has another authority, no relayer is       *)
(* authorized, or the reference the request is bound to has paid another    *)
(* origination (a reference counts as used only once it has paid).          *)
DirectObstacle(id) ==
  \/ authority[DirectVault] # Direct
  \/ ~relayerAuthorized
  \/ requests[id].transportId \in UsedTransportIds(DirectVault)

(* An OApp: its vault has another authority, its peer sent no message that  *)
(* matches (the peer's request alone is not enough, the receiving OApp must *)
(* have been asked itself), or it is the controller's, which cannot call    *)
(* retry.                                                                   *)
OAppObstacle(z, id) ==
  \/ authority[VaultOf[z]] # z
  \/ \A guid \in Guids : packets[guid] #
       [from |-> deployment[z].sourcePeer, to |-> z, id |-> id,
        terms |-> oappRequests[z][id].terms, digest |-> oappRequests[z][id].digest]
  \/ oappRequests[z][id].state = "FAILED" /\ deployment[z].owner = Controller

RequestsFunded ==
  \A id \in OriginationIds :
    /\ []<>(requests[id].state \in {"PENDING", "FAILED"} => DirectObstacle(id))
    /\ \A z \in OApps : []<>(oappRequests[z][id].state \in {"PENDING", "FAILED"}
                               => OAppObstacle(z, id))

-----------------------------------------------------------------------------
(* The inductive invariant of the proofs: an authority that has paid stays, *)
(* a request that took its terms from the controller has an obligation, and *)
(* the adapter of a request reported FUNDED is its vault's for good.        *)
IInv ==
  /\ SettlementTypeOK
  /\ PaidAsOriginated
  /\ \A v \in Vaults, id \in OriginationIds : Funded(v, id) => authorityLocked[v]
  /\ \A a \in Adapters, id \in OriginationIds :
       RequestOf(a, id) # NoRequest /\ TakesFromController(a) =>
         id \in Originations /\ RequestOf(a, id).terms = obligations[id]
  /\ \A a \in Adapters, id \in OriginationIds : StatusOf(a, id) = "FUNDED" =>
       authority[VaultFor[a]] = a /\ authorityLocked[VaultFor[a]]
=============================================================================
