----------------------- MODULE LayerZeroSettlementOApp -----------------------
(***************************************************************************)
(* contracts/settlement/LayerZeroSettlementOApp.sol: an OApp on each chain.*)
(* A request sends a message to the destination peer; a message from the   *)
(* source peer that matches a pending request of the receiving OApp has    *)
(* that OApp's vault pay.  A payment that fails may be reopened by the     *)
(* owner and is attempted again when the endpoint delivers again.          *)
(*                                                                         *)
(* The endpoint is external: it numbers the messages (the number is the    *)
(* guid), and delivers each in any order, late, never or repeatedly, to    *)
(* its destination, through lzReceive or through fund.  outboundGuid is    *)
(* read by no guard.                                                       *)
(***************************************************************************)
EXTENDS SettlementVault, Sequences

CONSTANTS
  OApps,
  Digests,           \* of source proofs
  VaultOf,           \* the vault of each OApp
  Controller,        \* the origination controller
  Operator,          \* another account
  Deployments        \* bound: deployments considered

Deployment == [owner : {Controller, Operator}, sourcePeer : OApps,
               destinationPeer : OApps]

ASSUME OAppConstants ==
  /\ Operator # Controller
  /\ OApps \subseteq Adapters
  /\ VaultOf \in [OApps -> Vaults]
  /\ Deployments \subseteq [OApps -> Deployment]

VARIABLES
  deployment,        \* the owners and peers the OApps were deployed with
  oappRequests,
  guidOrigination,   \* per OApp, a set of pairs
  processedGuids,
  packets            \* what the endpoint was given to deliver

oappVars == <<deployment, oappRequests, guidOrigination, processedGuids, packets>>

OAppRequest == [state : Status \ {"NONE"}, terms : Terms, digest : Digests]

Packet == [from : OApps, to : OApps, id : OriginationIds, terms : Terms,
           digest : Digests]

Guids == 1..Len(packets)

OAppTypeOK ==
  /\ deployment \in [OApps -> Deployment]
  /\ oappRequests \in [OApps -> [OriginationIds -> OAppRequest \cup {NoRequest}]]
  /\ guidOrigination \in [OApps -> SUBSET (Guids \X OriginationIds)]
  /\ processedGuids \in [OApps -> SUBSET Guids]
  /\ packets \in Seq(Packet) /\ Len(packets) <= MaxSends

OAppInit ==
  /\ deployment \in Deployments
  /\ oappRequests = [z \in OApps |-> [id \in OriginationIds |-> NoRequest]]
  /\ guidOrigination = [z \in OApps |-> {}]
  /\ processedGuids = [z \in OApps |-> {}]
  /\ packets = <<>>

BoundTo(z, guid) == {id \in OriginationIds : <<guid, id>> \in guidOrigination[z]}

(* _sendFunding *)
SendFunding(z, by, id, terms, digest) ==
  /\ by = deployment[z].owner
  /\ oappRequests[z][id].state = "NONE"
  /\ Len(packets) < MaxSends
  /\ oappRequests' = [oappRequests EXCEPT
       ![z][id] = [state |-> "PENDING", terms |-> terms, digest |-> digest]]
  /\ packets' = Append(packets, [from |-> z, to |-> deployment[z].destinationPeer,
                                 id |-> id, terms |-> terms, digest |-> digest])
  /\ guidOrigination' = [guidOrigination EXCEPT ![z] = @ \cup {<<Len(packets) + 1, id>>}]
  /\ UNCHANGED <<deployment, processedGuids>>

(* _attemptFund, for a request that matches. *)
AttemptPaysOut(z, id, terms, guid) ==
  /\ Fund(VaultOf[z], z, id, terms, guid)
  /\ oappRequests' = [oappRequests EXCEPT ![z][id].state = "FUNDED"]
  /\ processedGuids' = [processedGuids EXCEPT ![z] = @ \cup {guid}]

AttemptIsRecorded(z, id) ==
  /\ oappRequests' = [oappRequests EXCEPT ![z][id].state = "FAILED"]
  /\ UNCHANGED <<vaultVars, processedGuids>>

(* Mutated form: a request that is not pending any more matches too. *)
MatchesAnyState(z, packet) ==
  LET request == oappRequests[z][packet.id] IN
  /\ request # NoRequest
  /\ request.terms = packet.terms

(* Mutated form: the terms of the message are not compared. *)
MatchesAnyTerms(z, packet) == oappRequests[z][packet.id].state = "PENDING"

(* lzReceive compares the digest too; fund does not, and is given none. *)
Matches(z, packet) ==
  LET request == oappRequests[z][packet.id] IN
  request.state = "PENDING" /\ request.terms = packet.terms

AttemptDelivery(z, guid) ==
  /\ Matches(z, packets[guid])
  /\ \/ AttemptPaysOut(z, packets[guid].id, packets[guid].terms, guid)
     \/ AttemptIsRecorded(z, packets[guid].id)
  /\ UNCHANGED <<deployment, packets>>

(* lzReceive *)
LzReceive(guid) ==
  LET packet == packets[guid]
      z == packet.to
  IN  /\ packet.from = deployment[z].sourcePeer
      /\ guid \notin processedGuids[z]
      /\ BoundTo(z, guid) \subseteq {packet.id}
      /\ AttemptDelivery(z, guid)
      /\ oappRequests[z][packet.id].digest = packet.digest
      /\ guidOrigination' = [guidOrigination EXCEPT ![z] = @ \cup {<<guid, packet.id>>}]

(* fund, the entry for endpoints that separate delivery from dispatch. *)
Dispatch(guid) ==
  LET packet == packets[guid]
      z == packet.to
  IN  /\ BoundTo(z, guid) = {packet.id}
      /\ AttemptDelivery(z, guid)
      /\ UNCHANGED guidOrigination

(* Mutated form: retry clears the state of the request. *)
ReopenAsNew(z, by, guid, id) ==
  /\ by = deployment[z].owner
  /\ BoundTo(z, guid) = {id}
  /\ oappRequests[z][id].state = "FAILED"
  /\ oappRequests' = [oappRequests EXCEPT ![z][id].state = "NONE"]
  /\ UNCHANGED <<deployment, guidOrigination, processedGuids, packets>>

(* retry, for any guid bound to the origination. *)
Reopen(z, by, guid, id) ==
  /\ by = deployment[z].owner
  /\ BoundTo(z, guid) = {id}
  /\ oappRequests[z][id].state = "FAILED"
  /\ oappRequests' = [oappRequests EXCEPT ![z][id].state = "PENDING"]
  /\ UNCHANGED <<deployment, guidOrigination, processedGuids, packets>>
=============================================================================
