--------------------------- MODULE SettlementProofs ---------------------------
(***************************************************************************)
(* Settlement for any number of vaults, adapters, originations and         *)
(* messages: every step is one of the moves below on one request and its   *)
(* vault, each of them keeps the invariant, and each is a step of PayOnce. *)
(***************************************************************************)
EXTENDS Settlement, TLAPS

AnyRequest == Request \cup OAppRequest

RequestIn(direct, oapp, a, id) == IF a = Direct THEN direct[id] ELSE oapp[a][id]

LEMMA RequestOfIs ==
  ASSUME NEW a, NEW id
  PROVE  /\ RequestOf(a, id) = RequestIn(requests, oappRequests, a, id)
         /\ RequestOf(a, id)' = RequestIn(requests', oappRequests', a, id)
         /\ StatusOf(a, id) = RequestIn(requests, oappRequests, a, id).state
         /\ StatusOf(a, id)' = RequestIn(requests', oappRequests', a, id).state
BY DEF RequestOf, RequestIn, StatusOf

LEMMA RequestShape ==
  ASSUME NEW r \in AnyRequest
  PROVE  /\ r.state \in {"PENDING", "FUNDED", "FAILED"} /\ r.terms \in Terms
         /\ r # NoRequest
         /\ Stripped(r) = [state |-> r.state, terms |-> r.terms]
<1>1. r.state \in {"PENDING", "FUNDED", "FAILED"} /\ r.terms \in Terms
  BY DEF AnyRequest, Request, OAppRequest, Status
<1>2. NoRequest.state = "NONE"
  BY DEF NoRequest
<1>3. r # NoRequest
  BY <1>1, <1>2
<1> QED BY <1>1, <1>3 DEF Stripped

LEMMA RequestTyped ==
  ASSUME SettlementTypeOK, NEW a \in Adapters, NEW id \in OriginationIds
  PROVE  RequestIn(requests, oappRequests, a, id) \in AnyRequest \cup {NoRequest}
BY AdaptersAssumption DEF SettlementTypeOK, DirectTypeOK, OAppTypeOK, RequestIn, AnyRequest

-----------------------------------------------------------------------------
(* The moves. *)
RequestBecomes(a, id, r) ==
  \A b \in Adapters, other \in OriginationIds :
    RequestIn(requests', oappRequests', b, other)
      = IF b = a /\ other = id THEN r ELSE RequestIn(requests, oappRequests, b, other)

Asked(a, id, r) ==
  /\ RequestIn(requests, oappRequests, a, id) = NoRequest
  /\ r.state = "PENDING"
  /\ TakesFromController(a) => id \in Originations /\ r.terms = obligations[id]
  /\ UNCHANGED vaultVars

Reported(a, id, r) ==
  LET old == RequestIn(requests, oappRequests, a, id) IN
  /\ r.terms = old.terms
  /\ \/ old.state \in {"PENDING", "FAILED"} /\ r.state = "FAILED"
     \/ old.state = "FAILED" /\ r.state = "PENDING"
  /\ UNCHANGED vaultVars

PaidOut(a, id, r) ==
  LET old == RequestIn(requests, oappRequests, a, id) IN
  /\ r.terms = old.terms
  /\ old.state \in {"PENDING", "FAILED"} /\ r.state = "FUNDED"
  /\ \E t \in References : Fund(VaultFor[a], a, id, old.terms, t)

RequestMove ==
  \E a \in Adapters, id \in OriginationIds, r \in AnyRequest :
    /\ RequestBecomes(a, id, r)
    /\ Asked(a, id, r) \/ Reported(a, id, r) \/ PaidOut(a, id, r)
    /\ UNCHANGED obligations

AuthorityMove ==
  /\ \E a \in Adapters, v \in Vaults : SetAuthority(v, a)
  /\ UNCHANGED <<obligations, requests, oappRequests>>

ObligationMove == ObligationsNext /\ UNCHANGED <<vaultVars, requests, oappRequests>>

Quiet == UNCHANGED <<obligations, vaultVars, requests, oappRequests>>

Move ==
  /\ RequestMove \/ AuthorityMove \/ ObligationMove \/ Quiet
  /\ deployment' = deployment

-----------------------------------------------------------------------------
(* Types. *)
LEMMA FundTyped ==
  ASSUME VaultTypeOK, NEW v \in Vaults, NEW a, NEW id \in OriginationIds,
         NEW terms \in Terms, NEW t \in References, Fund(v, a, id, terms, t)
  PROVE  VaultTypeOK'
<1> DEFINE p == [terms |-> terms, transportId |-> t]
<1>1. p \in Payment
  BY DEF Payment
<1> HIDE DEF p
<1>2. /\ funding' = [funding EXCEPT ![v][id] = p]
      /\ authorityLocked' = [authorityLocked EXCEPT ![v] = TRUE]
      /\ authority' = authority
  BY DEF Fund, p
<1> QED BY <1>1, <1>2 DEF VaultTypeOK

LEMMA DirectBecomes ==
  ASSUME NEW id \in OriginationIds, NEW r, oappRequests' = oappRequests,
         requests \in [OriginationIds -> Request \cup {NoRequest}],
         requests' = [requests EXCEPT ![id] = r]
  PROVE  RequestBecomes(Direct, id, r)
BY DEF RequestBecomes, RequestIn

LEMMA OAppBecomes ==
  ASSUME NEW z \in OApps, NEW id \in OriginationIds, NEW r, requests' = requests,
         oappRequests \in [OApps -> [OriginationIds -> OAppRequest \cup {NoRequest}]],
         oappRequests' = [oappRequests EXCEPT ![z][id] = r]
  PROVE  RequestBecomes(z, id, r)
<1>1. \A b \in OApps, other \in OriginationIds :
        oappRequests'[b][other]
          = IF b = z /\ other = id THEN r ELSE oappRequests[b][other]
  OBVIOUS
<1>2. \A b \in Adapters : b # Direct => b \in OApps
  BY AdaptersAssumption
<1>3. z # Direct
  BY AdaptersAssumption
<1> QED BY <1>1, <1>2, <1>3 DEF RequestBecomes, RequestIn

LEMMA TypesStay ==
  /\ VaultTypeOK /\ UNCHANGED vaultVars => VaultTypeOK'
  /\ DirectTypeOK /\ UNCHANGED directVars => DirectTypeOK'
  /\ OAppTypeOK /\ UNCHANGED oappVars => OAppTypeOK' /\ deployment' = deployment
  /\ ObligationsTypeOK /\ UNCHANGED obligations => ObligationsTypeOK'
<1>1. VaultTypeOK /\ UNCHANGED vaultVars => VaultTypeOK'
  BY DEF VaultTypeOK, vaultVars
<1>2. DirectTypeOK /\ UNCHANGED directVars => DirectTypeOK'
  BY DEF DirectTypeOK, directVars
<1>3. OAppTypeOK /\ UNCHANGED oappVars => OAppTypeOK' /\ deployment' = deployment
  BY DEF OAppTypeOK, oappVars, Guids
<1>4. ObligationsTypeOK /\ UNCHANGED obligations => ObligationsTypeOK'
  BY DEF ObligationsTypeOK
<1> QED BY <1>1, <1>2, <1>3, <1>4

LEMMA Places ==
  /\ Direct \in Adapters /\ VaultFor[Direct] = DirectVault /\ DirectVault \in Vaults
  /\ \A z \in OApps : z \in Adapters /\ z # Direct /\ VaultFor[z] = VaultOf[z]
                      /\ VaultOf[z] \in Vaults
  /\ \A a \in Adapters : VaultFor[a] \in Vaults /\ (a = Direct \/ a \in OApps)
BY AdaptersAssumption, DirectConstants, OAppConstants DEF VaultFor

-----------------------------------------------------------------------------
(* The direct adapter. *)
LEMMA RequestFundingMoves ==
  ASSUME IInv, NEW id \in Originations, RequestFunding(id, obligations[id]),
         UNCHANGED <<obligations, vaultVars, oappVars>>
  PROVE  Move /\ DirectTypeOK'
<1> DEFINE r == [state |-> "PENDING", terms |-> obligations[id],
                 transportId |-> NoTransport]
<1>1. /\ id \in OriginationIds /\ obligations[id] \in Terms
      /\ requests \in [OriginationIds -> Request \cup {NoRequest}]
      /\ usedTransportIds \subseteq References /\ relayerAuthorized \in BOOLEAN
  BY DEF IInv, SettlementTypeOK, ObligationsTypeOK, Originations, DirectTypeOK
<1>2. r \in Request /\ r.state = "PENDING" /\ r.terms = obligations[id]
  BY <1>1 DEF Request, Status
<1>3. /\ requests[id].state = "NONE"
      /\ requests' = [requests EXCEPT ![id] = r]
      /\ relayerAuthorized' = relayerAuthorized /\ usedTransportIds' = usedTransportIds
  BY DEF RequestFunding
<1> HIDE DEF r
<1>4. DirectTypeOK'
  BY <1>1, <1>2, <1>3 DEF DirectTypeOK
<1>5. oappRequests' = oappRequests /\ deployment' = deployment
      /\ vaultVars' = vaultVars /\ obligations' = obligations
  BY DEF oappVars
<1>6. RequestBecomes(Direct, id, r)
  BY <1>1, <1>3, <1>5, DirectBecomes
<1>7. requests[id] = NoRequest
  BY <1>1, <1>3 DEF Request, Status
<1>8. Asked(Direct, id, r)
  BY <1>2, <1>5, <1>7 DEF Asked, RequestIn
<1>9. r \in AnyRequest
  BY <1>2 DEF AnyRequest
<1>10. RequestMove
  BY <1>1, <1>5, <1>6, <1>8, <1>9, Places DEF RequestMove
<1> QED BY <1>4, <1>5, <1>10 DEF Move

LEMMA DirectOutcome ==
  ASSUME NEW r \in Request, NEW s \in Status \ {"NONE"}, NEW t \in References
  PROVE  LET q == [[r EXCEPT !.state = s] EXCEPT !.transportId = t]
         IN  q \in Request /\ q.state = s /\ q.terms = r.terms
BY DEF Request

LEMMA AttemptFundMoves ==
  ASSUME IInv, NEW id \in OriginationIds, NEW t \in References,
         requests[id].state \in {"PENDING", "FAILED"},
         AttemptFund(id, t), UNCHANGED <<obligations, oappVars>>
  PROVE  Move /\ DirectTypeOK' /\ VaultTypeOK'
<1>1. /\ requests \in [OriginationIds -> Request \cup {NoRequest}] /\ VaultTypeOK
      /\ usedTransportIds \subseteq References /\ relayerAuthorized \in BOOLEAN
  BY DEF IInv, SettlementTypeOK, DirectTypeOK
<1>2. requests[id] \in Request /\ requests[id].terms \in Terms
  BY <1>1 DEF NoRequest, Request
<1>3. /\ relayerAuthorized' = relayerAuthorized /\ deployment' = deployment
      /\ oappRequests' = oappRequests /\ obligations' = obligations
  BY DEF AttemptFund, oappVars
<1>4. ASSUME NEW s \in {"FUNDED", "FAILED"},
             requests' = [requests EXCEPT ![id].state = s, ![id].transportId = t],
             usedTransportIds' \subseteq References
      PROVE  \E r \in AnyRequest :
               /\ r.state = s /\ r.terms = requests[id].terms
               /\ RequestBecomes(Direct, id, r) /\ DirectTypeOK'
  <2> DEFINE r == [[requests[id] EXCEPT !.state = s] EXCEPT !.transportId = t]
  <2>1. r \in Request /\ r.state = s /\ r.terms = requests[id].terms
    BY <1>2, DirectOutcome DEF Status
  <2>2. requests' = [requests EXCEPT ![id] = r]
    BY <1>1, <1>4
  <2> HIDE DEF r
  <2>3. RequestBecomes(Direct, id, r)
    BY <1>1, <1>3, <2>2, DirectBecomes
  <2>4. DirectTypeOK'
    BY <1>1, <1>3, <1>4, <2>1, <2>2 DEF DirectTypeOK
  <2> QED BY <2>1, <2>3, <2>4 DEF AnyRequest
<1>5. RequestIn(requests, oappRequests, Direct, id) = requests[id]
  BY DEF RequestIn
<1>6. CASE AttemptPays(id, t)
  <2>1. PICK r \in AnyRequest :
          /\ r.state = "FUNDED" /\ r.terms = requests[id].terms
          /\ RequestBecomes(Direct, id, r) /\ DirectTypeOK'
    BY <1>1, <1>4, <1>6 DEF AttemptPays
  <2>2. Fund(DirectVault, Direct, id, requests[id].terms, t)
    BY <1>6 DEF AttemptPays
  <2>3. VaultTypeOK'
    BY <1>1, <1>2, <2>2, FundTyped, Places
  <2>4. PaidOut(Direct, id, r)
    BY <1>5, <2>1, <2>2, Places DEF PaidOut
  <2>5. RequestMove
    BY <1>3, <2>1, <2>4, Places DEF RequestMove
  <2> QED BY <1>3, <2>1, <2>3, <2>5 DEF Move
<1>7. CASE AttemptFails(id, t)
  <2>1. PICK r \in AnyRequest :
          /\ r.state = "FAILED" /\ r.terms = requests[id].terms
          /\ RequestBecomes(Direct, id, r) /\ DirectTypeOK'
    BY <1>1, <1>4, <1>7 DEF AttemptFails
  <2>2. UNCHANGED vaultVars
    BY <1>7 DEF AttemptFails
  <2>3. Reported(Direct, id, r)
    BY <1>5, <2>1, <2>2 DEF Reported
  <2>4. RequestMove
    BY <1>3, <2>1, <2>3, Places DEF RequestMove
  <2> QED BY <1>1, <1>3, <2>1, <2>2, <2>4, TypesStay DEF Move
<1> QED BY <1>6, <1>7 DEF AttemptFund

LEMMA RelayerMoves ==
  ASSUME IInv, NEW id \in OriginationIds, RelayerStep(id)
  PROVE  Move /\ SettlementTypeOK'
<1>1. /\ UNCHANGED <<obligations, oappVars>> /\ settlementAdapter' = settlementAdapter
      /\ SettlementTypeOK
  BY DEF RelayerStep, IInv
<1>2. requests[id] \in Request \cup {NoRequest}
  BY <1>1 DEF SettlementTypeOK, DirectTypeOK
<1>3. PICK t \in References :
        requests[id].state \in {"PENDING", "FAILED"} /\ AttemptFund(id, t)
  <2>1. ASSUME RelayerRetry(id)
        PROVE  \E t \in References :
                 requests[id].state \in {"PENDING", "FAILED"} /\ AttemptFund(id, t)
    <3>1. /\ requests[id].state = "FAILED" /\ requests[id].transportId # NoTransport
          /\ AttemptFund(id, requests[id].transportId)
      BY <2>1 DEF RelayerRetry
    <3>2. requests[id].transportId \in References
      BY <1>2, <3>1 DEF NoRequest, Request
    <3> QED BY <3>1, <3>2
  <2>2. ASSUME NEW t \in TransportIds, RelayerFund(id, t)
        PROVE  requests[id].state \in {"PENDING", "FAILED"} /\ AttemptFund(id, t)
               /\ t \in References
    BY <2>2 DEF RelayerFund, MayAttempt, References
  <2> QED BY <2>1, <2>2 DEF RelayerStep
<1>4. Move /\ DirectTypeOK' /\ VaultTypeOK'
  BY <1>1, <1>3, AttemptFundMoves
<1> QED BY <1>1, <1>4, TypesStay DEF SettlementTypeOK

-----------------------------------------------------------------------------
(* The OApps. *)
LEMMA OAppOutcome ==
  ASSUME NEW r \in OAppRequest, NEW s \in Status \ {"NONE"}
  PROVE  LET q == [r EXCEPT !.state = s]
         IN  q \in OAppRequest /\ q.state = s /\ q.terms = r.terms
BY DEF OAppRequest

(* A request of an OApp whose state is set. *)
LEMMA StateSet ==
  ASSUME OAppTypeOK, NEW z \in OApps, NEW id \in OriginationIds,
         oappRequests[z][id].state # "NONE", requests' = requests,
         NEW s \in {"PENDING", "FUNDED", "FAILED"},
         oappRequests' = [oappRequests EXCEPT ![z][id].state = s]
  PROVE  /\ oappRequests' \in [OApps -> [OriginationIds -> OAppRequest \cup {NoRequest}]]
         /\ \E r \in AnyRequest :
              /\ r.state = s /\ r.terms = oappRequests[z][id].terms
              /\ RequestBecomes(z, id, r)
<1> DEFINE r == [oappRequests[z][id] EXCEPT !.state = s]
<1>1. /\ oappRequests \in [OApps -> [OriginationIds -> OAppRequest \cup {NoRequest}]]
      /\ oappRequests[z][id] \in OAppRequest
  BY DEF OAppTypeOK, NoRequest
<1>2. r \in OAppRequest /\ r.state = s /\ r.terms = oappRequests[z][id].terms
  BY <1>1, OAppOutcome DEF Status
<1>3. oappRequests' = [oappRequests EXCEPT ![z][id] = r]
  BY <1>1
<1> HIDE DEF r
<1>4. RequestBecomes(z, id, r)
  BY <1>1, <1>3, OAppBecomes
<1> QED BY <1>1, <1>2, <1>3, <1>4 DEF AnyRequest

LEMMA SendFundingMoves ==
  ASSUME IInv, NEW z \in OApps, NEW by, NEW id \in OriginationIds, NEW terms \in Terms,
         NEW digest \in Digests, SendFunding(z, by, id, terms, digest),
         by = Controller => id \in Originations /\ terms = obligations[id],
         UNCHANGED <<obligations, vaultVars, directVars>>
  PROVE  Move /\ OAppTypeOK'
<1> DEFINE r == [state |-> "PENDING", terms |-> terms, digest |-> digest]
           packet == [from |-> z, to |-> deployment[z].destinationPeer,
                      id |-> id, terms |-> terms, digest |-> digest]
           n == Len(packets)
<1>1. /\ deployment \in [OApps -> Deployment]
      /\ oappRequests \in [OApps -> [OriginationIds -> OAppRequest \cup {NoRequest}]]
      /\ guidOrigination \in [OApps -> SUBSET (Guids \X OriginationIds)]
      /\ processedGuids \in [OApps -> SUBSET Guids]
      /\ packets \in Seq(Packet)
  BY DEF IInv, SettlementTypeOK, OAppTypeOK
<1>2. r \in OAppRequest /\ r.state = "PENDING" /\ r.terms = terms /\ r \in AnyRequest
  BY DEF OAppRequest, Status, AnyRequest
<1>3. packet \in Packet
  BY <1>1 DEF Packet, Deployment
<1>4. /\ by = deployment[z].owner
      /\ oappRequests[z][id].state = "NONE" /\ n < MaxSends
      /\ oappRequests' = [oappRequests EXCEPT ![z][id] = r]
      /\ packets' = Append(packets, packet)
      /\ guidOrigination' = [guidOrigination EXCEPT ![z] = @ \cup {<<n + 1, id>>}]
      /\ deployment' = deployment /\ processedGuids' = processedGuids
  BY DEF SendFunding
<1>5. requests' = requests /\ vaultVars' = vaultVars /\ obligations' = obligations
  BY DEF directVars
<1> HIDE DEF r, packet
<1>6. /\ packets' \in Seq(Packet) /\ n \in Nat /\ Len(packets') = n + 1
  BY <1>1, <1>3, <1>4
<1> HIDE DEF n
<1>7. Guids \cup {n + 1} \subseteq Guids'
  BY <1>6 DEF Guids, n
<1>8. guidOrigination' \in [OApps -> SUBSET (Guids' \X OriginationIds)]
  <2> DEFINE G == Guids
             G2 == Guids'
  <2>1. G \cup {n + 1} \subseteq G2 /\ guidOrigination \in [OApps -> SUBSET (G \X OriginationIds)]
    BY <1>1, <1>7
  <2> HIDE DEF G, G2
  <2>2. guidOrigination' \in [OApps -> SUBSET (G2 \X OriginationIds)]
    BY <1>4, <2>1
  <2> QED BY <2>2 DEF G2
<1>9. processedGuids' \in [OApps -> SUBSET Guids']
  BY <1>1, <1>4, <1>7
<1>10. oappRequests' \in [OApps -> [OriginationIds -> OAppRequest \cup {NoRequest}]]
  BY <1>1, <1>2, <1>4
<1>11. Len(packets') <= MaxSends
  BY <1>4, <1>6, MaxSendsAssumption DEF n
<1>12. OAppTypeOK'
  BY <1>1, <1>4, <1>6, <1>8, <1>9, <1>10, <1>11 DEF OAppTypeOK
<1>13. RequestBecomes(z, id, r)
  BY <1>1, <1>4, <1>5, OAppBecomes
<1>14. oappRequests[z][id] = NoRequest
  BY <1>1, <1>4 DEF OAppRequest, Status
<1>15. TakesFromController(z) => by = Controller
  BY <1>4, Places DEF TakesFromController
<1>16. Asked(z, id, r)
  BY <1>2, <1>5, <1>14, <1>15, Places DEF Asked, RequestIn
<1>17. RequestMove
  BY <1>2, <1>5, <1>13, <1>16, Places DEF RequestMove
<1> QED BY <1>4, <1>12, <1>17 DEF Move

LEMMA ReopenMoves ==
  ASSUME IInv, NEW z \in OApps, NEW id \in OriginationIds, OperatorReopens(z, id)
  PROVE  Move /\ SettlementTypeOK'
<1>1. /\ oappRequests[z][id].state = "FAILED"
      /\ oappRequests' = [oappRequests EXCEPT ![z][id].state = "PENDING"]
      /\ UNCHANGED <<obligations, settlementAdapter, vaultVars, directVars>>
      /\ UNCHANGED <<deployment, guidOrigination, processedGuids, packets>>
  BY DEF OperatorReopens, Reopen
<1>2. SettlementTypeOK /\ OAppTypeOK /\ requests' = requests
  BY <1>1 DEF IInv, SettlementTypeOK, directVars
<1>3. oappRequests' \in [OApps -> [OriginationIds -> OAppRequest \cup {NoRequest}]]
  BY <1>1, <1>2, StateSet
<1>4. PICK r \in AnyRequest :
        /\ r.state = "PENDING" /\ r.terms = oappRequests[z][id].terms
        /\ RequestBecomes(z, id, r)
  BY <1>1, <1>2, StateSet
<1>5. OAppTypeOK'
  BY <1>1, <1>2, <1>3 DEF OAppTypeOK, Guids
<1>6. Reported(z, id, r)
  BY <1>1, <1>4, Places DEF Reported, RequestIn
<1>7. RequestMove
  BY <1>1, <1>4, <1>6, Places DEF RequestMove
<1> QED BY <1>1, <1>2, <1>5, <1>7, TypesStay DEF Move, SettlementTypeOK

LEMMA AttemptDeliveryMoves ==
  ASSUME IInv, NEW guid \in Guids, AttemptDelivery(packets[guid].to, guid),
         guidOrigination' \in [OApps -> SUBSET (Guids \X OriginationIds)],
         UNCHANGED <<obligations, settlementAdapter, directVars>>
  PROVE  Move /\ SettlementTypeOK'
<1> DEFINE packet == packets[guid]
           z == packet.to
           id == packet.id
<1>1. SettlementTypeOK /\ OAppTypeOK /\ VaultTypeOK /\ requests' = requests
      /\ obligations' = obligations
  BY DEF IInv, SettlementTypeOK, directVars
<1>2. /\ packets \in Seq(Packet) /\ Len(packets) <= MaxSends /\ Len(packets) \in Nat
      /\ deployment \in [OApps -> Deployment]
      /\ processedGuids \in [OApps -> SUBSET Guids]
  BY <1>1 DEF OAppTypeOK
<1>3. packet \in Packet
  BY <1>2 DEF Guids
<1>4. z \in OApps /\ id \in OriginationIds /\ packet.terms \in Terms
  BY <1>3 DEF Packet
<1>5. guid \in References
  BY <1>2, MaxSendsAssumption DEF Guids, References
<1>6. /\ oappRequests[z][id].state = "PENDING" /\ oappRequests[z][id].terms = packet.terms
      /\ AttemptPaysOut(z, id, packet.terms, guid) \/ AttemptIsRecorded(z, id)
      /\ deployment' = deployment /\ packets' = packets
  BY DEF AttemptDelivery, Matches
<1>7. RequestIn(requests, oappRequests, z, id) = oappRequests[z][id] /\ z \in Adapters
      /\ VaultFor[z] = VaultOf[z] /\ VaultOf[z] \in Vaults
  BY <1>4, Places DEF RequestIn
<1> HIDE DEF packet, z, id
<1>8. ASSUME oappRequests' \in [OApps -> [OriginationIds -> OAppRequest \cup {NoRequest}]],
             processedGuids' \in [OApps -> SUBSET Guids], VaultTypeOK'
      PROVE  SettlementTypeOK'
  <2>1. OAppTypeOK'
    BY <1>2, <1>6, <1>8 DEF OAppTypeOK, Guids
  <2> QED BY <1>1, <1>8, <2>1, TypesStay DEF SettlementTypeOK
<1>9. CASE AttemptPaysOut(z, id, packet.terms, guid)
  <2>1. /\ Fund(VaultOf[z], z, id, packet.terms, guid)
        /\ oappRequests' = [oappRequests EXCEPT ![z][id].state = "FUNDED"]
        /\ processedGuids' = [processedGuids EXCEPT ![z] = @ \cup {guid}]
    BY <1>9 DEF AttemptPaysOut
  <2>2. oappRequests' \in [OApps -> [OriginationIds -> OAppRequest \cup {NoRequest}]]
    BY <1>1, <1>4, <1>6, <2>1, StateSet
  <2>3. PICK r \in AnyRequest :
          /\ r.state = "FUNDED" /\ r.terms = oappRequests[z][id].terms
          /\ RequestBecomes(z, id, r)
    BY <1>1, <1>4, <1>6, <2>1, StateSet
  <2>4. VaultTypeOK'
    BY <1>1, <1>4, <1>5, <1>7, <2>1, FundTyped
  <2>5. processedGuids' \in [OApps -> SUBSET Guids]
    BY <1>2, <2>1
  <2>6. PaidOut(z, id, r)
    BY <1>5, <1>6, <1>7, <2>1, <2>3 DEF PaidOut
  <2>7. RequestMove
    BY <1>1, <1>4, <1>7, <2>3, <2>6 DEF RequestMove
  <2> QED BY <1>6, <1>8, <2>2, <2>4, <2>5, <2>7 DEF Move
<1>10. CASE AttemptIsRecorded(z, id)
  <2>1. /\ oappRequests' = [oappRequests EXCEPT ![z][id].state = "FAILED"]
        /\ vaultVars' = vaultVars /\ processedGuids' = processedGuids
    BY <1>10 DEF AttemptIsRecorded
  <2>2. oappRequests' \in [OApps -> [OriginationIds -> OAppRequest \cup {NoRequest}]]
    BY <1>1, <1>4, <1>6, <2>1, StateSet
  <2>3. PICK r \in AnyRequest :
          /\ r.state = "FAILED" /\ r.terms = oappRequests[z][id].terms
          /\ RequestBecomes(z, id, r)
    BY <1>1, <1>4, <1>6, <2>1, StateSet
  <2>4. Reported(z, id, r)
    BY <1>6, <1>7, <2>1, <2>3 DEF Reported
  <2>5. RequestMove
    BY <1>1, <1>4, <1>7, <2>3, <2>4 DEF RequestMove
  <2> QED BY <1>1, <1>2, <1>6, <1>8, <2>1, <2>2, <2>5, TypesStay DEF Move
<1> QED BY <1>6, <1>9, <1>10

LEMMA EndpointMoves ==
  ASSUME IInv, NEW guid, EndpointStep(guid)
  PROVE  Move /\ SettlementTypeOK'
<1>1. /\ guid \in Guids /\ UNCHANGED <<obligations, settlementAdapter, directVars>>
      /\ AttemptDelivery(packets[guid].to, guid)
      /\ \/ guidOrigination' = [guidOrigination EXCEPT
              ![packets[guid].to] = @ \cup {<<guid, packets[guid].id>>}]
         \/ guidOrigination' = guidOrigination
  BY DEF EndpointStep, LzReceive, Dispatch
<1>2. /\ packets \in Seq(Packet)
      /\ guidOrigination \in [OApps -> SUBSET (Guids \X OriginationIds)]
  BY DEF IInv, SettlementTypeOK, OAppTypeOK
<1>3. packets[guid] \in Packet
  BY <1>1, <1>2 DEF Guids
<1>4. packets[guid].to \in OApps /\ packets[guid].id \in OriginationIds
  BY <1>3 DEF Packet
<1>5. guidOrigination' \in [OApps -> SUBSET (Guids \X OriginationIds)]
  <2> DEFINE G == Guids
             z == packets[guid].to
             id == packets[guid].id
  <2>1. /\ guid \in G /\ z \in OApps /\ id \in OriginationIds
        /\ guidOrigination \in [OApps -> SUBSET (G \X OriginationIds)]
        /\ \/ guidOrigination' = [guidOrigination EXCEPT ![z] = @ \cup {<<guid, id>>}]
           \/ guidOrigination' = guidOrigination
    BY <1>1, <1>2, <1>4
  <2> HIDE DEF G, z, id
  <2>2. guidOrigination' \in [OApps -> SUBSET (G \X OriginationIds)]
    BY <2>1
  <2> QED BY <2>2 DEF G
<1> QED BY <1>1, <1>5, AttemptDeliveryMoves

-----------------------------------------------------------------------------
(* Every step is a move. *)
LEMMA RequestSettlementMoves ==
  ASSUME IInv, NEW id \in OriginationIds, RequestSettlement(id)
  PROVE  Move /\ SettlementTypeOK'
<1>1. /\ id \in Originations /\ SettlementTypeOK
      /\ UNCHANGED <<obligations, settlementAdapter, vaultVars>>
  BY DEF RequestSettlement, IInv
<1>2. CASE RequestFunding(id, obligations[id]) /\ UNCHANGED oappVars
  BY <1>1, <1>2, RequestFundingMoves, TypesStay DEF SettlementTypeOK
<1>3. ASSUME NEW z \in OApps, NEW digest \in Digests, UNCHANGED directVars,
             SendFunding(z, Controller, id, obligations[id], digest)
      PROVE  Move /\ SettlementTypeOK'
  <2>1. obligations[id] \in Terms
    BY <1>1 DEF SettlementTypeOK, ObligationsTypeOK, Originations
  <2>2. Move /\ OAppTypeOK'
    BY <1>1, <1>3, <2>1, SendFundingMoves
  <2> QED BY <1>1, <1>3, <2>2, TypesStay DEF SettlementTypeOK
<1> QED BY <1>2, <1>3 DEF RequestSettlement

LEMMA OperatorSendsMoves ==
  ASSUME IInv, NEW z \in OApps, NEW id \in OriginationIds, OperatorSends(z, id)
  PROVE  Move /\ SettlementTypeOK'
<1>1. PICK terms \in Terms, digest \in Digests : SendFunding(z, Operator, id, terms, digest)
  BY DEF OperatorSends
<1>2. /\ UNCHANGED <<obligations, settlementAdapter, vaultVars, directVars>>
      /\ SettlementTypeOK
  BY DEF OperatorSends, IInv
<1>3. Move /\ OAppTypeOK'
  BY <1>1, <1>2, OAppConstants, SendFundingMoves
<1> QED BY <1>2, <1>3, TypesStay DEF SettlementTypeOK

LEMMA OwnerMoves ==
  ASSUME IInv, OwnerStep
  PROVE  Move /\ SettlementTypeOK'
<1>1. /\ SettlementTypeOK
      /\ UNCHANGED <<obligations, settlementAdapter, oappVars>>
      /\ deployment' = deployment /\ oappRequests' = oappRequests
  BY DEF OwnerStep, IInv, oappVars
<1>2. ASSUME NEW a \in Adapters, SetAuthority(VaultFor[a], a), UNCHANGED directVars
      PROVE  Move /\ SettlementTypeOK'
  <2>1. VaultTypeOK'
    BY <1>1, <1>2 DEF SettlementTypeOK, VaultTypeOK, SetAuthority
  <2>2. AuthorityMove
    BY <1>1, <1>2, Places DEF AuthorityMove, directVars
  <2> QED BY <1>1, <1>2, <2>1, <2>2, TypesStay DEF Move, SettlementTypeOK
<1>3. ASSUME NEW authorized \in BOOLEAN, SetRelayer(authorized), UNCHANGED vaultVars
      PROVE  Move /\ SettlementTypeOK'
  <2>1. DirectTypeOK' /\ requests' = requests
    BY <1>1, <1>3 DEF SetRelayer, SettlementTypeOK, DirectTypeOK
  <2> QED BY <1>1, <1>3, <2>1, TypesStay DEF Move, Quiet, SettlementTypeOK
<1> QED BY <1>2, <1>3 DEF OwnerStep

LEMMA QuietMoves ==
  ASSUME IInv, UNCHANGED <<obligations, vaultVars, directVars, oappVars>>,
         settlementAdapter' \in Adapters \cup {NoAdapter}
  PROVE  Move /\ SettlementTypeOK'
<1>1. SettlementTypeOK
  BY DEF IInv
<1> QED BY <1>1, TypesStay DEF Move, Quiet, SettlementTypeOK, directVars, oappVars

LEMMA OriginationMoves ==
  ASSUME IInv, OriginationStep
  PROVE  Move /\ SettlementTypeOK'
<1>1. /\ ObligationsNext /\ SettlementTypeOK
      /\ UNCHANGED <<settlementAdapter, vaultVars, directVars, oappVars>>
      /\ requests' = requests /\ oappRequests' = oappRequests /\ deployment' = deployment
  BY DEF OriginationStep, IInv, directVars, oappVars
<1>2. ObligationsTypeOK'
  BY <1>1 DEF SettlementTypeOK, ObligationsTypeOK, ObligationsNext, Originated
<1> QED BY <1>1, <1>2, TypesStay DEF Move, ObligationMove, SettlementTypeOK

LEMMA StepMoves ==
  ASSUME IInv, [SettlementNext]_settlementVars
  PROVE  Move /\ SettlementTypeOK'
<1>1. CASE OriginationStep
  BY <1>1, OriginationMoves
<1>2. CASE OwnerStep
  BY <1>2, OwnerMoves
<1>3. ASSUME NEW a \in Adapters, SetSettlementAdapter(a) PROVE Move /\ SettlementTypeOK'
  BY <1>3, QuietMoves DEF SetSettlementAdapter
<1>4. ASSUME NEW id \in OriginationIds, RequestSettlement(id) \/ RelayerStep(id)
      PROVE  Move /\ SettlementTypeOK'
  BY <1>4, RequestSettlementMoves, RelayerMoves
<1>5. ASSUME NEW z \in OApps, NEW id \in OriginationIds,
             OperatorSends(z, id) \/ OperatorReopens(z, id)
      PROVE  Move /\ SettlementTypeOK'
  BY <1>5, OperatorSendsMoves, ReopenMoves
<1>6. ASSUME NEW guid \in 1..MaxSends, EndpointStep(guid) PROVE Move /\ SettlementTypeOK'
  BY <1>6, EndpointMoves
<1>7. CASE UNCHANGED settlementVars
  <2>1. settlementAdapter \in Adapters \cup {NoAdapter}
    BY DEF IInv, SettlementTypeOK
  <2> QED BY <1>7, <2>1, QuietMoves DEF settlementVars
<1> QED BY <1>1, <1>2, <1>3, <1>4, <1>5, <1>6, <1>7 DEF SettlementNext

-----------------------------------------------------------------------------
(* Each move keeps the invariant. *)
Backed(a, id) ==
  TakesFromController(a) =>
    id \in Originations /\ RequestIn(requests, oappRequests, a, id).terms = obligations[id]

Final(a) == authority[VaultFor[a]] = a /\ authorityLocked[VaultFor[a]]

LEMMA InvParts ==
  IInv <=>
    /\ SettlementTypeOK
    /\ PaidAsOriginated
    /\ \A v \in Vaults, id \in OriginationIds : Funded(v, id) => authorityLocked[v]
    /\ \A a \in Adapters, id \in OriginationIds :
         RequestIn(requests, oappRequests, a, id) # NoRequest => Backed(a, id)
    /\ \A a \in Adapters, id \in OriginationIds :
         RequestIn(requests, oappRequests, a, id).state = "FUNDED" => Final(a)
BY RequestOfIs DEF IInv, Backed, Final

LEMMA InvPartsLater ==
  IInv' <=>
    /\ SettlementTypeOK'
    /\ PaidAsOriginated'
    /\ \A v \in Vaults, id \in OriginationIds : Funded(v, id)' => authorityLocked'[v]
    /\ \A a \in Adapters, id \in OriginationIds :
         RequestIn(requests', oappRequests', a, id) # NoRequest => Backed(a, id)'
    /\ \A a \in Adapters, id \in OriginationIds :
         RequestIn(requests', oappRequests', a, id).state = "FUNDED" => Final(a)'
BY RequestOfIs DEF IInv, Backed, Final

LEMMA ObligationKeeps ==
  ASSUME IInv, SettlementTypeOK', ObligationMove, deployment' = deployment
  PROVE  IInv'
<1>1. /\ UNCHANGED <<vaultVars, requests, oappRequests>>
      /\ authority' = authority /\ authorityLocked' = authorityLocked
      /\ funding' = funding
  BY DEF ObligationMove, vaultVars
<1>2. PICK new \in OriginationIds : Originated(new)
  BY DEF ObligationMove, ObligationsNext
<1>3. /\ obligations \in [OriginationIds -> Terms \cup {NoObligation}]
      /\ new \notin Originations
  BY <1>2 DEF Originated, IInv, SettlementTypeOK, ObligationsTypeOK
<1>4. \A id \in Originations : id \in Originations' /\ obligations'[id] = obligations[id]
  BY <1>2, <1>3 DEF Originated, Originations
<1>5. \A a : TakesFromController(a)' <=> TakesFromController(a)
  BY DEF TakesFromController
<1>6. PaidAsOriginated'
  <2>1. \A v \in Vaults, id \in OriginationIds :
          /\ ByController(v)' <=> ByController(v)
          /\ Funded(v, id)' <=> Funded(v, id)
    BY <1>1 DEF ByController, TakesFromController, Funded
  <2> QED BY <1>1, <1>4, <2>1, InvParts DEF PaidAsOriginated
<1>7. \A v \in Vaults, id \in OriginationIds : Funded(v, id)' => authorityLocked'[v]
  BY <1>1, InvParts DEF Funded
<1>8. \A a \in Adapters, id \in OriginationIds :
        RequestIn(requests', oappRequests', a, id) # NoRequest => Backed(a, id)'
  BY <1>1, <1>4, <1>5, InvParts DEF Backed
<1>9. \A a \in Adapters, id \in OriginationIds :
        RequestIn(requests', oappRequests', a, id).state = "FUNDED" => Final(a)'
  BY <1>1, InvParts DEF Final
<1> QED BY <1>6, <1>7, <1>8, <1>9, InvPartsLater

LEMMA AuthorityKeeps ==
  ASSUME IInv, SettlementTypeOK', AuthorityMove, deployment' = deployment
  PROVE  IInv'
<1>1. PICK b \in Adapters, w \in Vaults : SetAuthority(w, b)
  BY DEF AuthorityMove
<1>2. /\ requests' = requests /\ oappRequests' = oappRequests
      /\ obligations' = obligations /\ Originations' = Originations
      /\ authorityLocked' = authorityLocked /\ funding' = funding
      /\ ~authorityLocked[w]
      /\ authority' = [authority EXCEPT ![w] = b]
  BY <1>1 DEF AuthorityMove, SetAuthority, Originations
<1>3. \A v \in Vaults : authorityLocked[v] => authority'[v] = authority[v]
  BY <1>2 DEF IInv, SettlementTypeOK, VaultTypeOK
<1>4. \A a : TakesFromController(a)' <=> TakesFromController(a)
  BY DEF TakesFromController
<1>5. \A v \in Vaults, id \in OriginationIds :
        /\ Funded(v, id)' <=> Funded(v, id)
        /\ Funded(v, id) => authorityLocked[v]
  BY <1>2, InvParts DEF Funded
<1>6. PaidAsOriginated'
  <2>1. \A v \in Vaults : authorityLocked[v] => (ByController(v)' <=> ByController(v))
    BY <1>3 DEF ByController, TakesFromController
  <2> QED BY <1>2, <1>5, <2>1, InvParts DEF PaidAsOriginated
<1>7. \A a \in Adapters, id \in OriginationIds :
        RequestIn(requests', oappRequests', a, id) # NoRequest => Backed(a, id)'
  BY <1>2, <1>4, InvParts DEF Backed
<1>8. \A a \in Adapters, id \in OriginationIds :
        RequestIn(requests', oappRequests', a, id).state = "FUNDED" => Final(a)'
  BY <1>2, <1>3, InvParts, Places DEF Final
<1> QED BY <1>2, <1>5, <1>6, <1>7, <1>8, InvPartsLater

(* A request is asked, reports or is paid. *)
LEMMA RequestKeeps ==
  ASSUME IInv, SettlementTypeOK', RequestMove, deployment' = deployment
  PROVE  IInv'
<1>1. PICK a \in Adapters, id \in OriginationIds, r \in AnyRequest :
        /\ RequestBecomes(a, id, r)
        /\ Asked(a, id, r) \/ Reported(a, id, r) \/ PaidOut(a, id, r)
        /\ UNCHANGED obligations
  BY DEF RequestMove
<1> DEFINE Old(b, other) == RequestIn(requests, oappRequests, b, other)
           New(b, other) == RequestIn(requests', oappRequests', b, other)
           old == Old(a, id)
<1>2. \A b \in Adapters, other \in OriginationIds :
        New(b, other) = IF b = a /\ other = id THEN r ELSE Old(b, other)
  BY <1>1 DEF RequestBecomes
<1>3. /\ \A b \in Adapters, other \in OriginationIds :
           Old(b, other) # NoRequest => Backed(b, other)
      /\ \A b \in Adapters, other \in OriginationIds :
           Old(b, other).state = "FUNDED" => Final(b)
      /\ PaidAsOriginated
      /\ \A v \in Vaults, other \in OriginationIds :
           Funded(v, other) => authorityLocked[v]
  BY InvParts
<1>4. obligations' = obligations /\ Originations' = Originations
  BY <1>1 DEF Originations
<1>5. \A b : TakesFromController(b)' <=> TakesFromController(b)
  BY DEF TakesFromController
<1>6. old.state \in {"PENDING", "FAILED"} => old # NoRequest
  BY DEF NoRequest
<1>7. Old(a, id) = old /\ New(a, id) = r
  BY <1>2
<1> HIDE DEF Old, New, old
<1>8. TakesFromController(a) => id \in Originations /\ r.terms = obligations[id]
  BY <1>1, <1>3, <1>6, <1>7 DEF Asked, Reported, PaidOut, Backed, old, Old
<1>9. \A b \in Adapters, other \in OriginationIds : New(b, other) # NoRequest => Backed(b, other)'
  BY <1>2, <1>3, <1>4, <1>5, <1>8 DEF Backed, Old, New
<1>10. CASE PaidOut(a, id, r)
  <2>1. PICK t \in References : Fund(VaultFor[a], a, id, old.terms, t)
    BY <1>10 DEF PaidOut, old, Old
  <2> DEFINE v == VaultFor[a]
             p == [terms |-> old.terms, transportId |-> t]
  <2>2. /\ v \in Vaults /\ authority[v] = a
        /\ funding' = [funding EXCEPT ![v][id] = p]
        /\ authorityLocked' = [authorityLocked EXCEPT ![v] = TRUE]
        /\ authority' = authority /\ p.terms = r.terms
    BY <1>10, <2>1, Places DEF Fund, MayFund, PaidOut, old, Old
  <2>3. /\ funding \in [Vaults -> [OriginationIds -> Payment \cup {NoPayment}]]
        /\ authorityLocked \in [Vaults -> BOOLEAN]
    BY DEF IInv, SettlementTypeOK, VaultTypeOK
  <2> HIDE DEF v, p
  <2>4. \A w \in Vaults, other \in OriginationIds :
          funding'[w][other] = IF w = v /\ other = id THEN p ELSE funding[w][other]
    BY <2>2, <2>3
  <2>5. \A w \in Vaults : (authorityLocked[w] => authorityLocked'[w]) /\ authorityLocked'[v]
    BY <2>2, <2>3
  <2>6. \A w \in Vaults, other \in OriginationIds : Funded(w, other)' => authorityLocked'[w]
    BY <1>3, <2>4, <2>5 DEF Funded
  <2>7. \A w \in Vaults : ByController(w)' <=> ByController(w)
    BY <1>5, <2>2 DEF ByController
  <2>8. ByController(v) => TakesFromController(a)
    BY <2>2 DEF ByController
  <2>9. PaidAsOriginated'
    BY <1>3, <1>4, <1>8, <2>2, <2>4, <2>7, <2>8 DEF PaidAsOriginated, Funded
  <2>10. \A b \in Adapters, other \in OriginationIds :
           New(b, other).state = "FUNDED" => Final(b)'
    BY <1>2, <1>3, <2>2, <2>5, Places DEF Final, v
  <2> QED BY <1>9, <2>6, <2>9, <2>10, InvPartsLater DEF New
<1>11. CASE Asked(a, id, r) \/ Reported(a, id, r)
  <2>1. /\ r.state # "FUNDED"
        /\ authority' = authority /\ authorityLocked' = authorityLocked
        /\ funding' = funding
    BY <1>11 DEF Asked, Reported, vaultVars
  <2>2. \A w \in Vaults, other \in OriginationIds : Funded(w, other)' => authorityLocked'[w]
    BY <1>3, <2>1 DEF Funded
  <2>3. PaidAsOriginated'
    BY <1>3, <1>4, <1>5, <2>1 DEF PaidAsOriginated, Funded, ByController
  <2>4. \A b \in Adapters, other \in OriginationIds :
          New(b, other).state = "FUNDED" => Final(b)'
    BY <1>2, <1>3, <2>1 DEF Final
  <2> QED BY <1>9, <2>2, <2>3, <2>4, InvPartsLater DEF New
<1> QED BY <1>1, <1>10, <1>11

LEMMA QuietKeeps ==
  ASSUME IInv, SettlementTypeOK', Quiet, deployment' = deployment
  PROVE  IInv'
<1>1. /\ requests' = requests /\ oappRequests' = oappRequests
      /\ obligations' = obligations /\ authority' = authority
      /\ authorityLocked' = authorityLocked /\ funding' = funding
  BY DEF Quiet, vaultVars
<1> QED BY <1>1 DEF IInv, PaidAsOriginated, ByController, TakesFromController, Funded,
                    RequestOf, StatusOf, Originations

LEMMA InitInv == ASSUME SettlementInit PROVE IInv
<1>1. /\ obligations = [id \in OriginationIds |-> NoObligation]
      /\ settlementAdapter = NoAdapter
      /\ authority = [v \in Vaults |-> NoAdapter]
      /\ authorityLocked = [v \in Vaults |-> FALSE]
      /\ funding = [v \in Vaults |-> [id \in OriginationIds |-> NoPayment]]
      /\ relayerAuthorized = FALSE /\ usedTransportIds = {}
      /\ requests = [id \in OriginationIds |-> NoRequest]
      /\ deployment \in Deployments
      /\ oappRequests = [z \in OApps |-> [id \in OriginationIds |-> NoRequest]]
      /\ guidOrigination = [z \in OApps |-> {}] /\ processedGuids = [z \in OApps |-> {}]
      /\ packets = <<>>
  BY DEF SettlementInit, ObligationsInit, VaultInit, DirectInit, OAppInit
<1>2. SettlementTypeOK
  <2>1. ObligationsTypeOK /\ VaultTypeOK /\ DirectTypeOK
    BY <1>1 DEF ObligationsTypeOK, VaultTypeOK, DirectTypeOK
  <2>2. OAppTypeOK
    BY <1>1, OAppConstants, MaxSendsAssumption DEF OAppTypeOK
  <2> QED BY <1>1, <2>1, <2>2 DEF SettlementTypeOK
<1>3. \A v \in Vaults, id \in OriginationIds : ~Funded(v, id)
  BY <1>1 DEF Funded
<1>4. \A a \in Adapters, id \in OriginationIds :
        RequestIn(requests, oappRequests, a, id) = NoRequest
  BY <1>1, Places DEF RequestIn
<1>5. NoRequest.state # "FUNDED"
  BY DEF NoRequest
<1> QED BY <1>2, <1>3, <1>4, <1>5, InvParts DEF PaidAsOriginated

LEMMA StepInv == ASSUME IInv, [SettlementNext]_settlementVars PROVE IInv'
<1>1. Move /\ SettlementTypeOK'
  BY StepMoves
<1> QED BY <1>1, RequestKeeps, AuthorityKeeps, ObligationKeeps, QuietKeeps DEF Move

(* Whatever controller, owners, relayers, operator and endpoint do, in any  *)
(* order, the invariant of settlement holds.                                *)
THEOREM Invariance == SettlementSpec => []IInv
<1>1. SettlementInit => IInv
  BY InitInv
<1>2. IInv /\ [SettlementNext]_settlementVars => IInv'
  BY StepInv
<1> QED BY <1>1, <1>2, PTL DEF SettlementSpec

(* The state of vaults, adapters and messages keeps its type. *)
THEOREM TypeCorrect == SettlementSpec => []SettlementTypeOK
<1>1. IInv => SettlementTypeOK
  BY DEF IInv
<1> QED BY <1>1, Invariance, PTL

(* SettlementVault.fund, through either adapter: a vault whose authority     *)
(* takes its requests from the controller has paid only what was originated, *)
(* to its borrower.                                                          *)
THEOREM PaysAsOriginated == SettlementSpec => []PaidAsOriginated
<1>1. IInv => PaidAsOriginated
  BY DEF IInv
<1> QED BY <1>1, Invariance, PTL

-----------------------------------------------------------------------------
(* The refinement of PayOnce. *)
Orders(direct, oapp) ==
  [a \in Adapters |-> [id \in OriginationIds |-> Stripped(RequestIn(direct, oapp, a, id))]]

Payments(given) ==
  [v \in Vaults |-> [id \in OriginationIds |->
     IF given[v][id] # NoPayment THEN given[v][id].terms ELSE NoPayment]]

LEMMA PromiseSteps ==
  ASSUME NEW a \in Adapters, NEW id \in OriginationIds
  PROVE  LET orders == Orders(requests, oappRequests)
             orders2 == Orders(requests', oappRequests')
             payments == Payments(funding)
             payments2 == Payments(funding')
         IN
  /\ Promise!Ask(a, id) <=>
       /\ orders[a][id].state = "NONE"
       /\ \E terms \in Terms :
            orders2 = [orders EXCEPT ![a][id] = [state |-> "PENDING", terms |-> terms]]
       /\ payments2 = payments
  /\ Promise!Fail(a, id) <=>
       /\ orders[a][id].state \in {"PENDING", "FAILED"}
       /\ orders2 = [orders EXCEPT ![a][id].state = "FAILED"]
       /\ payments2 = payments
  /\ Promise!TryAgain(a, id) <=>
       /\ orders[a][id].state = "FAILED"
       /\ orders2 = [orders EXCEPT ![a][id].state = "PENDING"]
       /\ payments2 = payments
  /\ Promise!Pay(a, id) <=>
       /\ orders[a][id].state \in {"PENDING", "FAILED"}
       /\ payments[VaultFor[a]][id] = NoPayment
       /\ \A b \in Adapters \ {a}, other \in OriginationIds :
            VaultFor[b] = VaultFor[a] => orders[b][other].state # "FUNDED"
       /\ orders2 = [orders EXCEPT ![a][id].state = "FUNDED"]
       /\ payments2 = [payments EXCEPT ![VaultFor[a]][id] = orders[a][id].terms]
<1>1. Promise!Terms = Terms
  BY DEF Promise!Terms, Terms, Promise!Uint, Uint
<1> QED BY <1>1 DEF Promise!Ask, Promise!Fail, Promise!TryAgain, Promise!Pay,
                    Orders, Payments, RequestOf, RequestIn, Funded

LEMMA OrdersBecome ==
  ASSUME NEW a \in Adapters, NEW id \in OriginationIds, NEW r, RequestBecomes(a, id, r)
  PROVE  Orders(requests', oappRequests')
           = [Orders(requests, oappRequests) EXCEPT ![a][id] = Stripped(r)]
<1> DEFINE New(b, other) == RequestIn(requests', oappRequests', b, other)
           Old(b, other) == RequestIn(requests, oappRequests, b, other)
<1>1. \A b \in Adapters, other \in OriginationIds :
        New(b, other) = IF b = a /\ other = id THEN r ELSE Old(b, other)
  BY DEF RequestBecomes
<1>2. /\ Orders(requests, oappRequests)
           = [b \in Adapters |-> [other \in OriginationIds |-> Stripped(Old(b, other))]]
      /\ Orders(requests', oappRequests')
           = [b \in Adapters |-> [other \in OriginationIds |-> Stripped(New(b, other))]]
  BY DEF Orders
<1> HIDE DEF New, Old
<1> QED BY <1>1, <1>2

LEMMA StripsTo ==
  ASSUME NEW old \in AnyRequest, NEW r \in AnyRequest, r.terms = old.terms
  PROVE  /\ Stripped(r) = [Stripped(old) EXCEPT !.state = r.state]
         /\ Stripped(old).state = old.state /\ Stripped(old).terms = old.terms
<1>1. /\ Stripped(r) = [state |-> r.state, terms |-> old.terms]
      /\ Stripped(old) = [state |-> old.state, terms |-> old.terms]
  BY RequestShape
<1> QED BY <1>1

LEMMA PaymentsBecome ==
  ASSUME VaultTypeOK, NEW v \in Vaults, NEW a, NEW id \in OriginationIds, NEW terms \in Terms,
         NEW t \in References, Fund(v, a, id, terms, t)
  PROVE  Payments(funding') = [Payments(funding) EXCEPT ![v][id] = terms]
<1> DEFINE p == [terms |-> terms, transportId |-> t]
<1>1. p \in Payment /\ p.terms = terms
  BY DEF Payment
<1>2. funding' = [funding EXCEPT ![v][id] = p]
  BY DEF Fund
<1> HIDE DEF p
<1>3. p # NoPayment
  BY <1>1, NoPaymentAssumption
<1>4. \A w \in Vaults, other \in OriginationIds :
        funding'[w][other] = IF w = v /\ other = id THEN p ELSE funding[w][other]
  BY <1>2 DEF VaultTypeOK
<1> DEFINE Given(w, other) ==
             IF funding[w][other] # NoPayment THEN funding[w][other].terms ELSE NoPayment
           Given2(w, other) ==
             IF funding'[w][other] # NoPayment THEN funding'[w][other].terms ELSE NoPayment
<1>5. \A w \in Vaults, other \in OriginationIds :
        Given2(w, other) = IF w = v /\ other = id THEN terms ELSE Given(w, other)
  BY <1>1, <1>3, <1>4
<1>6. /\ Payments(funding') = [w \in Vaults |-> [other \in OriginationIds |-> Given2(w, other)]]
      /\ Payments(funding) = [w \in Vaults |-> [other \in OriginationIds |-> Given(w, other)]]
  BY DEF Payments
<1> HIDE DEF Given, Given2
<1> DEFINE Row(w) == [other \in OriginationIds |-> Given(w, other)]
           Row2(w) == [other \in OriginationIds |-> Given2(w, other)]
<1>7. \A w \in Vaults \ {v} : Row2(w) = Row(w)
  BY <1>5
<1>8. Row2(v) = [Row(v) EXCEPT ![id] = terms]
  BY <1>5
<1>9. /\ Payments(funding') = [w \in Vaults |-> Row2(w)]
      /\ Payments(funding) = [w \in Vaults |-> Row(w)]
  BY <1>6
<1> HIDE DEF Row, Row2
<1> QED BY <1>7, <1>8, <1>9

(* Each step of settlement is one of the promise, or stutters. *)
LEMMA RequestRefines ==
  ASSUME IInv, RequestMove
  PROVE  Promise!PayNext
<1>1. PICK a \in Adapters, id \in OriginationIds, r \in AnyRequest :
        /\ RequestBecomes(a, id, r)
        /\ Asked(a, id, r) \/ Reported(a, id, r) \/ PaidOut(a, id, r)
  BY DEF RequestMove
<1> DEFINE old == RequestIn(requests, oappRequests, a, id)
           orders == Orders(requests, oappRequests)
           orders2 == Orders(requests', oappRequests')
           payments == Payments(funding)
           payments2 == Payments(funding')
<1>2. /\ orders2 = [orders EXCEPT ![a][id] = Stripped(r)]
      /\ orders[a][id] = Stripped(old)
  <2>1. orders2 = [orders EXCEPT ![a][id] = Stripped(r)]
    BY <1>1, OrdersBecome
  <2>2. orders[a][id] = Stripped(old)
    BY DEF Orders
  <2> QED BY <2>1, <2>2
<1>3. orders = [b \in Adapters |-> [other \in OriginationIds |-> orders[b][other]]]
  BY DEF Orders
<1>4. \A b \in Adapters, other \in OriginationIds :
        orders[b][other].state = "FUNDED" => Final(b)
  <2>1. ASSUME NEW b \in Adapters, NEW other \in OriginationIds,
               orders[b][other].state = "FUNDED"
        PROVE  Final(b)
    <3> DEFINE request == RequestIn(requests, oappRequests, b, other)
    <3>1. orders[b][other] = Stripped(request)
      BY DEF Orders
    <3>2. request \in AnyRequest \cup {NoRequest}
      BY RequestTyped DEF IInv
    <3>3. request # NoRequest
      BY <2>1, <3>1 DEF Stripped, NoRequest
    <3>4. request.state = "FUNDED"
      BY <2>1, <3>1, <3>2, <3>3, RequestShape
    <3> QED BY <3>4, InvParts
  <2> QED BY <2>1
<1>5. old \in AnyRequest \cup {NoRequest}
  BY RequestTyped DEF IInv
<1>6. CASE Asked(a, id, r)
  <2>1. /\ old = NoRequest /\ r.state = "PENDING" /\ payments2 = payments
    BY <1>6 DEF Asked, vaultVars
  <2>2. Stripped(old).state = "NONE"
    BY <2>1 DEF Stripped, NoRequest
  <2>3. Stripped(r) = [state |-> "PENDING", terms |-> r.terms] /\ r.terms \in Terms
    BY <1>1, <2>1, RequestShape
  <2> HIDE DEF old, orders, orders2, payments, payments2
  <2>4. /\ orders[a][id].state = "NONE" /\ payments2 = payments
        /\ \E terms \in Terms :
             orders2 = [orders EXCEPT ![a][id] = [state |-> "PENDING", terms |-> terms]]
    BY <1>2, <2>1, <2>2, <2>3
  <2>5. Promise!Ask(a, id)
    BY <2>4, PromiseSteps DEF orders, orders2, payments, payments2
  <2> QED BY <2>5 DEF Promise!PayNext
<1>7. CASE Reported(a, id, r)
  <2>1. /\ r.terms = old.terms /\ payments2 = payments
        /\ \/ old.state \in {"PENDING", "FAILED"} /\ r.state = "FAILED"
           \/ old.state = "FAILED" /\ r.state = "PENDING"
    BY <1>7 DEF Reported, vaultVars
  <2>2. old \in AnyRequest
    BY <1>5, <2>1 DEF NoRequest
  <2>3. /\ Stripped(r) = [Stripped(old) EXCEPT !.state = r.state]
        /\ Stripped(old).state = old.state
    BY <1>1, <2>1, <2>2, StripsTo
  <2> HIDE DEF old, orders, orders2, payments, payments2
  <2>4. orders2 = [orders EXCEPT ![a][id].state = r.state]
    BY <1>2, <1>3, <2>3
  <2>5. CASE old.state \in {"PENDING", "FAILED"} /\ r.state = "FAILED"
    <3>1. /\ orders[a][id].state \in {"PENDING", "FAILED"}
          /\ orders2 = [orders EXCEPT ![a][id].state = "FAILED"]
          /\ payments2 = payments
      BY <1>2, <2>1, <2>3, <2>4, <2>5
    <3>2. Promise!Fail(a, id)
      BY <3>1, PromiseSteps DEF orders, orders2, payments, payments2
    <3> QED BY <3>2 DEF Promise!PayNext
  <2>6. CASE old.state = "FAILED" /\ r.state = "PENDING"
    <3>1. /\ orders[a][id].state = "FAILED"
          /\ orders2 = [orders EXCEPT ![a][id].state = "PENDING"]
          /\ payments2 = payments
      BY <1>2, <2>1, <2>3, <2>4, <2>6
    <3>2. Promise!TryAgain(a, id)
      BY <3>1, PromiseSteps DEF orders, orders2, payments, payments2
    <3> QED BY <3>2 DEF Promise!PayNext
  <2> QED BY <2>1, <2>5, <2>6
<1>8. CASE PaidOut(a, id, r)
  <2>1. /\ r.terms = old.terms /\ r.state = "FUNDED"
        /\ old.state \in {"PENDING", "FAILED"}
    BY <1>8 DEF PaidOut
  <2>2. PICK t \in References : Fund(VaultFor[a], a, id, old.terms, t)
    BY <1>8 DEF PaidOut
  <2>3. old \in AnyRequest /\ old.terms \in Terms
    BY <1>5, <2>1, RequestShape DEF NoRequest
  <2>4. /\ Stripped(r) = [Stripped(old) EXCEPT !.state = "FUNDED"]
        /\ Stripped(old).state = old.state /\ Stripped(old).terms = old.terms
    BY <1>1, <2>1, <2>3, StripsTo
  <2>5. /\ authority[VaultFor[a]] = a /\ ~Funded(VaultFor[a], id)
        /\ VaultFor[a] \in Vaults
    BY <2>2, Places DEF Fund, MayFund
  <2>6. payments2 = [payments EXCEPT ![VaultFor[a]][id] = old.terms]
    <3>1. VaultTypeOK
      BY DEF IInv, SettlementTypeOK
    <3> QED BY <2>2, <2>3, <2>5, <3>1, PaymentsBecome
  <2>7. payments[VaultFor[a]][id] = NoPayment
    BY <2>5 DEF Payments, Funded
  <2>8. \A b \in Adapters \ {a}, other \in OriginationIds :
          VaultFor[b] = VaultFor[a] => orders[b][other].state # "FUNDED"
    BY <1>4, <2>5 DEF Final
  <2> HIDE DEF old, orders, orders2, payments, payments2
  <2>9. orders2 = [orders EXCEPT ![a][id].state = "FUNDED"]
    BY <1>2, <1>3, <2>4
  <2>10. /\ orders[a][id].state \in {"PENDING", "FAILED"}
         /\ payments2 = [payments EXCEPT ![VaultFor[a]][id] = orders[a][id].terms]
    BY <1>2, <2>1, <2>4, <2>6
  <2>11. Promise!Pay(a, id)
    BY <2>7, <2>8, <2>9, <2>10, PromiseSteps DEF orders, orders2, payments, payments2
  <2> QED BY <2>11 DEF Promise!PayNext
<1> QED BY <1>1, <1>6, <1>7, <1>8

LEMMA MoveRefines ==
  ASSUME IInv, Move
  PROVE  \/ Promise!PayNext
         \/ /\ Orders(requests', oappRequests') = Orders(requests, oappRequests)
            /\ Payments(funding') = Payments(funding)
<1>1. CASE RequestMove
  BY <1>1, RequestRefines
<1>2. CASE AuthorityMove \/ ObligationMove \/ Quiet
  <2>1. requests' = requests /\ oappRequests' = oappRequests /\ funding' = funding
    BY <1>2 DEF AuthorityMove, SetAuthority, ObligationMove, Quiet, vaultVars
  <2> QED BY <2>1
<1> QED BY <1>1, <1>2 DEF Move

(* Settlement implements PayOnce: each adapter takes one request per         *)
(* origination, a request reports FUNDED only when its vault has paid it,    *)
(* and no vault pays an origination twice or for two adapters.               *)
THEOREM EachPaidOnce == SettlementSpec => PaysOnce
<1>1. SettlementInit => Promise!PayInit
  <2>1. SUFFICES ASSUME SettlementInit PROVE Promise!PayInit
    OBVIOUS
  <2>2. /\ requests = [id \in OriginationIds |-> NoRequest]
        /\ oappRequests = [z \in OApps |-> [id \in OriginationIds |-> NoRequest]]
        /\ funding = [v \in Vaults |-> [id \in OriginationIds |-> NoPayment]]
    BY <2>1 DEF SettlementInit, VaultInit, DirectInit, OAppInit
  <2>3. \A a \in Adapters, id \in OriginationIds :
          Stripped(RequestOf(a, id)) = Promise!NoRequest
    BY <2>2, Places DEF RequestOf, Stripped, NoRequest, Promise!NoRequest
  <2>4. \A v \in Vaults, id \in OriginationIds : ~Funded(v, id)
    BY <2>2 DEF Funded
  <2> QED BY <2>3, <2>4 DEF Promise!PayInit
<1>2. IInv /\ [SettlementNext]_settlementVars => [Promise!PayNext]_(Promise!payVars)
  <2>1. SUFFICES ASSUME IInv, [SettlementNext]_settlementVars
                 PROVE  [Promise!PayNext]_(Promise!payVars)
    OBVIOUS
  <2>2. \/ Promise!PayNext
        \/ /\ Orders(requests', oappRequests') = Orders(requests, oappRequests)
           /\ Payments(funding') = Payments(funding)
    BY <2>1, StepMoves, MoveRefines
  <2> QED BY <2>2 DEF Promise!payVars, Orders, Payments, RequestIn, RequestOf, Funded
<1> QED BY <1>1, <1>2, Invariance, PTL DEF SettlementSpec, PaysOnce, Promise!PayOnceSpec
=============================================================================
