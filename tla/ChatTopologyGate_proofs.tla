----------------------- MODULE ChatTopologyGate_proofs -----------------------
(***************************************************************************)
(* Proofs about ChatTopologyGate: types, cached lists that are true, a     *)
(* closed gate that hides, a gate that opens only with proof, and a first  *)
(* /sync after it that brings every hidden room whole.                     *)
(*                                                                         *)
(* None of the properties is inductive: each speaks of a moment (a list in *)
(* the cache, a response that is sent) that earlier steps of the request   *)
(* prepare.  The invariant says what holds on the way there: of a list     *)
(* that is half read, of the rooms a request started from, of a build that *)
(* has been read and not compared yet, of a marker that is still to be     *)
(* consumed.  It is the conjunction of Types, EvidenceInv, ListInv,        *)
(* HideInv and DueInv, and each has a lemma per action or group of actions *)
(* that may disturb it and a frame lemma for the others.                   *)
(***************************************************************************)
EXTENDS ChatTopologyGate, TLAPS

(* TypeOK, by the part of the module the variables belong to. *)
EventTypes ==
  /\ joined \in [Users -> SUBSET Rooms]
  /\ topology \in [Rooms -> Maybe(BOOLEAN)]
  /\ pending \in [Rooms -> Nat]

GateTypes ==
  /\ published \in Maybe(Builds) /\ threshold \in Maybe(Builds) /\ inTtl \in BOOLEAN
  /\ capability \in [Devices -> Maybe(Builds)] /\ markers \subseteq Devices
  /\ build \in [Devices -> [Kinds -> Maybe(Builds)]]
  /\ answers \in [Devices -> [Kinds -> SUBSET Maybe(Builds)]]
  /\ reported \in [Devices -> SUBSET Builds] /\ offered \subseteq Builds
  /\ due \subseteq Devices

ListTypes ==
  /\ cache \in [Users -> Maybe(SUBSET Rooms)]
  /\ tainted \in [Users -> SUBSET Rooms]
  /\ todo \in [Devices -> SUBSET Rooms]
  /\ found \in [Devices -> SUBSET Rooms]
  /\ late \in [Devices -> SUBSET Rooms]

RequestTypes ==
  /\ since \subseteq Devices
  /\ newer \in [Devices -> SUBSET Rooms]
  /\ parted \in [Devices -> SUBSET Rooms]
  /\ pc \in [Devices -> [Kinds -> Pcs]]
  /\ passed \in [Devices -> BOOLEAN]
  /\ snapshot \in [Devices -> SUBSET Rooms]
  /\ recent \in [Devices -> SUBSET Rooms]
  /\ beside \in [Devices -> SUBSET Rooms]
  /\ excluded \in [Devices -> SUBSET Rooms]
  /\ forced \in [Devices -> SUBSET Rooms]
  /\ odd \in [Devices -> SUBSET Rooms]

Types == EventTypes /\ GateTypes /\ ListTypes /\ RequestTypes

LEMMA TypesAreTypeOK == (TypeOK <=> Types) /\ (TypeOK' <=> Types')
<1>1. TypeOK <=> Types
  BY DEF TypeOK, Types, EventTypes, GateTypes, ListTypes, RequestTypes
<1>2. TypeOK' <=> Types'
  BY DEF TypeOK, Types, EventTypes, GateTypes, ListTypes, RequestTypes
<1> QED BY <1>1, <1>2

(* A value that may be absent. *)
LEMMA MaybeFacts ==
  ASSUME NEW S
  PROVE  /\ {} \in Maybe(S)
         /\ \A x \in S : {x} \in Maybe(S)
         /\ \A M \in Maybe(S) : M = {} \/ \E x \in S : M = {x}
         /\ \A M \in Maybe(S) : M \subseteq S
BY DEF Maybe


USE DEF Kinds

-----------------------------------------------------------------------------
(* Each action preserves the types *)

LEMMA PutTypes ==
  ASSUME Types, NEW d \in Devices, NEW b \in Builds, Put(d, b) PROVE Types'
<1> USE MaybeFacts, ConstantsAssumption DEF Put, Goes, Spend
<1>1. EventTypes' BY DEF Types, EventTypes, events
<1>2. GateTypes' BY DEF Types, GateTypes, stored, gate, request, proof
<1>3. ListTypes' BY DEF Types, ListTypes, list
<1>4. RequestTypes' BY DEF Types, RequestTypes, client, request, Pcs
<1> QED BY <1>1, <1>2, <1>3, <1>4 DEF Types

LEMMA MarkTypes ==
  ASSUME Types, NEW d \in Devices, Mark(d) PROVE Types'
<1> USE MaybeFacts, ConstantsAssumption DEF Mark, Goes
<1>1. EventTypes' BY DEF Types, EventTypes, events
<1>2. GateTypes' BY DEF Types, GateTypes, stored, gate, request, proof
<1>3. ListTypes' BY DEF Types, ListTypes, list
<1>4. RequestTypes' BY DEF Types, RequestTypes, client, request, Pcs
<1> QED BY <1>1, <1>2, <1>3, <1>4 DEF Types

LEMMA SyncTypes ==
  ASSUME Types, NEW d \in Devices, Sync(d) PROVE Types'
<1> USE MaybeFacts, ConstantsAssumption DEF Sync, Goes, Spend
<1>1. EventTypes' BY DEF Types, EventTypes, events
<1>2. GateTypes' BY DEF Types, GateTypes, stored, gate, request, proof
<1>3. ListTypes' BY DEF Types, ListTypes, list
<1>4. RequestTypes'
  <2>1. joined[UserOf[d]] \in SUBSET Rooms
    BY DEF Types, EventTypes
  <2> QED BY <2>1 DEF Types, RequestTypes, client, request, Pcs
<1> QED BY <1>1, <1>2, <1>3, <1>4 DEF Types

LEMMA ReceiveTypes ==
  ASSUME Types, NEW d \in Devices, Receive(d) PROVE Types'
<1> USE MaybeFacts, ConstantsAssumption DEF Receive, Forget, Goes
<1>1. EventTypes' BY DEF Types, EventTypes, events
<1>2. GateTypes' BY DEF Types, GateTypes, stored, gate, request, proof
<1>3. ListTypes' BY DEF Types, ListTypes, list
<1>4. RequestTypes' BY DEF Types, RequestTypes, client, request, Pcs
<1> QED BY <1>1, <1>2, <1>3, <1>4 DEF Types

LEMMA LoseTypes ==
  ASSUME Types, NEW d \in Devices, Lose(d) PROVE Types'
<1> USE MaybeFacts, ConstantsAssumption DEF Lose, Forget, Goes, Spend
<1>1. EventTypes' BY DEF Types, EventTypes, events
<1>2. GateTypes' BY DEF Types, GateTypes, stored, gate, request, proof
<1>3. ListTypes' BY DEF Types, ListTypes, list
<1>4. RequestTypes' BY DEF Types, RequestTypes, client, request, Pcs
<1> QED BY <1>1, <1>2, <1>3, <1>4 DEF Types

LEMMA ReadRoomTypes ==
  ASSUME Types, NEW d \in Devices, NEW r \in Rooms, ReadRoom(d, r) PROVE Types'
<1> USE MaybeFacts, ConstantsAssumption DEF ReadRoom
<1>1. EventTypes' BY DEF Types, EventTypes, events
<1>2. GateTypes' BY DEF Types, GateTypes, stored, gate, request, proof
<1>3. ListTypes' BY DEF Types, ListTypes, list
<1>4. RequestTypes' BY DEF Types, RequestTypes, client, request, Pcs
<1> QED BY <1>1, <1>2, <1>3, <1>4 DEF Types

LEMMA GetCapabilityTypes ==
  ASSUME Types, NEW d \in Devices, NEW k \in Kinds, GetCapability(d, k) PROVE Types'
<1> USE MaybeFacts, ConstantsAssumption DEF GetCapability, Goes
<1>1. EventTypes' BY DEF Types, EventTypes, events
<1>2. GateTypes' BY DEF Types, GateTypes, stored, gate, request, proof
<1>3. ListTypes' BY DEF Types, ListTypes, list
<1>4. RequestTypes' BY DEF Types, RequestTypes, client, request, Pcs
<1> QED BY <1>1, <1>2, <1>3, <1>4 DEF Types

LEMMA SetTopologyTypes ==
  ASSUME Types, NEW r \in Rooms, NEW hidden \in BOOLEAN, SetTopology(r, hidden) PROVE Types'
<1> USE MaybeFacts, ConstantsAssumption DEF SetTopology, Doubt, Spend
<1>1. EventTypes' BY DEF Types, EventTypes, events
<1>2. GateTypes' BY DEF Types, GateTypes, stored, gate, request, proof
<1>3. ListTypes' BY DEF Types, ListTypes, list
<1>4. RequestTypes' BY DEF Types, RequestTypes, client, request, Pcs
<1> QED BY <1>1, <1>2, <1>3, <1>4 DEF Types

LEMMA OnNewEventTypes ==
  ASSUME Types, NEW r \in Rooms, OnNewEvent(r) PROVE Types'
<1> USE MaybeFacts, ConstantsAssumption DEF OnNewEvent, Invalidate
<1>1. EventTypes' BY DEF Types, EventTypes, events
<1>2. GateTypes' BY DEF Types, GateTypes, stored, gate, request, proof
<1>3. ListTypes' BY DEF Types, ListTypes, list
<1>4. RequestTypes' BY DEF Types, RequestTypes, client, request, Pcs
<1> QED BY <1>1, <1>2, <1>3, <1>4 DEF Types

LEMMA JoinTypes ==
  ASSUME Types, NEW u, NEW r \in Rooms, Join(u, r) PROVE Types'
<1> USE MaybeFacts, ConstantsAssumption DEF Join, Doubt, Spend
<1>1. EventTypes' BY DEF Types, EventTypes, events
<1>2. GateTypes' BY DEF Types, GateTypes, stored, gate, request, proof
<1>3. ListTypes' BY DEF Types, ListTypes, list
<1>4. RequestTypes' BY DEF Types, RequestTypes, client, request, Pcs
<1> QED BY <1>1, <1>2, <1>3, <1>4 DEF Types

LEMMA LeaveTypes ==
  ASSUME Types, NEW u, NEW r \in Rooms, Leave(u, r) PROVE Types'
<1> USE MaybeFacts, ConstantsAssumption DEF Leave, Parts, Doubt, Spend
<1>1. EventTypes' BY DEF Types, EventTypes, events
<1>2. GateTypes' BY DEF Types, GateTypes, stored, gate, request, proof
<1>3. ListTypes' BY DEF Types, ListTypes, list
<1>4. RequestTypes' BY DEF Types, RequestTypes, client, request, Pcs
<1> QED BY <1>1, <1>2, <1>3, <1>4 DEF Types

LEMMA InviteTypes ==
  ASSUME Types, NEW u, NEW r \in Rooms, Invite(u, r) PROVE Types'
<1> USE MaybeFacts, ConstantsAssumption DEF Invite, Parts
<1>1. EventTypes' BY DEF Types, EventTypes, events
<1>2. GateTypes' BY DEF Types, GateTypes, stored, gate, request, proof
<1>3. ListTypes' BY DEF Types, ListTypes, list
<1>4. RequestTypes' BY DEF Types, RequestTypes, request, Pcs
<1> QED BY <1>1, <1>2, <1>3, <1>4 DEF Types

LEMMA ExpireTypes ==
  ASSUME Types, Expire PROVE Types'
<1> USE MaybeFacts, ConstantsAssumption DEF Expire
<1>1. EventTypes' BY DEF Types, EventTypes, events
<1>2. GateTypes' BY DEF Types, GateTypes, stored, gate, request, proof
<1>3. ListTypes' BY DEF Types, ListTypes, list
<1>4. RequestTypes' BY DEF Types, RequestTypes, client, request, Pcs
<1> QED BY <1>1, <1>2, <1>3, <1>4 DEF Types

LEMMA RestartTypes ==
  ASSUME Types, Restart PROVE Types'
<1> USE MaybeFacts, ConstantsAssumption DEF Restart, Invalidate, Forget, Spend
<1>1. EventTypes' BY DEF Types, EventTypes, events
<1>2. GateTypes' BY DEF Types, GateTypes, stored, gate, request, proof
<1>3. ListTypes' BY DEF Types, ListTypes, list
<1>4. RequestTypes' BY DEF Types, RequestTypes, client, request, Pcs
<1> QED BY <1>1, <1>2, <1>3, <1>4 DEF Types

(* What a /sync decides about the rooms it leaves out or forces in. *)
ChoiceTypes ==
  /\ pc \in [Devices -> [Kinds -> Pcs]]
  /\ excluded \in [Devices -> SUBSET Rooms]
  /\ forced \in [Devices -> SUBSET Rooms]
  /\ odd \in [Devices -> SUBSET Rooms]

LEMMA ListedTypes ==
  ASSUME Types, NEW d \in Devices, NEW at, NEW S \in SUBSET Rooms, NEW D \in SUBSET Rooms,
         Listed(d, at, S, D)
  PROVE  ChoiceTypes'
<1>1. odd' \in [Devices -> SUBSET Rooms]
  BY DEF Listed, Types, RequestTypes
<1>2. CASE at = "hide" /\ excluded' = [excluded EXCEPT ![d] = S] /\ Goes(d, "sync", "marker")
           /\ UNCHANGED forced
  BY <1>1, <1>2 DEF Goes, Types, RequestTypes, ChoiceTypes, Pcs
<1>3. CASE at = "show" /\ forced' = [forced EXCEPT ![d] = S] /\ Goes(d, "sync", "sent")
           /\ UNCHANGED excluded
  BY <1>1, <1>3 DEF Goes, Types, RequestTypes, ChoiceTypes, Pcs
<1> QED BY <1>2, <1>3 DEF Listed

LEMMA LookUpTypes ==
  ASSUME Types, NEW d \in Devices, NEW at \in {"hide", "show"}, LookUp(d, at)
  PROVE  ListTypes' /\ ChoiceTypes'
<1>0. UserOf[d] \in Users
  BY ConstantsAssumption
<1>1. CASE (\E S \in cache[UserOf[d]] : Listed(d, at, S, tainted[UserOf[d]])) /\ UNCHANGED list
  <2>1. PICK S \in cache[UserOf[d]] : Listed(d, at, S, tainted[UserOf[d]])
    BY <1>1
  <2>2. S \in SUBSET Rooms /\ tainted[UserOf[d]] \in SUBSET Rooms
    BY <1>0, <2>1 DEF Types, ListTypes, Maybe
  <2>3. ChoiceTypes'
    BY <2>1, <2>2, ListedTypes
  <2> QED BY <1>1, <2>3 DEF list, Types, ListTypes
<1>2. CASE /\ todo' = [todo EXCEPT ![d] = joined[UserOf[d]]] /\ Goes(d, "sync", at)
           /\ UNCHANGED <<cache, tainted, found, late, excluded, forced, odd>>
  <2>1. ListTypes'
    BY <1>0, <1>2 DEF Types, ListTypes, EventTypes
  <2>2. ChoiceTypes'
    BY <1>2 DEF Goes, Types, RequestTypes, ChoiceTypes, Pcs
  <2> QED BY <2>1, <2>2
<1> QED BY <1>1, <1>2 DEF LookUp

LEMMA StoreTypes ==
  ASSUME Types, NEW d \in Devices, Store(d) PROVE Types'
<1>1. EventTypes' /\ GateTypes'
  BY DEF Store, Types, EventTypes, GateTypes, events, stored, gate, proof
<1>2. ListTypes'
  BY MaybeFacts, ConstantsAssumption DEF Store, Types, ListTypes
<1>3. found[d] \in SUBSET Rooms /\ late[d] \in SUBSET Rooms
  BY DEF Types, ListTypes
<1>4. ChoiceTypes'
  BY <1>3, ListedTypes DEF Store
<1>5. RequestTypes'
  BY <1>4 DEF Store, Types, RequestTypes, ChoiceTypes, client
<1> QED BY <1>1, <1>2, <1>5 DEF Types

LEMMA MarkerTypes ==
  ASSUME Types, NEW d \in Devices, Marker(d) PROVE Types'
<1>1. EventTypes' /\ GateTypes'
  BY DEF Marker, Types, EventTypes, GateTypes, events, gate, proof
<1>2. ListTypes' /\ ChoiceTypes'
  <2>1. CASE d \in since /\ d \in markers
    BY <2>1, LookUpTypes DEF Marker
  <2>2. CASE ~(d \in since /\ d \in markers)
    <3>1. Goes(d, "sync", "sent") /\ UNCHANGED <<list, excluded, forced, odd>>
      BY <2>2 DEF Marker
    <3> QED BY <3>1 DEF Goes, list, Types, ListTypes, RequestTypes, ChoiceTypes, Pcs
  <2> QED BY <2>1, <2>2
<1>3. RequestTypes'
  BY <1>2 DEF Marker, Types, RequestTypes, ChoiceTypes, client
<1> QED BY <1>1, <1>2, <1>3 DEF Types

LEMMA VerdictTypes ==
  ASSUME Types, NEW d \in Devices, NEW k \in Kinds, NEW m, Verdict(d, k, m)
  PROVE  ListTypes' /\ ChoiceTypes' /\ passed' \in [Devices -> BOOLEAN]
<1>1. CASE /\ k = "put" /\ Goes(d, k, IF Passes(build[d][k], m) THEN "mark" ELSE "idle")
           /\ UNCHANGED <<passed, list, excluded, forced, odd>>
  BY <1>1 DEF Goes, list, Types, ListTypes, RequestTypes, ChoiceTypes, Pcs
<1>2. CASE /\ k = "sync" /\ passed' = [passed EXCEPT ![d] = TRUE] /\ Goes(d, k, "marker")
           /\ UNCHANGED <<list, excluded, forced, odd>>
  BY <1>2 DEF Goes, list, Types, ListTypes, RequestTypes, ChoiceTypes, Pcs
<1>3. CASE LookUp(d, "hide") /\ UNCHANGED passed
  BY <1>3, LookUpTypes DEF Types, RequestTypes
<1> QED BY <1>1, <1>2, <1>3 DEF Verdict

LEMMA GetMinBuildTypes ==
  ASSUME Types, NEW d \in Devices, NEW k \in Kinds, GetMinBuild(d, k) PROVE Types'
<1>1. EventTypes'
  BY DEF GetMinBuild, Types, EventTypes, events
<1>2. GateTypes'
  <2>1. CASE build' = [build EXCEPT ![d][k] = {}] /\ UNCHANGED answers
    BY <2>1, MaybeFacts DEF GetMinBuild, Types, GateTypes, stored, gate, proof
  <2>2. CASE answers' = [answers EXCEPT ![d][k] = {published}] /\ UNCHANGED build
    BY <2>2, MaybeFacts DEF GetMinBuild, Types, GateTypes, stored, gate, proof
  <2> QED BY <2>1, <2>2 DEF GetMinBuild, Decide
<1>3. ListTypes' /\ ChoiceTypes' /\ passed' \in [Devices -> BOOLEAN]
  <2>1. CASE Decide(d, k, threshold)
    BY <2>1, VerdictTypes DEF Decide
  <2>2. CASE Goes(d, k, "fetch") /\ UNCHANGED <<build, passed, list, excluded, forced, odd>>
    BY <2>2 DEF Goes, list, Types, ListTypes, RequestTypes, ChoiceTypes, Pcs
  <2> QED BY <2>1, <2>2 DEF GetMinBuild
<1>4. RequestTypes'
  BY <1>3 DEF GetMinBuild, Types, RequestTypes, ChoiceTypes, client
<1> QED BY <1>1, <1>2, <1>3, <1>4 DEF Types

LEMMA AnswerTypes ==
  ASSUME Types, NEW d \in Devices, NEW k \in Kinds, Answer(d, k) PROVE Types'
<1>0. PICK m \in answers[d][k] : threshold' = m /\ Decide(d, k, m)
  BY DEF Answer
<1>1. EventTypes'
  BY DEF Answer, Types, EventTypes, events
<1>2. m \in Maybe(Builds)
  BY <1>0 DEF Types, GateTypes
<1>3. GateTypes'
  BY <1>0, <1>2, MaybeFacts DEF Answer, Decide, Types, GateTypes, stored, proof
<1>4. ListTypes' /\ ChoiceTypes' /\ passed' \in [Devices -> BOOLEAN]
  BY <1>0, VerdictTypes DEF Decide
<1>5. RequestTypes'
  BY <1>4 DEF Answer, Types, RequestTypes, ChoiceTypes, client
<1> QED BY <1>1, <1>3, <1>4, <1>5 DEF Types

LEMMA NoAnswerTypes ==
  ASSUME Types, NEW d \in Devices, NEW k \in Kinds, NoAnswer(d, k) PROVE Types'
<1>1. EventTypes'
  BY DEF NoAnswer, Types, EventTypes, events
<1>2. GateTypes'
  BY MaybeFacts DEF NoAnswer, Decide, Types, GateTypes, stored, gate, proof
<1>3. ListTypes' /\ ChoiceTypes' /\ passed' \in [Devices -> BOOLEAN]
  BY VerdictTypes DEF NoAnswer, Decide
<1>4. RequestTypes'
  BY <1>3 DEF NoAnswer, Types, RequestTypes, ChoiceTypes, client
<1> QED BY <1>1, <1>2, <1>3, <1>4 DEF Types

LEMMA PublishTypes ==
  ASSUME Types, NEW m \in Maybe(Builds), Publish(m) PROVE Types'
<1>1. EventTypes' /\ ListTypes' /\ RequestTypes'
  BY DEF Publish, Types, EventTypes, ListTypes, RequestTypes, events, list, client
<1>2. answers' \in [Devices -> [Kinds -> SUBSET Maybe(Builds)]]
  BY DEF Publish, Types, GateTypes
<1>3. GateTypes'
  BY <1>2, MaybeFacts DEF Publish, Types, GateTypes, stored
<1> QED BY <1>1, <1>3 DEF Types

LEMMA TypesStep == ASSUME Types, [Next]_vars PROVE Types'
<1>1. CASE Next
  <2>1. ASSUME NEW d \in Devices,
               \/ \E b \in Builds : Put(d, b)
               \/ Mark(d) \/ Sync(d) \/ Marker(d) \/ Receive(d) \/ Lose(d) \/ Store(d)
               \/ \E r \in Rooms : ReadRoom(d, r)
               \/ \E k \in Kinds : GetCapability(d, k) \/ GetMinBuild(d, k) \/ Answer(d, k) \/ NoAnswer(d, k)
        PROVE  Types'
    BY <2>1, PutTypes, MarkTypes, SyncTypes, MarkerTypes, ReceiveTypes, LoseTypes, StoreTypes,
       ReadRoomTypes, GetCapabilityTypes, GetMinBuildTypes, AnswerTypes, NoAnswerTypes
  <2>2. ASSUME NEW r \in Rooms,
               \/ \E hidden \in BOOLEAN : SetTopology(r, hidden)
               \/ OnNewEvent(r)
               \/ \E d \in left.devices :
                    Join(UserOf[d], r) \/ Leave(UserOf[d], r) \/ Invite(UserOf[d], r)
        PROVE  Types'
    BY <2>2, SetTopologyTypes, OnNewEventTypes, JoinTypes, LeaveTypes, InviteTypes
  <2> QED BY <1>1, <2>1, <2>2, PublishTypes, ExpireTypes, RestartTypes DEF Next
<1>2. CASE UNCHANGED vars
  BY <1>2 DEF vars, events, stored, gate, client, list, request, proof, Types, EventTypes,
              GateTypes, ListTypes, RequestTypes
<1> QED BY <1>1, <1>2

LEMMA InitTypes == Init => Types
<1> SUFFICES ASSUME Init PROVE Types
  OBVIOUS
<1>1. PICK l \in Bounds : left = l
  BY DEF Init
<1>2. /\ left.joined \in SUBSET Rooms /\ left.since \in SUBSET Devices
      /\ left.published \in Maybe(Builds)
  BY <1>1, ConstantsAssumption
<1>3. EventTypes /\ ListTypes
  BY <1>2, MaybeFacts DEF Init, EventTypes, ListTypes
<1>4. GateTypes
  BY <1>2, MaybeFacts DEF Init, GateTypes
<1>5. RequestTypes
  BY <1>2 DEF Init, RequestTypes, Pcs
<1> QED BY <1>3, <1>4, <1>5 DEF Types

-----------------------------------------------------------------------------
(* The gate opens only with proof *)

(* The device has reported a build no smaller than a threshold of the service. *)
Proven(d) == \E b \in reported[d], m \in offered : b >= m

(* What is known of builds was reported by the device. *)
FromReports ==
  \A d \in Devices :
    capability[d] \subseteq reported[d] /\ \A k \in Kinds : build[d][k] \subseteq reported[d]

(* What is known of thresholds, or on its way, was offered by the service. *)
FromService ==
  /\ threshold \subseteq offered /\ published \subseteq offered
  /\ \A d \in Devices, k \in Kinds : \A m \in answers[d][k] : m \subseteq offered

(* A verdict stays only where it was proved. *)
OpenedWithProof ==
  \A d \in Devices : (pc[d]["put"] = "mark" \/ d \in markers \/ passed[d]) => Proven(d)

EvidenceInv == FromReports /\ FromService /\ OpenedWithProof

LEMMA GoesFacts ==
  ASSUME Types, NEW d \in Devices, NEW k \in Kinds, NEW to, Goes(d, k, to)
  PROVE  /\ pc'[d][k] = to
         /\ \A e \in Devices, l \in Kinds : e # d \/ l # k => pc'[e][l] = pc[e][l]
BY DEF Goes, Types, RequestTypes

LEMMA PassesProves ==
  ASSUME NEW d \in Devices, NEW b, NEW m, b \subseteq reported[d], m \subseteq offered, Passes(b, m)
  PROVE  Proven(d)
BY DEF Passes, Proven

(* Steps that learn nothing about builds and thresholds. *)
LEMMA EvidenceFrame ==
  ASSUME EvidenceInv,
         UNCHANGED <<capability, build, answers, threshold, published, reported, offered>>,
         markers' \subseteq markers,
         \A e \in Devices : passed'[e] => passed[e],
         \A e \in Devices : pc'[e]["put"] = "mark" => pc[e]["put"] = "mark"
  PROVE  EvidenceInv'
<1>1. FromReports' /\ FromService'
  BY DEF EvidenceInv, FromReports, FromService
<1>2. OpenedWithProof'
  BY DEF EvidenceInv, OpenedWithProof, Proven
<1> QED BY <1>1, <1>2 DEF EvidenceInv

LEMMA PutEvidence ==
  ASSUME Types, EvidenceInv, NEW d \in Devices, NEW b \in Builds, Put(d, b) PROVE EvidenceInv'
<1>1. /\ capability' = [capability EXCEPT ![d] = {b}]
      /\ reported' = [reported EXCEPT ![d] = @ \union {b}]
      /\ UNCHANGED <<markers, build, answers, passed, threshold, published, offered>>
  BY DEF Put, gate, request
<1>2. FromReports'
  BY <1>1 DEF EvidenceInv, FromReports, Types, GateTypes
<1>3. FromService'
  BY <1>1 DEF EvidenceInv, FromService
<1>4. \A e \in Devices : Proven(e) => Proven(e)'
  BY <1>1 DEF Proven, Types, GateTypes
<1>5. \A e \in Devices : pc'[e]["put"] = "mark" => pc[e]["put"] = "mark"
  <2>1. PICK to \in {"capability", "idle"} : Goes(d, "put", to)
    BY DEF Put
  <2> QED BY <2>1, GoesFacts
<1>6. OpenedWithProof'
  BY <1>1, <1>4, <1>5 DEF EvidenceInv, OpenedWithProof
<1> QED BY <1>2, <1>3, <1>6 DEF EvidenceInv

LEMMA MarkEvidence ==
  ASSUME Types, EvidenceInv, NEW d \in Devices, Mark(d) PROVE EvidenceInv'
<1>1. /\ markers' = markers \union {d} /\ pc[d]["put"] = "mark"
      /\ UNCHANGED <<capability, build, answers, passed, threshold, published, reported, offered>>
  BY DEF Mark, gate, request
<1>2. FromReports' /\ FromService'
  BY <1>1 DEF EvidenceInv, FromReports, FromService
<1>3. \A e \in Devices : pc'[e]["put"] = "mark" => pc[e]["put"] = "mark"
  BY GoesFacts DEF Mark
<1>4. OpenedWithProof'
  BY <1>1, <1>3 DEF EvidenceInv, OpenedWithProof, Proven
<1> QED BY <1>2, <1>4 DEF EvidenceInv

LEMMA GetCapabilityEvidence ==
  ASSUME Types, EvidenceInv, NEW d \in Devices, NEW k \in Kinds, GetCapability(d, k)
  PROVE  EvidenceInv'
<1>1. /\ build' = [build EXCEPT ![d][k] = capability[d]]
      /\ UNCHANGED <<capability, markers, answers, passed, threshold, published, reported, offered>>
  BY DEF GetCapability, stored, gate, proof
<1>2. FromReports'
  BY <1>1 DEF EvidenceInv, FromReports, Types, GateTypes
<1>3. FromService'
  BY <1>1 DEF EvidenceInv, FromService
<1>4. \A e \in Devices : pc'[e]["put"] = "mark" => pc[e]["put"] = "mark"
  BY GoesFacts DEF GetCapability
<1>5. OpenedWithProof'
  BY <1>1, <1>4 DEF EvidenceInv, OpenedWithProof, Proven
<1> QED BY <1>2, <1>3, <1>5 DEF EvidenceInv

(* LookUp and Listed move a /sync and leave the verdicts alone. *)
LEMMA LookUpKeepsPut ==
  ASSUME Types, NEW d \in Devices, NEW at, LookUp(d, at)
  PROVE  \A e \in Devices : pc'[e]["put"] = pc[e]["put"]
<1>1. PICK to : Goes(d, "sync", to)
  BY DEF LookUp, Listed
<1> QED BY <1>1, GoesFacts

(* A verdict for a threshold of the service opens the gate only with proof. *)
LEMMA DecideEvidence ==
  ASSUME Types, EvidenceInv, NEW d \in Devices, NEW k \in Kinds, NEW m, m \subseteq offered,
         Decide(d, k, m), UNCHANGED <<capability, markers, reported, offered>>
  PROVE  FromReports' /\ OpenedWithProof'
<1>1. FromReports'
  BY DEF Decide, EvidenceInv, FromReports, Types, GateTypes
<1>2. Passes(build[d][k], m) => Proven(d)
  BY PassesProves DEF EvidenceInv, FromReports
<1>3. \A e \in Devices : Proven(e)' = Proven(e)
  BY DEF Proven
<1>4. CASE /\ k = "put" /\ Goes(d, k, IF Passes(build[d][k], m) THEN "mark" ELSE "idle")
           /\ UNCHANGED passed
  <2>1. pc'[d]["put"] = "mark" => Proven(d)
    BY <1>2, <1>4, GoesFacts
  <2>2. \A e \in Devices : e # d => pc'[e]["put"] = pc[e]["put"]
    BY <1>4, GoesFacts
  <2> QED BY <1>1, <1>3, <1>4, <2>1, <2>2 DEF EvidenceInv, OpenedWithProof
<1>5. CASE /\ k = "sync" /\ Passes(build[d][k], m) /\ passed' = [passed EXCEPT ![d] = TRUE]
           /\ Goes(d, k, "marker")
  <2>1. \A e \in Devices : pc'[e]["put"] = pc[e]["put"]
    BY <1>5, GoesFacts
  <2>2. \A e \in Devices : e # d => passed'[e] = passed[e]
    BY <1>5 DEF Types, RequestTypes
  <2> QED BY <1>1, <1>2, <1>3, <1>5, <2>1, <2>2 DEF EvidenceInv, OpenedWithProof
<1>6. CASE LookUp(d, "hide") /\ UNCHANGED passed
  <2>1. \A e \in Devices : pc'[e]["put"] = pc[e]["put"]
    BY <1>6, LookUpKeepsPut
  <2> QED BY <1>1, <1>3, <1>6, <2>1 DEF EvidenceInv, OpenedWithProof
<1> QED BY <1>4, <1>5, <1>6 DEF Decide, Verdict

LEMMA GetMinBuildEvidence ==
  ASSUME Types, EvidenceInv, NEW d \in Devices, NEW k \in Kinds, GetMinBuild(d, k)
  PROVE  EvidenceInv'
<1>1. UNCHANGED <<capability, markers, threshold, published, reported, offered>>
  BY DEF GetMinBuild, stored, gate, proof
<1>2. CASE Decide(d, k, threshold) /\ UNCHANGED answers
  <2>1. FromReports' /\ OpenedWithProof'
    BY <1>1, <1>2, DecideEvidence DEF EvidenceInv, FromService
  <2> QED BY <1>1, <1>2, <2>1 DEF EvidenceInv, FromService
<1>3. CASE /\ answers' = [answers EXCEPT ![d][k] = {published}] /\ Goes(d, k, "fetch")
           /\ UNCHANGED <<build, passed>>
  <2>1. \A e \in Devices : pc'[e]["put"] = "mark" => pc[e]["put"] = "mark"
    BY <1>3, GoesFacts
  <2>2. FromReports' /\ OpenedWithProof'
    BY <1>1, <1>3, <2>1 DEF EvidenceInv, FromReports, OpenedWithProof, Proven
  <2>3. FromService'
    BY <1>1, <1>3 DEF EvidenceInv, FromService, Types, GateTypes
  <2> QED BY <2>2, <2>3 DEF EvidenceInv
<1> QED BY <1>2, <1>3 DEF GetMinBuild

LEMMA AnswerEvidence ==
  ASSUME Types, EvidenceInv, NEW d \in Devices, NEW k \in Kinds, Answer(d, k) PROVE EvidenceInv'
<1>1. /\ UNCHANGED <<capability, markers, published, reported, offered>>
      /\ answers' = [answers EXCEPT ![d][k] = {}]
  BY DEF Answer, stored, proof
<1>2. PICK m \in answers[d][k] : threshold' = m /\ Decide(d, k, m)
  BY DEF Answer
<1>3. m \subseteq offered
  BY <1>2 DEF EvidenceInv, FromService
<1>4. FromReports' /\ OpenedWithProof'
  BY <1>1, <1>2, <1>3, DecideEvidence
<1>5. FromService'
  BY <1>1, <1>2, <1>3 DEF EvidenceInv, FromService, Types, GateTypes
<1> QED BY <1>4, <1>5 DEF EvidenceInv

LEMMA NoAnswerEvidence ==
  ASSUME Types, EvidenceInv, NEW d \in Devices, NEW k \in Kinds, NoAnswer(d, k) PROVE EvidenceInv'
<1>1. /\ UNCHANGED <<capability, markers, threshold, published, reported, offered>>
      /\ answers' = [answers EXCEPT ![d][k] = {}]
      /\ Decide(d, k, threshold)
  BY DEF NoAnswer, stored, gate, proof
<1>2. FromReports' /\ OpenedWithProof'
  BY <1>1, DecideEvidence DEF EvidenceInv, FromService
<1>3. FromService'
  BY <1>1 DEF EvidenceInv, FromService, Types, GateTypes
<1> QED BY <1>2, <1>3 DEF EvidenceInv

LEMMA PublishEvidence ==
  ASSUME Types, EvidenceInv, NEW m, Publish(m) PROVE EvidenceInv'
<1>1. /\ UNCHANGED <<capability, markers, threshold, build, passed, reported, pc>>
      /\ published' = m /\ offered' = offered \union m
      /\ \A d \in Devices, k \in Kinds : answers'[d][k] \subseteq answers[d][k] \union {m}
  BY DEF Publish, stored
<1>2. FromReports'
  BY <1>1 DEF EvidenceInv, FromReports
<1>3. FromService'
  BY <1>1 DEF EvidenceInv, FromService
<1>4. OpenedWithProof'
  BY <1>1 DEF EvidenceInv, OpenedWithProof, Proven
<1> QED BY <1>2, <1>3, <1>4 DEF EvidenceInv

LEMMA RestartEvidence == ASSUME Types, EvidenceInv, Restart PROVE EvidenceInv'
<1>1. /\ UNCHANGED <<capability, markers, published, reported, offered>>
      /\ threshold' = {}
      /\ \A d \in Devices, k \in Kinds : build'[d][k] = {} /\ answers'[d][k] = {} /\ pc'[d][k] = "idle"
      /\ \A d \in Devices : ~passed'[d]
  BY DEF Restart, Forget, stored
<1>2. FromReports'
  BY <1>1 DEF EvidenceInv, FromReports
<1>3. FromService'
  BY <1>1 DEF EvidenceInv, FromService
<1>4. OpenedWithProof'
  BY <1>1 DEF EvidenceInv, OpenedWithProof, Proven
<1> QED BY <1>2, <1>3, <1>4 DEF EvidenceInv

LEMMA OtherEvidence ==
  ASSUME Types, EvidenceInv,
         \/ \E d \in Devices : Sync(d) \/ Marker(d) \/ Receive(d) \/ Lose(d) \/ Store(d)
         \/ \E d \in Devices, r \in Rooms : ReadRoom(d, r)
         \/ \E r \in Rooms, hidden \in BOOLEAN : SetTopology(r, hidden)
         \/ \E r \in Rooms : OnNewEvent(r) \/ \E u : Join(u, r) \/ Leave(u, r) \/ Invite(u, r)
         \/ Expire
         \/ UNCHANGED vars
  PROVE  EvidenceInv'
<1>1. ASSUME NEW d \in Devices, Sync(d) PROVE EvidenceInv'
  BY <1>1, GoesFacts, EvidenceFrame DEF Sync, stored, gate, proof
<1>2. ASSUME NEW d \in Devices, Marker(d) PROVE EvidenceInv'
  <2>1. \A e \in Devices : pc'[e]["put"] = pc[e]["put"]
    BY <1>2, GoesFacts, LookUpKeepsPut DEF Marker
  <2> QED BY <1>2, <2>1, EvidenceFrame DEF Marker, gate, proof
<1>3. ASSUME NEW d \in Devices, Receive(d) PROVE EvidenceInv'
  BY <1>3, GoesFacts, EvidenceFrame DEF Receive, Forget, stored, gate
<1>4. ASSUME NEW d \in Devices, Lose(d) PROVE EvidenceInv'
  BY <1>4, GoesFacts, EvidenceFrame DEF Lose, Forget, stored, gate
<1>5. ASSUME NEW d \in Devices, Store(d) PROVE EvidenceInv'
  <2>1. \A e \in Devices : pc'[e]["put"] = pc[e]["put"]
    BY <1>5, GoesFacts DEF Store, Listed
  <2> QED BY <1>5, <2>1, EvidenceFrame DEF Store, stored, gate, proof
<1>6. ASSUME NEW d, NEW r, ReadRoom(d, r) PROVE EvidenceInv'
  BY <1>6, EvidenceFrame DEF ReadRoom, stored, gate, request, proof
<1>7. ASSUME NEW r, NEW hidden, SetTopology(r, hidden) PROVE EvidenceInv'
  BY <1>7, EvidenceFrame DEF SetTopology, stored, gate, request, proof
<1>8. ASSUME NEW r, OnNewEvent(r) PROVE EvidenceInv'
  BY <1>8, EvidenceFrame DEF OnNewEvent, stored, gate, request, proof
<1>9. ASSUME NEW r, NEW u, Join(u, r) \/ Leave(u, r) \/ Invite(u, r) PROVE EvidenceInv'
  BY <1>9, EvidenceFrame DEF Join, Leave, Invite, stored, gate, request, proof
<1>10. ASSUME Expire PROVE EvidenceInv'
  BY <1>10, EvidenceFrame DEF Expire, stored, request, proof
<1>11. ASSUME UNCHANGED vars PROVE EvidenceInv'
  BY <1>11, EvidenceFrame DEF vars, stored, gate, request, proof
<1> QED BY <1>1, <1>2, <1>3, <1>4, <1>5, <1>6, <1>7, <1>8, <1>9, <1>10, <1>11

-----------------------------------------------------------------------------
(* The cached list is true of every room it was not told to doubt *)

(* What a list that is being read has found is right so far: a room of the *)
(* user is still to be read, was found hidden or is not.                   *)
ReadingAt(d) ==
  /\ ~Reading(d) => found[d] = {} /\ late[d] = {}
  /\ Reading(d) =>
       /\ todo[d] \intersect found[d] = {}
       /\ \A r \in joined[UserOf[d]] \ late[d] : r \in todo[d] \/ (r \in found[d] <=> Hidden(r))

TrueAt(u) == \A S \in cache[u] : \A r \in joined[u] \ tainted[u] : r \in S <=> Hidden(r)

ListInv == (\A u \in Users : TrueAt(u)) /\ (\A d \in Devices : ReadingAt(d))

(* Steps that leave the lists and what they speak of alone. *)
LEMMA ListFrame ==
  ASSUME ListInv, UNCHANGED <<joined, topology, list>>,
         \A e \in Devices : Reading(e)' = Reading(e)
  PROVE  ListInv'
<1>1. \A u \in Users : TrueAt(u)'
  BY DEF ListInv, TrueAt, Hidden, list
<1>2. \A e \in Devices : ReadingAt(e)'
  BY DEF ListInv, ReadingAt, Hidden, list
<1> QED BY <1>1, <1>2 DEF ListInv

(* A list is taken from the cache, or begun. *)
LEMMA LookUpList ==
  ASSUME Types, ListInv, NEW d \in Devices, NEW at \in {"hide", "show"}, ~Reading(d),
         LookUp(d, at), UNCHANGED <<joined, topology>>
  PROVE  ListInv'
<1>1. CASE (\E S \in cache[UserOf[d]] : Listed(d, at, S, tainted[UserOf[d]])) /\ UNCHANGED list
  <2>1. PICK to \in {"marker", "sent"} : Goes(d, "sync", to)
    BY <1>1 DEF Listed
  <2>2. \A e \in Devices : Reading(e)' = Reading(e)
    BY <2>1, GoesFacts DEF Reading
  <2> QED BY <1>1, <2>2, ListFrame
<1>2. CASE /\ todo' = [todo EXCEPT ![d] = joined[UserOf[d]]] /\ Goes(d, "sync", at)
           /\ UNCHANGED <<cache, tainted, found, late>>
  <2>1. \A u \in Users : TrueAt(u)'
    BY <1>2 DEF ListInv, TrueAt, Hidden
  <2>2. ReadingAt(d)'
    <3>1. Reading(d)'
      BY <1>2, GoesFacts DEF Reading
    <3>2. found'[d] = {} /\ todo'[d] = joined[UserOf[d]]
      BY <1>2 DEF ListInv, ReadingAt, Types, ListTypes
    <3> QED BY <3>1, <3>2 DEF ReadingAt
  <2>3. ASSUME NEW e \in Devices, e # d PROVE ReadingAt(e)'
    <3>1. Reading(e)' = Reading(e)
      BY <1>2, <2>3, GoesFacts DEF Reading
    <3>2. todo'[e] = todo[e]
      BY <1>2, <2>3 DEF Types, ListTypes
    <3> QED BY <1>2, <3>1, <3>2 DEF ListInv, ReadingAt, Hidden
  <2> QED BY <2>1, <2>2, <2>3 DEF ListInv
<1> QED BY <1>1, <1>2 DEF LookUp

LEMMA DecideList ==
  ASSUME Types, ListInv, NEW d \in Devices, NEW k \in Kinds, NEW m,
         k = "sync" => ~Reading(d), Decide(d, k, m), UNCHANGED <<joined, topology>>
  PROVE  ListInv'
<1>1. CASE k = "put" /\ UNCHANGED list
  <2>1. \A e \in Devices : Reading(e)' = Reading(e)
    BY <1>1, GoesFacts DEF Decide, Verdict, Reading
  <2> QED BY <1>1, <2>1, ListFrame
<1>2. CASE k = "sync" /\ Goes(d, k, "marker") /\ UNCHANGED list
  <2>1. \A e \in Devices : Reading(e)' = Reading(e)
    BY <1>2, GoesFacts DEF Reading
  <2> QED BY <1>2, <2>1, ListFrame
<1>3. CASE k = "sync" /\ LookUp(d, "hide")
  BY <1>3, LookUpList
<1> QED BY <1>1, <1>2, <1>3 DEF Decide, Verdict

LEMMA RequestList ==
  ASSUME Types, ListInv, NEW d \in Devices, NEW k \in Kinds,
         GetCapability(d, k) \/ GetMinBuild(d, k) \/ Answer(d, k) \/ NoAnswer(d, k)
  PROVE  ListInv'
<1>1. UNCHANGED <<joined, topology>> /\ (k = "sync" => ~Reading(d))
  BY DEF GetCapability, GetMinBuild, Answer, NoAnswer, events, Reading
<1>2. CASE \E m : Decide(d, k, m)
  BY <1>1, <1>2, DecideList
<1>3. CASE \E to \in {"min", "fetch"} : Goes(d, k, to) /\ UNCHANGED list
  <2>1. \A e \in Devices : Reading(e)' = Reading(e)
    BY <1>1, <1>3, GoesFacts DEF Reading
  <2> QED BY <1>1, <1>3, <2>1, ListFrame
<1> QED BY <1>2, <1>3 DEF GetCapability, GetMinBuild, Answer, NoAnswer

LEMMA ReadRoomList ==
  ASSUME Types, ListInv, NEW d \in Devices, NEW r \in Rooms, ReadRoom(d, r) PROVE ListInv'
<1>1. /\ UNCHANGED <<joined, topology, cache, tainted, late, pc>>
      /\ Reading(d) /\ r \in todo[d]
      /\ todo' = [todo EXCEPT ![d] = @ \ {r}]
      /\ found' = [found EXCEPT ![d] = IF Hidden(r) THEN @ \union {r} ELSE @]
  BY DEF ReadRoom, events, Reading
<1>2. \A e \in Devices : Reading(e)' = Reading(e)
  BY <1>1 DEF Reading
<1>3. \A u \in Users : TrueAt(u)'
  BY <1>1 DEF ListInv, TrueAt, Hidden
<1>4. ReadingAt(d)'
  <2>1. todo'[d] = todo[d] \ {r} /\ found'[d] = IF Hidden(r) THEN found[d] \union {r} ELSE found[d]
    BY <1>1 DEF Types, ListTypes
  <2>2. r \notin found[d]
    BY <1>1 DEF ListInv, ReadingAt
  <2>3. \A x : Hidden(x)' = Hidden(x)
    BY <1>1 DEF Hidden
  <2>4. Reading(d)' /\ Reading(d) /\ late'[d] = late[d] /\ joined'[UserOf[d]] = joined[UserOf[d]]
    BY <1>1, <1>2
  <2> QED BY <2>1, <2>2, <2>3, <2>4 DEF ListInv, ReadingAt
<1>5. ASSUME NEW e \in Devices, e # d PROVE ReadingAt(e)'
  <2>1. todo'[e] = todo[e] /\ found'[e] = found[e]
    BY <1>1, <1>5 DEF Types, ListTypes
  <2> QED BY <1>1, <1>2, <2>1 DEF ListInv, ReadingAt, Hidden
<1> QED BY <1>3, <1>4, <1>5 DEF ListInv

LEMMA StoreList ==
  ASSUME Types, ListInv, NEW d \in Devices, Store(d) PROVE ListInv'
<1>1. /\ UNCHANGED <<joined, topology, todo>> /\ Reading(d) /\ todo[d] = {}
      /\ cache' = [cache EXCEPT ![UserOf[d]] = {found[d]}]
      /\ tainted' = [tainted EXCEPT ![UserOf[d]] = late[d]]
      /\ found' = [found EXCEPT ![d] = {}] /\ late' = [late EXCEPT ![d] = {}]
  BY DEF Store, events, Reading
<1>2. PICK to \in {"marker", "sent"} : Goes(d, "sync", to)
  BY DEF Store, Listed
<1>3. TrueAt(UserOf[d])'
  <2>1. cache'[UserOf[d]] = {found[d]} /\ tainted'[UserOf[d]] = late[d]
    BY <1>1, ConstantsAssumption DEF Types, ListTypes
  <2>2. \A x : Hidden(x)' = Hidden(x)
    BY <1>1 DEF Hidden
  <2>3. \A r \in joined[UserOf[d]] \ late[d] : r \in found[d] <=> Hidden(r)
    BY <1>1 DEF ListInv, ReadingAt
  <2> QED BY <1>1, <2>1, <2>2, <2>3 DEF TrueAt
<1>4. ASSUME NEW u \in Users, u # UserOf[d] PROVE TrueAt(u)'
  <2>1. cache'[u] = cache[u] /\ tainted'[u] = tainted[u]
    BY <1>1, <1>4 DEF Types, ListTypes
  <2> QED BY <1>1, <2>1 DEF ListInv, TrueAt, Hidden
<1>5. ReadingAt(d)'
  <2>1. ~Reading(d)' /\ found'[d] = {} /\ late'[d] = {}
    BY <1>1, <1>2, GoesFacts DEF Reading, Types, ListTypes
  <2> QED BY <2>1 DEF ReadingAt
<1>6. ASSUME NEW e \in Devices, e # d PROVE ReadingAt(e)'
  <2>1. Reading(e)' = Reading(e) /\ found'[e] = found[e] /\ late'[e] = late[e]
    BY <1>1, <1>2, <1>6, GoesFacts DEF Reading, Types, ListTypes
  <2> QED BY <1>1, <2>1 DEF ListInv, ReadingAt, Hidden
<1> QED BY <1>3, <1>4, <1>5, <1>6 DEF ListInv

(* Rooms other than r look as before to the users of the list, and r is    *)
(* doubted by everybody whose view of it changes.                          *)
LEMMA DoubtList ==
  ASSUME Types, ListInv, NEW S, NEW r \in Rooms, Doubt(S, r), UNCHANGED <<cache, todo, found, pc>>,
         \A x \in Rooms : x # r => topology'[x] = topology[x],
         \A u \in Users : \A x \in Rooms : x # r => (x \in joined'[u] <=> x \in joined[u]),
         \A u \in Users : u \in S \/ (joined'[u] = joined[u] /\ topology' = topology),
         joined' \in [Users -> SUBSET Rooms]
  PROVE  ListInv'
<1>1. \A e \in Devices : Reading(e)' = Reading(e)
  BY DEF Reading
<1>2. \A x \in Rooms : x # r => Hidden(x)' = Hidden(x)
  BY DEF Hidden
<1>3. ASSUME NEW u \in Users PROVE TrueAt(u)'
  <2>1. tainted'[u] = IF u \in S /\ cache[u] # {} THEN tainted[u] \union {r} ELSE tainted[u]
    BY DEF Doubt
  <2>2. \A x \in joined[u] : x \in Rooms
    BY DEF Types, EventTypes
  <2>3. CASE u \in S
    BY <1>2, <2>1, <2>2, <2>3 DEF ListInv, TrueAt
  <2>4. CASE joined'[u] = joined[u] /\ topology' = topology
    <3>1. \A x : Hidden(x)' = Hidden(x)
      BY <2>4 DEF Hidden
    <3> QED BY <2>1, <2>4, <3>1 DEF ListInv, TrueAt
  <2> QED BY <2>3, <2>4
<1>4. ASSUME NEW e \in Devices PROVE ReadingAt(e)'
  <2> DEFINE u == UserOf[e]
  <2>0. u \in Users
    BY ConstantsAssumption
  <2>1. late'[e] = IF u \in S /\ Reading(e) THEN late[e] \union {r} ELSE late[e]
    BY DEF Doubt
  <2>2. \A x \in joined[u] : x \in Rooms
    BY <2>0 DEF Types, EventTypes
  <2>3. \A x \in joined'[u] : x \in Rooms
    BY <2>0
  <2>4. CASE ~Reading(e)
    BY <1>1, <2>1, <2>4 DEF ListInv, ReadingAt
  <2>5. CASE Reading(e) /\ u \in S
    BY <1>1, <1>2, <2>0, <2>1, <2>2, <2>3, <2>5 DEF ListInv, ReadingAt
  <2>6. CASE Reading(e) /\ joined'[u] = joined[u] /\ topology' = topology
    <3>1. \A x : Hidden(x)' = Hidden(x)
      BY <2>6 DEF Hidden
    <3> QED BY <1>1, <2>1, <2>6, <3>1 DEF ListInv, ReadingAt
  <2> QED BY <2>0, <2>4, <2>5, <2>6
<1> QED BY <1>3, <1>4 DEF ListInv

LEMMA SetTopologyList ==
  ASSUME Types, Types', ListInv, NEW r \in Rooms, NEW hidden, SetTopology(r, hidden) PROVE ListInv'
<1>1. Doubt(Users, r) /\ UNCHANGED <<joined, cache, todo, found, pc>>
  BY DEF SetTopology
<1>2. \A x \in Rooms : x # r => topology'[x] = topology[x]
  BY DEF SetTopology, Types, EventTypes
<1> QED BY <1>1, <1>2, DoubtList DEF Types, EventTypes

LEMMA MemberList ==
  ASSUME Types, Types', ListInv, NEW r \in Rooms, NEW u, Join(u, r) \/ Leave(u, r) PROVE ListInv'
<1>1. Doubt({u}, r) /\ UNCHANGED <<topology, cache, todo, found, pc>>
  BY DEF Join, Leave
<1>2. \A v \in Users : \A x \in Rooms : x # r => (x \in joined'[v] <=> x \in joined[v])
  BY DEF Join, Leave, Types, EventTypes
<1>3. \A v \in Users : v \in {u} \/ joined'[v] = joined[v]
  BY DEF Join, Leave, Types, EventTypes
<1> QED BY <1>1, <1>2, <1>3, DoubtList DEF Types, EventTypes

LEMMA OtherList ==
  ASSUME Types, ListInv,
         \/ \E d \in Devices : Mark(d) \/ Sync(d) \/ Marker(d) \/ Receive(d) \/ Lose(d)
         \/ \E d \in Devices, b \in Builds : Put(d, b)
         \/ \E r \in Rooms : OnNewEvent(r) \/ \E u : Invite(u, r)
         \/ \E m : Publish(m)
         \/ Expire \/ Restart
         \/ UNCHANGED vars
  PROVE  ListInv'
<1>1. ASSUME NEW d \in Devices, NEW k \in Kinds, NEW to, Goes(d, k, to), ~Reading(d),
             to \notin {"hide", "show"}
      PROVE  \A e \in Devices : Reading(e)' = Reading(e)
  BY <1>1, GoesFacts DEF Reading
<1>2. ASSUME NEW d \in Devices, Mark(d) PROVE ListInv'
  <2>1. \A e \in Devices : Reading(e)' = Reading(e)
    BY <1>2, GoesFacts DEF Mark, Reading
  <2> QED BY <1>2, <2>1, ListFrame DEF Mark, events
<1>3. ASSUME NEW d \in Devices, Sync(d) PROVE ListInv'
  BY <1>1, <1>3, ListFrame DEF Sync, events, Reading
<1>4. ASSUME NEW d \in Devices, Marker(d) PROVE ListInv'
  <2>1. UNCHANGED <<joined, topology>> /\ ~Reading(d)
    BY <1>4 DEF Marker, events, Reading
  <2>2. CASE LookUp(d, "show")
    BY <2>1, <2>2, LookUpList
  <2>3. CASE Goes(d, "sync", "sent") /\ UNCHANGED list
    BY <1>1, <2>1, <2>3, ListFrame
  <2> QED BY <1>4, <2>2, <2>3 DEF Marker
<1>5. ASSUME NEW d \in Devices, Receive(d) PROVE ListInv'
  BY <1>1, <1>5, ListFrame DEF Receive, events, Reading
<1>6. ASSUME NEW d \in Devices, Lose(d) PROVE ListInv'
  BY <1>1, <1>6, ListFrame DEF Lose, events, Reading
<1>7. ASSUME NEW d \in Devices, NEW b, Put(d, b) PROVE ListInv'
  <2>1. \A e \in Devices : Reading(e)' = Reading(e)
    BY <1>7, GoesFacts DEF Put, Reading
  <2> QED BY <1>7, <2>1, ListFrame DEF Put, events
<1>8. ASSUME NEW r, OnNewEvent(r) PROVE ListInv'
  <2>1. \A u \in Users : TrueAt(u)'
    BY <1>8 DEF OnNewEvent, Invalidate, ListInv, TrueAt, Hidden
  <2>2. \A e \in Devices : ReadingAt(e)'
    BY <1>8 DEF OnNewEvent, ListInv, ReadingAt, Reading, Hidden
  <2> QED BY <2>1, <2>2 DEF ListInv
<1>9. ASSUME NEW m, Publish(m) PROVE ListInv'
  BY <1>9, ListFrame DEF Publish, events, Reading
<1>10. ASSUME Expire PROVE ListInv'
  BY <1>10, ListFrame DEF Expire, events, Reading
<1>11. ASSUME Restart PROVE ListInv'
  <2>1. \A u \in Users : TrueAt(u)'
    BY <1>11 DEF Restart, Invalidate, TrueAt
  <2>2. \A e \in Devices : ~Reading(e)' /\ found'[e] = {} /\ late'[e] = {}
    BY <1>11 DEF Restart, Reading
  <2> QED BY <2>1, <2>2 DEF ListInv, ReadingAt
<1>12. ASSUME UNCHANGED vars PROVE ListInv'
  BY <1>12, ListFrame DEF vars, events, Reading
<1>13. ASSUME NEW r, NEW u, Invite(u, r) PROVE ListInv'
  BY <1>13, ListFrame DEF Invite, events, Reading
<1> QED BY <1>2, <1>3, <1>4, <1>5, <1>6, <1>7, <1>8, <1>9, <1>10, <1>11, <1>12, <1>13

-----------------------------------------------------------------------------
(* A closed gate lets no hidden room through *)

Chosen == {"marker", "show", "sent"}

(* A /sync started from rooms its user is still in, but for the odd ones,  *)
(* and once the list of a closed gate is there no room it shows is hidden. *)
HideAt(d) ==
  /\ Running(d) => snapshot[d] \ odd[d] \subseteq joined[UserOf[d]]
  /\ pc[d]["sync"] \in Chosen /\ ~passed[d] => \A r \in Shown(d) \ odd[d] : ~Hidden(r)

HideInv == \A d \in Devices : HideAt(d)

LEMMA HideKept ==
  ASSUME NEW e \in Devices, HideAt(e), UNCHANGED <<joined, topology>>,
         snapshot'[e] = snapshot[e], excluded'[e] = excluded[e], passed'[e] = passed[e],
         odd[e] \subseteq odd'[e], Running(e)' => Running(e),
         pc'[e]["sync"] \in Chosen => pc[e]["sync"] \in Chosen \/ passed[e]
  PROVE  HideAt(e)'
<1>1. \A x : Hidden(x)' = Hidden(x)
  BY DEF Hidden
<1>2. Running(e)' => snapshot'[e] \ odd'[e] \subseteq joined'[UserOf[e]]
  BY DEF HideAt
<1>3. ASSUME pc'[e]["sync"] \in Chosen, ~passed'[e], NEW r \in Shown(e)' \ odd'[e]
      PROVE  ~Hidden(r)'
  BY <1>1, <1>3 DEF HideAt, Shown
<1> QED BY <1>2, <1>3 DEF HideAt

(* Steps of requests that decide nothing about rooms. *)
LEMMA HideFrame ==
  ASSUME HideInv, UNCHANGED <<joined, topology, snapshot, excluded, passed, odd>>,
         \A e \in Devices : Running(e)' => Running(e),
         \A e \in Devices : pc'[e]["sync"] \in Chosen => pc[e]["sync"] \in Chosen
  PROVE  HideInv'
BY HideKept DEF HideInv

(* A list that is right but for the rooms in D is used. *)
LEMMA ListedHide ==
  ASSUME Types, HideInv, NEW d \in Devices, NEW at, NEW S, NEW D, Running(d),
         at = "show" => pc[d]["sync"] \in Chosen,
         \A r \in joined[UserOf[d]] \ D : r \in S <=> Hidden(r),
         Listed(d, at, S, D), UNCHANGED <<joined, topology, snapshot, passed>>
  PROVE  HideInv'
<1>1. odd' = [odd EXCEPT ![d] = @ \union D]
  BY DEF Listed
<1>2. odd'[d] = odd[d] \union D /\ \A e \in Devices : e # d => odd'[e] = odd[e]
  BY <1>1 DEF Types, RequestTypes
<1>3. \A x : Hidden(x)' = Hidden(x)
  BY DEF Hidden
<1>4. CASE at = "hide" /\ excluded' = [excluded EXCEPT ![d] = S] /\ Goes(d, "sync", "marker")
  <2>1. excluded'[d] = S /\ \A e \in Devices : e # d => excluded'[e] = excluded[e]
    BY <1>4 DEF Types, RequestTypes
  <2>2. snapshot[d] \ odd'[d] \subseteq joined[UserOf[d]]
    BY <1>2 DEF HideInv, HideAt
  <2>3. \A r \in Shown(d)' \ odd'[d] : ~Hidden(r)'
    BY <1>2, <1>3, <2>1, <2>2 DEF Shown
  <2>4. HideAt(d)'
    BY <2>2, <2>3 DEF HideAt
  <2>5. ASSUME NEW e \in Devices, e # d PROVE HideAt(e)'
    <3>1. pc'[e]["sync"] = pc[e]["sync"]
      BY <1>4, <2>5, GoesFacts
    <3> QED BY <1>2, <2>1, <2>5, <3>1, HideKept DEF HideInv, Running
  <2> QED BY <2>4, <2>5 DEF HideInv
<1>5. CASE at = "show" /\ Goes(d, "sync", "sent") /\ UNCHANGED excluded
  <2>1. \A e \in Devices : e # d => pc'[e]["sync"] = pc[e]["sync"]
    BY <1>5, GoesFacts
  <2>2. ASSUME NEW e \in Devices PROVE HideAt(e)'
    BY <1>2, <1>5, <2>1, HideKept DEF HideInv, Running
  <2> QED BY <2>2 DEF HideInv
<1> QED BY <1>4, <1>5 DEF Listed

LEMMA LookUpHide ==
  ASSUME Types, ListInv, HideInv, NEW d \in Devices, NEW at \in {"hide", "show"}, Running(d),
         at = "show" => pc[d]["sync"] \in Chosen,
         LookUp(d, at), UNCHANGED <<joined, topology, snapshot, passed>>
  PROVE  HideInv'
<1>1. ASSUME NEW S \in cache[UserOf[d]], Listed(d, at, S, tainted[UserOf[d]]) PROVE HideInv'
  <2>1. \A r \in joined[UserOf[d]] \ tainted[UserOf[d]] : r \in S <=> Hidden(r)
    BY ConstantsAssumption DEF ListInv, TrueAt
  <2> QED BY <1>1, <2>1, ListedHide
<1>2. CASE Goes(d, "sync", at) /\ UNCHANGED <<excluded, odd>>
  BY <1>2, GoesFacts, HideFrame DEF Running, Chosen
<1> QED BY <1>1, <1>2 DEF LookUp

LEMMA DecideHide ==
  ASSUME Types, ListInv, HideInv, NEW d \in Devices, NEW k \in Kinds, NEW m,
         k = "sync" => Running(d), Decide(d, k, m), UNCHANGED <<joined, topology, snapshot>>
  PROVE  HideInv'
<1>1. CASE k = "put" /\ UNCHANGED <<passed, excluded, odd>>
  <2>1. \A e \in Devices : pc'[e]["sync"] = pc[e]["sync"]
    BY <1>1, GoesFacts DEF Decide, Verdict
  <2> QED BY <1>1, <2>1, HideFrame DEF Running
<1>2. CASE /\ k = "sync" /\ passed' = [passed EXCEPT ![d] = TRUE] /\ Goes(d, k, "marker")
           /\ UNCHANGED <<excluded, odd>>
  <2>1. passed'[d] /\ \A e \in Devices : e # d => passed'[e] = passed[e]
    BY <1>2 DEF Types, RequestTypes
  <2>2. \A e \in Devices : e # d => pc'[e]["sync"] = pc[e]["sync"]
    BY <1>2, GoesFacts
  <2>3. HideAt(d)'
    BY <1>2, <2>1 DEF HideInv, HideAt
  <2>4. ASSUME NEW e \in Devices, e # d PROVE HideAt(e)'
    BY <1>2, <2>1, <2>2, <2>4, HideKept DEF HideInv, Running
  <2> QED BY <2>3, <2>4 DEF HideInv
<1>3. CASE k = "sync" /\ LookUp(d, "hide") /\ UNCHANGED passed
  BY <1>3, LookUpHide
<1> QED BY <1>1, <1>2, <1>3 DEF Decide, Verdict

LEMMA RequestHide ==
  ASSUME Types, ListInv, HideInv, NEW d \in Devices, NEW k \in Kinds,
         GetCapability(d, k) \/ GetMinBuild(d, k) \/ Answer(d, k) \/ NoAnswer(d, k)
  PROVE  HideInv'
<1>1. UNCHANGED <<joined, topology, snapshot>> /\ (k = "sync" => Running(d))
  BY DEF GetCapability, GetMinBuild, Answer, NoAnswer, events, Running
<1>2. CASE \E m : Decide(d, k, m)
  BY <1>1, <1>2, DecideHide
<1>3. CASE \E to \in {"min", "fetch"} : Goes(d, k, to) /\ UNCHANGED <<passed, excluded, odd>>
  <2>1. \A e \in Devices : Running(e)' => Running(e)
    BY <1>1, <1>3, GoesFacts DEF Running
  <2>2. \A e \in Devices : pc'[e]["sync"] \in Chosen => pc[e]["sync"] \in Chosen
    BY <1>3, GoesFacts DEF Chosen
  <2> QED BY <1>1, <1>3, <2>1, <2>2, HideFrame
<1> QED BY <1>2, <1>3 DEF GetCapability, GetMinBuild, Answer, NoAnswer

LEMMA StoreHide ==
  ASSUME Types, ListInv, HideInv, NEW d \in Devices, Store(d) PROVE HideInv'
<1>1. /\ Reading(d) /\ todo[d] = {} /\ UNCHANGED <<joined, topology, snapshot, passed>>
      /\ Listed(d, pc[d]["sync"], found[d], late[d])
  BY DEF Store, events, Reading
<1>2. \A r \in joined[UserOf[d]] \ late[d] : r \in found[d] <=> Hidden(r)
  BY <1>1 DEF ListInv, ReadingAt
<1>3. Running(d) /\ (pc[d]["sync"] = "show" => pc[d]["sync"] \in Chosen)
  BY <1>1 DEF Reading, Running, Chosen
<1> QED BY <1>1, <1>2, <1>3, ListedHide

(* A room changes: it is odd to every /sync that may have used it. *)
LEMMA DoubtHide ==
  ASSUME Types, HideInv, NEW S, NEW r \in Rooms, Doubt(S, r),
         UNCHANGED <<snapshot, excluded, passed, pc>>,
         \A x \in Rooms : x # r => topology'[x] = topology[x],
         \A u \in Users : \A x \in Rooms : x # r => (x \in joined'[u] <=> x \in joined[u]),
         \A u \in Users : u \in S \/ (joined'[u] = joined[u] /\ topology' = topology)
  PROVE  HideInv'
<1>1. \A x \in Rooms : x # r => Hidden(x)' = Hidden(x)
  BY DEF Hidden
<1>2. ASSUME NEW e \in Devices PROVE HideAt(e)'
  <2>0. UserOf[e] \in Users
    BY ConstantsAssumption
  <2>1. odd'[e] = IF UserOf[e] \in S /\ Running(e) THEN odd[e] \union {r} ELSE odd[e]
    BY DEF Doubt
  <2>2. \A x \in snapshot[e] : x \in Rooms
    BY DEF Types, RequestTypes
  <2>3. CASE Running(e) /\ UserOf[e] \in S
    <3>1. odd'[e] = odd[e] \union {r}
      BY <2>1, <2>3
    <3>2. snapshot'[e] \ odd'[e] \subseteq joined'[UserOf[e]]
      BY <2>0, <2>2, <2>3, <3>1 DEF HideInv, HideAt
    <3>3. ASSUME pc'[e]["sync"] \in Chosen, ~passed'[e], NEW x \in Shown(e)' \ odd'[e]
          PROVE  ~Hidden(x)'
      BY <1>1, <2>2, <3>1, <3>3 DEF HideInv, HideAt, Shown
    <3> QED BY <3>2, <3>3 DEF HideAt
  <2>4. CASE joined'[UserOf[e]] = joined[UserOf[e]] /\ topology' = topology
    <3>1. \A x : Hidden(x)' = Hidden(x)
      BY <2>4 DEF Hidden
    <3>2. Running(e)' => snapshot'[e] \ odd'[e] \subseteq joined'[UserOf[e]]
      BY <2>1, <2>4 DEF HideInv, HideAt, Running
    <3>3. ASSUME pc'[e]["sync"] \in Chosen, ~passed'[e], NEW x \in Shown(e)' \ odd'[e]
          PROVE  ~Hidden(x)'
      BY <2>1, <3>1, <3>3 DEF HideInv, HideAt, Shown
    <3> QED BY <3>2, <3>3 DEF HideAt
  <2>5. CASE ~Running(e)
    BY <2>5 DEF HideAt, Running, Chosen
  <2> QED BY <2>0, <2>3, <2>4, <2>5
<1> QED BY <1>2 DEF HideInv

LEMMA SetTopologyHide ==
  ASSUME Types, HideInv, NEW r \in Rooms, NEW hidden, SetTopology(r, hidden) PROVE HideInv'
<1>1. Doubt(Users, r) /\ UNCHANGED <<joined, snapshot, excluded, passed, pc>>
  BY DEF SetTopology, request
<1>2. \A x \in Rooms : x # r => topology'[x] = topology[x]
  BY DEF SetTopology, Types, EventTypes
<1> QED BY <1>1, <1>2, DoubtHide

LEMMA MemberHide ==
  ASSUME Types, HideInv, NEW r \in Rooms, NEW u, Join(u, r) \/ Leave(u, r) PROVE HideInv'
<1>1. Doubt({u}, r) /\ UNCHANGED <<topology, snapshot, excluded, passed, pc>>
  BY DEF Join, Leave, request
<1>2. \A v \in Users : \A x \in Rooms : x # r => (x \in joined'[v] <=> x \in joined[v])
  BY DEF Join, Leave, Types, EventTypes
<1>3. \A v \in Users : v \in {u} \/ joined'[v] = joined[v]
  BY DEF Join, Leave, Types, EventTypes
<1> QED BY <1>1, <1>2, <1>3, DoubtHide

LEMMA OtherHide ==
  ASSUME Types, ListInv, HideInv,
         \/ \E d \in Devices : Mark(d) \/ Sync(d) \/ Marker(d) \/ Receive(d) \/ Lose(d)
         \/ \E d \in Devices, b \in Builds : Put(d, b)
         \/ \E d \in Devices, r \in Rooms : ReadRoom(d, r)
         \/ \E r \in Rooms : OnNewEvent(r) \/ \E u : Invite(u, r)
         \/ \E m : Publish(m)
         \/ Expire \/ Restart
         \/ UNCHANGED vars
  PROVE  HideInv'
<1>1. ASSUME NEW d \in Devices, NEW b, Mark(d) \/ Put(d, b) PROVE HideInv'
  <2>1. \A e \in Devices : pc'[e]["sync"] = pc[e]["sync"]
    BY <1>1, GoesFacts DEF Mark, Put
  <2> QED BY <1>1, <2>1, HideFrame DEF Mark, Put, events, request, Running
<1>2. ASSUME NEW d \in Devices, Sync(d) PROVE HideInv'
  <2>1. /\ UNCHANGED <<joined, topology, excluded, passed, odd>> /\ Goes(d, "sync", "capability")
        /\ snapshot' = [snapshot EXCEPT ![d] = joined[UserOf[d]]]
    BY <1>2 DEF Sync, events
  <2>2. HideAt(d)'
    <3>1. snapshot'[d] = joined[UserOf[d]] /\ pc'[d]["sync"] = "capability"
      BY <2>1, GoesFacts DEF Types, RequestTypes
    <3> QED BY <2>1, <3>1 DEF HideAt, Chosen
  <2>3. ASSUME NEW e \in Devices, e # d PROVE HideAt(e)'
    <3>1. snapshot'[e] = snapshot[e] /\ pc'[e]["sync"] = pc[e]["sync"]
      BY <2>1, <2>3, GoesFacts DEF Types, RequestTypes
    <3> QED BY <2>1, <3>1, HideKept DEF HideInv, Running
  <2> QED BY <2>2, <2>3 DEF HideInv
<1>3. ASSUME NEW d \in Devices, Marker(d) PROVE HideInv'
  <2>1. UNCHANGED <<joined, topology, snapshot, passed>> /\ pc[d]["sync"] = "marker"
    BY <1>3 DEF Marker, events
  <2>2. CASE LookUp(d, "show")
    BY <2>1, <2>2, LookUpHide DEF Running, Chosen
  <2>3. CASE Goes(d, "sync", "sent") /\ UNCHANGED <<excluded, odd>>
    BY <2>1, <2>3, GoesFacts, HideFrame DEF Running, Chosen
  <2> QED BY <1>3, <2>2, <2>3 DEF Marker
<1>4. ASSUME NEW d \in Devices, Receive(d) \/ Lose(d) PROVE HideInv'
  <2>1. UNCHANGED <<joined, topology>> /\ Forget({d}) /\ Goes(d, "sync", "idle")
    BY <1>4 DEF Receive, Lose, events
  <2>2. HideAt(d)'
    BY <2>1, GoesFacts DEF HideAt, Running, Chosen
  <2>3. ASSUME NEW e \in Devices, e # d PROVE HideAt(e)'
    <3>1. pc'[e]["sync"] = pc[e]["sync"]
      BY <2>1, <2>3, GoesFacts
    <3>2. /\ snapshot'[e] = snapshot[e] /\ excluded'[e] = excluded[e] /\ odd'[e] = odd[e]
          /\ passed'[e] = passed[e]
      BY <2>1, <2>3 DEF Forget, Types, RequestTypes
    <3> QED BY <2>1, <3>1, <3>2, HideKept DEF HideInv, Running
  <2> QED BY <2>2, <2>3 DEF HideInv
<1>5. ASSUME NEW d, NEW r, ReadRoom(d, r) PROVE HideInv'
  BY <1>5, HideFrame DEF ReadRoom, events, request, Running
<1>6. ASSUME NEW r, OnNewEvent(r) PROVE HideInv'
  BY <1>6, HideFrame DEF OnNewEvent, request, Running
<1>7. ASSUME NEW m, Publish(m) PROVE HideInv'
  BY <1>7, HideFrame DEF Publish, events, Running
<1>8. ASSUME Expire PROVE HideInv'
  BY <1>8, HideFrame DEF Expire, events, request, Running
<1>9. ASSUME Restart PROVE HideInv'
  BY <1>9 DEF Restart, HideInv, HideAt, Running, Chosen
<1>10. ASSUME UNCHANGED vars PROVE HideInv'
  BY <1>10, HideFrame DEF vars, events, request, Running
<1>11. ASSUME NEW r, NEW u, Invite(u, r) PROVE HideInv'
  BY <1>11, HideFrame DEF Invite, events, request, Running
<1> QED BY <1>1, <1>2, <1>3, <1>4, <1>5, <1>6, <1>7, <1>8, <1>9, <1>10, <1>11

-----------------------------------------------------------------------------
(* The first /sync after the proof is whole *)

Undecided == {"idle", "capability", "min", "fetch"}

(* The thresholds a request may work with, now or when an answer comes. *)
InUse == {published, threshold} \union UNION {answers[e][k] : e \in Devices, k \in Kinds}
PassesAll(b, T) == \A m \in T : Passes(b, m)

(* A device that is due keeps its marker and a build that passes until its *)
(* /sync has passed the gate; no room is left out, and hidden ones come.   *)
DueAt(d) ==
  /\ excluded[d] = {} /\ pc[d]["sync"] # "hide"
  /\ pc[d]["sync"] \in {"idle", "capability"} => PassesAll(capability[d], InUse)
  /\ pc[d]["sync"] \in {"min", "fetch"} => PassesAll(build[d]["sync"], InUse)
  /\ pc[d]["sync"] \in Undecided \union {"marker"} => d \in markers
  /\ pc[d]["sync"] = "show" => d \in since
  /\ pc[d]["sync"] = "sent" /\ d \in since =>
       \A r \in snapshot[d] \ odd[d] : Hidden(r) => r \in forced[d]

NothingExcludedYet == \A d \in Devices : pc[d]["sync"] \in Undecided => excluded[d] = {}

DueInv == NothingExcludedYet /\ \A d \in due : DueAt(d)

LEMMA InUseFacts ==
  /\ \A m : m \in InUse <=> \/ m = published \/ m = threshold
                            \/ \E e \in Devices, k \in Kinds : m \in answers[e][k]
  /\ \A m : m \in InUse' <=> \/ m = published' \/ m = threshold'
                             \/ \E e \in Devices, k \in Kinds : m \in answers'[e][k]
<1> USE DEF InUse
<1>1. \A m : m \in InUse <=> \/ m = published \/ m = threshold
                            \/ \E e \in Devices, k \in Kinds : m \in answers[e][k]
  OBVIOUS
<1>2. \A m : m \in InUse' <=> \/ m = published' \/ m = threshold'
                             \/ \E e \in Devices, k \in Kinds : m \in answers'[e][k]
  OBVIOUS
<1> QED BY <1>1, <1>2

LEMMA DueKept ==
  ASSUME NEW e \in Devices, DueAt(e), InUse' \subseteq InUse,
         \A r : Hidden(r)' => Hidden(r) \/ r \in odd'[e] \/ ~Running(e),
         capability'[e] = capability[e], build'[e]["sync"] = build[e]["sync"],
         excluded'[e] = excluded[e], snapshot'[e] = snapshot[e], forced'[e] = forced[e],
         odd[e] \subseteq odd'[e], e \in markers => e \in markers', e \in since' <=> e \in since,
         pc'[e]["sync"] = pc[e]["sync"]
  PROVE  DueAt(e)'
<1>1. /\ excluded'[e] = {} /\ pc'[e]["sync"] # "hide"
      /\ pc'[e]["sync"] \in Undecided \union {"marker"} => e \in markers'
      /\ pc'[e]["sync"] = "show" => e \in since'
  BY DEF DueAt
<1>2. /\ pc'[e]["sync"] \in {"idle", "capability"} => PassesAll(capability'[e], InUse')
      /\ pc'[e]["sync"] \in {"min", "fetch"} => PassesAll(build'[e]["sync"], InUse')
  BY DEF DueAt, PassesAll
<1>3. pc'[e]["sync"] = "sent" /\ e \in since' =>
        \A r \in snapshot'[e] \ odd'[e] : Hidden(r)' => r \in forced'[e]
  BY DEF DueAt, Running
<1> QED BY <1>1, <1>2, <1>3 DEF DueAt

(* Steps outside the requests of devices that are due. *)
LEMMA DueFrame ==
  ASSUME Types, DueInv, due' \subseteq due, InUse' \subseteq InUse, UNCHANGED topology,
         UNCHANGED <<capability, excluded, snapshot, forced, since>>, markers \subseteq markers',
         \A e \in Devices : /\ build'[e]["sync"] = build[e]["sync"] /\ odd[e] \subseteq odd'[e]
                            /\ pc'[e]["sync"] = pc[e]["sync"]
  PROVE  DueInv'
<1>1. NothingExcludedYet'
  BY DEF DueInv, NothingExcludedYet
<1>2. \A r : Hidden(r)' = Hidden(r)
  BY DEF Hidden
<1>3. ASSUME NEW e \in due' PROVE DueAt(e)'
  <2>1. e \in due /\ e \in Devices
    BY DEF Types, GateTypes
  <2> QED BY <1>2, <2>1, DueKept DEF DueInv
<1> QED BY <1>1, <1>3 DEF DueInv

(* Steps of the /sync of d: the other devices see nothing of it. *)
LEMMA DueOthers ==
  ASSUME Types, DueInv, NEW d \in Devices, due' \subseteq due, InUse' \subseteq InUse,
         UNCHANGED <<topology, capability>>,
         \A e \in Devices : e # d =>
           /\ build'[e]["sync"] = build[e]["sync"] /\ odd'[e] = odd[e]
           /\ excluded'[e] = excluded[e] /\ snapshot'[e] = snapshot[e] /\ forced'[e] = forced[e]
           /\ pc'[e]["sync"] = pc[e]["sync"]
           /\ e \in markers => e \in markers'
           /\ e \in since' <=> e \in since,
         pc'[d]["sync"] \in Undecided => excluded'[d] = {},
         d \in due' => DueAt(d)'
  PROVE  DueInv'
<1>1. NothingExcludedYet'
  BY DEF DueInv, NothingExcludedYet
<1>2. \A r : Hidden(r)' = Hidden(r)
  BY DEF Hidden
<1>3. ASSUME NEW e \in due' PROVE DueAt(e)'
  <2>1. e \in due /\ e \in Devices
    BY DEF Types, GateTypes
  <2>2. CASE e = d
    BY <2>2
  <2>3. CASE e # d
    BY <1>2, <2>1, <2>3, DueKept DEF DueInv
  <2> QED BY <2>2, <2>3
<1> QED BY <1>1, <1>3 DEF DueInv

LEMMA PassesUp ==
  ASSUME NEW x \in Builds, NEW b \in Builds, b >= x, NEW T, T \subseteq SUBSET Builds,
         PassesAll({x}, T)
  PROVE  PassesAll({b}, T)
<1> SUFFICES ASSUME NEW m \in T PROVE Passes({b}, m)
  BY DEF PassesAll
<1>1. PICK y \in m : x >= y
  BY DEF PassesAll, Passes
<1>2. x \in Nat /\ b \in Nat /\ y \in Nat
  BY <1>1, ConstantsAssumption
<1>3. b >= y
  BY <1>1, <1>2
<1> QED BY <1>1, <1>3 DEF Passes

LEMMA InUseTypes == ASSUME Types PROVE InUse \subseteq SUBSET Builds
BY InUseFacts, MaybeFacts DEF Types, GateTypes

LEMMA PutDue ==
  ASSUME Types, DueInv, NEW d \in Devices, NEW b \in Builds, Put(d, b) PROVE DueInv'
<1>1. /\ capability' = [capability EXCEPT ![d] = {b}]
      /\ due' = IF \A x \in capability[d] : b >= x THEN due ELSE due \ {d}
      /\ UNCHANGED <<topology, markers, published, threshold, answers, build, snapshot, excluded,
                     forced, odd, since>>
  BY DEF Put, gate, request, events, client
<1>2. \A e \in Devices : pc'[e]["sync"] = pc[e]["sync"]
  BY GoesFacts DEF Put
<1>3. InUse' = InUse
  BY <1>1 DEF InUse
<1>4. \A r : Hidden(r)' = Hidden(r)
  BY <1>1 DEF Hidden
<1>5. NothingExcludedYet'
  BY <1>1, <1>2 DEF DueInv, NothingExcludedYet
<1>6. ASSUME NEW e \in due' PROVE DueAt(e)'
  <2>1. e \in due /\ e \in Devices
    BY <1>1 DEF Types, GateTypes
  <2>2. CASE e # d
    BY <1>1, <1>2, <1>3, <1>4, <2>1, <2>2, DueKept DEF DueInv, Types, GateTypes
  <2>3. CASE e = d
    <3>1. \A x \in capability[d] : b >= x
      BY <1>1, <2>3
    <3>2. capability'[d] = {b}
      BY <1>1 DEF Types, GateTypes
    <3>3. PassesAll(capability[d], InUse) => PassesAll({b}, InUse)
      <4>1. CASE capability[d] = {}
        BY <4>1, InUseFacts DEF PassesAll, Passes
      <4>2. CASE \E x \in Builds : capability[d] = {x}
        BY <3>1, <4>2, PassesUp, InUseTypes
      <4> QED BY <4>1, <4>2, MaybeFacts DEF Types, GateTypes
    <3>4. DueAt(d)
      BY <2>1, <2>3 DEF DueInv
    <3>5. /\ excluded'[d] = {} /\ pc'[d]["sync"] # "hide"
          /\ pc'[d]["sync"] \in Undecided \union {"marker"} => d \in markers'
          /\ pc'[d]["sync"] = "show" => d \in since'
      BY <1>1, <1>2, <3>4 DEF DueAt
    <3>6. /\ pc'[d]["sync"] \in {"idle", "capability"} => PassesAll(capability'[d], InUse')
          /\ pc'[d]["sync"] \in {"min", "fetch"} => PassesAll(build'[d]["sync"], InUse')
      BY <1>1, <1>2, <1>3, <3>2, <3>3, <3>4 DEF DueAt
    <3>7. pc'[d]["sync"] = "sent" /\ d \in since' =>
            \A r \in snapshot'[d] \ odd'[d] : Hidden(r)' => r \in forced'[d]
      BY <1>1, <1>2, <1>4, <3>4 DEF DueAt
    <3> QED BY <2>3, <3>5, <3>6, <3>7 DEF DueAt
  <2> QED BY <2>2, <2>3
<1> QED BY <1>5, <1>6 DEF DueInv

LEMMA MarkDue ==
  ASSUME Types, DueInv, NEW d \in Devices, Mark(d) PROVE DueInv'
<1>1. /\ markers' = markers \union {d}
      /\ due' = IF pc[d]["sync"] = "idle" /\ SurelyOpen(d) THEN due \union {d} ELSE due
      /\ UNCHANGED <<topology, capability, published, threshold, answers, build, snapshot, excluded,
                     forced, odd, since>>
  BY DEF Mark, gate, request, events, client
<1>2. \A e \in Devices : pc'[e]["sync"] = pc[e]["sync"]
  BY GoesFacts DEF Mark
<1>3. InUse' = InUse
  BY <1>1 DEF InUse
<1>4. \A r : Hidden(r)' = Hidden(r)
  BY <1>1 DEF Hidden
<1>5. NothingExcludedYet'
  BY <1>1, <1>2 DEF DueInv, NothingExcludedYet
<1>6. ASSUME NEW e \in due' PROVE DueAt(e)'
  <2>1. CASE e \in due
    <3>1. e \in Devices
      BY <2>1 DEF Types, GateTypes
    <3> QED BY <1>1, <1>2, <1>3, <1>4, <2>1, <3>1, DueKept DEF DueInv
  <2>2. CASE e = d /\ pc[d]["sync"] = "idle" /\ SurelyOpen(d)
    <3>1. PassesAll(capability'[d], InUse')
      BY <1>1, <1>3, <2>2 DEF SurelyOpen, PassesAll, InUse
    <3>2. pc'[d]["sync"] = "idle" /\ excluded'[d] = {} /\ d \in markers'
      BY <1>1, <1>2, <2>2 DEF DueInv, NothingExcludedYet, Undecided
    <3> QED BY <2>2, <3>1, <3>2 DEF DueAt
  <2> QED BY <1>1, <2>1, <2>2
<1> QED BY <1>5, <1>6 DEF DueInv

(* What the list of one /sync leaves alone, and where that /sync is then. *)
LEMMA LookUpOthers ==
  ASSUME Types, NEW d \in Devices, NEW at \in {"hide", "show"},
         LookUp(d, at) \/ \E S, D : Listed(d, at, S, D)
  PROVE  /\ \A e \in Devices : e # d =>
              /\ odd'[e] = odd[e] /\ excluded'[e] = excluded[e] /\ forced'[e] = forced[e]
              /\ pc'[e]["sync"] = pc[e]["sync"]
         /\ pc'[d]["sync"] \notin Undecided
         /\ at = "show" => UNCHANGED excluded
<1>1. CASE \E S, D : Listed(d, at, S, D)
  <2>1. PICK S, D : Listed(d, at, S, D)
    BY <1>1
  <2>2. \A e \in Devices : e # d => odd'[e] = odd[e]
    BY <2>1 DEF Listed, Types, RequestTypes
  <2>3. CASE at = "hide" /\ excluded' = [excluded EXCEPT ![d] = S] /\ Goes(d, "sync", "marker")
             /\ UNCHANGED forced
    BY <2>2, <2>3, GoesFacts DEF Undecided, Types, RequestTypes
  <2>4. CASE at = "show" /\ forced' = [forced EXCEPT ![d] = S] /\ Goes(d, "sync", "sent")
             /\ UNCHANGED excluded
    BY <2>2, <2>4, GoesFacts DEF Undecided, Types, RequestTypes
  <2> QED BY <2>1, <2>3, <2>4 DEF Listed
<1>2. CASE Goes(d, "sync", at) /\ UNCHANGED <<excluded, forced, odd>>
  BY <1>2, GoesFacts DEF Undecided
<1> QED BY <1>1, <1>2 DEF LookUp

(* The list of a /sync that is due forces every hidden room in. *)
LEMMA ListedDue ==
  ASSUME Types, NEW d \in Devices, DueAt(d), HideAt(d), Running(d), NEW S, NEW D,
         \A r \in joined[UserOf[d]] \ D : r \in S <=> Hidden(r),
         Listed(d, "show", S, D), UNCHANGED <<topology, snapshot>>
  PROVE  DueAt(d)'
<1>1. /\ forced' = [forced EXCEPT ![d] = S] /\ odd' = [odd EXCEPT ![d] = @ \union D]
      /\ Goes(d, "sync", "sent") /\ UNCHANGED excluded
  BY DEF Listed
<1>2. forced'[d] = S /\ odd'[d] = odd[d] \union D /\ pc'[d]["sync"] = "sent" /\ excluded'[d] = {}
  BY <1>1, GoesFacts DEF Types, RequestTypes, DueAt
<1>3. \A r : Hidden(r)' = Hidden(r)
  BY DEF Hidden
<1>4. \A r \in snapshot'[d] \ odd'[d] : Hidden(r)' => r \in forced'[d]
  BY <1>2, <1>3 DEF HideAt
<1> QED BY <1>2, <1>4 DEF DueAt, Undecided

LEMMA SyncDue ==
  ASSUME Types, DueInv, NEW d \in Devices, Sync(d) PROVE DueInv'
<1>1. /\ UNCHANGED <<due, topology, capability, markers, published, threshold, answers, build,
                     excluded, forced, odd, since>>
      /\ pc[d]["sync"] = "idle" /\ Goes(d, "sync", "capability")
      /\ snapshot' = [snapshot EXCEPT ![d] = joined[UserOf[d]]]
  BY DEF Sync, events, stored, gate, proof
<1>2. InUse' = InUse
  BY <1>1 DEF InUse
<1>3. /\ pc'[d]["sync"] = "capability"
      /\ \A e \in Devices : e # d => pc'[e]["sync"] = pc[e]["sync"] /\ snapshot'[e] = snapshot[e]
  BY <1>1, GoesFacts DEF Types, RequestTypes
<1>4. excluded'[d] = {}
  BY <1>1 DEF DueInv, NothingExcludedYet, Undecided
<1>5. d \in due' => DueAt(d)'
  BY <1>1, <1>2, <1>3, <1>4 DEF DueInv, DueAt, Undecided
<1> QED BY <1>1, <1>2, <1>3, <1>4, <1>5, DueOthers

LEMMA GetCapabilityDue ==
  ASSUME Types, DueInv, NEW d \in Devices, NEW k \in Kinds, GetCapability(d, k) PROVE DueInv'
<1>1. /\ UNCHANGED <<due, topology, capability, markers, published, threshold, answers, snapshot,
                     excluded, forced, odd, since>>
      /\ pc[d][k] = "capability" /\ Goes(d, k, "min")
      /\ build' = [build EXCEPT ![d][k] = capability[d]]
  BY DEF GetCapability, events, stored, gate, proof, client
<1>2. InUse' = InUse
  BY <1>1 DEF InUse
<1>3. CASE k = "put"
  <2>1. \A e \in Devices : pc'[e]["sync"] = pc[e]["sync"] /\ build'[e]["sync"] = build[e]["sync"]
    BY <1>1, <1>3, GoesFacts DEF Types, GateTypes
  <2> QED BY <1>1, <1>2, <2>1, DueFrame
<1>4. CASE k = "sync"
  <2>1. /\ pc'[d]["sync"] = "min" /\ build'[d]["sync"] = capability[d]
        /\ \A e \in Devices : e # d =>
             pc'[e]["sync"] = pc[e]["sync"] /\ build'[e]["sync"] = build[e]["sync"]
    BY <1>1, <1>4, GoesFacts DEF Types, GateTypes
  <2>2. excluded'[d] = {}
    BY <1>1, <1>4 DEF DueInv, NothingExcludedYet, Undecided
  <2>3. d \in due' => DueAt(d)'
    BY <1>1, <1>2, <1>4, <2>1, <2>2 DEF DueInv, DueAt, Undecided
  <2> QED BY <1>1, <1>2, <2>1, <2>2, <2>3, DueOthers
<1> QED BY <1>3, <1>4

(* A verdict for a threshold in use lets a device that is due through. *)
LEMMA DecideDue ==
  ASSUME Types, DueInv, NEW d \in Devices, NEW k \in Kinds, NEW m \in InUse,
         pc[d][k] \in {"min", "fetch"}, Decide(d, k, m), InUse' \subseteq InUse,
         UNCHANGED <<due, topology, capability, markers, snapshot, since>>
  PROVE  DueInv'
<1>1. build' = [build EXCEPT ![d][k] = {}]
  BY DEF Decide
<1>2. CASE k = "put" /\ UNCHANGED <<excluded, forced, odd>>
  <2>1. \A e \in Devices : pc'[e]["sync"] = pc[e]["sync"] /\ build'[e]["sync"] = build[e]["sync"]
    BY <1>1, <1>2, GoesFacts DEF Decide, Verdict, Types, GateTypes
  <2> QED BY <1>2, <2>1, DueFrame
<1>3. CASE k = "sync" /\ Goes(d, k, "marker") /\ UNCHANGED <<excluded, forced, odd>>
  <2>1. /\ pc'[d]["sync"] = "marker"
        /\ \A e \in Devices : e # d =>
             pc'[e]["sync"] = pc[e]["sync"] /\ build'[e]["sync"] = build[e]["sync"]
    BY <1>1, <1>3, GoesFacts DEF Types, GateTypes
  <2>2. d \in due' => DueAt(d)'
    BY <1>3, <2>1 DEF DueInv, DueAt, Undecided
  <2> QED BY <1>3, <2>1, <2>2, DueOthers DEF Undecided
<1>4. CASE k = "sync" /\ ~Passes(build[d][k], m) /\ LookUp(d, "hide")
  <2>1. d \notin due
    BY <1>4 DEF DueInv, DueAt, PassesAll
  <2>2. \A e \in Devices : e # d => build'[e]["sync"] = build[e]["sync"]
    BY <1>1 DEF Types, GateTypes
  <2>3. /\ \A e \in Devices : e # d =>
             /\ odd'[e] = odd[e] /\ excluded'[e] = excluded[e] /\ forced'[e] = forced[e]
             /\ pc'[e]["sync"] = pc[e]["sync"]
        /\ pc'[d]["sync"] \notin Undecided
    BY <1>4, LookUpOthers
  <2> QED BY <2>1, <2>2, <2>3, DueOthers
<1> QED BY <1>2, <1>3, <1>4 DEF Decide, Verdict

LEMMA GetMinBuildDue ==
  ASSUME Types, DueInv, NEW d \in Devices, NEW k \in Kinds, GetMinBuild(d, k) PROVE DueInv'
<1>1. /\ UNCHANGED <<due, topology, capability, markers, published, threshold, snapshot, since>>
      /\ pc[d][k] = "min"
  BY DEF GetMinBuild, events, stored, gate, proof, client
<1>2. CASE Decide(d, k, threshold) /\ UNCHANGED answers
  <2>1. InUse' = InUse /\ threshold \in InUse
    BY <1>1, <1>2 DEF InUse
  <2> QED BY <1>1, <1>2, <2>1, DecideDue
<1>3. CASE /\ answers' = [answers EXCEPT ![d][k] = {published}] /\ Goes(d, k, "fetch")
           /\ UNCHANGED <<build, excluded, forced, odd>>
  <2>1. InUse' \subseteq InUse
    BY <1>1, <1>3, InUseFacts DEF Types, GateTypes
  <2>2. CASE k = "put"
    <3>1. \A e \in Devices : pc'[e]["sync"] = pc[e]["sync"]
      BY <1>3, <2>2, GoesFacts
    <3> QED BY <1>1, <1>3, <2>1, <3>1, DueFrame
  <2>3. CASE k = "sync"
    <3>1. pc'[d]["sync"] = "fetch" /\ \A e \in Devices : e # d => pc'[e]["sync"] = pc[e]["sync"]
      BY <1>3, <2>3, GoesFacts
    <3>2. excluded'[d] = {}
      BY <1>1, <1>3, <2>3 DEF DueInv, NothingExcludedYet, Undecided
    <3>3. d \in due' => DueAt(d)'
      BY <1>1, <1>3, <2>1, <2>3, <3>1, <3>2 DEF DueInv, DueAt, Undecided, PassesAll
    <3> QED BY <1>1, <1>3, <2>1, <3>1, <3>2, <3>3, DueOthers
  <2> QED BY <2>2, <2>3
<1> QED BY <1>2, <1>3 DEF GetMinBuild

LEMMA AnswerDue ==
  ASSUME Types, DueInv, NEW d \in Devices, NEW k \in Kinds, Answer(d, k) \/ NoAnswer(d, k)
  PROVE  DueInv'
<1>1. /\ UNCHANGED <<due, topology, capability, markers, published, snapshot, since>>
      /\ pc[d][k] = "fetch" /\ answers' = [answers EXCEPT ![d][k] = {}]
  BY DEF Answer, NoAnswer, events, stored, gate, proof, client
<1>2. PICK m \in InUse : Decide(d, k, m) /\ (threshold' = m \/ threshold' = threshold)
  BY InUseFacts DEF Answer, NoAnswer, gate
<1>3. InUse' \subseteq InUse
  BY <1>1, <1>2, InUseFacts DEF Types, GateTypes
<1> QED BY <1>1, <1>2, <1>3, DecideDue

LEMMA MarkerDue ==
  ASSUME Types, ListInv, HideInv, DueInv, NEW d \in Devices, Marker(d) PROVE DueInv'
<1>1. /\ UNCHANGED <<due, topology, joined, capability, published, threshold, answers, build,
                     snapshot, since>>
      /\ pc[d]["sync"] = "marker" /\ markers \ {d} \subseteq markers'
  BY DEF Marker, events, gate, proof, client
<1>2. InUse' = InUse
  BY <1>1 DEF InUse
<1>3. CASE d \in since /\ LookUp(d, "show")
  <2>1. /\ \A e \in Devices : e # d =>
             /\ odd'[e] = odd[e] /\ excluded'[e] = excluded[e] /\ forced'[e] = forced[e]
             /\ pc'[e]["sync"] = pc[e]["sync"]
        /\ pc'[d]["sync"] \notin Undecided
    BY <1>3, LookUpOthers
  <2>2. ASSUME d \in due PROVE DueAt(d)'
    <3>1. DueAt(d) /\ HideAt(d) /\ Running(d)
      BY <1>1, <2>2 DEF DueInv, HideInv, Running
    <3>2. ASSUME NEW S \in cache[UserOf[d]], Listed(d, "show", S, tainted[UserOf[d]])
          PROVE  DueAt(d)'
      <4>1. \A r \in joined[UserOf[d]] \ tainted[UserOf[d]] : r \in S <=> Hidden(r)
        BY ConstantsAssumption DEF ListInv, TrueAt
      <4> QED BY <1>1, <3>1, <3>2, <4>1, ListedDue
    <3>3. CASE Goes(d, "sync", "show") /\ UNCHANGED excluded
      <4>1. pc'[d]["sync"] = "show"
        BY <3>3, GoesFacts
      <4> QED BY <1>1, <1>3, <3>1, <3>3, <4>1 DEF DueAt, Undecided
    <3> QED BY <1>3, <3>2, <3>3 DEF LookUp
  <2> QED BY <1>1, <1>2, <2>1, <2>2, DueOthers
<1>4. CASE /\ ~(d \in since /\ d \in markers) /\ Goes(d, "sync", "sent")
           /\ UNCHANGED <<markers, excluded, forced, odd>>
  <2>1. pc'[d]["sync"] = "sent" /\ \A e \in Devices : e # d => pc'[e]["sync"] = pc[e]["sync"]
    BY <1>4, GoesFacts
  <2>2. d \in due => DueAt(d)'
    BY <1>1, <1>4, <2>1 DEF DueInv, DueAt, Undecided
  <2> QED BY <1>1, <1>2, <1>4, <2>1, <2>2, DueOthers DEF Undecided
<1> QED BY <1>3, <1>4 DEF Marker

LEMMA StoreDue ==
  ASSUME Types, ListInv, HideInv, DueInv, NEW d \in Devices, Store(d) PROVE DueInv'
<1>1. /\ UNCHANGED <<due, topology, joined, capability, markers, published, threshold, answers,
                     build, snapshot, since>>
      /\ Reading(d) /\ todo[d] = {} /\ Listed(d, pc[d]["sync"], found[d], late[d])
  BY DEF Store, events, stored, gate, proof, client, Reading
<1>2. InUse' = InUse
  BY <1>1 DEF InUse
<1>3. /\ \A e \in Devices : e # d =>
             /\ odd'[e] = odd[e] /\ excluded'[e] = excluded[e] /\ forced'[e] = forced[e]
             /\ pc'[e]["sync"] = pc[e]["sync"]
      /\ pc'[d]["sync"] \notin Undecided
  BY <1>1, LookUpOthers DEF Reading
<1>4. ASSUME d \in due PROVE DueAt(d)'
  <2>1. DueAt(d) /\ HideAt(d)
    BY <1>4 DEF DueInv, HideInv
  <2>2. pc[d]["sync"] = "show" /\ Running(d)
    BY <1>1, <2>1 DEF DueAt, Reading, Running
  <2>3. \A r \in joined[UserOf[d]] \ late[d] : r \in found[d] <=> Hidden(r)
    BY <1>1 DEF ListInv, ReadingAt
  <2> QED BY <1>1, <2>1, <2>2, <2>3, ListedDue
<1> QED BY <1>1, <1>2, <1>3, <1>4, DueOthers

LEMMA EndDue ==
  ASSUME Types, DueInv, NEW d \in Devices, Receive(d) \/ Lose(d) PROVE DueInv'
<1>1. /\ UNCHANGED <<topology, capability, markers, published, threshold, answers, build>>
      /\ due' = due \ {d} /\ Forget({d}) /\ Goes(d, "sync", "idle")
      /\ since' = since \/ since' = since \union {d}
  BY DEF Receive, Lose, events, stored, gate
<1>2. InUse' = InUse
  BY <1>1 DEF InUse
<1>3. \A e \in Devices : e # d => pc'[e]["sync"] = pc[e]["sync"]
  BY <1>1, GoesFacts
<1>4. /\ excluded'[d] = {}
      /\ \A e \in Devices : e # d =>
           /\ odd'[e] = odd[e] /\ excluded'[e] = excluded[e] /\ forced'[e] = forced[e]
           /\ snapshot'[e] = snapshot[e]
  BY <1>1 DEF Forget
<1> QED BY <1>1, <1>2, <1>3, <1>4, DueOthers

LEMMA DoubtDue ==
  ASSUME Types, DueInv, NEW r \in Rooms, NEW u, NEW hidden,
         SetTopology(r, hidden) \/ Join(u, r) \/ Leave(u, r)
  PROVE  DueInv'
<1>1. UNCHANGED <<due, capability, markers, published, threshold, answers, build, snapshot,
                  excluded, forced, since, pc>>
  BY DEF SetTopology, Join, Leave, stored, gate, request, proof, client
<1>2. InUse' = InUse
  BY <1>1 DEF InUse
<1>3. NothingExcludedYet'
  BY <1>1 DEF DueInv, NothingExcludedYet
<1>4. \A e \in Devices : odd[e] \subseteq odd'[e]
  BY DEF SetTopology, Join, Leave, Doubt
<1>5. \A e \in Devices : \A x : Hidden(x)' => Hidden(x) \/ x \in odd'[e] \/ ~Running(e)
  <2>1. CASE SetTopology(r, hidden)
    <3>1. \A x : x # r => topology'[x] = topology[x]
      BY <2>1 DEF SetTopology, Types, EventTypes
    <3>2. \A e \in Devices : Running(e) => r \in odd'[e]
      BY <2>1, ConstantsAssumption DEF SetTopology, Doubt
    <3> QED BY <3>1, <3>2 DEF Hidden
  <2>2. CASE Join(u, r) \/ Leave(u, r)
    BY <2>2 DEF Join, Leave, Hidden
  <2> QED BY <2>1, <2>2
<1>6. ASSUME NEW e \in due' PROVE DueAt(e)'
  <2>1. e \in due /\ e \in Devices
    BY <1>1 DEF Types, GateTypes
  <2> QED BY <1>1, <1>2, <1>4, <1>5, <2>1, DueKept DEF DueInv
<1> QED BY <1>3, <1>6 DEF DueInv

LEMMA PublishDue ==
  ASSUME Types, DueInv, NEW m, Publish(m) PROVE DueInv'
<1>1. /\ UNCHANGED <<capability, markers, threshold, excluded, pc>>
      /\ published' = m
      /\ due' = {d \in due : Passes(capability[d], m) /\ ~Running(d)}
      /\ \A d \in Devices, k \in Kinds : answers'[d][k] \subseteq answers[d][k] \union {m}
  BY DEF Publish, stored
<1>2. InUse' \subseteq InUse \union {m}
  BY <1>1, InUseFacts
<1>3. NothingExcludedYet'
  BY <1>1 DEF DueInv, NothingExcludedYet
<1>4. ASSUME NEW e \in due' PROVE DueAt(e)'
  <2>1. e \in due /\ Passes(capability[e], m) /\ pc[e]["sync"] = "idle"
    BY <1>1 DEF Running
  <2>2. PassesAll(capability'[e], InUse')
    BY <1>1, <1>2, <2>1 DEF DueInv, DueAt, PassesAll
  <2> QED BY <1>1, <2>1, <2>2 DEF DueInv, DueAt, Undecided
<1> QED BY <1>3, <1>4 DEF DueInv

LEMMA OtherDue ==
  ASSUME Types, DueInv,
         \/ \E d \in Devices, r \in Rooms : ReadRoom(d, r)
         \/ \E r \in Rooms : OnNewEvent(r) \/ \E u : Invite(u, r)
         \/ Expire \/ Restart
         \/ UNCHANGED vars
  PROVE  DueInv'
<1>1. ASSUME UNCHANGED <<due, topology, capability, markers, published, threshold, answers, build,
                         snapshot, excluded, forced, odd, since, pc>>
      PROVE  DueInv'
  BY <1>1, DueFrame DEF InUse
<1>2. ASSUME NEW d, NEW r, ReadRoom(d, r) PROVE DueInv'
  BY <1>1, <1>2 DEF ReadRoom, events, stored, gate, client, request, proof
<1>3. ASSUME NEW r, OnNewEvent(r) PROVE DueInv'
  BY <1>1, <1>3 DEF OnNewEvent, stored, gate, client, request, proof
<1>4. ASSUME Expire PROVE DueInv'
  BY <1>1, <1>4 DEF Expire, events, stored, client, request, proof
<1>5. ASSUME Restart PROVE DueInv'
  BY <1>5 DEF Restart, Forget, DueInv, NothingExcludedYet
<1>6. ASSUME UNCHANGED vars PROVE DueInv'
  BY <1>1, <1>6 DEF vars, events, stored, gate, client, request, proof
<1>7. ASSUME NEW r, NEW u, Invite(u, r) PROVE DueInv'
  BY <1>1, <1>7 DEF Invite, events, stored, gate, request, proof
<1> QED BY <1>2, <1>3, <1>4, <1>5, <1>6, <1>7

-----------------------------------------------------------------------------
(* The inductive invariant and the theorems *)

Inv == Types /\ EvidenceInv /\ ListInv /\ HideInv /\ DueInv

LEMMA InitInv == Init => Inv
<1> SUFFICES ASSUME Init PROVE Inv
  OBVIOUS
<1>1. Types
  BY InitTypes
<1>2. EvidenceInv
  BY DEF Init, EvidenceInv, FromReports, FromService, OpenedWithProof
<1>3. ListInv
  BY DEF Init, ListInv, TrueAt, ReadingAt, Reading
<1>4. HideInv
  BY DEF Init, HideInv, HideAt, Running, Chosen
<1>5. DueInv
  BY DEF Init, DueInv, NothingExcludedYet
<1> QED BY <1>1, <1>2, <1>3, <1>4, <1>5 DEF Inv

LEMMA NextInv == ASSUME Inv, [Next]_vars PROVE Inv'
<1>0. Types /\ EvidenceInv /\ ListInv /\ HideInv /\ DueInv /\ Types'
  BY TypesStep DEF Inv
<1> DEFINE Kept == EvidenceInv' /\ ListInv' /\ HideInv' /\ DueInv'
<1>1. ASSUME NEW d \in Devices, NEW b \in Builds, Put(d, b) PROVE Kept
  BY <1>0, <1>1, PutEvidence, OtherList, OtherHide, PutDue
<1>2. ASSUME NEW d \in Devices, Mark(d) PROVE Kept
  BY <1>0, <1>2, MarkEvidence, OtherList, OtherHide, MarkDue
<1>3. ASSUME NEW d \in Devices, Sync(d) PROVE Kept
  BY <1>0, <1>3, OtherEvidence, OtherList, OtherHide, SyncDue
<1>4. ASSUME NEW d \in Devices, Marker(d) PROVE Kept
  BY <1>0, <1>4, OtherEvidence, OtherList, OtherHide, MarkerDue
<1>5. ASSUME NEW d \in Devices, Receive(d) \/ Lose(d) PROVE Kept
  BY <1>0, <1>5, OtherEvidence, OtherList, OtherHide, EndDue
<1>6. ASSUME NEW d \in Devices, Store(d) PROVE Kept
  BY <1>0, <1>6, OtherEvidence, StoreList, StoreHide, StoreDue
<1>7. ASSUME NEW d \in Devices, NEW r \in Rooms, ReadRoom(d, r) PROVE Kept
  BY <1>0, <1>7, OtherEvidence, ReadRoomList, OtherHide, OtherDue
<1>8. ASSUME NEW d \in Devices, NEW k \in Kinds, GetCapability(d, k) PROVE Kept
  BY <1>0, <1>8, GetCapabilityEvidence, RequestList, RequestHide, GetCapabilityDue
<1>9. ASSUME NEW d \in Devices, NEW k \in Kinds, GetMinBuild(d, k) PROVE Kept
  BY <1>0, <1>9, GetMinBuildEvidence, RequestList, RequestHide, GetMinBuildDue
<1>10. ASSUME NEW d \in Devices, NEW k \in Kinds, Answer(d, k) \/ NoAnswer(d, k) PROVE Kept
  BY <1>0, <1>10, AnswerEvidence, NoAnswerEvidence, RequestList, RequestHide, AnswerDue
<1>11. ASSUME NEW r \in Rooms, NEW hidden \in BOOLEAN, SetTopology(r, hidden) PROVE Kept
  BY <1>0, <1>11, OtherEvidence, SetTopologyList, SetTopologyHide, DoubtDue
<1>12. ASSUME NEW r \in Rooms, OnNewEvent(r) PROVE Kept
  BY <1>0, <1>12, OtherEvidence, OtherList, OtherHide, OtherDue
<1>13. ASSUME NEW r \in Rooms, NEW u, Join(u, r) \/ Leave(u, r) PROVE Kept
  BY <1>0, <1>13, OtherEvidence, MemberList, MemberHide, DoubtDue
<1>19. ASSUME NEW r \in Rooms, NEW u, Invite(u, r) PROVE Kept
  BY <1>0, <1>19, OtherEvidence, OtherList, OtherHide, OtherDue
<1>14. ASSUME NEW m, Publish(m) PROVE Kept
  BY <1>0, <1>14, PublishEvidence, OtherList, OtherHide, PublishDue
<1>15. ASSUME Expire PROVE Kept
  BY <1>0, <1>15, OtherEvidence, OtherList, OtherHide, OtherDue
<1>16. ASSUME Restart PROVE Kept
  BY <1>0, <1>16, RestartEvidence, OtherList, OtherHide, OtherDue
<1>17. ASSUME UNCHANGED vars PROVE Kept
  BY <1>0, <1>17, OtherEvidence, OtherList, OtherHide, OtherDue
<1>18. Kept
  <2> HIDE DEF Kept
  <2>1. ASSUME NEW r \in Rooms,
               \/ \E hidden \in BOOLEAN : SetTopology(r, hidden)
               \/ OnNewEvent(r)
               \/ \E d \in left.devices :
                    Join(UserOf[d], r) \/ Leave(UserOf[d], r) \/ Invite(UserOf[d], r)
        PROVE  Kept
    BY <2>1, <1>11, <1>12, <1>13, <1>19
  <2>2. CASE Next
    BY <2>1, <2>2, <1>1, <1>2, <1>3, <1>4, <1>5, <1>6, <1>7, <1>8, <1>9, <1>10, <1>14, <1>15,
       <1>16 DEF Next
  <2> QED BY <2>2, <1>17
<1> QED BY <1>0, <1>18 DEF Inv

LEMMA InvHolds == Spec => []Inv
<1>1. Inv /\ [Next]_vars => Inv'
  BY NextInv
<1> QED BY <1>1, InitInv, PTL DEF Spec

(* Every variable keeps its type, whatever the requests, events and        *)
(* restarts and in whatever order they come.                               *)
THEOREM TypeCorrect == Spec => []TypeOK
<1>1. Inv => TypeOK
  BY TypesAreTypeOK DEF Inv
<1> QED BY <1>1, InvHolds, PTL

(* The list of hidden rooms that get_hidden_room_ids_for_user returns from *)
(* its cache is right about every room of the user that did not change     *)
(* behind its back.                                                        *)
THEOREM ListsAreTrue == Spec => []ListIsTrue
<1>1. Inv => ListIsTrue
  BY DEF Inv, ListInv, TrueAt, ListIsTrue
<1> QED BY <1>1, InvHolds, PTL

(* The response to a /sync that device_passed_gate did not let pass has no *)
(* hidden room among the joined ones, but for rooms that changed while it  *)
(* ran; a hidden room in it is in the sections for invites, knocks and     *)
(* leaves, which are taken from membership events without a look at the    *)
(* list.                                                                   *)
THEOREM ClosedGateHides == Spec => []HiddenOnlyBeside
<1>1. Inv => HiddenOnlyBeside
  BY DEF Inv, HideInv, HideAt, Chosen, HiddenOnlyBeside
<1> QED BY <1>1, InvHolds, PTL

(* Neither device_passed_gate nor a marker opens the gate to a device that *)
(* has not itself reported a build the service's threshold admits.         *)
THEOREM GateOpensWithProof == Spec => []OpenOnlyWithProof
<1>1. Inv => OpenOnlyWithProof
  BY DEF Inv, EvidenceInv, OpenedWithProof, Proven, OpenOnlyWithProof
<1> QED BY <1>1, InvHolds, PTL

(* The marker that a PUT leaves brings every hidden room whole with the    *)
(* next /sync of the device, however requests of other devices, the TTL    *)
(* and the version-gate service come in between.                           *)
THEOREM FirstSyncBringsAll == Spec => []FirstSyncIsWhole
<1>1. ASSUME Inv, NEW d \in due, pc[d]["sync"] = "sent",
             NEW r \in snapshot[d] \ odd[d], Hidden(r)
      PROVE  r \in Whole(d)
  <2>1. DueAt(d)
    BY <1>1 DEF Inv, DueInv
  <2> QED BY <1>1, <2>1 DEF DueAt, Whole, Shown
<1>2. Inv => FirstSyncIsWhole
  BY <1>1 DEF FirstSyncIsWhole
<1> QED BY <1>2, InvHolds, PTL

=============================================================================
