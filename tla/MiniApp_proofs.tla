--------------------------- MODULE MiniApp_proofs ---------------------------
(***************************************************************************)
(* Safety of the miniapp module, for any apps, users, rooms, requests,     *)
(* times to live, window, limit and bounds.                                *)
(*                                                                         *)
(* The registry: one fetch at a time makes its snapshots move forward.     *)
(*                                                                         *)
(* The tickets: what a nonce was when it was created, whether it was       *)
(* presented and what is left of it in the store is one invariant for each *)
(* nonce; requests past the room check are another.  The limiter keeps the *)
(* requests of the last window, no more and no fewer, which bounds them.   *)
(***************************************************************************)
EXTENDS MiniAppRegistry, MiniAppTickets, FiniteSetTheorems, TLAPS

-----------------------------------------------------------------------------
(* The registry *)

LEMMA EmptyTyped == Empty \in [Apps -> Statuses]
  BY DEF Empty, Statuses

(* A request that waits or answers keeps its type. *)
LEMMA WaitingTyped ==
  ASSUME NEW r \in Request, NEW pc \in {"sent", "answered"},
         NEW snapshot \in [Apps -> Statuses], NEW ver \in Versions
  PROVE  Waiting(r, pc, snapshot, ver) \in Request
  BY DEF Waiting, Request

LEMMA AnsweredTyped ==
  ASSUME NEW r \in Request, NEW dyn \in [Apps -> Statuses]
  PROVE  Answered(r, dyn) \in Request
<1>1. Answer(r, dyn) \in {"none", "ok", "not_found", "suspended"}
  BY DEF Answer
<1>2. 0 \in Versions
  BY RegistryAssumption DEF Versions
<1> QED
  BY <1>1, <1>2, EmptyTyped DEF Answered, Request

LEMMA IncomingTyped ==
  ASSUME version \in Versions, NEW kind \in Kinds, NEW a \in Apps
  PROVE  Incoming(kind, a) \in Request
<1>1. 0 \in Versions
  BY RegistryAssumption DEF Versions
<1> QED
  BY <1>1, EmptyTyped DEF Incoming, Request

LEMMA FreeTyped == \A a \in Apps : Free(a) \in Request
<1>1. 0 \in Versions
  BY RegistryAssumption DEF Versions
<1> QED
  BY <1>1, EmptyTyped DEF Free, Request, Kinds

(* maybe_refresh changes one request, which then is fetching or done. *)
LEMMA MaybeRefreshTyped ==
  ASSUME RegistryTypeOK, NEW i \in Requests, NEW r \in Request, NEW stale \in BOOLEAN,
         MaybeRefresh(i, r, stale)
  PROVE  /\ refreshing' \in {"yes", "no"}
         /\ request' \in [Requests -> Request]
<1>1. Waiting(r, "sent", Empty, 0) \in Request
  BY WaitingTyped, EmptyTyped, RegistryAssumption DEF Versions
<1>2. Answered(r, dynamic) \in Request
  BY AnsweredTyped DEF RegistryTypeOK
<1> QED
  BY <1>1, <1>2 DEF MaybeRefresh, RegistryTypeOK

LEMMA RegistryCases ==
  ASSUME RegistryNext
  PROVE  \/ \E i \in Requests, kind \in {"init_data", "apps"}, a \in Apps : Ask(i, kind, a)
         \/ \E i \in Requests, a \in Apps : RegistryRefresh(i, a)
         \/ \E i \in Requests :
              PortalAnswers(i) \/ FetchFails(i) \/ ApplySnapshot(i) \/ Finish(i)
         \/ \E a \in Apps, s \in Statuses : PortalChanges(a, s)
         \/ RegistryTick
  BY Zenon DEF RegistryNext, SomeoneAsks, Fetch

(* Type correctness. *)
THEOREM RegistryTypeCorrect == RegistrySpec => []RegistryTypeOK
<1>1. RegistryInit => RegistryTypeOK
  <2> SUFFICES ASSUME RegistryInit PROVE RegistryTypeOK
    OBVIOUS
  <2>1. request \in [Requests -> Request]
    BY FreeTyped DEF RegistryInit
  <2> QED
    BY <2>1, EmptyTyped, RegistryAssumption DEF RegistryInit, RegistryTypeOK, Versions
<1>2. RegistryTypeOK /\ [RegistryNext]_registry => RegistryTypeOK'
  <2> SUFFICES ASSUME RegistryTypeOK, [RegistryNext]_registry PROVE RegistryTypeOK'
    OBVIOUS
  <2>1. ASSUME NEW i \in Requests, NEW kind \in {"init_data", "apps"}, NEW a \in Apps,
               Ask(i, kind, a)
        PROVE  RegistryTypeOK'
    <3>1. Incoming(kind, a) \in Request
      BY IncomingTyped DEF RegistryTypeOK, Kinds
    <3>2. NeedsRefresh \in BOOLEAN
      BY DEF NeedsRefresh
    <3> QED
      BY <2>1, <3>1, <3>2, MaybeRefreshTyped DEF Ask, RegistryTypeOK
  <2>2. ASSUME NEW i \in Requests, NEW a \in Apps, RegistryRefresh(i, a)
        PROVE  RegistryTypeOK'
    <3>1. Incoming("registry_refresh", a) \in Request
      BY IncomingTyped DEF RegistryTypeOK, Kinds
    <3>2. refreshing' \in {"yes", "no"} /\ request' \in [Requests -> Request]
      BY <2>2, <3>1, MaybeRefreshTyped DEF RegistryRefresh
    <3>3. age' \in 0..RegistryTTL
      BY <2>2, RegistryAssumption DEF RegistryRefresh
    <3> QED
      BY <2>2, <3>2, <3>3 DEF RegistryRefresh, RegistryTypeOK
  <2>3. ASSUME NEW i \in Requests, PortalAnswers(i) PROVE RegistryTypeOK'
    <3>1. Waiting(request[i], "answered", portal, version) \in Request
      BY WaitingTyped DEF RegistryTypeOK
    <3> QED
      BY <2>3, <3>1 DEF PortalAnswers, RegistryTypeOK
  <2>4. ASSUME NEW i \in Requests, FetchFails(i) PROVE RegistryTypeOK'
    <3>1. Answered(request[i], dynamic) \in Request
      BY AnsweredTyped DEF RegistryTypeOK
    <3> QED
      BY <2>4, <3>1, RegistryAssumption DEF FetchFails, RegistryTypeOK
  <2>5. ASSUME NEW i \in Requests, ApplySnapshot(i) PROVE RegistryTypeOK'
    <3>1. request[i].snapshot \in [Apps -> Statuses] /\ request[i].ver \in Versions
      BY DEF RegistryTypeOK, Request
    <3>2. Answered(request[i], request[i].snapshot) \in Request
      BY <3>1, AnsweredTyped DEF RegistryTypeOK
    <3> QED
      BY <2>5, <3>1, <3>2, RegistryAssumption DEF ApplySnapshot, RegistryTypeOK
  <2>6. ASSUME NEW i \in Requests, Finish(i) PROVE RegistryTypeOK'
    <3>1. Free(request[i].app) \in Request
      BY FreeTyped DEF RegistryTypeOK, Request
    <3> QED
      BY <2>6, <3>1 DEF Finish, RegistryTypeOK
  <2>7. ASSUME NEW a \in Apps, NEW s \in Statuses, PortalChanges(a, s) PROVE RegistryTypeOK'
    BY <2>7, RegistryAssumption DEF PortalChanges, RegistryTypeOK, Versions
  <2>8. CASE RegistryTick
    BY <2>8, RegistryAssumption DEF RegistryTick, RegistryTypeOK
  <2>9. CASE UNCHANGED registry
    BY <2>9 DEF registry, RegistryTypeOK
  <2> QED
    BY <2>1, <2>2, <2>3, <2>4, <2>5, <2>6, <2>7, <2>8, <2>9, RegistryCases
<1> QED
  BY <1>1, <1>2, PTL DEF RegistrySpec

-----------------------------------------------------------------------------
(***************************************************************************)
(* The inductive invariant: one fetch at a time, and the answer it carries *)
(* is not older than the snapshot held, because the portal gave it after   *)
(* the snapshot before was applied.                                        *)
(***************************************************************************)
AnswersAreRecent ==
  /\ held <= version
  /\ \A i \in Requests : request[i].pc = "answered" =>
       held <= request[i].ver /\ request[i].ver <= version

IInv == OneFetchAtATime /\ AnswersAreRecent

LEMMA IInvInit == RegistryInit => IInv
<1> SUFFICES ASSUME RegistryInit PROVE IInv
  OBVIOUS
<1>1. \A i \in Requests : request[i].pc = "idle"
  BY DEF RegistryInit, Free
<1> QED
  BY <1>1 DEF RegistryInit, IInv, OneFetchAtATime, AnswersAreRecent, Fetching

(* A request that starts fetches only when nobody else does. *)
LEMMA MaybeRefreshKeeps ==
  ASSUME RegistryTypeOK, IInv, NEW i \in Requests, request[i].pc = "idle",
         NEW r \in Request, NEW stale \in BOOLEAN, MaybeRefresh(i, r, stale),
         UNCHANGED <<version, held>>
  PROVE  IInv'
<1>1. CASE /\ refreshing = "no" /\ refreshing' = "yes"
           /\ request' = [request EXCEPT ![i] = Waiting(r, "sent", Empty, 0)]
  <2>1. \A j \in Requests : request'[j].pc = IF j = i THEN "sent" ELSE request[j].pc
    BY <1>1 DEF RegistryTypeOK, Waiting
  <2>2. \A j \in Requests : j # i => request'[j] = request[j]
    BY <1>1 DEF RegistryTypeOK
  <2> QED
    BY <1>1, <2>1, <2>2 DEF IInv, OneFetchAtATime, AnswersAreRecent, Fetching
<1>2. CASE /\ UNCHANGED refreshing
           /\ request' = [request EXCEPT ![i] = Answered(r, dynamic)]
  <2>1. \A j \in Requests : request'[j].pc = IF j = i THEN "done" ELSE request[j].pc
    BY <1>2 DEF RegistryTypeOK, Answered
  <2>2. \A j \in Requests : j # i => request'[j] = request[j]
    BY <1>2 DEF RegistryTypeOK
  <2> QED
    BY <1>2, <2>1, <2>2 DEF IInv, OneFetchAtATime, AnswersAreRecent, Fetching
<1> QED
  BY <1>1, <1>2 DEF MaybeRefresh

LEMMA IInvNext == RegistryTypeOK /\ IInv /\ [RegistryNext]_registry => IInv'
<1> SUFFICES ASSUME RegistryTypeOK, IInv, [RegistryNext]_registry PROVE IInv'
  OBVIOUS
<1>1. ASSUME NEW i \in Requests, NEW kind \in {"init_data", "apps"}, NEW a \in Apps,
             Ask(i, kind, a)
      PROVE  IInv'
  <2>1. Incoming(kind, a) \in Request
    BY IncomingTyped DEF RegistryTypeOK, Kinds
  <2>2. NeedsRefresh \in BOOLEAN
    BY DEF NeedsRefresh
  <2> QED
    BY <1>1, <2>1, <2>2, MaybeRefreshKeeps DEF Ask
<1>2. ASSUME NEW i \in Requests, NEW a \in Apps, RegistryRefresh(i, a)
      PROVE  IInv'
  <2>1. Incoming("registry_refresh", a) \in Request
    BY IncomingTyped DEF RegistryTypeOK, Kinds
  <2> QED
    BY <1>2, <2>1, MaybeRefreshKeeps DEF RegistryRefresh
<1>3. ASSUME NEW i \in Requests, PortalAnswers(i) PROVE IInv'
  <2>1. \A j \in Requests : j # i => request'[j] = request[j]
    BY <1>3 DEF PortalAnswers, RegistryTypeOK
  <2>2. request'[i].pc = "answered" /\ request'[i].ver = version
    BY <1>3 DEF PortalAnswers, RegistryTypeOK, Waiting
  <2>3. version <= version
    BY DEF RegistryTypeOK, Versions
  <2> QED
    BY <1>3, <2>1, <2>2, <2>3 DEF PortalAnswers, IInv, OneFetchAtATime, AnswersAreRecent, Fetching
<1>4. ASSUME NEW i \in Requests, FetchFails(i) PROVE IInv'
  <2>1. \A j \in Requests : j # i => request'[j] = request[j]
    BY <1>4 DEF FetchFails, RegistryTypeOK
  <2>2. request'[i].pc = "done"
    BY <1>4 DEF FetchFails, RegistryTypeOK, Answered
  <2> QED
    BY <1>4, <2>1, <2>2 DEF FetchFails, IInv, OneFetchAtATime, AnswersAreRecent, Fetching
<1>5. ASSUME NEW i \in Requests, ApplySnapshot(i) PROVE IInv'
  <2>1. \A j \in Requests : j # i => request'[j] = request[j]
    BY <1>5 DEF ApplySnapshot, RegistryTypeOK
  <2>2. request'[i].pc = "done"
    BY <1>5 DEF ApplySnapshot, RegistryTypeOK, Answered
  <2> QED
    BY <1>5, <2>1, <2>2 DEF ApplySnapshot, IInv, OneFetchAtATime, AnswersAreRecent, Fetching
<1>6. ASSUME NEW i \in Requests, Finish(i) PROVE IInv'
  <2>1. \A j \in Requests : j # i => request'[j] = request[j]
    BY <1>6 DEF Finish, RegistryTypeOK
  <2>2. request'[i].pc = "idle"
    BY <1>6 DEF Finish, RegistryTypeOK, Free
  <2> QED
    BY <1>6, <2>1, <2>2 DEF Finish, IInv, OneFetchAtATime, AnswersAreRecent, Fetching
<1>7. ASSUME NEW a \in Apps, NEW s \in Statuses, PortalChanges(a, s) PROVE IInv'
  <2>1. \A i \in Requests : request[i].ver \in Nat
    BY DEF RegistryTypeOK, Request, Versions
  <2> QED
    BY <1>7, <2>1
    DEF PortalChanges, IInv, OneFetchAtATime, AnswersAreRecent, Fetching, RegistryTypeOK, Versions
<1>8. CASE RegistryTick
  BY <1>8 DEF RegistryTick, IInv, OneFetchAtATime, AnswersAreRecent, Fetching
<1>9. CASE UNCHANGED registry
  BY <1>9 DEF registry, IInv, OneFetchAtATime, AnswersAreRecent, Fetching
<1> QED
  BY <1>1, <1>2, <1>3, <1>4, <1>5, <1>6, <1>7, <1>8, <1>9, RegistryCases

LEMMA IInvHolds == RegistrySpec => []IInv
  BY RegistryTypeCorrect, IInvInit, IInvNext, PTL DEF RegistrySpec

(* The flag is up exactly while the one fetch is under way: no failure can  *)
(* stop the registry from ever refreshing again.                            *)
THEOREM FlagIsSound == RegistrySpec => []OneFetchAtATime
<1>1. IInv => OneFetchAtATime
  BY DEF IInv
<1> QED
  BY <1>1, IInvHolds, PTL

(* The snapshot held is never replaced by an older one. *)
THEOREM SnapshotsMoveForward == RegistrySpec => SnapshotNeverGoesBack
<1>1. RegistryTypeOK /\ IInv /\ [RegistryNext]_registry => [held' >= held]_registry
  <2> SUFFICES ASSUME RegistryTypeOK, IInv, RegistryNext PROVE held' >= held
    OBVIOUS
  <2>1. held >= held
    BY DEF RegistryTypeOK, Versions
  <2>2. ASSUME NEW i \in Requests, ApplySnapshot(i) PROVE held' >= held
    BY <2>2 DEF ApplySnapshot, IInv, AnswersAreRecent, RegistryTypeOK, Versions, Request
  <2>3. CASE UNCHANGED held
    BY <2>1, <2>3
  <2>4. UNCHANGED held \/ \E i \in Requests : ApplySnapshot(i)
    BY RegistryCases
    DEF Ask, RegistryRefresh, PortalAnswers, FetchFails, Finish, PortalChanges, RegistryTick
  <2> QED
    BY <2>2, <2>3, <2>4
<1>2. RegistrySpec => [][held' >= held]_registry
  BY <1>1, RegistryTypeCorrect, IInvHolds, PTL DEF RegistrySpec
<1> QED
  BY <1>2 DEF SnapshotNeverGoesBack

-----------------------------------------------------------------------------
(* The tickets *)

NoncesTyped ==
  /\ slot \in [Slots -> Slot]
  /\ store \in [Nonces -> Entry \union {NoEntry}]
  /\ born \in [Nonces -> Entry \union {NoEntry}]
  /\ uses \in [Nonces -> Nat]
  /\ spent \in SUBSET Nonces

MembersTyped ==
  /\ inRoom \in [Users -> SUBSET Rooms]
  /\ wasIn \in [Users -> SUBSET Rooms]
  /\ \A u \in Users : inRoom[u] \subseteq wasIn[u]

(***************************************************************************)
(* The inductive invariant.  A nonce not yet created has left no trace; a  *)
(* stored one was never presented, is what it was when it was created, and *)
(* was never used; and only the cleanup of expired nonces, presenting it,  *)
(* or a restart removes it.                                                *)
(***************************************************************************)
NonceInv(n) ==
  /\ born[n] = NoEntry => store[n] = NoEntry /\ n \notin spent
  /\ store[n] # NoEntry => store[n] = born[n] /\ n \notin spent
  /\ n \notin spent => uses[n] = 0
  /\ uses[n] <= 1
  /\ born[n] # NoEntry /\ n \notin spent /\ ~Expired(born[n]) => store[n] = born[n]

(* A request past the room check, and the nonce it gets, are for a room    *)
(* the user has been in.                                                   *)
RoomInv ==
  Verify =>
    /\ \A i \in Slots : slot[i].pc = "profile" /\ slot[i].room # NoRoom
         => slot[i].room \in wasIn[slot[i].user]
    /\ \A n \in Nonces : born[n] # NoEntry /\ born[n].room # NoRoom
         => born[n].room \in wasIn[born[n].user]

Inv == NoncesTyped /\ MembersTyped /\ (\A n \in Nonces : NonceInv(n)) /\ RoomInv

LEMMA InvInit == Init => Inv
<1> SUFFICES ASSUME Init PROVE Inv
  OBVIOUS
<1>1. NoncesTyped
  BY DEF Init, NoncesTyped, Slot, MaybeRoom
<1>2. MembersTyped
  BY DEF Init, MembersTyped
<1>3. \A n \in Nonces : NonceInv(n)
  BY DEF Init, NonceInv, Expired
<1>4. RoomInv
  BY DEF Init, RoomInv
<1> QED
  BY <1>1, <1>2, <1>3, <1>4 DEF Inv

(* A step of a request that leaves nonces and memberships alone. *)
LEMMA RequestMoves ==
  ASSUME Inv, NEW i \in Slots, NEW pc \in {"idle", "registry", "room", "profile", "limited"},
         Goes(i, pc), UNCHANGED <<nonces, members>>,
         pc = "profile" /\ Verify /\ slot[i].room # NoRoom
           => slot[i].room \in wasIn[slot[i].user]
  PROVE  Inv'
<1> USE DEF Inv
<1>1. NoncesTyped'
  BY DEF NoncesTyped, Goes, Slot, nonces
<1>2. MembersTyped'
  BY DEF MembersTyped, members
<1>3. \A n \in Nonces : NonceInv(n)'
  BY DEF NonceInv, nonces, Expired
<1>4. \A j \in Slots : slot'[j] =
        IF j = i THEN [pc |-> pc, user |-> slot[i].user, app |-> slot[i].app, room |-> slot[i].room]
        ELSE slot[j]
  BY DEF NoncesTyped, Goes
<1>5. RoomInv'
  BY <1>4 DEF RoomInv, nonces, members
<1> QED
  BY <1>1, <1>2, <1>3, <1>5

LEMMA NextCases ==
  ASSUME Next
  PROVE  \/ \E i \in Slots, u \in Users, a \in AppIds, r \in MaybeRoom : InitData(i, u, a, r)
         \/ \E i \in Slots : LimitedAnswer(i) \/ RegistryAnswers(i) \/ CheckMembership(i)
         \/ \E i \in Slots, n \in Nonces : CreateNonce(i, n)
         \/ \E n \in Nonces, a \in AppIds \union {Unstated}, r \in MaybeRoom \union {Unstated} :
              ValidateNonce(n, a, r)
         \/ Cleanup
         \/ Tick \/ Restart
         \/ \E u \in Users, r \in Rooms : UserMoves(u, r)
  BY Zenon DEF Next, HandlePost

LEMMA InvNext == Inv /\ [Next]_vars => Inv'
<1> SUFFICES ASSUME Inv, [Next]_vars PROVE Inv'
  OBVIOUS
<1> USE ConstantsAssumption
<1>1. ASSUME NEW i \in Slots, NEW u \in Users, NEW a \in AppIds, NEW r \in MaybeRoom,
             InitData(i, u, a, r)
      PROVE  Inv'
  <2>1. PICK pc \in {"registry", "limited"} :
          slot' = [slot EXCEPT ![i] = [pc |-> pc, user |-> u, app |-> a, room |-> r]]
    BY <1>1 DEF InitData
  <2>2. NoncesTyped' /\ MembersTyped'
    BY <1>1, <2>1 DEF Inv, NoncesTyped, MembersTyped, InitData, Slot, nonces, members
  <2>3. \A n \in Nonces : NonceInv(n)'
    BY <1>1 DEF Inv, InitData, NonceInv, nonces, Expired
  <2>4. RoomInv'
    BY <1>1, <2>1 DEF Inv, InitData, NoncesTyped, RoomInv, nonces, members
  <2> QED
    BY <2>2, <2>3, <2>4 DEF Inv
<1>2. ASSUME NEW i \in Slots, LimitedAnswer(i) PROVE Inv'
  BY <1>2, RequestMoves DEF LimitedAnswer
<1>3. ASSUME NEW i \in Slots, RegistryAnswers(i) PROVE Inv'
  <2>1. CASE Goes(i, "idle")
    BY <1>3, <2>1, RequestMoves DEF RegistryAnswers
  <2>2. CASE Goes(i, IF Verify /\ slot[i].room # NoRoom THEN "room" ELSE "profile")
    <3>1. CASE Verify /\ slot[i].room # NoRoom
      BY <1>3, <2>2, <3>1, RequestMoves DEF RegistryAnswers
    <3>2. CASE ~(Verify /\ slot[i].room # NoRoom)
      BY <1>3, <2>2, <3>2, RequestMoves DEF RegistryAnswers
    <3> QED
      BY <3>1, <3>2
  <2> QED
    BY <1>3, <2>1, <2>2 DEF RegistryAnswers
<1>4. ASSUME NEW i \in Slots, CheckMembership(i) PROVE Inv'
  <2>1. CASE Goes(i, "idle")
    BY <1>4, <2>1, RequestMoves DEF CheckMembership
  <2>2. CASE slot[i].room \in inRoom[slot[i].user] /\ Goes(i, "profile")
    <3>1. slot[i].user \in Users
      BY DEF Inv, NoncesTyped, Slot
    <3>2. slot[i].room \in wasIn[slot[i].user]
      BY <2>2, <3>1 DEF Inv, MembersTyped
    <3> QED
      BY <1>4, <2>2, <3>2, RequestMoves DEF CheckMembership
  <2> QED
    BY <1>4, <2>1, <2>2 DEF CheckMembership
<1>5. ASSUME NEW i \in Slots, NEW n \in Nonces, CreateNonce(i, n) PROVE Inv'
  <2> DEFINE entry == [user |-> slot[i].user, app |-> slot[i].app, room |-> slot[i].room, age |-> 0]
  <2>1. entry \in Entry
    BY DEF Inv, NoncesTyped, Slot, Entry, NonceAge
  <2>2. /\ store' = [store EXCEPT ![n] = entry]
        /\ born' = [born EXCEPT ![n] = entry]
        /\ UNCHANGED <<uses, spent, inRoom, wasIn>>
        /\ Goes(i, "idle")
        /\ born[n] = NoEntry
        /\ slot[i].pc = "profile"
    BY <1>5 DEF CreateNonce, Created, members, At
  <2>3. NoncesTyped' /\ MembersTyped'
    BY <2>1, <2>2 DEF Inv, NoncesTyped, MembersTyped, Goes, Slot
  <2>4. \A m \in Nonces : NonceInv(m)'
    <3>1. NonceInv(n)'
      BY <2>1, <2>2 DEF Inv, NoncesTyped, NonceInv
    <3>2. ASSUME NEW m \in Nonces, m # n PROVE NonceInv(m)'
      BY <2>2, <3>2 DEF Inv, NoncesTyped, NonceInv, Expired
    <3> QED
      BY <3>1, <3>2
  <2>5. RoomInv'
    <3>1. \A j \in Slots : slot'[j].pc = "profile" => slot'[j] = slot[j]
      BY <2>2 DEF Inv, NoncesTyped, Goes
    <3>2. \A m \in Nonces : born'[m] = IF m = n THEN entry ELSE born[m]
      BY <2>2 DEF Inv, NoncesTyped
    <3> QED
      BY <2>2, <3>1, <3>2 DEF Inv, RoomInv
  <2> QED
    BY <2>3, <2>4, <2>5 DEF Inv
<1>6. ASSUME NEW n \in Nonces, NEW a \in AppIds \union {Unstated},
             NEW r \in MaybeRoom \union {Unstated}, ValidateNonce(n, a, r)
      PROVE  Inv'
  <2>1. /\ store' = [store EXCEPT ![n] = NoEntry]
        /\ spent' = spent \union {n}
        /\ UNCHANGED <<slot, born, inRoom, wasIn>>
        /\ born[n] # NoEntry
    BY <1>6 DEF ValidateNonce, Created, members
  <2>2. /\ uses' \in [Nonces -> Nat]
        /\ \A m \in Nonces : m # n => uses'[m] = uses[m]
        /\ uses'[n] <= 1
    <3>1. CASE Accepts(n, a, r)
      <4>1. uses[n] = 0
        BY <3>1 DEF Accepts, Inv, NonceInv
      <4>2. uses' = [uses EXCEPT ![n] = @ + 1]
        BY <1>6, <3>1 DEF ValidateNonce, Count
      <4> QED
        BY <4>1, <4>2 DEF Inv, NoncesTyped
    <3>2. CASE ~Accepts(n, a, r)
      BY <1>6, <3>2 DEF ValidateNonce, Count, Inv, NoncesTyped, NonceInv
    <3> QED
      BY <3>1, <3>2
  <2>3. NoncesTyped' /\ MembersTyped'
    BY <2>1, <2>2 DEF Inv, NoncesTyped, MembersTyped
  <2>4. \A m \in Nonces : NonceInv(m)'
    BY <2>1, <2>2 DEF Inv, NoncesTyped, NonceInv, Expired
  <2>5. RoomInv'
    BY <2>1 DEF Inv, RoomInv
  <2> QED
    BY <2>3, <2>4, <2>5 DEF Inv
<1>7. CASE Cleanup
  <2>1. /\ store' = [n \in Nonces |-> IF Expired(store[n]) THEN NoEntry ELSE store[n]]
        /\ UNCHANGED <<slot, born, uses, spent, inRoom, wasIn>>
    BY <1>7 DEF Cleanup, members
  <2>2. NoncesTyped' /\ MembersTyped'
    BY <2>1 DEF Inv, NoncesTyped, MembersTyped
  <2>3. \A n \in Nonces : NonceInv(n)'
    BY <2>1 DEF Inv, NonceInv, Expired
  <2>4. RoomInv'
    BY <2>1 DEF Inv, RoomInv
  <2> QED
    BY <2>2, <2>3, <2>4 DEF Inv
<1>8. CASE Tick
  <2>1. /\ store' = [n \in Nonces |-> Older(store[n])]
        /\ born' = [n \in Nonces |-> Older(born[n])]
        /\ UNCHANGED <<slot, uses, spent, inRoom, wasIn>>
    BY <1>8 DEF Tick, members
  <2>2. \A e \in Entry \union {NoEntry} :
          /\ Older(e) \in Entry \union {NoEntry}
          /\ Older(e) = NoEntry <=> e = NoEntry
          /\ e # NoEntry => Older(e).room = e.room /\ Older(e).user = e.user
          /\ Expired(e) => Expired(Older(e))
    BY DEF Older, Entry, NonceAge, Expired
  <2>3. NoncesTyped' /\ MembersTyped'
    BY <2>1, <2>2 DEF Inv, NoncesTyped, MembersTyped
  <2>4. \A n \in Nonces : NonceInv(n)'
    <3> SUFFICES ASSUME NEW n \in Nonces PROVE NonceInv(n)'
      OBVIOUS
    <3>1. store'[n] = Older(store[n]) /\ born'[n] = Older(born[n])
      BY <2>1
    <3>2. /\ store[n] \in Entry \union {NoEntry}
          /\ born[n] \in Entry \union {NoEntry}
      BY DEF Inv, NoncesTyped
    <3>3. ~Expired(born'[n]) => ~Expired(born[n])
      BY <2>2, <3>1, <3>2
    <3>4. (~Expired(born[n]))' <=> ~Expired(born'[n])
      BY DEF Expired
    <3> QED
      BY <2>1, <2>2, <3>1, <3>2, <3>3, <3>4 DEF Inv, NonceInv
  <2>5. RoomInv'
    BY <2>1, <2>2 DEF Inv, NoncesTyped, RoomInv
  <2> QED
    BY <2>3, <2>4, <2>5 DEF Inv
<1>9. ASSUME NEW u \in Users, NEW r \in Rooms, UserMoves(u, r) PROVE Inv'
  <2>1. UNCHANGED <<slot, store, born, uses, spent>>
    BY <1>9 DEF UserMoves, nonces
  <2>2. MembersTyped' /\ \A v \in Users : wasIn[v] \subseteq wasIn'[v]
    BY <1>9 DEF Inv, MembersTyped, UserMoves
  <2>3. NoncesTyped' /\ \A n \in Nonces : NonceInv(n)'
    BY <2>1 DEF Inv, NoncesTyped, NonceInv, Expired
  <2>4. RoomInv'
    BY <2>1, <2>2 DEF Inv, NoncesTyped, RoomInv, Slot, Entry
  <2> QED
    BY <2>2, <2>3, <2>4 DEF Inv
<1>10. CASE Restart
  <2>1. /\ store' = [n \in Nonces |-> NoEntry] /\ spent' = spent \union Created
        /\ slot' = [i \in Slots |-> [pc |-> "idle", user |-> slot[i].user, app |-> slot[i].app,
                                     room |-> slot[i].room]]
        /\ UNCHANGED <<born, uses, inRoom, wasIn>>
    BY <1>10 DEF Restart, members
  <2>2. NoncesTyped' /\ MembersTyped'
    BY <2>1 DEF Inv, NoncesTyped, MembersTyped, Slot, Created
  <2>3. \A n \in Nonces : NonceInv(n)'
    BY <2>1 DEF Inv, NonceInv, Created
  <2>4. RoomInv'
    BY <2>1 DEF Inv, RoomInv
  <2> QED
    BY <2>2, <2>3, <2>4 DEF Inv
<1>11. CASE UNCHANGED vars
  BY <1>11 DEF vars, nonces, members, Inv, NoncesTyped, MembersTyped, NonceInv, RoomInv, Expired
<1> QED
  BY <1>1, <1>2, <1>3, <1>4, <1>5, <1>6, <1>7, <1>8, <1>9, <1>10, <1>11, NextCases

LEMMA InvHolds == Spec => []Inv
  BY InvInit, InvNext, PTL DEF Spec

(* A nonce is good for one use at most, over any restarts. *)
THEOREM NoncesAreSingleUse == Spec => []NonceUsedOnce
<1>1. Inv => NonceUsedOnce
  BY DEF Inv, NonceInv, NonceUsedOnce
<1> QED
  BY <1>1, InvHolds, PTL

(* An unused nonce is neither swept nor altered before it expires, while   *)
(* the process that gave it runs.                                          *)
THEOREM NoncesLiveTheirTTL == Spec => []NonceWorksUntilItExpires
<1>1. Inv => NonceWorksUntilItExpires
  BY DEF Inv, NonceInv, NonceWorksUntilItExpires, Created
<1> QED
  BY <1>1, InvHolds, PTL

(* With verify_room_membership, tickets for a room go to its members. *)
THEOREM RoomTicketsAreChecked == Spec => []RoomTicketsForMembers
<1>1. Inv => RoomTicketsForMembers
  BY DEF Inv, RoomInv, RoomTicketsForMembers, Created
<1> QED
  BY <1>1, InvHolds, PTL

(* No nonce is honoured after its TTL. *)
THEOREM NoncesExpire == Spec => NoLateNonce
<1> DEFINE Timely == \A n \in Nonces : uses'[n] # uses[n] => ~Expired(born[n])
<1>1. Inv /\ [Next]_vars => [Timely]_vars
  <2> SUFFICES ASSUME Inv, Next PROVE Timely
    OBVIOUS
  <2>1. ASSUME NEW n \in Nonces, NEW a \in AppIds \union {Unstated},
               NEW r \in MaybeRoom \union {Unstated}, ValidateNonce(n, a, r)
        PROVE  Timely
    <3>1. CASE Accepts(n, a, r)
      <4>1. ~Expired(born[n])
        BY <3>1 DEF Accepts, Inv, NonceInv
      <4>2. uses' = [uses EXCEPT ![n] = @ + 1]
        BY <2>1, <3>1 DEF ValidateNonce, Count
      <4> QED
        BY <4>1, <4>2 DEF Inv, NoncesTyped
    <3>2. CASE ~Accepts(n, a, r)
      BY <2>1, <3>2 DEF ValidateNonce, Count
    <3> QED
      BY <3>1, <3>2
  <2>2. CASE UNCHANGED uses
    BY <2>2
  <2>3. \/ UNCHANGED uses
        \/ \E n \in Nonces, a \in AppIds \union {Unstated}, r \in MaybeRoom \union {Unstated} :
             ValidateNonce(n, a, r)
    BY NextCases
    DEF InitData, LimitedAnswer, RegistryAnswers, CheckMembership, CreateNonce, Cleanup, Tick,
        Restart, UserMoves, nonces
  <2> QED
    BY <2>1, <2>2, <2>3
<1>2. Spec => [][Timely]_vars
  BY <1>1, InvHolds, PTL DEF Spec
<1> QED
  BY <1>2 DEF NoLateNonce

-----------------------------------------------------------------------------
(* The rate limit *)

LimiterTyped ==
  /\ hits \in [Users -> SUBSET Hits] /\ accepted \in [Users -> SUBSET Hits]
  /\ hitAge \in [Users -> [Hits -> HitAge]]
  /\ timer \in {"armed", "off"}

(* RateLimiter keeps every request of the last window. *)
KeepsRecent == \A u \in Users : accepted[u] = Recent(u)

RateInv == LimiterTyped /\ KeepsRecent /\ RateIsLimited

LEMMA RecentIsFinite ==
  ASSUME LimiterTyped, NEW u \in Users
  PROVE  /\ Recent(u) \subseteq Hits
         /\ IsFiniteSet(Recent(u)) /\ Cardinality(Recent(u)) \in Nat
<1>1. Recent(u) \subseteq Hits
  BY DEF LimiterTyped, Recent
<1> QED  BY <1>1, FS_Subset, FS_CardinalityType, ConstantsAssumption

(* Under the limit there is a name left for the next hit. *)
LEMMA NewHitIsNew ==
  ASSUME LimiterTyped, KeepsRecent, NEW u \in Users, Check(u)
  PROVE  NewHit(u) \in Hits \ Recent(u)
<1>1. IsFiniteSet(Hits) /\ Cardinality(Hits) > MaxHits /\ MaxHits \in Nat
  BY ConstantsAssumption
<1>2. Cardinality(Hits) \in Nat
  BY <1>1, FS_CardinalityType
<1>3. Recent(u) # Hits
  BY <1>1, <1>2, RecentIsFinite DEF Check
<1>4. \E h \in Hits : h \notin Recent(u) \union accepted[u]
  BY <1>3, RecentIsFinite DEF KeepsRecent
<1> QED  BY <1>4 DEF NewHit

LEMMA HitRate ==
  ASSUME RateInv, NEW u \in Users, Check(u), Hit(u), UNCHANGED timer
  PROVE  RateInv'
<1> DEFINE n == NewHit(u)
           new == Recent(u) \union {n}
           ages == [h \in Hits |-> IF h = n THEN 0 ELSE hitAge[u][h]]
<1>1. n \in Hits \ Recent(u)
  BY NewHitIsNew DEF RateInv
<1>2. /\ hits' = [hits EXCEPT ![u] = new]
      /\ accepted' = [accepted EXCEPT ![u] = accepted[u] \union {n}]
      /\ hitAge' = [hitAge EXCEPT ![u] = ages]
  BY DEF Hit
<1>3. Recent(u) \subseteq Hits /\ IsFiniteSet(Recent(u)) /\ Cardinality(Recent(u)) \in Nat
  BY RecentIsFinite DEF RateInv
<1>4. ages \in [Hits -> HitAge] /\ ages[n] = 0 /\ \A h \in Recent(u) : ages[h] = hitAge[u][h]
  BY <1>1, <1>3, ConstantsAssumption DEF RateInv, LimiterTyped, HitAge
<1>5. Cardinality(new) = Cardinality(Recent(u)) + 1
  BY <1>1, <1>3, FS_AddElement
<1>6. 0 < Window /\ \A h \in new : ages[h] < Window
  BY <1>4, ConstantsAssumption DEF Recent
<1>7. Cardinality(new) <= MaxHits
  BY <1>3, <1>5, ConstantsAssumption DEF Check
<1> HIDE DEF n, ages
<1>8. LimiterTyped'
  BY <1>1, <1>2, <1>3, <1>4 DEF RateInv, LimiterTyped
<1>9. accepted'[u] = new /\ hits'[u] = new /\ hitAge'[u] = ages
  BY <1>2 DEF RateInv, LimiterTyped, KeepsRecent
<1>10. \A v \in Users \ {u} : /\ accepted'[v] = accepted[v] /\ hits'[v] = hits[v]
                              /\ hitAge'[v] = hitAge[v]
  BY <1>2 DEF RateInv, LimiterTyped
<1> HIDE DEF new
<1>11. KeepsRecent'
  BY <1>6, <1>9, <1>10 DEF RateInv, KeepsRecent, Recent
<1>12. RateIsLimited'
  BY <1>7, <1>9, <1>10 DEF RateInv, RateIsLimited
<1> QED  BY <1>8, <1>11, <1>12 DEF RateInv

LEMMA RefuseRate ==
  ASSUME RateInv, NEW u \in Users, Refuse(u), UNCHANGED timer
  PROVE  RateInv'
<1>1. LimiterTyped'
  BY DEF Refuse, Recent, RateInv, LimiterTyped
<1>2. KeepsRecent'
  BY DEF Refuse, Recent, RateInv, LimiterTyped, KeepsRecent
<1>3. RateIsLimited'
  BY DEF Refuse, RateInv, RateIsLimited
<1> QED  BY <1>1, <1>2, <1>3 DEF RateInv

(* A hit that leaves the window does so for the limiter and for the        *)
(* history at once, and none comes back.                                   *)
LEMMA TickRate ==
  ASSUME RateInv, Tick
  PROVE  RateInv'
<1>1. /\ hitAge' = [u \in Users |-> [h \in Hits |-> OlderHit(hitAge[u][h])]]
      /\ accepted' = [u \in Users |-> {h \in accepted[u] : OlderHit(hitAge[u][h]) < Window}]
      /\ UNCHANGED <<hits, timer>>
  BY DEF Tick
<1>2. \A a \in HitAge : OlderHit(a) \in HitAge /\ (OlderHit(a) < Window => a < Window)
  BY ConstantsAssumption DEF OlderHit, HitAge
<1>3. \A u \in Users, h \in Hits : hitAge[u][h] \in HitAge
  BY DEF RateInv, LimiterTyped
<1>4. \A u \in Users, h \in Hits : hitAge'[u][h] = OlderHit(hitAge[u][h])
  BY <1>1
<1>5. LimiterTyped'
  BY <1>1, <1>2, <1>3 DEF RateInv, LimiterTyped
<1>6. KeepsRecent'
  <2> SUFFICES ASSUME NEW u \in Users PROVE accepted'[u] = Recent(u)'
    BY DEF KeepsRecent
  <2>1. hits[u] \subseteq Hits
    BY DEF RateInv, LimiterTyped
  <2>2. accepted'[u] = {h \in Recent(u) : hitAge'[u][h] < Window}
    BY <1>1, <1>4, <2>1 DEF RateInv, KeepsRecent, Recent
  <2>3. \A h \in hits[u] : hitAge'[u][h] < Window => hitAge[u][h] < Window
    BY <1>2, <1>3, <1>4, <2>1
  <2> QED  BY <1>1, <2>2, <2>3 DEF Recent
<1>7. RateIsLimited'
  <2> SUFFICES ASSUME NEW u \in Users PROVE Cardinality(accepted'[u]) <= MaxHits
    BY DEF RateIsLimited
  <2>1. accepted'[u] \subseteq Recent(u)
    BY <1>1 DEF RateInv, KeepsRecent
  <2>2. IsFiniteSet(Recent(u)) /\ Cardinality(Recent(u)) \in Nat
    BY RecentIsFinite DEF RateInv
  <2>3. Cardinality(Recent(u)) <= MaxHits
    BY DEF RateInv, KeepsRecent, RateIsLimited
  <2>4. /\ Cardinality(accepted'[u]) <= Cardinality(Recent(u))
        /\ Cardinality(accepted'[u]) \in Nat
    BY <2>1, <2>2, FS_Subset, FS_CardinalityType
  <2> QED  BY <2>2, <2>3, <2>4, ConstantsAssumption
<1> QED  BY <1>5, <1>6, <1>7 DEF RateInv

LEMMA RateInit == Init => RateInv
<1> SUFFICES ASSUME Init PROVE RateInv
  OBVIOUS
<1>1. LimiterTyped
  BY ConstantsAssumption DEF Init, LimiterTyped, HitAge
<1>2. \A u \in Users : accepted[u] = {} /\ Recent(u) = {}
  BY DEF Init, Recent
<1>3. RateIsLimited
  BY <1>2, FS_EmptySet, ConstantsAssumption DEF RateIsLimited
<1> QED  BY <1>1, <1>2, <1>3 DEF RateInv, KeepsRecent

LEMMA RestartRate ==
  ASSUME RateInv, Restart
  PROVE  RateInv'
<1>1. /\ hits' = [u \in Users |-> {}] /\ accepted' = [u \in Users |-> {}]
      /\ hitAge' = [u \in Users |-> [h \in Hits |-> Window]] /\ timer' = "armed"
  BY DEF Restart
<1>2. LimiterTyped'
  BY <1>1, ConstantsAssumption DEF LimiterTyped, HitAge
<1>3. \A u \in Users : accepted'[u] = {} /\ Recent(u)' = {}
  BY <1>1 DEF Recent
<1>4. RateIsLimited'
  BY <1>3, FS_EmptySet, ConstantsAssumption DEF RateIsLimited
<1> QED  BY <1>2, <1>3, <1>4 DEF RateInv, KeepsRecent

LEMMA RateNext == RateInv /\ [Next]_vars => RateInv'
<1> SUFFICES ASSUME RateInv, [Next]_vars PROVE RateInv'
  OBVIOUS
<1>1. ASSUME NEW i \in Slots, NEW u \in Users, NEW a \in AppIds, NEW r \in MaybeRoom,
             InitData(i, u, a, r)
      PROVE  RateInv'
  BY <1>1, HitRate, RefuseRate DEF InitData
<1>2. CASE UNCHANGED <<limiter, timer>>
  BY <1>2 DEF limiter, RateInv, LimiterTyped, KeepsRecent, Recent, RateIsLimited
<1>3. CASE Next
  <2>1. \/ UNCHANGED <<limiter, timer>>
        \/ Tick \/ Restart
        \/ \E i \in Slots, u \in Users, a \in AppIds, r \in MaybeRoom : InitData(i, u, a, r)
    BY <1>3, NextCases
    DEF LimitedAnswer, RegistryAnswers, CheckMembership, CreateNonce, ValidateNonce, Cleanup,
        UserMoves
  <2> QED  BY <1>1, <1>2, <2>1, TickRate, RestartRate
<1>4. CASE UNCHANGED vars
  BY <1>2, <1>4 DEF vars
<1> QED  BY <1>3, <1>4

(* In every window at most max_requests requests of a user pass            *)
(* RateLimiter.check of one process, however they and the refused ones are *)
(* spread.                                                                 *)
THEOREM RateLimitHolds == Spec => []RateIsLimited
<1>1. RateInv => RateIsLimited
  BY DEF RateInv
<1> QED  BY <1>1, RateInit, RateNext, PTL DEF Spec

(* Stores, requests, hits and memberships have their types. *)
THEOREM TypeCorrect == Spec => []TypeOK
<1>1. Inv /\ RateInv => TypeOK
  BY DEF Inv, NoncesTyped, MembersTyped, RateInv, LimiterTyped, TypeOK
<1> QED  BY <1>1, InvHolds, RateInit, RateNext, PTL DEF Spec
=============================================================================
