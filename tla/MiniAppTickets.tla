--------------------------- MODULE MiniAppTickets ---------------------------
(***************************************************************************)
(* Tickets for mini apps: the init_data and validate_nonce resources of    *)
(* the miniapp Synapse module with its RateLimiter and NonceStore.         *)
(*                                                                         *)
(* An init_data request passes the rate limit, the app registry and the    *)
(* room check, awaits the user's profile and is then given a nonce.  The   *)
(* app's backend presents the nonce once.  Requests interleave at their    *)
(* awaits; both stores work on the reactor thread without awaiting.        *)
(*                                                                         *)
(* Of the clock only ages matter: a nonce older than the TTL, and a hit    *)
(* as old as the window, stay so, so ages stop there and time need not be  *)
(* bounded.  What the registry answers is left open, see MiniAppRegistry;  *)
(* signatures and profile fields are left out.                             *)
(***************************************************************************)
EXTENDS Naturals, FiniteSets

CONSTANTS
  Users, AppIds, Rooms,
  NoRoom,      \* init_data without a room_id, stored as ""
  Unstated,    \* validate_nonce without the parameter
  NoEntry,     \* the nonce is not in the store
  Slots,       \* init_data requests that may be under way at one time
  Nonces,      \* bound: nonces created
  Hits,        \* names for the hits of a user that count at one time
  NonceTTL,    \* nonce_ttl
  MaxHits,     \* max_requests
  Window,      \* window of the rate limiter
  Verify       \* verify_room_membership

MaybeRoom == Rooms \union {NoRoom}
HitAge    == 0..Window
NonceAge  == 0..(NonceTTL + 1)
Entry     == [user: Users, app: AppIds, room: MaybeRoom, age: NonceAge]

ASSUME ConstantsAssumption ==
  /\ NoEntry \notin Entry
  /\ NoRoom \notin Rooms /\ Unstated \notin Rooms \union AppIds \union {NoRoom}
  /\ NonceTTL \in Nat /\ MaxHits \in Nat \ {0} /\ Window \in Nat \ {0}
  /\ IsFiniteSet(Hits) /\ Cardinality(Hits) > MaxHits
  /\ Verify \in BOOLEAN

VARIABLES
  hits,        \* RateLimiter._hits: the hits kept of each user
  hitAge,      \* how old they are, up to the window
  slot,        \* init_data requests under way
  store,       \* NonceStore._store: nonce -> its entry
  timer,       \* the callLater of the nonce cleanup
  inRoom,      \* rooms each user is joined to
  accepted,    \* history: requests of the last window that this process let pass
  born,        \* history: each nonce's entry as it was created, with its age
  uses,        \* history: how often a nonce was found valid
  spent,       \* history: nonces presented for validation, or lost in a restart
  wasIn        \* history: rooms each user has been joined to

limiter == <<hits, hitAge, accepted>>
nonces  == <<store, born, uses, spent>>
members == <<inRoom, wasIn>>
vars    == <<limiter, slot, nonces, timer, members>>

Slot    == [pc: {"idle", "registry", "room", "profile", "limited"},
            user: Users, app: AppIds, room: MaybeRoom]

Created == {n \in Nonces : born[n] # NoEntry}

TypeOK ==
  /\ hits \in [Users -> SUBSET Hits] /\ accepted \in [Users -> SUBSET Hits]
  /\ hitAge \in [Users -> [Hits -> HitAge]]
  /\ slot \in [Slots -> Slot]
  /\ store \in [Nonces -> Entry \union {NoEntry}]
  /\ born \in [Nonces -> Entry \union {NoEntry}]
  /\ uses \in [Nonces -> Nat]
  /\ spent \in SUBSET Nonces
  /\ timer \in {"armed", "off"}
  /\ inRoom \in [Users -> SUBSET Rooms] /\ wasIn \in [Users -> SUBSET Rooms]

Init ==
  /\ hits = [u \in Users |-> {}] /\ accepted = [u \in Users |-> {}]
  /\ hitAge = [u \in Users |-> [h \in Hits |-> Window]]
  /\ \E u \in Users, a \in AppIds :
       slot = [i \in Slots |-> [pc |-> "idle", user |-> u, app |-> a, room |-> NoRoom]]
  /\ store = [n \in Nonces |-> NoEntry] /\ born = [n \in Nonces |-> NoEntry]
  /\ uses = [n \in Nonces |-> 0]
  /\ spent = {}
  /\ timer = "armed"
  /\ inRoom \in [Users -> SUBSET Rooms]
  /\ wasIn = inRoom

-----------------------------------------------------------------------------
(* RateLimiter.check *)

Recent(u) == {h \in hits[u] : hitAge[u][h] < Window}

\* Fault: the limit is off by one.
Check_OffByOne(u) == Cardinality(Recent(u)) <= MaxHits
Check(u) == Cardinality(Recent(u)) < MaxHits

(* Hits have no names in the code: any that is free will do. *)
NewHit(u) == CHOOSE h \in Hits : h \notin Recent(u) \union accepted[u]

Hit(u) ==
  /\ hits' = [hits EXCEPT ![u] = Recent(u) \union {NewHit(u)}]
  /\ accepted' = [accepted EXCEPT ![u] = @ \union {NewHit(u)}]
  /\ hitAge' = [hitAge EXCEPT ![u] =
                  [h \in Hits |-> IF h = NewHit(u) THEN 0 ELSE hitAge[u][h]]]

Refuse(u) ==
  /\ hits' = [hits EXCEPT ![u] = Recent(u)]
  /\ UNCHANGED <<hitAge, accepted>>

-----------------------------------------------------------------------------
(* InitDataResource._handle_post *)

At(i, pc) == slot[i].pc = pc

Goes(i, pc) == slot' = [slot EXCEPT ![i] =
  [pc |-> pc, user |-> slot[i].user, app |-> slot[i].app, room |-> slot[i].room]]

InitData(i, u, a, r) ==
  /\ At(i, "idle")
  /\ \/ /\ Check(u)
        /\ Hit(u)
        /\ slot' = [slot EXCEPT ![i] = [pc |-> "registry", user |-> u, app |-> a, room |-> r]]
     \/ /\ ~Check(u)
        /\ Refuse(u)
        /\ slot' = [slot EXCEPT ![i] = [pc |-> "limited", user |-> u, app |-> a, room |-> r]]
  /\ UNCHANGED <<nonces, timer, members>>

LimitedAnswer(i) ==
  /\ At(i, "limited")
  /\ Goes(i, "idle")
  /\ UNCHANGED <<limiter, nonces, timer, members>>

(* maybe_refresh, get and is_listed: the app is unknown or suspended, or   *)
(* the request goes on.                                                    *)
RegistryAnswers(i) ==
  /\ At(i, "registry")
  /\ \/ Goes(i, "idle")
     \/ Goes(i, IF Verify /\ slot[i].room # NoRoom THEN "room" ELSE "profile")
  /\ UNCHANGED <<limiter, nonces, timer, members>>

\* Fault: the result of the membership query is not looked at.
CheckMembership_Ignored(i) ==
  /\ At(i, "room")
  /\ Goes(i, "profile")
  /\ UNCHANGED <<limiter, nonces, timer, members>>

(* _check_membership; a failing query counts as no member *)
CheckMembership(i) ==
  /\ At(i, "room")
  /\ \/ slot[i].room \in inRoom[slot[i].user] /\ Goes(i, "profile")
     \/ Goes(i, "idle")
  /\ UNCHANGED <<limiter, nonces, timer, members>>


(* NonceStore.create and the answer: the token is new *)
CreateNonce(i, n) ==
  /\ At(i, "profile")
  /\ n \notin Created
  /\ LET entry == [user |-> slot[i].user, app |-> slot[i].app, room |-> slot[i].room, age |-> 0]
     IN  /\ store' = [store EXCEPT ![n] = entry]
         /\ born' = [born EXCEPT ![n] = entry]
  /\ Goes(i, "idle")
  /\ UNCHANGED <<limiter, uses, spent, timer, members>>

-----------------------------------------------------------------------------
(* ValidateNonceResource: validate_and_consume *)

Expired(entry) == entry # NoEntry /\ entry.age > NonceTTL

Matches(entry, a, r) ==
  /\ a # Unstated => entry.app = a
  /\ r # Unstated => entry.room = r

Accepts(n, a, r) ==
  store[n] # NoEntry /\ ~Expired(store[n]) /\ Matches(store[n], a, r)

Count(n, valid) == uses' = IF valid THEN [uses EXCEPT ![n] = @ + 1] ELSE uses

\* Fault: the entry is read but not removed.
ValidateNonce_Keeps(n, a, r) ==
  /\ n \in Created
  /\ Count(n, Accepts(n, a, r))
  /\ spent' = spent \union {n}
  /\ UNCHANGED <<limiter, slot, store, born, timer, members>>


(* The entry is popped whatever the answer is. *)
ValidateNonce(n, a, r) ==
  /\ n \in Created
  /\ Count(n, Accepts(n, a, r))
  /\ store' = [store EXCEPT ![n] = NoEntry]
  /\ spent' = spent \union {n}
  /\ UNCHANGED <<limiter, slot, born, timer, members>>

-----------------------------------------------------------------------------
(* _schedule_nonce_cleanup: NonceStore.cleanup, then the timer again *)

\* Faults: a nonce is swept when it reaches its TTL; the timer runs once.
Cleanup_AtTTL ==
  /\ timer = "armed"
  /\ store' = [n \in Nonces |-> IF store[n] # NoEntry /\ store[n].age >= NonceTTL
                             THEN NoEntry ELSE store[n]]
  /\ UNCHANGED <<limiter, slot, born, uses, spent, timer, members>>

Cleanup_Once ==
  /\ timer = "armed"
  /\ timer' = "off"
  /\ store' = [n \in Nonces |-> IF Expired(store[n]) THEN NoEntry ELSE store[n]]
  /\ UNCHANGED <<limiter, slot, born, uses, spent, members>>

Cleanup ==
  /\ timer = "armed"
  /\ store' = [n \in Nonces |-> IF Expired(store[n]) THEN NoEntry ELSE store[n]]
  /\ UNCHANGED <<limiter, slot, born, uses, spent, timer, members>>

-----------------------------------------------------------------------------
(* Environment *)

Older(entry) ==
  IF entry = NoEntry \/ entry.age = NonceTTL + 1 THEN entry
  ELSE [user |-> entry.user, app |-> entry.app, room |-> entry.room, age |-> entry.age + 1]

OlderHit(age) == IF age < Window THEN age + 1 ELSE Window

Tick ==
  /\ hitAge' = [u \in Users |-> [h \in Hits |-> OlderHit(hitAge[u][h])]]
  /\ accepted' = [u \in Users |-> {h \in accepted[u] : OlderHit(hitAge[u][h]) < Window}]
  /\ store' = [n \in Nonces |-> Older(store[n])]
  /\ born' = [n \in Nonces |-> Older(born[n])]
  /\ UNCHANGED <<hits, slot, uses, spent, timer, members>>

UserMoves(u, r) ==
  /\ inRoom' = [inRoom EXCEPT ![u] = IF r \in @ THEN @ \ {r} ELSE @ \union {r}]
  /\ wasIn' = [wasIn EXCEPT ![u] = @ \union inRoom'[u]]
  /\ UNCHANGED <<limiter, slot, nonces, timer>>

(* Both stores and the requests under way are in the memory of the        *)
(* process; a new one starts with a new timer.                             *)
Restart ==
  /\ hits' = [u \in Users |-> {}] /\ accepted' = [u \in Users |-> {}]
  /\ hitAge' = [u \in Users |-> [h \in Hits |-> Window]]
  /\ slot' = [i \in Slots |-> [pc |-> "idle", user |-> slot[i].user, app |-> slot[i].app,
                               room |-> slot[i].room]]
  /\ store' = [n \in Nonces |-> NoEntry]
  /\ spent' = spent \union Created
  /\ timer' = "armed"
  /\ UNCHANGED <<born, uses, members>>

HandlePost(i) ==
  \/ LimitedAnswer(i) \/ RegistryAnswers(i) \/ CheckMembership(i)
  \/ \E n \in Nonces : CreateNonce(i, n)

Next ==
  \/ \E i \in Slots, u \in Users, a \in AppIds, r \in MaybeRoom : InitData(i, u, a, r)
  \/ \E i \in Slots : HandlePost(i)
  \/ \E n \in Nonces, a \in AppIds \union {Unstated}, r \in MaybeRoom \union {Unstated} :
       ValidateNonce(n, a, r)
  \/ Cleanup
  \/ Tick \/ Restart
  \/ \E u \in Users, r \in Rooms : UserMoves(u, r)

(* Time passes, and callLater runs the cleanup again and again. *)
Fairness == WF_vars(Tick) /\ WF_vars(Cleanup)

Spec == Init /\ [][Next]_vars /\ Fairness

-----------------------------------------------------------------------------
(* Properties *)

(* A nonce is found valid at most once, whatever is presented with it and  *)
(* however often, before or after restarts.                                *)
NonceUsedOnce == \A n \in Nonces : uses[n] <= 1

(* A nonce that was never presented works until it expires, as long as the *)
(* process that gave it runs: neither the cleanup nor another request      *)
(* removes it or changes what it is bound to.                              *)
NonceWorksUntilItExpires ==
  \A n \in Created \ spent : ~Expired(born[n]) => store[n] = born[n]

(* A nonce is never honoured after its TTL, even if no cleanup came by.    *)
NoLateNonce ==
  [][\A n \in Nonces : uses'[n] # uses[n] => ~Expired(born[n])]_vars

(* A ticket for a room is given only to somebody who has been its member.  *)
RoomTicketsForMembers ==
  Verify => \A n \in Created : born[n].room # NoRoom => born[n].room \in wasIn[born[n].user]

(* In every window of time at most max_requests requests of a user pass    *)
(* one process (a restart forgets the hits).                               *)
RateIsLimited == \A u \in Users : Cardinality(accepted[u]) <= MaxHits

(* Nonces nobody presents do not pile up. *)
UnusedNoncesAreForgotten ==
  \A n \in Nonces : (store[n] # NoEntry) ~> (store[n] = NoEntry)
=============================================================================
