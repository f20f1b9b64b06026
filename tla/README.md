# Liza server modules: a TLA+ verification project

Liza is a Matrix messenger: a Flutter client (`src/clients/flutter`, a fork of
FluffyChat), a Synapse homeserver (`src/servers/synapse/src`, a fork), a Sygnal
push gateway (`src/servers/sygnal`, a fork) and a set of Synapse modules of its
own (`src/servers/synapse/modules`). The modules carry the product's own logic:
channels with discussion chats, stories, roles, mini apps, chat topology,
guards and media life cycle. They are what this project models first; of
Synapse itself it models the multi-writer stream positions, on which what every
client is shown depends. Paths below are relative to
`src/servers/synapse/modules` unless they start with `src/`.

All modules run inside one Synapse process (`miniapp/_stores.py:3` notes that
several workers would break them). Twisted runs their coroutines: a coroutine
keeps the processor until it awaits, so **an action here is what the code does
between two awaits**, and two coroutines interleave at every await. Synapse
awaits `on_new_event` for each event, and most handlers start a background
process of their own (`run_as_background_process`), so nothing orders the work
of two events. A restart loses every coroutine and all in-memory state; rooms,
account data and tables stay.

## Inventory

| Component | State | Operations | Interacts with | What is hard | What makes it correct |
|---|---|---|---|---|---|
| `channel_sync` mirroring | table `channel_post_mirror`, copies in the discussion chat | post, edit, redact, link change; mirror, retry, cleanup | rooms, database | one process per event, stale link, restart between copy and row | rows name the copy; redaction final; threads survive unlinking; every post is mirrored |
| `channel_sync` access | chat membership, join rule, history visibility, topology, push rules | join, leave, join rule; startup migration | rooms, push rules | invites, kicks and settings race; check-then-write in the migration | access follows subscription; closed stays closed; migration idempotent |
| `miniapp` registry | snapshot of the portal's apps with a TTL, single-flight flag | init data, list, refresh | portal over HTTP | refresh asked for while a fetch is in flight; failures | snapshots whole and never older; the flag never sticks; published apps are served |
| `miniapp` tickets | nonces, rate limiter, cleanup timer | init data, validate nonce, cleanup | registry, rooms | clock edges, requests interleaving | a nonce is used once and within its TTL; the sliding window holds |
| `user_roles` | catalogue table and cache, role of each user in account data, to-device messages | set, create, update, remove, reload, register, bootstrap | admin API, account data, psql | check-then-act between catalogue and users; caches loaded out of order | extra roles belong to the main role; a role somebody bears keeps its row; cache and clients current |
| `user_roles` federation | cache of remote roles | fetch | other servers | failures cached like answers | an answer is shown while it is fresh |
| `chat_topology_sync_gate` | device builds, thresholds with TTL, cache of hidden rooms, full-state markers | capability, topology event, `/sync` | `/sync`, version gate | cache filled after its invalidation; marker consumed without effect | a hidden room does not reach an old client; a new one gets its full state |
| `single_space_guard` | main root space and its cache, marks of direct rooms, backfill flag | create room, check event, add room, backfill | third-party rules, room statistics | two rooms created at once; statistics lag; marks left behind; restarts forget the main space | one main space, the same after a restart; nobody leaves it; groups in, direct chats out |
| `stories_membership` | stories rooms, subscriptions, push rules | ensure room, subscribe, unsubscribe, expiry sweep, backfill | rooms, account data | create-then-store race, subscribe against unsubscribe | one stories room per user; expired stories go |
| `channel_stories` | table channel → stories room, its membership | create, join, leave, backfill | rooms | join and leave processes race | membership follows the channel |
| `media_lifecycle` | table of processed redactions | redaction | media repository | a failed item counts as processed | media of redacted messages is quarantined |
| Stream positions of Synapse (`MultiWriterIdGenerator`) | ids in flight, unfinished and finished, positions of all writers, `stream_positions` | get next, finish, advance, load | Postgres sequence, replication | ids finish out of order in several threads and processes; positions late, lost or repeated; restarts | the persisted position never passes an id whose row may still appear, never goes back, and catches up |
| `media_variants`, `knock_notify`, `channel_guard`, `block_guard`, `client_guard`, `user_search_guard` | none | decide on one event or request | rooms, account data | stale reads | the decision matches the rules |
| `access_admin` | none of its own | dossier, members of a space, deactivate | database | | permissions, complete walk of a space |

## Modules

Each `X_proofs` module holds the theorems about `X` (`MiniApp_proofs` those about
both mini app modules, which share no state); each `MCX` module gives the
constants of `X` the values the configurations use. Definitions named
`Action_Fault`, marked "Fault:" in a comment, are faulty versions of the action
that follows; they are there to show that a property can fail.

### ChannelMirror: posts and their copies

State: each post with its version and status, the link of the channel, each
copy in each chat, `mapping` (the table `channel_post_mirror`), and one record
per background process (`postTask`, `editTask`, `redactTask`, `cleanups`) with
its program counter and the room it read. Actions: `SendPost`, `EditPost`,
`RedactPost`, `SetDiscussion` are the events and the dispatch of
`_on_new_event`; the steps of `_mirror_post` (read link, send, bring the author
in, send again, `put_mirror`), `_mirror_edit`, `_mirror_redact` and
`_cleanup_unlinked_discussion` follow one another at their awaits. `Fault` lets
a call raise, `Crash` loses every process. Texts are versions; two texts are
told apart only by which edit they came from.

### ChannelAccess: who may read and write comments

State: subscribers, join rule and visibility of the channel; join rule, history
visibility, topology, members and push rules of the chat; processes of
`_on_channel_join`, `_on_channel_leave`, `_mute_for_subscriber`,
`_sync_discussion_privacy`; and the startup migration, which reads its snapshot
(`_channel_snapshot`) one await at a time, makes its plan and carries it out.
Every start of Synapse runs the migration, so `Crash` starts it again. Calls
that write may fail (`Fault`), and so may the reads, which the code awaits
outside `try`: one that raises ends the process before the mute, the invite or
the kick (`MemberReadFails`), before the chat is changed (`PrivacyReadFails`), or
the whole pass (`MigrationReadFails`). A role that cannot be read makes nobody an
AI user, in `_on_channel_join` and in the snapshot.
`everPublic`, `exempt`, `settled` and `stale` are history: they say for which
users and settings nothing raced.

### MiniAppRegistry: the snapshot of the developer portal

State: the portal's table with a version number, the registry's snapshot
(`_dynamic`), its age against the TTL, `_refreshing`, and the requests under
way. `Ask` is `init_data` or the list, `RegistryRefresh` is the endpoint the
portal calls; both go through `MaybeRefresh`. The portal answers when it likes
(`PortalAnswers` fixes what the answer says), or the fetch fails. The
specification is `RegistrySpec`: its names differ from those of
`MiniAppTickets`, so that one module can hold the proofs about both. The model
is of one process: after a restart the registry begins again, without a snapshot.

### MiniAppTickets: nonces and the rate limit

State: the hits the limiter keeps per user, requests under way, the nonce
store, the timer. A hit is a name of `Hits` with an age, as the limiter only
asks how old a hit is and how many are left; names are used again once their
hit has been dropped. Ages stop growing once they are past their limit, so time
is unbounded and the state space finite. `accepted` is history: the requests
let through that still count. Both stores are in memory: `Restart` empties them
and drops the requests under way, and a nonce that was in the store is `spent`
like one that was presented. So the rate limit and the life of an unused nonce
are promised within one process lifetime, single use over all of them. What the registry answers is left open
(any answer), which over-approximates `MiniAppRegistry`.

### UserRoles: catalogue, roles, announcements

State: table and cache of the catalogue, account data, the last to-device
message about each user, and up to `Slots` requests under way, each with its
program counter and local variables. All handlers share the steps of
`RoleCatalog` and `RoleBroadcaster` (`SelectRows`, `AssignCache`, `FindBearers`,
`ReadRole`, `MakeView`, `SendToDevice`), as the code does. `SqlWrite` is the
operator's psql session the README of `user_roles` describes, `Fail` a
transaction that raises, `Restart` a new process with an empty cache. `written`
and `missed` are history: codes written by psql since the cache was loaded, and
codes whose change a load took in without announcing it.

### StreamToken and StreamIds: positions of a stream

`StreamToken` says what a stream promises its readers: ids are taken in order,
an id is open while its row may still appear, and the token of a running
process never goes back and never reaches an open id. `StreamIds` is
`src/servers/synapse/src/synapse/storage/util/id_generators.py` with the
positions that `replication/tcp/handler.py` carries. A job is one
`get_next_mult` in a database thread: `BeginFetch` (the entry in
`_in_flight_fetches`), `NextVal` (the sequence), `AddUnfinished`, `EndFetch`,
`Commit` or `RollBack`, `MarkFinished`, `SavePosition` (`stream_positions`).
`Advance` applies a received position; messages are a set from which any may be
delivered at any time, which delays, repeats, reorders and loses them. `Crash`
loses the memory of a process and the jobs in it; `Start` loads positions from
the database (`_load_current_ids`). `AnyStart = TRUE` lets a process start at
any time; with `FALSE` a process starts only when the last value of the
sequence is not open (`LastIdSettled`) and the writers that have no row in
`stream_positions` yet have nothing open (`NewWritersRest`). Neither is in the
code; both stand for how an operator restarts workers. `stale` is
history: processes in which something finished or arrived while a fetch that
later failed was in flight.

### ChatTopologyGate: hidden rooms in `/sync`

State: `capability` (build of each device), the published and the cached
threshold with its TTL, the list of hidden rooms per user (`cache`) and the
reading that fills it room by room, `markers`, and one PUT and one `/sync` per
device with the values they hold across awaits. The gate is read by
`GetCapability`, `GetMinBuild`, `Answer` or `NoAnswer`; `LookUp`, `ReadRoom` and
`Store` are `get_hidden_room_ids_for_user`; `Marker`, `Shown` and `Whole` are
the places of `get_sync_result_builder` and
`_get_room_changes_for_incremental_sync` (`src/.../handlers/sync.py`) that use
them. `Shown` and `Whole` are the joined section of a response, `Beside` its
invite, knock and leave sections: they come from membership events (`parted`,
and `beside` for the ones the request has read), which the code does not filter
by the hidden list after a token. `OnNewEvent` is the callback that drops lists. `tainted`, `odd` and `due`
are history: rooms about which a list or a request is in doubt because they
changed meanwhile, and devices that must get their hidden rooms whole.

### StoriesRooms: stories rooms and their audiences

State: members of DMs and `m.direct`, stories rooms with owner, audience and
account-data tag, push rules, stories, and jobs. A job is a callback of
`_on_new_event` or a background process; it subscribes or unsubscribes a pair
in two turns (`Ensure`, `Create`, `StoreTag`, `Mute`, `NotifyRule`, `Invite`;
`Find`, `Kick`), walks the DMs of the backfill (`Restart`, `TakePair`), mutes
(`Sweep`) or redacts expired stories (`Round`, `Redact`). Remote users are
invited but have no room here; bots are not subscribed (`TakePair`); only a
local user who lists the DM in `m.direct` is unsubscribed (`Gate`); the backfill
passes over users of servers it cannot reach (`Reachable`). The Flutter client
makes the same room and overwrites the same tag (`ClientCreates`,
`ClientStores`: `ensureMyStoriesRoom` in
`src/clients/flutter/lib/utils/stories/stories_extension.dart`), from a copy of
account data that may lag behind the server. Stories of authors of other
servers (`Foreign`) are found by every round and redacted by none, as this
server cannot send in their name. `armed` is the timer of the rounds, which
`Round` sets again whether or not its query succeeds. `wish`, `tangled`,
`doubled` and `loud` are history: what the last job wanted of a pair, pairs
whose jobs overlapped, failed or were cut off, owners whose room was made while
another was there or being made, or was never stored, and mutes that failed.

### SingleSpace: the company's root space

State: rooms with their kind, the lagging statistics, `m.space.child`
relations, `m.direct`, the cached main space, marks of senders, the backfill
flag in memory and in the database, and requests. A request is a `createRoom`,
a leave or a ban, or any other event; all of them look for the main space, by
`FindMain` (the query) and `FoundMain` (its answer), unless it is cached.
Adding a room runs by itself (`adds`), while the room is still being made.
Spaces of other servers are in the statistics too (`JoinRemote`), as the query
does not exclude them. A room upgrade (`Upgrade`: `clone_existing_room` in
`src/.../handlers/room.py`) makes a room of the old one's type without
`_on_create_room`, so it is neither checked nor marked, and a new space has the
children of the old one (`Copied`). The kind `root` is a space that
`_on_create_room` has admitted, `sub` one made with `m.space.parent` or by an
upgrade; a root-space, as the module defines it, is any of them, or a remote
one, that is no child (`RootSpaces`).

## Runs

| Run | Checks | Bounds |
|---|---|---|
| `ChannelMirror` | `MappingPointsAtCopy`, `ErasedPostStaysErased`, `ThreadsOutliveUnlinking`, `EveryPostIsMirrored` | one post, two chats, three link changes, one edit, one fault, one restart |
| `NoRowForRedactedPost` | violated | one post, one link |
| `ChannelAccess` | `TypeOK`, `ClosedChannelStaysClosed`, `SerialChangesConverge`, `MigrationSettles`, `AccessFollowsSubscription`, `NobodyInvitedTwice` | one user: three moves with a switch of comments and a restart, or two moves and a fault, or a join rule and a restart or a fault; two join rules and a restart with no user; an AI user beside a user; an AI user with a fault, or with two moves, a join rule and a restart |
| `LeaverLosesAccess` | violated | one user, two moves |
| `MiniAppRegistry` | `SnapshotNeverGoesBack`, `PublishedAppIsServed` | two requests, two apps, two changes, one failing fetch, TTL 1 |
| `MiniAppTickets` | `NonceUsedOnce`, `NonceWorksUntilItExpires`, `RoomTicketsForMembers`, `RateIsLimited`, `UnusedNoncesAreForgotten` | one user, two apps, one room, two nonces, one request at a time, limit 2 in a window of 2, TTL 1, unbounded time, restarts at any time |
| `UserRoles` | `ExtrasWereGranted`, `SerialRolesExist`, `SerialCacheIsTable`, `SerialViewsAreCurrent` | three roles, one user, two requests at a time, three in all, one fault; or two roles with two labels, four requests one after the other, one SQL write, one fault, one restart; or three requests one after the other, three SQL writes, one restart |
| `StreamIds` | `UptoIsPersisted`, `SettledMeansCaughtUp`, `ImplementsStream` | two writers, four ids; three jobs, or two jobs of two ids with a failing fetch, or a job each and a crash with any `stream_positions` |
| `RestartKeepsUpto` | violated | two writers, both in `stream_positions`, a job each, one crash, a start at any time |
| `ChatTopologyGate` | `TypeOK`, `ListIsTrue`, `HiddenOnlyBeside`, `OpenOnlyWithProof`, `FirstSyncIsWhole` | one device, two PUTs, two syncs, thresholds and one fault; two devices of one user, or of two users, with three syncs and changes of rooms and members; one device with an invite, a join and a leave, two syncs and a lost response |
| `StoriesRooms` | `TypeOK`, `OneRoomPerOwner`, `InvitesAreSilent`, `AudienceFollowsDms`, `ExpiredAreRedacted` | a DM with up to three events and a fault or a restart; two DMs, one with a remote user; a DM with a bot; a DM event next to clients that make the room; two stories, one of another server, with two faults and a restart; two jobs at a time |
| `SingleSpace` | `TypeOK`, `OneRoot`, `MainIsStable`, `DmStaysOut`, `GroupsAreListed`, `BackfillCompletes` | two users, three requests, two at a time, four rooms; one nesting, upgrade, remote space, fault or restart by scenario |

Why the bounds are enough for the questions asked:

* Posts do not interact: the table has one row per post and each process works
  on one post. One post meets every order of its own processes; three link
  changes are what "moved by way of off" takes, and one fault and one restart
  reach every point at which a process can be cut.
* Users of a channel interact only through the settings of the chat, so one
  user with three moves (join, leave, join) meets every order of their
  processes. Two users are needed only to have an AI user next to a human.
  The `Bounds` of `ChannelAccess` name several mixtures at once: a behaviour
  stays within one of them.
* The registry's races need one request that fetches and one that arrives
  meanwhile. Rate limit and nonces are per user and per nonce.
* The races of `user_roles` are between two requests about one user or one
  code; the serial properties need sequences, so they have one slot and four
  requests. A change that one load takes in without announcing it can be undone
  by psql before the next load, which takes three direct writes: the third
  mixture has them. Slots are interchangeable (symmetry), and the properties of
  that run are safety properties.
* In a stream the open ids of one writer, the position another derives from
  them, and a third id that finishes earlier need four ids; the theorems cover
  every number.
* The list of hidden rooms is per user and read room by room, so two rooms and
  two readers meet every order; the gate and the marker are per device. An
  invite, the join and a leave take three membership events.
* Audiences are per pair and stories rooms per owner: two jobs of one pair, or
  of two pairs with a common owner, are the ones that can collide.
* Marks are per sender and the main space is one value: two overlapping
  requests and one before them are what each race takes.

In `ChannelAccess` and the later models the scenario is chosen in the initial
state (`left \in Bounds`), so one run covers several mixtures of bounds, and no
behaviour mixes them.

`CHECK_DEADLOCK FALSE` is set where the work can run out: bounded events, and
processes that all end. The two mini app models never stop.

## Fairness

Weak fairness of every started process: the reactor resumes a coroutine when
what it awaits is there, and Synapse's calls end or raise. No fairness is
assumed of users, faults or restarts. `ChannelMirror` has it for the mirroring
processes. `MiniAppRegistry` assumes that time passes and that a fetch ends
(the HTTP client has a timeout); `PublishedAppIsServed` moreover assumes, in
the property itself, that clients keep asking, because only a request refreshes
the registry. `MiniAppTickets` assumes that time passes and that the timer, once
armed, fires; `StoriesRooms` that jobs run on and that the timer of the expiry
rounds, while set, fires (that it is set again is in the model, not assumed). `ChannelAccess`, `UserRoles`, `StreamIds`,
`ChatTopologyGate` and `SingleSpace` state no liveness; that streams catch up
is stated of the states in which all work is done (`SettledMeansCaughtUp`).

## What the code says of itself and does not do

Each of these runs ends in a trace; the comments and documents are quoted in
`PROJECT.json`.

* `NoRowForRedactedPost`: a redaction processed while the copy is still being
  sent finds no row and gives up; copy and row stay.
* `LeaverLosesAccess`: the invite of a join lands after the kick of the leave
  that followed it.
* `RestartKeepsUpto`: a writer that restarts takes the last value of the
  sequence for its own position. If another writer holds that id and has not
  committed, the persisted position passes a row that is still to come.

Next to each is a property that does hold and bounds the damage:
`ErasedPostStaysErased`, `AccessFollowsSubscription`, and `UptoIsPersisted` for
starts at which the last id is settled.

Other gaps are exceptions, written into the properties and named here:

* two changes of the join rule interleave, and the chat keeps half of each
  (`SerialChangesConverge` is about changes that do not);
* `registry_refresh` during a fetch older than the publication does nothing
  until the TTL ends (`PublishedAppIsServed` waits for it);
* a restart forgets the hits of the rate limiter and the nonces given out
  (`RateIsLimited`, `NonceWorksUntilItExpires`);
* a role given to a user between the look for bearers and the `DELETE` is
  deleted all the same, although `user_roles/README.md:89` promises a 409 for a
  role with bearers; extra roles and the default role, which registration gives
  without looking, may be without a row too (`SerialRolesExist` is about the main
  roles that serial requests give);
* a read before the invite of a joining user that raises (the link, the join
  rule or the creator, `channel_sync/__init__.py:128-136`) ends the process, and
  the user is without an invite until the next start (`AccessFollowsSubscription`);
* a list of hidden rooms read before an invalidation is stored after it, and a
  join drops no list (`ListIsTrue`, `HiddenOnlyBeside`); the invite, knock and
  leave sections are not filtered, so a closed device gets a hidden room there,
  also one it was invited to and then joined since its token, although the
  comment at `handlers/sync.py:1950-1952` says that such devices must not see
  hidden rooms (`HiddenOnlyBeside` says that they come nowhere else); a full-state
  marker is consumed by a `/sync` that had read the gate as closed, or by a
  response that is lost (`FirstSyncIsWhole`);
* two jobs of one owner, a job and the owner's client, two clients, or a restart
  or failure before the tag is stored, make two stories rooms
  (`OneRoomPerOwner`); an expired story of a remote author is tried in every
  round and never redacted (`ExpiredAreRedacted`); the backfill subscribes a pair again whose
  DM one side has left, and a remote user who leaves a DM is not removed
  (`AudienceFollowsDms`); overlapping rounds may redact a story twice, which
  changes nothing further;
* two root spaces made at once, or the second before the statistics have the
  first, both pass; the upgrade of a space, a sub-space that nobody makes a
  child and a space of another server are root-spaces that are not checked at
  all, although the guard promises one (`OneRoot` is about those that pass the
  check); a joined space of another server that is older
  is the main space after the next restart (`MainIsStable`);
  overlapping creations of one user, or one that fails, swap or leave the mark
  of a direct chat, although the comment at `single_space_guard/__init__.py:71`
  takes creations of one user to be serial, and the upgrade of a direct chat
  sets none (`GroupsAreListed`, `DmStaysOut`); a group made after the main space
  was purged is silently not added (`GroupsAreListed`);
  additions that fail are not repeated (`BackfillCompletes`).

## What is proved

The theorems hold for all values of the constants that satisfy the
`ConstantsAssumption` (`RegistryAssumption`) of their module: any sets of posts,
rooms, users, apps, codes and requests, any bounds. TLC evaluates these assumptions in the runs.

* `ChannelMirror_proofs`: `TypeCorrect`, `MappingIsSound`, `RedactionIsFinal`,
  `UnlinkingKeepsThreads`. A row alone does not say where the copy is: the
  invariant adds that a process about to insert its row has sent its copy to
  the room it holds, that a redaction that has run to its end leaves no row,
  and which rooms a cleanup under way is entitled to clear.
* `MiniApp_proofs`, about `MiniAppRegistry`: `RegistryTypeCorrect`,
  `FlagIsSound`, `SnapshotsMoveForward`. That no two fetches are under way is
  not inductive by itself; with "the flag is up exactly while a fetch is under
  way" it is, and an answer under way is then never older than the snapshot,
  because only one can be.
* `MiniApp_proofs`, about `MiniAppTickets`: `NoncesAreSingleUse`,
  `NoncesLiveTheirTTL`, `RoomTicketsAreChecked`, `NoncesExpire`,
  `RateLimitHolds`, `TypeCorrect`. The invariant relates an entry of the store
  to the entry as it was created, says that a used nonce is gone from the store
  for good, and that a request past the membership check belongs to somebody who
  has been in the room. For the rate limit the invariant (`RateInv`) says that
  the hits the limiter finds recent are exactly the requests let through in the
  last window (`KeepsRecent`), so the count it compares with the limit is the
  right one, whatever it has dropped before.
* `UserRoles_proofs`: `ExtrasFollowTheMainRole`, `TypeCorrect`,
  `CacheFollowsTable`, `ClientsFollowRoles`, `RolesKeepTheirRows`. Extra roles
  are read, awaited over and written back, so the invariant also covers what a
  request has read (`ReadExtrasWereGranted`). The
  proof sorts the steps by what they write (`StepEffects`) and treats each sort
  once. The last three theorems are about requests that follow one another: with
  at most one slot busy, `SerialInv` says that what the request in it has read
  is still so (`KindInv`), that the cache is the table but for direct writes
  (`CacheInv`), that nobody has lost the row of a role that clients were told of or that `set`
  looked up (`BearerInv`), whom
  the request will still tell and what (`LoopInv`), and that everybody else's
  clients have the role as it is (`ViewInv`). `missed` is there because a write
  that one load takes in unannounced can be undone by psql before the next:
  `reload` announces what differs between two loads, and only that.
* `StreamIds_proofs`: `TypeCorrect`, `UptoTheorem`, `PositionsTheorem`,
  `StreamIdsImplementStreamToken`, `NothingIsMissedTheorem` and `NobodyLags`,
  for `AnyStart = FALSE`. `UptoIsPersisted` speaks of one number, which a
  process computes from ids it knows, positions of others and messages under
  way. So the invariant says of every open id that nobody keeps it as a value
  (no row, stored position, message, or known or finished id equals it:
  `Unkept`) and that everything its own writer has said, and everybody believes
  of that writer, is below it (`Beyond`). Besides it has the shape of jobs
  (`JobsInv`: ids are above the maximum noted before the fetch), that no id is
  in two jobs (`DisjointInv`), and which processes have a position
  (`RunningInv`). In the refinement `NextVal` is `Take`; `FetchFails`, `Commit`
  and `RollBack` are `Settle`; `MarkFinished` and `Advance` are `Advance`;
  `Crash` is `Stop` and `Start` is `Resume`; the other steps change nothing
  abstract. `NobodyLags` is `SettledMeansCaughtUp`: its invariant (`LagInv`)
  says that a process with nothing under way tells the others of everything it
  has seen, that its position has followed the least one it knows of the
  others, and that each row is still to be marked finished or is covered by
  what its writer tells.
* `ChatTopologyGate_proofs`: `TypeCorrect`, `ListsAreTrue`, `ClosedGateHides`,
  `GateOpensWithProof`, `FirstSyncBringsAll`. What is known of builds was
  reported by the device, what is known of thresholds or on its way was offered
  by the service, and a verdict stays only where both prove it (`EvidenceInv`).
  A list of hidden rooms is true because the reading that fills it is right
  about the rooms read so far, but for those that changed meanwhile
  (`ListInv`); with a closed gate no room in the joined section of a response is
  hidden (`HideInv`), which `HiddenOnlyBeside` needs. A
  device that is due has its marker, and a build that passes every threshold in
  use, until its sync has passed the gate (`DueInv`).
* `StoriesRooms_proofs`: `TypeCorrect`, `OneStoriesRoom`, `SilentInvites`,
  `AudiencesFollow`, `OnlyExpiredAreRedacted`. First each action is reduced to what it does to the fields
  of its job and to the rooms (`XDoes`, `StepEffect`). `JobsInv` says what a job
  holds at each point: the turns left are one side of a pair or both, and the
  room is one of the owner in the first turn. `RoomsInv` numbers the rooms as
  they are made. One room per owner is not inductive: two jobs may both have
  found none, or one may have made it and not stored it. So `OneRoomInv` says of
  every owner not in `doubled` that at most one job or client is between finding
  no room and storing one, that the owner then has no room, or this one with nobody in
  it, and that without such a job his rooms are the one in his tag, which is the
  room every job that invites or removes holds. `SilentInv` adds to the property
  that a job past its mute has written it or failed to. `PairsInv` says of every
  pair not in `tangled` that one job at most concerns it (`Alone`), that what
  the last job wanted is done for both sides unless a job serves the pair that
  wants otherwise (`Wished`), and that a job in its second turn has done the
  first (`HalfWay`). Jobs of other pairs cannot disturb it: whoever changes a
  room's audience by a guest works for the pair of the room's owner and that
  guest. A restart only brings in a backfill, which wants what the pair has, or
  tangles the pair. A cleanup round works through a list it read earlier:
  `RoundsInv` says that its stories are over, and they stay over.
* `SingleSpace_proofs`: `TypeCorrect`, `OneMainSpace`, `OneRootSpace`,
  `DirectChatsStayOut`, `GroupsGetListed`, `BackfillIsComplete`. The invariant
  says that every space found to be the main one is it (`MainInv`), that at
  most one creation of a root is allowed, and only while every admitted root is
  a child (`RootInv`: a child stays one, so nesting cannot bring a second one
  back), which creation a mark
  belongs to (`MarkInv`), that nobody is adding a direct room (`DmInv`), and
  that a group is listed or an addition of it is under way (`OwedInv`,
  `FillInv`). `ConstantsAssumption` allows at most one root space among the
  first rooms: the guard does not repair a server that had two.
* `ChannelAccess_proofs`: `TypeCorrect`, `NeverOpened`, `ChatFollowsChannel`,
  `PassIsIdempotent`, `SubscribersHaveAccess`, `NoSecondInvite`, all from
  `InvHolds`. `ClosedInv` says that no process and no pass of the migration
  holds a public setting for a channel that was never public; `SerialInv` and
  `ChatInv` follow one change of the join rule, and the settings the migration
  has read or written, through their awaits; `SettledInv` relates the plan of
  the migration to the members while nothing else runs; `AccessInv` says that
  the one process at work for a user is about the last move, and that without
  one the chat follows the subscription.

Only model-checked: the liveness properties (`EveryPostIsMirrored`,
`PublishedAppIsServed`, `UnusedNoncesAreForgotten`, `ExpiredAreRedacted`), which
need fairness; ENABLED and fairness are out of the prover's reach. Every
invariant and every action property of the passing runs, and the refinement of
`StreamToken`, is a theorem as well. Type correctness is a theorem about every
model; the runs of
`ChannelMirror`, `MiniAppRegistry`, `MiniAppTickets`, `UserRoles` and `StreamIds`
leave `TypeOK` out for that reason.

## What is not modelled

See the components with status `not_modelled` in `PROJECT.json`. Guards,
searches and `access_admin` decide from what they read and keep nothing;
signatures and encodings of `miniapp/_crypto.py` are out of reach; the client
and Sygnal are forks, of which only what the modules read is modelled: account
data, capabilities and requests as inputs, and the client's own making of a
stories room in `StoriesRooms`; of Synapse, which is
by far the largest part of the repository, only the stream positions and the
parts of `/sync` that use the gate are modelled, the rest as the modules use
it. `channel_stories` repeats the join, leave and backfill processes of
`ChannelAccess` and `StoriesRooms`; `media_lifecycle` is one pass over events
with a row each; the federation half of `user_roles` is a TTL cache like the
one in `ChatTopologyGate`. Left out inside modelled components: wording of
notices and logs, profile fields in init data, sort order and colours of roles,
`role_v2`, which no reader uses, names of stories rooms, platforms of devices,
and publication and listing of companies in `single_space_guard`. Device ids
are taken to differ between users, although the table
(`chat_topology_sync_gate/_storage.py:12`) has the device id alone as its key.

## Plan

1. `ChannelStories`, next to `ChannelAccess`, and `MediaLifecycle`.
2. `SpaceWalk`: `collect` of `access_admin` against a reference definition of
   reachability within a depth.
3. More of Synapse where several processes meet: worker locks and the
   deduplication of transactions.
