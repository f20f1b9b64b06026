--------------------------- MODULE ChannelAccess ---------------------------
(***************************************************************************)
(* The access half of the channel_sync Synapse module: who is let into the *)
(* discussion chat of a channel, and how open that chat is.                *)
(*                                                                         *)
(* Joining the channel mutes the chat and, for a closed channel, invites;  *)
(* leaving it kicks; changing the channel's join rule rewrites the chat's  *)
(* join rule and history visibility; and every start of Synapse migrates   *)
(* the chat to what it should be.  All of these are background processes   *)
(* that interleave at their awaits, see ChannelMirror.  The channel has    *)
(* one chat, whose link may be off and on again; the deletion marker keeps *)
(* the room id, so for these processes it leaves the link on.              *)
(***************************************************************************)
EXTENDS Naturals

CONSTANTS
  Users,       \* users other than the owner of the channel and the chat
  Ai,          \* those _is_ai recognises
  Local,       \* those of this homeserver
  Bounds       \* bounds of a behaviour, one record for each instance
               \*   users    users that take part
               \*   moves    joins and leaves of one user in the channel
               \*   toggles  changes of the channel's join rule
               \*   links    times comments are turned off or on
               \*   faults   calls that fail for a reason outside the model
               \*   crashes  restarts of Synapse

ASSUME ConstantsAssumption ==
  /\ Ai \subseteq Users /\ Local \subseteq Users
  /\ Bounds \subseteq [users: SUBSET Users, moves: Nat, toggles: Nat, links: Nat,
                        faults: Nat, crashes: Nat]

Rules      == {"public", "invite", "knock"}
Moves      == UNION {1..b.moves : b \in Bounds}
Toggles    == UNION {1..b.toggles : b \in Bounds}

VARIABLES
  subs,        \* users joined to the channel
  rule, feed,  \* join rule and history visibility of the channel
  link,        \* "on" while com.liza.channel.discussion names the chat
  chat,        \* join rule, history visibility and topology of the chat
  disc,        \* membership of each user in the chat
  muted,       \* users with a dont_notify rule for the chat
  memberTask,  \* _on_channel_join / _on_channel_leave, one per move of a user
  muteTask,    \* users for whom _mute_for_subscriber is under way
  privacyTask, \* _sync_discussion_privacy, one per change of the join rule
  migration,   \* the startup pass: program counter, snapshot and plan
  bound,       \* the bounds of this behaviour
  moves, toggles, links, faults, crashes,
  everPublic,  \* history: the channel or the chat has been public
  exempt,      \* history: users whose last move raced with another process, or
               \* whose invite or kick, or a read before it, failed
  settled,     \* history: nothing but the migration has run since the start
  stale        \* history: since the start, changes of the join rule overlapped
               \* or comments were switched

chatroom == <<chat, disc, muted>>
channel  == <<subs, rule, feed, link>>
tasks    == <<memberTask, muteTask, privacyTask, migration>>
counters == <<bound, moves, toggles, links, faults, crashes>>
history  == <<everPublic, exempt, settled, stale>>
vars     == <<chatroom, channel, tasks, counters, history>>

Humans == Users \ Ai

(* discussion_settings_for: anything that is not public counts as closed *)
IsPublicChannel(r) == r = "public"
\* Faults: the rule is passed on as it is; only invite counts as closed.
JoinRuleFor_Raw(r)  == r
JoinRuleFor_Open(r) == IF r = "invite" THEN "invite" ELSE "public"
JoinRuleFor(r)     == IF IsPublicChannel(r) THEN "public" ELSE "invite"
HistoryFor(r)      == IF IsPublicChannel(r) THEN "world_readable" ELSE "shared"

Chat        == [rule: {"public", "invite"}, history: {"world_readable", "shared"},
                hidden: {"yes", "no"}]
MemberTask  == [kind: {"join", "leave"}, pc: {"none", "link", "mute", "rule", "move", "done"}]
PrivacyTask == [rule: Rules, pc: {"none", "link", "rule", "history", "done"}]
MigrationPc == {"feed", "openFeed", "link", "subs", "joined", "invited", "settings",
                "chatRule", "chatHistory", "chatHidden",
                "rule", "history", "hidden", "invite", "done"}
Migration   == [pc: MigrationPc, rule: Rules, chat: Chat,
                subs: SUBSET Users, members: SUBSET Users]

TypeOK ==
  /\ subs \in SUBSET Users
  /\ rule \in Rules
  /\ feed \in {"world_readable", "shared"}
  /\ link \in {"on", "off"}
  /\ chat \in Chat
  /\ disc \in [Users -> {"out", "invite", "join"}]
  /\ muted \in SUBSET Users
  /\ memberTask \in [Users \X Moves -> MemberTask]
  /\ muteTask \in SUBSET Users
  /\ privacyTask \in [Toggles -> PrivacyTask]
  /\ migration \in Migration
  /\ bound \in Bounds
  /\ moves \in [Users -> Nat] /\ toggles \in Nat /\ links \in Nat
  /\ faults \in Nat /\ crashes \in Nat
  /\ everPublic \in BOOLEAN /\ exempt \in SUBSET Users /\ settled \in BOOLEAN /\ stale \in BOOLEAN

Pass(pc, r, c, wanted, members) ==
  [pc |-> pc, rule |-> r, chat |-> c, subs |-> wanted, members |-> members]

(* A pass that has read nothing yet, or is over *)
Blank(pc) == Pass(pc, "invite", [rule |-> "invite", history |-> "shared", hidden |-> "no"],
                  {}, {})

(* Synapse starts on rooms made by older clients: the chat was created     *)
(* private and without topology, whatever the channel is; some subscribers *)
(* may already be in it.                                                   *)
Init ==
  /\ bound \in Bounds
  /\ subs \in SUBSET bound.users
  /\ rule \in Rules
  /\ feed = "shared"
  /\ link = "on"
  /\ chat \in {[rule |-> "invite", history |-> "shared", hidden |-> "no"],
               [rule |-> JoinRuleFor(rule), history |-> HistoryFor(rule), hidden |-> "yes"]}
  /\ disc \in [Users -> {"out", "invite", "join"}]
  /\ \A u \in Users : disc[u] # "out" => u \in subs \ Ai
  /\ muted = {u \in Local : disc[u] = "join"}
  /\ memberTask = [t \in Users \X Moves |-> [kind |-> "join", pc |-> "none"]]
  /\ muteTask = {}
  /\ privacyTask = [t \in Toggles |-> [rule |-> "invite", pc |-> "none"]]
  /\ migration = Blank("feed")
  /\ moves = [u \in Users |-> 0]
  /\ toggles = 0 /\ links = 0 /\ faults = 0 /\ crashes = 0
  /\ everPublic = IsPublicChannel(rule)
  /\ exempt = {} /\ settled = TRUE /\ stale = FALSE

Running(task) == task.pc \notin {"none", "done"}

Busy(u) == \/ \E n \in Moves : Running(memberTask[<<u, n>>])
           \/ migration.pc # "done"

Fault == faults < bound.faults /\ faults' = faults + 1

-----------------------------------------------------------------------------
(* Events of the channel, and the process each one starts. *)

Move(u, kind) ==
  /\ moves[u] < bound.moves
  /\ moves' = [moves EXCEPT ![u] = @ + 1]
  /\ memberTask' = [memberTask EXCEPT ![<<u, moves[u] + 1>>] = [kind |-> kind, pc |-> "link"]]
  /\ exempt' = IF Busy(u) \/ link = "off" THEN exempt \union {u} ELSE exempt \ {u}
  /\ settled' = FALSE
  /\ UNCHANGED <<chatroom, rule, feed, link, muteTask, privacyTask, migration,
                 bound, toggles, links, faults, crashes, everPublic, stale>>

(* A closed channel is entered through an invite of its owner. *)
JoinChannel(u) ==
  /\ u \notin subs
  /\ subs' = subs \union {u}
  /\ Move(u, "join")

(* A leave, a kick or a ban: is_membership_leave *)
LeaveChannel(u) ==
  /\ u \in subs
  /\ subs' = subs \ {u}
  /\ Move(u, "leave")

ToggleJoinRule(r) ==
  /\ toggles < bound.toggles
  /\ toggles' = toggles + 1
  /\ rule' = r
  /\ privacyTask' = [privacyTask EXCEPT ![toggles + 1] = [rule |-> r, pc |-> "link"]]
  /\ everPublic' = (everPublic \/ IsPublicChannel(r))
  /\ settled' = FALSE
  /\ stale' = (stale \/ migration.pc # "done" \/ \E n \in Toggles : Running(privacyTask[n]))
  /\ UNCHANGED <<chatroom, subs, feed, link, memberTask, muteTask, migration,
                 bound, moves, links, faults, crashes, exempt>>

SwitchComments ==
  /\ links < bound.links
  /\ links' = links + 1
  /\ link' = IF link = "on" THEN "off" ELSE "on"
  /\ settled' = FALSE /\ stale' = TRUE
  /\ exempt' = exempt \union {u \in Users : Busy(u)}
  /\ UNCHANGED <<chatroom, subs, rule, feed, tasks, bound, moves, toggles, faults, crashes,
                 everPublic>>

-----------------------------------------------------------------------------
(* Users in the chat.  Joining it starts _mute_for_subscriber. *)


JoinChat(u) ==
  /\ disc[u] = "invite" \/ (disc[u] = "out" /\ chat.rule = "public")
  /\ disc' = [disc EXCEPT ![u] = "join"]
  /\ muteTask' = IF u \in Local THEN muteTask \union {u} ELSE muteTask
  /\ settled' = FALSE
  /\ UNCHANGED <<chat, muted, channel, memberTask, privacyTask, migration, counters,
                 everPublic, exempt, stale>>

LeaveChat(u) ==
  /\ disc[u] # "out"
  /\ disc' = [disc EXCEPT ![u] = "out"]
  /\ exempt' = exempt \union {u}
  /\ settled' = FALSE
  /\ UNCHANGED <<chat, muted, channel, tasks, counters, everPublic, stale>>

MuteForSubscriber(u) ==
  /\ u \in muteTask
  /\ muteTask' = muteTask \ {u}
  /\ \/ muted' = muted \union {u} /\ UNCHANGED faults
     \/ Fault /\ UNCHANGED muted
  /\ UNCHANGED <<chat, disc, channel, memberTask, privacyTask, migration,
                 bound, moves, toggles, links, crashes, history>>

-----------------------------------------------------------------------------
(* What update_room_membership does to the chat: an invite of a joined     *)
(* user and a kick of an absent one are refused, and the caller swallows   *)
(* the refusal; a second invite is issued again.                           *)
Invited(u) == [disc EXCEPT ![u] = IF @ = "join" THEN @ ELSE "invite"]
Kicked(u)  == [disc EXCEPT ![u] = "out"]

MemberGoes(t, pc) ==
  memberTask' = [memberTask EXCEPT ![t] = [kind |-> memberTask[t].kind, pc |-> pc]]

At(t, kind, pc) == memberTask[t] = [kind |-> kind, pc |-> pc]

(* A read of a room that raises ends the process: the reads of             *)
(* _on_channel_join and _on_channel_leave are in no try.                   *)
MemberReadFails(t) ==
  /\ memberTask[t].pc \in {"link", "rule"}
  /\ MemberGoes(t, "done") /\ Fault
  /\ exempt' = exempt \union {t[1]}
  /\ UNCHANGED <<chatroom, channel, muteTask, privacyTask, migration,
                 bound, moves, toggles, links, crashes, everPublic, settled, stale>>

(* _on_channel_join: AI filter, then the link.  _is_ai takes a user whose  *)
(* role cannot be read for a human.                                        *)
JoinReadsLink(t) ==
  /\ At(t, "join", "link")
  /\ \/ MemberGoes(t, IF t[1] \in Ai \/ link = "off" THEN "done"
                      ELSE IF t[1] \in Local THEN "mute" ELSE "rule") /\ UNCHANGED faults
     \/ t[1] \in Ai /\ link = "on" /\ MemberGoes(t, IF t[1] \in Local THEN "mute" ELSE "rule") /\ Fault
  /\ UNCHANGED <<chatroom, channel, muteTask, privacyTask, migration,
                 bound, moves, toggles, links, crashes, history>>

\* Fault: a mute that fails ends the process.
JoinMutes_FailureEnds(t) ==
  /\ At(t, "join", "mute")
  /\ \/ MemberGoes(t, "rule") /\ muted' = muted \union {t[1]} /\ UNCHANGED faults
     \/ MemberGoes(t, "done") /\ Fault /\ UNCHANGED muted
  /\ UNCHANGED <<chat, disc, channel, muteTask, privacyTask, migration,
                 bound, moves, toggles, links, crashes, history>>

JoinMutes(t) ==
  /\ At(t, "join", "mute")
  /\ MemberGoes(t, "rule")
  /\ \/ muted' = muted \union {t[1]} /\ UNCHANGED faults
     \/ Fault /\ UNCHANGED muted
  /\ UNCHANGED <<chat, disc, channel, muteTask, privacyTask, migration,
                 bound, moves, toggles, links, crashes, history>>

JoinReadsRule(t) ==
  /\ At(t, "join", "rule")
  /\ MemberGoes(t, IF IsPublicChannel(rule) THEN "done" ELSE "move")
  /\ UNCHANGED <<chatroom, channel, muteTask, privacyTask, migration, counters, history>>

JoinInvites(t) ==
  /\ At(t, "join", "move")
  /\ MemberGoes(t, "done")
  /\ \/ disc' = Invited(t[1]) /\ UNCHANGED <<faults, exempt>>
     \/ Fault /\ UNCHANGED disc /\ exempt' = exempt \union {t[1]}
  /\ UNCHANGED <<chat, muted, channel, muteTask, privacyTask, migration,
                 bound, moves, toggles, links, crashes, everPublic, settled, stale>>

(* _on_channel_leave *)
LeaveReadsLink(t) ==
  /\ At(t, "leave", "link")
  /\ MemberGoes(t, IF link = "off" THEN "done" ELSE "move")
  /\ UNCHANGED <<chatroom, channel, muteTask, privacyTask, migration, counters, history>>

LeaveKicks(t) ==
  /\ At(t, "leave", "move")
  /\ MemberGoes(t, "done")
  /\ \/ disc' = Kicked(t[1]) /\ UNCHANGED <<faults, exempt>>
     \/ Fault /\ UNCHANGED disc /\ exempt' = exempt \union {t[1]}
  /\ UNCHANGED <<chat, muted, channel, muteTask, privacyTask, migration,
                 bound, moves, toggles, links, crashes, everPublic, settled, stale>>

-----------------------------------------------------------------------------
(* Writes of the chat's state events, each in a try of its own. *)

WriteChat(new) ==
  \/ chat' = new /\ UNCHANGED faults
  \/ Fault /\ UNCHANGED chat

WithRule(c, r)    == [rule |-> r, history |-> c.history, hidden |-> c.hidden]
WithHistory(c, h) == [rule |-> c.rule, history |-> h, hidden |-> c.hidden]
WithHidden(c)     == [rule |-> c.rule, history |-> c.history, hidden |-> "yes"]

(* _sync_discussion_privacy works for the join rule of its own event. *)
PrivacyGoes(n, pc) ==
  privacyTask' = [privacyTask EXCEPT ![n] = [rule |-> privacyTask[n].rule, pc |-> pc]]

PrivacyReadsLink(n) ==
  /\ privacyTask[n].pc = "link"
  /\ PrivacyGoes(n, IF link = "off" THEN "done" ELSE "rule")
  /\ UNCHANGED <<chatroom, channel, memberTask, muteTask, migration, counters, history>>

PrivacyReadFails(n) ==
  /\ privacyTask[n].pc = "link"
  /\ PrivacyGoes(n, "done") /\ Fault
  /\ UNCHANGED <<chatroom, channel, memberTask, muteTask, migration,
                 bound, moves, toggles, links, crashes, history>>

\* Fault: the second write is skipped.
PrivacySetsRule_Only(n) ==
  /\ privacyTask[n].pc = "rule"
  /\ PrivacyGoes(n, "done")
  /\ WriteChat(WithRule(chat, JoinRuleFor(privacyTask[n].rule)))
  /\ UNCHANGED <<disc, muted, channel, memberTask, muteTask, migration,
                 bound, moves, toggles, links, crashes, history>>

PrivacySetsRule(n) ==
  /\ privacyTask[n].pc = "rule"
  /\ PrivacyGoes(n, "history")
  /\ WriteChat(WithRule(chat, JoinRuleFor(privacyTask[n].rule)))
  /\ UNCHANGED <<disc, muted, channel, memberTask, muteTask, migration,
                 bound, moves, toggles, links, crashes, history>>

PrivacySetsHistory(n) ==
  /\ privacyTask[n].pc = "history"
  /\ PrivacyGoes(n, "done")
  /\ WriteChat(WithHistory(chat, HistoryFor(privacyTask[n].rule)))
  /\ UNCHANGED <<disc, muted, channel, memberTask, muteTask, migration,
                 bound, moves, toggles, links, crashes, history>>

-----------------------------------------------------------------------------
(* _migrate_channel_discussions, run by _on_startup *)

MigrationGoes(pc) ==
  migration' = IF pc = "done" THEN Blank(pc)
               ELSE Pass(pc, migration.rule, migration.chat, migration.subs, migration.members)

MigrationOnly == UNCHANGED <<chatroom, channel, memberTask, muteTask, privacyTask,
                             counters, history>>

(* _migrate_channel_visibility: open the feed of an open channel *)
MigrationReadsFeed ==
  /\ migration.pc = "feed"
  /\ MigrationGoes(IF IsPublicChannel(rule) /\ feed # "world_readable"
                   THEN "openFeed" ELSE "link")
  /\ MigrationOnly

MigrationOpensFeed ==
  /\ migration.pc = "openFeed"
  /\ MigrationGoes("link")
  /\ \/ feed' = "world_readable" /\ UNCHANGED faults
     \/ Fault /\ UNCHANGED feed
  /\ UNCHANGED <<chatroom, subs, rule, link, memberTask, muteTask, privacyTask,
                 bound, moves, toggles, links, crashes, history>>

(* _migrate_one_channel *)
MigrationReadsLink ==
  /\ migration.pc = "link"
  /\ MigrationGoes(IF link = "off" THEN "done" ELSE "subs")
  /\ MigrationOnly

(* A read that raises, or the search for channels before them, ends the    *)
(* pass over the channel.                                                  *)
MigrationReadFails ==
  /\ migration.pc \in {"feed", "link", "subs", "joined", "invited", "settings",
                       "chatRule", "chatHistory", "chatHidden"}
  /\ MigrationGoes("done") /\ Fault
  /\ UNCHANGED <<chatroom, channel, memberTask, muteTask, privacyTask,
                 bound, moves, toggles, links, crashes, history>>

(* _channel_snapshot reads its parts one after the other; an AI user whose *)
(* role cannot be read counts as a subscriber.                             *)

SnapshotSubs ==
  /\ migration.pc = "subs"
  /\ \E missed \in SUBSET Ai :
       /\ migration' = Pass("joined", migration.rule, migration.chat, subs \ (Ai \ missed), {})
       /\ IF missed = {} THEN UNCHANGED faults ELSE Fault
  /\ UNCHANGED <<chatroom, channel, memberTask, muteTask, privacyTask,
                 bound, moves, toggles, links, crashes, history>>

SnapshotJoined ==
  /\ migration.pc = "joined"
  /\ migration' = Pass("invited", migration.rule, migration.chat, migration.subs,
                        {u \in Users : disc[u] = "join"})
  /\ MigrationOnly

\* Fault: users who have not answered their invite are not counted.
SnapshotInvited_JoinedOnly ==
  /\ migration.pc = "invited"
  /\ MigrationGoes("settings")
  /\ MigrationOnly

SnapshotInvited ==
  /\ migration.pc = "invited"
  /\ migration' = Pass("settings", migration.rule, migration.chat, migration.subs,
                        migration.members \union {u \in Users : disc[u] = "invite"})
  /\ MigrationOnly

(* plan_discussion_migration: what of the snapshot is not yet as it should be *)
PlansRule(m)    == m.chat.rule # JoinRuleFor(m.rule)
PlansHistory(m) == m.chat.history # HistoryFor(m.rule)
PlansHidden(m)  == m.chat.hidden # "yes"
PlansInvites(m) == IF IsPublicChannel(m.rule) THEN {} ELSE m.subs \ m.members
PlanIsNoop(m)   == ~PlansRule(m) /\ ~PlansHistory(m) /\ ~PlansHidden(m) /\ PlansInvites(m) = {}

SnapshotRule ==
  /\ migration.pc = "settings"
  /\ migration' = Pass("chatRule", rule, migration.chat, migration.subs, migration.members)
  /\ MigrationOnly

SnapshotChatRule ==
  /\ migration.pc = "chatRule"
  /\ migration' = Pass("chatHistory", migration.rule, WithRule(migration.chat, chat.rule),
                        migration.subs, migration.members)
  /\ MigrationOnly

SnapshotChatHistory ==
  /\ migration.pc = "chatHistory"
  /\ migration' = Pass("chatHidden", migration.rule, WithHistory(migration.chat, chat.history),
                        migration.subs, migration.members)
  /\ MigrationOnly

(* The last read completes the snapshot, and the plan is made from it. *)
SnapshotChatHidden ==
  /\ migration.pc = "chatHidden"
  /\ LET planned == Pass("rule", migration.rule,
                         [rule |-> migration.chat.rule, history |-> migration.chat.history,
                          hidden |-> chat.hidden],
                         migration.subs, migration.members)
     IN  migration' = IF PlanIsNoop(planned) THEN Blank("done") ELSE planned
  /\ MigrationOnly

MigrationSetsRule ==
  /\ migration.pc = "rule"
  /\ MigrationGoes("history")
  /\ IF PlansRule(migration)
     THEN WriteChat(WithRule(chat, JoinRuleFor(migration.rule)))
     ELSE UNCHANGED <<chat, faults>>
  /\ UNCHANGED <<disc, muted, channel, memberTask, muteTask, privacyTask,
                 bound, moves, toggles, links, crashes, history>>

MigrationSetsHistory ==
  /\ migration.pc = "history"
  /\ MigrationGoes("hidden")
  /\ IF PlansHistory(migration)
     THEN WriteChat(WithHistory(chat, HistoryFor(migration.rule)))
     ELSE UNCHANGED <<chat, faults>>
  /\ UNCHANGED <<disc, muted, channel, memberTask, muteTask, privacyTask,
                 bound, moves, toggles, links, crashes, history>>

\* Fault: the topology is not written.
MigrationSetsHidden_Skipped ==
  /\ migration.pc = "hidden"
  /\ MigrationGoes("invite")
  /\ MigrationOnly

MigrationSetsHidden ==
  /\ migration.pc = "hidden"
  /\ MigrationGoes("invite")
  /\ IF PlansHidden(migration)
     THEN WriteChat(WithHidden(chat))
     ELSE UNCHANGED <<chat, faults>>
  /\ UNCHANGED <<disc, muted, channel, memberTask, muteTask, privacyTask,
                 bound, moves, toggles, links, crashes, history>>

(* One invite of the plan; an invited user joins the members of the plan.  *)
MigrationInvites(u) ==
  /\ migration.pc = "invite"
  /\ u \in PlansInvites(migration)
  /\ migration' = Pass("invite", migration.rule, migration.chat, migration.subs,
                        migration.members \union {u})
  /\ \/ disc' = Invited(u) /\ UNCHANGED <<faults, exempt>>
     \/ Fault /\ UNCHANGED disc /\ exempt' = exempt \union {u}
  /\ UNCHANGED <<chat, muted, channel, memberTask, muteTask, privacyTask,
                 bound, moves, toggles, links, crashes, everPublic, settled, stale>>

MigrationEnds ==
  /\ migration.pc = "invite"
  /\ PlansInvites(migration) = {}
  /\ MigrationGoes("done")
  /\ MigrationOnly

-----------------------------------------------------------------------------
(* A restart loses every process and starts the migration again. *)

Ended(pc) == IF pc \in {"none", "done"} THEN pc ELSE "done"

Crash ==
  /\ crashes < bound.crashes
  /\ crashes' = crashes + 1
  /\ memberTask' = [t \in Users \X Moves |->
       [kind |-> memberTask[t].kind, pc |-> Ended(memberTask[t].pc)]]
  /\ muteTask' = {}
  /\ privacyTask' = [n \in Toggles |->
       [rule |-> privacyTask[n].rule, pc |-> Ended(privacyTask[n].pc)]]
  /\ migration' = Blank("feed")
  /\ settled' = TRUE /\ stale' = FALSE
  /\ exempt' = exempt \union {u \in Users : \E n \in Moves : Running(memberTask[<<u, n>>])}
  /\ UNCHANGED <<chatroom, channel, bound, moves, toggles, links, faults, everPublic>>

-----------------------------------------------------------------------------
ChannelEvent ==
  \/ \E u \in bound.users : JoinChannel(u) \/ LeaveChannel(u) \/ JoinChat(u) \/ LeaveChat(u)
  \/ \E r \in Rules : ToggleJoinRule(r)
  \/ SwitchComments

OnChannelMember(t) ==
  \/ JoinReadsLink(t) \/ JoinMutes(t) \/ JoinReadsRule(t) \/ JoinInvites(t)
  \/ LeaveReadsLink(t) \/ LeaveKicks(t) \/ MemberReadFails(t)

SyncDiscussionPrivacy(n) ==
  PrivacyReadsLink(n) \/ PrivacyReadFails(n) \/ PrivacySetsRule(n) \/ PrivacySetsHistory(n)

Migrate ==
  \/ MigrationReadsFeed \/ MigrationOpensFeed \/ MigrationReadsLink \/ MigrationReadFails
  \/ SnapshotSubs \/ SnapshotJoined \/ SnapshotInvited
  \/ SnapshotRule \/ SnapshotChatRule \/ SnapshotChatHistory \/ SnapshotChatHidden
  \/ MigrationSetsRule \/ MigrationSetsHistory \/ MigrationSetsHidden
  \/ (\E u \in Users : MigrationInvites(u)) \/ MigrationEnds

Next ==
  \/ ChannelEvent
  \/ \E t \in Users \X Moves : OnChannelMember(t)
  \/ \E u \in Users : MuteForSubscriber(u)
  \/ \E n \in Toggles : SyncDiscussionPrivacy(n)
  \/ Migrate
  \/ Crash

Spec == Init /\ [][Next]_vars

-----------------------------------------------------------------------------
(* Properties *)

(* A channel that was never public never gets an open chat or an open feed: *)
(* every rule other than public, knock included, is treated as closed, by   *)
(* the join rule process and by the migration.                              *)
ClosedChannelStaysClosed ==
  ~everPublic => chat.rule = "invite" /\ chat.history = "shared" /\ feed = "shared"

(* The startup pass is idempotent: undisturbed, it ends in a state in      *)
(* which the next pass has nothing to write, so that a restart does not    *)
(* invite anyone again.                                                    *)
MigrationSettles ==
  migration.pc = "done" /\ settled /\ faults = 0 /\ link = "on" =>
    PlanIsNoop(Pass("done", rule, chat, subs \ Ai, {u \in Users : disc[u] # "out"}))

(* An undisturbed pass invites only users who are out of the chat: Synapse *)
(* would issue a second invite again, and notify the user at every start.  *)
NobodyInvitedTwice ==
  [][migration.pc = "invite" /\ settled =>
       \A u \in migration'.members \ migration.members : disc[u] = "out"]_vars

(* When no two changes of the join rule overlap, the chat ends up as open  *)
(* as its channel, also after a restart that lost the process: the         *)
(* migration of that start repairs what was missed.                        *)
SerialChangesConverge ==
  /\ migration.pc = "done" /\ \A n \in Toggles : ~Running(privacyTask[n])
  /\ ~stale /\ faults = 0 /\ link = "on"
  => chat.rule = JoinRuleFor(rule) /\ chat.history = HistoryFor(rule)

(* For a closed channel, a user whose last move did not race with another  *)
(* process is in the chat or invited exactly when subscribed.  A mute that *)
(* fails does not cost the user the invite, nor does what fails for        *)
(* others; excepted are users whose own invite or kick failed, or one of   *)
(* the reads of the rooms before it, which the code does not catch.        *)
AccessFollowsSubscription ==
  ~everPublic =>
    \A u \in Humans \ exempt :
      ~Busy(u) /\ moves[u] > 0 => (u \in subs <=> disc[u] # "out")

-----------------------------------------------------------------------------
(* What the code says of itself and does not keep. *)

Undisturbed ==
  /\ \A t \in Users \X Moves : ~Running(memberTask[t])
  /\ \A n \in Toggles : ~Running(privacyTask[n])
  /\ migration.pc = "done"
  /\ faults = 0 /\ crashes = 0 /\ links = 0

(* Stated by _on_channel_leave: whoever leaves a closed channel does not   *)
(* stay in its discussion chat.                                            *)
LeaverLosesAccess ==
  Undisturbed /\ ~everPublic => \A u \in Users \ subs : disc[u] = "out"
=============================================================================
