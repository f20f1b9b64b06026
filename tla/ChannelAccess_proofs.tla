----------------------- MODULE ChannelAccess_proofs -----------------------
(***************************************************************************)
(* Proofs about ChannelAccess.  The six results at the end rest on one     *)
(* inductive invariant, in the order of the sections:                      *)
(*   TypeOK      types, with what each handler does as a predicate         *)
(*   ClosedInv   nobody holds a public join rule of a channel that was     *)
(*               never public                                              *)
(*   SerialInv   one process at a time works for the join rule in force    *)
(*   ChatInv     what the startup pass has read is still so, what it or    *)
(*               the join rule process has written is right                *)
(*   SettledInv  undisturbed, the member lists the pass has read are true  *)
(*   AccessInv   the process at work for a user is about the last move     *)
(***************************************************************************)
EXTENDS ChannelAccess, TLAPS

-----------------------------------------------------------------------------
(* Types *)

MemberPcs  == {"none", "link", "mute", "rule", "move", "done"}
PrivacyPcs == {"none", "link", "rule", "history", "done"}

LEMMA MemberGoesFacts ==
  ASSUME TypeOK, NEW t \in Users \X Moves, NEW pc \in MemberPcs, MemberGoes(t, pc)
  PROVE  /\ memberTask' \in [Users \X Moves -> MemberTask]
         /\ memberTask'[t].pc = pc /\ memberTask'[t].kind = memberTask[t].kind
         /\ \A s \in Users \X Moves : s # t => memberTask'[s] = memberTask[s]
BY DEF TypeOK, MemberGoes, MemberTask, MemberPcs

LEMMA PrivacyGoesFacts ==
  ASSUME TypeOK, NEW n \in Toggles, NEW pc \in PrivacyPcs, PrivacyGoes(n, pc)
  PROVE  /\ privacyTask' \in [Toggles -> PrivacyTask]
         /\ privacyTask'[n].pc = pc /\ privacyTask'[n].rule = privacyTask[n].rule
         /\ \A k \in Toggles : k # n => privacyTask'[k] = privacyTask[k]
BY DEF TypeOK, PrivacyGoes, PrivacyTask, PrivacyPcs

(* The startup pass gets these fields. *)
Becomes(pc, r, c, wanted, members) ==
  /\ migration' \in Migration
  /\ migration'.pc = pc /\ migration'.rule = r /\ migration'.chat = c
  /\ migration'.subs = wanted /\ migration'.members = members

NoChat == [rule |-> "invite", history |-> "shared", hidden |-> "no"]

LEMMA PassFacts ==
  ASSUME NEW pc \in MigrationPc, NEW r \in Rules, NEW c \in Chat, NEW wanted \in SUBSET Users,
         NEW members \in SUBSET Users, migration' = Pass(pc, r, c, wanted, members)
  PROVE  Becomes(pc, r, c, wanted, members)
BY DEF Pass, Becomes, Migration

LEMMA BlankFacts ==
  ASSUME NEW pc \in MigrationPc, migration' = Blank(pc)
  PROVE  Becomes(pc, "invite", NoChat, {}, {})
<1>1. NoChat \in Chat /\ "invite" \in Rules
  BY DEF NoChat, Chat, Rules
<1> QED BY <1>1, PassFacts DEF Blank, NoChat

LEMMA MigrationFields ==
  ASSUME TypeOK
  PROVE  /\ migration.pc \in MigrationPc /\ migration.rule \in Rules /\ migration.chat \in Chat
         /\ migration.subs \in SUBSET Users /\ migration.members \in SUBSET Users
BY DEF TypeOK, Migration

LEMMA MigrationGoesFacts ==
  ASSUME TypeOK, NEW pc \in MigrationPc, MigrationGoes(pc)
  PROVE  /\ pc # "done" => Becomes(pc, migration.rule, migration.chat, migration.subs, migration.members)
         /\ pc = "done" => Becomes("done", "invite", NoChat, {}, {})
BY MigrationFields, PassFacts, BlankFacts DEF MigrationGoes

-----------------------------------------------------------------------------
(* What a step of the startup pass does *)

Reads(pc, r, c, wanted, members) == Becomes(pc, r, c, wanted, members) /\ MigrationOnly

others == <<disc, muted, channel, memberTask, muteTask, privacyTask,
            bound, moves, toggles, links, crashes, history>>

(* The chat gets the value new, if the write is planned and does not fail. *)
Writes(planned, new) ==
  \/ planned /\ chat' = new /\ UNCHANGED faults
  \/ ~planned /\ UNCHANGED <<chat, faults>>
  \/ faults' = faults + 1 /\ UNCHANGED chat

MigrateDoes ==
  LET m == migration IN
  \/ /\ m.pc = "feed" /\ ~(IsPublicChannel(rule) /\ feed # "world_readable")
     /\ Reads("link", m.rule, m.chat, m.subs, m.members)
  \/ m.pc = "feed" /\ IsPublicChannel(rule) /\ Reads("openFeed", m.rule, m.chat, m.subs, m.members)
  \/ /\ m.pc = "openFeed" /\ Becomes("link", m.rule, m.chat, m.subs, m.members)
     /\ feed' \in {feed, "world_readable"} /\ faults' \in {faults, faults + 1}
     /\ UNCHANGED <<chatroom, subs, rule, link, memberTask, muteTask, privacyTask,
                    bound, moves, toggles, links, crashes, history>>
  \/ m.pc = "link" /\ link = "on" /\ Reads("subs", m.rule, m.chat, m.subs, m.members)
  \/ m.pc = "link" /\ link = "off" /\ Reads("done", "invite", NoChat, {}, {})
  \/ /\ m.pc \notin {"done", "openFeed", "rule", "history", "hidden", "invite"}
     /\ faults' = faults + 1 /\ Becomes("done", "invite", NoChat, {}, {})
     /\ UNCHANGED <<chat, others>>
  \/ /\ m.pc = "subs" /\ UNCHANGED <<chat, others>>
     /\ \E missed \in SUBSET Ai :
          /\ Becomes("joined", m.rule, m.chat, subs \ (Ai \ missed), {})
          /\ (missed = {} /\ UNCHANGED faults) \/ faults' = faults + 1
  \/ m.pc = "joined" /\ Reads("invited", m.rule, m.chat, m.subs, {u \in Users : disc[u] = "join"})
  \/ /\ m.pc = "invited"
     /\ Reads("settings", m.rule, m.chat, m.subs, m.members \union {u \in Users : disc[u] = "invite"})
  \/ m.pc = "settings" /\ Reads("chatRule", rule, m.chat, m.subs, m.members)
  \/ m.pc = "chatRule" /\ Reads("chatHistory", m.rule, WithRule(m.chat, chat.rule), m.subs, m.members)
  \/ m.pc = "chatHistory" /\ Reads("chatHidden", m.rule, WithHistory(m.chat, chat.history), m.subs, m.members)
  \/ /\ m.pc = "chatHidden"
     /\ Reads("rule", m.rule, [rule |-> m.chat.rule, history |-> m.chat.history, hidden |-> chat.hidden],
              m.subs, m.members)
  \/ /\ m.pc = "chatHidden" /\ Reads("done", "invite", NoChat, {}, {})
     /\ m.chat.rule = JoinRuleFor(m.rule) /\ m.chat.history = HistoryFor(m.rule) /\ chat.hidden = "yes"
     /\ IsPublicChannel(m.rule) \/ m.subs \subseteq m.members
  \/ /\ m.pc = "rule" /\ Becomes("history", m.rule, m.chat, m.subs, m.members) /\ UNCHANGED others
     /\ Writes(PlansRule(m), WithRule(chat, JoinRuleFor(m.rule)))
  \/ /\ m.pc = "history" /\ Becomes("hidden", m.rule, m.chat, m.subs, m.members) /\ UNCHANGED others
     /\ Writes(PlansHistory(m), WithHistory(chat, HistoryFor(m.rule)))
  \/ /\ m.pc = "hidden" /\ Becomes("invite", m.rule, m.chat, m.subs, m.members) /\ UNCHANGED others
     /\ Writes(PlansHidden(m), WithHidden(chat))
  \/ \E u \in Users :
       /\ m.pc = "invite" /\ u \in m.subs \ m.members
       /\ Becomes("invite", m.rule, m.chat, m.subs, m.members \union {u})
       /\ \/ disc' = Invited(u) /\ UNCHANGED <<faults, exempt>>
          \/ faults' = faults + 1 /\ UNCHANGED disc /\ exempt' = exempt \union {u}
       /\ UNCHANGED <<chat, muted, channel, memberTask, muteTask, privacyTask,
                      bound, moves, toggles, links, crashes, everPublic, settled, stale>>
  \/ /\ m.pc = "invite" /\ Reads("done", "invite", NoChat, {}, {})
     /\ IsPublicChannel(m.rule) \/ m.subs \subseteq m.members

LEMMA MigrateEffect ==
  ASSUME TypeOK, Migrate PROVE MigrateDoes
<1>0. /\ migration.rule \in Rules /\ migration.chat \in Chat /\ chat \in Chat /\ rule \in Rules
      /\ migration.subs \in SUBSET Users /\ migration.members \in SUBSET Users
      /\ subs \in SUBSET Users /\ link \in {"on", "off"}
  BY MigrationFields DEF TypeOK
<1> USE DEF MigrationPc
<1>1. CASE MigrationReadsFeed
  BY <1>1, MigrationGoesFacts DEF MigrationReadsFeed, MigrateDoes, Reads
<1>2. CASE MigrationOpensFeed
  BY <1>2, MigrationGoesFacts DEF MigrationOpensFeed, MigrateDoes, Fault
<1>3. CASE MigrationReadsLink
  BY <1>0, <1>3, MigrationGoesFacts DEF MigrationReadsLink, MigrateDoes, Reads
<1>4. CASE SnapshotSubs
  <2>1. PICK missed \in SUBSET Ai :
          /\ migration' = Pass("joined", migration.rule, migration.chat, subs \ (Ai \ missed), {})
          /\ (missed = {} /\ UNCHANGED faults) \/ faults' = faults + 1
    BY <1>4 DEF SnapshotSubs, Fault
  <2>2. subs \ (Ai \ missed) \in SUBSET Users /\ {} \in SUBSET Users
    BY <1>0
  <2>3. Becomes("joined", migration.rule, migration.chat, subs \ (Ai \ missed), {})
    BY <1>0, <2>1, <2>2, PassFacts
  <2>4. migration.pc = "subs" /\ UNCHANGED <<chat, others>>
    BY <1>4 DEF SnapshotSubs, others, chatroom
  <2> QED BY <2>1, <2>3, <2>4, Zenon DEF MigrateDoes
<1>5. CASE SnapshotJoined
  <2>1. {u \in Users : disc[u] = "join"} \in SUBSET Users
    OBVIOUS
  <2> QED BY <1>0, <1>5, <2>1, PassFacts DEF SnapshotJoined, MigrateDoes, Reads
<1>6. CASE SnapshotInvited
  <2>1. migration.members \union {u \in Users : disc[u] = "invite"} \in SUBSET Users
    BY <1>0
  <2> QED BY <1>0, <1>6, <2>1, PassFacts DEF SnapshotInvited, MigrateDoes, Reads
<1>7. CASE SnapshotRule
  BY <1>0, <1>7, PassFacts DEF SnapshotRule, MigrateDoes, Reads
<1>8. CASE SnapshotChatRule
  <2>1. WithRule(migration.chat, chat.rule) \in Chat
    BY <1>0 DEF WithRule, Chat
  <2> QED BY <1>0, <1>8, <2>1, PassFacts DEF SnapshotChatRule, MigrateDoes, Reads
<1>9. CASE SnapshotChatHistory
  <2>1. WithHistory(migration.chat, chat.history) \in Chat
    BY <1>0 DEF WithHistory, Chat
  <2> QED BY <1>0, <1>9, <2>1, PassFacts DEF SnapshotChatHistory, MigrateDoes, Reads
<1>10. CASE SnapshotChatHidden
  <2> DEFINE c == [rule |-> migration.chat.rule, history |-> migration.chat.history, hidden |-> chat.hidden]
             planned == Pass("rule", migration.rule, c, migration.subs, migration.members)
  <2>1. c \in Chat
    BY <1>0 DEF Chat
  <2>2. /\ migration.pc = "chatHidden" /\ MigrationOnly
        /\ migration' = IF PlanIsNoop(planned) THEN Blank("done") ELSE planned
    BY <1>10 DEF SnapshotChatHidden
  <2>3. CASE PlanIsNoop(planned)
    <3>1. /\ migration.chat.rule = JoinRuleFor(migration.rule)
          /\ migration.chat.history = HistoryFor(migration.rule) /\ chat.hidden = "yes"
          /\ IsPublicChannel(migration.rule) \/ migration.subs \subseteq migration.members
      BY <2>3 DEF Pass, PlanIsNoop, PlansRule, PlansHistory, PlansHidden, PlansInvites
    <3>2. Becomes("done", "invite", NoChat, {}, {})
      BY <2>2, <2>3, BlankFacts
    <3> QED BY <2>2, <3>1, <3>2 DEF MigrateDoes, Reads
  <2>4. CASE ~PlanIsNoop(planned)
    <3>1. Becomes("rule", migration.rule, c, migration.subs, migration.members)
      BY <1>0, <2>1, <2>2, <2>4, PassFacts
    <3> QED BY <2>2, <3>1 DEF MigrateDoes, Reads
  <2> QED BY <2>3, <2>4
<1>11. CASE MigrationSetsRule
  BY <1>11, MigrationGoesFacts DEF MigrationSetsRule, MigrateDoes, Writes, WriteChat, Fault, others
<1>12. CASE MigrationSetsHistory
  BY <1>12, MigrationGoesFacts DEF MigrationSetsHistory, MigrateDoes, Writes, WriteChat, Fault, others
<1>13. CASE MigrationSetsHidden
  BY <1>13, MigrationGoesFacts DEF MigrationSetsHidden, MigrateDoes, Writes, WriteChat, Fault, others
<1>14. ASSUME NEW u \in Users, MigrationInvites(u) PROVE MigrateDoes
  <2>1. migration.members \union {u} \in SUBSET Users /\ u \in migration.subs \ migration.members
    BY <1>0, <1>14 DEF MigrationInvites, PlansInvites
  <2>2. Becomes("invite", migration.rule, migration.chat, migration.subs, migration.members \union {u})
    BY <1>0, <1>14, <2>1, PassFacts DEF MigrationInvites
  <2> QED BY <1>14, <2>1, <2>2, Zenon DEF MigrationInvites, MigrateDoes, Fault
<1>15. CASE MigrationEnds
  BY <1>15, MigrationGoesFacts DEF MigrationEnds, MigrateDoes, Reads, PlansInvites
<1>16. CASE MigrationReadFails
  <2>1. Becomes("done", "invite", NoChat, {}, {})
    BY <1>16, MigrationGoesFacts DEF MigrationReadFails
  <2>2. /\ migration.pc \notin {"done", "openFeed", "rule", "history", "hidden", "invite"}
        /\ faults' = faults + 1 /\ UNCHANGED <<chat, others>>
    BY <1>16 DEF MigrationReadFails, Fault, others, chatroom
  <2> QED BY <2>1, <2>2 DEF MigrateDoes
<1> QED BY <1>1, <1>2, <1>3, <1>4, <1>5, <1>6, <1>7, <1>8, <1>9, <1>10, <1>11, <1>12, <1>13, <1>14, <1>15,
           <1>16 DEF Migrate

-----------------------------------------------------------------------------
(* Every variable keeps its type *)

LEMMA BoundFacts ==
  ASSUME TypeOK
  PROVE  /\ bound.moves \in Nat /\ bound.toggles \in Nat
         /\ \A k \in Nat : k < bound.moves => k + 1 \in Moves
         /\ \A k \in Nat : k < bound.toggles => k + 1 \in Toggles
<1>1. bound \in Bounds /\ bound.moves \in Nat /\ bound.toggles \in Nat
  BY ConstantsAssumption DEF TypeOK
<1>2. \A k \in Nat : k < bound.moves => k + 1 \in 1..bound.moves
  BY <1>1
<1>3. \A k \in Nat : k < bound.toggles => k + 1 \in 1..bound.toggles
  BY <1>1
<1> QED BY <1>1, <1>2, <1>3 DEF Moves, Toggles

LEMMA MoveFacts ==
  ASSUME TypeOK, NEW u \in Users, NEW kind \in {"join", "leave"}, Move(u, kind)
  PROVE  /\ moves' \in [Users -> Nat] /\ moves'[u] > 0 /\ \A v \in Users : v # u => moves'[v] = moves[v]
         /\ memberTask' \in [Users \X Moves -> MemberTask]
         /\ \E n \in Moves :
              /\ memberTask'[<<u, n>>] = [kind |-> kind, pc |-> "link"]
              /\ \A t \in Users \X Moves : t # <<u, n>> => memberTask'[t] = memberTask[t]
<1>1. moves[u] \in Nat /\ moves[u] + 1 \in Moves
  BY BoundFacts DEF TypeOK, Move
<1>2. <<u, moves[u] + 1>> \in Users \X Moves /\ [kind |-> kind, pc |-> "link"] \in MemberTask
  BY <1>1 DEF MemberTask
<1>3. moves' \in [Users -> Nat] /\ moves'[u] > 0 /\ \A v \in Users : v # u => moves'[v] = moves[v]
  BY <1>1 DEF Move, TypeOK
<1>4. /\ memberTask' \in [Users \X Moves -> MemberTask]
      /\ memberTask'[<<u, moves[u] + 1>>] = [kind |-> kind, pc |-> "link"]
      /\ \A t \in Users \X Moves : t # <<u, moves[u] + 1>> => memberTask'[t] = memberTask[t]
  BY <1>2 DEF Move, TypeOK
<1> QED BY <1>1, <1>3, <1>4

LEMMA ToggleFacts ==
  ASSUME TypeOK, NEW r \in Rules, ToggleJoinRule(r)
  PROVE  /\ toggles' \in Nat /\ privacyTask' \in [Toggles -> PrivacyTask]
         /\ \E n \in Toggles : /\ privacyTask'[n] = [rule |-> r, pc |-> "link"]
                               /\ \A k \in Toggles : k # n => privacyTask'[k] = privacyTask[k]
<1>1. toggles \in Nat /\ toggles + 1 \in Toggles
  BY BoundFacts DEF TypeOK, ToggleJoinRule
<1>2. [rule |-> r, pc |-> "link"] \in PrivacyTask
  BY DEF PrivacyTask
<1>3. /\ privacyTask' \in [Toggles -> PrivacyTask]
      /\ privacyTask'[toggles + 1] = [rule |-> r, pc |-> "link"]
      /\ \A k \in Toggles : k # toggles + 1 => privacyTask'[k] = privacyTask[k]
  BY <1>1, <1>2 DEF ToggleJoinRule, TypeOK
<1> QED BY <1>1, <1>3 DEF ToggleJoinRule

LEMMA WriteTypes ==
  ASSUME chat \in Chat, NEW r \in Rules
  PROVE  /\ WithRule(chat, JoinRuleFor(r)) \in Chat
         /\ WithHistory(chat, HistoryFor(r)) \in Chat
         /\ WithHidden(chat) \in Chat
BY DEF Chat, WithRule, WithHistory, WithHidden, JoinRuleFor, HistoryFor

LEMMA MoveTypes ==
  ASSUME TypeOK, NEW u \in Users, JoinChannel(u) \/ LeaveChannel(u) PROVE TypeOK'
<1>1. PICK kind \in {"join", "leave"} : Move(u, kind)
  BY DEF JoinChannel, LeaveChannel
<1>2. subs' \in SUBSET Users
  BY DEF JoinChannel, LeaveChannel, TypeOK
<1>3. exempt' \in SUBSET Users
  BY <1>1 DEF Move, TypeOK
<1>4. moves' \in [Users -> Nat] /\ memberTask' \in [Users \X Moves -> MemberTask]
  BY <1>1, MoveFacts
<1>5. /\ settled' = FALSE
      /\ UNCHANGED <<chatroom, rule, feed, link, muteTask, privacyTask, migration,
                     bound, toggles, links, faults, crashes, everPublic, stale>>
  BY <1>1 DEF Move
<1> QED BY <1>2, <1>3, <1>4, <1>5 DEF TypeOK, chatroom

LEMMA EventTypes ==
  ASSUME TypeOK, ChannelEvent PROVE TypeOK'
<1>0. bound.users \subseteq Users
  BY ConstantsAssumption DEF TypeOK
<1>1. ASSUME NEW u \in Users, JoinChat(u) PROVE TypeOK'
  BY <1>1 DEF JoinChat, TypeOK, channel, counters
<1>2. ASSUME NEW u \in Users, LeaveChat(u) PROVE TypeOK'
  BY <1>2 DEF LeaveChat, TypeOK, channel, counters, tasks
<1>3. ASSUME NEW r \in Rules, ToggleJoinRule(r) PROVE TypeOK'
  <2>1. toggles' \in Nat /\ privacyTask' \in [Toggles -> PrivacyTask]
    BY <1>3, ToggleFacts
  <2>2. rule' \in Rules /\ everPublic' \in BOOLEAN /\ settled' \in BOOLEAN /\ stale' \in BOOLEAN
    BY <1>3 DEF ToggleJoinRule, TypeOK
  <2>3. UNCHANGED <<chatroom, subs, feed, link, memberTask, muteTask, migration,
                    bound, moves, links, faults, crashes, exempt>>
    BY <1>3 DEF ToggleJoinRule
  <2> QED BY <2>1, <2>2, <2>3 DEF TypeOK, chatroom
<1>4. CASE SwitchComments
  <2>1. exempt' \in SUBSET Users
    BY <1>4 DEF SwitchComments, TypeOK
  <2>2. links' \in Nat /\ link' \in {"on", "off"} /\ settled' = FALSE /\ stale' = TRUE
        /\ UNCHANGED <<chatroom, subs, rule, feed, tasks, bound, moves, toggles, faults, crashes, everPublic>>
    BY <1>4 DEF SwitchComments, TypeOK
  <2> QED BY <2>1, <2>2 DEF TypeOK, chatroom, tasks
<1> QED BY <1>0, <1>1, <1>2, <1>3, <1>4, MoveTypes DEF ChannelEvent

LEMMA InvitedFacts ==
  ASSUME TypeOK, NEW u \in Users
  PROVE  /\ Invited(u) \in [Users -> {"out", "invite", "join"}] /\ Invited(u)[u] # "out"
         /\ Kicked(u) \in [Users -> {"out", "invite", "join"}] /\ Kicked(u)[u] = "out"
         /\ \A v \in Users : v # u => Invited(u)[v] = disc[v] /\ Kicked(u)[v] = disc[v]
BY DEF TypeOK, Invited, Kicked

(* A step of _on_channel_join or _on_channel_leave. *)
MemberDoes(t) ==
  LET u == t[1] IN
  /\ memberTask' \in [Users \X Moves -> MemberTask]
  /\ \A s \in Users \X Moves : s # t => memberTask'[s] = memberTask[s]
  /\ memberTask'[t].kind = memberTask[t].kind
  /\ \/ /\ memberTask[t].pc # "move" /\ Running(memberTask[t]) /\ UNCHANGED <<disc, exempt>>
        /\ Running(memberTask'[t]) \/ link = "off" \/ u \in Ai \/ IsPublicChannel(rule)
        /\ faults' \in {faults, faults + 1} /\ muted' \in {muted, muted \union {u}}
     \/ /\ Running(memberTask[t]) /\ ~Running(memberTask'[t]) /\ UNCHANGED <<muted, disc>>
        /\ faults' = faults + 1 /\ exempt' = exempt \union {u}
     \/ /\ memberTask[t].pc = "move" /\ ~Running(memberTask'[t]) /\ UNCHANGED muted
        /\ \/ /\ UNCHANGED <<faults, exempt>>
              /\ disc' = IF memberTask[t].kind = "join" THEN Invited(u) ELSE Kicked(u)
           \/ faults' = faults + 1 /\ UNCHANGED disc /\ exempt' = exempt \union {u}
  /\ UNCHANGED <<chat, channel, muteTask, privacyTask, migration,
                 bound, moves, toggles, links, crashes, everPublic, settled, stale>>

LEMMA MemberEffect ==
  ASSUME TypeOK, NEW t \in Users \X Moves, OnChannelMember(t) PROVE MemberDoes(t)
<1> USE DEF MemberPcs
<1>1. CASE JoinReadsLink(t)
  <2>1. /\ memberTask[t].kind = "join" /\ memberTask[t].pc = "link" /\ faults' \in {faults, faults + 1}
        /\ UNCHANGED <<chatroom, channel, muteTask, privacyTask, migration,
                       bound, moves, toggles, links, crashes, history>>
    BY <1>1 DEF JoinReadsLink, At, Fault
  <2>2. PICK pc \in MemberPcs : MemberGoes(t, pc) /\ (pc \in {"mute", "rule"} \/ t[1] \in Ai \/ link = "off")
    BY <1>1 DEF JoinReadsLink
  <2>3. /\ memberTask' \in [Users \X Moves -> MemberTask]
        /\ memberTask'[t].pc = pc /\ memberTask'[t].kind = memberTask[t].kind
        /\ \A s \in Users \X Moves : s # t => memberTask'[s] = memberTask[s]
    BY <2>2, MemberGoesFacts
  <2> QED BY <2>1, <2>2, <2>3 DEF MemberDoes, Running, chatroom, history
<1>2. CASE JoinMutes(t)
  <2>1. /\ memberTask[t].kind = "join" /\ memberTask[t].pc = "mute" /\ MemberGoes(t, "rule")
        /\ faults' \in {faults, faults + 1} /\ muted' \in {muted, muted \union {t[1]}}
        /\ UNCHANGED <<chat, disc, channel, muteTask, privacyTask, migration,
                       bound, moves, toggles, links, crashes, history>>
    BY <1>2 DEF JoinMutes, At, Fault
  <2> QED BY <2>1, MemberGoesFacts DEF MemberDoes, Running, history
<1>3. CASE JoinReadsRule(t)
  <2> DEFINE to == IF IsPublicChannel(rule) THEN "done" ELSE "move"
  <2>1. /\ memberTask[t].kind = "join" /\ memberTask[t].pc = "rule" /\ MemberGoes(t, to)
        /\ UNCHANGED <<chatroom, channel, muteTask, privacyTask, migration, counters, history>>
    BY <1>3 DEF JoinReadsRule, At
  <2>2. to \in MemberPcs /\ (to = "move" \/ IsPublicChannel(rule))
    OBVIOUS
  <2> HIDE DEF to
  <2> QED BY <2>1, <2>2, MemberGoesFacts DEF MemberDoes, Running, chatroom, counters, history
<1>4. CASE JoinInvites(t)
  <2>1. /\ memberTask[t].kind = "join" /\ memberTask[t].pc = "move" /\ MemberGoes(t, "done")
        /\ \/ disc' = Invited(t[1]) /\ UNCHANGED <<faults, exempt>>
           \/ faults' = faults + 1 /\ UNCHANGED disc /\ exempt' = exempt \union {t[1]}
        /\ UNCHANGED <<chat, muted, channel, muteTask, privacyTask, migration,
                       bound, moves, toggles, links, crashes, everPublic, settled, stale>>
    BY <1>4 DEF JoinInvites, At, Fault
  <2> QED BY <2>1, MemberGoesFacts DEF MemberDoes, Running
<1>5. CASE LeaveReadsLink(t)
  <2>1. /\ memberTask[t].pc = "link"
        /\ UNCHANGED <<chatroom, channel, muteTask, privacyTask, migration, counters, history>>
    BY <1>5 DEF LeaveReadsLink, At
  <2>2. PICK pc \in MemberPcs : MemberGoes(t, pc) /\ (pc = "move" \/ link = "off")
    BY <1>5 DEF LeaveReadsLink
  <2> QED BY <2>1, <2>2, MemberGoesFacts DEF MemberDoes, Running, chatroom, counters, history
<1>6. CASE LeaveKicks(t)
  <2>1. /\ memberTask[t].kind = "leave" /\ memberTask[t].pc = "move" /\ MemberGoes(t, "done")
        /\ \/ disc' = Kicked(t[1]) /\ UNCHANGED <<faults, exempt>>
           \/ faults' = faults + 1 /\ UNCHANGED disc /\ exempt' = exempt \union {t[1]}
        /\ UNCHANGED <<chat, muted, channel, muteTask, privacyTask, migration,
                       bound, moves, toggles, links, crashes, everPublic, settled, stale>>
    BY <1>6 DEF LeaveKicks, At, Fault
  <2> QED BY <2>1, MemberGoesFacts DEF MemberDoes, Running
<1>7. CASE MemberReadFails(t)
  <2>1. /\ Running(memberTask[t]) /\ MemberGoes(t, "done") /\ faults' = faults + 1
        /\ exempt' = exempt \union {t[1]} /\ UNCHANGED <<muted, disc>>
        /\ UNCHANGED <<chat, channel, muteTask, privacyTask, migration,
                       bound, moves, toggles, links, crashes, everPublic, settled, stale>>
    BY <1>7 DEF MemberReadFails, Fault, Running, chatroom
  <2> QED BY <2>1, MemberGoesFacts DEF MemberDoes, Running
<1> QED BY <1>1, <1>2, <1>3, <1>4, <1>5, <1>6, <1>7 DEF OnChannelMember

LEMMA MemberTypes ==
  ASSUME TypeOK, NEW t \in Users \X Moves, MemberDoes(t) PROVE TypeOK'
<1>1. t[1] \in Users
  OBVIOUS
<1>2. disc' \in [Users -> {"out", "invite", "join"}]
  BY <1>1, InvitedFacts DEF MemberDoes, TypeOK
<1>3. exempt' \in SUBSET Users /\ muted' \in SUBSET Users /\ faults' \in Nat
  BY <1>1 DEF MemberDoes, TypeOK
<1> QED BY <1>2, <1>3 DEF MemberDoes, TypeOK, channel

(* A step of _sync_discussion_privacy. *)
PrivacyDoes(n) ==
  /\ privacyTask' \in [Toggles -> PrivacyTask]
  /\ \A k \in Toggles : k # n => privacyTask'[k] = privacyTask[k]
  /\ privacyTask'[n].rule = privacyTask[n].rule
  /\ \/ /\ privacyTask[n].pc = "link" /\ UNCHANGED <<chat, faults>>
        /\ privacyTask'[n].pc = IF link = "off" THEN "done" ELSE "rule"
     \/ /\ privacyTask[n].pc = "link" /\ privacyTask'[n].pc = "done"
        /\ UNCHANGED chat /\ faults' = faults + 1
     \/ /\ privacyTask[n].pc = "rule" /\ privacyTask'[n].pc = "history"
        /\ Writes(TRUE, WithRule(chat, JoinRuleFor(privacyTask[n].rule)))
     \/ /\ privacyTask[n].pc = "history" /\ privacyTask'[n].pc = "done"
        /\ Writes(TRUE, WithHistory(chat, HistoryFor(privacyTask[n].rule)))
  /\ UNCHANGED <<disc, muted, channel, memberTask, muteTask, migration,
                 bound, moves, toggles, links, crashes, history>>

LEMMA PrivacyEffect ==
  ASSUME TypeOK, NEW n \in Toggles, SyncDiscussionPrivacy(n) PROVE PrivacyDoes(n)
<1> USE DEF PrivacyPcs
<1>1. CASE PrivacyReadsLink(n)
  BY <1>1, PrivacyGoesFacts DEF PrivacyReadsLink, PrivacyDoes, chatroom, counters
<1>2. CASE PrivacySetsRule(n)
  BY <1>2, PrivacyGoesFacts DEF PrivacySetsRule, PrivacyDoes, WriteChat, Writes, Fault
<1>3. CASE PrivacySetsHistory(n)
  BY <1>3, PrivacyGoesFacts DEF PrivacySetsHistory, PrivacyDoes, WriteChat, Writes, Fault
<1>4. CASE PrivacyReadFails(n)
  BY <1>4, PrivacyGoesFacts DEF PrivacyReadFails, PrivacyDoes, chatroom, Fault
<1> QED BY <1>1, <1>2, <1>3, <1>4 DEF SyncDiscussionPrivacy

LEMMA PrivacyTypes ==
  ASSUME TypeOK, NEW n \in Toggles, PrivacyDoes(n) PROVE TypeOK'
<1>1. privacyTask[n].rule \in Rules /\ chat \in Chat
  BY DEF TypeOK, PrivacyTask
<1>2. chat' \in Chat /\ faults' \in Nat
  BY <1>1, WriteTypes DEF PrivacyDoes, Writes, TypeOK
<1> QED BY <1>2 DEF PrivacyDoes, TypeOK, channel, history

LEMMA MigrateTypes ==
  ASSUME TypeOK, MigrateDoes PROVE TypeOK'
<1>1. migration' \in Migration
  BY DEF MigrateDoes, Reads, Becomes
<1>2. CASE MigrationOnly
  BY <1>1, <1>2 DEF MigrationOnly, TypeOK, chatroom, channel, counters, history
<1>3. CASE /\ feed' \in {feed, "world_readable"} /\ faults' \in {faults, faults + 1}
           /\ UNCHANGED <<chatroom, subs, rule, link, memberTask, muteTask, privacyTask,
                          bound, moves, toggles, links, crashes, history>>
  BY <1>1, <1>3 DEF TypeOK, chatroom, history
<1>4. CASE UNCHANGED others /\ \E planned \in BOOLEAN, new \in Chat : Writes(planned, new)
  BY <1>1, <1>4 DEF Writes, TypeOK, others, channel, history
<1>8. CASE UNCHANGED <<chat, others>> /\ faults' \in {faults, faults + 1}
  BY <1>1, <1>8 DEF TypeOK, others, channel, history
<1>5. ASSUME NEW u \in Users,
             \/ disc' = Invited(u) /\ UNCHANGED <<faults, exempt>>
             \/ faults' = faults + 1 /\ UNCHANGED disc /\ exempt' = exempt \union {u},
             UNCHANGED <<chat, muted, channel, memberTask, muteTask, privacyTask,
                         bound, moves, toggles, links, crashes, everPublic, settled, stale>>
      PROVE  TypeOK'
  BY <1>1, <1>5, InvitedFacts DEF TypeOK, channel
<1>6. ASSUME NEW r \in Rules
      PROVE  /\ WithRule(chat, JoinRuleFor(r)) \in Chat /\ WithHistory(chat, HistoryFor(r)) \in Chat
             /\ WithHidden(chat) \in Chat
  BY WriteTypes DEF TypeOK
<1>7. migration.rule \in Rules /\ PlansRule(migration) \in BOOLEAN /\ PlansHistory(migration) \in BOOLEAN
      /\ PlansHidden(migration) \in BOOLEAN
  BY MigrationFields DEF PlansRule, PlansHistory, PlansHidden
<1>9. faults' = faults \/ faults' = faults + 1 => faults' \in {faults, faults + 1}
  OBVIOUS
<1> QED BY <1>2, <1>3, <1>4, <1>5, <1>6, <1>7, <1>8, <1>9, Zenon DEF MigrateDoes, Reads

LEMMA CrashFacts ==
  ASSUME TypeOK, Crash
  PROVE  /\ memberTask' \in [Users \X Moves -> MemberTask] /\ \A t \in Users \X Moves : ~Running(memberTask'[t])
         /\ privacyTask' \in [Toggles -> PrivacyTask]
         /\ \A n \in Toggles : ~Running(privacyTask'[n]) /\ privacyTask'[n].rule = privacyTask[n].rule
         /\ Becomes("feed", "invite", NoChat, {}, {})
<1>1. memberTask' \in [Users \X Moves -> MemberTask] /\ \A t \in Users \X Moves : ~Running(memberTask'[t])
  BY DEF Crash, TypeOK, MemberTask, Ended, Running
<1>2. /\ privacyTask' \in [Toggles -> PrivacyTask]
      /\ \A n \in Toggles : ~Running(privacyTask'[n]) /\ privacyTask'[n].rule = privacyTask[n].rule
  BY DEF Crash, TypeOK, PrivacyTask, Ended, Running
<1>3. Becomes("feed", "invite", NoChat, {}, {})
  BY BlankFacts DEF Crash, MigrationPc
<1> QED BY <1>1, <1>2, <1>3

LEMMA NextTypes ==
  ASSUME TypeOK, [Next]_vars PROVE TypeOK'
<1>1. ASSUME NEW u \in Users, MuteForSubscriber(u) PROVE TypeOK'
  BY <1>1 DEF MuteForSubscriber, Fault, TypeOK, channel, history
<1>2. CASE Crash
  <2>1. /\ memberTask' \in [Users \X Moves -> MemberTask] /\ privacyTask' \in [Toggles -> PrivacyTask]
        /\ migration' \in Migration
    BY <1>2, CrashFacts DEF Becomes
  <2>2. exempt' \in SUBSET Users
    BY <1>2 DEF Crash, TypeOK
  <2>3. crashes' \in Nat /\ muteTask' = {} /\ settled' = TRUE /\ stale' = FALSE
        /\ UNCHANGED <<chatroom, channel, bound, moves, toggles, links, faults, everPublic>>
    BY <1>2 DEF Crash, TypeOK
  <2> QED BY <2>1, <2>2, <2>3 DEF TypeOK, chatroom, channel
<1>3. CASE UNCHANGED vars
  BY <1>3 DEF TypeOK, vars, chatroom, channel, tasks, counters, history
<1> QED BY <1>1, <1>2, <1>3, EventTypes, MemberEffect, MemberTypes, PrivacyEffect, PrivacyTypes,
           MigrateEffect, MigrateTypes, Zenon DEF Next

(* Every step is one of these. *)
StepDoes ==
  \/ \E u \in Users : JoinChannel(u) \/ LeaveChannel(u) \/ JoinChat(u) \/ LeaveChat(u) \/ MuteForSubscriber(u)
  \/ \E r \in Rules : ToggleJoinRule(r)
  \/ SwitchComments
  \/ \E t \in Users \X Moves : MemberDoes(t)
  \/ \E n \in Toggles : PrivacyDoes(n)
  \/ MigrateDoes
  \/ Crash
  \/ UNCHANGED vars

LEMMA StepCases == ASSUME TypeOK, [Next]_vars PROVE StepDoes
<1>1. bound.users \subseteq Users
  BY ConstantsAssumption DEF TypeOK
<1> QED BY <1>1, MemberEffect, PrivacyEffect, MigrateEffect, Zenon DEF Next, ChannelEvent, StepDoes

-----------------------------------------------------------------------------
(* A closed channel *)

(* Nobody has seen a public join rule, so no process opens anything. *)
ClosedInv ==
  everPublic \/ /\ chat.rule = "invite" /\ chat.history = "shared" /\ feed = "shared"
                /\ rule # "public" /\ \A n \in Toggles : privacyTask[n].rule # "public"
                /\ migration.rule # "public" /\ migration.pc # "openFeed"

LEMMA WriteFields ==
  ASSUME NEW r, chat \in Chat
  PROVE  /\ WithRule(chat, r).rule = r /\ WithRule(chat, r).history = chat.history
         /\ WithRule(chat, r).hidden = chat.hidden
         /\ WithHistory(chat, r).rule = chat.rule /\ WithHistory(chat, r).history = r
         /\ WithHistory(chat, r).hidden = chat.hidden
         /\ WithHidden(chat).rule = chat.rule /\ WithHidden(chat).history = chat.history
         /\ WithHidden(chat).hidden = "yes"
BY DEF WithRule, WithHistory, WithHidden

LEMMA MigrateClosed ==
  ASSUME TypeOK, ClosedInv, ~everPublic, MigrateDoes PROVE ClosedInv'
<1>1. UNCHANGED <<everPublic, rule, privacyTask>>
  BY DEF MigrateDoes, Reads, MigrationOnly, others, channel, history
<1>2. migration'.rule # "public" /\ migration'.pc # "openFeed"
  BY DEF ClosedInv, MigrateDoes, Reads, Becomes, IsPublicChannel
<1>3. feed' = "shared"
  BY DEF ClosedInv, MigrateDoes, Reads, MigrationOnly, others, channel
<1>4. JoinRuleFor(migration.rule) = "invite" /\ HistoryFor(migration.rule) = "shared"
  BY DEF ClosedInv, JoinRuleFor, HistoryFor, IsPublicChannel
<1>5. chat' \in {chat, WithRule(chat, "invite"), WithHistory(chat, "shared"), WithHidden(chat)}
  BY <1>4 DEF MigrateDoes, Reads, MigrationOnly, chatroom, Writes
<1>6. chat'.rule = "invite" /\ chat'.history = "shared"
  <2>1. chat \in Chat /\ chat.rule = "invite" /\ chat.history = "shared"
    BY DEF ClosedInv, TypeOK
  <2>2. CASE chat' = chat
    BY <2>1, <2>2
  <2>3. CASE chat' = WithRule(chat, "invite")
    BY <2>1, <2>3, WriteFields
  <2>4. CASE chat' = WithHistory(chat, "shared")
    BY <2>1, <2>4, WriteFields
  <2>5. CASE chat' = WithHidden(chat)
    BY <2>1, <2>5, WriteFields
  <2> QED BY <1>5, <2>2, <2>3, <2>4, <2>5
<1> QED BY <1>1, <1>2, <1>3, <1>6 DEF ClosedInv

LEMMA NextClosed ==
  ASSUME TypeOK, ClosedInv, StepDoes PROVE ClosedInv'
<1> SUFFICES ASSUME ~everPublic' PROVE ClosedInv'
  BY DEF ClosedInv
<1>1. CASE UNCHANGED <<everPublic, chat, feed, rule, privacyTask, migration>>
  BY <1>1 DEF ClosedInv
<1>2. ASSUME NEW u \in Users,
             JoinChannel(u) \/ LeaveChannel(u) \/ JoinChat(u) \/ LeaveChat(u) \/ MuteForSubscriber(u)
      PROVE  ClosedInv'
  BY <1>1, <1>2 DEF JoinChannel, LeaveChannel, Move, JoinChat, LeaveChat, MuteForSubscriber, chatroom,
                    channel, tasks, history
<1>3. ASSUME NEW r \in Rules, ToggleJoinRule(r) PROVE ClosedInv'
  <2>1. /\ UNCHANGED <<chat, feed, migration>> /\ rule' = r /\ r # "public" /\ ~everPublic
    BY <1>3 DEF ToggleJoinRule, chatroom, IsPublicChannel
  <2>2. PICK n \in Toggles : /\ privacyTask'[n] = [rule |-> r, pc |-> "link"]
                             /\ \A k \in Toggles : k # n => privacyTask'[k] = privacyTask[k]
    BY <1>3, ToggleFacts
  <2>3. \A k \in Toggles : privacyTask'[k].rule # "public"
    BY <2>1, <2>2 DEF ClosedInv
  <2> QED BY <2>1, <2>3 DEF ClosedInv
<1>4. CASE SwitchComments
  BY <1>1, <1>4 DEF SwitchComments, chatroom, tasks
<1>5. ASSUME NEW t \in Users \X Moves, MemberDoes(t) PROVE ClosedInv'
  BY <1>1, <1>5 DEF MemberDoes, channel
<1>6. ASSUME NEW n \in Toggles, PrivacyDoes(n) PROVE ClosedInv'
  <2>1. UNCHANGED <<everPublic, rule, feed, migration>>
    BY <1>6 DEF PrivacyDoes, channel, history
  <2>2. \A k \in Toggles : privacyTask'[k].rule # "public"
    BY <1>6, <2>1 DEF PrivacyDoes, ClosedInv
  <2>3. JoinRuleFor(privacyTask[n].rule) = "invite" /\ HistoryFor(privacyTask[n].rule) = "shared"
    BY <2>1 DEF ClosedInv, JoinRuleFor, HistoryFor, IsPublicChannel
  <2>4. chat' \in {chat, WithRule(chat, "invite"), WithHistory(chat, "shared")}
    BY <1>6, <2>3 DEF PrivacyDoes, Writes
  <2>5. chat'.rule = "invite" /\ chat'.history = "shared"
    BY <2>1, <2>4, WriteFields DEF ClosedInv, TypeOK
  <2> QED BY <2>1, <2>2, <2>5 DEF ClosedInv
<1>7. CASE MigrateDoes
  <2>1. UNCHANGED everPublic
    BY <1>7 DEF MigrateDoes, Reads, MigrationOnly, others, history
  <2> QED BY <1>7, <2>1, MigrateClosed
<1>8. CASE Crash
  <2>1. UNCHANGED <<everPublic, chat, feed, rule>>
    BY <1>8 DEF Crash, chatroom, channel
  <2> QED BY <1>8, <2>1, CrashFacts DEF ClosedInv, Becomes
<1>9. CASE UNCHANGED vars
  BY <1>1, <1>9 DEF vars, chatroom, channel, tasks, history
<1> QED BY <1>2, <1>3, <1>4, <1>5, <1>6, <1>7, <1>8, <1>9 DEF StepDoes

-----------------------------------------------------------------------------
(* Changes of the join rule, one at a time *)

(* Unless changes overlapped, the process at work has the rule in force.   *)
SerialInv ==
  ~stale => /\ migration.pc # "done" => \A n \in Toggles : ~Running(privacyTask[n])
            /\ \A n, k \in Toggles : Running(privacyTask[n]) /\ Running(privacyTask[k]) => n = k
            /\ \A n \in Toggles : Running(privacyTask[n]) => privacyTask[n].rule = rule

LEMMA NextSerial ==
  ASSUME TypeOK, SerialInv, StepDoes PROVE SerialInv'
<1> SUFFICES ASSUME ~stale' PROVE SerialInv'
  BY DEF SerialInv
<1>1. CASE UNCHANGED <<stale, rule, privacyTask, migration>>
  BY <1>1 DEF SerialInv
<1>2. ASSUME NEW u \in Users,
             JoinChannel(u) \/ LeaveChannel(u) \/ JoinChat(u) \/ LeaveChat(u) \/ MuteForSubscriber(u)
      PROVE  SerialInv'
  BY <1>1, <1>2 DEF JoinChannel, LeaveChannel, Move, JoinChat, LeaveChat, MuteForSubscriber,
                    channel, tasks, history
<1>3. ASSUME NEW r \in Rules, ToggleJoinRule(r) PROVE SerialInv'
  <2>1. /\ UNCHANGED migration /\ migration.pc = "done" /\ \A n \in Toggles : ~Running(privacyTask[n])
        /\ rule' = r
    BY <1>3 DEF ToggleJoinRule
  <2>2. PICK n \in Toggles : /\ privacyTask'[n] = [rule |-> r, pc |-> "link"]
                             /\ \A k \in Toggles : k # n => privacyTask'[k] = privacyTask[k]
    BY <1>3, ToggleFacts
  <2> QED BY <2>1, <2>2 DEF SerialInv, Running
<1>4. CASE SwitchComments
  BY <1>4 DEF SwitchComments
<1>5. ASSUME NEW t \in Users \X Moves, MemberDoes(t) PROVE SerialInv'
  BY <1>1, <1>5 DEF MemberDoes, channel
<1>6. ASSUME NEW n \in Toggles, PrivacyDoes(n) PROVE SerialInv'
  <2>1. UNCHANGED <<stale, rule, migration>> /\ Running(privacyTask[n])
    BY <1>6 DEF PrivacyDoes, channel, history, Running
  <2>2. /\ \A k \in Toggles : Running(privacyTask'[k]) => Running(privacyTask[k])
        /\ \A k \in Toggles : privacyTask'[k].rule = privacyTask[k].rule
    BY <1>6, <2>1 DEF PrivacyDoes
  <2> QED BY <2>1, <2>2 DEF SerialInv
<1>7. CASE MigrateDoes
  <2>1. UNCHANGED <<stale, rule, privacyTask>> /\ migration.pc # "done"
    BY <1>7 DEF MigrateDoes, Reads, MigrationOnly, others, channel, history
  <2> QED BY <2>1 DEF SerialInv
<1>8. CASE Crash
  BY <1>8, CrashFacts DEF SerialInv
<1>9. CASE UNCHANGED vars
  BY <1>1, <1>9 DEF vars, channel, tasks, history
<1> QED BY <1>2, <1>3, <1>4, <1>5, <1>6, <1>7, <1>8, <1>9 DEF StepDoes

-----------------------------------------------------------------------------
(* The chat is as open as the channel *)

(* Since the start the join rule changed serially, comments stayed on and  *)
(* nothing failed.                                                         *)
InForce == ~stale /\ faults = 0 /\ link = "on"

PassAt(pcs)  == migration.pc \in pcs
RuleRight    == chat.rule = JoinRuleFor(rule)
HistoryRight == chat.history = HistoryFor(rule)

(* What the pass has read still holds until it has written it, and what it *)
(* has written stays written; after the pass, the join rule process does   *)
(* the same for the rule of its event.                                     *)
ChatInv ==
  InForce =>
    /\ PassAt({"chatRule", "chatHistory", "chatHidden", "rule", "history", "hidden", "invite"}) =>
         migration.rule = rule
    /\ PassAt({"chatHistory", "chatHidden", "rule"}) => migration.chat.rule = chat.rule
    /\ PassAt({"chatHidden", "rule", "history"}) => migration.chat.history = chat.history
    /\ PassAt({"rule", "history", "hidden"}) => migration.chat.hidden = chat.hidden
    /\ PassAt({"history", "hidden", "invite"}) => RuleRight
    /\ PassAt({"hidden", "invite"}) => HistoryRight
    /\ PassAt({"invite", "done"}) => chat.hidden = "yes"
    /\ PassAt({"done"}) /\ (\A n \in Toggles : privacyTask[n].pc \notin {"link", "rule"}) => RuleRight
    /\ PassAt({"done"}) /\ (\A n \in Toggles : ~Running(privacyTask[n])) => HistoryRight

LEMMA MigrateFrame ==
  ASSUME TypeOK, MigrateDoes
  PROVE  /\ UNCHANGED <<stale, settled, everPublic, link, rule, subs, privacyTask, memberTask, moves>>
         /\ faults' \in {faults, faults + 1} /\ migration.pc # "done"
         /\ InForce' => InForce /\ UNCHANGED faults
<1>1. /\ UNCHANGED <<stale, settled, everPublic, link, rule, subs, privacyTask, memberTask, moves>>
      /\ migration.pc # "done"
  BY DEF MigrateDoes, Reads, MigrationOnly, others, channel, counters, history
<1>2. faults' \in {faults, faults + 1}
  BY DEF MigrateDoes, Reads, MigrationOnly, counters, Writes
<1>3. faults \in Nat
  BY DEF TypeOK
<1> QED BY <1>1, <1>2, <1>3 DEF InForce

LEMMA WrittenFields ==
  ASSUME TypeOK, NEW r, UNCHANGED faults
  PROVE  /\ \A p \in BOOLEAN : Writes(p, WithRule(chat, r)) =>
              /\ chat'.rule = (IF p THEN r ELSE chat.rule)
              /\ chat'.history = chat.history /\ chat'.hidden = chat.hidden
         /\ \A p \in BOOLEAN : Writes(p, WithHistory(chat, r)) =>
              /\ chat'.history = (IF p THEN r ELSE chat.history)
              /\ chat'.rule = chat.rule /\ chat'.hidden = chat.hidden
         /\ \A p \in BOOLEAN : Writes(p, WithHidden(chat)) =>
              /\ chat'.hidden = (IF p THEN "yes" ELSE chat.hidden)
              /\ chat'.rule = chat.rule /\ chat'.history = chat.history
<1>1. faults \in Nat /\ faults' # faults + 1
  BY DEF TypeOK
<1> QED BY <1>1 DEF Writes, WithRule, WithHistory, WithHidden

LEMMA MigrateChat ==
  ASSUME TypeOK, SerialInv, ChatInv, MigrateDoes PROVE ChatInv'
<1> SUFFICES ASSUME InForce' PROVE ChatInv'
  BY DEF ChatInv
<1>1. /\ UNCHANGED <<stale, link, rule, privacyTask, faults>> /\ InForce
      /\ link = "on" /\ faults \in Nat
  BY MigrateFrame DEF InForce, TypeOK
<1> DEFINE m == migration
<1>2. CASE MigrationOnly /\ m.pc \notin {"openFeed", "rule", "history", "hidden"}
  <2>1. UNCHANGED chat
    BY <1>2 DEF MigrationOnly, chatroom
  <2>2. CASE migration'.pc \in {"link", "openFeed", "subs", "joined", "invited", "settings"}
    BY <2>2 DEF ChatInv, PassAt
  <2>3. CASE m.pc = "settings" /\ Becomes("chatRule", rule, m.chat, m.subs, m.members)
    BY <1>1, <2>3 DEF ChatInv, PassAt, Becomes
  <2>4. CASE m.pc = "chatRule" /\ Becomes("chatHistory", m.rule, WithRule(m.chat, chat.rule), m.subs, m.members)
    BY <1>1, <2>1, <2>4 DEF ChatInv, PassAt, Becomes, WithRule
  <2>5. CASE m.pc = "chatHistory" /\ Becomes("chatHidden", m.rule, WithHistory(m.chat, chat.history), m.subs, m.members)
    BY <1>1, <2>1, <2>5 DEF ChatInv, PassAt, Becomes, WithHistory
  <2>6. CASE /\ m.pc = "chatHidden"
             /\ Becomes("rule", m.rule, [rule |-> m.chat.rule, history |-> m.chat.history, hidden |-> chat.hidden],
                        m.subs, m.members)
    BY <1>1, <2>1, <2>6 DEF ChatInv, PassAt, Becomes
  <2>7. CASE /\ m.pc = "chatHidden" /\ Becomes("done", "invite", NoChat, {}, {})
             /\ m.chat.rule = JoinRuleFor(m.rule) /\ m.chat.history = HistoryFor(m.rule) /\ chat.hidden = "yes"
    <3>1. RuleRight /\ HistoryRight
      BY <1>1, <2>7 DEF ChatInv, PassAt, RuleRight, HistoryRight
    <3> QED BY <1>1, <2>1, <2>7, <3>1 DEF ChatInv, PassAt, Becomes, RuleRight, HistoryRight
  <2>8. CASE m.pc = "invite" /\ Becomes("done", "invite", NoChat, {}, {})
    BY <1>1, <2>1, <2>8 DEF ChatInv, PassAt, Becomes, RuleRight, HistoryRight
  <2>9. CASE m.pc = "invite" /\ \E u \in Users : Becomes("invite", m.rule, m.chat, m.subs, m.members \union {u})
    BY <1>1, <2>1, <2>9 DEF ChatInv, PassAt, Becomes, RuleRight, HistoryRight
  <2> QED BY <1>1, <1>2, <2>2, <2>3, <2>4, <2>5, <2>6, <2>7, <2>8, <2>9 DEF MigrateDoes, Reads, Becomes
<1>3. CASE m.pc = "openFeed" /\ Becomes("link", m.rule, m.chat, m.subs, m.members)
  BY <1>3 DEF ChatInv, PassAt, Becomes
<1>4. CASE /\ m.pc = "rule" /\ Becomes("history", m.rule, m.chat, m.subs, m.members)
           /\ Writes(PlansRule(m), WithRule(chat, JoinRuleFor(m.rule)))
  <2>1. /\ chat'.rule = JoinRuleFor(m.rule)
        /\ chat'.history = chat.history /\ chat'.hidden = chat.hidden
    BY <1>1, <1>4, WrittenFields DEF PlansRule, ChatInv, PassAt
  <2> QED BY <1>1, <1>4, <2>1 DEF ChatInv, PassAt, Becomes, RuleRight
<1>5. CASE /\ m.pc = "history" /\ Becomes("hidden", m.rule, m.chat, m.subs, m.members)
           /\ Writes(PlansHistory(m), WithHistory(chat, HistoryFor(m.rule)))
  <2>1. /\ chat'.history = HistoryFor(m.rule)
        /\ chat'.rule = chat.rule /\ chat'.hidden = chat.hidden
    BY <1>1, <1>5, WrittenFields DEF PlansHistory, ChatInv, PassAt
  <2> QED BY <1>1, <1>5, <2>1 DEF ChatInv, PassAt, Becomes, RuleRight, HistoryRight
<1>6. CASE /\ m.pc = "hidden" /\ Becomes("invite", m.rule, m.chat, m.subs, m.members)
           /\ Writes(PlansHidden(m), WithHidden(chat))
  <2>1. /\ chat'.hidden = "yes"
        /\ chat'.rule = chat.rule /\ chat'.history = chat.history
    BY <1>1, <1>6, WrittenFields DEF PlansHidden, ChatInv, PassAt
  <2> QED BY <1>1, <1>6, <2>1 DEF ChatInv, PassAt, Becomes, RuleRight, HistoryRight
<1>7. CASE /\ m.pc = "invite" /\ UNCHANGED chat
           /\ \E u \in Users : Becomes("invite", m.rule, m.chat, m.subs, m.members \union {u})
  BY <1>1, <1>7 DEF ChatInv, PassAt, Becomes, RuleRight, HistoryRight
<1>8. CASE m.pc = "subs" /\ migration'.pc = "joined"
  BY <1>8 DEF ChatInv, PassAt
<1>9. faults' # faults + 1
  BY <1>1
<1> QED BY <1>2, <1>3, <1>4, <1>5, <1>6, <1>7, <1>8, <1>9 DEF MigrateDoes, Reads, Becomes

LEMMA NextChat ==
  ASSUME TypeOK, SerialInv, ChatInv, StepDoes PROVE ChatInv'
<1> SUFFICES ASSUME InForce' PROVE ChatInv'
  BY DEF ChatInv
<1>0. faults \in Nat
  BY DEF TypeOK
<1>1. CASE UNCHANGED <<stale, link, rule, chat, privacyTask, migration>> /\ faults' \in {faults, faults + 1}
  BY <1>0, <1>1 DEF ChatInv, InForce, PassAt, RuleRight, HistoryRight
<1>2. ASSUME NEW u \in Users,
             JoinChannel(u) \/ LeaveChannel(u) \/ JoinChat(u) \/ LeaveChat(u) \/ MuteForSubscriber(u)
      PROVE  ChatInv'
  <2>1. UNCHANGED <<stale, link, rule, chat, privacyTask, migration>>
    BY <1>2 DEF JoinChannel, LeaveChannel, Move, JoinChat, LeaveChat, MuteForSubscriber,
                chatroom, channel, tasks, history
  <2>2. faults' \in {faults, faults + 1}
    BY <1>2 DEF JoinChannel, LeaveChannel, Move, JoinChat, LeaveChat, MuteForSubscriber, counters, Fault
  <2> QED BY <1>1, <2>1, <2>2
<1>3. ASSUME NEW r \in Rules, ToggleJoinRule(r) PROVE ChatInv'
  <2>1. /\ UNCHANGED <<chat, faults, link, migration>> /\ migration.pc = "done" /\ InForce
    BY <1>3 DEF ToggleJoinRule, chatroom, InForce
  <2>2. PICK n \in Toggles : privacyTask'[n] = [rule |-> r, pc |-> "link"]
    BY <1>3, ToggleFacts
  <2>3. privacyTask'[n].pc = "link" /\ Running(privacyTask'[n])
    BY <2>2 DEF Running
  <2> QED BY <2>1, <2>3 DEF ChatInv, PassAt
<1>4. CASE SwitchComments
  BY <1>4 DEF SwitchComments, InForce
<1>5. ASSUME NEW t \in Users \X Moves, MemberDoes(t) PROVE ChatInv'
  <2>1. UNCHANGED <<stale, link, rule, chat, privacyTask, migration>> /\ faults' \in {faults, faults + 1}
    BY <1>5 DEF MemberDoes, channel
  <2> QED BY <1>1, <2>1
<1>6. ASSUME NEW n \in Toggles, PrivacyDoes(n) PROVE ChatInv'
  <2>1. UNCHANGED <<stale, link, rule, migration>> /\ Running(privacyTask[n])
    BY <1>6 DEF PrivacyDoes, channel, history, Running
  <2>2. UNCHANGED faults /\ InForce
    BY <1>0, <1>6, <2>1 DEF PrivacyDoes, Writes, InForce
  <2>3. /\ migration.pc = "done" /\ privacyTask[n].rule = rule
        /\ \A k \in Toggles : k # n => ~Running(privacyTask[k])
    BY <2>1, <2>2 DEF SerialInv, InForce
  <2>4. chat.hidden = "yes"
    BY <2>2, <2>3 DEF ChatInv, PassAt
  <2>5. CASE privacyTask[n].pc = "link"
    <3>1. privacyTask'[n].pc = "rule" /\ UNCHANGED chat
      BY <1>0, <1>6, <2>2, <2>5 DEF PrivacyDoes, InForce
    <3> QED BY <2>1, <2>3, <2>4, <3>1 DEF ChatInv, PassAt, Running
  <2>6. CASE privacyTask[n].pc = "rule"
    <3>1. privacyTask'[n].pc = "history" /\ Writes(TRUE, WithRule(chat, JoinRuleFor(rule)))
      BY <1>6, <2>3, <2>6 DEF PrivacyDoes
    <3>2. chat'.rule = JoinRuleFor(rule) /\ chat'.hidden = "yes"
      BY <2>2, <2>4, <3>1, WrittenFields
    <3> QED BY <2>1, <2>3, <3>1, <3>2 DEF ChatInv, PassAt, Running, RuleRight
  <2>7. CASE privacyTask[n].pc = "history"
    <3>1. Writes(TRUE, WithHistory(chat, HistoryFor(rule)))
      BY <1>6, <2>3, <2>7 DEF PrivacyDoes
    <3>2. chat'.history = HistoryFor(rule) /\ chat'.rule = chat.rule /\ chat'.hidden = "yes"
      BY <2>2, <2>4, <3>1, WrittenFields
    <3>3. RuleRight
      BY <2>2, <2>3, <2>7 DEF ChatInv, PassAt, Running
    <3> QED BY <2>1, <2>3, <3>2, <3>3 DEF ChatInv, PassAt, RuleRight, HistoryRight
  <2> QED BY <1>6, <2>5, <2>6, <2>7 DEF PrivacyDoes
<1>7. CASE MigrateDoes
  BY <1>7, MigrateChat
<1>8. CASE Crash
  BY <1>8, CrashFacts DEF ChatInv, PassAt, Becomes
<1>9. CASE UNCHANGED vars
  BY <1>1, <1>9 DEF vars, chatroom, channel, tasks, counters, history
<1> QED BY <1>2, <1>3, <1>4, <1>5, <1>6, <1>7, <1>8, <1>9 DEF StepDoes

-----------------------------------------------------------------------------
(* The startup pass, undisturbed *)

Joined  == {u \in Users : disc[u] = "join"}
Present == {u \in Users : disc[u] # "out"}

(* The pass has read who is subscribed and who is in the chat. *)
Informed == {"settings", "chatRule", "chatHistory", "chatHidden", "rule", "history", "hidden", "invite"}

(* While nothing else runs, the lists the pass has read are the lists in   *)
(* force; the pass adds whom it invites.                                   *)
SettledInv ==
  settled =>
    /\ ~stale
    /\ \A t \in Users \X Moves : ~Running(memberTask[t])
    /\ \A n \in Toggles : ~Running(privacyTask[n])
    /\ faults = 0 /\ PassAt(Informed \union {"joined", "invited"}) => migration.subs = subs \ Ai
    /\ PassAt({"invited"}) => Joined \subseteq migration.members
    /\ PassAt(Informed) => Present \subseteq migration.members
    /\ faults = 0 /\ PassAt({"invited"}) => migration.members \subseteq Joined
    /\ faults = 0 /\ PassAt(Informed) => migration.members \subseteq Present
    /\ faults = 0 /\ link = "on" /\ PassAt({"done"}) => IsPublicChannel(rule) \/ subs \ Ai \subseteq Present

LEMMA MigrateSettled ==
  ASSUME TypeOK, ChatInv, SettledInv, settled, MigrateDoes PROVE SettledInv'
<1>0. faults \in Nat
  BY DEF TypeOK
<1>1. /\ UNCHANGED <<stale, settled, link, rule, subs, privacyTask, memberTask>>
      /\ (faults' = 0 => faults = 0 /\ faults' # faults + 1)
  BY <1>0, MigrateFrame
<1>2. /\ ~stale /\ \A t \in Users \X Moves : ~Running(memberTask[t])
      /\ \A n \in Toggles : ~Running(privacyTask[n])
  BY DEF SettledInv
<1> DEFINE m == migration
           Lists(wanted, members) == migration'.subs = wanted /\ migration'.members = members
<1>3. CASE migration'.pc \in {"feed", "openFeed", "link", "subs"}
  BY <1>1, <1>2, <1>3 DEF SettledInv, PassAt, Informed
<1>4. CASE m.pc = "subs" /\ migration'.pc = "joined" /\ (faults' = 0 => Lists(subs \ Ai, {}))
  BY <1>1, <1>2, <1>4 DEF SettledInv, PassAt, Informed
<1>5. CASE m.pc = "joined" /\ migration'.pc = "invited" /\ Lists(m.subs, Joined) /\ UNCHANGED disc
  <2>1. (faults' = 0 => m.subs = subs \ Ai) /\ Joined' = Joined
    BY <1>1, <1>5 DEF SettledInv, PassAt, Joined
  <2> QED BY <1>1, <1>2, <1>5, <2>1 DEF SettledInv, PassAt, Informed
<1>6. CASE /\ m.pc = "invited" /\ migration'.pc = "settings" /\ UNCHANGED disc
           /\ Lists(m.subs, m.members \union {u \in Users : disc[u] = "invite"})
  <2>1. (faults' = 0 => m.subs = subs \ Ai) /\ Present' = Present /\ Joined \subseteq m.members
    BY <1>1, <1>6 DEF SettledInv, PassAt, Present
  <2>2. Present = Joined \union {u \in Users : disc[u] = "invite"}
    BY DEF TypeOK, Present, Joined
  <2>3. faults' = 0 => m.members \subseteq Joined
    BY <1>1, <1>6 DEF SettledInv, PassAt
  <2> QED BY <1>1, <1>2, <1>6, <2>1, <2>2, <2>3 DEF SettledInv, PassAt, Informed
<1>7. CASE m.pc \in Informed /\ migration'.pc \in Informed /\ Lists(m.subs, m.members) /\ UNCHANGED disc
  <2>1. (faults' = 0 => m.subs = subs \ Ai) /\ Present' = Present /\ Present \subseteq m.members
    BY <1>1, <1>7 DEF SettledInv, PassAt, Present
  <2>2. faults' = 0 => m.members \subseteq Present
    BY <1>1, <1>7 DEF SettledInv, PassAt
  <2> QED BY <1>1, <1>2, <1>7, <2>1, <2>2 DEF SettledInv, PassAt, Informed
<1>8. ASSUME NEW u \in Users, m.pc = "invite", migration'.pc = "invite", Lists(m.subs, m.members \union {u}),
             disc' = Invited(u) \/ (faults' = faults + 1 /\ UNCHANGED disc)
      PROVE  SettledInv'
  <2>1. (faults' = 0 => m.subs = subs \ Ai) /\ Present \subseteq m.members
    BY <1>1, <1>8 DEF SettledInv, PassAt, Informed
  <2>2. faults' = 0 => m.members \subseteq Present
    BY <1>1, <1>8 DEF SettledInv, PassAt, Informed
  <2>3. CASE disc' = Invited(u)
    <3>1. Present' = Present \union {u}
      BY <2>3, InvitedFacts DEF Present
    <3> QED BY <1>1, <1>2, <1>8, <2>1, <2>2, <3>1 DEF SettledInv, PassAt, Informed
  <2>4. CASE faults' = faults + 1 /\ UNCHANGED disc
    <3>1. Present' = Present /\ faults' # 0
      BY <1>1, <2>4 DEF Present
    <3> QED BY <1>1, <1>2, <1>8, <2>1, <3>1 DEF SettledInv, PassAt, Informed
  <2> QED BY <1>8, <2>3, <2>4
<1>9. CASE m.pc = "link" /\ link = "off" /\ migration'.pc = "done"
  BY <1>1, <1>2, <1>9 DEF SettledInv, PassAt, Informed
<1>10. CASE /\ m.pc \in {"chatHidden", "invite"} /\ migration'.pc = "done" /\ UNCHANGED disc
            /\ IsPublicChannel(m.rule) \/ m.subs \subseteq m.members
  <2>1. (faults' = 0 => m.subs = subs \ Ai) /\ Present' = Present
    BY <1>1, <1>10 DEF SettledInv, PassAt, Present, Informed
  <2>2. faults' = 0 => m.members \subseteq Present
    BY <1>1, <1>10 DEF SettledInv, PassAt, Informed
  <2>3. faults' = 0 /\ link = "on" => m.rule = rule
    BY <1>1, <1>2, <1>10 DEF ChatInv, InForce, PassAt
  <2> QED BY <1>1, <1>2, <1>10, <2>1, <2>2, <2>3 DEF SettledInv, PassAt, Informed
<1>11. MigrationOnly \/ UNCHANGED others => UNCHANGED disc
  BY DEF MigrationOnly, chatroom, others
<1>12. CASE migration'.pc = "done" /\ faults' = faults + 1
  BY <1>1, <1>2, <1>12 DEF SettledInv, PassAt, Informed
<1>13. \A missed : missed = {} => subs \ (Ai \ missed) = subs \ Ai
  OBVIOUS
<1> QED BY <1>1, <1>3, <1>4, <1>5, <1>6, <1>7, <1>8, <1>9, <1>10, <1>11, <1>12, <1>13
        DEF MigrateDoes, Reads, Becomes, Informed, Joined

LEMMA NextSettled ==
  ASSUME TypeOK, ChatInv, SettledInv, StepDoes PROVE SettledInv'
<1> SUFFICES ASSUME settled' PROVE SettledInv'
  BY DEF SettledInv
<1>0. faults \in Nat
  BY DEF TypeOK
<1>1. CASE /\ UNCHANGED <<settled, stale, link, rule, subs, disc, memberTask, privacyTask, migration>>
           /\ faults' \in {faults, faults + 1}
  BY <1>0, <1>1 DEF SettledInv, PassAt, Joined, Present
<1>2. ASSUME NEW u \in Users, JoinChannel(u) \/ LeaveChannel(u) \/ JoinChat(u) \/ LeaveChat(u) PROVE FALSE
  BY <1>2 DEF JoinChannel, LeaveChannel, Move, JoinChat, LeaveChat
<1>3. ASSUME NEW u \in Users, MuteForSubscriber(u) PROVE SettledInv'
  <2>1. UNCHANGED <<settled, stale, link, rule, subs, disc, memberTask, privacyTask, migration>>
    BY <1>3 DEF MuteForSubscriber, channel, history
  <2>2. faults' \in {faults, faults + 1}
    BY <1>3 DEF MuteForSubscriber, Fault
  <2> QED BY <1>1, <2>1, <2>2
<1>4. ASSUME NEW r \in Rules, ToggleJoinRule(r) PROVE FALSE
  BY <1>4 DEF ToggleJoinRule
<1>5. CASE SwitchComments
  BY <1>5 DEF SwitchComments
<1>6. ASSUME NEW t \in Users \X Moves, MemberDoes(t) PROVE FALSE
  <2>1. settled /\ Running(memberTask[t])
    BY <1>6 DEF MemberDoes, Running
  <2> QED BY <2>1 DEF SettledInv
<1>7. ASSUME NEW n \in Toggles, PrivacyDoes(n) PROVE FALSE
  <2>1. settled /\ Running(privacyTask[n])
    BY <1>7 DEF PrivacyDoes, Running, history
  <2> QED BY <2>1 DEF SettledInv
<1>8. CASE MigrateDoes
  BY <1>8, MigrateFrame, MigrateSettled
<1>9. CASE Crash
  <2>1. stale' = FALSE
    BY <1>9 DEF Crash
  <2> QED BY <1>9, <2>1, CrashFacts DEF SettledInv, PassAt, Becomes, Informed
<1>10. CASE UNCHANGED vars
  BY <1>1, <1>10 DEF vars, chatroom, channel, tasks, counters, history
<1> QED BY <1>2, <1>3, <1>4, <1>5, <1>6, <1>7, <1>8, <1>9, <1>10 DEF StepDoes

-----------------------------------------------------------------------------
(* Access to the chat of a closed channel *)

Idle(u) == \A n \in Moves : ~Running(memberTask[<<u, n>>])

(* The one process at work for the user is about the user's last move, and *)
(* without one the chat follows the subscription; the pass invites only    *)
(* subscribers.                                                            *)
AccessAt(u) ==
  /\ \A n \in Moves : Running(memberTask[<<u, n>>]) =>
       (memberTask[<<u, n>>].kind = "join" <=> u \in subs) /\ link = "on"
  /\ \A n, k \in Moves : Running(memberTask[<<u, n>>]) /\ Running(memberTask[<<u, k>>]) => n = k
  /\ Idle(u) /\ moves[u] > 0 => (u \in subs <=> disc[u] # "out")
  /\ migration.pc # "done" /\ u \in migration.subs => u \in subs

AccessInv == everPublic \/ \A u \in Humans \ exempt : AccessAt(u)

LEMMA AccessKept ==
  ASSUME NEW u \in Users, AccessAt(u), \A n \in Moves : memberTask'[<<u, n>>] = memberTask[<<u, n>>],
         u \in subs' <=> u \in subs, UNCHANGED link, moves'[u] = moves[u],
         disc'[u] # "out" <=> disc[u] # "out",
         migration'.pc # "done" /\ u \in migration'.subs => u \in subs'
  PROVE  AccessAt(u)'
BY DEF AccessAt, Idle

LEMMA EventAccess ==
  ASSUME TypeOK, ClosedInv, AccessInv, ~everPublic, NEW u \in Users,
         JoinChannel(u) \/ LeaveChannel(u) \/ JoinChat(u) \/ LeaveChat(u) \/ MuteForSubscriber(u),
         NEW v \in Humans, v \notin exempt'
  PROVE  AccessAt(v)'
<1>0. v \in Users
  BY DEF Humans
<1>1. CASE JoinChannel(u) \/ LeaveChannel(u)
  <2>1. PICK kind \in {"join", "leave"} :
          /\ Move(u, kind) /\ (kind = "join" <=> u \in subs')
          /\ \A w \in Users : w # u => (w \in subs' <=> w \in subs)
    BY <1>1 DEF JoinChannel, LeaveChannel
  <2>2. /\ UNCHANGED <<link, disc, migration>>
        /\ exempt' = IF Busy(u) \/ link = "off" THEN exempt \union {u} ELSE exempt \ {u}
    BY <2>1 DEF Move, chatroom
  <2>3. moves'[u] > 0 /\ \A w \in Users : w # u => moves'[w] = moves[w]
    BY <2>1, MoveFacts
  <2>4. PICK n \in Moves : /\ memberTask'[<<u, n>>] = [kind |-> kind, pc |-> "link"]
                           /\ \A t \in Users \X Moves : t # <<u, n>> => memberTask'[t] = memberTask[t]
    BY <2>1, MoveFacts
  <2>5. CASE v = u
    <3>1. ~Busy(u) /\ link = "on"
      BY <2>2, <2>5 DEF TypeOK
    <3>2. /\ \A k \in Moves : k # n => ~Running(memberTask'[<<u, k>>])
          /\ Running(memberTask'[<<u, n>>]) /\ memberTask'[<<u, n>>].kind = kind
      BY <2>4, <3>1 DEF Busy, Running
    <3> QED BY <2>1, <2>2, <2>5, <3>1, <3>2 DEF AccessAt, Idle, Busy
  <2>6. CASE v # u
    <3>1. AccessAt(v)
      BY <2>2, <2>6 DEF AccessInv
    <3>2. \A k \in Moves : memberTask'[<<v, k>>] = memberTask[<<v, k>>]
      BY <1>0, <2>4, <2>6
    <3>3. migration'.pc # "done" /\ v \in migration'.subs => v \in subs'
      BY <1>0, <2>1, <2>2, <2>6, <3>1 DEF AccessAt
    <3> QED BY <1>0, <2>1, <2>2, <2>3, <2>6, <3>1, <3>2, <3>3, AccessKept
  <2> QED BY <2>5, <2>6
<1>2. CASE JoinChat(u)
  <2>1. /\ UNCHANGED <<exempt, memberTask, subs, link, moves, migration>>
        /\ disc[u] # "out" /\ disc' = [disc EXCEPT ![u] = "join"]
    BY <1>2 DEF JoinChat, channel, counters, ClosedInv
  <2>2. disc'[v] # "out" <=> disc[v] # "out"
    BY <1>0, <2>1 DEF TypeOK
  <2>3. AccessAt(v)
    BY <2>1 DEF AccessInv
  <2> QED BY <1>0, <2>1, <2>2, <2>3, AccessKept DEF AccessAt
<1>3. CASE LeaveChat(u)
  <2>1. /\ UNCHANGED <<memberTask, subs, link, moves, migration>> /\ exempt' = exempt \union {u}
        /\ disc' = [disc EXCEPT ![u] = "out"]
    BY <1>3 DEF LeaveChat, channel, counters, tasks
  <2>2. disc'[v] = disc[v]
    BY <1>0, <2>1 DEF TypeOK
  <2>3. AccessAt(v)
    BY <2>1 DEF AccessInv
  <2> QED BY <1>0, <2>1, <2>2, <2>3, AccessKept DEF AccessAt
<1>4. CASE MuteForSubscriber(u)
  <2>1. UNCHANGED <<exempt, memberTask, subs, link, moves, disc, migration>>
    BY <1>4 DEF MuteForSubscriber, channel, history
  <2>2. AccessAt(v)
    BY <2>1 DEF AccessInv
  <2> QED BY <1>0, <2>1, <2>2, AccessKept DEF AccessAt
<1> QED BY <1>1, <1>2, <1>3, <1>4

LEMMA MemberAccess ==
  ASSUME TypeOK, ClosedInv, AccessInv, ~everPublic, NEW t \in Users \X Moves, MemberDoes(t),
         NEW v \in Humans, v \notin exempt'
  PROVE  AccessAt(v)'
<1>0. v \in Users \ Ai
  BY DEF Humans
<1>1. PICK u \in Users, k \in Moves : t = <<u, k>>
  OBVIOUS
<1>2. t[1] = u
  BY <1>1
<1>3. UNCHANGED <<subs, link, moves, migration>>
  BY DEF MemberDoes, channel
<1>4. v \notin exempt
  BY DEF MemberDoes
<1>5. AccessAt(v)
  BY <1>4 DEF AccessInv
<1>6. CASE v # u
  <2>1. \A n \in Moves : memberTask'[<<v, n>>] = memberTask[<<v, n>>]
    BY <1>0, <1>1, <1>6 DEF MemberDoes
  <2>2. disc'[v] = disc[v]
    BY <1>0, <1>2, <1>6, InvitedFacts DEF MemberDoes
  <2> QED BY <1>0, <1>3, <1>5, <2>1, <2>2, AccessKept DEF AccessAt
<1>7. CASE v = u
  <2>1. Running(memberTask[<<u, k>>]) /\ memberTask'[<<u, k>>].kind = memberTask[<<u, k>>].kind
    BY <1>1 DEF MemberDoes, Running
  <2>2. /\ link = "on" /\ (memberTask[<<u, k>>].kind = "join" <=> u \in subs)
        /\ \A n \in Moves : n # k => ~Running(memberTask[<<u, n>>])
        /\ migration.pc # "done" /\ u \in migration.subs => u \in subs
    BY <1>5, <1>7, <2>1 DEF AccessAt
  <2>3. \A n \in Moves : n # k => memberTask'[<<u, n>>] = memberTask[<<u, n>>]
    BY <1>1 DEF MemberDoes
  <2>4. CASE memberTask[t].pc # "move"
    <3>1. Running(memberTask'[<<u, k>>])
      BY <1>0, <1>1, <1>2, <1>7, <2>2, <2>4 DEF MemberDoes, ClosedInv, IsPublicChannel
    <3> QED BY <1>3, <1>7, <2>1, <2>2, <2>3, <3>1 DEF AccessAt, Idle
  <2>5. CASE memberTask[t].pc = "move"
    <3>1. ~Running(memberTask'[<<u, k>>])
      BY <1>1, <2>5 DEF MemberDoes
    <3>2. disc' = IF memberTask[t].kind = "join" THEN Invited(u) ELSE Kicked(u)
      BY <1>2, <1>7, <2>5 DEF MemberDoes
    <3>3. disc'[u] # "out" <=> u \in subs
      BY <1>1, <2>2, <3>2, InvitedFacts
    <3> QED BY <1>3, <1>7, <2>2, <2>3, <3>1, <3>3 DEF AccessAt, Idle
  <2> QED BY <2>4, <2>5
<1> QED BY <1>6, <1>7

LEMMA MigrateAccess ==
  ASSUME TypeOK, AccessInv, ~everPublic, MigrateDoes, NEW v \in Humans, v \notin exempt'
  PROVE  AccessAt(v)'
<1>0. v \in Users /\ UNCHANGED <<subs, link, memberTask, moves>> /\ migration.pc # "done"
  BY MigrateFrame DEF Humans
<1>1. v \notin exempt
  BY DEF MigrateDoes, Reads, MigrationOnly, history, others
<1>2. AccessAt(v)
  BY <1>1 DEF AccessInv
<1>3. migration'.pc # "done" /\ v \in migration'.subs => v \in subs'
  BY <1>0, <1>2 DEF MigrateDoes, Reads, Becomes, AccessAt
<1>4. CASE UNCHANGED disc
  BY <1>0, <1>2, <1>3, <1>4, AccessKept
<1>5. ASSUME NEW u \in Users, u \in migration.subs, disc' = Invited(u) PROVE AccessAt(v)'
  <2>1. CASE u = v
    <3>1. v \in subs /\ disc'[v] # "out"
      BY <1>0, <1>2, <1>5, <2>1, InvitedFacts DEF AccessAt
    <3> QED BY <1>0, <1>2, <1>3, <3>1 DEF AccessAt, Idle
  <2>2. CASE u # v
    <3>1. disc'[v] = disc[v]
      BY <1>0, <1>5, <2>2, InvitedFacts
    <3> QED BY <1>0, <1>2, <1>3, <3>1, AccessKept
  <2> QED BY <2>1, <2>2
<1> QED BY <1>4, <1>5 DEF MigrateDoes, Reads, MigrationOnly, chatroom, others

LEMMA NextAccess ==
  ASSUME TypeOK, ClosedInv, AccessInv, StepDoes PROVE AccessInv'
<1> SUFFICES ASSUME ~everPublic', NEW v \in Humans, v \notin exempt' PROVE AccessAt(v)'
  BY DEF AccessInv
<1>0. v \in Users
  BY DEF Humans
<1>1. ~everPublic
  <2>1. ASSUME NEW u \in Users,
               JoinChannel(u) \/ LeaveChannel(u) \/ JoinChat(u) \/ LeaveChat(u) \/ MuteForSubscriber(u)
        PROVE  UNCHANGED everPublic
    BY <2>1 DEF JoinChannel, LeaveChannel, Move, JoinChat, LeaveChat, MuteForSubscriber, history
  <2>2. ASSUME NEW r \in Rules, ToggleJoinRule(r) PROVE ~everPublic
    BY <2>2 DEF ToggleJoinRule
  <2>3. ASSUME NEW n \in Toggles, PrivacyDoes(n) PROVE UNCHANGED everPublic
    BY <2>3 DEF PrivacyDoes, history
  <2>4. SwitchComments \/ Crash \/ UNCHANGED vars => UNCHANGED everPublic
    BY DEF SwitchComments, Crash, vars, history
  <2>5. ASSUME NEW t \in Users \X Moves, MemberDoes(t) PROVE UNCHANGED everPublic
    BY <2>5 DEF MemberDoes
  <2> QED BY <2>1, <2>2, <2>3, <2>4, <2>5, MigrateFrame DEF StepDoes
<1>2. CASE UNCHANGED <<exempt, memberTask, subs, link, moves, disc, migration>>
  <2>1. AccessAt(v)
    BY <1>1, <1>2 DEF AccessInv
  <2> QED BY <1>0, <1>2, <2>1, AccessKept DEF AccessAt
<1>3. ASSUME NEW r \in Rules, ToggleJoinRule(r) PROVE AccessAt(v)'
  BY <1>2, <1>3 DEF ToggleJoinRule, chatroom
<1>4. CASE SwitchComments
  <2>1. /\ UNCHANGED <<memberTask, subs, moves, disc, migration>>
        /\ exempt' = exempt \union {u \in Users : Busy(u)}
    BY <1>4 DEF SwitchComments, chatroom, tasks
  <2>2. AccessAt(v) /\ ~Busy(v)
    BY <1>0, <1>1, <2>1 DEF AccessInv
  <2> QED BY <2>1, <2>2 DEF AccessAt, Busy, Idle
<1>5. ASSUME NEW n \in Toggles, PrivacyDoes(n) PROVE AccessAt(v)'
  BY <1>2, <1>5 DEF PrivacyDoes, channel, history
<1>6. CASE Crash
  <2>1. /\ UNCHANGED <<subs, link, moves, disc>>
        /\ exempt' = exempt \union {u \in Users : \E n \in Moves : Running(memberTask[<<u, n>>])}
    BY <1>6 DEF Crash, chatroom, channel
  <2>2. AccessAt(v) /\ Idle(v)
    BY <1>0, <1>1, <2>1 DEF AccessInv, Idle
  <2>3. (\A n \in Moves : ~Running(memberTask'[<<v, n>>])) /\ migration'.subs = {}
    BY <1>0, <1>6, CrashFacts DEF Becomes
  <2> QED BY <2>1, <2>2, <2>3 DEF AccessAt, Idle
<1>7. CASE UNCHANGED vars
  BY <1>2, <1>7 DEF vars, chatroom, channel, tasks, counters, history
<1> QED BY <1>1, <1>3, <1>4, <1>5, <1>6, <1>7, EventAccess, MemberAccess, MigrateAccess DEF StepDoes

-----------------------------------------------------------------------------
(* The inductive invariant *)

Inv == TypeOK /\ ClosedInv /\ SerialInv /\ ChatInv /\ SettledInv /\ AccessInv

LEMMA InitInv == Init => Inv
<1> SUFFICES ASSUME Init PROVE Inv
  OBVIOUS
<1>1. /\ memberTask = [t \in Users \X Moves |-> [kind |-> "join", pc |-> "none"]]
      /\ privacyTask = [t \in Toggles |-> [rule |-> "invite", pc |-> "none"]]
      /\ migration = Blank("feed") /\ bound \in Bounds /\ subs \in SUBSET bound.users
      /\ rule \in Rules /\ feed = "shared" /\ everPublic = IsPublicChannel(rule)
      /\ settled = TRUE /\ stale = FALSE /\ moves = [u \in Users |-> 0]
  BY DEF Init
<1>2. bound.users \subseteq Users /\ Local \subseteq Users
  BY <1>1, ConstantsAssumption
<1>3. NoChat \in Chat /\ [rule |-> JoinRuleFor(rule), history |-> HistoryFor(rule), hidden |-> "yes"] \in Chat
  BY DEF Chat, NoChat, JoinRuleFor, HistoryFor
<1>4. chat \in Chat
  BY <1>3 DEF Init, NoChat
<1>5. /\ migration \in Migration /\ migration.pc = "feed" /\ migration.rule = "invite" /\ migration.subs = {}
  BY <1>1, <1>3 DEF Blank, Pass, Migration, MigrationPc, Rules, NoChat
<1>6. /\ memberTask \in [Users \X Moves -> MemberTask] /\ \A t \in Users \X Moves : ~Running(memberTask[t])
  BY <1>1 DEF MemberTask, Running
<1>7. /\ privacyTask \in [Toggles -> PrivacyTask]
      /\ \A n \in Toggles : ~Running(privacyTask[n]) /\ privacyTask[n].rule = "invite"
  BY <1>1 DEF PrivacyTask, Running, Rules
<1>8. muted \in SUBSET Users /\ subs \in SUBSET Users /\ moves \in [Users -> Nat] /\ \A u \in Users : moves[u] = 0
  BY <1>1, <1>2 DEF Init
<1>9. everPublic \in BOOLEAN
  BY <1>1 DEF IsPublicChannel
<1>10. TypeOK
  <2>1. /\ link = "on" /\ disc \in [Users -> {"out", "invite", "join"}] /\ muteTask = {} /\ exempt = {}
        /\ toggles = 0 /\ links = 0 /\ faults = 0 /\ crashes = 0
    BY DEF Init
  <2> QED BY <1>1, <1>4, <1>5, <1>6, <1>7, <1>8, <1>9, <2>1 DEF TypeOK
<1>11. ClosedInv
  <2>1. ~everPublic => chat.rule = "invite" /\ chat.history = "shared"
    BY <1>1 DEF Init, JoinRuleFor, HistoryFor
  <2> QED BY <1>1, <1>5, <1>7, <2>1 DEF ClosedInv, IsPublicChannel
<1>12. SerialInv
  BY <1>7 DEF SerialInv
<1>13. ChatInv
  BY <1>5 DEF ChatInv, PassAt
<1>14. SettledInv
  BY <1>1, <1>5, <1>6, <1>7 DEF SettledInv, PassAt, Informed
<1>15. AccessInv
  <2>1. ASSUME NEW u \in Users PROVE AccessAt(u)
    <3>1. \A n \in Moves : ~Running(memberTask[<<u, n>>])
      BY <1>6
    <3> QED BY <1>5, <1>8, <3>1 DEF AccessAt
  <2> QED BY <2>1 DEF AccessInv, Humans
<1> QED BY <1>10, <1>11, <1>12, <1>13, <1>14, <1>15 DEF Inv

LEMMA NextInv == Inv /\ [Next]_vars => Inv'
<1> SUFFICES ASSUME Inv, [Next]_vars PROVE Inv'
  OBVIOUS
<1>1. TypeOK /\ ClosedInv /\ SerialInv /\ ChatInv /\ SettledInv /\ AccessInv
  BY DEF Inv
<1>2. TypeOK' /\ StepDoes
  BY <1>1, NextTypes, StepCases
<1>3. ClosedInv' /\ SerialInv' /\ ChatInv'
  BY <1>1, <1>2, NextClosed, NextSerial, NextChat
<1>4. SettledInv' /\ AccessInv'
  BY <1>1, <1>2, NextSettled, NextAccess
<1> QED BY <1>2, <1>3, <1>4 DEF Inv

(* The invariant holds of every behaviour of the processes of channel_sync.*)
THEOREM InvHolds == Spec => []Inv
BY InitInv, NextInv, PTL DEF Spec

-----------------------------------------------------------------------------
(* The results *)

(* The handlers of channel_sync and the startup pass keep every variable   *)
(* in its type, the snapshot and the plan of the pass included.            *)
THEOREM TypeCorrect == Spec => []TypeOK
<1>1. Inv => TypeOK
  BY DEF Inv
<1> QED BY <1>1, InvHolds, PTL

(* Neither _sync_discussion_privacy nor the startup pass opens the chat or *)
(* the feed of a channel that was never public, however they interleave,   *)
(* fail or are cut short by a restart.                                     *)
THEOREM NeverOpened == Spec => []ClosedChannelStaysClosed
<1>1. Inv => ClosedChannelStaysClosed
  BY DEF Inv, ClosedInv, ClosedChannelStaysClosed
<1> QED BY <1>1, InvHolds, PTL

(* When changes of the join rule do not overlap, the chat ends up with the *)
(* join rule and history visibility that discussion_settings_for gives the *)
(* rule in force, also when the process of a change was lost in a restart. *)
THEOREM ChatFollowsChannel == Spec => []SerialChangesConverge
<1>1. Inv => SerialChangesConverge
  <2> SUFFICES ASSUME Inv, migration.pc = "done", \A n \in Toggles : ~Running(privacyTask[n]),
                      ~stale, faults = 0, link = "on"
               PROVE  chat.rule = JoinRuleFor(rule) /\ chat.history = HistoryFor(rule)
    BY DEF SerialChangesConverge
  <2>1. \A n \in Toggles : privacyTask[n].pc \notin {"link", "rule"}
    BY DEF Running
  <2> QED BY <2>1 DEF Inv, ChatInv, InForce, PassAt, RuleRight, HistoryRight
<1> QED BY <1>1, InvHolds, PTL

(* An undisturbed pass of _migrate_channel_discussions ends where          *)
(* plan_discussion_migration has nothing left to plan.                     *)
THEOREM PassIsIdempotent == Spec => []MigrationSettles
<1>1. Inv => MigrationSettles
  <2> SUFFICES ASSUME Inv, migration.pc = "done", settled, faults = 0, link = "on"
               PROVE  PlanIsNoop(Pass("done", rule, chat, subs \ Ai, {u \in Users : disc[u] # "out"}))
    BY DEF MigrationSettles
  <2>1. ~stale /\ \A n \in Toggles : ~Running(privacyTask[n])
    BY DEF Inv, SettledInv
  <2>2. \A n \in Toggles : privacyTask[n].pc \notin {"link", "rule"}
    BY <2>1 DEF Running
  <2>3. chat.rule = JoinRuleFor(rule) /\ chat.history = HistoryFor(rule) /\ chat.hidden = "yes"
    BY <2>1, <2>2 DEF Inv, ChatInv, InForce, PassAt, RuleRight, HistoryRight
  <2>4. IsPublicChannel(rule) \/ subs \ Ai \subseteq Present
    BY DEF Inv, SettledInv, PassAt
  <2>5. PlansInvites(Pass("done", rule, chat, subs \ Ai, Present)) = {}
    BY <2>4 DEF PlansInvites, Pass
  <2> QED BY <2>3, <2>5 DEF PlanIsNoop, PlansRule, PlansHistory, PlansHidden, Pass, Present
<1> QED BY <1>1, InvHolds, PTL

(* In a closed channel, _on_channel_join and _on_channel_leave put a user  *)
(* whose last move did not race with another process into the chat exactly *)
(* when subscribed, whatever mute, write of settings or step for others    *)
(* fails; only a user whose own reads, invite or kick failed is excepted.  *)
THEOREM SubscribersHaveAccess == Spec => []AccessFollowsSubscription
<1>1. Inv => AccessFollowsSubscription
  BY DEF Inv, AccessInv, AccessAt, Idle, AccessFollowsSubscription, Busy
<1> QED BY <1>1, InvHolds, PTL

(* An undisturbed pass never invites a user who is in the chat or already  *)
(* invited.                                                                *)
THEOREM NoSecondInvite == Spec => NobodyInvitedTwice
<1>1. Inv /\ [Next]_vars =>
        [migration.pc = "invite" /\ settled =>
           \A u \in migration'.members \ migration.members : disc[u] = "out"]_vars
  <2> SUFFICES ASSUME Inv, [Next]_vars, migration.pc = "invite", settled,
                      NEW u \in migration'.members \ migration.members
               PROVE  disc[u] = "out"
    OBVIOUS
  <2>1. TypeOK' /\ Present \subseteq migration.members
    BY NextTypes DEF Inv, SettledInv, PassAt, Informed
  <2>2. u \in Users
    BY <2>1 DEF TypeOK, Migration
  <2> QED BY <2>1, <2>2 DEF Present
<1> QED BY <1>1, InvHolds, PTL DEF Spec, NobodyInvitedTwice
=============================================================================
