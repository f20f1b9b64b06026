--------------------------- MODULE ChannelMirror ---------------------------
(***************************************************************************)
(* The mirroring half of the channel_sync Synapse module: every root post  *)
(* of a channel is copied into the linked discussion chat, and the table   *)
(* channel_post_mirror remembers where the copy went, so that edits and    *)
(* redactions of the post can follow it.                                   *)
(*                                                                         *)
(* Each event of the channel starts a background process of its own        *)
(* (run_as_background_process), and two processes interleave at every      *)
(* await.  A process is a program counter together with the values it      *)
(* carries from one await to the next; an action is what it does between   *)
(* two awaits.  A restart of Synapse loses every process that is under     *)
(* way and keeps the rooms and the table.                                  *)
(*                                                                         *)
(* One process copies a post, so a post has at most one copy and the copy  *)
(* is named by its post: a row of the table is the room it was sent to.    *)
(***************************************************************************)
EXTENDS Naturals

CONSTANTS
  Posts,       \* root posts of the channel
  Rooms,       \* discussion chats the channel may be linked to
  NoRoom,      \* no chat: comments are off, or the table has no row
  MaxEdits,    \* bound: edits of one post
  MaxLinks,    \* bound: writes of com.liza.channel.discussion
  MaxFaults,   \* bound: calls that fail for a reason outside the model
  MaxCrashes   \* bound: restarts of Synapse

ASSUME ConstantsAssumption ==
  /\ NoRoom \notin Rooms
  /\ MaxEdits \in Nat /\ MaxLinks \in Nat
  /\ MaxFaults \in Nat /\ MaxCrashes \in Nat

VARIABLES
  link,        \* current content of com.liza.channel.discussion
  post,        \* what the channel itself shows: status and edits so far
  mirror,      \* the copy in a discussion chat: where, which text, redacted
  mapping,     \* channel_post_mirror: post -> room of its copy
  authorIn,    \* discussion chats the author of the posts is joined to
  postTask,    \* _mirror_post process of each post
  editTask,    \* _mirror_edit process of each edit
  redactTask,  \* _mirror_redact process of each post's redaction
  cleanups,    \* _cleanup_unlinked_discussion processes not yet run
  links,       \* number of link writes so far
  faults, crashes,
  orphaned,    \* history: chats the link was moved away from or deleted with
  lost         \* history: posts whose process failed or died in a restart

rooms     == <<post, mirror, link, authorIn>>
tasks     == <<postTask, editTask, redactTask, cleanups>>
counters  == <<links, faults, crashes>>
history   == <<orphaned, lost>>
vars      == <<rooms, mapping, tasks, counters, history>>

MaybeRoom == Rooms \union {NoRoom}
Versions  == 0..MaxEdits
Edits     == 1..MaxEdits

Link      == [room: MaybeRoom, deleted: BOOLEAN]
Post      == [status: {"unsent", "live", "redacted"}, version: Versions]
Mirror    == [room: MaybeRoom, version: Versions, state: {"shown", "redacted"}]
PostTask  == [pc: {"none", "check", "link", "send", "ensure", "resend", "put", "done"},
              room: MaybeRoom]
CarriesRoom == {"send", "ensure", "resend", "put"}
EditTask  == [pc: {"none", "get", "send", "done"}, room: MaybeRoom]
RedactTask == [pc: {"none", "get", "send", "delete", "erased", "done"}, room: MaybeRoom]
Cleanup   == [id: 1..MaxLinks, prev: MaybeRoom, new: MaybeRoom, deleted: BOOLEAN]

TypeOK ==
  /\ link \in Link
  /\ post \in [Posts -> Post]
  /\ mirror \in [Posts -> Mirror]
  /\ mapping \in [Posts -> MaybeRoom]
  /\ authorIn \in SUBSET Rooms
  /\ postTask \in [Posts -> PostTask]
  /\ \A p \in Posts : postTask[p].pc \in CarriesRoom => postTask[p].room \in Rooms
  /\ editTask \in [Posts \X Edits -> EditTask]
  /\ redactTask \in [Posts -> RedactTask]
  /\ cleanups \in SUBSET Cleanup
  /\ links \in 0..MaxLinks /\ faults \in 0..MaxFaults /\ crashes \in 0..MaxCrashes
  /\ orphaned \in SUBSET Rooms /\ lost \in SUBSET Posts

Init ==
  /\ link = [room |-> NoRoom, deleted |-> FALSE]
  /\ post = [p \in Posts |-> [status |-> "unsent", version |-> 0]]
  /\ mirror = [p \in Posts |-> [room |-> NoRoom, version |-> 0, state |-> "shown"]]
  /\ mapping = [p \in Posts |-> NoRoom]
  /\ authorIn = {}
  /\ postTask = [p \in Posts |-> [pc |-> "none", room |-> NoRoom]]
  /\ editTask = [e \in Posts \X Edits |-> [pc |-> "none", room |-> NoRoom]]
  /\ redactTask = [p \in Posts |-> [pc |-> "none", room |-> NoRoom]]
  /\ cleanups = {}
  /\ links = 0 /\ faults = 0 /\ crashes = 0
  /\ orphaned = {} /\ lost = {}

-----------------------------------------------------------------------------
(* Moves of a process: to its next await, or to its end. *)

PostGoes(p, pc, room)   == postTask' = [postTask EXCEPT ![p] = [pc |-> pc, room |-> room]]
EditGoes(e, pc, room)   == editTask' = [editTask EXCEPT ![e] = [pc |-> pc, room |-> room]]
RedactGoes(p, pc, room) == redactTask' = [redactTask EXCEPT ![p] = [pc |-> pc, room |-> room]]

(* A call into Synapse fails although the model sees no reason for it. *)
Fault == /\ faults < MaxFaults
         /\ faults' = faults + 1

(* Synapse refuses an event of a sender who is not joined to the room, and *)
(* may fail for other reasons.                                             *)
Refused(room) ==
  \/ room \notin authorIn /\ UNCHANGED faults
  \/ room \in authorIn /\ Fault

Accepted(room) == room \in authorIn /\ UNCHANGED faults

-----------------------------------------------------------------------------
(* Events of the channel, and the process each one starts. *)

SendPost(p) ==
  /\ post[p].status = "unsent"
  /\ post' = [post EXCEPT ![p] = [status |-> "live", version |-> 0]]
  /\ PostGoes(p, "check", NoRoom)
  /\ UNCHANGED <<mirror, link, authorIn, mapping, editTask, redactTask, cleanups,
                 counters, history>>


EditPost(p) ==
  /\ post[p].status = "live"
  /\ post[p].version < MaxEdits
  /\ post' = [post EXCEPT ![p] = [status |-> "live", version |-> post[p].version + 1]]
  /\ EditGoes(<<p, post[p].version + 1>>, "get", NoRoom)
  /\ UNCHANGED <<mirror, link, authorIn, mapping, postTask, redactTask, cleanups,
                 counters, history>>

RedactPost(p) ==
  /\ post[p].status = "live"
  /\ post' = [post EXCEPT ![p] = [status |-> "redacted", version |-> post[p].version]]
  /\ RedactGoes(p, "get", NoRoom)
  /\ UNCHANGED <<mirror, link, authorIn, mapping, postTask, editTask, cleanups,
                 counters, history>>

(* The owner links a chat, turns comments off, or marks the channel deleted; *)
(* the process gets the new value and reads the replaced one by event id.    *)
SetDiscussion(new, deleted) ==
  /\ links < MaxLinks
  /\ ~link.deleted
  /\ deleted => new = link.room /\ new # NoRoom
  /\ links' = links + 1
  /\ link' = [room |-> new, deleted |-> deleted]
  /\ cleanups' = cleanups \union
       {[id |-> links + 1, prev |-> link.room, new |-> new, deleted |-> deleted]}
  /\ orphaned' = IF link.room # NoRoom /\ (deleted \/ new \notin {NoRoom, link.room})
                 THEN orphaned \union {link.room} ELSE orphaned
  /\ UNCHANGED <<post, mirror, authorIn, mapping, postTask, editTask, redactTask,
                 faults, crashes, lost>>

(* The author joins or leaves a discussion chat on their own. *)
AuthorMoves(r) ==
  /\ authorIn' = IF r \in authorIn THEN authorIn \ {r} ELSE authorIn \union {r}
  /\ UNCHANGED <<post, mirror, link, mapping, tasks, counters, history>>

-----------------------------------------------------------------------------
(* _mirror_post *)

AlreadyMirrored(p) ==
  /\ postTask[p].pc = "check"
  /\ PostGoes(p, IF mapping[p] # NoRoom THEN "done" ELSE "link", NoRoom)
  /\ UNCHANGED <<rooms, mapping, editTask, redactTask, cleanups, counters, history>>


ReadDiscussion(p) ==
  /\ postTask[p].pc = "link"
  /\ PostGoes(p, IF link.room = NoRoom THEN "done" ELSE "send", link.room)
  /\ UNCHANGED <<rooms, mapping, editTask, redactTask, cleanups, counters, history>>

(* The copy carries the text of the post event itself, not of a later edit. *)
CopyInto(p, room) ==
  mirror' = [mirror EXCEPT ![p] = [room |-> room, version |-> 0, state |-> "shown"]]

\* Fault: a refused copy is skipped instead of bringing the author in.
SendMirror_NoRetry(p) ==
  LET room == postTask[p].room IN
  /\ postTask[p].pc = "send"
  /\ \/ /\ Accepted(room)
        /\ CopyInto(p, room)
        /\ PostGoes(p, "put", room)
     \/ /\ Refused(room)
        /\ PostGoes(p, "done", room)
        /\ UNCHANGED mirror
  /\ UNCHANGED <<post, link, authorIn, mapping, editTask, redactTask, cleanups,
                 links, crashes, history>>

SendMirror(p) ==
  LET room == postTask[p].room IN
  /\ postTask[p].pc = "send"
  /\ \/ /\ Accepted(room)
        /\ CopyInto(p, room)
        /\ PostGoes(p, "put", room)
     \/ /\ Refused(room)
        /\ PostGoes(p, "ensure", room)
        /\ UNCHANGED mirror
  /\ UNCHANGED <<post, link, authorIn, mapping, editTask, redactTask, cleanups,
                 links, crashes, history>>

EnsureAuthorInDiscussion(p) ==
  LET room == postTask[p].room IN
  /\ postTask[p].pc = "ensure"
  /\ \/ /\ authorIn' = authorIn \union {room}
        /\ PostGoes(p, "resend", room)
        /\ UNCHANGED <<faults, lost>>
     \/ /\ Fault
        /\ PostGoes(p, "done", room)
        /\ lost' = lost \union {p}
        /\ UNCHANGED authorIn
  /\ UNCHANGED <<post, mirror, link, mapping, editTask, redactTask, cleanups,
                 links, crashes, orphaned>>

ResendMirror(p) ==
  LET room == postTask[p].room IN
  /\ postTask[p].pc = "resend"
  /\ \/ /\ Accepted(room)
        /\ CopyInto(p, room)
        /\ PostGoes(p, "put", room)
        /\ UNCHANGED lost
     \/ /\ Refused(room)
        /\ PostGoes(p, "done", room)
        /\ lost' = lost \union {p}
        /\ UNCHANGED mirror
  /\ UNCHANGED <<post, link, authorIn, mapping, editTask, redactTask, cleanups,
                 links, crashes, orphaned>>

\* Fault: the row gets the chat that is linked now, not the one written to.
PutMirror_CurrentLink(p) ==
  /\ postTask[p].pc = "put"
  /\ mapping' = [mapping EXCEPT ![p] = IF @ = NoRoom THEN link.room ELSE @]
  /\ PostGoes(p, "done", postTask[p].room)
  /\ UNCHANGED <<rooms, editTask, redactTask, cleanups, counters, history>>

(* INSERT ... ON CONFLICT DO NOTHING *)
PutMirror(p) ==
  /\ postTask[p].pc = "put"
  /\ mapping' = [mapping EXCEPT ![p] = IF @ = NoRoom THEN postTask[p].room ELSE @]
  /\ PostGoes(p, "done", postTask[p].room)
  /\ UNCHANGED <<rooms, editTask, redactTask, cleanups, counters, history>>

-----------------------------------------------------------------------------
(* _mirror_edit *)

GetMirrorForEdit(e) ==
  /\ editTask[e].pc = "get"
  /\ EditGoes(e, IF mapping[e[1]] = NoRoom THEN "done" ELSE "send", mapping[e[1]])
  /\ UNCHANGED <<rooms, mapping, postTask, redactTask, cleanups, counters, history>>

(* A chat shows the edit that was sent last; a redacted copy shows none. *)
Showing(m, version) ==
  IF m.state = "redacted" THEN m
  ELSE [room |-> m.room, version |-> version, state |-> m.state]

SendEdit(e) ==
  LET p == e[1] IN
  /\ editTask[e].pc = "send"
  /\ \/ /\ Accepted(editTask[e].room)
        /\ mirror' = [mirror EXCEPT ![p] = Showing(@, e[2])]
     \/ /\ Refused(editTask[e].room)
        /\ UNCHANGED mirror
  /\ EditGoes(e, "done", editTask[e].room)
  /\ UNCHANGED <<post, link, authorIn, mapping, postTask, redactTask, cleanups,
                 links, crashes, history>>

-----------------------------------------------------------------------------
(* _mirror_redact *)

GetMirrorForRedact(p) ==
  /\ redactTask[p].pc = "get"
  /\ RedactGoes(p, IF mapping[p] = NoRoom THEN "done" ELSE "send", mapping[p])
  /\ UNCHANGED <<rooms, mapping, postTask, editTask, cleanups, counters, history>>

Redacted(m) == [room |-> m.room, version |-> m.version, state |-> "redacted"]

\* Fault: the process ends without deleting the row.
SendRedaction_KeepsRow(p) ==
  /\ redactTask[p].pc = "send"
  /\ Accepted(redactTask[p].room)
  /\ mirror' = [mirror EXCEPT ![p] = Redacted(@)]
  /\ RedactGoes(p, "erased", redactTask[p].room)
  /\ UNCHANGED <<post, link, authorIn, mapping, postTask, editTask, cleanups,
                 links, crashes, history>>

SendRedaction(p) ==
  LET room == redactTask[p].room IN
  /\ redactTask[p].pc = "send"
  /\ \/ /\ Accepted(room)
        /\ mirror' = [mirror EXCEPT ![p] = Redacted(@)]
        /\ RedactGoes(p, "delete", room)
     \/ /\ Refused(room)
        /\ RedactGoes(p, "done", room)
        /\ UNCHANGED mirror
  /\ UNCHANGED <<post, link, authorIn, mapping, postTask, editTask, cleanups,
                 links, crashes, history>>

DeleteMirror(p) ==
  /\ redactTask[p].pc = "delete"
  /\ mapping' = [mapping EXCEPT ![p] = NoRoom]
  /\ RedactGoes(p, "erased", redactTask[p].room)
  /\ UNCHANGED <<rooms, postTask, editTask, cleanups, counters, history>>

-----------------------------------------------------------------------------
(* _cleanup_unlinked_discussion *)

\* Fault: turning comments off counts as a move.
ShouldCleanupMappings_OnUnlink(prev, new, deleted) ==
  prev # NoRoom /\ (deleted \/ new # prev)

ShouldCleanupMappings(prev, new, deleted) ==
  prev # NoRoom /\ (deleted \/ (new # NoRoom /\ new # prev))

DeleteByDiscussion(room) ==
  mapping' = [p \in Posts |-> IF mapping[p] = room THEN NoRoom ELSE mapping[p]]

CleanupUnlinkedDiscussion(c) ==
  /\ c \in cleanups
  /\ cleanups' = cleanups \ {c}
  /\ \/ /\ IF ShouldCleanupMappings(c.prev, c.new, c.deleted)
           THEN DeleteByDiscussion(c.prev)
           ELSE UNCHANGED mapping
        /\ UNCHANGED faults
     \/ Fault /\ UNCHANGED mapping           \* get_event or the DELETE failed
  /\ UNCHANGED <<rooms, postTask, editTask, redactTask, links, crashes, history>>

-----------------------------------------------------------------------------
(* Awaits outside a try: the reads and writes of the table and of the link. *)
(* An exception there ends the process; run_as_background_process logs it.  *)

PostRaises(p) ==
  /\ postTask[p].pc \in {"check", "link", "put"}
  /\ Fault
  /\ PostGoes(p, "done", postTask[p].room)
  /\ lost' = lost \union {p}
  /\ UNCHANGED <<rooms, mapping, editTask, redactTask, cleanups, links, crashes, orphaned>>

EditRaises(e) ==
  /\ editTask[e].pc = "get"
  /\ Fault
  /\ EditGoes(e, "done", NoRoom)
  /\ UNCHANGED <<rooms, mapping, postTask, redactTask, cleanups, links, crashes, history>>

RedactRaises(p) ==
  /\ redactTask[p].pc \in {"get", "delete"}
  /\ Fault
  /\ RedactGoes(p, "done", redactTask[p].room)
  /\ UNCHANGED <<rooms, mapping, postTask, editTask, cleanups, links, crashes, history>>

-----------------------------------------------------------------------------
(* A restart ends every process; nothing restarts them. *)

Running(task) == task.pc \notin {"none", "done", "erased"}
Ended(task)   == IF Running(task) THEN [pc |-> "done", room |-> task.room] ELSE task

Crash ==
  /\ crashes < MaxCrashes
  /\ crashes' = crashes + 1
  /\ postTask' = [p \in Posts |-> Ended(postTask[p])]
  /\ editTask' = [e \in Posts \X Edits |-> Ended(editTask[e])]
  /\ redactTask' = [p \in Posts |-> Ended(redactTask[p])]
  /\ cleanups' = {}
  /\ lost' = lost \union {p \in Posts : Running(postTask[p])}
  /\ UNCHANGED <<rooms, mapping, links, faults, orphaned>>

-----------------------------------------------------------------------------
ChannelEvent ==
  \/ \E p \in Posts : SendPost(p) \/ EditPost(p) \/ RedactPost(p)
  \/ \E new \in MaybeRoom, deleted \in BOOLEAN : SetDiscussion(new, deleted)
  \/ \E r \in Rooms : AuthorMoves(r)

MirrorPost(p) ==
  \/ AlreadyMirrored(p) \/ ReadDiscussion(p) \/ SendMirror(p)
  \/ EnsureAuthorInDiscussion(p) \/ ResendMirror(p) \/ PutMirror(p)
  \/ PostRaises(p)

MirrorEdit(e)   == GetMirrorForEdit(e) \/ SendEdit(e) \/ EditRaises(e)
MirrorRedact(p) == GetMirrorForRedact(p) \/ SendRedaction(p) \/ DeleteMirror(p) \/ RedactRaises(p)

Next ==
  \/ ChannelEvent
  \/ \E p \in Posts : MirrorPost(p) \/ MirrorRedact(p)
  \/ \E e \in Posts \X Edits : MirrorEdit(e)
  \/ \E c \in cleanups : CleanupUnlinkedDiscussion(c)
  \/ Crash

(* The reactor runs every process it has started to its end; users, faults *)
(* and restarts owe nothing.                                               *)
Fairness ==
  /\ \A p \in Posts : WF_vars(MirrorPost(p)) /\ WF_vars(MirrorRedact(p))
  /\ \A e \in Posts \X Edits : WF_vars(MirrorEdit(e))
  /\ WF_vars(\E c \in cleanups : CleanupUnlinkedDiscussion(c))

Spec == Init /\ [][Next]_vars /\ Fairness

-----------------------------------------------------------------------------
(* Properties *)

(* A row of channel_post_mirror always names the chat that really holds    *)
(* the copy of its post: an edit or a redaction that follows the row finds *)
(* the copy, whatever happened to the link since the process read it.      *)
MappingPointsAtCopy ==
  \A p \in Posts : mapping[p] # NoRoom => mirror[p].room = mapping[p]

(* A copy is redacted only when its post was. *)
OnlyRedactedPostsLoseTheirCopy ==
  \A p \in Posts : mirror[p].state = "redacted" => post[p].status = "redacted"

(* Once _mirror_redact has run to its end, the copy is gone from the chat   *)
(* and no late put_mirror, edit or restart brings the row back.             *)
ErasedPostStaysErased ==
  \A p \in Posts : redactTask[p].pc = "erased" => mirror[p].state = "redacted" /\ mapping[p] = NoRoom

(* A row disappears only because its post was redacted, or because the     *)
(* channel left that chat for another one or was deleted.  Turning         *)
(* comments off keeps every thread, however the processes interleave.      *)
ThreadsOutliveUnlinking ==
  [][\A p \in Posts : mapping[p] # NoRoom /\ mapping'[p] = NoRoom
       => post[p].status = "redacted" \/ mapping[p] \in orphaned]_vars

(* A post made with comments on gets its copy and its row: the only other  *)
(* outcomes are that comments were turned off, or that the process failed  *)
(* although it had tried to bring the author into the chat.                *)
EveryPostIsMirrored ==
  \A p \in Posts :
    (postTask[p].pc = "check") ~>
      (mapping[p] # NoRoom \/ p \in lost \/ postTask[p] = [pc |-> "done", room |-> NoRoom])

(* Nothing is under way. *)
Quiet ==
  /\ \A p \in Posts : ~Running(postTask[p]) /\ ~Running(redactTask[p])
  /\ \A e \in Posts \X Edits : ~Running(editTask[e])
  /\ cleanups = {}

(* Stated by MirrorStore.delete_mirror: it is called when a post is        *)
(* redacted, so that rows of redacted posts do not pile up.                *)
NoRowForRedactedPost ==
  Quiet /\ faults = 0 /\ crashes = 0 =>
    \A p \in Posts : post[p].status = "redacted" => mapping[p] = NoRoom
=============================================================================
