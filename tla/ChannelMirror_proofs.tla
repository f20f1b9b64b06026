----------------------- MODULE ChannelMirror_proofs ------------------------
(***************************************************************************)
(* Safety of the post mirroring, for any posts, chats and bounds.          *)
(***************************************************************************)
EXTENDS ChannelMirror, TLAPS

(* A step of the processes or of their environment, one disjunct an action. *)
LEMMA NextCases ==
  ASSUME Next
  PROVE  \/ \E p \in Posts :
              \/ SendPost(p) \/ EditPost(p) \/ RedactPost(p)
              \/ AlreadyMirrored(p) \/ ReadDiscussion(p) \/ SendMirror(p)
              \/ EnsureAuthorInDiscussion(p) \/ ResendMirror(p) \/ PutMirror(p)
              \/ GetMirrorForRedact(p) \/ SendRedaction(p) \/ DeleteMirror(p)
              \/ PostRaises(p) \/ RedactRaises(p)
         \/ \E new \in MaybeRoom, deleted \in BOOLEAN : SetDiscussion(new, deleted)
         \/ \E r \in Rooms : AuthorMoves(r)
         \/ \E e \in Posts \X Edits : GetMirrorForEdit(e) \/ SendEdit(e) \/ EditRaises(e)
         \/ \E c \in cleanups : CleanupUnlinkedDiscussion(c)
         \/ Crash
  BY Zenon DEF Next, ChannelEvent, MirrorPost, MirrorEdit, MirrorRedact

(* A _mirror_post process that moves on keeps the type of its record, and   *)
(* still carries a chat wherever it has read the link.                      *)
PostTasksTyped ==
  /\ postTask \in [Posts -> PostTask]
  /\ \A p \in Posts : postTask[p].pc \in CarriesRoom => postTask[p].room \in Rooms

LEMMA PostGoesTyped ==
  ASSUME PostTasksTyped, NEW p \in Posts, NEW pc, NEW room,
         [pc |-> pc, room |-> room] \in PostTask, pc \in CarriesRoom => room \in Rooms,
         PostGoes(p, pc, room)
  PROVE  PostTasksTyped'
<1>1. postTask' \in [Posts -> PostTask]
  BY DEF PostTasksTyped, PostGoes
<1>2. \A q \in Posts : postTask'[q] = IF q = p THEN [pc |-> pc, room |-> room] ELSE postTask[q]
  BY DEF PostTasksTyped, PostGoes
<1> QED
  BY <1>1, <1>2 DEF PostTasksTyped

(* Type correctness: every process carries a chat only of the declared kind, *)
(* and no counter leaves its bound.                                          *)
THEOREM TypeCorrect == Spec => []TypeOK
<1>1. Init => TypeOK
  BY ConstantsAssumption
  DEF Init, TypeOK, Link, Post, Mirror, PostTask, EditTask, RedactTask, Cleanup,
      MaybeRoom, Versions, Edits, CarriesRoom
<1>2. TypeOK /\ [Next]_vars => TypeOK'
  <2> SUFFICES ASSUME TypeOK, [Next]_vars PROVE TypeOK'
    OBVIOUS
  <2> USE ConstantsAssumption DEF TypeOK, Post, Mirror, MaybeRoom, CarriesRoom
  <2>1. ASSUME NEW p \in Posts, SendPost(p) PROVE TypeOK'
    BY <2>1 DEF SendPost, PostGoes, PostTask, Versions, counters, history
  <2>2. ASSUME NEW p \in Posts, EditPost(p) PROVE TypeOK'
    BY <2>2 DEF EditPost, EditGoes, EditTask, Versions, Edits, counters, history
  <2>3. ASSUME NEW p \in Posts, RedactPost(p) PROVE TypeOK'
    BY <2>3 DEF RedactPost, RedactGoes, RedactTask, counters, history
  <2>4. ASSUME NEW p \in Posts, AlreadyMirrored(p) PROVE TypeOK'
    BY <2>4 DEF AlreadyMirrored, PostGoes, PostTask, rooms, counters, history
  <2>5. ASSUME NEW p \in Posts, ReadDiscussion(p) PROVE TypeOK'
    BY <2>5 DEF ReadDiscussion, PostGoes, PostTask, Link, rooms, counters, history
  <2>6. ASSUME NEW p \in Posts, SendMirror(p) PROVE TypeOK'
    <3>1. postTask[p].room \in Rooms
      BY <2>6 DEF SendMirror
    <3>2. mirror' \in [Posts -> Mirror]
      BY <2>6, <3>1 DEF SendMirror, CopyInto, Versions
    <3>3. PostTasksTyped'
      <4>1. PostGoes(p, "put", postTask[p].room) \/ PostGoes(p, "ensure", postTask[p].room)
        BY <2>6 DEF SendMirror
      <4>2. PostTasksTyped
        BY DEF PostTasksTyped
      <4> QED
        BY <3>1, <4>1, <4>2, PostGoesTyped DEF PostTask
    <3>4. faults' \in 0..MaxFaults
      BY <2>6 DEF SendMirror, Accepted, Refused, Fault
    <3> QED
      BY <2>6, <3>2, <3>3, <3>4 DEF SendMirror, history, PostTasksTyped
  <2>7. ASSUME NEW p \in Posts, EnsureAuthorInDiscussion(p) PROVE TypeOK'
    <3>1. postTask[p].room \in Rooms
      BY <2>7 DEF EnsureAuthorInDiscussion
    <3>2. PostTasksTyped'
      <4>1. PostGoes(p, "resend", postTask[p].room) \/ PostGoes(p, "done", postTask[p].room)
        BY <2>7 DEF EnsureAuthorInDiscussion
      <4>2. PostTasksTyped
        BY DEF PostTasksTyped
      <4> QED
        BY <3>1, <4>1, <4>2, PostGoesTyped DEF PostTask
    <3>3. faults' \in 0..MaxFaults
      BY <2>7 DEF EnsureAuthorInDiscussion, Fault
    <3>4. authorIn' \in SUBSET Rooms /\ lost' \in SUBSET Posts
      BY <2>7, <3>1 DEF EnsureAuthorInDiscussion
    <3> QED
      BY <2>7, <3>2, <3>3, <3>4 DEF EnsureAuthorInDiscussion, PostTasksTyped
  <2>8. ASSUME NEW p \in Posts, ResendMirror(p) PROVE TypeOK'
    <3>1. postTask[p].room \in Rooms
      BY <2>8 DEF ResendMirror
    <3>2. mirror' \in [Posts -> Mirror]
      BY <2>8, <3>1 DEF ResendMirror, CopyInto, Versions
    <3>3. PostTasksTyped'
      <4>1. PostGoes(p, "put", postTask[p].room) \/ PostGoes(p, "done", postTask[p].room)
        BY <2>8 DEF ResendMirror
      <4>2. PostTasksTyped
        BY DEF PostTasksTyped
      <4> QED
        BY <3>1, <4>1, <4>2, PostGoesTyped DEF PostTask
    <3>4. faults' \in 0..MaxFaults
      BY <2>8 DEF ResendMirror, Accepted, Refused, Fault
    <3>5. lost' \in SUBSET Posts
      BY <2>8 DEF ResendMirror
    <3> QED
      BY <2>8, <3>2, <3>3, <3>4, <3>5 DEF ResendMirror, PostTasksTyped
  <2>9. ASSUME NEW p \in Posts, PutMirror(p) PROVE TypeOK'
    BY <2>9 DEF PutMirror, PostGoes, PostTask, rooms, counters, history
  <2>10. ASSUME NEW p \in Posts, GetMirrorForRedact(p) PROVE TypeOK'
    BY <2>10 DEF GetMirrorForRedact, RedactGoes, RedactTask, rooms, counters, history
  <2>11. ASSUME NEW p \in Posts, SendRedaction(p) PROVE TypeOK'
    <3>1. mirror' \in [Posts -> Mirror]
      BY <2>11 DEF SendRedaction, Redacted
    <3>2. redactTask' \in [Posts -> RedactTask]
      <4>1. \/ RedactGoes(p, "delete", redactTask[p].room)
            \/ RedactGoes(p, "done", redactTask[p].room)
        BY <2>11 DEF SendRedaction
      <4> QED
        BY <4>1 DEF RedactGoes, RedactTask
    <3>3. faults' \in 0..MaxFaults
      BY <2>11 DEF SendRedaction, Accepted, Refused, Fault
    <3> QED
      BY <2>11, <3>1, <3>2, <3>3 DEF SendRedaction, history
  <2>12. ASSUME NEW p \in Posts, DeleteMirror(p) PROVE TypeOK'
    BY <2>12 DEF DeleteMirror, RedactGoes, RedactTask, rooms, counters, history
  <2>13. ASSUME NEW new \in MaybeRoom, NEW deleted \in BOOLEAN, SetDiscussion(new, deleted)
         PROVE  TypeOK'
    BY <2>13 DEF SetDiscussion, Link, Cleanup
  <2>14. ASSUME NEW r \in Rooms, AuthorMoves(r) PROVE TypeOK'
    BY <2>14 DEF AuthorMoves, tasks, counters, history
  <2>15. ASSUME NEW e \in Posts \X Edits, GetMirrorForEdit(e) PROVE TypeOK'
    BY <2>15 DEF GetMirrorForEdit, EditGoes, EditTask, rooms, counters, history
  <2>16. ASSUME NEW e \in Posts \X Edits, SendEdit(e) PROVE TypeOK'
    <3>1. e[1] \in Posts /\ e[2] \in Versions
      BY DEF Edits, Versions
    <3>2. mirror' \in [Posts -> Mirror]
      BY <2>16, <3>1 DEF SendEdit, Showing
    <3>3. editTask' \in [Posts \X Edits -> EditTask]
      BY <2>16 DEF SendEdit, EditGoes, EditTask
    <3>4. faults' \in 0..MaxFaults
      BY <2>16 DEF SendEdit, Accepted, Refused, Fault
    <3> QED
      BY <2>16, <3>2, <3>3, <3>4 DEF SendEdit, history
  <2>17. ASSUME NEW c \in cleanups, CleanupUnlinkedDiscussion(c) PROVE TypeOK'
    BY <2>17 DEF CleanupUnlinkedDiscussion, DeleteByDiscussion, Fault, rooms, history
  <2>18. CASE Crash
    BY <2>18 DEF Crash, Ended, Running, PostTask, EditTask, RedactTask, rooms
  <2>19. CASE UNCHANGED vars
    BY <2>19 DEF vars, rooms, tasks, counters, history
  <2>20. ASSUME NEW p \in Posts, PostRaises(p) PROVE TypeOK'
    BY <2>20 DEF PostRaises, PostGoes, PostTask, Fault, rooms
  <2>21. ASSUME NEW e \in Posts \X Edits, EditRaises(e) PROVE TypeOK'
    BY <2>21 DEF EditRaises, EditGoes, EditTask, Fault, rooms, history
  <2>22. ASSUME NEW p \in Posts, RedactRaises(p) PROVE TypeOK'
    BY <2>22 DEF RedactRaises, RedactGoes, RedactTask, Fault, rooms, history
  <2> QED
    BY <2>1, <2>2, <2>3, <2>4, <2>5, <2>6, <2>7, <2>8, <2>9, <2>10, <2>11, <2>12, <2>13,
       <2>14, <2>15, <2>16, <2>17, <2>18, <2>19, <2>20, <2>21, <2>22, NextCases
<1> QED
  BY <1>1, <1>2, PTL DEF Spec

-----------------------------------------------------------------------------
(***************************************************************************)
(* The inductive invariant.  A row exists only once its _mirror_post has   *)
(* ended, so a redaction that found the row can no longer race with the    *)
(* insertion; a process about to insert holds the chat its copy is in; and *)
(* a cleanup that will delete rows was started by a move away from its     *)
(* chat.                                                                   *)
(***************************************************************************)
RowFollowsCopy(p) ==
  mapping[p] # NoRoom => postTask[p].pc = "done" /\ mirror[p].room = mapping[p]

UnsentIsIdle(p) ==
  post[p].status = "unsent" => postTask[p].pc = "none"

PutFollowsCopy(p) ==
  postTask[p].pc = "put" => mirror[p].room = postTask[p].room

RedactionFollowsPut(p) ==
  /\ redactTask[p].pc # "none" => post[p].status = "redacted"
  /\ redactTask[p].pc \in {"send", "delete", "erased"} => postTask[p].pc = "done"
  /\ redactTask[p].pc \in {"delete", "erased"} => mirror[p].state = "redacted"
  /\ redactTask[p].pc = "erased" => mapping[p] = NoRoom
  /\ mirror[p].state = "redacted" => post[p].status = "redacted"

CleanupsHaveCause ==
  \A c \in cleanups :
    ShouldCleanupMappings(c.prev, c.new, c.deleted) => c.prev \in orphaned

IInv ==
  /\ \A p \in Posts :
       UnsentIsIdle(p) /\ RowFollowsCopy(p) /\ PutFollowsCopy(p) /\ RedactionFollowsPut(p)
  /\ CleanupsHaveCause

LEMMA IInvInit == Init => IInv
  BY DEF Init, IInv, UnsentIsIdle, RowFollowsCopy, PutFollowsCopy, RedactionFollowsPut,
        CleanupsHaveCause

LEMMA IInvNext == TypeOK /\ IInv /\ [Next]_vars => IInv'
<1> SUFFICES ASSUME TypeOK, IInv, [Next]_vars PROVE IInv'
  OBVIOUS
<1> USE ConstantsAssumption
    DEF IInv, UnsentIsIdle, RowFollowsCopy, PutFollowsCopy, RedactionFollowsPut,
        CleanupsHaveCause,
        TypeOK, PostTask, RedactTask, Post, Mirror
<1>1. ASSUME NEW p \in Posts, SendPost(p) PROVE IInv'
  BY <1>1 DEF SendPost, PostGoes, counters, history
<1>2. ASSUME NEW p \in Posts, EditPost(p) PROVE IInv'
  BY <1>2 DEF EditPost, counters, history
<1>3. ASSUME NEW p \in Posts, RedactPost(p) PROVE IInv'
  BY <1>3 DEF RedactPost, RedactGoes, counters, history
<1>4. ASSUME NEW p \in Posts, AlreadyMirrored(p) PROVE IInv'
  BY <1>4 DEF AlreadyMirrored, PostGoes, rooms, counters, history
<1>5. ASSUME NEW p \in Posts, ReadDiscussion(p) PROVE IInv'
  BY <1>5 DEF ReadDiscussion, PostGoes, rooms, counters, history
<1>6. ASSUME NEW p \in Posts, SendMirror(p) PROVE IInv'
  <2>1. CASE CopyInto(p, postTask[p].room) /\ PostGoes(p, "put", postTask[p].room)
    BY <1>6, <2>1 DEF SendMirror, CopyInto, PostGoes, history
  <2>2. CASE PostGoes(p, "ensure", postTask[p].room) /\ UNCHANGED mirror
    BY <1>6, <2>2 DEF SendMirror, CopyInto, PostGoes, history
  <2> QED
    BY <1>6, <2>1, <2>2 DEF SendMirror
<1>7. ASSUME NEW p \in Posts, EnsureAuthorInDiscussion(p) PROVE IInv'
  <2>1. CASE PostGoes(p, "resend", postTask[p].room)
    BY <1>7, <2>1 DEF EnsureAuthorInDiscussion, PostGoes
  <2>2. CASE PostGoes(p, "done", postTask[p].room)
    BY <1>7, <2>2 DEF EnsureAuthorInDiscussion, PostGoes
  <2> QED
    BY <1>7, <2>1, <2>2 DEF EnsureAuthorInDiscussion
<1>8. ASSUME NEW p \in Posts, ResendMirror(p) PROVE IInv'
  <2>1. CASE CopyInto(p, postTask[p].room) /\ PostGoes(p, "put", postTask[p].room)
    BY <1>8, <2>1 DEF ResendMirror, CopyInto, PostGoes
  <2>2. CASE PostGoes(p, "done", postTask[p].room) /\ UNCHANGED mirror
    BY <1>8, <2>2 DEF ResendMirror, CopyInto, PostGoes
  <2> QED
    BY <1>8, <2>1, <2>2 DEF ResendMirror
<1>9. ASSUME NEW p \in Posts, PutMirror(p) PROVE IInv'
  BY <1>9 DEF PutMirror, PostGoes, rooms, counters, history
<1>10. ASSUME NEW p \in Posts, GetMirrorForRedact(p) PROVE IInv'
  BY <1>10 DEF GetMirrorForRedact, RedactGoes, rooms, counters, history
<1>11. ASSUME NEW p \in Posts, SendRedaction(p) PROVE IInv'
  <2>1. CASE /\ RedactGoes(p, "delete", redactTask[p].room)
             /\ mirror' = [mirror EXCEPT ![p] = Redacted(@)]
    BY <1>11, <2>1 DEF SendRedaction, Redacted, RedactGoes, history
  <2>2. CASE RedactGoes(p, "done", redactTask[p].room) /\ UNCHANGED mirror
    BY <1>11, <2>2 DEF SendRedaction, RedactGoes, history
  <2> QED
    BY <1>11, <2>1, <2>2 DEF SendRedaction
<1>12. ASSUME NEW p \in Posts, DeleteMirror(p) PROVE IInv'
  BY <1>12 DEF DeleteMirror, RedactGoes, rooms, counters, history
<1>13. ASSUME NEW new \in MaybeRoom, NEW deleted \in BOOLEAN, SetDiscussion(new, deleted)
       PROVE  IInv'
  BY <1>13 DEF SetDiscussion, ShouldCleanupMappings
<1>14. ASSUME NEW r \in Rooms, AuthorMoves(r) PROVE IInv'
  BY <1>14 DEF AuthorMoves, tasks, counters, history
<1>15. ASSUME NEW e \in Posts \X Edits, GetMirrorForEdit(e) PROVE IInv'
  BY <1>15 DEF GetMirrorForEdit, rooms, counters, history
<1>16. ASSUME NEW e \in Posts \X Edits, SendEdit(e) PROVE IInv'
  <2>1. \A p \in Posts : mirror'[p].room = mirror[p].room /\ mirror'[p].state = mirror[p].state
    <3>1. e[1] \in Posts
      OBVIOUS
    <3>2. CASE mirror' = [mirror EXCEPT ![e[1]] = Showing(@, e[2])]
      BY <3>1, <3>2 DEF Showing
    <3> QED
      BY <1>16, <3>2 DEF SendEdit
  <2> QED
    BY <1>16, <2>1 DEF SendEdit, history
<1>17. ASSUME NEW c \in cleanups, CleanupUnlinkedDiscussion(c) PROVE IInv'
  BY <1>17 DEF CleanupUnlinkedDiscussion, DeleteByDiscussion, rooms, history
<1>18. CASE Crash
  BY <1>18 DEF Crash, Ended, Running, rooms
<1>19. CASE UNCHANGED vars
  BY <1>19 DEF vars, rooms, tasks, counters, history
<1>20. ASSUME NEW p \in Posts, PostRaises(p) PROVE IInv'
  BY <1>20 DEF PostRaises, PostGoes, rooms
<1>21. ASSUME NEW e \in Posts \X Edits, EditRaises(e) PROVE IInv'
  BY <1>21 DEF EditRaises, rooms, history
<1>22. ASSUME NEW p \in Posts, RedactRaises(p) PROVE IInv'
  BY <1>22 DEF RedactRaises, RedactGoes, rooms, history
<1> QED
  BY <1>1, <1>2, <1>3, <1>4, <1>5, <1>6, <1>7, <1>8, <1>9, <1>10, <1>11, <1>12, <1>13,
     <1>14, <1>15, <1>16, <1>17, <1>18, <1>19, <1>20, <1>21, <1>22, NextCases

LEMMA IInvHolds == Spec => []IInv
  BY TypeCorrect, IInvInit, IInvNext, PTL DEF Spec

(* A row of channel_post_mirror always names the chat that holds the copy. *)
THEOREM MappingIsSound == Spec => []MappingPointsAtCopy
<1>1. IInv => MappingPointsAtCopy
  BY DEF IInv, RowFollowsCopy, MappingPointsAtCopy
<1> QED
  BY <1>1, IInvHolds, PTL

(* A copy is redacted only after its post, and a redaction that ran to its *)
(* end is final: the copy stays redacted and the row stays away.           *)
THEOREM RedactionIsFinal == Spec => [](OnlyRedactedPostsLoseTheirCopy /\ ErasedPostStaysErased)
<1>1. IInv => OnlyRedactedPostsLoseTheirCopy /\ ErasedPostStaysErased
  BY DEF IInv, RedactionFollowsPut, OnlyRedactedPostsLoseTheirCopy, ErasedPostStaysErased
<1> QED
  BY <1>1, IInvHolds, PTL

(* Turning comments off never costs a thread: a row is deleted only for a  *)
(* redacted post, or for a chat the channel moved away from or was deleted *)
(* with.                                                                   *)
THEOREM UnlinkingKeepsThreads == Spec => ThreadsOutliveUnlinking
<1> DEFINE Kept == \A p \in Posts : mapping[p] # NoRoom /\ mapping'[p] = NoRoom
                     => post[p].status = "redacted" \/ mapping[p] \in orphaned
<1>1. TypeOK /\ IInv /\ [Next]_vars => [Kept]_vars
  <2> SUFFICES ASSUME TypeOK, IInv, Next PROVE Kept
    OBVIOUS
  <2> USE DEF TypeOK
  <2>1. CASE \E p \in Posts : PutMirror(p)
    BY <2>1, ConstantsAssumption DEF PutMirror
  <2>2. CASE \E p \in Posts : DeleteMirror(p)
    BY <2>2 DEF DeleteMirror, IInv, RedactionFollowsPut
  <2>3. CASE \E c \in cleanups : CleanupUnlinkedDiscussion(c)
    BY <2>3 DEF CleanupUnlinkedDiscussion, DeleteByDiscussion, IInv, CleanupsHaveCause
  <2>4. CASE UNCHANGED mapping
    BY <2>4
  <2>5. \/ \E p \in Posts : PutMirror(p) \/ DeleteMirror(p)
        \/ \E c \in cleanups : CleanupUnlinkedDiscussion(c)
        \/ UNCHANGED mapping
    BY NextCases
    DEF SendPost, EditPost, RedactPost, AlreadyMirrored, ReadDiscussion, SendMirror,
        EnsureAuthorInDiscussion, ResendMirror, GetMirrorForRedact, SendRedaction,
        SetDiscussion, AuthorMoves, GetMirrorForEdit, SendEdit, PostRaises, EditRaises,
        RedactRaises, Crash
  <2> QED
    BY <2>1, <2>2, <2>3, <2>4, <2>5
<1>2. Spec => [][Kept]_vars
  BY <1>1, TypeCorrect, IInvHolds, PTL DEF Spec
<1> QED
  BY <1>2 DEF ThreadsOutliveUnlinking
=============================================================================
