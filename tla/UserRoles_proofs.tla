-------------------------- MODULE UserRoles_proofs --------------------------
(***************************************************************************)
(* Proofs about UserRoles: extra roles follow the main role they were      *)
(* stated for; while requests follow one another, the cache follows the    *)
(* table, clients follow the roles, and a role that somebody bears keeps   *)
(* its row; and the types.                                                 *)
(*                                                                         *)
(* Most steps touch neither the accounts nor the grants and only end a     *)
(* request or move it on.  StepEffects sorts all steps by what they do to  *)
(* the variables the first invariant speaks of; the invariant is then      *)
(* shown to survive each effect.  The serial results need to know          *)
(* where the one busy request is, so there each action has its own lemma.  *)
(***************************************************************************)
EXTENDS UserRoles, TLAPS

(* What the proofs need to know about the shape of the state. *)
Shape ==
  /\ account = [u \in Users |-> account[u]]
  /\ pc = [i \in Slots |-> pc[i]]
  /\ req = [i \in Slots |-> req[i]]
  /\ extras = [i \in Slots |-> extras[i]]

(* Only set deals with extra roles, and only set reads the stored ones. *)
SetOnly ==
  \A i \in Slots :
    /\ pc[i] = "idle" => req[i].kind = "none"
    /\ pc[i] = "stored" => req[i].kind = "set"
    /\ req[i].kind # "set" => extras[i] = {}
    /\ req[i].kind = "set" => req[i].user \in Users

(* Extra roles that a request without the key is going to store were read  *)
(* from the account while it had the same main role.                       *)
ReadExtrasWereGranted ==
  \A i \in Slots : req[i].stated # "yes" =>
    \A e \in extras[i] : <<req[i].user, req[i].code, e>> \in granted

ExtrasInv == SetOnly /\ ExtrasWereGranted /\ ReadExtrasWereGranted

Inv == Shape /\ ExtrasInv

-----------------------------------------------------------------------------
(* The effects of a step on pc, req, extras, account and granted *)

Ends(i) ==
  /\ pc' = [pc EXCEPT ![i] = "idle"] /\ req' = [req EXCEPT ![i] = NoReq]
  /\ extras' = [extras EXCEPT ![i] = {}]
  /\ UNCHANGED <<account, granted>>

Moves(i) ==
  /\ \E l \in Pcs \ {"idle", "stored", "delete"} : pc' = [pc EXCEPT ![i] = l]
  /\ UNCHANGED <<req, extras, account, granted>>

LooksUp(i) ==
  /\ req[i].kind = "set"
  /\ pc' = [pc EXCEPT ![i] = "stored"]
  /\ UNCHANGED <<req, extras, account, granted>>

Accepts(i) ==
  /\ req[i].kind = "set" /\ req[i].stated = "yes"
  /\ pc' = [pc EXCEPT ![i] = "put"]
  /\ extras' = [extras EXCEPT ![i] = @ \ {req[i].code}]
  /\ UNCHANGED <<req, account, granted>>

Deletes(i) ==
  /\ UsersWithRole(req[i].code) = {}
  /\ pc' = [pc EXCEPT ![i] = "delete"]
  /\ UNCHANGED <<req, extras, account, granted>>

Begins(i) ==
  /\ pc[i] = "idle"
  /\ \E l \in {"check", "patch", "holders", "select"} : pc' = [pc EXCEPT ![i] = l]
  /\ \E r :
       /\ req' = [req EXCEPT ![i] = r]
       /\ r.kind = "set" => r.user \in Users
       /\ \/ UNCHANGED extras
          \/ r.kind = "set" /\ \E es : /\ r.stated # "yes" => es = {}
                                       /\ extras' = [extras EXCEPT ![i] = es]
  /\ UNCHANGED <<account, granted>>

Resets ==
  /\ \E b \in Slots :
       /\ pc' = [i \in Slots |-> IF i = b THEN "seed" ELSE "idle"]
       /\ req' = [i \in Slots |-> IF i = b THEN Boot ELSE NoReq]
  /\ extras' = [i \in Slots |-> {}]
  /\ UNCHANGED <<account, granted>>

Effect(i) ==
  Ends(i) \/ Moves(i) \/ LooksUp(i) \/ Accepts(i) \/ Deletes(i) \/ Begins(i)

-----------------------------------------------------------------------------
(* Which steps have which effect *)

LEMMA DoneEnds ==
  ASSUME NEW i \in Slots, Done(i), UNCHANGED <<account, granted>>
  PROVE  Ends(i)
BY DEF Done, Goes, Ends

LEMMA CheckedEffect ==
  ASSUME NEW i \in Slots, NEW rows, Checked(i, rows), UNCHANGED <<account, granted>>
  PROVE  Effect(i)
<1>1. CASE Done(i)
  BY <1>1, DoneEnds DEF Effect
<1>2. CASE Goes(i, "insert") /\ UNCHANGED <<req, locals>>
  BY <1>2 DEF Effect, Moves, Goes, Pcs, locals
<1>3. CASE Goes(i, "put") /\ UNCHANGED <<req, locals>>
  BY <1>3 DEF Effect, Moves, Goes, Pcs, locals
<1>4. CASE req[i].kind = "set" /\ Goes(i, "stored") /\ UNCHANGED <<req, locals>>
  BY <1>4 DEF Effect, LooksUp, Goes, locals
<1>5. CASE /\ req[i].kind = "set" /\ req[i].stated = "yes" /\ Goes(i, "put")
           /\ extras' = [extras EXCEPT ![i] = @ \ {req[i].code}] /\ UNCHANGED <<req>>
  BY <1>5 DEF Effect, Accepts, Goes
<1> QED  BY <1>1, <1>2, <1>3, <1>4, <1>5 DEF Checked, CheckSet

LEMMA NextBroadcastEffect ==
  ASSUME NEW i \in Slots, NEW todo, NEW bearers, NextBroadcast(i, todo, bearers),
         UNCHANGED <<account, granted>>
  PROVE  Effect(i)
<1>1. CASE Done(i)
  BY <1>1, DoneEnds DEF Effect
<1>2. CASE /\ Goes(i, IF bearers # {} THEN "account" ELSE "bearers")
           /\ UNCHANGED <<req, extras, load, msg>>
  BY <1>2 DEF Effect, Moves, Goes, Pcs
<1> QED  BY <1>1, <1>2 DEF NextBroadcast

LEMMA ReloadEffect ==
  ASSUME NEW i \in Slots, NEW l, Reload(i, l), UNCHANGED <<req, extras, account, granted>>
  PROVE  Effect(i)
BY DEF Effect, Moves, Reload, Goes, Pcs

LEMMA ViewedEffect ==
  ASSUME NEW i \in Slots, NEW rows, Viewed(i, rows), UNCHANGED <<account, granted>>
  PROVE  Effect(i)
BY DEF Effect, Moves, Viewed, Goes, Pcs

(* Every step of a request but those that write an account or read one *)
LEMMA RunsEffect ==
  ASSUME NEW i \in Slots, Runs(i)
  PROVE  Effect(i) \/ ReadStored(i) \/ PutRole(i)
<1>1. CASE Seed(i)
  BY <1>1 DEF Seed, Effect, Moves, Goes, Pcs, locals, history
<1>2. CASE Check(i)
  <2>1. UNCHANGED <<account, granted>>
    BY <1>2 DEF Check, stored, history
  <2>2. CASE Checked(i, cache)
    BY <2>1, <2>2, CheckedEffect
  <2>3. CASE Reload(i, "check") /\ UNCHANGED <<req, extras, loop, msg>>
    BY <2>1, <2>3, ReloadEffect
  <2> QED  BY <1>2, <2>2, <2>3 DEF Check
<1>3. CASE Add(i)
  <2>1. UNCHANGED <<account, granted>>
    BY <1>3 DEF Add, history
  <2>2. CASE Done(i)
    BY <2>1, <2>2, DoneEnds DEF Effect
  <2>3. CASE Reload(i, "idle") /\ UNCHANGED <<req, extras, loop, msg>>
    BY <2>1, <2>3, ReloadEffect
  <2> QED  BY <1>3, <2>2, <2>3 DEF Add
<1>4. CASE Patch(i)
  <2>1. UNCHANGED <<account, granted>>
    BY <1>4 DEF Patch, history
  <2>2. CASE Done(i)
    BY <2>1, <2>2, DoneEnds DEF Effect
  <2>3. CASE Reload(i, "bearers") /\ UNCHANGED <<req, extras, msg>>
    BY <2>1, <2>3, ReloadEffect
  <2> QED  BY <1>4, <2>2, <2>3 DEF Patch
<1>5. CASE FindHolders(i)
  <2>1. UNCHANGED <<account, granted>>
    BY <1>5 DEF FindHolders, stored, history
  <2>2. CASE Done(i)
    BY <2>1, <2>2, DoneEnds DEF Effect
  <2>3. CASE UsersWithRole(req[i].code) = {} /\ Goes(i, "delete") /\ UNCHANGED <<req, locals>>
    BY <2>1, <2>3 DEF Effect, Deletes, Goes, locals
  <2> QED  BY <1>5, <2>2, <2>3 DEF FindHolders
<1>6. CASE Delete(i)
  <2>1. UNCHANGED <<account, granted>>
    BY <1>6 DEF Delete, history
  <2>2. CASE Done(i)
    BY <2>1, <2>2, DoneEnds DEF Effect
  <2>3. CASE Reload(i, "idle") /\ UNCHANGED <<req, extras, loop, msg>>
    BY <2>1, <2>3, ReloadEffect
  <2> QED  BY <1>6, <2>2, <2>3 DEF Delete
<1>7. CASE SelectRows(i)
  BY <1>7 DEF SelectRows, Effect, Moves, Goes, Pcs, stored, history
<1>8. CASE AssignCache(i)
  <2>1. UNCHANGED <<account, granted>>
    BY <1>8 DEF AssignCache, stored
  <2>2. CASE Done(i)
    BY <2>1, <2>2, DoneEnds DEF Effect
  <2>3. CASE Checked(i, load[i].rows)
    BY <2>1, <2>3, CheckedEffect
  <2>4. CASE Viewed(i, load[i].rows)
    BY <2>1, <2>4, ViewedEffect
  <2>5. CASE Goes(i, "bearers") /\ UNCHANGED <<req, locals>>
    BY <2>1, <2>5 DEF Effect, Moves, Goes, Pcs, locals
  <2>6. CASE NextBroadcast(i, Changed(req[i].before, load[i].rows), {})
    BY <2>1, <2>6, NextBroadcastEffect
  <2> QED  BY <1>8, <2>2, <2>3, <2>4, <2>5, <2>6 DEF AssignCache
<1>9. CASE FindBearers(i)
  <2>1. UNCHANGED <<account, granted>>
    BY <1>9 DEF FindBearers, stored, history
  <2>2. PICK c \in loop[i].todo : NextBroadcast(i, loop[i].todo \ {c}, UsersWithRole(c))
    BY <1>9 DEF FindBearers
  <2> QED  BY <2>1, <2>2, NextBroadcastEffect
<1>10. CASE ReadRole(i)
  BY <1>10 DEF ReadRole, Effect, Moves, Goes, Pcs, stored, history
<1>11. CASE MakeView(i)
  <2>1. UNCHANGED <<account, granted>>
    BY <1>11 DEF MakeView, stored, history
  <2>2. CASE Viewed(i, cache)
    BY <2>1, <2>2, ViewedEffect
  <2>3. CASE Reload(i, "view") /\ UNCHANGED <<req, extras, loop, msg>>
    BY <2>1, <2>3, ReloadEffect
  <2> QED  BY <1>11, <2>2, <2>3 DEF MakeView
<1>12. CASE SendToDevice(i)
  <2>1. UNCHANGED <<account, granted>>
    BY <1>12 DEF SendToDevice, history
  <2>2. NextBroadcast(i, loop[i].todo, loop[i].bearers)
    BY <1>12 DEF SendToDevice
  <2> QED  BY <2>1, <2>2, NextBroadcastEffect
<1> QED
  BY <1>1, <1>2, <1>3, <1>4, <1>5, <1>6, <1>7, <1>8, <1>9, <1>10, <1>11, <1>12 DEF Runs

LEMMA FailEffect ==
  ASSUME NEW i \in Slots, Fail(i)
  PROVE  Effect(i)
<1>1. UNCHANGED <<account, granted>>
  BY DEF Fail, stored
<1>2. CASE Done(i)
  BY <1>1, <1>2, DoneEnds DEF Effect
<1>3. CASE NextBroadcast(i, loop[i].todo, {})
  BY <1>1, <1>3, NextBroadcastEffect
<1>4. CASE \E c \in loop[i].todo : NextBroadcast(i, loop[i].todo \ {c}, {})
  BY <1>1, <1>4, NextBroadcastEffect
<1> QED  BY <1>2, <1>3, <1>4 DEF Fail

LEMMA ArrivesEffect ==
  ASSUME NEW i \in Slots, Arrives(i)
  PROVE  Effect(i)
<1>1. ASSUME NEW u \in Users, NEW c \in Codes, NEW es \in SUBSET Codes,
             NEW stated \in {"yes", "no"}, SetRole(i, u, c, stated, es)
      PROVE  Begins(i)
  <2>1. /\ pc[i] = "idle" /\ pc' = [pc EXCEPT ![i] = "check"]
        /\ UNCHANGED <<account, granted>>
    BY <1>1 DEF SetRole, Start, At, Goes
  <2>2. /\ req' = [req EXCEPT ![i] = Ask("set", c, u, SeedLabel, stated)]
        /\ extras' = [extras EXCEPT ![i] = es]
        /\ stated = "no" => es = {}
    BY <1>1 DEF SetRole, Start
  <2>3. /\ Ask("set", c, u, SeedLabel, stated).kind = "set"
        /\ Ask("set", c, u, SeedLabel, stated).stated = stated
        /\ Ask("set", c, u, SeedLabel, stated).user = u
    BY DEF Ask
  <2> QED  BY <2>1, <2>2, <2>3 DEF Begins
<1>2. ASSUME NEW l \in {"check", "patch", "holders", "select"}, NEW r, r.kind # "set",
             Start(i, l, r), UNCHANGED extras
      PROVE  Begins(i)
  BY <1>2 DEF Start, At, Goes, Begins
<1>3. ASSUME NEW kind, NEW c, NEW u, NEW l
      PROVE  Ask(kind, c, u, l, "no").kind = kind
  BY DEF Ask
<1>4. ASSUME NEW c \in Codes, NEW l \in Labels, CreateRole(i, c, l) \/ UpdateRole(i, c, l)
      PROVE  Begins(i)
  BY <1>2, <1>3, <1>4 DEF CreateRole, UpdateRole
<1>5. ASSUME NEW c \in Codes, RemoveRole(i, c)
      PROVE  Begins(i)
  BY <1>2, <1>3, <1>5 DEF RemoveRole
<1>6. CASE ReloadCatalog(i)
  <2> DEFINE r == [kind |-> "reload", code |-> Default, user |-> Nobody,
                   label |-> SeedLabel, stated |-> "no", before |-> cache]
  <2>1. Start(i, "select", r) /\ UNCHANGED extras
    BY <1>6 DEF ReloadCatalog
  <2>2. r.kind # "set"
    OBVIOUS
  <2> HIDE DEF r
  <2> QED  BY <1>2, <2>1, <2>2 DEF Effect
<1>7. ASSUME NEW u \in Users, OnUserRegistration(i, u)
      PROVE  Begins(i)
  BY <1>2, <1>3, <1>7 DEF OnUserRegistration
<1> QED  BY <1>1, <1>4, <1>5, <1>6, <1>7 DEF Arrives, Effect

LEMMA StepEffects ==
  ASSUME Next
  PROVE  \/ \E i \in Slots : Effect(i) \/ ReadStored(i) \/ PutRole(i)
         \/ Resets
         \/ UNCHANGED <<pc, req, extras, account, granted>>
<1>1. ASSUME NEW i \in Slots, Restart(i)
      PROVE  Resets
  BY <1>1 DEF Restart, Resets, stored
<1>2. ASSUME NEW c \in Codes, NEW l \in Labels, SqlWrite(c, l)
      PROVE  UNCHANGED <<pc, req, extras, account, granted>>
  BY <1>2 DEF SqlWrite, task, locals
<1> QED  BY <1>1, <1>2, ArrivesEffect, RunsEffect, FailEffect DEF Next

-----------------------------------------------------------------------------
(* The invariant survives every effect *)

LEMMA BlankKinds ==
  /\ NoReq.kind = "none" /\ NoReq.stated = "no"
  /\ Boot.kind = "bootstrap" /\ Boot.stated = "no"
BY DEF NoReq, Boot, Ask

LEMMA InitInv == Init => Inv
<1> SUFFICES ASSUME Init PROVE Inv
  OBVIOUS
<1>1. Shape
  BY DEF Init, Shape
<1>2. SetOnly
  BY BlankKinds DEF Init, SetOnly
<1>3. ExtrasWereGranted /\ ReadExtrasWereGranted
  BY DEF Init, ExtrasWereGranted, ReadExtrasWereGranted
<1> QED  BY <1>1, <1>2, <1>3 DEF Inv, ExtrasInv

LEMMA EndsInv ==
  ASSUME NEW i \in Slots, Inv, Ends(i)
  PROVE  Inv'
<1>1. Shape'
  BY DEF Inv, Shape, Ends
<1>2. SetOnly'
  BY BlankKinds DEF Inv, Shape, ExtrasInv, SetOnly, Ends
<1>3. ExtrasWereGranted' /\ ReadExtrasWereGranted'
  BY DEF Inv, Shape, ExtrasInv, ExtrasWereGranted, ReadExtrasWereGranted, Ends
<1> QED  BY <1>1, <1>2, <1>3 DEF Inv, ExtrasInv

LEMMA MovesInv ==
  ASSUME NEW i \in Slots, Inv, Moves(i) \/ LooksUp(i)
  PROVE  Inv'
<1>1. Shape'
  BY DEF Inv, Shape, Moves, LooksUp
<1>2. SetOnly'
  BY DEF Inv, Shape, ExtrasInv, SetOnly, Moves, LooksUp
<1>3. ExtrasWereGranted' /\ ReadExtrasWereGranted'
  BY DEF Inv, ExtrasInv, ExtrasWereGranted, ReadExtrasWereGranted, Moves, LooksUp
<1> QED  BY <1>1, <1>2, <1>3 DEF Inv, ExtrasInv

LEMMA AcceptsInv ==
  ASSUME NEW i \in Slots, Inv, Accepts(i)
  PROVE  Inv'
<1>1. Shape'
  BY DEF Inv, Shape, Accepts
<1>2. SetOnly'
  BY DEF Inv, Shape, ExtrasInv, SetOnly, Accepts
<1>3. ExtrasWereGranted' /\ ReadExtrasWereGranted'
  BY DEF Inv, Shape, ExtrasInv, ExtrasWereGranted, ReadExtrasWereGranted, Accepts
<1> QED  BY <1>1, <1>2, <1>3 DEF Inv, ExtrasInv

LEMMA DeletesInv ==
  ASSUME NEW i \in Slots, Inv, Deletes(i)
  PROVE  Inv'
<1>1. Shape'
  BY DEF Inv, Shape, Deletes
<1>2. SetOnly'
  BY DEF Inv, Shape, ExtrasInv, SetOnly, Deletes
<1>3. ExtrasWereGranted' /\ ReadExtrasWereGranted'
  BY DEF Inv, ExtrasInv, ExtrasWereGranted, ReadExtrasWereGranted, Deletes
<1> QED  BY <1>1, <1>2, <1>3 DEF Inv, ExtrasInv

LEMMA BeginsInv ==
  ASSUME NEW i \in Slots, Inv, Begins(i)
  PROVE  Inv'
<1>1. PICK r : /\ req' = [req EXCEPT ![i] = r]
               /\ r.kind = "set" => r.user \in Users
               /\ \/ UNCHANGED extras
                  \/ r.kind = "set" /\ \E es : /\ r.stated # "yes" => es = {}
                                               /\ extras' = [extras EXCEPT ![i] = es]
  BY DEF Begins
<1>2. PICK l \in {"check", "patch", "holders", "select"} : pc' = [pc EXCEPT ![i] = l]
  BY DEF Begins
<1>3. extras[i] = {}
  BY DEF Inv, ExtrasInv, SetOnly, Begins
<1>4. Shape'
  BY <1>1, <1>2 DEF Inv, Shape, Begins
<1>5. SetOnly'
  BY <1>1, <1>2, <1>3 DEF Inv, Shape, ExtrasInv, SetOnly
<1>6. ExtrasWereGranted'
  BY DEF Inv, ExtrasInv, ExtrasWereGranted, Begins
<1>7. ReadExtrasWereGranted'
  BY <1>1, <1>3 DEF Inv, Shape, ExtrasInv, ReadExtrasWereGranted, Begins
<1> QED  BY <1>4, <1>5, <1>6, <1>7 DEF Inv, ExtrasInv

LEMMA ResetsInv ==
  ASSUME Inv, Resets
  PROVE  Inv'
<1>1. Shape'
  BY DEF Inv, Shape, Resets
<1>2. SetOnly'
  BY BlankKinds DEF SetOnly, Resets
<1>3. ExtrasWereGranted' /\ ReadExtrasWereGranted'
  BY DEF Inv, ExtrasInv, ExtrasWereGranted, ReadExtrasWereGranted, Resets
<1> QED  BY <1>1, <1>2, <1>3 DEF Inv, ExtrasInv

LEMMA ReadStoredInv ==
  ASSUME NEW i \in Slots, Inv, ReadStored(i)
  PROVE  Inv'
<1> DEFINE kept == Kept(account[req[i].user], req[i].code)
<1>1. /\ pc[i] = "stored" /\ pc' = [pc EXCEPT ![i] = "put"]
      /\ extras' = [extras EXCEPT ![i] = kept]
      /\ UNCHANGED <<req, account, granted>>
  BY DEF ReadStored, At, Goes, stored, history
<1>2. req[i].kind = "set" /\ req[i].user \in Users
  BY <1>1 DEF Inv, ExtrasInv, SetOnly
<1>3. ASSUME NEW e \in kept
      PROVE  <<req[i].user, req[i].code, e>> \in granted
  BY <1>2, <1>3 DEF Kept, Inv, ExtrasInv, ExtrasWereGranted
<1> HIDE DEF kept
<1>4. Shape'
  BY <1>1 DEF Inv, Shape
<1>5. SetOnly'
  BY <1>1, <1>2 DEF Inv, Shape, ExtrasInv, SetOnly
<1>6. ExtrasWereGranted'
  BY <1>1 DEF Inv, ExtrasInv, ExtrasWereGranted
<1>7. ReadExtrasWereGranted'
  BY <1>1, <1>3 DEF Inv, Shape, ExtrasInv, ReadExtrasWereGranted
<1> QED  BY <1>4, <1>5, <1>6, <1>7 DEF Inv, ExtrasInv

(* put_global: a request that stated its extra roles has them granted, any *)
(* other has read them under the same main role.                           *)
LEMMA PutRoleInv ==
  ASSUME NEW i \in Slots, Inv, PutRole(i)
  PROVE  Inv'
<1> DEFINE r == req[i]
           data == [role |-> r.code, extras |-> extras[i]]
<1>1. /\ account' = [account EXCEPT ![r.user] = data]
      /\ UNCHANGED extras
      /\ granted' = IF r.stated = "yes" THEN granted \union ({r.user} \X {r.code} \X extras[i])
                    ELSE granted
  BY DEF PutRole
<1>3. \/ r.kind # "set" /\ pc' = [pc EXCEPT ![i] = "idle"] /\ req' = [req EXCEPT ![i] = NoReq]
      \/ r.kind = "set" /\ pc' = [pc EXCEPT ![i] = "account"] /\ req' = req
  BY DEF PutRole, Goes
<1>4. data.role = r.code /\ data.extras = extras[i]
  OBVIOUS
<1>5. ASSUME NEW e \in extras[i]
      PROVE  <<r.user, r.code, e>> \in granted'
  BY <1>1, <1>5 DEF Inv, ExtrasInv, ReadExtrasWereGranted
<1>6. granted \subseteq granted'
  BY <1>1
<1> HIDE DEF data
<1>7. Shape'
  BY <1>1, <1>3 DEF Inv, Shape
<1>8. SetOnly'
  BY <1>1, <1>3, BlankKinds DEF Inv, Shape, ExtrasInv, SetOnly
<1>9. ExtrasWereGranted'
  BY <1>1, <1>4, <1>5, <1>6 DEF Inv, Shape, ExtrasInv, ExtrasWereGranted
<1>10. ReadExtrasWereGranted'
  BY <1>1, <1>3, <1>6, BlankKinds DEF Inv, Shape, ExtrasInv, SetOnly, ReadExtrasWereGranted
<1> QED  BY <1>7, <1>8, <1>9, <1>10 DEF Inv, ExtrasInv

LEMMA NextInv == Inv /\ [Next]_vars => Inv'
<1> SUFFICES ASSUME Inv, [Next]_vars PROVE Inv'
  OBVIOUS
<1>1. ASSUME UNCHANGED <<pc, req, extras, account, granted>> PROVE Inv'
  BY <1>1 DEF Inv, Shape, ExtrasInv, SetOnly, ExtrasWereGranted, ReadExtrasWereGranted
<1>2. CASE Next
  BY <1>1, <1>2, StepEffects, EndsInv, MovesInv, AcceptsInv, DeletesInv, BeginsInv,
     ResetsInv, ReadStoredInv, PutRoleInv DEF Effect
<1>3. CASE UNCHANGED vars
  BY <1>1, <1>3 DEF vars, task, locals, stored, history
<1> QED  BY <1>2, <1>3

(* Extra roles in the account data of a user were stated by a request for  *)
(* the main role the user has (UserRoleHandler.set).                       *)
THEOREM ExtrasFollowTheMainRole == Spec => []ExtrasWereGranted
<1>1. Inv => ExtrasWereGranted
  BY DEF Inv, ExtrasInv
<1> QED  BY <1>1, InitInv, NextInv, PTL DEF Spec

-----------------------------------------------------------------------------
(* Types *)

Thens == {"idle", "check", "view", "bearers", "diff"}
LoadRec == [then: Thens, rows: Rows]
LoopRec == [todo: SUBSET Codes, bearers: SUBSET Users]
MsgRec  == [user: Users \union {Nobody}, data: Account, view: View]

StoreTypes ==
  /\ table \in Rows /\ cache \in Rows
  /\ account \in [Users -> Account]
  /\ known \in SUBSET Users
  /\ shown \in [Users -> View \union {Unsent}]

TaskTypes ==
  /\ pc \in [Slots -> Pcs] /\ req \in [Slots -> Request]
  /\ extras \in [Slots -> SUBSET Codes]
  /\ load \in [Slots -> LoadRec] /\ loop \in [Slots -> LoopRec] /\ msg \in [Slots -> MsgRec]

HistoryTypes ==
  /\ granted \in SUBSET (Users \X Codes \X Codes)
  /\ written \in SUBSET Codes /\ missed \in SUBSET Codes
  /\ serial \in {"yes", "no"}

CounterTypes ==
  /\ bound \in Bounds
  /\ requests \in 0..bound.requests /\ writes \in 0..bound.writes
  /\ faults \in 0..bound.faults /\ restarts \in 0..bound.restarts

(* Who is asked about whom; ADMIN is never stored as an extra role. *)
AskInv ==
  \A i \in Slots :
    /\ req[i].stated = "yes" => req[i].kind = "set"
    /\ req[i].kind \in {"set", "register"} => req[i].user \in Users
    /\ pc[i] = "put" => Admin \notin extras[i]

TypeInv == StoreTypes /\ TaskTypes /\ AskInv /\ HistoryTypes /\ CounterTypes

LEMMA TypeSplit == TypeOK <=> StoreTypes /\ TaskTypes /\ HistoryTypes /\ CounterTypes
BY DEF TypeOK, StoreTypes, TaskTypes, HistoryTypes, CounterTypes, Thens, LoadRec, LoopRec, MsgRec

LEMMA BlankTypes ==
  /\ Empty \in Rows /\ NoReq \in Request /\ Boot \in Request
  /\ NoLoad \in LoadRec /\ NoLoop \in LoopRec /\ NoMsg \in MsgRec
<1>1. Empty \in Rows
  BY DEF Empty, Rows
<1>2. NoReq \in Request /\ Boot \in Request
  BY <1>1, ConstantsAssumption DEF NoReq, Boot, Ask, Request
<1>3. NoLoad \in LoadRec
  BY <1>1 DEF NoLoad, LoadRec, Thens
<1>4. NoLoop \in LoopRec
  BY DEF NoLoop, LoopRec
<1>5. NoMsg \in MsgRec
  BY DEF NoMsg, MsgRec, Account, View
<1> QED  BY <1>1, <1>2, <1>3, <1>4, <1>5

LEMMA AskTypes ==
  ASSUME NEW kind \in {"set", "create", "update", "remove", "register"},
         NEW c \in Codes, NEW u \in Users \union {Nobody}, NEW l \in Labels,
         NEW stated \in {"yes", "no"}
  PROVE  /\ Ask(kind, c, u, l, stated) \in Request
         /\ Ask(kind, c, u, l, stated).kind = kind
         /\ Ask(kind, c, u, l, stated).code = c
         /\ Ask(kind, c, u, l, stated).user = u
         /\ Ask(kind, c, u, l, stated).stated = stated
BY BlankTypes DEF Ask, Request

LEMMA EnrichType ==
  ASSUME NEW data \in Account, NEW rows \in Rows
  PROVE  Enrich(data, rows) \in View
<1>1. CASE data = NoRole
  BY <1>1 DEF Enrich, View
<1>2. CASE data # NoRole
  <2>1. data.role \in Codes /\ data.extras \in Extras
    BY <1>2 DEF Account
  <2>2. rows[data.role] \in Labels \union {NoRow}
    BY <2>1 DEF Rows
  <2> QED  BY <1>2, <2>1, <2>2 DEF Enrich, View
<1> QED  BY <1>1, <1>2

LEMMA InitTypes == Init => TypeInv
<1> SUFFICES ASSUME Init PROVE TypeInv
  OBVIOUS
<1>1. StoreTypes
  BY BlankTypes DEF Init, StoreTypes, Account
<1>2. TaskTypes
  BY BlankTypes DEF Init, TaskTypes, Pcs
<1>3. AskInv
  BY BlankKinds DEF Init, AskInv
<1>4. HistoryTypes
  BY DEF Init, HistoryTypes
<1>5. CounterTypes
  BY ConstantsAssumption DEF Init, CounterTypes
<1> QED  BY <1>1, <1>2, <1>3, <1>4, <1>5 DEF TypeInv

LEMMA DoneTypes ==
  ASSUME NEW i \in Slots, TaskTypes, AskInv, Done(i)
  PROVE  TaskTypes' /\ AskInv'
<1>1. TaskTypes'
  BY BlankTypes DEF TaskTypes, Done, Goes, Pcs
<1>2. AskInv'
  BY BlankKinds DEF TaskTypes, AskInv, Done, Goes
<1> QED  BY <1>1, <1>2

(* A request moves on to anything but put_global. *)
LEMMA MoveTypes ==
  ASSUME NEW i \in Slots, NEW l \in Pcs \ {"put"}, TaskTypes, AskInv, Goes(i, l),
         UNCHANGED <<req, extras>>,
         (load \in [Slots -> LoadRec])', (loop \in [Slots -> LoopRec])',
         (msg \in [Slots -> MsgRec])'
  PROVE  TaskTypes' /\ AskInv'
<1>1. TaskTypes'
  BY DEF TaskTypes, Goes
<1>2. AskInv'
  BY DEF TaskTypes, AskInv, Goes
<1> QED  BY <1>1, <1>2

LEMMA ReloadTypes ==
  ASSUME NEW i \in Slots, NEW l \in Thens, TaskTypes, AskInv, Reload(i, l),
         UNCHANGED <<req, extras, msg>>, (loop \in [Slots -> LoopRec])'
  PROVE  TaskTypes' /\ AskInv'
<1>1. [then |-> l, rows |-> Empty] \in LoadRec
  BY BlankTypes DEF LoadRec
<1>2. (load \in [Slots -> LoadRec])'
  BY <1>1 DEF Reload, TaskTypes
<1>3. (msg \in [Slots -> MsgRec])'
  BY DEF TaskTypes
<1>4. Goes(i, "select") /\ "select" \in Pcs \ {"put"}
  BY DEF Reload, Pcs
<1> QED  BY <1>2, <1>3, <1>4, MoveTypes

LEMMA NextBroadcastTypes ==
  ASSUME NEW i \in Slots, NEW todo \in SUBSET Codes, NEW bearers \in SUBSET Users,
         TaskTypes, AskInv, NextBroadcast(i, todo, bearers)
  PROVE  TaskTypes' /\ AskInv'
<1> DEFINE l == IF bearers # {} THEN "account" ELSE "bearers"
<1>1. CASE Done(i)
  BY <1>1, DoneTypes
<1>2. CASE /\ Goes(i, l)
           /\ loop' = [loop EXCEPT ![i] = [todo |-> todo, bearers |-> bearers]]
           /\ UNCHANGED <<req, extras, load, msg>>
  <2>1. [todo |-> todo, bearers |-> bearers] \in LoopRec
    BY DEF LoopRec
  <2>2. (loop \in [Slots -> LoopRec])' /\ (load \in [Slots -> LoadRec])'
        /\ (msg \in [Slots -> MsgRec])'
    BY <1>2, <2>1 DEF TaskTypes
  <2>3. l \in Pcs \ {"put"}
    BY DEF Pcs
  <2> QED  BY <1>2, <2>2, <2>3, MoveTypes
<1> QED  BY <1>1, <1>2 DEF NextBroadcast

LEMMA ViewedTypes ==
  ASSUME NEW i \in Slots, NEW rows \in Rows, TaskTypes, AskInv, Viewed(i, rows)
  PROVE  TaskTypes' /\ AskInv'
<1> DEFINE m == [user |-> msg[i].user, data |-> msg[i].data,
                 view |-> Enrich(msg[i].data, rows)]
<1>1. msg[i] \in MsgRec
  BY DEF TaskTypes
<1>2. msg[i].user \in Users \union {Nobody} /\ msg[i].data \in Account
  BY <1>1 DEF MsgRec
<1>3. m \in MsgRec
  BY <1>2, EnrichType DEF MsgRec
<1>4. msg' = [msg EXCEPT ![i] = m]
  BY DEF Viewed
<1> HIDE DEF m
<1>5. (msg \in [Slots -> MsgRec])'
  BY <1>3, <1>4 DEF TaskTypes
<1>6. (loop \in [Slots -> LoopRec])' /\ (load \in [Slots -> LoadRec])'
  BY DEF Viewed, TaskTypes
<1>7. Goes(i, "send") /\ "send" \in Pcs \ {"put"} /\ UNCHANGED <<req, extras>>
  BY DEF Viewed, Pcs
<1> QED  BY <1>5, <1>6, <1>7, MoveTypes

(* Extra roles pass the check without ADMIN. *)
LEMMA CheckedTypes ==
  ASSUME NEW i \in Slots, NEW rows \in Rows, TaskTypes, AskInv, SetOnly, Checked(i, rows)
  PROVE  TaskTypes' /\ AskInv'
<1>1. CASE Done(i)
  BY <1>1, DoneTypes
<1>2. CASE \E l \in {"insert", "stored"} : Goes(i, l) /\ UNCHANGED <<req, locals>>
  <2>1. PICK l \in {"insert", "stored"} : Goes(i, l) /\ UNCHANGED <<req, locals>>
    BY <1>2
  <2>2. l \in Pcs \ {"put"}
    BY DEF Pcs
  <2>3. (loop \in [Slots -> LoopRec])' /\ (load \in [Slots -> LoadRec])'
        /\ (msg \in [Slots -> MsgRec])' /\ UNCHANGED <<req, extras>>
    BY <2>1 DEF TaskTypes, locals
  <2> QED  BY <2>1, <2>2, <2>3, MoveTypes
<1>3. CASE req[i].kind = "register" /\ Goes(i, "put") /\ UNCHANGED <<req, locals>>
  <2>1. extras[i] = {}
    BY <1>3 DEF SetOnly
  <2>2. TaskTypes'
    BY <1>3 DEF TaskTypes, Goes, Pcs, locals
  <2>3. AskInv'
    BY <1>3, <2>1 DEF TaskTypes, AskInv, Goes, locals
  <2> QED  BY <2>2, <2>3
<1>4. CASE /\ ExtrasAccepted(extras[i], rows) /\ Goes(i, "put")
           /\ extras' = [extras EXCEPT ![i] = @ \ {req[i].code}]
           /\ UNCHANGED <<req, load, loop, msg>>
  <2>1. Admin \notin extras[i]
    BY <1>4 DEF ExtrasAccepted
  <2>2. TaskTypes'
    BY <1>4 DEF TaskTypes, Goes, Pcs
  <2>3. AskInv'
    BY <1>4, <2>1 DEF TaskTypes, AskInv, Goes
  <2> QED  BY <2>2, <2>3
<1> QED  BY <1>1, <1>2, <1>3, <1>4 DEF Checked, CheckSet

LEMMA StartTypes ==
  ASSUME NEW i \in Slots, NEW l \in {"check", "patch", "holders", "select"},
         NEW r \in Request, TypeInv, Start(i, l, r),
         r.stated = "yes" => r.kind = "set",
         r.kind \in {"set", "register"} => r.user \in Users,
         (known \in SUBSET Users)', (extras \in [Slots -> SUBSET Codes])',
         \A j \in Slots \ {i} : extras'[j] = extras[j],
         (load \in [Slots -> LoadRec])', (loop \in [Slots -> LoopRec])'
  PROVE  TypeInv'
<1>1. StoreTypes'
  BY DEF TypeInv, StoreTypes, Start
<1>2. TaskTypes'
  BY DEF TypeInv, TaskTypes, Start, Goes, Pcs
<1>3. HistoryTypes'
  BY DEF TypeInv, HistoryTypes, Start
<1>4. CounterTypes'
  <2>1. bound' = bound /\ requests < bound.requests /\ requests' = requests + 1
        /\ UNCHANGED <<writes, faults, restarts>>
    BY DEF Start
  <2>2. bound.requests \in Nat
    BY ConstantsAssumption DEF TypeInv, CounterTypes
  <2> QED  BY <2>1, <2>2 DEF TypeInv, CounterTypes
<1>5. AskInv'
  BY DEF TypeInv, TaskTypes, AskInv, Start, Goes
<1> QED  BY <1>1, <1>2, <1>3, <1>4, <1>5 DEF TypeInv

LEMMA ArrivesTypes ==
  ASSUME NEW i \in Slots, TypeInv, Arrives(i)
  PROVE  TypeInv'
<1>0. /\ known \in SUBSET Users /\ extras \in [Slots -> SUBSET Codes]
      /\ load \in [Slots -> LoadRec] /\ loop \in [Slots -> LoopRec]
  BY DEF TypeInv, StoreTypes, TaskTypes
<1>1. ASSUME NEW u \in Users, NEW c \in Codes, NEW es \in SUBSET Codes,
             NEW stated \in {"yes", "no"}, SetRole(i, u, c, stated, es)
      PROVE  TypeInv'
  <2> DEFINE r == Ask("set", c, u, SeedLabel, stated)
  <2>1. r \in Request /\ r.kind = "set" /\ r.user = u
    BY AskTypes, ConstantsAssumption
  <2>2. Start(i, "check", r) /\ extras' = [extras EXCEPT ![i] = es]
        /\ UNCHANGED <<known, load, loop>>
    BY <1>1 DEF SetRole
  <2> HIDE DEF r
  <2>3. /\ (extras \in [Slots -> SUBSET Codes])' /\ \A j \in Slots \ {i} : extras'[j] = extras[j]
    BY <1>0, <2>2
  <2>4. (known \in SUBSET Users)' /\ (load \in [Slots -> LoadRec])' /\ (loop \in [Slots -> LoopRec])'
    BY <1>0, <2>2
  <2> QED  BY <2>1, <2>2, <2>3, <2>4, StartTypes
<1>2. ASSUME NEW l \in {"check", "patch", "holders"}, NEW kind \in {"create", "update", "remove"},
             NEW c \in Codes, NEW lb \in Labels,
             Start(i, l, Ask(kind, c, Nobody, lb, "no")), UNCHANGED <<known, extras, load, loop>>
      PROVE  TypeInv'
  <2> DEFINE r == Ask(kind, c, Nobody, lb, "no")
  <2>1. r \in Request /\ r.kind = kind /\ r.stated = "no"
    BY AskTypes
  <2>2. Start(i, l, r)
    BY <1>2
  <2> HIDE DEF r
  <2> QED  BY <1>0, <1>2, <2>1, <2>2, StartTypes
<1>3. ASSUME NEW c \in Codes, NEW l \in Labels, CreateRole(i, c, l) \/ UpdateRole(i, c, l)
      PROVE  TypeInv'
  BY <1>2, <1>3 DEF CreateRole, UpdateRole
<1>4. ASSUME NEW c \in Codes, RemoveRole(i, c)
      PROVE  TypeInv'
  BY <1>2, <1>4, ConstantsAssumption DEF RemoveRole
<1>5. CASE ReloadCatalog(i)
  <2> DEFINE r == [kind |-> "reload", code |-> Default, user |-> Nobody,
                   label |-> SeedLabel, stated |-> "no", before |-> cache]
             ld == [then |-> "diff", rows |-> Empty]
  <2>1. r \in Request /\ r.kind = "reload" /\ r.stated = "no"
    BY ConstantsAssumption DEF TypeInv, StoreTypes, Request
  <2>2. Start(i, "select", r) /\ load' = [load EXCEPT ![i] = ld] /\ UNCHANGED <<known, extras, loop>>
    BY <1>5 DEF ReloadCatalog
  <2>3. ld \in LoadRec
    BY BlankTypes DEF LoadRec, Thens
  <2> HIDE DEF r, ld
  <2>4. (load \in [Slots -> LoadRec])'
    BY <1>0, <2>2, <2>3
  <2> QED  BY <1>0, <2>1, <2>2, <2>4, StartTypes
<1>6. ASSUME NEW u \in Users, OnUserRegistration(i, u)
      PROVE  TypeInv'
  <2> DEFINE r == Ask("register", Default, u, SeedLabel, "no")
  <2>1. r \in Request /\ r.kind = "register" /\ r.user = u /\ r.stated = "no"
    BY AskTypes, ConstantsAssumption
  <2>2. Start(i, "check", r) /\ known' = known \union {u} /\ UNCHANGED <<extras, load, loop>>
    BY <1>6 DEF OnUserRegistration
  <2> HIDE DEF r
  <2> QED  BY <1>0, <2>1, <2>2, StartTypes
<1> QED  BY <1>1, <1>3, <1>4, <1>5, <1>6 DEF Arrives

(* Steps of a request that touch at most the table and the cache *)
LEMMA StepTypes ==
  ASSUME TypeInv, TaskTypes', AskInv', (table \in Rows)', (cache \in Rows)',
         UNCHANGED <<account, known, shown, granted, serial, counters>>,
         (written \in SUBSET Codes)', (missed \in SUBSET Codes)'
  PROVE  TypeInv'
<1>1. StoreTypes' /\ HistoryTypes'
  BY DEF TypeInv, StoreTypes, HistoryTypes
<1>2. CounterTypes'
  BY DEF TypeInv, CounterTypes, counters
<1> QED  BY <1>1, <1>2 DEF TypeInv

LEMMA WriteTypes ==
  ASSUME NEW i \in Slots, TypeInv, NEW row \in Labels \union {NoRow}, Write(i, row)
  PROVE  (table \in Rows)'
<1>1. table \in Rows
  BY DEF TypeInv, StoreTypes
<1> QED  BY <1>1 DEF Write, Rows

LEMMA RunsTypes ==
  ASSUME NEW i \in Slots, TypeInv, SetOnly, Runs(i)
  PROVE  TypeInv'
<1>0. /\ TaskTypes /\ AskInv /\ table \in Rows /\ cache \in Rows
      /\ written \in SUBSET Codes /\ missed \in SUBSET Codes
      /\ load \in [Slots -> LoadRec] /\ loop \in [Slots -> LoopRec] /\ msg \in [Slots -> MsgRec]
      /\ req[i] \in Request /\ account \in [Users -> Account]
  BY DEF TypeInv, StoreTypes, TaskTypes, HistoryTypes
<1>a. load[i].rows \in Rows /\ load[i].then \in Thens
      /\ loop[i].todo \in SUBSET Codes /\ loop[i].bearers \in SUBSET Users
      /\ req[i].code \in Codes /\ req[i].label \in Labels
  BY <1>0 DEF LoadRec, LoopRec, Request
<1>b. "idle" \in Thens /\ "check" \in Thens /\ "view" \in Thens /\ "bearers" \in Thens
  BY DEF Thens
<1>c. \A c : UsersWithRole(c) \in SUBSET Users
  BY DEF UsersWithRole
<1>1. CASE Seed(i)
  <2>1. (table \in Rows)'
    BY <1>1, <1>0, ConstantsAssumption DEF Seed, Rows
  <2>2. TaskTypes' /\ AskInv'
    <3>1. Goes(i, "check") /\ "check" \in Pcs \ {"put"} /\ UNCHANGED <<req, locals>>
      BY <1>1 DEF Seed, Pcs
    <3> QED  BY <3>1, <1>0, MoveTypes DEF locals
  <2> QED  BY <1>1, <1>0, <2>1, <2>2, StepTypes DEF Seed, history
<1>2. CASE Check(i)
  <2>1. TaskTypes' /\ AskInv'
    <3>1. CASE Reload(i, "check") /\ UNCHANGED <<req, extras, loop, msg>>
      BY <3>1, <1>0, <1>b, ReloadTypes
    <3>2. CASE Checked(i, cache)
      BY <3>2, <1>0, CheckedTypes
    <3> QED  BY <1>2, <3>1, <3>2 DEF Check
  <2> QED  BY <1>2, <1>0, <2>1, StepTypes DEF Check, stored, history
<1>3. CASE Add(i)
  <2>1. TaskTypes' /\ AskInv' /\ (table \in Rows)'
    <3>1. CASE Done(i) /\ UNCHANGED table
      BY <3>1, <1>0, DoneTypes
    <3>2. CASE /\ Write(i, req[i].label) /\ Reload(i, "idle")
               /\ UNCHANGED <<req, extras, loop, msg>>
      BY <3>2, <1>0, <1>a, <1>b, ReloadTypes, WriteTypes
    <3> QED  BY <1>3, <3>1, <3>2 DEF Add
  <2> QED  BY <1>3, <1>0, <2>1, StepTypes DEF Add, history
<1>4. CASE Patch(i)
  <2>1. TaskTypes' /\ AskInv' /\ (table \in Rows)'
    <3>1. CASE Done(i) /\ UNCHANGED table
      BY <3>1, <1>0, DoneTypes
    <3>2. CASE /\ Write(i, req[i].label) /\ Reload(i, "bearers")
               /\ loop' = [loop EXCEPT ![i] = [todo |-> {req[i].code}, bearers |-> {}]]
               /\ UNCHANGED <<req, extras, msg>>
      <4>1. [todo |-> {req[i].code}, bearers |-> {}] \in LoopRec
        BY <1>a DEF LoopRec
      <4>2. (loop \in [Slots -> LoopRec])'
        BY <4>1, <3>2, <1>0
      <4> QED  BY <3>2, <4>2, <1>0, <1>a, <1>b, ReloadTypes, WriteTypes
    <3> QED  BY <1>4, <3>1, <3>2 DEF Patch
  <2> QED  BY <1>4, <1>0, <2>1, StepTypes DEF Patch, history
<1>5. CASE FindHolders(i)
  <2>1. TaskTypes' /\ AskInv'
    <3>1. CASE Done(i)
      BY <3>1, <1>0, DoneTypes
    <3>2. CASE Goes(i, "delete") /\ UNCHANGED <<req, locals>>
      <4>1. "delete" \in Pcs \ {"put"}
        BY DEF Pcs
      <4> QED  BY <3>2, <4>1, <1>0, MoveTypes DEF locals
    <3> QED  BY <1>5, <3>1, <3>2 DEF FindHolders
  <2> QED  BY <1>5, <1>0, <2>1, StepTypes DEF FindHolders, stored, history
<1>6. CASE Delete(i)
  <2>1. TaskTypes' /\ AskInv' /\ (table \in Rows)'
    <3>1. CASE Done(i) /\ UNCHANGED table
      BY <3>1, <1>0, DoneTypes
    <3>2. CASE /\ Write(i, NoRow) /\ Reload(i, "idle")
               /\ UNCHANGED <<req, extras, loop, msg>>
      BY <3>2, <1>0, <1>a, <1>b, ReloadTypes, WriteTypes
    <3> QED  BY <1>6, <3>1, <3>2 DEF Delete
  <2> QED  BY <1>6, <1>0, <2>1, StepTypes DEF Delete, history
<1>7. CASE SelectRows(i)
  <2> DEFINE ld == [then |-> load[i].then, rows |-> table]
  <2>1. ld \in LoadRec
    BY <1>0, <1>a DEF LoadRec
  <2>2. load' = [load EXCEPT ![i] = ld] /\ Goes(i, "assign") /\ "assign" \in Pcs \ {"put"}
        /\ UNCHANGED <<req, extras, loop, msg>>
    BY <1>7 DEF SelectRows, Pcs
  <2> HIDE DEF ld
  <2>3. (load \in [Slots -> LoadRec])'
    BY <2>1, <2>2, <1>0
  <2>4. TaskTypes' /\ AskInv'
    BY <2>2, <2>3, <1>0, MoveTypes
  <2> QED  BY <1>7, <1>0, <2>4, StepTypes DEF SelectRows, stored, history
<1>8. CASE AssignCache(i)
  <2>1. TaskTypes' /\ AskInv'
    <3>1. CASE Done(i)
      BY <3>1, <1>0, DoneTypes
    <3>2. CASE Checked(i, load[i].rows)
      BY <3>2, <1>0, <1>a, CheckedTypes
    <3>3. CASE Viewed(i, load[i].rows)
      BY <3>3, <1>0, <1>a, ViewedTypes
    <3>4. CASE Goes(i, "bearers") /\ UNCHANGED <<req, locals>>
      <4>1. "bearers" \in Pcs \ {"put"}
        BY DEF Pcs
      <4> QED  BY <3>4, <4>1, <1>0, MoveTypes DEF locals
    <3>5. CASE NextBroadcast(i, Changed(req[i].before, load[i].rows), {})
      <4>1. Changed(req[i].before, load[i].rows) \in SUBSET Codes
        BY DEF Changed
      <4> QED  BY <3>5, <4>1, <1>0, NextBroadcastTypes
    <3> QED  BY <1>8, <3>1, <3>2, <3>3, <3>4, <3>5 DEF AssignCache
  <2>2. (written \in SUBSET Codes)' /\ (missed \in SUBSET Codes)'
    BY <1>8, <1>0 DEF AssignCache, Loaded
  <2> QED  BY <1>8, <1>0, <1>a, <2>1, <2>2, StepTypes DEF AssignCache, stored
<1>9. CASE FindBearers(i)
  <2>1. PICK c \in loop[i].todo : NextBroadcast(i, loop[i].todo \ {c}, UsersWithRole(c))
    BY <1>9 DEF FindBearers
  <2>2. loop[i].todo \ {c} \in SUBSET Codes
    BY <1>a
  <2>3. TaskTypes' /\ AskInv'
    BY <2>1, <2>2, <1>0, <1>c, NextBroadcastTypes
  <2> QED  BY <1>9, <1>0, <2>3, StepTypes DEF FindBearers, stored, history
<1>10. CASE ReadRole(i)
  <2>1. PICK u \in loop[i].bearers :
          /\ msg' = [msg EXCEPT ![i] = [user |-> u, data |-> account[u], view |-> NoView]]
          /\ loop' = [loop EXCEPT ![i] = [todo |-> loop[i].todo, bearers |-> loop[i].bearers \ {u}]]
    BY <1>10 DEF ReadRole
  <2>2. [user |-> u, data |-> account[u], view |-> NoView] \in MsgRec
    BY <1>0, <1>a DEF MsgRec, View
  <2>3. [todo |-> loop[i].todo, bearers |-> loop[i].bearers \ {u}] \in LoopRec
    BY <1>a DEF LoopRec
  <2>4. (msg \in [Slots -> MsgRec])' /\ (loop \in [Slots -> LoopRec])'
    BY <2>1, <2>2, <2>3, <1>0
  <2>5. /\ Goes(i, "view") /\ "view" \in Pcs \ {"put"}
        /\ UNCHANGED <<req, extras, load>>
    BY <1>10 DEF ReadRole, Pcs
  <2>6. TaskTypes' /\ AskInv'
    BY <2>4, <2>5, <1>0, MoveTypes
  <2> QED  BY <1>10, <1>0, <2>6, StepTypes DEF ReadRole, stored, history
<1>11. CASE MakeView(i)
  <2>1. TaskTypes' /\ AskInv'
    <3>1. CASE Reload(i, "view") /\ UNCHANGED <<req, extras, loop, msg>>
      BY <3>1, <1>0, <1>b, ReloadTypes
    <3>2. CASE Viewed(i, cache)
      BY <3>2, <1>0, ViewedTypes
    <3> QED  BY <1>11, <3>1, <3>2 DEF MakeView
  <2> QED  BY <1>11, <1>0, <2>1, StepTypes DEF MakeView, stored, history
<1>12. CASE SendToDevice(i)
  <2>1. TaskTypes' /\ AskInv'
    BY <1>12, <1>0, <1>a, NextBroadcastTypes DEF SendToDevice
  <2>2. msg[i].view \in View
    BY <1>0 DEF MsgRec
  <2>3. StoreTypes'
    BY <1>12, <2>2 DEF SendToDevice, TypeInv, StoreTypes
  <2>4. HistoryTypes' /\ CounterTypes'
    BY <1>12 DEF SendToDevice, TypeInv, HistoryTypes, CounterTypes, history, counters
  <2> QED  BY <2>1, <2>3, <2>4 DEF TypeInv
<1>13. CASE ReadStored(i)
  <2> DEFINE kept == Kept(account[req[i].user], req[i].code)
  <2>1. pc[i] = "stored" /\ extras' = [extras EXCEPT ![i] = kept] /\ Goes(i, "put")
        /\ UNCHANGED <<req, load, loop, msg>>
    BY <1>13 DEF ReadStored, At
  <2>2. account[req[i].user] \in Account
    BY <1>0, <2>1 DEF SetOnly
  <2>3. kept \in SUBSET Codes /\ Admin \notin kept
    BY <2>2 DEF Kept, Account, Extras
  <2> HIDE DEF kept
  <2>4. TaskTypes'
    BY <1>0, <2>1, <2>3 DEF TaskTypes, Goes, Pcs
  <2>5. AskInv'
    BY <1>0, <2>1, <2>3 DEF TaskTypes, AskInv, Goes
  <2> QED  BY <1>13, <1>0, <2>4, <2>5, StepTypes DEF ReadStored, stored, history
<1>14. CASE PutRole(i)
  <2> DEFINE r == req[i]
             data == [role |-> r.code, extras |-> extras[i]]
             lp == [todo |-> {}, bearers |-> {r.user}]
  <2>1. /\ pc[i] = "put" /\ account' = [account EXCEPT ![r.user] = data]
        /\ granted' = IF r.stated = "yes" THEN granted \union ({r.user} \X {r.code} \X extras[i])
                      ELSE granted
        /\ UNCHANGED <<table, known, shown, cache, written, missed, serial, counters>>
    BY <1>14 DEF PutRole, At
  <2>2. \/ r.kind = "register" /\ Goes(i, "idle") /\ req' = [req EXCEPT ![i] = NoReq]
           /\ UNCHANGED <<extras, load, loop, msg>>
        \/ r.kind = "set" /\ Goes(i, "account") /\ loop' = [loop EXCEPT ![i] = lp]
           /\ UNCHANGED <<req, extras, load, msg>>
    BY <1>14 DEF PutRole
  <2>3. r.user \in Users
    BY <1>0, <2>2 DEF AskInv
  <2>4. extras[i] \in Extras
    BY <1>0, <2>1 DEF TaskTypes, AskInv, Extras
  <2>5. data \in Account
    BY <1>a, <2>4 DEF Account
  <2>6. lp \in LoopRec
    BY <2>3 DEF LoopRec
  <2>7. (granted \in SUBSET (Users \X Codes \X Codes))'
    BY <2>1, <2>3, <2>4, <1>a DEF TypeInv, HistoryTypes, Extras
  <2> HIDE DEF data, lp
  <2>8. StoreTypes'
    BY <2>1, <2>5 DEF TypeInv, StoreTypes
  <2>9. TaskTypes'
    BY <1>0, <2>1, <2>2, <2>3, <2>6, BlankTypes DEF TaskTypes, Goes, Pcs
  <2>10. AskInv'
    BY <1>0, <2>2, BlankKinds DEF TaskTypes, AskInv, Goes
  <2>11. HistoryTypes' /\ CounterTypes'
    BY <2>1, <2>7 DEF TypeInv, HistoryTypes, CounterTypes, counters
  <2> QED  BY <2>8, <2>9, <2>10, <2>11 DEF TypeInv
<1> QED
  BY <1>1, <1>2, <1>3, <1>4, <1>5, <1>6, <1>7, <1>8, <1>9, <1>10, <1>11, <1>12, <1>13, <1>14
  DEF Runs

LEMMA FailTypes ==
  ASSUME NEW i \in Slots, TypeInv, Fail(i)
  PROVE  TypeInv'
<1>0. TaskTypes /\ AskInv /\ loop[i] \in LoopRec
  BY DEF TypeInv, TaskTypes
<1>1. loop[i].todo \in SUBSET Codes
  BY <1>0 DEF LoopRec
<1>2. TaskTypes' /\ AskInv'
  <2>1. CASE Done(i)
    BY <2>1, <1>0, DoneTypes
  <2>2. CASE NextBroadcast(i, loop[i].todo, {})
    BY <2>2, <1>0, <1>1, NextBroadcastTypes
  <2>3. ASSUME NEW c \in loop[i].todo, NextBroadcast(i, loop[i].todo \ {c}, {})
        PROVE  TaskTypes' /\ AskInv'
    <3>1. loop[i].todo \ {c} \in SUBSET Codes
      BY <1>1
    <3> QED  BY <2>3, <3>1, <1>0, NextBroadcastTypes
  <2> QED  BY <2>1, <2>2, <2>3 DEF Fail
<1>3. StoreTypes' /\ HistoryTypes'
  BY DEF Fail, TypeInv, StoreTypes, HistoryTypes, stored
<1>4. CounterTypes'
  <2>1. bound.faults \in Nat
    BY ConstantsAssumption DEF TypeInv, CounterTypes
  <2> QED  BY <2>1 DEF Fail, TypeInv, CounterTypes
<1> QED  BY <1>2, <1>3, <1>4 DEF TypeInv

LEMMA RestartTypes ==
  ASSUME NEW i \in Slots, TypeInv, Restart(i)
  PROVE  TypeInv'
<1>1. StoreTypes' /\ HistoryTypes'
  BY BlankTypes DEF Restart, TypeInv, StoreTypes, HistoryTypes, stored
<1>2. TaskTypes'
  BY BlankTypes DEF Restart, TaskTypes, Pcs
<1>3. AskInv'
  BY BlankKinds DEF Restart, AskInv
<1>4. CounterTypes'
  <2>1. bound.restarts \in Nat
    BY ConstantsAssumption DEF TypeInv, CounterTypes
  <2> QED  BY <2>1 DEF Restart, TypeInv, CounterTypes
<1> QED  BY <1>1, <1>2, <1>3, <1>4 DEF TypeInv

LEMMA SqlWriteTypes ==
  ASSUME NEW c \in Codes, NEW l \in Labels, TypeInv, SqlWrite(c, l)
  PROVE  TypeInv'
<1>1. StoreTypes'
  BY DEF SqlWrite, TypeInv, StoreTypes, Rows
<1>2. TaskTypes' /\ AskInv'
  BY DEF SqlWrite, TypeInv, TaskTypes, AskInv, task, locals
<1>3. HistoryTypes'
  BY DEF SqlWrite, TypeInv, HistoryTypes
<1>4. CounterTypes'
  <2>1. bound.writes \in Nat
    BY ConstantsAssumption DEF TypeInv, CounterTypes
  <2> QED  BY <2>1 DEF SqlWrite, TypeInv, CounterTypes
<1> QED  BY <1>1, <1>2, <1>3, <1>4 DEF TypeInv

LEMMA NextTypes == Inv /\ TypeInv /\ [Next]_vars => TypeInv'
<1> SUFFICES ASSUME Inv, TypeInv, [Next]_vars PROVE TypeInv'
  OBVIOUS
<1>1. SetOnly
  BY DEF Inv, ExtrasInv
<1>2. CASE UNCHANGED vars
  BY <1>2 DEF TypeInv, StoreTypes, TaskTypes, AskInv, HistoryTypes, CounterTypes,
              vars, stored, task, locals, history, counters
<1>3. CASE Next
  BY <1>1, <1>3, ArrivesTypes, RunsTypes, FailTypes, RestartTypes, SqlWriteTypes DEF Next
<1> QED  BY <1>2, <1>3

(* Catalogue, cache, accounts, announcements and requests have their       *)
(* types; ADMIN is never an extra role of anybody (UserRoleHandler.set     *)
(* refuses it, and what it keeps was stored without it).                   *)
THEOREM TypeCorrect == Spec => []TypeOK
<1>1. TypeInv => TypeOK
  BY TypeSplit DEF TypeInv
<1> QED  BY <1>1, InitInv, NextInv, InitTypes, NextTypes, PTL DEF Spec

-----------------------------------------------------------------------------
(***************************************************************************)
(* Requests one after the other                                            *)
(*                                                                         *)
(* While serial is "yes" at most one slot is busy, so the invariant speaks *)
(* of that slot alone: what its request knows of the table, which clients  *)
(* it still owes an announcement, and that all others have been told of    *)
(* the role as it is.  The cache differs from the table only during a load *)
(* and in rows written directly; a client whose role was written directly  *)
(* has been told what the cache says of it, unless another load has hidden *)
(* the change.                                                             *)
(***************************************************************************)

(* A slot without a request *)
Rest(j) == pc[j] = "idle" /\ req[j].kind = "none" /\ loop[j].todo = {} /\ loop[j].bearers = {}

Boots(i)      == req[i].kind = "bootstrap"
Loading(i)    == pc[i] \in {"select", "assign"}
Loads(i, l)   == Loading(i) /\ load[i].then = l
Announcing(i) == pc[i] \in {"view", "send"} \/ Loads(i, "view")
Telling(i)    == pc[i] \in {"bearers", "account"} \/ Announcing(i) \/ Loads(i, "bearers")

HasRow(u) == account[u] # NoRole /\ table[account[u].role] # NoRow

(* What the request in slot i has seen is still so. *)
KindInv(i) ==
  /\ pc[i] = "idle" => Rest(i)
  /\ pc[i] = "seed" => Boots(i)
  /\ Boots(i) => cache = Empty /\ (pc[i] \in {"seed", "check"} \/ Loads(i, "check"))
  /\ pc[i] \in {"stored", "put"} /\ req[i].kind = "set" => table[req[i].code] # NoRow
  /\ req[i].kind = "register" => account[req[i].user] = NoRole /\ req[i].code = Default
  /\ req[i].kind \in {"set", "register"} => req[i].user \in known
  /\ pc[i] = "delete" => UsersWithRole(req[i].code) = {}
  /\ Loads(i, "diff") => req[i].before = cache /\ ~Boots(i)
  /\ pc[i] = "assign" => load[i].rows = table

(* The cache is the table but for direct writes, which never delete. *)
Fresh ==
  /\ \A c \in Codes \ written : cache[c] = table[c]
  /\ \A c \in written : table[c] # NoRow

CacheInv(i) == ~Boots(i) /\ ~Loading(i) => Fresh

(* Nobody has lost the row of a role that clients were told of or that set *)
(* has looked up.                                                          *)
BearerInv ==
  \A u \in Users :
    /\ shown[u] # Unsent => HasRow(u)
    /\ account[u] # NoRole /\ account[u].role # Default => HasRow(u)
    /\ account[u] # NoRole => u \in known

(* The announcements that the request will make *)
LoopInv(i) ==
  /\ ~Telling(i) => loop[i].todo = {} /\ loop[i].bearers = {}
  /\ pc[i] = "bearers" \/ Loads(i, "bearers") => loop[i].bearers = {}
  /\ \A c \in loop[i].todo : table[c] # NoRow
  /\ \A u \in loop[i].bearers : HasRow(u)
  /\ Announcing(i) => /\ msg[i].user \in Users /\ HasRow(msg[i].user)
                      /\ msg[i].data = account[msg[i].user]
  /\ pc[i] = "send" => msg[i].view = Enrich(account[msg[i].user], cache)

Owed(i, u) ==
  \/ u \in loop[i].bearers
  \/ account[u].role \in loop[i].todo
  \/ Announcing(i) /\ u = msg[i].user

ToldTable(u) == account[u].role \notin missed \union written => shown[u] = Enrich(account[u], table)

ToldCache(u) ==
  account[u].role \notin missed /\ account[u].role \in written => shown[u] = Enrich(account[u], cache)

ViewInv(i) ==
  \A u \in Users : shown[u] # Unsent /\ ~Owed(i, u) => ToldTable(u) /\ (~Boots(i) => ToldCache(u))

SerialAt(i) == KindInv(i) /\ CacheInv(i) /\ BearerInv /\ LoopInv(i) /\ ViewInv(i)

SerialInv ==
  serial = "yes" => \E i \in Slots : (\A j \in Slots \ {i} : Rest(j)) /\ SerialAt(i)

(* Between two requests *)
AllTold == \A u \in Users : shown[u] # Unsent => ToldTable(u) /\ ToldCache(u)

Settled == Fresh /\ BearerInv /\ AllTold

LEMMA EnrichSame ==
  ASSUME NEW data, NEW rows, NEW rows2, rows[data.role] = rows2[data.role]
  PROVE  Enrich(data, rows) = Enrich(data, rows2)
BY DEF Enrich

LEMMA SettledSame ==
  ASSUME Settled, UNCHANGED <<table, cache, account, known, shown, written, missed>>
  PROVE  Settled'
BY DEF Settled, Fresh, BearerInv, AllTold, HasRow, ToldTable, ToldCache

LEMMA RestSettles ==
  ASSUME NEW i \in Slots, SerialAt(i), ~Boots(i), ~Loading(i), ~Telling(i)
  PROVE  Settled
BY DEF SerialAt, CacheInv, LoopInv, ViewInv, Owed, Telling, Settled, AllTold

LEMMA DoneRests ==
  ASSUME NEW i \in Slots, TaskTypes, Done(i)
  PROVE  Rest(i)'
BY BlankKinds DEF TaskTypes, Done, Goes, Rest, NoLoop

LEMMA DoneSerial ==
  ASSUME NEW i \in Slots, TaskTypes, Done(i), Settled'
  PROVE  SerialAt(i)'
<1>1. Rest(i)'
  BY DoneRests
<1>2. KindInv(i)'
  BY <1>1 DEF Rest, KindInv, Boots, Loading, Loads
<1>3. CacheInv(i)' /\ BearerInv'
  BY DEF Settled, CacheInv
<1>4. LoopInv(i)'
  BY <1>1 DEF Rest, LoopInv, Telling, Announcing, Loads, Loading
<1>5. ViewInv(i)'
  BY DEF Settled, AllTold, ViewInv
<1> QED  BY <1>2, <1>3, <1>4, <1>5 DEF SerialAt

LEMMA NextBroadcastSerial ==
  ASSUME NEW i \in Slots, NEW todo \in SUBSET Codes, NEW bearers \in SUBSET Users,
         TaskTypes, KindInv(i), ~Boots(i), NextBroadcast(i, todo, bearers),
         UNCHANGED <<account, known>>, Fresh', BearerInv',
         \A c \in todo : table'[c] # NoRow,
         \A u \in bearers : HasRow(u)',
         \A u \in Users : shown'[u] # Unsent /\ u \notin bearers /\ account[u].role \notin todo
           => ToldTable(u)' /\ ToldCache(u)'
  PROVE  SerialAt(i)'
<1>1. CASE todo = {} /\ bearers = {} /\ Done(i)
  <2>1. AllTold'
    BY <1>1 DEF AllTold
  <2> QED  BY <1>1, <2>1, DoneSerial DEF Settled
<1>2. CASE /\ Goes(i, IF bearers # {} THEN "account" ELSE "bearers")
           /\ loop' = [loop EXCEPT ![i] = [todo |-> todo, bearers |-> bearers]]
           /\ UNCHANGED <<req, extras, load, msg>>
  <2>a. /\ pc'[i] = IF bearers # {} THEN "account" ELSE "bearers"
        /\ loop'[i] = [todo |-> todo, bearers |-> bearers]
    BY <1>2 DEF TaskTypes, Goes
  <2>1. /\ (bearers # {} /\ pc'[i] = "account") \/ (bearers = {} /\ pc'[i] = "bearers")
        /\ loop'[i].todo = todo /\ loop'[i].bearers = bearers
        /\ req' = req
    BY <1>2, <2>a
  <2>2. KindInv(i)'
    BY <2>1 DEF KindInv, Boots, Loading, Loads
  <2>3. CacheInv(i)'
    BY DEF CacheInv
  <2>4. LoopInv(i)'
    BY <2>1 DEF LoopInv, Telling, Announcing, Loads, Loading
  <2>5. ViewInv(i)'
    BY <2>1 DEF ViewInv, Owed
  <2> QED  BY <2>2, <2>3, <2>4, <2>5 DEF SerialAt
<1> QED  BY <1>1, <1>2 DEF NextBroadcast

(* The rows of the cache show no role that the table does not have. *)
LEMMA CheckedSerial ==
  ASSUME NEW i \in Slots, NEW rows, TypeInv, KindInv(i), Checked(i, rows),
         ~Telling(i), LoopInv(i), UNCHANGED <<account, known>>, Settled',
         \A c \in Codes : rows[c] # NoRow => table'[c] # NoRow
  PROVE  SerialAt(i)'
<1>0. TaskTypes /\ req[i].code \in Codes
  BY DEF TypeInv, TaskTypes, Request
<1>1. CASE Done(i)
  BY <1>0, <1>1, DoneSerial
<1>2. CASE /\ ~Boots(i)
           /\ \E l \in {"insert", "stored", "put"} : Goes(i, l)
           /\ UNCHANGED <<req, loop>>
           /\ req[i].kind = "set" => rows[req[i].code] # NoRow
  <2>1. PICK l \in {"insert", "stored", "put"} : pc'[i] = l
    BY <1>0, <1>2 DEF TaskTypes, Goes
  <2>2. KindInv(i)'
    BY <1>0, <1>2, <2>1 DEF KindInv, Boots, Loading, Loads
  <2>3. CacheInv(i)' /\ BearerInv'
    BY DEF Settled, CacheInv
  <2>4. LoopInv(i)'
    BY <1>2, <2>1 DEF LoopInv, Telling, Announcing, Loads, Loading
  <2>5. ViewInv(i)'
    BY DEF Settled, AllTold, ViewInv
  <2> QED  BY <2>2, <2>3, <2>4, <2>5 DEF SerialAt
<1> QED  BY <1>1, <1>2 DEF Checked, CheckSet, Boots, locals

LEMMA ViewedSerial ==
  ASSUME NEW i \in Slots, NEW rows, TypeInv, KindInv(i), ~Boots(i), LoopInv(i), Announcing(i),
         Viewed(i, rows), cache' = rows,
         UNCHANGED <<account, known, shown, table>>, Fresh', BearerInv',
         \A u \in Users : shown[u] # Unsent /\ ~Owed(i, u) => ToldTable(u)' /\ ToldCache(u)'
  PROVE  SerialAt(i)'
<1>1. /\ pc'[i] = "send" /\ UNCHANGED <<req, loop, load>>
      /\ msg'[i] = [user |-> msg[i].user, data |-> msg[i].data, view |-> Enrich(msg[i].data, rows)]
  BY DEF Viewed, Goes, TypeInv, TaskTypes
<1>2. /\ msg'[i].user = msg[i].user /\ msg'[i].data = msg[i].data
      /\ msg'[i].view = Enrich(msg[i].data, rows)
  BY <1>1
<1>3. KindInv(i)'
  BY <1>1 DEF KindInv, Boots, Loading, Loads
<1>4. CacheInv(i)'
  BY DEF CacheInv
<1>5. LoopInv(i)'
  <2>1. \A u : HasRow(u)' <=> HasRow(u)
    BY DEF HasRow
  <2> QED  BY <1>1, <1>2, <2>1 DEF LoopInv, Telling, Announcing, Loads, Loading
<1>6. ViewInv(i)'
  <2>1. \A u : Owed(i, u)' <=> Owed(i, u)
    BY <1>1, <1>2 DEF Owed, Announcing
  <2> QED  BY <2>1 DEF ViewInv
<1> QED  BY <1>3, <1>4, <1>5, <1>6 DEF SerialAt

(* A load begins. *)
LEMMA ReloadSerial ==
  ASSUME NEW i \in Slots, NEW l \in Thens \ {"diff"}, TypeInv, KindInv(i), Reload(i, l),
         UNCHANGED <<req, cache, account, known>>, BearerInv',
         Boots(i) => l = "check",
         l \notin {"view", "bearers"} => loop'[i].todo = {} /\ loop'[i].bearers = {},
         l = "bearers" => loop'[i].bearers = {},
         \A c \in loop'[i].todo : table'[c] # NoRow,
         \A u \in loop'[i].bearers : HasRow(u)',
         l = "view" => /\ msg'[i].user \in Users /\ HasRow(msg[i].user)'
                       /\ msg'[i].data = account[msg'[i].user],
         \A u \in Users : shown'[u] # Unsent /\ u \notin loop'[i].bearers
             /\ account[u].role \notin loop'[i].todo /\ ~(l = "view" /\ u = msg'[i].user)
           => ToldTable(u)' /\ (~Boots(i) => ToldCache(u)')
  PROVE  SerialAt(i)'
<1>1. pc'[i] = "select" /\ load'[i].then = l
  BY DEF Reload, Goes, TypeInv, TaskTypes
<1>2. KindInv(i)'
  BY <1>1 DEF KindInv, Boots, Loading, Loads, Thens
<1>3. CacheInv(i)'
  BY <1>1 DEF CacheInv, Loading
<1>4. LoopInv(i)'
  BY <1>1 DEF LoopInv, Telling, Announcing, Loads, Loading
<1>5. ViewInv(i)'
  BY <1>1 DEF ViewInv, Owed, Announcing, Loads, Loading, Boots
<1> QED  BY <1>2, <1>3, <1>4, <1>5 DEF SerialAt

(* ensure_schema adds rows for codes that nobody was told of. *)
LEMMA SeedSerial ==
  ASSUME NEW i \in Slots, TypeInv, SerialAt(i), Seed(i)
  PROVE  SerialAt(i)'
<1>1. /\ pc[i] = "seed" /\ pc'[i] = "check"
      /\ UNCHANGED <<account, known, shown, cache, written, missed, req, load, loop, msg>>
      /\ \A c \in Codes : table[c] # NoRow => table'[c] = table[c]
  BY DEF Seed, At, Goes, TypeInv, TaskTypes, locals, history
<1>2. Boots(i) /\ ~Telling(i)
  BY <1>1 DEF SerialAt, KindInv, Telling, Announcing, Loads, Loading
<1>3. \A u \in Users : account[u] # NoRole => account[u].role \in Codes
  BY DEF TypeInv, StoreTypes, Account
<1>4. \A u \in Users : HasRow(u) => HasRow(u)' /\ table'[account[u].role] = table[account[u].role]
  BY <1>1, <1>3 DEF HasRow
<1>5. KindInv(i)'
  BY <1>1, <1>2 DEF SerialAt, KindInv, Boots, Loading, Loads
<1>6. CacheInv(i)'
  BY <1>1, <1>2 DEF CacheInv, Boots
<1>7. BearerInv'
  BY <1>1, <1>4 DEF SerialAt, BearerInv
<1>8. LoopInv(i)'
  BY <1>1, <1>2 DEF SerialAt, LoopInv, Telling, Announcing, Loads, Loading
<1>9. ViewInv(i)'
  <2> SUFFICES ASSUME NEW u \in Users, shown[u] # Unsent, account[u].role \notin missed \union written
               PROVE  shown[u] = Enrich(account[u], table')
    BY <1>1, <1>2 DEF ViewInv, ToldTable, Boots
  <2>1. ToldTable(u)
    BY <1>1, <1>2 DEF SerialAt, LoopInv, ViewInv, Owed, Telling
  <2>2. table'[account[u].role] = table[account[u].role]
    BY <1>4 DEF SerialAt, BearerInv
  <2> QED  BY <2>1, <2>2, EnrichSame DEF ToldTable
<1> QED  BY <1>5, <1>6, <1>7, <1>8, <1>9 DEF SerialAt

LEMMA CheckSerial ==
  ASSUME NEW i \in Slots, TypeInv, SerialAt(i), Check(i)
  PROVE  SerialAt(i)'
<1>1. pc[i] = "check" /\ UNCHANGED <<table, account, known, shown, cache, written, missed>>
  BY DEF Check, At, stored, history
<1>2. ~Telling(i) /\ ~Loading(i) /\ KindInv(i) /\ LoopInv(i) /\ BearerInv
  BY <1>1 DEF SerialAt, Telling, Announcing, Loads, Loading
<1>3. BearerInv'
  BY <1>1, <1>2 DEF BearerInv, HasRow
<1>4. CASE Reload(i, "check") /\ UNCHANGED <<req, extras, loop, msg>>
  <2>1. loop'[i].todo = {} /\ loop'[i].bearers = {} /\ "check" \in Thens \ {"diff"}
    BY <1>2, <1>4 DEF LoopInv, Thens
  <2>2. \A u \in Users : shown'[u] # Unsent => ToldTable(u)' /\ (~Boots(i) => ToldCache(u)')
    <3>1. \A u \in Users : shown[u] # Unsent => ToldTable(u) /\ (~Boots(i) => ToldCache(u))
      BY <1>2 DEF SerialAt, LoopInv, ViewInv, Owed, Telling
    <3> QED  BY <1>1, <3>1 DEF ToldTable, ToldCache
  <2> QED  BY <1>1, <1>2, <1>3, <1>4, <2>1, <2>2, ReloadSerial
<1>5. CASE cache # Empty /\ Checked(i, cache)
  <2>1. ~Boots(i)
    BY <1>2, <1>5 DEF KindInv
  <2>2. Settled
    BY <1>2, <2>1, RestSettles
  <2>3. Settled'
    BY <1>1, <2>2, SettledSame
  <2>4. \A c \in Codes : cache[c] # NoRow => table'[c] # NoRow
    BY <1>1, <2>2 DEF Settled, Fresh
  <2> QED  BY <1>1, <1>2, <1>5, <2>3, <2>4, CheckedSerial
<1> QED  BY <1>4, <1>5 DEF Check

(* Which steps of add, patch and delete write, and what *)
LEMMA ResponseSerial ==
  ASSUME NEW i \in Slots, TypeInv, SerialAt(i), Done(i),
         pc[i] \in {"insert", "patch", "holders", "delete"},
         UNCHANGED <<table, account, known, shown, cache, written, missed>>
  PROVE  SerialAt(i)'
<1>1. ~Boots(i) /\ ~Loading(i) /\ ~Telling(i)
  BY DEF SerialAt, KindInv, Telling, Announcing, Loads, Loading
<1>2. Settled'
  BY <1>1, RestSettles, SettledSame
<1> QED  BY <1>2, DoneSerial DEF TypeInv

LEMMA WrittenRow ==
  ASSUME NEW i \in Slots, TypeInv, SerialAt(i), NEW row, Write(i, row), row # NoRow \/ pc[i] = "delete",
         pc[i] \in {"insert", "patch", "delete"},
         UNCHANGED <<account, known, shown, cache, written, missed>>
  PROVE  /\ ~Boots(i) /\ ~Loading(i) /\ ~Telling(i) /\ Settled
         /\ BearerInv'
         /\ table'[req[i].code] = row
         /\ \A u \in Users : shown'[u] # Unsent /\ account[u].role # req[i].code
              => ToldTable(u)' /\ ToldCache(u)'
         /\ row = NoRow => \A u \in Users : shown'[u] # Unsent => account[u].role # req[i].code
<1>1. ~Boots(i) /\ ~Loading(i) /\ ~Telling(i)
  BY DEF SerialAt, KindInv, Telling, Announcing, Loads, Loading
<1>2. Settled
  BY <1>1, RestSettles
<1>3. /\ table'[req[i].code] = row
      /\ \A c \in Codes : c # req[i].code => table'[c] = table[c]
  BY DEF Write, TypeInv, StoreTypes, TaskTypes, Request, Rows
<1>4. \A u \in Users : account[u] # NoRole => account[u].role \in Codes
  BY DEF TypeInv, StoreTypes, Account
<1>5. pc[i] = "delete" => \A u \in Users : account[u] # NoRole => account[u].role # req[i].code
  BY DEF SerialAt, KindInv, UsersWithRole
<1>6. BearerInv'
  BY <1>2, <1>3, <1>4, <1>5 DEF Settled, BearerInv, HasRow
<1>7. ASSUME NEW u \in Users, shown[u] # Unsent, account[u].role # req[i].code
      PROVE  ToldTable(u)' /\ ToldCache(u)'
  <2>1. account[u].role \in Codes
    BY <1>2, <1>4, <1>7 DEF Settled, BearerInv, HasRow
  <2>2. table'[account[u].role] = table[account[u].role]
    BY <1>3, <1>7, <2>1
  <2>3. Enrich(account[u], table') = Enrich(account[u], table)
    BY <2>2, EnrichSame
  <2>4. ToldTable(u) /\ ToldCache(u)
    BY <1>2, <1>7 DEF Settled, AllTold
  <2> QED  BY <2>3, <2>4 DEF ToldTable, ToldCache
<1>8. row = NoRow => \A u \in Users : shown'[u] # Unsent => account[u].role # req[i].code
  BY <1>2, <1>5 DEF Settled, BearerInv, HasRow
<1> QED  BY <1>1, <1>2, <1>3, <1>6, <1>7, <1>8

LEMMA AddSerial ==
  ASSUME NEW i \in Slots, TypeInv, SerialAt(i), Add(i)
  PROVE  SerialAt(i)'
<1>1. pc[i] = "insert" /\ UNCHANGED <<account, known, shown, cache, written, missed>>
  BY DEF Add, At, history
<1>2. CASE Done(i) /\ UNCHANGED table
  BY <1>1, <1>2, ResponseSerial
<1>3. CASE /\ table[req[i].code] = NoRow /\ Write(i, req[i].label) /\ Reload(i, "idle")
           /\ UNCHANGED <<req, extras, loop, msg>>
  <2>1. req[i].label # NoRow
    BY ConstantsAssumption DEF TypeInv, TaskTypes, Request
  <2>2. /\ ~Boots(i) /\ ~Telling(i) /\ Settled /\ BearerInv'
        /\ \A u \in Users : shown'[u] # Unsent /\ account[u].role # req[i].code
             => ToldTable(u)' /\ ToldCache(u)'
    BY <1>1, <1>3, <2>1, WrittenRow
  <2>3. \A u \in Users : shown'[u] # Unsent => account[u].role # req[i].code
    BY <1>1, <1>3, <2>2 DEF Settled, BearerInv, HasRow
  <2>4. loop'[i].todo = {} /\ loop'[i].bearers = {} /\ "idle" \in Thens \ {"diff"} /\ KindInv(i)
    BY <1>3, <2>2 DEF SerialAt, LoopInv, Thens
  <2> QED  BY <1>1, <1>3, <2>2, <2>3, <2>4, ReloadSerial
<1> QED  BY <1>2, <1>3 DEF Add

LEMMA PatchSerial ==
  ASSUME NEW i \in Slots, TypeInv, SerialAt(i), Patch(i)
  PROVE  SerialAt(i)'
<1>1. pc[i] = "patch" /\ UNCHANGED <<account, known, shown, cache, written, missed>>
  BY DEF Patch, At, history
<1>2. CASE Done(i) /\ UNCHANGED table
  BY <1>1, <1>2, ResponseSerial
<1>3. CASE /\ Write(i, req[i].label) /\ Reload(i, "bearers")
           /\ loop' = [loop EXCEPT ![i] = [todo |-> {req[i].code}, bearers |-> {}]]
           /\ UNCHANGED <<req, extras, msg>>
  <2>1. req[i].label # NoRow
    BY ConstantsAssumption DEF TypeInv, TaskTypes, Request
  <2>2. /\ ~Boots(i) /\ BearerInv' /\ table'[req[i].code] # NoRow
        /\ \A u \in Users : shown'[u] # Unsent /\ account[u].role # req[i].code
             => ToldTable(u)' /\ ToldCache(u)'
    BY <1>1, <1>3, <2>1, WrittenRow
  <2>3. loop'[i] = [todo |-> {req[i].code}, bearers |-> {}]
    BY <1>3 DEF TypeInv, TaskTypes
  <2>4. /\ loop'[i].todo = {req[i].code} /\ loop'[i].bearers = {}
        /\ "bearers" \in Thens \ {"diff"} /\ KindInv(i)
    BY <2>3 DEF SerialAt, Thens
  <2> QED  BY <1>1, <1>3, <2>2, <2>4, ReloadSerial
<1> QED  BY <1>2, <1>3 DEF Patch

LEMMA DeleteSerial ==
  ASSUME NEW i \in Slots, TypeInv, SerialAt(i), Delete(i)
  PROVE  SerialAt(i)'
<1>1. pc[i] = "delete" /\ UNCHANGED <<account, known, shown, cache, written, missed>>
  BY DEF Delete, At, history
<1>2. CASE Done(i) /\ UNCHANGED table
  BY <1>1, <1>2, ResponseSerial
<1>3. CASE /\ Write(i, NoRow) /\ Reload(i, "idle")
           /\ UNCHANGED <<req, extras, loop, msg>>
  <2>1. /\ ~Boots(i) /\ ~Telling(i) /\ BearerInv'
        /\ \A u \in Users : shown'[u] # Unsent /\ account[u].role # req[i].code
             => ToldTable(u)' /\ ToldCache(u)'
        /\ \A u \in Users : shown'[u] # Unsent => account[u].role # req[i].code
    BY <1>1, <1>3, WrittenRow
  <2>2. loop'[i].todo = {} /\ loop'[i].bearers = {} /\ "idle" \in Thens \ {"diff"} /\ KindInv(i)
    BY <1>3, <2>1 DEF SerialAt, LoopInv, Thens
  <2> QED  BY <1>1, <1>3, <2>1, <2>2, ReloadSerial
<1> QED  BY <1>2, <1>3 DEF Delete

(* From the look for bearers to the deletion, and from the stored extra    *)
(* roles to put_global                                                     *)
LEMMA MoveSerial ==
  ASSUME NEW i \in Slots, TypeInv, SerialAt(i), pc[i] \in {"holders", "stored"},
         \/ pc[i] = "holders" /\ pc'[i] = "delete" /\ UsersWithRole(req[i].code) = {}
         \/ pc[i] = "stored" /\ pc'[i] = "put",
         UNCHANGED <<req, load, loop, msg, table, account, known, shown, cache, written, missed>>
  PROVE  SerialAt(i)'
<1>1. /\ ~Boots(i) /\ ~Loading(i) /\ ~Telling(i)
      /\ ~Boots(i)' /\ ~Loading(i)' /\ ~Telling(i)'
  BY DEF SerialAt, KindInv, Boots, Telling, Announcing, Loads, Loading
<1>2. Settled'
  BY <1>1, RestSettles, SettledSame
<1>3. KindInv(i)'
  BY <1>1 DEF SerialAt, KindInv, Loads, UsersWithRole
<1>4. LoopInv(i)'
  BY <1>1 DEF SerialAt, LoopInv, Loads, Telling
<1>5. CacheInv(i)' /\ BearerInv' /\ ViewInv(i)'
  BY <1>2 DEF Settled, AllTold, CacheInv, ViewInv
<1> QED  BY <1>3, <1>4, <1>5 DEF SerialAt

LEMMA FindHoldersSerial ==
  ASSUME NEW i \in Slots, TypeInv, SerialAt(i), FindHolders(i)
  PROVE  SerialAt(i)'
<1>1. pc[i] = "holders" /\ UNCHANGED <<table, account, known, shown, cache, written, missed>>
  BY DEF FindHolders, At, stored, history
<1>2. CASE Done(i)
  BY <1>1, <1>2, ResponseSerial
<1>3. CASE UsersWithRole(req[i].code) = {} /\ Goes(i, "delete") /\ UNCHANGED <<req, locals>>
  <2>1. pc'[i] = "delete" /\ UNCHANGED <<req, load, loop, msg>>
    BY <1>3 DEF Goes, locals, TypeInv, TaskTypes
  <2> QED  BY <1>1, <1>3, <2>1, MoveSerial
<1> QED  BY <1>2, <1>3 DEF FindHolders

LEMMA ReadStoredSerial ==
  ASSUME NEW i \in Slots, TypeInv, SerialAt(i), ReadStored(i)
  PROVE  SerialAt(i)'
<1>1. /\ pc[i] = "stored" /\ pc'[i] = "put" /\ UNCHANGED <<req, load, loop, msg>>
      /\ UNCHANGED <<table, account, known, shown, cache, written, missed>>
  BY DEF ReadStored, At, Goes, stored, history, TypeInv, TaskTypes
<1> QED  BY <1>1, MoveSerial

LEMMA SelectRowsSerial ==
  ASSUME NEW i \in Slots, TypeInv, SerialAt(i), SelectRows(i)
  PROVE  SerialAt(i)'
<1>1. /\ pc[i] = "select" /\ pc'[i] = "assign" /\ UNCHANGED <<req, loop, msg>>
      /\ UNCHANGED <<table, account, known, shown, cache, written, missed>>
      /\ load'[i] = [then |-> load[i].then, rows |-> table]
  BY DEF SelectRows, At, Goes, stored, history, TypeInv, TaskTypes
<1>2. load'[i].then = load[i].then /\ load'[i].rows = table
  BY <1>1
<1>3. \A l : Loads(i, l)' <=> Loads(i, l)
  BY <1>1, <1>2 DEF Loads, Loading
<1>4. (Announcing(i)' <=> Announcing(i)) /\ (Telling(i)' <=> Telling(i))
  BY <1>1, <1>3 DEF Announcing, Telling
<1>5. \A u : HasRow(u)' <=> HasRow(u)
  BY <1>1 DEF HasRow
<1>6. KindInv(i)'
  BY <1>1, <1>2, <1>3 DEF SerialAt, KindInv, Boots
<1>7. CacheInv(i)' /\ BearerInv'
  BY <1>1, <1>5 DEF SerialAt, CacheInv, BearerInv, Loading
<1>8. LoopInv(i)'
  BY <1>1, <1>3, <1>4, <1>5 DEF SerialAt, LoopInv
<1>9. ViewInv(i)'
  BY <1>1, <1>4 DEF SerialAt, ViewInv, Owed, ToldTable, ToldCache, Boots
<1> QED  BY <1>6, <1>7, <1>8, <1>9 DEF SerialAt

(* _reload_cache: afterwards the cache is the table, and what was written  *)
(* directly is announced or hidden.                                        *)
LEMMA LoadedRows ==
  ASSUME NEW i \in Slots, TypeInv, SerialAt(i), AssignCache(i)
  PROVE  /\ load[i].rows = table /\ cache' = table
         /\ UNCHANGED <<table, account, known, shown>>
         /\ Fresh' /\ BearerInv'
         /\ \A u \in Users : ToldCache(u)'
<1>1. pc[i] = "assign" /\ cache' = load[i].rows /\ written' = {}
      /\ UNCHANGED <<table, account, known, shown>>
  BY DEF AssignCache, At, Loaded, stored
<1>2. load[i].rows = table
  BY <1>1 DEF SerialAt, KindInv
<1>3. Fresh'
  BY <1>1, <1>2 DEF Fresh
<1>4. BearerInv'
  BY <1>1 DEF SerialAt, BearerInv, HasRow
<1>5. \A u \in Users : ToldCache(u)'
  BY <1>1 DEF ToldCache
<1> QED  BY <1>1, <1>2, <1>3, <1>4, <1>5

(* Every load but that of the reload handler *)
LEMMA OtherLoadTold ==
  ASSUME NEW i \in Slots, TypeInv, SerialAt(i), AssignCache(i), load[i].then # "diff",
         NEW u \in Users, shown[u] # Unsent, ~Owed(i, u)
  PROVE  ToldTable(u)'
<1>1. /\ written' = {} /\ missed' = (missed \union written) \ loop[i].todo
      /\ UNCHANGED <<table, account, shown>>
  BY DEF AssignCache, Loaded, stored
<1>2. ToldTable(u) /\ account[u].role \notin loop[i].todo
  BY DEF SerialAt, ViewInv, Owed
<1> QED  BY <1>1, <1>2 DEF ToldTable

LEMMA DiffTold ==
  ASSUME NEW i \in Slots, TypeInv, SerialAt(i), AssignCache(i), load[i].then = "diff",
         NEW u \in Users, shown[u] # Unsent,
         account[u].role \notin Changed(req[i].before, load[i].rows)
  PROVE  ToldTable(u)'
<1>1. /\ pc[i] = "assign" /\ written' = {}
      /\ missed' = missed \ Changed(req[i].before, load[i].rows)
      /\ UNCHANGED <<table, account, shown>>
  BY DEF AssignCache, At, Loaded, stored
<1>2. Loads(i, "diff") /\ ~Telling(i)
  BY <1>1 DEF Loads, Loading, Telling, Announcing
<1>3. req[i].before = cache /\ load[i].rows = table /\ ~Boots(i)
  BY <1>1, <1>2 DEF SerialAt, KindInv
<1>4. HasRow(u) /\ account[u].role \in Codes
  BY DEF SerialAt, BearerInv, HasRow, TypeInv, StoreTypes, Account
<1>5. cache[account[u].role] = table[account[u].role]
  BY <1>3, <1>4 DEF Changed, HasRow
<1>6. Enrich(account[u], cache) = Enrich(account[u], table)
  BY <1>5, EnrichSame
<1>7. ToldTable(u) /\ ToldCache(u)
  BY <1>2, <1>3 DEF SerialAt, LoopInv, ViewInv, Owed, Telling
<1> QED  BY <1>1, <1>6, <1>7 DEF ToldTable, ToldCache

LEMMA AssignCacheSerial ==
  ASSUME NEW i \in Slots, TypeInv, SerialAt(i), AssignCache(i)
  PROVE  SerialAt(i)'
<1>1. /\ load[i].rows = table /\ cache' = table
      /\ UNCHANGED <<table, account, known, shown>> /\ Fresh' /\ BearerInv'
      /\ \A u \in Users : ToldCache(u)'
  BY LoadedRows
<1>2. pc[i] = "assign" /\ KindInv(i) /\ LoopInv(i) /\ TaskTypes
  BY DEF AssignCache, At, SerialAt, TypeInv
<1>3. Loads(i, load[i].then)
  BY <1>2 DEF Loads, Loading
<1>4. load[i].then # "diff" => \A u \in Users : shown[u] # Unsent /\ ~Owed(i, u) => ToldTable(u)'
  BY OtherLoadTold
<1>5. ASSUME load[i].then \in {"idle", "check"} PROVE Settled' /\ ~Telling(i)
  <2>1. ~Telling(i)
    BY <1>2, <1>5 DEF Telling, Announcing, Loads
  <2>2. \A u \in Users : ~Owed(i, u)
    BY <1>2, <2>1 DEF LoopInv, Owed, Telling
  <2>3. AllTold'
    BY <1>1, <1>4, <1>5, <2>2 DEF AllTold
  <2> QED  BY <1>1, <2>1, <2>3 DEF Settled
<1>6. CASE load[i].then = "idle" /\ Done(i)
  BY <1>2, <1>5, <1>6, DoneSerial
<1>7. CASE load[i].then = "check" /\ Checked(i, load[i].rows)
  BY <1>1, <1>2, <1>5, <1>7, CheckedSerial
<1>8. CASE load[i].then = "view" /\ Viewed(i, load[i].rows)
  <2>1. Announcing(i) /\ ~Boots(i)
    BY <1>2, <1>3, <1>8 DEF Announcing, KindInv, Loads
  <2> QED  BY <1>1, <1>2, <1>4, <1>8, <2>1, ViewedSerial
<1>9. CASE load[i].then = "bearers" /\ Goes(i, "bearers") /\ UNCHANGED <<req, locals>>
  <2>1. pc'[i] = "bearers" /\ UNCHANGED <<req, load, loop, msg>>
    BY <1>2, <1>9 DEF Goes, locals, TaskTypes
  <2>2. ~Boots(i) /\ loop[i].bearers = {} /\ ~Announcing(i) /\ ~Announcing(i)'
    BY <1>2, <1>3, <1>9, <2>1 DEF KindInv, LoopInv, Loads, Announcing, Loading
  <2>3. KindInv(i)'
    BY <1>1, <1>2, <2>1, <2>2 DEF KindInv, Boots, Loading, Loads
  <2>4. LoopInv(i)'
    BY <1>1, <1>2, <2>1, <2>2 DEF LoopInv, Telling, HasRow
  <2>5. \A u \in Users : Owed(i, u)' <=> Owed(i, u)
    BY <1>1, <2>1, <2>2 DEF Owed
  <2>6. ViewInv(i)'
    BY <1>1, <1>4, <1>9, <2>5 DEF ViewInv
  <2> QED  BY <1>1, <2>3, <2>4, <2>6 DEF SerialAt, CacheInv
<1>10. CASE load[i].then = "diff" /\ NextBroadcast(i, Changed(req[i].before, load[i].rows), {})
  <2> DEFINE todo == Changed(req[i].before, load[i].rows)
  <2>1. todo \in SUBSET Codes /\ \A c \in todo : table'[c] # NoRow
    BY <1>1 DEF Changed
  <2>2. ~Boots(i)
    BY <1>2, <1>3, <1>10 DEF KindInv
  <2>3. \A u \in Users : shown'[u] # Unsent /\ account[u].role \notin todo
          => ToldTable(u)' /\ ToldCache(u)'
    BY <1>1, <1>10, DiffTold
  <2>4. NextBroadcast(i, todo, {})
    BY <1>10
  <2> HIDE DEF todo
  <2> QED  BY <1>1, <1>2, <2>1, <2>2, <2>3, <2>4, NextBroadcastSerial
<1> QED  BY <1>6, <1>7, <1>8, <1>9, <1>10 DEF AssignCache

(* put_global: the user of a set request is owed an announcement; that of  *)
(* a registration had no role, so no client was told of one.               *)
LEMMA PutRoleSerial ==
  ASSUME NEW i \in Slots, TypeInv, SerialAt(i), PutRole(i)
  PROVE  SerialAt(i)'
<1> DEFINE r == req[i]
           data == [role |-> r.code, extras |-> extras[i]]
<1>1. /\ pc[i] = "put" /\ account' = [account EXCEPT ![r.user] = data]
      /\ UNCHANGED <<table, known, shown, cache, written, missed>>
  BY DEF PutRole, At
<1>2. /\ r.kind \in {"set", "register"} /\ r.user \in Users /\ r.user \in known
      /\ account \in [Users -> Account]
  BY <1>1 DEF PutRole, SerialAt, KindInv, TypeInv, AskInv, StoreTypes
<1>3. data # NoRole /\ data.role = r.code
  <2>1. data \in [role: Codes, extras: Extras]
    BY <1>1 DEF TypeInv, AskInv, TaskTypes, Request, Extras
  <2> QED  BY <2>1, ConstantsAssumption
<1> HIDE DEF data
<1>4. /\ account'[r.user] = data
      /\ \A u \in Users : u # r.user => account'[u] = account[u]
  BY <1>1, <1>2
<1>5. ~Boots(i) /\ ~Loading(i) /\ ~Telling(i)
  BY <1>1 DEF SerialAt, KindInv, Telling, Announcing, Loads, Loading
<1>6. Settled
  BY <1>5, RestSettles
<1>7. Fresh'
  BY <1>1, <1>6 DEF Settled, Fresh
<1>8. \A u \in Users : u # r.user => (HasRow(u)' <=> HasRow(u))
  BY <1>1, <1>4 DEF HasRow
<1>9. \A u \in Users : shown[u] # Unsent /\ u # r.user => ToldTable(u)' /\ ToldCache(u)'
  BY <1>1, <1>4, <1>6 DEF Settled, AllTold, ToldTable, ToldCache
<1>10. CASE r.kind = "register"
  <2>1. shown[r.user] = Unsent
    BY <1>2, <1>10 DEF SerialAt, KindInv, BearerInv, HasRow
  <2>2. pc'[i] = "idle" /\ req'[i] = NoReq /\ loop'[i] = loop[i]
    BY <1>10 DEF PutRole, Goes, TypeInv, TaskTypes
  <2>3. Rest(i)'
    BY <1>5, <2>2, BlankKinds DEF Rest, SerialAt, LoopInv
  <2>4. BearerInv'
    <3>1. account'[r.user].role = Default
      BY <1>2, <1>3, <1>4, <1>10 DEF SerialAt, KindInv
    <3> QED  BY <1>1, <1>2, <1>4, <1>6, <1>8, <2>1, <3>1 DEF Settled, BearerInv
  <2>5. KindInv(i)'
    BY <2>3 DEF Rest, KindInv, Boots, Loading, Loads
  <2>6. LoopInv(i)'
    BY <2>3 DEF Rest, LoopInv, Telling, Announcing, Loads, Loading
  <2>7. ViewInv(i)'
    BY <1>1, <1>9, <2>1 DEF ViewInv
  <2> QED  BY <1>7, <2>4, <2>5, <2>6, <2>7 DEF SerialAt, CacheInv
<1>11. CASE r.kind = "set"
  <2>1. table[r.code] # NoRow
    BY <1>1, <1>11 DEF SerialAt, KindInv
  <2>2. /\ pc'[i] = "account" /\ UNCHANGED <<req, load, msg>>
        /\ loop'[i] = [todo |-> {}, bearers |-> {r.user}]
    BY <1>11 DEF PutRole, Goes, TypeInv, TaskTypes
  <2>3. loop'[i].todo = {} /\ loop'[i].bearers = {r.user}
    BY <2>2
  <2>4. HasRow(r.user)'
    <3>1. table'[account'[r.user].role] # NoRow /\ account'[r.user] # NoRole
      BY <1>1, <1>3, <1>4, <2>1
    <3> QED  BY <2>2, <3>1 DEF HasRow
  <2>5. BearerInv'
    BY <1>1, <1>2, <1>4, <1>6, <1>8, <2>2, <2>4 DEF Settled, BearerInv
  <2>6. KindInv(i)'
    BY <1>1, <1>2, <1>11, <2>2 DEF KindInv, Boots, Loading, Loads
  <2>7. LoopInv(i)'
    BY <2>2, <2>3, <2>4 DEF LoopInv, Telling, Announcing, Loads, Loading
  <2>8. ViewInv(i)'
    BY <1>1, <1>9, <2>3 DEF ViewInv, Owed
  <2> QED  BY <1>7, <2>5, <2>6, <2>7, <2>8 DEF SerialAt, CacheInv
<1> QED  BY <1>2, <1>10, <1>11

(* A request that is telling clients *)
LEMMA TellingFresh ==
  ASSUME NEW i \in Slots, SerialAt(i), pc[i] \in {"bearers", "account", "view", "send"}
  PROVE  /\ ~Boots(i) /\ Fresh /\ BearerInv /\ KindInv(i) /\ LoopInv(i)
         /\ \A u \in Users : shown[u] # Unsent /\ ~Owed(i, u) => ToldTable(u) /\ ToldCache(u)
BY DEF SerialAt, KindInv, CacheInv, ViewInv, Loads, Loading

LEMMA ToldSame ==
  ASSUME UNCHANGED <<table, cache, account, known, shown, written, missed>>
  PROVE  /\ \A u : /\ ToldTable(u)' <=> ToldTable(u)
                   /\ ToldCache(u)' <=> ToldCache(u)
                   /\ HasRow(u)' <=> HasRow(u)
         /\ Fresh' <=> Fresh
         /\ BearerInv' <=> BearerInv
BY DEF ToldTable, ToldCache, HasRow, Fresh, BearerInv

LEMMA FindBearersSerial ==
  ASSUME NEW i \in Slots, TypeInv, SerialAt(i), FindBearers(i)
  PROVE  SerialAt(i)'
<1>1. pc[i] = "bearers" /\ UNCHANGED <<table, account, known, shown, cache, written, missed>>
  BY DEF FindBearers, At, stored, history
<1>2. PICK c \in loop[i].todo : NextBroadcast(i, loop[i].todo \ {c}, UsersWithRole(c))
  BY DEF FindBearers
<1>3. TaskTypes /\ loop[i].todo \in SUBSET Codes
  BY DEF TypeInv, TaskTypes, LoopRec
<1>4. /\ ~Boots(i) /\ Fresh /\ BearerInv /\ KindInv(i) /\ LoopInv(i)
      /\ \A u \in Users : shown[u] # Unsent /\ ~Owed(i, u) => ToldTable(u) /\ ToldCache(u)
  BY <1>1, TellingFresh
<1>5. loop[i].bearers = {} /\ ~Announcing(i)
  BY <1>1, <1>4 DEF LoopInv, Announcing, Loads, Loading
<1>6. \A u \in UsersWithRole(c) : HasRow(u)
  BY <1>4 DEF LoopInv, HasRow, UsersWithRole
<1>7. \A u \in Users : shown[u] # Unsent /\ u \notin UsersWithRole(c)
        /\ account[u].role \notin loop[i].todo \ {c} => ToldTable(u) /\ ToldCache(u)
  BY <1>4, <1>5 DEF Owed, UsersWithRole, BearerInv, HasRow
<1>8. loop[i].todo \ {c} \in SUBSET Codes /\ UsersWithRole(c) \in SUBSET Users
  BY <1>3 DEF UsersWithRole
<1>9. \A d \in loop[i].todo \ {c} : table[d] # NoRow
  BY <1>4 DEF LoopInv
<1> QED  BY <1>1, <1>2, <1>3, <1>4, <1>6, <1>7, <1>8, <1>9, ToldSame, NextBroadcastSerial

LEMMA ReadRoleSerial ==
  ASSUME NEW i \in Slots, TypeInv, SerialAt(i), ReadRole(i)
  PROVE  SerialAt(i)'
<1>1. /\ pc[i] = "account" /\ pc'[i] = "view" /\ UNCHANGED <<req, load>>
      /\ UNCHANGED <<table, account, known, shown, cache, written, missed>>
  BY DEF ReadRole, At, Goes, stored, history, TypeInv, TaskTypes
<1>2. PICK u \in loop[i].bearers :
        /\ msg' = [msg EXCEPT ![i] = [user |-> u, data |-> account[u], view |-> NoView]]
        /\ loop' = [loop EXCEPT ![i] = [todo |-> loop[i].todo, bearers |-> loop[i].bearers \ {u}]]
  BY DEF ReadRole
<1>3. /\ msg'[i].user = u /\ msg'[i].data = account[u]
      /\ loop'[i].todo = loop[i].todo /\ loop'[i].bearers = loop[i].bearers \ {u}
  BY <1>2 DEF TypeInv, TaskTypes
<1>4. u \in Users
  BY DEF TypeInv, TaskTypes, LoopRec
<1>5. /\ ~Boots(i) /\ Fresh /\ BearerInv /\ KindInv(i) /\ LoopInv(i)
      /\ \A v \in Users : shown[v] # Unsent /\ ~Owed(i, v) => ToldTable(v) /\ ToldCache(v)
  BY <1>1, TellingFresh
<1>6. KindInv(i)'
  BY <1>1, <1>5 DEF KindInv, Boots, Loading, Loads
<1>7. CacheInv(i)' /\ BearerInv'
  BY <1>1, <1>5, ToldSame DEF CacheInv
<1>8. LoopInv(i)'
  <2>1. Announcing(i)' /\ Telling(i)' /\ ~Loading(i)'
    BY <1>1 DEF Announcing, Telling, Loading
  <2>2. HasRow(u) /\ \A v \in loop[i].bearers : HasRow(v)
    BY <1>5 DEF LoopInv
  <2>3. (msg[i].user \in Users /\ HasRow(msg[i].user) /\ msg[i].data = account[msg[i].user])'
    BY <1>1, <1>3, <1>4, <2>2 DEF HasRow
  <2>4. \A v \in loop'[i].bearers : HasRow(v)'
    BY <1>1, <1>3, <2>2, ToldSame
  <2>5. \A c \in loop'[i].todo : table'[c] # NoRow
    BY <1>1, <1>3, <1>5 DEF LoopInv
  <2> QED  BY <1>1, <2>1, <2>3, <2>4, <2>5 DEF LoopInv, Loads
<1>9. ViewInv(i)'
  <2>1. \A v \in Users : Owed(i, v) => Owed(i, v)'
    BY <1>1, <1>3 DEF Owed, Announcing, Loads, Loading
  <2> QED  BY <1>1, <1>5, <2>1, ToldSame DEF ViewInv
<1> QED  BY <1>6, <1>7, <1>8, <1>9 DEF SerialAt

LEMMA MakeViewSerial ==
  ASSUME NEW i \in Slots, TypeInv, SerialAt(i), MakeView(i)
  PROVE  SerialAt(i)'
<1>1. pc[i] = "view" /\ UNCHANGED <<table, account, known, shown, cache, written, missed>>
  BY DEF MakeView, At, stored, history
<1>2. /\ ~Boots(i) /\ Fresh /\ BearerInv /\ KindInv(i) /\ LoopInv(i) /\ Announcing(i)
      /\ \A v \in Users : shown[v] # Unsent /\ ~Owed(i, v) => ToldTable(v) /\ ToldCache(v)
  BY <1>1, TellingFresh DEF Announcing
<1>3. CASE Viewed(i, cache)
  BY <1>1, <1>2, <1>3, ToldSame, ViewedSerial
<1>4. CASE Reload(i, "view") /\ UNCHANGED <<req, extras, loop, msg>>
  <2>1. "view" \in Thens \ {"diff"} /\ BearerInv'
    BY <1>1, <1>2, ToldSame DEF Thens
  <2>2. /\ \A c \in loop'[i].todo : table'[c] # NoRow
        /\ \A u \in loop'[i].bearers : HasRow(u)'
    BY <1>1, <1>2, <1>4, ToldSame DEF LoopInv
  <2>3. /\ msg'[i].user \in Users /\ HasRow(msg[i].user)' /\ msg'[i].data = account[msg'[i].user]
    BY <1>1, <1>2, <1>4 DEF LoopInv, HasRow
  <2>4. \A u \in Users : shown'[u] # Unsent /\ u \notin loop'[i].bearers
             /\ account[u].role \notin loop'[i].todo /\ u # msg'[i].user
           => ToldTable(u)' /\ ToldCache(u)'
    BY <1>1, <1>2, <1>4, ToldSame DEF Owed
  <2> QED  BY <1>1, <1>2, <1>4, <2>1, <2>2, <2>3, <2>4, ReloadSerial
<1> QED  BY <1>3, <1>4 DEF MakeView

LEMMA SendSerial ==
  ASSUME NEW i \in Slots, TypeInv, SerialAt(i), SendToDevice(i)
  PROVE  SerialAt(i)'
<1> DEFINE m == msg[i].user
<1>1. /\ pc[i] = "send" /\ shown' = [shown EXCEPT ![m] = msg[i].view]
      /\ NextBroadcast(i, loop[i].todo, loop[i].bearers)
      /\ UNCHANGED <<table, account, known, cache, written, missed>>
  BY DEF SendToDevice, At, history
<1>2. /\ ~Boots(i) /\ Fresh /\ BearerInv /\ KindInv(i) /\ LoopInv(i) /\ Announcing(i)
      /\ \A v \in Users : shown[v] # Unsent /\ ~Owed(i, v) => ToldTable(v) /\ ToldCache(v)
  BY <1>1, TellingFresh DEF Announcing
<1>3. m \in Users /\ HasRow(m) /\ msg[i].view = Enrich(account[m], cache)
  BY <1>1, <1>2 DEF LoopInv
<1> HIDE DEF m
<1>4. /\ shown'[m] = Enrich(account[m], cache)
      /\ \A u \in Users : u # m => shown'[u] = shown[u]
  BY <1>1, <1>3 DEF TypeInv, StoreTypes
<1>5. \A u : HasRow(u)' <=> HasRow(u)
  BY <1>1 DEF HasRow
<1>6. Fresh' /\ BearerInv'
  <2>1. Fresh'
    BY <1>1, <1>2 DEF Fresh
  <2>2. BearerInv'
    BY <1>1, <1>2, <1>3, <1>4, <1>5 DEF BearerInv
  <2> QED  BY <2>1, <2>2
<1>7. TaskTypes /\ loop[i].todo \in SUBSET Codes /\ loop[i].bearers \in SUBSET Users
  BY DEF TypeInv, TaskTypes, LoopRec
<1>8. (\A c \in loop[i].todo : table'[c] # NoRow) /\ (\A u \in loop[i].bearers : HasRow(u)')
  BY <1>1, <1>2, <1>5 DEF LoopInv
<1>9. ASSUME NEW u \in Users, shown'[u] # Unsent, u \notin loop[i].bearers,
             account[u].role \notin loop[i].todo
      PROVE  ToldTable(u)' /\ ToldCache(u)'
  <2>1. CASE u = m
    <3>1. account[m].role \in Codes
      BY <1>3 DEF HasRow, TypeInv, StoreTypes, Account
    <3>2. account[m].role \notin written => Enrich(account[m], cache) = Enrich(account[m], table)
      BY <1>2, <3>1, EnrichSame DEF Fresh
    <3> QED  BY <1>1, <1>4, <2>1, <3>2 DEF ToldTable, ToldCache
  <2>2. CASE u # m
    <3>1. ToldTable(u) /\ ToldCache(u)
      BY <1>2, <1>4, <1>9, <2>2 DEF Owed, m
    <3> QED  BY <1>1, <1>4, <2>2, <3>1 DEF ToldTable, ToldCache
  <2> QED  BY <2>1, <2>2
<1> QED  BY <1>1, <1>2, <1>6, <1>7, <1>8, <1>9, NextBroadcastSerial

(* Other slots are left alone. *)
Leaves(i) ==
  \A j \in Slots \ {i} : pc'[j] = pc[j] /\ req'[j] = req[j] /\ loop'[j] = loop[j]

LEMMA RunsLeaves ==
  ASSUME NEW i \in Slots, TypeInv, Runs(i)
  PROVE  Leaves(i) /\ serial' = serial /\ pc[i] # "idle"
<1>0. TaskTypes
  BY DEF TypeInv
<1>1. ASSUME Done(i) PROVE Leaves(i)
  BY <1>0, <1>1 DEF TaskTypes, Done, Goes, Leaves
<1>2. ASSUME NEW l, Reload(i, l), UNCHANGED <<req, loop>> PROVE Leaves(i)
  BY <1>0, <1>2 DEF TaskTypes, Reload, Goes, Leaves
<1>3. ASSUME NEW l, Goes(i, l), UNCHANGED <<req, loop>> PROVE Leaves(i)
  BY <1>0, <1>3 DEF TaskTypes, Goes, Leaves
<1>4. ASSUME NEW rows, Checked(i, rows) PROVE Leaves(i)
  BY <1>1, <1>3, <1>4 DEF Checked, CheckSet, locals
<1>5. ASSUME NEW todo, NEW bearers, NextBroadcast(i, todo, bearers) PROVE Leaves(i)
  <2>1. CASE /\ Goes(i, IF bearers # {} THEN "account" ELSE "bearers")
             /\ loop' = [loop EXCEPT ![i] = [todo |-> todo, bearers |-> bearers]]
             /\ UNCHANGED req
    BY <1>0, <2>1 DEF TaskTypes, Goes, Leaves
  <2> QED  BY <1>1, <1>5, <2>1 DEF NextBroadcast
<1>6. CASE Seed(i)
  BY <1>3, <1>6 DEF Seed, At, locals, history
<1>7. CASE Check(i)
  BY <1>2, <1>4, <1>7 DEF Check, At, history
<1>8. CASE Add(i)
  BY <1>1, <1>2, <1>8 DEF Add, At, history
<1>9. CASE Patch(i)
  <2>1. ASSUME Reload(i, "bearers"), UNCHANGED req,
               loop' = [loop EXCEPT ![i] = [todo |-> {req[i].code}, bearers |-> {}]]
        PROVE  Leaves(i)
    BY <1>0, <2>1 DEF TaskTypes, Reload, Goes, Leaves
  <2> QED  BY <1>1, <1>9, <2>1 DEF Patch, At, history
<1>10. CASE FindHolders(i)
  BY <1>1, <1>3, <1>10 DEF FindHolders, At, locals, history
<1>11. CASE Delete(i)
  BY <1>1, <1>2, <1>11 DEF Delete, At, history
<1>12. CASE SelectRows(i)
  BY <1>3, <1>12 DEF SelectRows, At, history
<1>13. CASE AssignCache(i)
  <2>1. Leaves(i)
    BY <1>1, <1>3, <1>4, <1>5, <1>13 DEF AssignCache, Viewed, locals
  <2> QED  BY <1>13, <2>1 DEF AssignCache, At
<1>14. CASE ReadStored(i)
  BY <1>3, <1>14 DEF ReadStored, At, history
<1>15. CASE PutRole(i)
  BY <1>0, <1>15 DEF PutRole, At, Goes, TaskTypes, Leaves
<1>16. CASE FindBearers(i)
  BY <1>5, <1>16 DEF FindBearers, At, history
<1>17. CASE ReadRole(i)
  BY <1>0, <1>17 DEF ReadRole, At, Goes, TaskTypes, Leaves, history
<1>18. CASE MakeView(i)
  BY <1>2, <1>3, <1>18 DEF MakeView, At, Viewed, history
<1>19. CASE SendToDevice(i)
  BY <1>5, <1>19 DEF SendToDevice, At, history
<1> QED
  BY <1>6, <1>7, <1>8, <1>9, <1>10, <1>11, <1>12, <1>13, <1>14, <1>15, <1>16, <1>17, <1>18, <1>19
  DEF Runs

LEMMA RunsSerial ==
  ASSUME NEW k \in Slots, TypeInv, SerialInv, Runs(k)
  PROVE  SerialInv'
<1> SUFFICES ASSUME serial' = "yes" PROVE SerialInv'
  BY DEF SerialInv
<1>1. Leaves(k) /\ serial = "yes" /\ pc[k] # "idle"
  BY RunsLeaves
<1>2. (\A j \in Slots \ {k} : Rest(j)) /\ SerialAt(k)
  BY <1>1 DEF SerialInv, Rest
<1>3. \A j \in Slots \ {k} : Rest(j)'
  BY <1>1, <1>2 DEF Leaves, Rest
<1>4. SerialAt(k)'
  BY <1>2, SeedSerial, CheckSerial, AddSerial, PatchSerial, FindHoldersSerial, DeleteSerial,
     SelectRowsSerial, AssignCacheSerial, ReadStoredSerial, PutRoleSerial, FindBearersSerial,
     ReadRoleSerial, MakeViewSerial, SendSerial DEF Runs
<1> QED  BY <1>3, <1>4 DEF SerialInv

LEMMA QuietSettles ==
  ASSUME SerialInv, serial = "yes", Quiet
  PROVE  Settled /\ Slots # {} /\ \A j \in Slots : Rest(j)
<1>1. PICK i \in Slots : (\A j \in Slots \ {i} : Rest(j)) /\ SerialAt(i)
  BY DEF SerialInv
<1>2. Rest(i)
  BY <1>1 DEF SerialAt, KindInv, Quiet, At
<1>3. Settled
  BY <1>1, <1>2, RestSettles DEF Rest, Boots, Loading, Telling, Announcing, Loads
<1> QED  BY <1>1, <1>2, <1>3

(* A request that arrives while none is under way *)
LEMMA StartSerial ==
  ASSUME NEW i \in Slots, NEW l \in {"check", "patch", "holders", "select"}, NEW r,
         TypeInv, SerialInv, Start(i, l, r), UNCHANGED loop,
         r.kind # "bootstrap",
         r.kind = "register" => account[r.user] = NoRole /\ r.code = Default,
         r.kind \in {"set", "register"} => r.user \in known',
         known \subseteq known',
         l = "select" => load'[i].then = "diff" /\ r.before = cache
  PROVE  SerialInv'
<1> SUFFICES ASSUME serial' = "yes" PROVE SerialInv'
  BY DEF SerialInv
<1>1. /\ serial = "yes" /\ Quiet
      /\ UNCHANGED <<table, account, shown, cache, written, missed>>
  BY DEF Start
<1>2. Settled /\ \A j \in Slots : Rest(j)
  BY <1>1, QuietSettles
<1>3. pc'[i] = l /\ req'[i] = r /\ \A j \in Slots \ {i} : pc'[j] = pc[j] /\ req'[j] = req[j]
  BY DEF Start, Goes, TypeInv, TaskTypes
<1>4. \A j \in Slots \ {i} : Rest(j)'
  BY <1>2, <1>3 DEF Rest
<1>5. /\ ~Boots(i)' /\ ~Telling(i)' /\ loop'[i].todo = {} /\ loop'[i].bearers = {}
  BY <1>2, <1>3 DEF Boots, Telling, Announcing, Loads, Loading, Rest
<1>6. KindInv(i)'
  BY <1>1, <1>3, <1>5 DEF KindInv, Loads, Loading
<1>7. Fresh' /\ BearerInv'
  BY <1>1, <1>2 DEF Settled, Fresh, BearerInv, HasRow
<1>8. LoopInv(i)'
  BY <1>3, <1>5 DEF LoopInv, Telling
<1>9. ViewInv(i)'
  BY <1>1, <1>2 DEF Settled, AllTold, ViewInv, ToldTable, ToldCache
<1> QED  BY <1>4, <1>6, <1>7, <1>8, <1>9 DEF SerialInv, SerialAt, CacheInv

LEMMA ArrivesSerial ==
  ASSUME NEW i \in Slots, TypeInv, SerialInv, Arrives(i)
  PROVE  SerialInv'
<1>1. ASSUME NEW u \in Users, NEW c \in Codes, NEW es \in SUBSET Codes,
             NEW stated \in {"yes", "no"}, SetRole(i, u, c, stated, es)
      PROVE  SerialInv'
  <2> DEFINE r == Ask("set", c, u, SeedLabel, stated)
  <2>1. r.kind = "set" /\ r.user = u
    BY AskTypes, ConstantsAssumption
  <2>2. Start(i, "check", r) /\ u \in known /\ UNCHANGED <<known, loop>>
    BY <1>1 DEF SetRole
  <2> HIDE DEF r
  <2> QED  BY <2>1, <2>2, StartSerial
<1>2. ASSUME NEW l \in {"check", "patch", "holders"}, NEW kind \in {"create", "update", "remove"},
             NEW c \in Codes, NEW lb \in Labels,
             Start(i, l, Ask(kind, c, Nobody, lb, "no")), UNCHANGED <<known, loop>>
      PROVE  SerialInv'
  <2> DEFINE r == Ask(kind, c, Nobody, lb, "no")
  <2>1. r.kind = kind
    BY AskTypes
  <2>2. Start(i, l, r)
    BY <1>2
  <2> HIDE DEF r
  <2> QED  BY <1>2, <2>1, <2>2, StartSerial
<1>3. ASSUME NEW c \in Codes, NEW l \in Labels, CreateRole(i, c, l) \/ UpdateRole(i, c, l)
      PROVE  SerialInv'
  BY <1>2, <1>3 DEF CreateRole, UpdateRole
<1>4. ASSUME NEW c \in Codes, RemoveRole(i, c)
      PROVE  SerialInv'
  BY <1>2, <1>4, ConstantsAssumption DEF RemoveRole
<1>5. CASE ReloadCatalog(i)
  <2> DEFINE r == [kind |-> "reload", code |-> Default, user |-> Nobody,
                   label |-> SeedLabel, stated |-> "no", before |-> cache]
  <2>1. r.kind = "reload" /\ r.before = cache
    OBVIOUS
  <2>2. /\ Start(i, "select", r) /\ UNCHANGED <<known, loop>>
        /\ load' = [load EXCEPT ![i] = [then |-> "diff", rows |-> Empty]]
    BY <1>5 DEF ReloadCatalog
  <2>3. load'[i].then = "diff"
    BY <2>2 DEF TypeInv, TaskTypes
  <2> HIDE DEF r
  <2> QED  BY <2>1, <2>2, <2>3, StartSerial
<1>6. ASSUME NEW u \in Users, OnUserRegistration(i, u)
      PROVE  SerialInv'
  <2> DEFINE r == Ask("register", Default, u, SeedLabel, "no")
  <2>1. r.kind = "register" /\ r.user = u /\ r.code = Default
    BY AskTypes, ConstantsAssumption
  <2>2. /\ Start(i, "check", r) /\ known' = known \union {u} /\ UNCHANGED loop /\ u \notin known
    BY <1>6 DEF OnUserRegistration
  <2> HIDE DEF r
  <2>3. CASE serial = "yes" /\ Quiet
    <3>1. account[u] = NoRole
      BY <2>2, <2>3, QuietSettles DEF Settled, BearerInv
    <3> QED  BY <2>1, <2>2, <3>1, StartSerial
  <2>4. CASE ~(serial = "yes" /\ Quiet)
    BY <2>2, <2>4 DEF Start, SerialInv
  <2> QED  BY <2>3, <2>4
<1> QED  BY <1>1, <1>3, <1>4, <1>5, <1>6 DEF Arrives

(* The cache of a new process is empty; what its clients were told is of   *)
(* the table.                                                              *)
LEMMA RestartSerial ==
  ASSUME NEW b \in Slots, TypeInv, SerialInv, Restart(b)
  PROVE  SerialInv'
<1> SUFFICES ASSUME serial' = "yes" PROVE SerialInv'
  BY DEF SerialInv
<1>1. /\ serial = "yes" /\ Quiet /\ cache' = Empty
      /\ UNCHANGED <<table, account, known, shown, written, missed>>
  BY DEF Restart, stored
<1>2. Settled
  BY <1>1, QuietSettles
<1>3. /\ pc'[b] = "seed" /\ req'[b] = Boot /\ loop'[b] = NoLoop
      /\ \A j \in Slots \ {b} : pc'[j] = "idle" /\ req'[j] = NoReq /\ loop'[j] = NoLoop
  BY DEF Restart
<1>4. NoLoop.todo = {} /\ NoLoop.bearers = {}
  BY DEF NoLoop
<1>5. \A j \in Slots \ {b} : Rest(j)'
  BY <1>3, <1>4, BlankKinds DEF Rest
<1>6. Boots(b)' /\ ~Telling(b)'
  BY <1>3, BlankKinds DEF Boots, Telling, Announcing, Loads, Loading
<1>7. KindInv(b)'
  BY <1>1, <1>3, <1>6, BlankKinds DEF KindInv, Loads, Loading
<1>8. CacheInv(b)' /\ BearerInv'
  BY <1>1, <1>2, <1>6 DEF CacheInv, Settled, BearerInv, HasRow
<1>9. LoopInv(b)'
  BY <1>3, <1>4, <1>6 DEF LoopInv, Telling
<1>10. ViewInv(b)'
  BY <1>1, <1>2, <1>6 DEF Settled, AllTold, ViewInv, ToldTable
<1> QED  BY <1>5, <1>7, <1>8, <1>9, <1>10 DEF SerialInv, SerialAt

(* A direct write leaves clients with what the cache says. *)
LEMMA SqlWriteSerial ==
  ASSUME NEW c \in Codes, NEW l \in Labels, TypeInv, SerialInv, SqlWrite(c, l)
  PROVE  SerialInv'
<1> SUFFICES ASSUME serial' = "yes" PROVE SerialInv'
  BY DEF SerialInv
<1>1. /\ serial = "yes" /\ Quiet /\ written' = written \union {c}
      /\ UNCHANGED <<account, known, shown, cache, missed, pc, req, load, loop, msg>>
  BY DEF SqlWrite, task, locals
<1>2. Settled /\ Slots # {} /\ \A j \in Slots : Rest(j)
  BY <1>1, QuietSettles
<1>3. table'[c] = l /\ l # NoRow /\ \A d \in Codes : d # c => table'[d] = table[d]
  BY ConstantsAssumption DEF SqlWrite, TypeInv, StoreTypes, Rows
<1>4. Fresh'
  BY <1>1, <1>2, <1>3 DEF Settled, Fresh, TypeInv, HistoryTypes
<1>5. \A u \in Users : account[u] # NoRole => account[u].role \in Codes
  BY DEF TypeInv, StoreTypes, Account
<1>6. BearerInv'
  BY <1>1, <1>2, <1>3, <1>5 DEF Settled, BearerInv, HasRow
<1>7. AllTold'
  <2> SUFFICES ASSUME NEW u \in Users, shown[u] # Unsent
               PROVE  ToldTable(u)' /\ ToldCache(u)'
    BY <1>1 DEF AllTold
  <2>1. ToldTable(u) /\ ToldCache(u) /\ account[u].role \in Codes
    BY <1>2, <1>5 DEF Settled, AllTold, BearerInv, HasRow
  <2>2. ToldTable(u)'
    <3>1. account[u].role # c => Enrich(account[u], table') = Enrich(account[u], table)
      BY <1>3, <2>1, EnrichSame
    <3> QED  BY <1>1, <2>1, <3>1 DEF ToldTable
  <2>3. ToldCache(u)'
    <3>1. account[u].role \notin written => Enrich(account[u], cache) = Enrich(account[u], table)
      BY <1>2, <2>1, EnrichSame DEF Settled, Fresh
    <3> QED  BY <1>1, <2>1, <3>1 DEF ToldTable, ToldCache
  <2> QED  BY <2>2, <2>3
<1>8. \A j \in Slots : Rest(j)'
  BY <1>1, <1>2 DEF Rest
<1>9. PICK i \in Slots : TRUE
  BY <1>2
<1>10. KindInv(i)' /\ LoopInv(i)'
  BY <1>8 DEF Rest, KindInv, Boots, Loading, Loads, LoopInv, Telling, Announcing
<1>11. CacheInv(i)' /\ ViewInv(i)'
  BY <1>4, <1>7 DEF CacheInv, AllTold, ViewInv
<1> QED  BY <1>6, <1>8, <1>10, <1>11 DEF SerialInv, SerialAt

LEMMA InitSerial == Init => SerialInv
<1> SUFFICES ASSUME Init PROVE SerialInv
  OBVIOUS
<1>1. PICK b \in Slots :
        /\ pc = [i \in Slots |-> IF i = b THEN "seed" ELSE "idle"]
        /\ req = [i \in Slots |-> IF i = b THEN Boot ELSE NoReq]
  BY DEF Init
<1>2. \A j \in Slots : loop[j].todo = {} /\ loop[j].bearers = {}
  BY DEF Init, NoLoop
<1>3. \A j \in Slots \ {b} : Rest(j)
  BY <1>1, <1>2, BlankKinds DEF Rest
<1>4. pc[b] = "seed" /\ Boots(b) /\ ~Telling(b) /\ req[b] = Boot
  BY <1>1, BlankKinds DEF Boots, Telling, Announcing, Loads, Loading
<1>5. KindInv(b)
  BY <1>4, BlankKinds DEF Init, KindInv, Loads, Loading
<1>6. CacheInv(b) /\ BearerInv
  BY <1>4 DEF Init, CacheInv, BearerInv
<1>7. LoopInv(b)
  BY <1>2, <1>4 DEF LoopInv, Telling
<1>8. ViewInv(b)
  BY DEF Init, ViewInv
<1> QED  BY <1>3, <1>5, <1>6, <1>7, <1>8 DEF SerialInv, SerialAt

LEMMA NextSerial == TypeInv /\ SerialInv /\ [Next]_vars => SerialInv'
<1> SUFFICES ASSUME TypeInv, SerialInv, [Next]_vars PROVE SerialInv'
  OBVIOUS
<1>1. ASSUME NEW i \in Slots, Fail(i) PROVE SerialInv'
  BY <1>1 DEF Fail, SerialInv
<1>2. CASE Next
  BY <1>1, <1>2, ArrivesSerial, RunsSerial, RestartSerial, SqlWriteSerial DEF Next
<1>3. CASE UNCHANGED vars
  <2>1. UNCHANGED <<serial, table, account, known, shown, cache, pc, req, load, loop, msg,
                    written, missed>>
    BY <1>3 DEF vars, stored, task, locals, history
  <2> QED
    BY <2>1 DEF SerialInv, SerialAt, Rest, KindInv, CacheInv, BearerInv, LoopInv, ViewInv,
                Boots, Loading, Loads, Announcing, Telling, HasRow, Fresh, Owed, ToldTable,
                ToldCache, UsersWithRole
<1> QED  BY <1>2, <1>3

(* RoleCatalog: between requests that do not overlap, the cache is the     *)
(* table but for rows written directly since the last load.                *)
THEOREM CacheFollowsTable == Spec => []SerialCacheIsTable
<1>1. TypeInv /\ SerialInv => SerialCacheIsTable
  BY QuietSettles DEF SerialCacheIsTable, Settled, Fresh
<1> QED
  BY <1>1, InitInv, NextInv, InitTypes, NextTypes, InitSerial, NextSerial, PTL DEF Spec

(* RoleBroadcaster: between requests that do not overlap, clients were     *)
(* told of every user's role as it is, but for direct writes that are      *)
(* still to be loaded or that another load has hidden.                     *)
THEOREM ClientsFollowRoles == Spec => []SerialViewsAreCurrent
<1>1. TypeInv /\ SerialInv => SerialViewsAreCurrent
  BY QuietSettles DEF SerialViewsAreCurrent, Settled, AllTold, ToldTable
<1> QED
  BY <1>1, InitInv, NextInv, InitTypes, NextTypes, InitSerial, NextSerial, PTL DEF Spec

(* CatalogHandler.remove and UserRoleHandler.set: while requests do not    *)
(* overlap, nobody bears a role without a row, the default role excepted.  *)
THEOREM RolesKeepTheirRows == Spec => []SerialRolesExist
<1>1. TypeInv /\ SerialInv => SerialRolesExist
  BY DEF SerialInv, SerialAt, BearerInv, HasRow, SerialRolesExist
<1> QED
  BY <1>1, InitInv, NextInv, InitTypes, NextTypes, InitSerial, NextSerial, PTL DEF Spec
=============================================================================
