----------------------------- MODULE UserRoles -----------------------------
(***************************************************************************)
(* The user_roles Synapse module: the role catalogue (a table and an       *)
(* in-memory cache of it), the roles of the users (account data), and the  *)
(* to-device announcements that tell clients about them.                   *)
(*                                                                         *)
(* Every request is a coroutine: it runs alone up to its next await, and   *)
(* each await is a database transaction.  A step below is one transaction  *)
(* together with what the coroutine does, without awaiting, before the     *)
(* next one; only _reload_cache takes two, since rows selected earlier may *)
(* be put into the cache later.                                            *)
(*                                                                         *)
(* A row is abstracted to one label (display name and colour), the order   *)
(* of extra roles is dropped, and role_v2 is left out: GET ignores it.     *)
(***************************************************************************)
EXTENDS Naturals

CONSTANTS
  Codes, Labels, Users,
  Slots,        \* requests that may be under way at one time
  Admin,        \* ADMIN_ROLE
  Default,      \* default_role
  Seeds,        \* codes of _SEED_ROLES
  SeedLabel,
  Nobody,       \* a request that is not about a user
  NoRow,        \* the catalogue has no such code
  NoRole,       \* the user has no com.liza.user_role account data
  NoView,       \* the payload null
  Unsent,       \* clients have not been told anything about the user
  Bounds        \* bounds of a behaviour, one record for each instance
                \*   kinds, codes, labels  what the requests are and speak of
                \*   overlap   whether requests may overlap
                \*   requests  requests made
                \*   writes    direct writes to the table
                \*   faults    transactions that fail
                \*   restarts  restarts of the process

Rows    == [Codes -> Labels \union {NoRow}]
Extras  == SUBSET (Codes \ {Admin})
Account == [role: Codes, extras: Extras] \union {NoRole}
View    == [role: Codes, label: Labels, extras: Extras] \union {NoView}

ASSUME ConstantsAssumption ==
  /\ Admin \in Codes /\ Default \in Codes /\ Seeds \subseteq Codes
  /\ Nobody \notin Users
  /\ SeedLabel \in Labels /\ NoRow \notin Labels
  /\ NoRole \notin [role: Codes, extras: Extras]
  /\ NoView \notin [role: Codes, label: Labels, extras: Extras] /\ Unsent \notin View
  /\ \A b \in Bounds :
       /\ b.codes \subseteq Codes /\ b.labels \subseteq Labels /\ b.overlap \in BOOLEAN
       /\ b.requests \in Nat /\ b.writes \in Nat /\ b.faults \in Nat /\ b.restarts \in Nat

VARIABLES
  table,       \* user_roles_catalog
  cache,       \* RoleCatalog._cache
  account,     \* account data com.liza.user_role of each user
  known,       \* users that exist
  shown,       \* the last to-device message about each user
  pc, req,     \* the requests under way: progress, and what was asked for
  extras,      \* set: the extra roles that will be stored
  load,        \* _reload_cache: the rows selected, and what follows it
  loop,        \* broadcast_catalog_patch: codes and bearers still to announce
  msg,         \* broadcast_role_change: whose role, as read, as it will be sent
  granted,     \* history: extra roles that a request stated for a main role
  written,     \* history: codes of rows written directly since the last load
  missed,      \* history: codes of rows whose change another load has hidden
  serial,      \* history: "no" once requests overlapped or one was cut off
  bound,       \* the bounds of this behaviour
  requests, writes, faults, restarts

stored   == <<table, account, known, shown>>
locals   == <<extras, load, loop, msg>>
task     == <<pc, req, locals>>
history  == <<granted, written, missed, serial>>
counters == <<bound, requests, writes, faults, restarts>>
vars     == <<stored, cache, task, history, counters>>

Pcs == {"idle", "seed", "check", "stored", "put", "insert", "patch", "holders", "delete",
        "select", "assign", "bearers", "account", "view", "send"}

Request == [kind: {"none", "bootstrap", "register", "set", "create", "update", "remove", "reload"},
            code: Codes, user: Users \union {Nobody}, label: Labels,
            stated: {"yes", "no"}, before: Rows]

TypeOK ==
  /\ table \in Rows /\ cache \in Rows
  /\ account \in [Users -> Account]
  /\ known \in SUBSET Users
  /\ shown \in [Users -> View \union {Unsent}]
  /\ pc \in [Slots -> Pcs] /\ req \in [Slots -> Request]
  /\ extras \in [Slots -> SUBSET Codes]
  /\ load \in [Slots -> [then: {"idle", "check", "view", "bearers", "diff"}, rows: Rows]]
  /\ loop \in [Slots -> [todo: SUBSET Codes, bearers: SUBSET Users]]
  /\ msg \in [Slots -> [user: Users \union {Nobody}, data: Account, view: View]]
  /\ granted \in SUBSET (Users \X Codes \X Codes)
  /\ written \in SUBSET Codes /\ missed \in SUBSET Codes
  /\ serial \in {"yes", "no"}
  /\ bound \in Bounds
  /\ requests \in 0..bound.requests /\ writes \in 0..bound.writes
  /\ faults \in 0..bound.faults /\ restarts \in 0..bound.restarts

Empty == [c \in Codes |-> NoRow]

Ask(kind, c, u, l, stated) ==
  [kind |-> kind, code |-> c, user |-> u, label |-> l, stated |-> stated, before |-> Empty]

NoReq    == Ask("none", Default, Nobody, SeedLabel, "no")
Boot     == Ask("bootstrap", Default, Nobody, SeedLabel, "no")
NoLoad   == [then |-> "idle", rows |-> Empty]
NoLoop   == [todo |-> {}, bearers |-> {}]
NoMsg    == [user |-> Nobody, data |-> NoRole, view |-> NoView]

(* The first start on this database: nobody has a role yet. *)
Init ==
  /\ table = Empty /\ cache = Empty
  /\ account = [u \in Users |-> NoRole]
  /\ known \in SUBSET Users
  /\ shown = [u \in Users |-> Unsent]
  /\ \E b \in Slots :
       /\ pc = [i \in Slots |-> IF i = b THEN "seed" ELSE "idle"]
       /\ req = [i \in Slots |-> IF i = b THEN Boot ELSE NoReq]
  /\ extras = [i \in Slots |-> {}]
  /\ load = [i \in Slots |-> NoLoad] /\ loop = [i \in Slots |-> NoLoop]
  /\ msg = [i \in Slots |-> NoMsg]
  /\ granted = {} /\ written = {} /\ missed = {} /\ serial = "yes"
  /\ bound \in Bounds /\ requests = 0 /\ writes = 0 /\ faults = 0 /\ restarts = 0

At(i, l) == pc[i] = l

Goes(i, l) == pc' = [pc EXCEPT ![i] = l]

(* The request has been answered. *)
Done(i) ==
  /\ Goes(i, "idle")
  /\ req' = [req EXCEPT ![i] = NoReq]
  /\ extras' = [extras EXCEPT ![i] = {}]
  /\ load' = [load EXCEPT ![i] = NoLoad] /\ loop' = [loop EXCEPT ![i] = NoLoop]
  /\ msg' = [msg EXCEPT ![i] = NoMsg]

Quiet == \A i \in Slots : At(i, "idle")

-----------------------------------------------------------------------------
(* Requests that arrive *)

Start(i, l, r) ==
  /\ At(i, "idle")
  /\ r.kind \in bound.kinds /\ r.code \in bound.codes /\ r.label \in bound.labels
  /\ bound.overlap \/ Quiet
  /\ requests < bound.requests
  /\ requests' = requests + 1
  /\ Goes(i, l)
  /\ req' = [req EXCEPT ![i] = r]
  /\ serial' = IF Quiet THEN serial ELSE "no"
  /\ UNCHANGED <<table, account, shown, cache, msg, granted, written, missed,
                 bound, writes, faults, restarts>>

(* UserRoleHandler.set, with and without the key extra_roles *)
SetRole(i, u, c, stated, es) ==
  /\ u \in known
  /\ es \subseteq bound.codes /\ (stated = "no" => es = {})
  /\ Start(i, "check", Ask("set", c, u, SeedLabel, stated))
  /\ extras' = [extras EXCEPT ![i] = es]
  /\ UNCHANGED <<known, load, loop>>

(* CatalogHandler *)
CreateRole(i, c, l) ==
  /\ Start(i, "check", Ask("create", c, Nobody, l, "no"))
  /\ UNCHANGED <<known, extras, load, loop>>

UpdateRole(i, c, l) ==
  /\ Start(i, "patch", Ask("update", c, Nobody, l, "no"))
  /\ UNCHANGED <<known, extras, load, loop>>

RemoveRole(i, c) ==
  /\ Start(i, "holders", Ask("remove", c, Nobody, SeedLabel, "no"))
  /\ UNCHANGED <<known, extras, load, loop>>

(* CatalogReloadHandler.reload takes its first snapshot before it awaits. *)
ReloadCatalog(i) ==
  /\ Start(i, "select", [kind |-> "reload", code |-> Default, user |-> Nobody,
                         label |-> SeedLabel, stated |-> "no", before |-> cache])
  /\ load' = [load EXCEPT ![i] = [then |-> "diff", rows |-> Empty]]
  /\ UNCHANGED <<known, extras, loop>>

(* _on_user_registration of a new user *)
OnUserRegistration(i, u) ==
  /\ u \notin known
  /\ known' = known \union {u}
  /\ Start(i, "check", Ask("register", Default, u, SeedLabel, "no"))
  /\ UNCHANGED <<extras, load, loop>>

-----------------------------------------------------------------------------
(* RoleCatalog: the transactions *)

(* Go to _reload_cache, and after it to l. *)
Reload(i, l) ==
  /\ Goes(i, "select")
  /\ load' = [load EXCEPT ![i] = [then |-> l, rows |-> Empty]]

(* ensure_schema: seed the roles that are missing *)
Seed(i) ==
  /\ At(i, "seed")
  /\ table' = [c \in Codes |-> IF c \in Seeds /\ table[c] = NoRow THEN SeedLabel ELSE table[c]]
  /\ Goes(i, "check")
  /\ UNCHANGED <<account, known, shown, cache, req, locals, history, counters>>

Write(i, row) == table' = [table EXCEPT ![req[i].code] = row]

(* add raises when the code exists *)
Add(i) ==
  /\ At(i, "insert")
  /\ \/ table[req[i].code] # NoRow /\ Done(i) /\ UNCHANGED table
     \/ /\ table[req[i].code] = NoRow
        /\ Write(i, req[i].label)
        /\ Reload(i, "idle")
        /\ UNCHANGED <<req, extras, loop, msg>>
  /\ UNCHANGED <<account, known, shown, cache, history, counters>>

\* Fault: nobody is told.
Patch_Silent(i) ==
  /\ At(i, "patch")
  /\ \/ table[req[i].code] = NoRow /\ Done(i) /\ UNCHANGED table
     \/ /\ table[req[i].code] # NoRow
        /\ Write(i, req[i].label)
        /\ Reload(i, "idle")
        /\ UNCHANGED <<req, extras, loop, msg>>
  /\ UNCHANGED <<account, known, shown, cache, history, counters>>

Patch(i) ==
  /\ At(i, "patch")
  /\ \/ table[req[i].code] = NoRow /\ Done(i) /\ UNCHANGED table
     \/ /\ table[req[i].code] # NoRow
        /\ Write(i, req[i].label)
        /\ Reload(i, "bearers")
        /\ loop' = [loop EXCEPT ![i] = [todo |-> {req[i].code}, bearers |-> {}]]
        /\ UNCHANGED <<req, extras, msg>>
  /\ UNCHANGED <<account, known, shown, cache, history, counters>>

(* users_with_role: extra roles do not count *)
UsersWithRole(c) == {u \in Users : account[u] # NoRole /\ account[u].role = c}

\* Fault: the bearers are looked up but not looked at.
FindHolders_Ignored(i) ==
  /\ At(i, "holders")
  /\ Goes(i, "delete")
  /\ UNCHANGED <<stored, cache, req, locals, history, counters>>

(* CatalogHandler.remove: a role that somebody bears is not deleted. *)
FindHolders(i) ==
  /\ At(i, "holders")
  /\ \/ UsersWithRole(req[i].code) # {} /\ Done(i)
     \/ /\ UsersWithRole(req[i].code) = {}
        /\ Goes(i, "delete")
        /\ UNCHANGED <<req, locals>>
  /\ UNCHANGED <<stored, cache, history, counters>>

\* Fault: the cache is left as it is.
Delete_NoReload(i) ==
  /\ At(i, "delete")
  /\ Write(i, NoRow)
  /\ Done(i)
  /\ UNCHANGED <<account, known, shown, cache, history, counters>>

Delete(i) ==
  /\ At(i, "delete")
  /\ \/ table[req[i].code] = NoRow /\ Done(i) /\ UNCHANGED table
     \/ /\ table[req[i].code] # NoRow
        /\ Write(i, NoRow)
        /\ Reload(i, "idle")
        /\ UNCHANGED <<req, extras, loop, msg>>
  /\ UNCHANGED <<account, known, shown, cache, history, counters>>

(* _reload_cache, first half *)
SelectRows(i) ==
  /\ At(i, "select")
  /\ load' = [load EXCEPT ![i] = [then |-> @.then, rows |-> table]]
  /\ Goes(i, "assign")
  /\ UNCHANGED <<stored, cache, req, extras, loop, msg, history, counters>>

-----------------------------------------------------------------------------
(* What the coroutine does with the rows of the cache *)


(* set: the extra roles that the body states *)
ExtrasAccepted(es, rows) == Admin \notin es /\ \A e \in es : rows[e] # NoRow

CheckSet(i, rows) ==
  LET r == req[i] IN
  \/ (rows[r.code] = NoRow \/ (r.stated = "yes" /\ ~ExtrasAccepted(extras[i], rows))) /\ Done(i)
  \/ /\ rows[r.code] # NoRow /\ r.stated = "no"
     /\ Goes(i, "stored")
     /\ UNCHANGED <<req, locals>>
  \/ /\ rows[r.code] # NoRow /\ r.stated = "yes" /\ ExtrasAccepted(extras[i], rows)
     /\ Goes(i, "put")
     /\ extras' = [extras EXCEPT ![i] = @ \ {r.code}]
     /\ UNCHANGED <<req, load, loop, msg>>

(* enrich at the start of a handler, with the rows of the cache *)
Checked(i, rows) ==
  \/ req[i].kind = "set" /\ CheckSet(i, rows)
  \/ req[i].kind = "create" /\ rows[req[i].code] # NoRow /\ Done(i)
  \/ /\ req[i].kind = "create" /\ rows[req[i].code] = NoRow
     /\ Goes(i, "insert")
     /\ UNCHANGED <<req, locals>>
  \/ req[i].kind = "register" /\ Goes(i, "put") /\ UNCHANGED <<req, locals>>
  \/ req[i].kind = "bootstrap" /\ Done(i)

Enrich(data, rows) ==
  IF data = NoRole THEN NoView
  ELSE IF rows[data.role] = NoRow THEN NoView
  ELSE [role |-> data.role, label |-> rows[data.role], extras |-> data.extras]

(* enrich in broadcast_role_change *)
Viewed(i, rows) ==
  /\ Goes(i, "send")
  /\ msg' = [msg EXCEPT ![i] = [user |-> @.user, data |-> @.data, view |-> Enrich(@.data, rows)]]
  /\ UNCHANGED <<req, extras, load, loop>>

(* What comes after a broadcast, in the loops over codes and bearers *)
NextBroadcast(i, todo, bearers) ==
  \/ todo = {} /\ bearers = {} /\ Done(i)
  \/ /\ todo # {} \/ bearers # {}
     /\ Goes(i, IF bearers # {} THEN "account" ELSE "bearers")
     /\ loop' = [loop EXCEPT ![i] = [todo |-> todo, bearers |-> bearers]]
     /\ UNCHANGED <<req, extras, load, msg>>

(* The codes that the reload handler announces: new and changed ones *)
Changed(before, after) == {c \in Codes : after[c] # NoRow /\ before[c] # after[c]}

(* enrich loads the cache only while it is empty. *)
Check(i) ==
  /\ At(i, "check")
  /\ \/ cache = Empty /\ Reload(i, "check") /\ UNCHANGED <<req, extras, loop, msg>>
     \/ cache # Empty /\ Checked(i, cache)
  /\ UNCHANGED <<stored, cache, history, counters>>

(* History of direct writes: the load of the reload handler announces what *)
(* it finds changed; any other load hides it, and only the codes that its  *)
(* request is about to announce become known.                              *)
Loaded(diff, announced) ==
  /\ written' = {}
  /\ missed' = (missed \union IF diff THEN {} ELSE written) \ announced

(* _reload_cache, second half, and on to the next await *)
AssignCache(i) ==
  LET then == load[i].then
      rows == load[i].rows
  IN  /\ At(i, "assign")
      /\ cache' = rows
      /\ Loaded(then = "diff",
                IF then = "diff" THEN Changed(req[i].before, rows) ELSE loop[i].todo)
      /\ \/ then = "idle" /\ Done(i)
         \/ then = "check" /\ Checked(i, rows)
         \/ then = "view" /\ Viewed(i, rows)
         \/ then = "bearers" /\ Goes(i, "bearers") /\ UNCHANGED <<req, locals>>
         \/ then = "diff" /\ NextBroadcast(i, Changed(req[i].before, rows), {})
      /\ UNCHANGED <<stored, granted, serial, counters>>

-----------------------------------------------------------------------------
(* The role of a user *)

\* Fault: extra roles survive a change of the main role.
Kept_Always(data, c) == IF data = NoRole THEN {} ELSE data.extras \ {c}

(* Without the key, extra roles are kept as long as the main role is. *)
Kept(data, c) == IF data = NoRole \/ data.role # c THEN {} ELSE data.extras \ {c}

ReadStored(i) ==
  /\ At(i, "stored")
  /\ extras' = [extras EXCEPT ![i] = Kept(account[req[i].user], req[i].code)]
  /\ Goes(i, "put")
  /\ UNCHANGED <<stored, cache, req, load, loop, msg, history, counters>>

(* put_global; set goes on to broadcast_role_change *)
PutRole(i) ==
  LET r == req[i] IN
  /\ At(i, "put")
  /\ account' = [account EXCEPT ![r.user] = [role |-> r.code, extras |-> extras[i]]]
  /\ \/ r.kind = "register" /\ Goes(i, "idle") /\ req' = [req EXCEPT ![i] = NoReq]
        /\ UNCHANGED <<extras, load, loop, msg>>
     \/ r.kind = "set" /\ Goes(i, "account")
        /\ loop' = [loop EXCEPT ![i] = [todo |-> {}, bearers |-> {r.user}]]
        /\ UNCHANGED <<req, extras, load, msg>>
  /\ granted' = IF r.stated = "yes" THEN granted \union ({r.user} \X {r.code} \X extras[i])
                ELSE granted
  /\ UNCHANGED <<table, known, shown, cache, written, missed, serial, counters>>

-----------------------------------------------------------------------------
(* RoleBroadcaster *)

(* broadcast_catalog_patch: the bearers of the next code *)
FindBearers(i) ==
  /\ At(i, "bearers")
  /\ \E c \in loop[i].todo : NextBroadcast(i, loop[i].todo \ {c}, UsersWithRole(c))
  /\ UNCHANGED <<stored, cache, history, counters>>

(* broadcast_role_change: the account data of the next bearer *)
ReadRole(i) ==
  /\ At(i, "account")
  /\ \E u \in loop[i].bearers :
       /\ msg' = [msg EXCEPT ![i] = [user |-> u, data |-> account[u], view |-> NoView]]
       /\ loop' = [loop EXCEPT ![i] = [todo |-> @.todo, bearers |-> @.bearers \ {u}]]
  /\ Goes(i, "view")
  /\ UNCHANGED <<stored, cache, req, extras, load, history, counters>>

MakeView(i) ==
  /\ At(i, "view")
  /\ \/ cache = Empty /\ Reload(i, "view") /\ UNCHANGED <<req, extras, loop, msg>>
     \/ cache # Empty /\ Viewed(i, cache)
  /\ UNCHANGED <<stored, cache, history, counters>>

(* The peers are read, then the message goes into every inbox. *)
SendToDevice(i) ==
  /\ At(i, "send")
  /\ shown' = [shown EXCEPT ![msg[i].user] = msg[i].view]
  /\ NextBroadcast(i, loop[i].todo, loop[i].bearers)
  /\ UNCHANGED <<table, account, known, cache, history, counters>>

-----------------------------------------------------------------------------
(* Failures *)

Broadcasting(i) ==
  \/ pc[i] \in {"bearers", "account", "send"}
  \/ pc[i] = "select" /\ load[i].then = "view"

(* A transaction raises.  Errors of a broadcast are logged; the reload     *)
(* handler goes on with its next code, every other request ends.           *)
Fail(i) ==
  /\ faults < bound.faults
  /\ faults' = faults + 1
  /\ pc[i] \notin {"idle", "check", "assign", "view"}
  /\ \/ ~(req[i].kind = "reload" /\ Broadcasting(i)) /\ Done(i)
     \/ /\ req[i].kind = "reload" /\ Broadcasting(i)
        /\ \/ pc[i] # "bearers" /\ NextBroadcast(i, loop[i].todo, {})
           \/ \E c \in loop[i].todo : pc[i] = "bearers" /\ NextBroadcast(i, loop[i].todo \ {c}, {})
  /\ serial' = "no"
  /\ UNCHANGED <<stored, cache, granted, written, missed, bound, requests, writes, restarts>>

(* The cache and the requests under way are lost; bootstrap runs again. *)
Restart(b) ==
  /\ restarts < bound.restarts
  /\ restarts' = restarts + 1
  /\ cache' = Empty
  /\ pc' = [i \in Slots |-> IF i = b THEN "seed" ELSE "idle"]
  /\ req' = [i \in Slots |-> IF i = b THEN Boot ELSE NoReq]
  /\ extras' = [i \in Slots |-> {}]
  /\ load' = [i \in Slots |-> NoLoad] /\ loop' = [i \in Slots |-> NoLoop]
  /\ msg' = [i \in Slots |-> NoMsg]
  /\ serial' = IF Quiet THEN serial ELSE "no"
  /\ UNCHANGED <<stored, granted, written, missed, bound, requests, writes, faults>>

(* An operator inserts or updates a row in psql. *)
SqlWrite(c, l) ==
  /\ c \in bound.codes /\ l \in bound.labels /\ writes < bound.writes
  /\ writes' = writes + 1
  /\ table[c] # l
  /\ table' = [table EXCEPT ![c] = l]
  /\ written' = written \union {c}
  /\ serial' = IF Quiet THEN serial ELSE "no"
  /\ UNCHANGED <<account, known, shown, cache, task, granted, missed,
                 bound, requests, faults, restarts>>

Arrives(i) ==
  /\ At(i, "idle") /\ requests < bound.requests
  /\ \/ \E u \in Users, c \in Codes, es \in SUBSET Codes, stated \in {"yes", "no"} :
          SetRole(i, u, c, stated, es)
     \/ \E c \in Codes, l \in Labels : CreateRole(i, c, l) \/ UpdateRole(i, c, l)
     \/ \E c \in Codes : RemoveRole(i, c)
     \/ ReloadCatalog(i)
     \/ \E u \in Users : OnUserRegistration(i, u)

Runs(i) ==
  \/ Seed(i) \/ Check(i) \/ Add(i) \/ Patch(i) \/ FindHolders(i) \/ Delete(i)
  \/ SelectRows(i) \/ AssignCache(i) \/ ReadStored(i) \/ PutRole(i)
  \/ FindBearers(i) \/ ReadRole(i) \/ MakeView(i) \/ SendToDevice(i)

Next ==
  \/ \E i \in Slots : Arrives(i) \/ Runs(i) \/ Fail(i) \/ Restart(i)
  \/ \E c \in Codes, l \in Labels : SqlWrite(c, l)

Spec == Init /\ [][Next]_vars

-----------------------------------------------------------------------------
(* Properties *)

(* An extra role was stated by some request together with the main role    *)
(* that the user has now: a change of the main role never carries one      *)
(* over, however requests for one user interleave.                         *)
ExtrasWereGranted ==
  \A u \in Users : account[u] # NoRole =>
    \A e \in account[u].extras : <<u, account[u].role, e>> \in granted

(* While requests come one after the other, nobody bears a role that is    *)
(* not in the table: set looks for the role in the cache only, remove      *)
(* looks for bearers in the account data, and this holds over loads,       *)
(* direct writes and restarts.  Excepted are the default role, which       *)
(* registration gives without looking, extra roles, which remove ignores,  *)
(* and requests that overlap or fail: a set between the two steps of a     *)
(* remove is not seen by it.                                               *)
SerialRolesExist ==
  serial = "yes" =>
    \A u \in Users : account[u] # NoRole /\ account[u].role # Default
      => table[account[u].role] # NoRow

(* When requests come one after the other, the cache is the table after    *)
(* each of them, and after a restart, but for rows written directly since  *)
(* the last load.                                                          *)
SerialCacheIsTable ==
  Quiet /\ serial = "yes" => \A c \in Codes \ written : cache[c] = table[c]

(* When requests come one after the other, what clients were last told of  *)
(* a user is the user's role as it is, after every change of the user, of  *)
(* the catalogue, and of the table followed by a reload.  (A direct write  *)
(* that the load of another request has hidden from the reload handler is  *)
(* announced only when the row is changed again.)                          *)
SerialViewsAreCurrent ==
  Quiet /\ serial = "yes" =>
    \A u \in Users : shown[u] # Unsent /\ account[u].role \notin written \union missed
      => shown[u] = Enrich(account[u], table)
=============================================================================
