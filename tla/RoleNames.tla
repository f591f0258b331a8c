----------------------------- MODULE RoleNames ------------------------------
(***************************************************************************)
(* How a role gets its name, changes it and gives it back.  uniquenamed      *)
(* keeps the names of all zones and the slots of every account; each zone    *)
(* has a gamedbd with the roles, and a gdeliveryd that reserves the name     *)
(* (Pre...), writes the role (DB...) and tells uniquenamed the outcome       *)
(* (Post...).  The daemons answer calls from a pool of threads, so messages  *)
(* are served in any order; a call whose answer does not come in time is     *)
(* given up, and an answer that comes later is dropped (io/rpc.h).           *)
(*                                                                           *)
(* A role id is an account's logicuid plus a slot: here the pair.  A pocket, *)
(* an occupation, the referrer and the like are left out: a write they make  *)
(* fail is a write that may fail.  A deletion is executed a week after it    *)
(* was asked for, when all earlier messages about the role have arrived.     *)
(* Messages on their way are a set: two equal ones count as one.             *)
(***************************************************************************)
EXTENDS Integers

CONSTANTS
  User, OldUser,     \* accounts; those whose logicuid is their userid
  Zone, Name, NoName,
  MaxRole,           \* slots of an account (MAX_ROLE_COUNT)
  Call,              \* creations and changes of name under way at once
  NoRole,
  MaxRequest, MaxExpiry,   \* bounds of what players ask for
  MaxPreTimeout, MaxDBTimeout, MaxResend, MaxLost, MaxCrash,   \* bounds of the faults
  LostKinds          \* kinds of notices that may be lost

ASSUME NamesAssumption == NoName \notin Name /\ OldUser \subseteq User
ASSUME BoundsAssumption ==
  {MaxRole, MaxRequest, MaxExpiry,
   MaxPreTimeout, MaxDBTimeout, MaxResend, MaxLost, MaxCrash} \subseteq Nat

Slot == 0 .. MaxRole - 1
Role == User \X Slot
ASSUME NoRoleAssumption == NoRole \notin Role

VARIABLES
  unamerole,   \* uniquenamed: the zone, role and status of a name
  uidrole,     \* uniquenamed: slots of each account in use
  base,        \* gamedbd of each zone: the name of each role
  rolename,    \* gamedbd: the role of each name, old names included
  rolelist,    \* gamedbd, table user: slots of each account
  waitdel,     \* gamedbd: roles marked for deletion
  call,        \* gdeliveryd: the calls of creations and changes of name
  deletion,    \* DBDeleteRole calls
  notice,      \* what is on its way to uniquenamed
  unanswered,  \* PostCreateRole calls gdeliveryd will send again
  left         \* requests, timeouts, late answers, losses and crashes left

gamedb == <<base, rolename, rolelist, waitdel>>
unique == <<unamerole, uidrole>>
vars == <<unique, gamedb, call, deletion, notice, unanswered, left>>

Entry == [zone : Zone, role : Role, status : {"ENGAGED", "USED", "OBSOLETE"}]
Free == [status |-> "free"]

Idle == [at |-> "idle"]
\* A call on its way: at uniquenamed ("pre"), back ("pre_re"), at gamedbd
\* ("db"), back ("db_re"); "waiting" while gdeliveryd has not given it up.
Calls == [at : {"pre", "pre_re", "db", "db_re"}, waiting : BOOLEAN,
          kind : {"create", "rename"}, zone : Zone, user : User, name : Name,
          role : Role \cup {NoRole}, ret : {"none", "ok", "exists", "failed"},
          old : Name \cup {NoName}]

Notices == [kind : {"create", "rename", "delete"}, zone : Zone, role : Role,
            name : Name \cup {NoName}, old : Name \cup {NoName}, ok : BOOLEAN, copy : Nat]

Deletions == [zone : Zone, role : Role, by : {"announce", "login", "rollback"}, waiting : BOOLEAN,
              at : {"db", "db_re"}, ok : BOOLEAN, name : Name \cup {NoName}]

Init ==
  /\ unamerole = [n \in Name |-> Free]
  /\ uidrole = [u \in User |-> {}]
  /\ base = [z \in Zone |-> [r \in Role |-> NoName]]
  /\ rolename = [z \in Zone |-> [n \in Name |-> NoRole]]
  /\ rolelist = [z \in Zone |-> [u \in User |-> {}]]
  /\ waitdel = [z \in Zone |-> {}]
  /\ call = [k \in Call |-> Idle]
  /\ deletion = {} /\ notice = {} /\ unanswered = {}
  /\ left = [request |-> MaxRequest, expiry |-> MaxExpiry, pre |-> MaxPreTimeout, db |-> MaxDBTimeout,
               resend |-> MaxResend, lost |-> MaxLost, crash |-> MaxCrash]

Spend(f) == left[f] > 0 /\ left' = [left EXCEPT ![f] = @ - 1]

--------------------------------------------------------------------------
(* Requests of players, at gdeliveryd. *)

Start(k, kind, z, u, r, n) ==
  /\ call[k] = Idle
  /\ call' = [call EXCEPT ![k] =
       [at |-> "pre", waiting |-> TRUE, kind |-> kind, zone |-> z, user |-> u,
        name |-> n, role |-> r, ret |-> "none", old |-> NoName]]
  /\ Spend("request")
  /\ UNCHANGED <<unique, gamedb, deletion, notice, unanswered>>

CreateRole(k, z, u, n) == Start(k, "create", z, u, NoRole, n)

\* For a role in the game: it exists and is not marked for deletion.
PlayerRename(k, z, r, n) ==
  /\ base[z][r] # NoName /\ r \notin waitdel[z]
  /\ Start(k, "rename", z, r[1], r, n)

DelRole(z, r) ==
  /\ base[z][r] # NoName /\ r \notin waitdel[z]
  /\ waitdel' = [waitdel EXCEPT ![z] = @ \cup {r}]
  /\ UNCHANGED <<unique, base, rolename, rolelist, call, deletion, notice, unanswered, left>>

UndoDeleteRole(z, r) ==
  /\ base[z][r] # NoName /\ r \in waitdel[z]
  /\ waitdel' = [waitdel EXCEPT ![z] = @ \ {r}]
  /\ UNCHANGED <<unique, base, rolename, rolelist, call, deletion, notice, unanswered, left>>

--------------------------------------------------------------------------
(* Reservation at uniquenamed. *)

Answer(k, c) == call' = [call EXCEPT ![k] = c]

\* A reservation, if the name has no entry of any age.
Engage(c, r) == [c EXCEPT !.at = "pre_re", !.ret = "ok", !.role = r]

\* Mutant: a reservation is taken over, as the test of its age suggests.
ReservableStale(n) == unamerole[n].status \in {"free", "ENGAGED"}
Reservable(n) == unamerole[n] = Free

LowestFree(u, s) ==
  /\ s \in Slot \ uidrole[u]
  /\ \A t \in Slot : t < s => t \in uidrole[u]

\* Mutant: the slot is not looked at; an account without one gets slot -1.
PreCreateRoleUnchecked(k) ==
  LET c == call[k] IN
  /\ c.at = "pre" /\ c.kind = "create" /\ Reservable(c.name)
  /\ \E s \in -1 .. MaxRole - 1 :
       /\ IF uidrole[c.user] = Slot THEN s = -1 ELSE LowestFree(c.user, s)
       /\ unamerole' = [unamerole EXCEPT ![c.name] =
            [zone |-> c.zone, role |-> <<c.user, s>>, status |-> "ENGAGED"]]
       /\ uidrole' = [uidrole EXCEPT ![c.user] = @ \cup {s}]
       /\ Answer(k, Engage(c, <<c.user, s>>))
  /\ UNCHANGED <<gamedb, deletion, notice, unanswered, left>>

PreCreateRole(k) ==
  LET c == call[k] IN
  /\ c.at = "pre" /\ c.kind = "create"
  /\ \/ /\ ~Reservable(c.name) \/ uidrole[c.user] = Slot
        /\ Answer(k, [c EXCEPT !.at = "pre_re", !.ret = "failed"])
        /\ UNCHANGED unique
     \/ /\ Reservable(c.name)
        /\ \E s \in Slot :
             /\ LowestFree(c.user, s)
             /\ unamerole' = [unamerole EXCEPT ![c.name] =
                  [zone |-> c.zone, role |-> <<c.user, s>>, status |-> "ENGAGED"]]
             /\ uidrole' = [uidrole EXCEPT ![c.user] = @ \cup {s}]
             /\ Answer(k, Engage(c, <<c.user, s>>))
  /\ UNCHANGED <<gamedb, deletion, notice, unanswered, left>>

PrePlayerRename(k) ==
  LET c == call[k] IN
  /\ c.at = "pre" /\ c.kind = "rename"
  /\ \/ /\ ~Reservable(c.name)
        /\ Answer(k, [c EXCEPT !.at = "pre_re", !.ret = "failed"])
        /\ UNCHANGED unamerole
     \/ /\ Reservable(c.name)
        /\ unamerole' = [unamerole EXCEPT ![c.name] =
             [zone |-> c.zone, role |-> c.role, status |-> "ENGAGED"]]
        /\ Answer(k, Engage(c, c.role))
  /\ UNCHANGED <<uidrole, gamedb, deletion, notice, unanswered, left>>

\* PreCreateRole::Client and PrePlayerRename::Client.
PreClient(k) ==
  LET c == call[k] IN
  /\ c.at = "pre_re"
  /\ \/ c.waiting /\ c.ret = "ok" /\ Answer(k, [c EXCEPT !.at = "db", !.ret = "none"])
     \/ ~(c.waiting /\ c.ret = "ok") /\ Answer(k, Idle)
  /\ UNCHANGED <<unique, gamedb, deletion, notice, unanswered, left>>

--------------------------------------------------------------------------
(* The write in gamedbd. *)

Inserted(z, r, n) ==
  /\ base' = [base EXCEPT ![z][r] = n]
  /\ rolename' = [rolename EXCEPT ![z][n] = r]

\* Mutant: the account's list of slots is not written.
DBCreateRoleUnlisted(k) ==
  LET c == call[k]  z == c.zone IN
  /\ c.at = "db" /\ c.kind = "create"
  /\ rolename[z][c.name] = NoRole /\ base[z][c.role] = NoName
  /\ Inserted(z, c.role, c.name)
  /\ Answer(k, [c EXCEPT !.at = "db_re", !.ret = "ok"])
  /\ UNCHANGED <<rolelist, waitdel, unique, deletion, notice, unanswered, left>>

DBCreateRole(k) ==
  LET c == call[k]  z == c.zone  r == c.role
      done(ret, old) == Answer(k, [c EXCEPT !.at = "db_re", !.ret = ret, !.old = old])
  IN
  /\ c.at = "db" /\ c.kind = "create"
  /\ \/ done("failed", NoName) /\ UNCHANGED gamedb
     \/ /\ rolename[z][c.name] = NoRole /\ r[2] \in rolelist[z][r[1]]
        /\ done("exists", base[z][r]) /\ UNCHANGED gamedb
     \/ /\ rolename[z][c.name] = NoRole /\ r[2] \notin rolelist[z][r[1]]
        /\ base[z][r] = NoName
        /\ Inserted(z, r, c.name)
        /\ rolelist' = [rolelist EXCEPT ![z][r[1]] = @ \cup {r[2]}]
        /\ done("ok", NoName) /\ UNCHANGED waitdel
  /\ UNCHANGED <<unique, deletion, notice, unanswered, left>>

\* The old name stays in the table rolename, as obsolete.
DBPlayerRename(k) ==
  LET c == call[k]  z == c.zone
      done(ret, old) == Answer(k, [c EXCEPT !.at = "db_re", !.ret = ret, !.old = old])
  IN
  /\ c.at = "db" /\ c.kind = "rename"
  /\ \/ done("failed", NoName) /\ UNCHANGED gamedb
     \/ /\ rolename[z][c.name] = NoRole /\ base[z][c.role] # NoName
        /\ rolename[z][base[z][c.role]] # NoRole
        /\ Inserted(z, c.role, c.name)
        /\ done("ok", base[z][c.role]) /\ UNCHANGED <<rolelist, waitdel>>
  /\ UNCHANGED <<unique, deletion, notice, unanswered, left>>

--------------------------------------------------------------------------
(* What gdeliveryd tells uniquenamed. *)

Post(kind, z, r, n, old, ok) ==
  [kind |-> kind, zone |-> z, role |-> r, name |-> n, old |-> old, ok |-> ok, copy |-> 0]

Tell(m) == notice' = notice \cup {m}

\* The outcome of a creation: of a slot that was in use, that its role and
\* the name it has are in use.
Created(c) ==
  Post("create", c.zone, c.role, IF c.ret = "exists" THEN c.old ELSE c.name, NoName, c.ret # "failed")

DBCreateRoleClient(k) ==
  LET c == call[k]  m == Created(c) IN
  /\ c.at = "db_re" /\ c.kind = "create"
  /\ Answer(k, Idle)
  /\ \/ c.waiting /\ Tell(m) /\ unanswered' = unanswered \cup {m}
     \/ ~c.waiting /\ UNCHANGED <<notice, unanswered>>
  /\ UNCHANGED <<unique, gamedb, deletion, left>>

DBPlayerRenameClient(k) ==
  LET c == call[k] IN
  /\ c.at = "db_re" /\ c.kind = "rename"
  /\ Answer(k, Idle)
  /\ \/ c.waiting /\ Tell(Post("rename", c.zone, c.role, c.name, c.old, c.ret = "ok"))
     \/ ~c.waiting /\ UNCHANGED notice
  /\ UNCHANGED <<unique, gamedb, deletion, unanswered, left>>

\* The player is told, and nobody else.
PreOnTimeout(k) ==
  /\ call[k].at \in {"pre", "pre_re"} /\ call[k].waiting
  /\ Answer(k, [call[k] EXCEPT !.waiting = FALSE])
  /\ Spend("pre")
  /\ UNCHANGED <<unique, gamedb, deletion, notice, unanswered>>

\* The creation is undone in gamedbd and in uniquenamed, at once.
DBCreateRoleOnTimeout(k) ==
  LET c == call[k]  m == Created([c EXCEPT !.ret = "failed"]) IN
  /\ c.at \in {"db", "db_re"} /\ c.waiting /\ c.kind = "create"
  /\ Answer(k, [c EXCEPT !.waiting = FALSE])
  /\ deletion' = deletion \cup {[zone |-> c.zone, role |-> c.role, by |-> "rollback",
                                 waiting |-> TRUE, at |-> "db", ok |-> FALSE, name |-> NoName]}
  /\ Tell(m) /\ unanswered' = unanswered \cup {m}
  /\ Spend("db")
  /\ UNCHANGED <<unique, gamedb>>

DBPlayerRenameOnTimeout(k) ==
  LET c == call[k] IN
  /\ c.at \in {"db", "db_re"} /\ c.waiting /\ c.kind = "rename"
  /\ Answer(k, [c EXCEPT !.waiting = FALSE])
  /\ Tell(Post("rename", c.zone, c.role, c.name, NoName, FALSE))
  /\ Spend("db")
  /\ UNCHANGED <<unique, gamedb, deletion, unanswered>>

SetName(n, e) == unamerole' = [x \in Name |-> IF x = n THEN e ELSE unamerole[x]]
Used(m) == [zone |-> m.zone, role |-> m.role, status |-> "USED"]
FreeSlot(r) == uidrole' = [uidrole EXCEPT ![r[1]] = @ \ {r[2]}]

\* The answer may be late, or be lost.
PostCreateRole(m) ==
  /\ m \in notice /\ m.kind = "create"
  /\ notice' = notice \ {m}
  /\ \/ m.ok /\ SetName(m.name, Used(m)) /\ UNCHANGED uidrole
     \/ ~m.ok /\ SetName(m.name, Free) /\ FreeSlot(m.role)
  /\ \/ unanswered' = unanswered \ {m} /\ UNCHANGED left
     \/ m \in unanswered /\ Spend("resend") /\ UNCHANGED unanswered
  /\ UNCHANGED <<gamedb, call, deletion>>

\* Mutant: a call without an answer is given up.
PostCreateRoleGivenUp(m) ==
  /\ m \in unanswered \ notice
  /\ unanswered' = unanswered \ {m}
  /\ UNCHANGED <<unique, gamedb, call, deletion, notice, left>>

\* Sent again until it is answered.

PostCreateRoleOnTimeout(m) ==
  LET again == [m EXCEPT !.copy = @ + 1] IN
  /\ m \in unanswered
  /\ Tell(again) /\ unanswered' = (unanswered \ {m}) \cup {again}
  /\ \/ m \notin notice /\ UNCHANGED left
     \/ m \in notice /\ Spend("resend")   \* it is only slow
  /\ UNCHANGED <<unique, gamedb, call, deletion>>

\* The old name becomes obsolete if it is this role's; it stays taken.
Obsolete(m, n) ==
  unamerole[n] # Free /\ m.old = n /\ unamerole[n].role = m.role

\* Mutant: the old name is free again.
PostPlayerRenameFrees(m) ==
  /\ m \in notice /\ m.kind = "rename"
  /\ notice' = notice \ {m}
  /\ unamerole' = [n \in Name |->
       IF n = m.name /\ m.ok THEN Used(m)
       ELSE IF n = m.name \/ Obsolete(m, n) THEN Free ELSE unamerole[n]]
  /\ UNCHANGED <<uidrole, gamedb, call, deletion, unanswered, left>>

PostPlayerRename(m) ==
  /\ m \in notice /\ m.kind = "rename"
  /\ notice' = notice \ {m}
  /\ \/ /\ m.ok
        /\ unamerole' = [n \in Name |->
             IF n = m.name THEN Used(m)
             ELSE IF Obsolete(m, n) THEN [unamerole[n] EXCEPT !.status = "OBSOLETE"]
             ELSE unamerole[n]]
     \/ ~m.ok /\ SetName(m.name, Free)
  /\ UNCHANGED <<uidrole, gamedb, call, deletion, unanswered, left>>

PostDeleteRole(m) ==
  /\ m \in notice /\ m.kind = "delete"
  /\ notice' = notice \ {m}
  /\ SetName(m.name, Free) /\ FreeSlot(m.role)
  /\ UNCHANGED <<gamedb, call, deletion, unanswered, left>>

--------------------------------------------------------------------------
(* Deletion of a role, and the rollback of a creation. *)

\* A week after DelRole nothing earlier about the role is under way.
Settled(z, r) ==
  /\ \A k \in Call : call[k] # Idle => ~(call[k].zone = z /\ call[k].role = r)
  /\ \A m \in notice \cup unanswered : ~(m.zone = z /\ m.role = r)

\* Found expired by DelRoleAnnounce, or by GetRoleInfo at a login.
Expire(z, r, by) ==
  /\ r \in waitdel[z] /\ Settled(z, r)
  /\ deletion' = deletion \cup {[zone |-> z, role |-> r, by |-> by, waiting |-> TRUE,
                                 at |-> "db", ok |-> FALSE, name |-> NoName]}
  /\ Spend("expiry")
  /\ UNCHANGED <<unique, gamedb, call, notice, unanswered>>

\* Mutant: the account's list of slots keeps the role.
DBDeleteRoleListed(d) ==
  LET z == d.zone  r == d.role  n == base[z][r] IN
  /\ d \in deletion /\ d.at = "db" /\ n # NoName
  /\ base' = [base EXCEPT ![z][r] = NoName]
  /\ rolename' = [rolename EXCEPT ![z][n] = NoRole]
  /\ waitdel' = [waitdel EXCEPT ![z] = @ \ {r}]
  /\ deletion' = (deletion \ {d}) \cup {[d EXCEPT !.at = "db_re", !.ok = TRUE, !.name = n]}
  /\ UNCHANGED <<rolelist, unique, call, notice, unanswered, left>>

\* The account's row is found by the role, or else by the role's logicuid.
DBDeleteRole(d) ==
  LET z == d.zone  r == d.role  n == base[z][r]
      done(ok) == deletion' = (deletion \ {d}) \cup
                    {[d EXCEPT !.at = "db_re", !.ok = ok, !.name = IF ok THEN n ELSE NoName]}
  IN
  /\ d \in deletion /\ d.at = "db"
  /\ \/ /\ IF n = NoName THEN r[1] \notin OldUser ELSE d.by = "rollback"   \* the role is too old
        /\ done(FALSE) /\ UNCHANGED gamedb
     \/ /\ n # NoName \/ r[1] \in OldUser
        /\ rolelist' = [rolelist EXCEPT ![z][r[1]] = @ \ {r[2]}]
        /\ base' = [base EXCEPT ![z][r] = NoName]
        /\ rolename' = [rolename EXCEPT ![z] = [x \in Name |-> IF x = n THEN NoRole ELSE @[x]]]
        /\ waitdel' = [waitdel EXCEPT ![z] = @ \ {r}]
        /\ done(TRUE)
  /\ UNCHANGED <<unique, call, notice, unanswered, left>>

DBDeleteRoleClient(d) ==
  /\ d \in deletion /\ d.at = "db_re"
  /\ deletion' = deletion \ {d}
  /\ \/ d.waiting /\ d.ok /\ d.by # "rollback" /\ Tell(Post("delete", d.zone, d.role, d.name, NoName, FALSE))
     \/ ~(d.waiting /\ d.ok /\ d.by # "rollback") /\ UNCHANGED notice
  /\ UNCHANGED <<unique, gamedb, call, unanswered, left>>

\* The link to uniquenamed breaks with a notice on its way; a deletion whose
\* answer comes too late for gdeliveryd loses its notice in the same way.
Lose(m) ==
  /\ m \in notice /\ m.kind \in LostKinds
  /\ notice' = notice \ {m}
  /\ Spend("lost")
  /\ UNCHANGED <<unique, gamedb, call, deletion, unanswered>>

\* gdeliveryd of a zone ends: what it has sent is served, what it waits for
\* is dropped when it comes.
Crash(z) ==
  /\ call' = [k \in Call |-> IF call[k] # Idle /\ call[k].zone = z
                             THEN [call[k] EXCEPT !.waiting = FALSE] ELSE call[k]]
  /\ deletion' = {IF d.zone = z THEN [d EXCEPT !.waiting = FALSE] ELSE d : d \in deletion}
  /\ unanswered' = {m \in unanswered : m.zone # z}
  /\ Spend("crash")
  /\ UNCHANGED <<unique, gamedb, notice>>

--------------------------------------------------------------------------
Request ==
  \/ \E k \in Call, z \in Zone, n \in Name :
       \/ \E u \in User : CreateRole(k, z, u, n)
       \/ \E r \in Role : PlayerRename(k, z, r, n)
  \/ \E z \in Zone, r \in Role :
       DelRole(z, r) \/ UndoDeleteRole(z, r) \/ \E by \in {"announce", "login"} : Expire(z, r, by)

CallStep(k) ==
  \/ PreCreateRole(k) \/ PrePlayerRename(k) \/ PreClient(k) \/ DBCreateRole(k) \/ DBPlayerRename(k)
  \/ DBCreateRoleClient(k) \/ DBPlayerRenameClient(k)

Noticed(m) ==
  \/ PostCreateRole(m) \/ PostPlayerRename(m) \/ PostDeleteRole(m)
  \/ PostCreateRoleOnTimeout(m)

Deleting == \E d \in deletion : DBDeleteRole(d) \/ DBDeleteRoleClient(d)

Fault ==
  \/ \E k \in Call : PreOnTimeout(k) \/ DBCreateRoleOnTimeout(k) \/ DBPlayerRenameOnTimeout(k)
  \/ \E m \in notice : Lose(m)
  \/ \E z \in Zone : Crash(z)

Next ==
  \/ Request \/ Deleting \/ Fault
  \/ \E k \in Call : CallStep(k)
  \/ \E m \in notice \cup unanswered : Noticed(m)

Spec == Init /\ [][Next]_vars

\* The pools serve what arrives and handle what is answered; a call that is
\* not answered ends by its timeout.
NoticedOf(n) == \E m \in notice \cup unanswered : m.name = n /\ Noticed(m)
Fairness ==
  /\ \A k \in Call : WF_vars(CallStep(k))
  /\ \A n \in Name : WF_vars(NoticedOf(n))
FairSpec == Spec /\ Fairness

--------------------------------------------------------------------------
TypeOK ==
  /\ unamerole \in [Name -> Entry \cup {Free}]
  /\ uidrole \in [User -> SUBSET Slot]
  /\ base \in [Zone -> [Role -> Name \cup {NoName}]]
  /\ rolename \in [Zone -> [Name -> Role \cup {NoRole}]]
  /\ rolelist \in [Zone -> [User -> SUBSET Slot]]
  /\ waitdel \in [Zone -> SUBSET Role]
  /\ call \in [Call -> Calls \cup {Idle}]
  /\ deletion \subseteq Deletions /\ notice \subseteq Notices /\ unanswered \subseteq Notices
  /\ left \in [{"request", "expiry", "pre", "db", "resend", "lost", "crash"} -> Nat]

\* No write in gamedbd has timed out; every PostCreateRole was answered in time.
WritesInTime == left.db = MaxDBTimeout
PostsInTime == left.resend = MaxResend

\* No name that a role of one zone has or had is a role's of another: the
\* table rolename makes a name unique in its zone, the exchanges with
\* uniquenamed between zones, whatever is lost and whoever crashes, as long
\* as no timeout undoes what may still happen.
NameUnique ==
  WritesInTime /\ PostsInTime =>
    \A n \in Name, y, z \in Zone :
      rolename[y][n] # NoRole /\ rolename[z][n] # NoRole => y = z

\* A role's row, its name's row and its account's list of slots agree after any
\* history of creations, changes of name, deletions and rollbacks.
RowsAgree ==
  \A z \in Zone, u \in User, s \in Slot :
    LET n == base[z][<<u, s>>] IN
    /\ n # NoName => rolename[z][n] = <<u, s>>
    /\ s \in rolelist[z][u] <=> n # NoName

\* The names of all zones are taken and given back as in NameRegistry.
holders == [n \in Name |-> {<<z, rolename[z][n]>> : z \in {y \in Zone : rolename[y][n] # NoRole}}]
Registry == INSTANCE NameRegistry WITH Holder <- Zone \X Role
RegistrySpec == Registry!Spec

\* Each reservation is decided some time, the name used or free again, though
\* writes time out and are undone, and notices of creations are lost, or answered
\* late and sent again; unless gamedbd answers that the slot has a role: then
\* that role's name is confirmed (dbcreaterole.hrp:67-73), and the reserved one may
\* stay so for ever.  So may one whose reservation is answered too late, whose
\* gdeliveryd crashes or whose change of name loses its post: the property is for
\* instances without these three.
Reserving(n) == \E k \in Call : call[k].at = "pre_re" /\ call[k].name = n /\ call[k].ret = "ok"
SlotInUse(n) ==
  \E k \in Call :
    call[k].at = "db_re" /\ call[k].waiting /\ call[k].name = n /\ call[k].ret = "exists"
Settles ==
  \A n \in Name : Reserving(n) ~> unamerole[n].status # "ENGAGED" \/ SlotInUse(n)
=============================================================================
