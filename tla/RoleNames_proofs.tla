-------------------------- MODULE RoleNames_proofs --------------------------
(***************************************************************************)
(* Proofs about RoleNames.  What makes a name unique is that whoever may     *)
(* give a name a role, or may free the name in uniquenamed, has a claim on   *)
(* it: the row of the name in a gamedbd, a call that has reserved the name   *)
(* and is not written yet, a deletion that uniquenamed has not been told of, *)
(* a notice on its way that will free the name.  As long as writes and posts *)
(* are answered in time a name has one claim at most, and no claim when it   *)
(* is free in uniquenamed.                                                   *)
(***************************************************************************)
EXTENDS RoleNames, TLAPS

\* Zones, calls, deletions and notices with a claim on a name.
RowClaims(n) == {z \in Zone : rolename[z][n] # NoRole}
Failed(c) == IF c.kind = "create" THEN c.ret = "failed" ELSE c.ret # "ok"
Claiming(c, n) ==
  /\ c # Idle /\ c.name = n
  /\ \/ c.at = "pre_re" /\ c.ret = "ok"
     \/ c.at = "db"
     \/ c.at = "db_re" /\ Failed(c)
CallClaims(n) == {k \in Call : Claiming(call[k], n)}
DeletionClaims(n) == {d \in deletion : d.at = "db_re" /\ d.ok /\ d.name = n}
Frees(m) == ~m.ok \/ m.kind = "delete"
NoticeClaims(n) == {m \in notice \cup unanswered : Frees(m) /\ m.name = n}

Tagged(R, C, D, N) ==
  ({"row"} \X R) \cup ({"call"} \X C) \cup ({"deletion"} \X D) \cup ({"notice"} \X N)
Claims(n) == Tagged(RowClaims(n), CallClaims(n), DeletionClaims(n), NoticeClaims(n))

AtMostOne(S) == \A x, y \in S : x = y
OneClaim(n) ==
  /\ AtMostOne(Claims(n))
  /\ Claims(n) # {} => unamerole[n] # Free

InTime == WritesInTime /\ PostsInTime

\* Only PostCreateRole is a call.
OnlyCreations == \A m \in unanswered : m.kind = "create"

LeftBound == left.db <= MaxDBTimeout /\ left.resend <= MaxResend

\* A call that has its reservation has a role.
CallHasRole ==
  \A k \in Call :
    call[k] # Idle /\ (call[k].at \in {"db", "db_re"} \/ call[k].ret = "ok" \/ call[k].kind = "rename")
      => call[k].role \in Role

Typed == TypeOK /\ LeftBound /\ CallHasRole

IInv ==
  /\ Typed /\ RowsAgree /\ OnlyCreations
  /\ InTime => \A n \in Name : OneClaim(n)

----------------------------------------------------------------------------
(* What a state is made of. *)

Budgets == {"request", "expiry", "pre", "db", "resend", "lost", "crash"}

LEMMA RoleParts ==
  ASSUME NEW r \in Role
  PROVE  r[1] \in User /\ r[2] \in Slot /\ r = <<r[1], r[2]>>
BY DEF Role

LEMMA CallTyped ==
  ASSUME TypeOK, NEW k \in Call, call[k] # Idle
  PROVE  call[k] \in Calls
BY DEF TypeOK

LEMMA NotIdle ==
  ASSUME NEW k \in Call, call[k].at \in {"pre", "pre_re", "db", "db_re"}
  PROVE  call[k] # Idle
BY DEF Idle

\* The fields of a call change one at a time.
LEMMA CallFields ==
  ASSUME NEW c \in Calls
  PROVE  /\ c.at \in {"pre", "pre_re", "db", "db_re"} /\ c.waiting \in BOOLEAN
         /\ c.kind \in {"create", "rename"} /\ c.zone \in Zone /\ c.user \in User
         /\ c.name \in Name /\ c.role \in Role \cup {NoRole}
         /\ c.ret \in {"none", "ok", "exists", "failed"} /\ c.old \in Name \cup {NoName}
BY DEF Calls

LEMMA Answered ==
  ASSUME TypeOK, NEW k \in Call, NEW c \in Calls \cup {Idle}, Answer(k, c)
  PROVE  /\ call' \in [Call -> Calls \cup {Idle}]
         /\ call'[k] = c
         /\ \A j \in Call : j # k => call'[j] = call[j]
BY DEF TypeOK, Answer

LEMMA Spent ==
  ASSUME TypeOK, LeftBound, NEW f \in Budgets, Spend(f)
  PROVE  /\ left' \in [Budgets -> Nat]
         /\ LeftBound'
         /\ WritesInTime' => WritesInTime /\ f # "db"
         /\ PostsInTime' => PostsInTime /\ f # "resend"
<1>. USE BoundsAssumption
<1>1. left \in [Budgets -> Nat] /\ left[f] > 0 /\ left' = [left EXCEPT ![f] = @ - 1]
  BY DEF TypeOK, Spend, Budgets
<1>2. left' \in [Budgets -> Nat] /\ \A g \in Budgets : left'[g] = IF g = f THEN left[g] - 1 ELSE left[g]
  BY <1>1
<1>3. "db" \in Budgets /\ "resend" \in Budgets
  BY DEF Budgets
<1>. QED  BY <1>1, <1>2, <1>3 DEF LeftBound, WritesInTime, PostsInTime

LEMMA NoticeFields ==
  ASSUME NEW m \in Notices
  PROVE  /\ m.zone \in Zone /\ m.role \in Role /\ m.name \in Name \cup {NoName}
         /\ m.old \in Name \cup {NoName} /\ m.ok \in BOOLEAN /\ m.copy \in Nat
         /\ m.kind \in {"create", "rename", "delete"}
BY DEF Notices

LEMMA Posted ==
  ASSUME NEW kind \in {"create", "rename", "delete"}, NEW z \in Zone, NEW r \in Role,
         NEW n \in Name \cup {NoName}, NEW old \in Name \cup {NoName}, NEW ok \in BOOLEAN
  PROVE  Post(kind, z, r, n, old, ok) \in Notices
BY DEF Post, Notices

\* A call that is answered, or given up, leaves the calls what they are.
LEMMA AnsweredTyped ==
  ASSUME Typed, NEW k \in Call, NEW c \in Calls \cup {Idle}, Answer(k, c),
         c # Idle => c.role \in Role \/ (c.kind = "create" /\ c.at \in {"pre", "pre_re"} /\ c.ret # "ok")
  PROVE  call' \in [Call -> Calls \cup {Idle}] /\ CallHasRole'
<1>1. /\ call' \in [Call -> Calls \cup {Idle}] /\ call'[k] = c
      /\ \A j \in Call : j # k => call'[j] = call[j]
  BY Answered DEF Typed
<1>2. ASSUME NEW j \in Call, call'[j] # Idle,
             call'[j].at \in {"db", "db_re"} \/ call'[j].ret = "ok" \/ call'[j].kind = "rename"
      PROVE  call'[j].role \in Role
  <2>1. CASE j = k
    BY <1>1, <1>2, <2>1
  <2>2. CASE j # k
    BY <1>1, <1>2, <2>2 DEF Typed, CallHasRole
  <2>. QED  BY <2>1, <2>2
<1>. QED  BY <1>1, <1>2 DEF CallHasRole

\* What a call is made of, once it is past its reservation.
LEMMA CallWithRole ==
  ASSUME Typed, NEW k \in Call, call[k].at \in {"db", "db_re"} \/ (call[k] # Idle /\ call[k].ret = "ok")
  PROVE  call[k] \in Calls /\ call[k] # Idle /\ call[k].role \in Role
<1>1. call[k] # Idle
  BY DEF Idle
<1>. QED  BY <1>1, CallTyped DEF Typed, CallHasRole

LEMMA TypedStart ==
  ASSUME Typed, NEW k \in Call, NEW kind \in {"create", "rename"}, NEW z \in Zone, NEW u \in User,
         NEW r \in Role \cup {NoRole}, NEW n \in Name, kind = "rename" => r \in Role,
         Start(k, kind, z, u, r, n)
  PROVE  Typed'
<1> DEFINE c == [at |-> "pre", waiting |-> TRUE, kind |-> kind, zone |-> z, user |-> u,
                 name |-> n, role |-> r, ret |-> "none", old |-> NoName]
<1>1. c \in Calls /\ Answer(k, c)
  BY DEF Calls, Start, Answer
<1>2. call' \in [Call -> Calls \cup {Idle}] /\ CallHasRole'
  <2>1. c.role \in Role \/ (c.kind = "create" /\ c.at \in {"pre", "pre_re"} /\ c.ret # "ok")
    OBVIOUS
  <2>. QED  BY <1>1, <2>1, AnsweredTyped
<1>3. left' \in [Budgets -> Nat] /\ LeftBound'
  BY Spent DEF Typed, Start, Budgets
<1>4. TypeOK'
  BY <1>2, <1>3 DEF TypeOK, Typed, Start, unique, gamedb, Budgets
<1>. QED  BY <1>2, <1>3, <1>4 DEF Typed

LEMMA TypedRequests ==
  ASSUME Typed, NEW z \in Zone, NEW r \in Role, DelRole(z, r) \/ UndoDeleteRole(z, r)
  PROVE  Typed'
<1>1. waitdel \in [Zone -> SUBSET Role]
  BY DEF Typed, TypeOK
<1>2. waitdel' \in [Zone -> SUBSET Role]
  <2>1. CASE DelRole(z, r)
    BY <1>1, <2>1 DEF DelRole
  <2>2. CASE UndoDeleteRole(z, r)
    BY <1>1, <2>2 DEF UndoDeleteRole
  <2>. QED  BY <2>1, <2>2
<1>3. UNCHANGED <<unamerole, uidrole, base, rolename, rolelist, call, deletion, notice, unanswered, left>>
  BY DEF DelRole, UndoDeleteRole, unique
<1>. QED  BY <1>2, <1>3 DEF Typed, TypeOK, LeftBound, CallHasRole

LEMMA TypedPre ==
  ASSUME Typed, NEW k \in Call, PreCreateRole(k) \/ PrePlayerRename(k) \/ PreClient(k)
  PROVE  Typed'
<1> DEFINE c == call[k]
<1>1. c \in Calls /\ c # Idle
  BY CallTyped DEF Typed, PreCreateRole, PrePlayerRename, PreClient, Idle
<1>2. c.kind = "rename" => c.role \in Role
  BY <1>1 DEF Typed, CallHasRole
<1>3. ASSUME NEW d \in Calls \cup {Idle}, Answer(k, d),
             d # Idle => d.role \in Role \/ (d.kind = "create" /\ d.at \in {"pre", "pre_re"} /\ d.ret # "ok"),
             unamerole' \in [Name -> Entry \cup {Free}], uidrole' \in [User -> SUBSET Slot],
             UNCHANGED <<gamedb, deletion, notice, unanswered, left>>
      PROVE  Typed'
  <2>1. call' \in [Call -> Calls \cup {Idle}] /\ CallHasRole'
    BY <1>3, AnsweredTyped
  <2>. QED  BY <1>3, <2>1 DEF Typed, TypeOK, LeftBound, gamedb
<1>4. unamerole \in [Name -> Entry \cup {Free}] /\ uidrole \in [User -> SUBSET Slot]
  BY DEF Typed, TypeOK
<1>5. CASE PreCreateRole(k)
  <2>1. CASE Answer(k, [c EXCEPT !.at = "pre_re", !.ret = "failed"]) /\ UNCHANGED unique
    <3> DEFINE d == [c EXCEPT !.at = "pre_re", !.ret = "failed"]
    <3>1. d \in Calls /\ d.kind = "create" /\ d.at = "pre_re" /\ d.ret = "failed"
      BY <1>1, <1>5 DEF Calls, PreCreateRole
    <3>2. UNCHANGED <<gamedb, deletion, notice, unanswered, left>> /\ Answer(k, d) /\ UNCHANGED unique
      BY <1>5, <2>1 DEF PreCreateRole
    <3> HIDE DEF d
    <3>. QED  BY <1>3, <1>4, <3>1, <3>2 DEF unique
  <2>2. ASSUME NEW s \in Slot,
               unamerole' = [unamerole EXCEPT ![c.name] =
                  [zone |-> c.zone, role |-> <<c.user, s>>, status |-> "ENGAGED"]],
               uidrole' = [uidrole EXCEPT ![c.user] = @ \cup {s}],
               Answer(k, Engage(c, <<c.user, s>>))
        PROVE  Typed'
    <3>1. c.zone \in Zone /\ c.name \in Name /\ c.user \in User /\ <<c.user, s>> \in Role
      BY <1>1, CallFields DEF Role
    <3>2. Engage(c, <<c.user, s>>) \in Calls /\ Engage(c, <<c.user, s>>).role = <<c.user, s>>
      BY <1>1, <3>1 DEF Engage, Calls
    <3>3. [zone |-> c.zone, role |-> <<c.user, s>>, status |-> "ENGAGED"] \in Entry
      BY <3>1 DEF Entry
    <3>. QED  BY <1>3, <1>4, <1>5, <2>2, <3>1, <3>2, <3>3 DEF PreCreateRole
  <2>. QED  BY <1>5, <2>1, <2>2 DEF PreCreateRole
<1>6. CASE PrePlayerRename(k)
  <2>1. CASE Answer(k, [c EXCEPT !.at = "pre_re", !.ret = "failed"]) /\ UNCHANGED unamerole
    <3> DEFINE d == [c EXCEPT !.at = "pre_re", !.ret = "failed"]
    <3>1. d \in Calls /\ d.role \in Role
      BY <1>1, <1>2, <1>6 DEF Calls, PrePlayerRename
    <3>2. /\ UNCHANGED <<gamedb, deletion, notice, unanswered, left>> /\ Answer(k, d)
          /\ UNCHANGED <<unamerole, uidrole>>
      BY <1>6, <2>1 DEF PrePlayerRename
    <3> HIDE DEF d
    <3>. QED  BY <1>3, <1>4, <3>1, <3>2
  <2>2. CASE /\ unamerole' = [unamerole EXCEPT ![c.name] =
                  [zone |-> c.zone, role |-> c.role, status |-> "ENGAGED"]]
             /\ Answer(k, Engage(c, c.role))
    <3>1. c.zone \in Zone /\ c.name \in Name /\ c.role \in Role
      BY <1>1, <1>2, <1>6, CallFields DEF PrePlayerRename
    <3>2. Engage(c, c.role) \in Calls /\ Engage(c, c.role).role = c.role
      BY <1>1, <3>1 DEF Engage, Calls
    <3>3. [zone |-> c.zone, role |-> c.role, status |-> "ENGAGED"] \in Entry
      BY <3>1 DEF Entry
    <3>. QED  BY <1>3, <1>4, <1>6, <2>2, <3>1, <3>2, <3>3 DEF PrePlayerRename
  <2>. QED  BY <1>6, <2>1, <2>2 DEF PrePlayerRename
<1>7. CASE PreClient(k)
  <2>1. CASE c.ret = "ok" /\ Answer(k, [c EXCEPT !.at = "db", !.ret = "none"])
    <3> DEFINE d == [c EXCEPT !.at = "db", !.ret = "none"]
    <3>1. d \in Calls /\ d.role \in Role
      BY <1>1, <2>1, CallWithRole DEF Calls
    <3>2. UNCHANGED <<gamedb, deletion, notice, unanswered, left>> /\ Answer(k, d) /\ UNCHANGED unique
      BY <1>7, <2>1 DEF PreClient
    <3> HIDE DEF d
    <3>. QED  BY <1>3, <1>4, <3>1, <3>2 DEF unique
  <2>2. CASE Answer(k, Idle)
    BY <1>3, <1>4, <1>7, <2>2 DEF PreClient, unique
  <2>. QED  BY <1>7, <2>1, <2>2 DEF PreClient
<1>. QED  BY <1>5, <1>6, <1>7

\* The tables of a gamedbd.
GamedbTyped ==
  /\ base \in [Zone -> [Role -> Name \cup {NoName}]]
  /\ rolename \in [Zone -> [Name -> Role \cup {NoRole}]]
  /\ rolelist \in [Zone -> [User -> SUBSET Slot]]
  /\ waitdel \in [Zone -> SUBSET Role]

LEMMA InsertedTyped ==
  ASSUME TypeOK, NEW z \in Zone, NEW r \in Role, NEW n \in Name, Inserted(z, r, n)
  PROVE  /\ base' \in [Zone -> [Role -> Name \cup {NoName}]]
         /\ rolename' \in [Zone -> [Name -> Role \cup {NoRole}]]
         /\ \A y \in Zone, q \in Role : base'[y][q] = IF y = z /\ q = r THEN n ELSE base[y][q]
         /\ \A y \in Zone, x \in Name : rolename'[y][x] = IF y = z /\ x = n THEN r ELSE rolename[y][x]
BY SMTT(30) DEF TypeOK, Inserted

LEMMA TypedDB ==
  ASSUME Typed, NEW k \in Call, DBCreateRole(k) \/ DBPlayerRename(k)
  PROVE  Typed'
<1> DEFINE c == call[k]
           done(ret, old) == [c EXCEPT !.at = "db_re", !.ret = ret, !.old = old]
<1>1. c \in Calls /\ c # Idle /\ c.role \in Role /\ c.zone \in Zone /\ c.name \in Name
  BY CallWithRole, CallFields DEF DBCreateRole, DBPlayerRename
<1>2. \A ret \in {"ok", "exists", "failed"}, old \in Name \cup {NoName} :
        done(ret, old) \in Calls /\ done(ret, old).role \in Role
  BY <1>1 DEF Calls
<1>3. ASSUME NEW ret \in {"ok", "exists", "failed"}, NEW old \in Name \cup {NoName},
             Answer(k, done(ret, old)), GamedbTyped',
             UNCHANGED <<unique, deletion, notice, unanswered, left>>
      PROVE  Typed'
  <2>1. call' \in [Call -> Calls \cup {Idle}] /\ CallHasRole'
    BY <1>2, <1>3, AnsweredTyped
  <2>. QED  BY <1>3, <2>1 DEF Typed, TypeOK, LeftBound, unique, GamedbTyped
<1>4. base[c.zone][c.role] \in Name \cup {NoName} /\ GamedbTyped
  BY <1>1 DEF Typed, TypeOK, GamedbTyped
<1>5. UNCHANGED gamedb => GamedbTyped'
  BY <1>4, SMTT(30) DEF GamedbTyped, gamedb
<1>6. CASE DBCreateRole(k)
  <2>1. UNCHANGED <<unique, deletion, notice, unanswered, left>>
    BY <1>6 DEF DBCreateRole
  <2>2. CASE Answer(k, done("failed", NoName)) /\ UNCHANGED gamedb
    BY <1>3, <1>5, <2>1, <2>2
  <2>3. CASE Answer(k, done("exists", base[c.zone][c.role])) /\ UNCHANGED gamedb
    BY <1>3, <1>4, <1>5, <2>1, <2>3
  <2>4. CASE /\ Inserted(c.zone, c.role, c.name)
             /\ rolelist' = [rolelist EXCEPT ![c.zone][c.role[1]] = @ \cup {c.role[2]}]
             /\ Answer(k, done("ok", NoName)) /\ UNCHANGED waitdel
    <3>1. GamedbTyped'
      BY <1>1, <1>4, <2>4, InsertedTyped, RoleParts DEF Typed, GamedbTyped
    <3>. QED  BY <1>3, <2>1, <2>4, <3>1
  <2>. QED  BY <1>6, <2>2, <2>3, <2>4, SMTT(30) DEF DBCreateRole
<1>7. CASE DBPlayerRename(k)
  <2>1. UNCHANGED <<unique, deletion, notice, unanswered, left>>
    BY <1>7 DEF DBPlayerRename
  <2>2. CASE Answer(k, done("failed", NoName)) /\ UNCHANGED gamedb
    BY <1>3, <1>5, <2>1, <2>2
  <2>3. CASE /\ Inserted(c.zone, c.role, c.name)
             /\ Answer(k, done("ok", base[c.zone][c.role])) /\ UNCHANGED <<rolelist, waitdel>>
    <3>1. GamedbTyped'
      BY <1>1, <1>4, <2>3, InsertedTyped DEF Typed, GamedbTyped
    <3>. QED  BY <1>3, <1>4, <2>1, <2>3, <3>1
  <2>. QED  BY <1>7, <2>2, <2>3 DEF DBPlayerRename
<1>. QED  BY <1>6, <1>7

\* The outcome of a creation can be posted.
LEMMA CreatedTyped ==
  ASSUME NEW c \in Calls, c.role \in Role
  PROVE  Created(c) \in Notices
BY CallFields, Posted DEF Created

LEMMA TypedAnswers ==
  ASSUME Typed, NEW k \in Call, DBCreateRoleClient(k) \/ DBPlayerRenameClient(k)
  PROVE  Typed'
<1> DEFINE c == call[k]
<1>1. c \in Calls /\ c # Idle /\ c.role \in Role
  BY CallWithRole DEF DBCreateRoleClient, DBPlayerRenameClient
<1>2. call' \in [Call -> Calls \cup {Idle}] /\ CallHasRole'
  BY AnsweredTyped DEF DBCreateRoleClient, DBPlayerRenameClient
<1>3. Created(c) \in Notices
  BY <1>1, CreatedTyped
<1>4. Post("rename", c.zone, c.role, c.name, c.old, c.ret = "ok") \in Notices
  <2>1. (c.ret = "ok") \in BOOLEAN
    OBVIOUS
  <2>. QED  BY <1>1, <2>1, CallFields, Posted
<1>5. notice' \subseteq Notices /\ unanswered' \subseteq Notices
  BY <1>3, <1>4 DEF Typed, TypeOK, Tell, DBCreateRoleClient, DBPlayerRenameClient
<1>6. UNCHANGED <<unamerole, uidrole, base, rolename, rolelist, waitdel, deletion, left>>
  BY DEF DBCreateRoleClient, DBPlayerRenameClient, unique, gamedb
<1>. QED  BY <1>2, <1>5, <1>6 DEF Typed, TypeOK, LeftBound

LEMMA TypedTimeouts ==
  ASSUME Typed, NEW k \in Call,
         PreOnTimeout(k) \/ DBCreateRoleOnTimeout(k) \/ DBPlayerRenameOnTimeout(k)
  PROVE  Typed'
<1> DEFINE c == call[k]
           d == [c EXCEPT !.waiting = FALSE]
<1>1. c \in Calls /\ c # Idle
  <2>1. call[k].at \in {"pre", "pre_re", "db", "db_re"}
    BY DEF PreOnTimeout, DBCreateRoleOnTimeout, DBPlayerRenameOnTimeout
  <2>. QED  BY <2>1, NotIdle, CallTyped DEF Typed
<1>2. /\ d \in Calls /\ d.at = c.at /\ d.kind = c.kind /\ d.ret = c.ret /\ d.role = c.role
  BY <1>1 DEF Calls
<1>3. call' \in [Call -> Calls \cup {Idle}] /\ CallHasRole'
  <2>1. Answer(k, d)
    BY DEF PreOnTimeout, DBCreateRoleOnTimeout, DBPlayerRenameOnTimeout
  <2>2. d.role \in Role \/ (d.kind = "create" /\ d.at \in {"pre", "pre_re"} /\ d.ret # "ok")
    BY <1>1, <1>2, CallFields DEF Typed, CallHasRole
  <2> HIDE DEF d
  <2>. QED  BY <1>2, <2>1, <2>2, AnsweredTyped
<1>4. left' \in [Budgets -> Nat] /\ LeftBound'
  BY Spent DEF Typed, PreOnTimeout, DBCreateRoleOnTimeout, DBPlayerRenameOnTimeout, Budgets
<1>5. ASSUME deletion' \subseteq Deletions, notice' \subseteq Notices, unanswered' \subseteq Notices,
             UNCHANGED <<unique, gamedb>>
      PROVE  Typed'
  BY <1>3, <1>4, <1>5 DEF Typed, TypeOK, unique, gamedb, Budgets
<1>6. deletion \subseteq Deletions /\ notice \subseteq Notices /\ unanswered \subseteq Notices
  BY DEF Typed, TypeOK
<1>7. CASE PreOnTimeout(k)
  BY <1>5, <1>6, <1>7 DEF PreOnTimeout
<1>8. CASE DBCreateRoleOnTimeout(k)
  <2> DEFINE m == Created([c EXCEPT !.ret = "failed"])
             rollback == [zone |-> c.zone, role |-> c.role, by |-> "rollback",
                          waiting |-> TRUE, at |-> "db", ok |-> FALSE, name |-> NoName]
  <2>1. c.role \in Role /\ c.zone \in Zone
    BY <1>1, <1>8, CallWithRole, CallFields DEF DBCreateRoleOnTimeout
  <2>2. m \in Notices
    <3>1. [c EXCEPT !.ret = "failed"] \in Calls /\ [c EXCEPT !.ret = "failed"].role \in Role
      BY <1>1, <2>1 DEF Calls
    <3>. QED  BY <3>1, CreatedTyped
  <2>3. rollback \in Deletions
    BY <2>1 DEF Deletions
  <2>. QED  BY <1>5, <1>6, <1>8, <2>2, <2>3 DEF DBCreateRoleOnTimeout, Tell
<1>9. CASE DBPlayerRenameOnTimeout(k)
  <2>1. c.role \in Role
    BY <1>9, CallWithRole DEF DBPlayerRenameOnTimeout
  <2>2. Post("rename", c.zone, c.role, c.name, NoName, FALSE) \in Notices
    BY <1>1, <2>1, CallFields, Posted
  <2>. QED  BY <1>5, <1>6, <1>9, <2>2 DEF DBPlayerRenameOnTimeout, Tell
<1>. QED  BY <1>7, <1>8, <1>9

\* What a notice writes in uniquenamed.
LEMMA NamesTyped ==
  ASSUME TypeOK, NEW m \in Notices
  PROVE  /\ Used(m) \in Entry
         /\ \A n \in Name \cup {NoName} : \A e \in Entry \cup {Free} :
              SetName(n, e) => unamerole' \in [Name -> Entry \cup {Free}]
         /\ FreeSlot(m.role) => uidrole' \in [User -> SUBSET Slot]
<1>1. Used(m) \in Entry
  BY NoticeFields DEF Used, Entry
<1>2. ASSUME FreeSlot(m.role)  PROVE uidrole' \in [User -> SUBSET Slot]
  BY <1>2, NoticeFields, RoleParts DEF FreeSlot, TypeOK
<1>. QED  BY <1>1, <1>2 DEF TypeOK, SetName

LEMMA TypedNoticed ==
  ASSUME Typed, NEW m \in notice \cup unanswered, Noticed(m)
  PROVE  Typed'
<1>1. m \in Notices /\ notice \subseteq Notices /\ unanswered \subseteq Notices
  BY DEF Typed, TypeOK
<1>2. /\ unamerole \in [Name -> Entry \cup {Free}] /\ uidrole \in [User -> SUBSET Slot]
      /\ left \in [Budgets -> Nat] /\ LeftBound /\ m.name \in Name \cup {NoName}
  BY <1>1, NoticeFields DEF Typed, TypeOK, Budgets
<1>3. ASSUME unamerole' \in [Name -> Entry \cup {Free}], uidrole' \in [User -> SUBSET Slot],
             notice' \subseteq Notices, unanswered' \subseteq Notices,
             left' \in [Budgets -> Nat], LeftBound', UNCHANGED <<gamedb, call, deletion>>
      PROVE  Typed'
  BY <1>3 DEF Typed, TypeOK, CallHasRole, gamedb, Budgets
<1>4. \A f \in Budgets : Spend(f) => left' \in [Budgets -> Nat] /\ LeftBound'
  BY Spent DEF Typed
<1>5. UNCHANGED left => left' \in [Budgets -> Nat] /\ LeftBound'
  BY <1>2 DEF LeftBound
<1>6. "resend" \in Budgets
  BY DEF Budgets
<1>7. CASE PostCreateRole(m)
  <2>1. unamerole' \in [Name -> Entry \cup {Free}] /\ uidrole' \in [User -> SUBSET Slot]
    BY <1>1, <1>2, <1>7, NamesTyped DEF PostCreateRole, Typed
  <2>. QED  BY <1>1, <1>3, <1>4, <1>5, <1>6, <1>7, <2>1 DEF PostCreateRole
<1>8. CASE PostPlayerRename(m)
  <2>1. unamerole' \in [Name -> Entry \cup {Free}]
    <3>1. CASE m.ok
      <4>1. \A n \in Name : Obsolete(m, n) => [unamerole[n] EXCEPT !.status = "OBSOLETE"] \in Entry
        BY <1>2 DEF Obsolete, Entry
      <4>. QED  BY <1>1, <1>2, <1>8, <3>1, <4>1, NamesTyped DEF PostPlayerRename, Typed
    <3>2. CASE ~m.ok
      BY <1>1, <1>2, <1>8, <3>2, NamesTyped DEF PostPlayerRename, Typed
    <3>. QED  BY <3>1, <3>2
  <2>. QED  BY <1>1, <1>2, <1>3, <1>5, <1>8, <2>1 DEF PostPlayerRename
<1>9. CASE PostDeleteRole(m)
  <2>1. unamerole' \in [Name -> Entry \cup {Free}] /\ uidrole' \in [User -> SUBSET Slot]
    BY <1>1, <1>2, <1>9, NamesTyped DEF PostDeleteRole, Typed
  <2>. QED  BY <1>1, <1>3, <1>5, <1>9, <2>1 DEF PostDeleteRole
<1>10. CASE PostCreateRoleOnTimeout(m)
  <2>1. [m EXCEPT !.copy = @ + 1] \in Notices
    BY <1>1 DEF Notices
  <2>. QED  BY <1>1, <1>2, <1>3, <1>4, <1>5, <1>6, <1>10, <2>1 DEF PostCreateRoleOnTimeout, Tell, unique
<1>. QED  BY <1>7, <1>8, <1>9, <1>10 DEF Noticed

LEMMA DeletionFields ==
  ASSUME NEW d \in Deletions
  PROVE  /\ d.zone \in Zone /\ d.role \in Role /\ d.by \in {"announce", "login", "rollback"}
         /\ d.waiting \in BOOLEAN /\ d.at \in {"db", "db_re"} /\ d.ok \in BOOLEAN
         /\ d.name \in Name \cup {NoName}
BY DEF Deletions

LEMMA TypedDeletions ==
  ASSUME Typed, NEW d \in deletion, DBDeleteRole(d) \/ DBDeleteRoleClient(d)
  PROVE  Typed'
<1> DEFINE z == d.zone
           r == d.role
           n == base[z][r]
           done(ok) == [d EXCEPT !.at = "db_re", !.ok = ok, !.name = IF ok THEN n ELSE NoName]
<1>1. d \in Deletions /\ deletion \subseteq Deletions /\ notice \subseteq Notices
  BY DEF Typed, TypeOK
<1>2. z \in Zone /\ r \in Role /\ r[1] \in User
  BY <1>1, DeletionFields, RoleParts
<1>3. n \in Name \cup {NoName} /\ GamedbTyped
  BY <1>2 DEF Typed, TypeOK, GamedbTyped
<1>4. ASSUME deletion' \subseteq Deletions, notice' \subseteq Notices, GamedbTyped',
             UNCHANGED <<unique, call, unanswered, left>>
      PROVE  Typed'
  BY <1>4 DEF Typed, TypeOK, CallHasRole, LeftBound, unique, GamedbTyped
<1>5. CASE DBDeleteRole(d)
  <2>1. done(TRUE) \in Deletions /\ done(FALSE) \in Deletions
    BY <1>1, <1>3 DEF Deletions
  <2>2. CASE deletion' = (deletion \ {d}) \cup {done(FALSE)} /\ UNCHANGED gamedb
    BY <1>1, <1>3, <1>4, <1>5, <2>1, <2>2 DEF DBDeleteRole, GamedbTyped, gamedb
  <2>3. CASE /\ rolelist' = [rolelist EXCEPT ![z][r[1]] = @ \ {r[2]}]
             /\ base' = [base EXCEPT ![z][r] = NoName]
             /\ rolename' = [rolename EXCEPT ![z] = [x \in Name |-> IF x = n THEN NoRole ELSE @[x]]]
             /\ waitdel' = [waitdel EXCEPT ![z] = @ \ {r}]
             /\ deletion' = (deletion \ {d}) \cup {done(TRUE)}
    <3>1. rolelist' \in [Zone -> [User -> SUBSET Slot]]
      BY <1>2, <1>3, <2>3 DEF GamedbTyped
    <3>2. base' \in [Zone -> [Role -> Name \cup {NoName}]]
      BY <1>2, <1>3, <2>3 DEF GamedbTyped
    <3>3. rolename' \in [Zone -> [Name -> Role \cup {NoRole}]]
      BY <1>2, <1>3, <2>3 DEF GamedbTyped
    <3>4. waitdel' \in [Zone -> SUBSET Role]
      BY <1>2, <1>3, <2>3 DEF GamedbTyped
    <3>. QED  BY <1>1, <1>4, <1>5, <2>1, <2>3, <3>1, <3>2, <3>3, <3>4 DEF DBDeleteRole, GamedbTyped
  <2>. QED  BY <1>5, <2>2, <2>3 DEF DBDeleteRole
<1>6. CASE DBDeleteRoleClient(d)
  <2>1. Post("delete", d.zone, d.role, d.name, NoName, FALSE) \in Notices
    BY <1>1, DeletionFields, Posted
  <2>. QED  BY <1>1, <1>3, <1>4, <1>6, <2>1 DEF DBDeleteRoleClient, Tell, GamedbTyped, gamedb
<1>. QED  BY <1>5, <1>6

LEMMA TypedOthers ==
  ASSUME Typed,
         \/ \E z \in Zone, r \in Role, by \in {"announce", "login"} : Expire(z, r, by)
         \/ \E m \in notice : Lose(m)
         \/ \E z \in Zone : Crash(z)
  PROVE  Typed'
<1>1. /\ deletion \subseteq Deletions /\ notice \subseteq Notices /\ unanswered \subseteq Notices
      /\ call \in [Call -> Calls \cup {Idle}]
  BY DEF Typed, TypeOK
<1>2. \A f \in Budgets : Spend(f) => left' \in [Budgets -> Nat] /\ LeftBound'
  BY Spent DEF Typed
<1>3. "expiry" \in Budgets /\ "lost" \in Budgets /\ "crash" \in Budgets
  BY DEF Budgets
<1>4. ASSUME NEW z \in Zone, NEW r \in Role, NEW by \in {"announce", "login"}, Expire(z, r, by)
      PROVE  Typed'
  <2>1. [zone |-> z, role |-> r, by |-> by, waiting |-> TRUE,
         at |-> "db", ok |-> FALSE, name |-> NoName] \in Deletions
    BY DEF Deletions
  <2>. QED  BY <1>1, <1>2, <1>3, <1>4, <2>1 DEF Expire, Typed, TypeOK, CallHasRole, unique, gamedb, Budgets
<1>5. ASSUME NEW m \in notice, Lose(m)
      PROVE  Typed'
  BY <1>1, <1>2, <1>3, <1>5 DEF Lose, Typed, TypeOK, CallHasRole, unique, gamedb, Budgets
<1>6. ASSUME NEW z \in Zone, Crash(z)
      PROVE  Typed'
  <2>1. \A d \in Deletions : [d EXCEPT !.waiting = FALSE] \in Deletions
    BY DEF Deletions
  <2>2. deletion' \subseteq Deletions /\ unanswered' \subseteq Notices
    BY <1>1, <1>6, <2>1 DEF Crash
  <2>3. \A c \in Calls : /\ [c EXCEPT !.waiting = FALSE] \in Calls
                         /\ [c EXCEPT !.waiting = FALSE].at = c.at
                         /\ [c EXCEPT !.waiting = FALSE].ret = c.ret
                         /\ [c EXCEPT !.waiting = FALSE].kind = c.kind
                         /\ [c EXCEPT !.waiting = FALSE].role = c.role
    BY DEF Calls
  <2>4. call' \in [Call -> Calls \cup {Idle}]
    BY <1>1, <1>6, <2>3 DEF Crash
  <2>5. CallHasRole'
    <3>1. \A k \in Call : call'[k] = call[k] \/ (call[k] \in Calls /\ call'[k] = [call[k] EXCEPT !.waiting = FALSE])
      BY <1>1, <1>6 DEF Crash
    <3>2. \A k \in Call : call[k] \in Calls => call[k] # Idle
      BY DEF Calls, Idle
    <3>. QED  BY <1>1, <2>3, <3>1, <3>2, ZenonT(60) DEF Typed, CallHasRole
  <2>. QED  BY <1>1, <1>2, <1>3, <1>6, <2>2, <2>4, <2>5 DEF Crash, Typed, TypeOK, unique, gamedb, Budgets
<1>. QED  BY <1>4, <1>5, <1>6

LEMMA TypedStep == Typed /\ [Next]_vars => Typed'
<1>. SUFFICES ASSUME Typed, [Next]_vars  PROVE Typed'
  OBVIOUS
<1>1. CASE UNCHANGED vars
  BY <1>1 DEF vars, unique, gamedb, Typed, TypeOK, LeftBound, CallHasRole
<1>2. CASE Request
  <2>1. ASSUME NEW k \in Call, NEW z \in Zone, NEW n \in Name, NEW u \in User, CreateRole(k, z, u, n)
        PROVE  Typed'
    BY <2>1, TypedStart DEF CreateRole
  <2>2. ASSUME NEW k \in Call, NEW z \in Zone, NEW n \in Name, NEW r \in Role, PlayerRename(k, z, r, n)
        PROVE  Typed'
    BY <2>2, TypedStart, RoleParts DEF PlayerRename
  <2>. QED  BY <1>2, <2>1, <2>2, TypedRequests, TypedOthers DEF Request
<1>3. ASSUME NEW k \in Call, CallStep(k)  PROVE Typed'
  BY <1>3, TypedPre, TypedDB, TypedAnswers DEF CallStep
<1>4. CASE Deleting
  BY <1>4, TypedDeletions DEF Deleting
<1>5. CASE Fault
  BY <1>5, TypedTimeouts, TypedOthers DEF Fault
<1>6. ASSUME NEW m \in notice \cup unanswered, Noticed(m)  PROVE Typed'
  BY <1>6, TypedNoticed
<1>. QED  BY <1>1, <1>2, <1>3, <1>4, <1>5, <1>6 DEF Next

LEMMA InitTyped == Init => Typed
<1>. SUFFICES ASSUME Init  PROVE Typed
  OBVIOUS
<1>1. CallHasRole
  BY DEF Init, CallHasRole
<1>2. LeftBound
  BY BoundsAssumption DEF Init, LeftBound
<1>3. TypeOK
  BY BoundsAssumption DEF Init, TypeOK
<1>. QED  BY <1>1, <1>2, <1>3 DEF Typed

\* The variables of uniquenamed, of the gamedbds and of what is under way
\* keep their types.
THEOREM TypeCorrect == Spec => []TypeOK
<1>1. Typed => TypeOK
  BY DEF Typed
<1>. QED  BY <1>1, InitTyped, TypedStep, PTL DEF Spec

----------------------------------------------------------------------------
(* The rows of a gamedbd. *)

LEMMA RowsByRole ==
  RowsAgree <=> \A z \in Zone, r \in Role :
    /\ base[z][r] # NoName => rolename[z][base[z][r]] = r
    /\ r[2] \in rolelist[z][r[1]] <=> base[z][r] # NoName
<1>1. \A u \in User, s \in Slot : /\ <<u, s>> \in Role /\ <<u, s>>[1] = u /\ <<u, s>>[2] = s
  BY DEF Role
<1>2. \A r \in Role : r[1] \in User /\ r[2] \in Slot /\ r = <<r[1], r[2]>>
  BY RoleParts
<1>. QED  BY <1>1, <1>2 DEF RowsAgree

\* The three writes that change who has which name.
WriteCreate(k) ==
  /\ call[k].at = "db" /\ rolename[call[k].zone][call[k].name] = NoRole
  /\ base[call[k].zone][call[k].role] = NoName
  /\ Inserted(call[k].zone, call[k].role, call[k].name)
  /\ rolelist' = [rolelist EXCEPT ![call[k].zone][call[k].role[1]] = @ \cup {call[k].role[2]}]
WriteRename(k) ==
  /\ call[k].at = "db" /\ rolename[call[k].zone][call[k].name] = NoRole
  /\ base[call[k].zone][call[k].role] # NoName
  /\ Inserted(call[k].zone, call[k].role, call[k].name)
  /\ UNCHANGED rolelist
WriteDelete(d) ==
  /\ rolelist' = [rolelist EXCEPT ![d.zone][d.role[1]] = @ \ {d.role[2]}]
  /\ base' = [base EXCEPT ![d.zone][d.role] = NoName]
  /\ rolename' = [rolename EXCEPT ![d.zone] =
       [x \in Name |-> IF x = base[d.zone][d.role] THEN NoRole ELSE @[x]]]

LEMMA Writes ==
  ASSUME [Next]_vars
  PROVE  \/ UNCHANGED <<base, rolename, rolelist>>
         \/ \E k \in Call : WriteCreate(k) \/ WriteRename(k)
         \/ \E d \in deletion : WriteDelete(d)
<1>1. CASE UNCHANGED vars
  BY <1>1 DEF vars, gamedb
<1>2. CASE Request
  BY <1>2 DEF Request, CreateRole, PlayerRename, Start, DelRole, UndoDeleteRole, Expire, gamedb
<1>3. ASSUME NEW k \in Call, CallStep(k)
      PROVE  UNCHANGED <<base, rolename, rolelist>> \/ WriteCreate(k) \/ WriteRename(k)
  <2>1. CASE DBCreateRole(k)
    BY <2>1 DEF DBCreateRole, WriteCreate, gamedb
  <2>2. CASE DBPlayerRename(k)
    BY <2>2 DEF DBPlayerRename, WriteRename, gamedb
  <2>3. CASE \/ PreCreateRole(k) \/ PrePlayerRename(k) \/ PreClient(k)
             \/ DBCreateRoleClient(k) \/ DBPlayerRenameClient(k)
    BY <2>3 DEF PreCreateRole, PrePlayerRename, PreClient, DBCreateRoleClient, DBPlayerRenameClient, gamedb
  <2>. QED  BY <1>3, <2>1, <2>2, <2>3 DEF CallStep
<1>4. ASSUME NEW d \in deletion, DBDeleteRole(d) \/ DBDeleteRoleClient(d)
      PROVE  UNCHANGED <<base, rolename, rolelist>> \/ WriteDelete(d)
  BY <1>4 DEF DBDeleteRole, DBDeleteRoleClient, WriteDelete, gamedb
<1>5. CASE Fault
  BY <1>5 DEF Fault, PreOnTimeout, DBCreateRoleOnTimeout, DBPlayerRenameOnTimeout, Lose, Crash, gamedb
<1>6. ASSUME NEW m \in notice \cup unanswered, Noticed(m)
      PROVE  UNCHANGED <<base, rolename, rolelist>>
  BY <1>6 DEF Noticed, PostCreateRole, PostPlayerRename, PostDeleteRole, PostCreateRoleOnTimeout, gamedb
<1>. QED  BY <1>1, <1>2, <1>3, <1>4, <1>5, <1>6 DEF Next, Deleting

LEMMA WrittenTyped ==
  ASSUME Typed, NEW k \in Call, call[k].at = "db"
  PROVE  call[k].zone \in Zone /\ call[k].role \in Role /\ call[k].name \in Name
BY CallWithRole, CallFields

LEMMA DeletedTyped ==
  ASSUME Typed, NEW d \in deletion, WriteDelete(d)
  PROVE  /\ d.zone \in Zone /\ d.role \in Role /\ d.role[1] \in User
         /\ base[d.zone][d.role] \in Name \cup {NoName}
         /\ \A z \in Zone, r \in Role :
              base'[z][r] = IF z = d.zone /\ r = d.role THEN NoName ELSE base[z][r]
         /\ \A z \in Zone, n \in Name :
              rolename'[z][n] = IF z = d.zone /\ n = base[d.zone][d.role] THEN NoRole ELSE rolename[z][n]
<1>1. d \in Deletions /\ base \in [Zone -> [Role -> Name \cup {NoName}]]
      /\ rolename \in [Zone -> [Name -> Role \cup {NoRole}]]
  BY DEF Typed, TypeOK
<1>2. d.zone \in Zone /\ d.role \in Role /\ d.role[1] \in User
  BY <1>1, DeletionFields, RoleParts
<1>3. \A z \in Zone, r \in Role :
        base'[z][r] = IF z = d.zone /\ r = d.role THEN NoName ELSE base[z][r]
  BY <1>1, <1>2 DEF WriteDelete
<1>4. \A z \in Zone, n \in Name :
        rolename'[z][n] = IF z = d.zone /\ n = base[d.zone][d.role] THEN NoRole ELSE rolename[z][n]
  BY <1>1, <1>2 DEF WriteDelete
<1>. QED  BY <1>1, <1>2, <1>3, <1>4

LEMMA RowsStep == Typed /\ RowsAgree /\ [Next]_vars => RowsAgree'
<1>. SUFFICES ASSUME Typed, RowsAgree, [Next]_vars  PROVE RowsAgree'
  OBVIOUS
<1> DEFINE Agree(z, r) ==
      /\ base[z][r] # NoName => rolename[z][base[z][r]] = r
      /\ r[2] \in rolelist[z][r[1]] <=> base[z][r] # NoName
<1>1. \A z \in Zone, r \in Role : Agree(z, r)
  BY RowsByRole
<1>2. /\ base \in [Zone -> [Role -> Name \cup {NoName}]] /\ NoName \notin Name /\ NoRole \notin Role
      /\ rolelist \in [Zone -> [User -> SUBSET Slot]] /\ \A r, q \in Role : r = q <=> r[1] = q[1] /\ r[2] = q[2]
  BY NamesAssumption, NoRoleAssumption, RoleParts DEF Typed, TypeOK
<1>3. ASSUME NEW z \in Zone, NEW r \in Role  PROVE Agree(z, r)'
  <2>1. CASE UNCHANGED <<base, rolename, rolelist>>
    BY <1>1, <2>1
  <2>2. ASSUME NEW k \in Call, WriteCreate(k) \/ WriteRename(k)
        PROVE  Agree(z, r)'
    <3> DEFINE y == call[k].zone
               q == call[k].role
               n == call[k].name
    <3>1. y \in Zone /\ q \in Role /\ n \in Name /\ rolename[y][n] = NoRole /\ Inserted(y, q, n)
      BY <2>2, WrittenTyped DEF WriteCreate, WriteRename
    <3>2. /\ base'[z][r] = IF z = y /\ r = q THEN n ELSE base[z][r]
          /\ \A x \in Name : rolename'[z][x] = IF z = y /\ x = n THEN q ELSE rolename[z][x]
      BY <3>1, InsertedTyped DEF Typed
    <3>3. base'[z][r] # NoName => rolename'[z][base'[z][r]] = r
      BY <1>1, <1>2, <3>1, <3>2
    <3>4. r[1] \in User /\ q[1] \in User
      BY <3>1, RoleParts
    <3>5. r[2] \in rolelist'[z][r[1]] <=> base'[z][r] # NoName
      <4>1. CASE WriteCreate(k)
        <5>1. rolelist'[z][r[1]] = IF z = y /\ r[1] = q[1] THEN rolelist[z][r[1]] \cup {q[2]} ELSE rolelist[z][r[1]]
          BY <1>2, <3>1, <3>4, <4>1 DEF WriteCreate
        <5>. QED  BY <1>1, <1>2, <3>1, <3>2, <5>1
      <4>2. CASE WriteRename(k)
        BY <1>1, <1>2, <3>1, <3>2, <4>2 DEF WriteRename
      <4>. QED  BY <2>2, <4>1, <4>2
    <3>. QED  BY <3>3, <3>5
  <2>3. ASSUME NEW d \in deletion, WriteDelete(d)
        PROVE  Agree(z, r)'
    <3> DEFINE y == d.zone
               q == d.role
    <3>1. q \in Role /\ y \in Zone /\ r[1] \in User /\ q[1] \in User
      BY <2>3, DeletedTyped, RoleParts
    <3>2. base'[z][r] = IF z = y /\ r = q THEN NoName ELSE base[z][r]
      BY <2>3, DeletedTyped
    <3>3. \A x \in Name : rolename'[z][x] = IF z = y /\ x = base[y][q] THEN NoRole ELSE rolename[z][x]
      BY <2>3, DeletedTyped
    <3>4. rolelist'[z][r[1]] = IF z = y /\ r[1] = q[1] THEN rolelist[z][r[1]] \ {q[2]} ELSE rolelist[z][r[1]]
      BY <1>2, <2>3, <3>1 DEF WriteDelete
    <3>5. Agree(z, r) /\ Agree(y, q) /\ base[z][r] \in Name \cup {NoName} /\ (r = q <=> r[1] = q[1] /\ r[2] = q[2])
      BY <1>1, <1>2, <3>1
    <3> HIDE DEF y, q
    <3>6. base'[z][r] # NoName => rolename'[z][base'[z][r]] = r
      BY <3>2, <3>3, <3>5
    <3>7. r[2] \in rolelist'[z][r[1]] <=> base'[z][r] # NoName
      BY <3>2, <3>4, <3>5
    <3>. QED  BY <3>6, <3>7
  <2>. QED  BY <2>1, <2>2, <2>3, Writes
<1>4. \A u \in User, s \in Slot : /\ <<u, s>> \in Role /\ <<u, s>>[1] = u /\ <<u, s>>[2] = s
  BY DEF Role
<1>5. ASSUME NEW z \in Zone, NEW u \in User, NEW s \in Slot
      PROVE  /\ base'[z][<<u, s>>] # NoName => rolename'[z][base'[z][<<u, s>>]] = <<u, s>>
             /\ s \in rolelist'[z][u] <=> base'[z][<<u, s>>] # NoName
  <2> DEFINE r == <<u, s>>
  <2>1. r \in Role /\ r[1] = u /\ r[2] = s
    BY <1>4
  <2>2. Agree(z, r)'
    BY <1>3, <2>1
  <2>. QED  BY <2>1, <2>2
<1>. QED  BY <1>5 DEF RowsAgree

\* The rows of a gamedbd agree whatever times out, is lost or crashes.
THEOREM RowsAlwaysAgree == Spec => []RowsAgree
<1>1. Init => RowsAgree
  BY DEF Init, RowsAgree, Role
<1>2. Typed /\ RowsAgree /\ [Next]_vars => (Typed /\ RowsAgree)'
  BY RowsStep, TypedStep
<1>. QED  BY <1>1, <1>2, InitTyped, PTL DEF Spec

----------------------------------------------------------------------------
(* How claims change hands. *)

\* Sets of claims that only lose members, or lose one and get another.
LEMMA Shrunk ==
  ASSUME NEW R, NEW C, NEW D, NEW N, NEW R1, NEW C1, NEW D1, NEW N1,
         AtMostOne(Tagged(R, C, D, N)), R1 \subseteq R, C1 \subseteq C, D1 \subseteq D, N1 \subseteq N
  PROVE  /\ AtMostOne(Tagged(R1, C1, D1, N1))
         /\ Tagged(R, C, D, N) = {} => Tagged(R1, C1, D1, N1) = {}
<1>1. Tagged(R1, C1, D1, N1) \subseteq Tagged(R, C, D, N)
  BY DEF Tagged
<1>. QED  BY <1>1 DEF AtMostOne

LEMMA Swapped ==
  ASSUME NEW S, NEW T, AtMostOne(S), NEW x \in S, NEW y, T \subseteq (S \ {x}) \cup {y}
  PROVE  AtMostOne(T)
BY DEF AtMostOne

LEMMA Removed ==
  ASSUME NEW S, NEW T, AtMostOne(S), NEW x \in S, T \subseteq S \ {x}
  PROVE  T = {}
BY DEF AtMostOne

\* A name keeps one claim at most when its claims shrink, when one of them
\* changes hands, when the only one is given up, and when a free name is taken.
LEMMA KeepShrunk ==
  ASSUME NEW n, OneClaim(n), unamerole[n] # Free => unamerole'[n] # Free,
         RowClaims(n)' \subseteq RowClaims(n), CallClaims(n)' \subseteq CallClaims(n),
         DeletionClaims(n)' \subseteq DeletionClaims(n), NoticeClaims(n)' \subseteq NoticeClaims(n)
  PROVE  OneClaim(n)'
BY Shrunk DEF OneClaim, Claims

LEMMA KeepPassed ==
  ASSUME NEW n, OneClaim(n), unamerole[n] # Free => unamerole'[n] # Free,
         NEW x \in Claims(n), NEW y, Claims(n)' \subseteq (Claims(n) \ {x}) \cup {y}
  PROVE  OneClaim(n)'
BY Swapped DEF OneClaim

LEMMA KeepFreed ==
  ASSUME NEW n, OneClaim(n), NEW o \in NoticeClaims(n), NoticeClaims(n)' \subseteq NoticeClaims(n) \ {o},
         RowClaims(n)' \subseteq RowClaims(n), CallClaims(n)' \subseteq CallClaims(n),
         DeletionClaims(n)' \subseteq DeletionClaims(n)
  PROVE  OneClaim(n)'
<1>1. <<"notice", o>> \in Claims(n) /\ Claims(n)' \subseteq Claims(n) \ {<<"notice", o>>}
  BY DEF Claims, Tagged
<1>2. Claims(n)' = {}
  BY <1>1, Removed DEF OneClaim
<1>. QED  BY <1>2 DEF OneClaim, AtMostOne

LEMMA KeepTaken ==
  ASSUME NEW n, OneClaim(n), unamerole[n] = Free, unamerole'[n] # Free, NEW k,
         CallClaims(n)' \subseteq CallClaims(n) \cup {k}, RowClaims(n)' \subseteq RowClaims(n),
         DeletionClaims(n)' \subseteq DeletionClaims(n), NoticeClaims(n)' \subseteq NoticeClaims(n)
  PROVE  OneClaim(n)'
<1>1. Claims(n) = {}
  BY DEF OneClaim
<1>2. Claims(n)' \subseteq {<<"call", k>>}
  BY <1>1 DEF Claims, Tagged
<1>. QED  BY <1>2 DEF OneClaim, AtMostOne

\* What the answer to a call makes of the claims of calls.
LEMMA CallsClaim ==
  ASSUME Typed, NEW k \in Call, NEW c \in Calls \cup {Idle}, Answer(k, c), NEW n
  PROVE  /\ CallClaims(n)' \subseteq CallClaims(n) \cup {k}
         /\ ~Claiming(c, n) => CallClaims(n)' \subseteq CallClaims(n) \ {k}
         /\ Claiming(call[k], n) => CallClaims(n)' \subseteq CallClaims(n)
<1>1. call'[k] = c /\ \A j \in Call : j # k => call'[j] = call[j]
  BY Answered DEF Typed
<1>. QED  BY <1>1 DEF CallClaims

----------------------------------------------------------------------------
(* No step of a daemon gives a name two claims. *)

LEMMA ClaimsRequest ==
  ASSUME Typed, NEW n \in Name, OneClaim(n), Request
  PROVE  OneClaim(n)'
<1>1. UNCHANGED <<unique, base, rolename, rolelist, notice, unanswered>>
  BY DEF Request, CreateRole, PlayerRename, Start, DelRole, UndoDeleteRole, Expire, gamedb
<1>2. RowClaims(n)' = RowClaims(n) /\ NoticeClaims(n)' = NoticeClaims(n) /\ unamerole' = unamerole
  BY <1>1 DEF RowClaims, NoticeClaims, unique
<1>3. CallClaims(n)' \subseteq CallClaims(n)
  <2>1. ASSUME NEW k \in Call, NEW kind \in {"create", "rename"}, NEW z \in Zone, NEW u \in User,
               NEW r \in Role \cup {NoRole}, NEW x \in Name, Start(k, kind, z, u, r, x)
        PROVE  CallClaims(n)' \subseteq CallClaims(n)
    <3> DEFINE c == [at |-> "pre", waiting |-> TRUE, kind |-> kind, zone |-> z, user |-> u,
                     name |-> x, role |-> r, ret |-> "none", old |-> NoName]
    <3>1. c \in Calls /\ Answer(k, c) /\ ~Claiming(c, n)
      BY <2>1 DEF Calls, Start, Answer, Claiming
    <3>. QED  BY <3>1, CallsClaim
  <2>2. call' = call => CallClaims(n)' \subseteq CallClaims(n)
    BY DEF CallClaims
  <2>3. CASE \E k \in Call, z \in Zone, x \in Name :
               \/ \E u \in User : CreateRole(k, z, u, x)
               \/ \E r \in Role : PlayerRename(k, z, r, x)
    BY <2>1, <2>3, RoleParts DEF CreateRole, PlayerRename
  <2>. QED  BY <2>2, <2>3 DEF Request, DelRole, UndoDeleteRole, Expire
<1>4. DeletionClaims(n)' \subseteq DeletionClaims(n)
  BY DEF Request, CreateRole, PlayerRename, Start, DelRole, UndoDeleteRole, Expire, DeletionClaims
<1>. QED  BY <1>2, <1>3, <1>4, KeepShrunk

LEMMA ClaimsPre ==
  ASSUME Typed, NEW n \in Name, OneClaim(n), NEW k \in Call,
         PreCreateRole(k) \/ PrePlayerRename(k) \/ PreClient(k)
  PROVE  OneClaim(n)'
<1> DEFINE c == call[k]
<1>1. c \in Calls /\ c # Idle /\ c.name \in Name
  BY CallTyped, CallFields DEF Typed, PreCreateRole, PrePlayerRename, PreClient, Idle
<1>2. UNCHANGED <<gamedb, deletion, notice, unanswered>>
  BY DEF PreCreateRole, PrePlayerRename, PreClient
<1>3. /\ RowClaims(n)' = RowClaims(n) /\ DeletionClaims(n)' = DeletionClaims(n)
      /\ NoticeClaims(n)' = NoticeClaims(n)
  BY <1>2 DEF RowClaims, DeletionClaims, NoticeClaims, gamedb
<1>4. ASSUME CallClaims(n)' \subseteq CallClaims(n), unamerole[n] # Free => unamerole'[n] # Free
      PROVE  OneClaim(n)'
  BY <1>3, <1>4, KeepShrunk
<1>5. ASSUME NEW d \in Calls \cup {Idle}, Answer(k, d), ~Claiming(d, n),
             unamerole[n] # Free => unamerole'[n] # Free
      PROVE  OneClaim(n)'
  BY <1>4, <1>5, CallsClaim
<1>6. ASSUME NEW r \in Role, Reservable(c.name), Answer(k, Engage(c, r)),
             unamerole' = [unamerole EXCEPT ![c.name] = [zone |-> c.zone, role |-> r, status |-> "ENGAGED"]]
      PROVE  OneClaim(n)'
  <2> DEFINE d == Engage(c, r)
             e == [zone |-> c.zone, role |-> r, status |-> "ENGAGED"]
  <2>1. d \in Calls /\ d.name = c.name
    BY <1>1 DEF Engage, Calls
  <2>2. e # Free
    <3>1. e.status = "ENGAGED" /\ Free.status = "free"
      BY DEF Free
    <3>. QED  BY <3>1
  <2>3. unamerole'[n] = IF n = c.name THEN e ELSE unamerole[n]
    BY <1>6 DEF Typed, TypeOK
  <2> HIDE DEF e, d
  <2>4. CASE n = c.name
    <3>1. unamerole[n] = Free /\ unamerole'[n] # Free
      BY <1>6, <2>2, <2>3, <2>4 DEF Reservable
    <3>2. CallClaims(n)' \subseteq CallClaims(n) \cup {k}
      BY <1>6, <2>1, CallsClaim DEF d
    <3>. QED  BY <1>3, <3>1, <3>2, KeepTaken
  <2>5. CASE n # c.name
    <3>1. ~Claiming(d, n)
      BY <2>1, <2>5 DEF Claiming
    <3>. QED  BY <1>5, <1>6, <2>1, <2>3, <2>5, <3>1 DEF d
  <2>. QED  BY <2>4, <2>5
<1>7. ASSUME Answer(k, [c EXCEPT !.at = "pre_re", !.ret = "failed"]), unamerole' = unamerole
      PROVE  OneClaim(n)'
  <2> DEFINE d == [c EXCEPT !.at = "pre_re", !.ret = "failed"]
  <2>1. d \in Calls /\ ~Claiming(d, n)
    BY <1>1 DEF Calls, Claiming
  <2> HIDE DEF d
  <2>. QED  BY <1>5, <1>7, <2>1 DEF d
<1>8. CASE PreCreateRole(k)
  <2>1. \A s \in Slot : <<c.user, s>> \in Role
    BY <1>1, CallFields DEF Role
  <2>. QED  BY <1>6, <1>7, <1>8, <2>1 DEF PreCreateRole, unique
<1>9. CASE PrePlayerRename(k)
  <2>1. c.role \in Role
    BY <1>1, <1>9 DEF PrePlayerRename, Typed, CallHasRole
  <2>. QED  BY <1>6, <1>7, <1>9, <2>1 DEF PrePlayerRename, unique
<1>10. CASE PreClient(k)
  <2>1. unamerole' = unamerole
    BY <1>10 DEF PreClient, unique
  <2>2. CASE Answer(k, Idle)
    BY <1>5, <2>1, <2>2 DEF Claiming
  <2>3. CASE c.ret = "ok" /\ Answer(k, [c EXCEPT !.at = "db", !.ret = "none"])
    <3> DEFINE d == [c EXCEPT !.at = "db", !.ret = "none"]
    <3>1. d \in Calls /\ (Claiming(d, n) => Claiming(c, n))
      BY <1>1, <1>10, <2>3 DEF Calls, Claiming, PreClient
    <3> HIDE DEF d
    <3>2. CASE Claiming(d, n)
      BY <1>4, <2>1, <2>3, <3>1, <3>2, CallsClaim DEF d
    <3>3. CASE ~Claiming(d, n)
      BY <1>5, <2>1, <2>3, <3>1, <3>3 DEF d
    <3>. QED  BY <3>2, <3>3
  <2>. QED  BY <1>10, <2>2, <2>3 DEF PreClient
<1>. QED  BY <1>8, <1>9, <1>10

LEMMA ClaimsDB ==
  ASSUME Typed, NEW n \in Name, OneClaim(n), NEW k \in Call, DBCreateRole(k) \/ DBPlayerRename(k)
  PROVE  OneClaim(n)'
<1> DEFINE c == call[k]
           done(ret, old) == [c EXCEPT !.at = "db_re", !.ret = ret, !.old = old]
<1>1. c \in Calls /\ c # Idle /\ c.role \in Role /\ c.zone \in Zone /\ c.name \in Name /\ c.at = "db"
  BY CallWithRole, CallFields DEF DBCreateRole, DBPlayerRename
<1>2. UNCHANGED <<unique, deletion, notice, unanswered>>
  BY DEF DBCreateRole, DBPlayerRename
<1>3. /\ DeletionClaims(n)' = DeletionClaims(n) /\ NoticeClaims(n)' = NoticeClaims(n)
      /\ unamerole' = unamerole
  BY <1>2 DEF DeletionClaims, NoticeClaims, unique
<1>4. ASSUME NEW ret \in {"ok", "exists", "failed"}, NEW old \in Name \cup {NoName}
      PROVE  done(ret, old) \in Calls /\ (Claiming(done(ret, old), n) => Claiming(c, n) /\ Failed(done(ret, old)))
  BY <1>1 DEF Calls, Claiming
<1>5. ASSUME NEW ret \in {"ok", "exists", "failed"}, NEW old \in Name \cup {NoName},
             Answer(k, done(ret, old))
      PROVE  CallClaims(n)' \subseteq CallClaims(n)
  <2> DEFINE d == done(ret, old)
  <2>1. d \in Calls /\ (Claiming(d, n) => Claiming(c, n)) /\ Answer(k, d)
    BY <1>4, <1>5
  <2> HIDE DEF d
  <2>. QED  BY <2>1, CallsClaim
<1>6. ASSUME UNCHANGED gamedb, CallClaims(n)' \subseteq CallClaims(n)
      PROVE  OneClaim(n)'
  BY <1>3, <1>6, KeepShrunk DEF RowClaims, gamedb
<1>7. ASSUME NEW old \in Name \cup {NoName}, Answer(k, done("ok", old)), Inserted(c.zone, c.role, c.name)
      PROVE  OneClaim(n)'
  <2>1. ~Claiming(done("ok", old), n)
    <3>1. done("ok", old).ret = "ok"
      BY <1>1 DEF Calls
    <3>. QED  BY <1>4, <3>1 DEF Failed
  <2>2. CallClaims(n)' \subseteq CallClaims(n) \ {k}
    <3> DEFINE d == done("ok", old)
    <3>1. d \in Calls /\ ~Claiming(d, n) /\ Answer(k, d)
      BY <1>4, <1>7, <2>1
    <3> HIDE DEF d
    <3>. QED  BY <3>1, CallsClaim
  <2>3. \A z \in Zone : rolename'[z][n] = IF z = c.zone /\ n = c.name THEN c.role ELSE rolename[z][n]
    BY <1>1, <1>7, InsertedTyped DEF Typed
  <2>4. CASE n = c.name
    <3>1. k \in CallClaims(n)
      BY <1>1, <2>4 DEF CallClaims, Claiming
    <3>2. RowClaims(n)' \subseteq RowClaims(n) \cup {c.zone}
      BY <2>3 DEF RowClaims
    <3>3. /\ <<"call", k>> \in Claims(n)
          /\ Claims(n)' \subseteq (Claims(n) \ {<<"call", k>>}) \cup {<<"row", c.zone>>}
      BY <1>3, <2>2, <3>1, <3>2 DEF Claims, Tagged
    <3>. QED  BY <1>3, <3>3, KeepPassed
  <2>5. CASE n # c.name
    <3>1. RowClaims(n)' = RowClaims(n)
      BY <2>3, <2>5 DEF RowClaims
    <3>. QED  BY <1>3, <2>2, <3>1, KeepShrunk
  <2>. QED  BY <2>4, <2>5
<1>8. base[c.zone][c.role] \in Name \cup {NoName}
  BY <1>1, SMTT(30) DEF Typed, TypeOK
<1>9. CASE DBCreateRole(k)
  BY <1>5, <1>6, <1>7, <1>8, <1>9, ZenonT(60) DEF DBCreateRole
<1>10. CASE DBPlayerRename(k)
  BY <1>5, <1>6, <1>7, <1>8, <1>10, Zenon DEF DBPlayerRename
<1>. QED  BY <1>9, <1>10

LEMMA ClaimsAnswers ==
  ASSUME Typed, NEW n \in Name, OneClaim(n), NEW k \in Call,
         DBCreateRoleClient(k) \/ DBPlayerRenameClient(k)
  PROVE  OneClaim(n)'
<1> DEFINE c == call[k]
           m == IF c.kind = "create" THEN Created(c)
                ELSE Post("rename", c.zone, c.role, c.name, c.old, c.ret = "ok")
<1>1. c \in Calls /\ c # Idle /\ c.at = "db_re"
  BY CallWithRole DEF DBCreateRoleClient, DBPlayerRenameClient
<1>2. UNCHANGED <<unique, gamedb, deletion>>
  BY DEF DBCreateRoleClient, DBPlayerRenameClient
<1>3. /\ RowClaims(n)' = RowClaims(n) /\ DeletionClaims(n)' = DeletionClaims(n)
      /\ unamerole' = unamerole
  BY <1>2 DEF RowClaims, DeletionClaims, unique, gamedb
<1>4. CallClaims(n)' \subseteq CallClaims(n) \ {k}
  BY CallsClaim DEF DBCreateRoleClient, DBPlayerRenameClient, Claiming
<1>5. notice' \subseteq notice \cup {m} /\ unanswered' \subseteq unanswered \cup {m}
  BY DEF DBCreateRoleClient, DBPlayerRenameClient, Tell
<1>6. Frees(m) /\ m.name = n => Claiming(c, n)
  BY <1>1, CallFields DEF Frees, Created, Post, Claiming, Failed
<1> HIDE DEF m
<1>7. CASE Frees(m) /\ m.name = n
  <2>1. k \in CallClaims(n)
    BY <1>6, <1>7 DEF CallClaims
  <2>2. NoticeClaims(n)' \subseteq NoticeClaims(n) \cup {m}
    BY <1>5 DEF NoticeClaims
  <2>3. /\ <<"call", k>> \in Claims(n)
        /\ Claims(n)' \subseteq (Claims(n) \ {<<"call", k>>}) \cup {<<"notice", m>>}
    BY <1>3, <1>4, <2>1, <2>2 DEF Claims, Tagged
  <2>. QED  BY <1>3, <2>3, KeepPassed
<1>8. CASE ~(Frees(m) /\ m.name = n)
  <2>1. NoticeClaims(n)' \subseteq NoticeClaims(n)
    BY <1>5, <1>8 DEF NoticeClaims
  <2>. QED  BY <1>3, <1>4, <2>1, KeepShrunk
<1>. QED  BY <1>7, <1>8

\* A write that times out ends the time in which names are safe.
LEMMA ClaimsFault ==
  ASSUME Typed, NEW n \in Name, OneClaim(n), Fault, InTime'
  PROVE  OneClaim(n)'
<1>1. "db" \in Budgets
  BY DEF Budgets
<1>2. \A k \in Call : ~DBCreateRoleOnTimeout(k) /\ ~DBPlayerRenameOnTimeout(k)
  BY <1>1, Spent DEF DBCreateRoleOnTimeout, DBPlayerRenameOnTimeout, Typed, InTime
<1>3. UNCHANGED <<unique, gamedb>>
  BY <1>2 DEF Fault, PreOnTimeout, Lose, Crash
<1>4. RowClaims(n)' = RowClaims(n) /\ unamerole' = unamerole
  BY <1>3 DEF RowClaims, unique, gamedb
<1>5. ASSUME NEW k \in Call, PreOnTimeout(k)
      PROVE  OneClaim(n)'
  <2> DEFINE c == call[k]
             d == [c EXCEPT !.waiting = FALSE]
  <2>1. c \in Calls /\ c # Idle
    BY <1>5, NotIdle, CallTyped DEF PreOnTimeout, Typed
  <2>2. d \in Calls /\ (Claiming(d, n) => Claiming(c, n)) /\ Answer(k, d)
    BY <1>5, <2>1 DEF Calls, Claiming, Failed, PreOnTimeout
  <2> HIDE DEF d
  <2>3. CallClaims(n)' \subseteq CallClaims(n)
    BY <2>2, CallsClaim
  <2>4. DeletionClaims(n)' = DeletionClaims(n) /\ NoticeClaims(n)' = NoticeClaims(n)
    BY <1>5 DEF PreOnTimeout, DeletionClaims, NoticeClaims
  <2>. QED  BY <1>4, <2>3, <2>4, KeepShrunk
<1>6. ASSUME NEW m \in notice, Lose(m)
      PROVE  OneClaim(n)'
  <2>1. /\ CallClaims(n)' = CallClaims(n) /\ DeletionClaims(n)' = DeletionClaims(n)
        /\ NoticeClaims(n)' \subseteq NoticeClaims(n)
    BY <1>6 DEF Lose, CallClaims, DeletionClaims, NoticeClaims
  <2>. QED  BY <1>4, <2>1, KeepShrunk
<1>7. ASSUME NEW z \in Zone, Crash(z)
      PROVE  OneClaim(n)'
  <2> DEFINE dropped(d) == IF d.zone = z THEN [d EXCEPT !.waiting = FALSE] ELSE d
             after(x) == IF x[1] = "deletion" THEN <<"deletion", dropped(x[2])>> ELSE x
  <2>1. CallClaims(n)' \subseteq CallClaims(n)
    <3>1. \A k \in Call : call'[k] = call[k] \/ (call[k] \in Calls /\ call'[k] = [call[k] EXCEPT !.waiting = FALSE])
      BY <1>7 DEF Crash, Typed, TypeOK
    <3>2. \A c \in Calls : Claiming([c EXCEPT !.waiting = FALSE], n) => Claiming(c, n)
      <4>1. ASSUME NEW c \in Calls  PROVE Claiming([c EXCEPT !.waiting = FALSE], n) => Claiming(c, n)
        <5>1. c # Idle
          BY DEF Calls, Idle
        <5>. QED  BY <5>1 DEF Calls, Claiming, Failed
      <4>. QED  BY <4>1
    <3>. QED  BY <3>1, <3>2 DEF CallClaims
  <2>2. NoticeClaims(n)' \subseteq NoticeClaims(n)
    BY <1>7 DEF Crash, NoticeClaims
  <2>3. \A d1 \in DeletionClaims(n)' : \E d \in DeletionClaims(n) : d1 = dropped(d)
    <3>1. deletion' = {dropped(d) : d \in deletion} /\ deletion \subseteq Deletions
      BY <1>7 DEF Crash, Typed, TypeOK
    <3>2. \A d \in Deletions : dropped(d).at = d.at /\ dropped(d).ok = d.ok /\ dropped(d).name = d.name
      BY DEF Deletions
    <3> HIDE DEF dropped
    <3>. QED  BY <3>1, <3>2 DEF DeletionClaims
  <2> HIDE DEF dropped
  <2>4. \A x1 \in Claims(n)' : \E x \in Claims(n) : x1 = after(x)
    <3>1. ASSUME NEW x1 \in Claims(n)'  PROVE \E x \in Claims(n) : x1 = after(x)
      <4>1. CASE x1 \in {"deletion"} \X DeletionClaims(n)'
        <5>1. PICK d \in DeletionClaims(n) : x1 = <<"deletion", dropped(d)>>
          BY <2>3, <4>1
        <5>2. <<"deletion", d>> \in Claims(n) /\ after(<<"deletion", d>>) = x1
          BY <5>1 DEF Claims, Tagged
        <5>. QED  BY <5>2
      <4>2. CASE x1 \notin {"deletion"} \X DeletionClaims(n)'
        <5>1. x1 \in Claims(n) /\ x1[1] # "deletion"
          BY <1>4, <2>1, <2>2, <4>2 DEF Claims, Tagged
        <5>. QED  BY <5>1
      <4>. QED  BY <4>1, <4>2
    <3>. QED  BY <3>1
  <2> HIDE DEF after
  <2>5. AtMostOne(Claims(n)') /\ (Claims(n)' # {} => Claims(n) # {})
    BY <2>4 DEF OneClaim, AtMostOne
  <2>. QED  BY <1>4, <2>5 DEF OneClaim, AtMostOne
<1>. QED  BY <1>2, <1>5, <1>6, <1>7 DEF Fault

LEMMA ClaimsDeleting ==
  ASSUME Typed, RowsAgree, NEW n \in Name, OneClaim(n), NEW d \in deletion,
         DBDeleteRole(d) \/ DBDeleteRoleClient(d)
  PROVE  OneClaim(n)'
<1>1. UNCHANGED <<unique, call, unanswered>>
  BY DEF DBDeleteRole, DBDeleteRoleClient
<1>2. CallClaims(n)' = CallClaims(n) /\ unamerole' = unamerole
  BY <1>1 DEF CallClaims, unique
<1>3. CASE DBDeleteRole(d)
  <2> DEFINE x == base[d.zone][d.role]
             gone == [d EXCEPT !.at = "db_re", !.ok = TRUE, !.name = x]
             kept == [d EXCEPT !.at = "db_re", !.ok = FALSE, !.name = NoName]
  <2>1. d \in Deletions /\ d.zone \in Zone /\ d.role \in Role
    BY DeletionFields DEF Typed, TypeOK
  <2>2. NoticeClaims(n)' = NoticeClaims(n)
    BY <1>3 DEF DBDeleteRole, NoticeClaims
  <2>3. gone.name = x /\ ~kept.ok
    BY <2>1 DEF Deletions
  <2>4. CASE deletion' = (deletion \ {d}) \cup {kept} /\ UNCHANGED gamedb
    <3> HIDE DEF kept
    <3>1. DeletionClaims(n)' \subseteq DeletionClaims(n) /\ RowClaims(n)' = RowClaims(n)
      BY <2>3, <2>4 DEF DeletionClaims, RowClaims, gamedb
    <3>. QED  BY <1>2, <2>2, <3>1, KeepShrunk
  <2>5. CASE WriteDelete(d) /\ deletion' = (deletion \ {d}) \cup {gone}
    <3>1. \A z \in Zone : rolename'[z][n] = IF z = d.zone /\ n = x THEN NoRole ELSE rolename[z][n]
      BY <2>5, DeletedTyped
    <3> HIDE DEF gone
    <3>2. CASE n = x
      <4>1. rolename[d.zone][n] = d.role
        <5>1. x # NoName
          BY <3>2, NamesAssumption
        <5>. QED  BY <2>1, <3>2, <5>1, RowsByRole
      <4>2. d.zone \in RowClaims(n) /\ RowClaims(n)' \subseteq RowClaims(n) \ {d.zone}
        BY <2>1, <3>1, <3>2, <4>1, NoRoleAssumption DEF RowClaims
      <4>3. DeletionClaims(n)' \subseteq DeletionClaims(n) \cup {gone}
        BY <2>5 DEF DeletionClaims
      <4>4. /\ <<"row", d.zone>> \in Claims(n)
            /\ Claims(n)' \subseteq (Claims(n) \ {<<"row", d.zone>>}) \cup {<<"deletion", gone>>}
        BY <1>2, <2>2, <4>2, <4>3 DEF Claims, Tagged
      <4>. QED  BY <1>2, <4>4, KeepPassed
    <3>3. CASE n # x
      <4>1. RowClaims(n)' = RowClaims(n)
        BY <3>1, <3>3 DEF RowClaims
      <4>2. DeletionClaims(n)' \subseteq DeletionClaims(n)
        BY <2>3, <2>5, <3>3 DEF DeletionClaims
      <4>. QED  BY <1>2, <2>2, <4>1, <4>2, KeepShrunk
    <3>. QED  BY <3>2, <3>3
  <2>. QED  BY <1>3, <2>4, <2>5 DEF DBDeleteRole, WriteDelete
<1>4. CASE DBDeleteRoleClient(d)
  <2> DEFINE m == Post("delete", d.zone, d.role, d.name, NoName, FALSE)
  <2>1. m.name = d.name
    BY DEF Post
  <2> HIDE DEF m
  <2>2. RowClaims(n)' = RowClaims(n) /\ DeletionClaims(n)' \subseteq DeletionClaims(n) \ {d}
    BY <1>4 DEF DBDeleteRoleClient, RowClaims, DeletionClaims, gamedb
  <2>3. CASE UNCHANGED notice \/ n # d.name
    <3>1. NoticeClaims(n)' \subseteq NoticeClaims(n)
      BY <1>1, <1>4, <2>1, <2>3 DEF DBDeleteRoleClient, NoticeClaims, Tell, m
    <3>. QED  BY <1>2, <2>2, <3>1, KeepShrunk
  <2>4. CASE d.ok /\ Tell(m) /\ n = d.name
    <3>1. d \in DeletionClaims(n) /\ NoticeClaims(n)' \subseteq NoticeClaims(n) \cup {m}
      BY <1>1, <1>4, <2>4 DEF DBDeleteRoleClient, DeletionClaims, NoticeClaims, Tell
    <3>2. /\ <<"deletion", d>> \in Claims(n)
          /\ Claims(n)' \subseteq (Claims(n) \ {<<"deletion", d>>}) \cup {<<"notice", m>>}
      BY <1>2, <2>2, <3>1 DEF Claims, Tagged
    <3>. QED  BY <1>2, <3>2, KeepPassed
  <2>. QED  BY <1>4, <2>3, <2>4 DEF DBDeleteRoleClient, m
<1>. QED  BY <1>3, <1>4

LEMMA ClaimsNoticed ==
  ASSUME Typed, OnlyCreations, NEW n \in Name, OneClaim(n), NEW m \in notice \cup unanswered,
         Noticed(m), InTime'
  PROVE  OneClaim(n)'
<1>1. m \in Notices /\ unamerole \in [Name -> Entry \cup {Free}]
  BY DEF Typed, TypeOK
<1>2. UNCHANGED <<gamedb, call, deletion>>
  BY DEF Noticed, PostCreateRole, PostPlayerRename, PostDeleteRole, PostCreateRoleOnTimeout
<1>3. /\ RowClaims(n)' = RowClaims(n) /\ CallClaims(n)' = CallClaims(n)
      /\ DeletionClaims(n)' = DeletionClaims(n)
  BY <1>2 DEF RowClaims, CallClaims, DeletionClaims, gamedb
<1>4. ~Spend("resend")
  <2>1. "resend" \in Budgets
    BY DEF Budgets
  <2>. QED  BY <2>1, Spent DEF Typed, InTime
<1>5. ASSUME notice' = notice \ {m}, unanswered' \subseteq unanswered,
             unamerole[n] # Free => unamerole'[n] # Free
      PROVE  OneClaim(n)'
  <2>1. NoticeClaims(n)' \subseteq NoticeClaims(n)
    BY <1>5 DEF NoticeClaims
  <2>. QED  BY <1>3, <1>5, <2>1, KeepShrunk
\* The notice that frees a name is the last claim on it.
<1>6. ASSUME m \in notice, notice' = notice \ {m}, unanswered' = unanswered \ {m}, Frees(m),
             SetName(m.name, Free)
      PROVE  OneClaim(n)'
  <2>1. CASE m.name = n
    <3>1. m \in NoticeClaims(n) /\ NoticeClaims(n)' \subseteq NoticeClaims(n) \ {m}
      BY <1>6, <2>1 DEF NoticeClaims
    <3>. QED  BY <1>3, <3>1, KeepFreed
  <2>2. CASE m.name # n
    BY <1>5, <1>6, <2>2 DEF SetName
  <2>. QED  BY <2>1, <2>2
<1>7. Used(m) # Free
  <2>1. Used(m).status = "USED" /\ Free.status = "free"
    BY DEF Used, Free
  <2>. QED  BY <2>1
<1>8. CASE PostCreateRole(m)
  <2>1. notice' = notice \ {m} /\ unanswered' = unanswered \ {m} /\ m \in notice
    BY <1>4, <1>8 DEF PostCreateRole
  <2>2. CASE m.ok /\ SetName(m.name, Used(m))
    BY <1>5, <1>7, <2>1, <2>2 DEF SetName
  <2>3. CASE ~m.ok /\ SetName(m.name, Free)
    BY <1>6, <2>1, <2>3 DEF Frees
  <2>. QED  BY <1>8, <2>2, <2>3 DEF PostCreateRole
<1>9. CASE PostPlayerRename(m)
  <2>1. notice' = notice \ {m} /\ unanswered' = unanswered \ {m} /\ m \in notice
    BY <1>9 DEF PostPlayerRename, OnlyCreations
  <2>2. CASE m.ok
    <3>1. unamerole[n] # Free => unamerole'[n] # Free
      <4>1. \A e \in Entry : [e EXCEPT !.status = "OBSOLETE"].status = "OBSOLETE"
        BY DEF Entry
      <4>2. unamerole[n] # Free => [unamerole[n] EXCEPT !.status = "OBSOLETE"] # Free
        <5>1. Free.status = "free" /\ unamerole[n] \in Entry \cup {Free}
          BY <1>1 DEF Free
        <5>. QED  BY <4>1, <5>1
      <4>. QED  BY <1>7, <1>9, <2>2, <4>2 DEF PostPlayerRename
    <3>. QED  BY <1>5, <2>1, <3>1
  <2>3. CASE ~m.ok /\ SetName(m.name, Free)
    BY <1>6, <2>1, <2>3 DEF Frees
  <2>. QED  BY <1>9, <2>2, <2>3 DEF PostPlayerRename
<1>10. CASE PostDeleteRole(m)
  <2>1. notice' = notice \ {m} /\ unanswered' = unanswered \ {m} /\ m \in notice /\ Frees(m)
    BY <1>10 DEF PostDeleteRole, OnlyCreations, Frees
  <2>. QED  BY <1>6, <1>10, <2>1 DEF PostDeleteRole
<1>11. CASE PostCreateRoleOnTimeout(m)
  <2> DEFINE again == [m EXCEPT !.copy = @ + 1]
  <2>1. again.name = m.name /\ (Frees(again) <=> Frees(m))
    BY <1>1 DEF Notices, Frees
  <2> HIDE DEF again
  <2>2. /\ m \notin notice /\ notice' = notice \cup {again} /\ unanswered' = (unanswered \ {m}) \cup {again}
        /\ unamerole' = unamerole
    BY <1>4, <1>11 DEF PostCreateRoleOnTimeout, Tell, again, unique
  <2>3. CASE Frees(m) /\ m.name = n
    <3>1. m \in NoticeClaims(n) /\ NoticeClaims(n)' \subseteq (NoticeClaims(n) \ {m}) \cup {again}
      BY <2>2, <2>3 DEF NoticeClaims
    <3>2. /\ <<"notice", m>> \in Claims(n)
          /\ Claims(n)' \subseteq (Claims(n) \ {<<"notice", m>>}) \cup {<<"notice", again>>}
      BY <1>3, <3>1 DEF Claims, Tagged
    <3>. QED  BY <2>2, <3>2, KeepPassed
  <2>4. CASE ~(Frees(m) /\ m.name = n)
    <3>1. NoticeClaims(n)' \subseteq NoticeClaims(n)
      BY <2>1, <2>2, <2>4 DEF NoticeClaims
    <3>. QED  BY <1>3, <2>2, <3>1, KeepShrunk
  <2>. QED  BY <2>3, <2>4
<1>. QED  BY <1>8, <1>9, <1>10, <1>11 DEF Noticed

LEMMA OnlyCreationsStep == Typed /\ OnlyCreations /\ [Next]_vars => OnlyCreations'
<1>. SUFFICES ASSUME Typed, OnlyCreations, [Next]_vars  PROVE OnlyCreations'
  OBVIOUS
<1>1. UNCHANGED unanswered => OnlyCreations'
  BY DEF OnlyCreations
<1>2. CASE UNCHANGED vars
  BY <1>1, <1>2 DEF vars
<1>3. CASE Request
  BY <1>1, <1>3 DEF Request, CreateRole, PlayerRename, Start, DelRole, UndoDeleteRole, Expire
<1>4. ASSUME NEW k \in Call, CallStep(k)  PROVE OnlyCreations'
  <2>1. CASE DBCreateRoleClient(k)
    <3>1. Created(call[k]).kind = "create"
      BY SMTT(30) DEF Created, Post
    <3>. QED  BY <2>1, <3>1 DEF DBCreateRoleClient, OnlyCreations
  <2>2. CASE ~DBCreateRoleClient(k)
    BY <1>1, <1>4, <2>2, Zenon DEF CallStep, PreCreateRole, PrePlayerRename, PreClient, DBCreateRole,
       DBPlayerRename, DBPlayerRenameClient
  <2>. QED  BY <2>1, <2>2
<1>5. CASE Deleting
  BY <1>1, <1>5 DEF Deleting, DBDeleteRole, DBDeleteRoleClient
<1>6. CASE Fault
  <2>1. ASSUME NEW k \in Call, DBCreateRoleOnTimeout(k)  PROVE OnlyCreations'
    <3>1. Created([call[k] EXCEPT !.ret = "failed"]).kind = "create"
      BY DEF Created, Post
    <3>. QED  BY <2>1, <3>1 DEF DBCreateRoleOnTimeout, OnlyCreations
  <2>2. ASSUME NEW z \in Zone, Crash(z)  PROVE OnlyCreations'
    BY <2>2 DEF Crash, OnlyCreations
  <2>. QED  BY <1>1, <1>6, <2>1, <2>2 DEF Fault, PreOnTimeout, DBPlayerRenameOnTimeout, Lose
<1>7. ASSUME NEW m \in notice \cup unanswered, Noticed(m)  PROVE OnlyCreations'
  <2>1. CASE PostCreateRoleOnTimeout(m)
    <3>1. m \in unanswered /\ m \in Notices
      BY <2>1 DEF PostCreateRoleOnTimeout, Typed, TypeOK
    <3>2. [m EXCEPT !.copy = @ + 1].kind = m.kind
      BY <3>1 DEF Notices
    <3>. QED  BY <2>1, <3>1, <3>2 DEF PostCreateRoleOnTimeout, OnlyCreations
  <2>2. CASE PostCreateRole(m)
    BY <2>2 DEF PostCreateRole, OnlyCreations
  <2>3. CASE PostPlayerRename(m) \/ PostDeleteRole(m)
    BY <1>1, <2>3 DEF PostPlayerRename, PostDeleteRole
  <2>. QED  BY <1>7, <2>1, <2>2, <2>3 DEF Noticed
<1>. QED  BY <1>2, <1>3, <1>4, <1>5, <1>6, <1>7 DEF Next

----------------------------------------------------------------------------
(* The inductive invariant, and what follows from it. *)

LEMMA InTimeBefore ==
  ASSUME Typed, [Next]_vars, InTime'
  PROVE  InTime
<1>1. \A f \in Budgets : Spend(f) => InTime
  BY Spent DEF InTime, Typed
<1>2. {"request", "expiry", "pre", "db", "resend", "lost", "crash"} \subseteq Budgets
  BY DEF Budgets
<1>3. UNCHANGED left => InTime
  BY DEF InTime, WritesInTime, PostsInTime
<1>4. CASE UNCHANGED vars
  BY <1>3, <1>4 DEF vars
<1>5. CASE Request
  BY <1>1, <1>2, <1>3, <1>5, SMTT(30) DEF Request, CreateRole, PlayerRename, Start, DelRole, UndoDeleteRole, Expire
<1>6. ASSUME NEW k \in Call, CallStep(k)  PROVE InTime
  BY <1>3, <1>6, Zenon DEF CallStep, PreCreateRole, PrePlayerRename, PreClient, DBCreateRole,
     DBPlayerRename, DBCreateRoleClient, DBPlayerRenameClient
<1>7. CASE Deleting
  BY <1>3, <1>7 DEF Deleting, DBDeleteRole, DBDeleteRoleClient
<1>8. CASE Fault
  BY <1>1, <1>2, <1>8 DEF Fault, PreOnTimeout, DBCreateRoleOnTimeout, DBPlayerRenameOnTimeout, Lose, Crash
<1>9. ASSUME NEW m \in notice \cup unanswered, Noticed(m)  PROVE InTime
  BY <1>1, <1>2, <1>3, <1>9 DEF Noticed, PostCreateRole, PostPlayerRename, PostDeleteRole, PostCreateRoleOnTimeout
<1>. QED  BY <1>4, <1>5, <1>6, <1>7, <1>8, <1>9 DEF Next

LEMMA ClaimStep ==
  ASSUME Typed, RowsAgree, OnlyCreations, NEW n \in Name, OneClaim(n), [Next]_vars, InTime'
  PROVE  OneClaim(n)'
<1>1. CASE UNCHANGED vars
  BY <1>1, KeepShrunk DEF vars, unique, gamedb, RowClaims, CallClaims, DeletionClaims, NoticeClaims
<1>2. CASE Request
  BY <1>2, ClaimsRequest
<1>3. ASSUME NEW k \in Call, CallStep(k)  PROVE OneClaim(n)'
  BY <1>3, ClaimsPre, ClaimsDB, ClaimsAnswers DEF CallStep
<1>4. CASE Deleting
  BY <1>4, ClaimsDeleting DEF Deleting
<1>5. CASE Fault
  BY <1>5, ClaimsFault
<1>6. ASSUME NEW m \in notice \cup unanswered, Noticed(m)  PROVE OneClaim(n)'
  BY <1>6, ClaimsNoticed
<1>. QED  BY <1>1, <1>2, <1>3, <1>4, <1>5, <1>6 DEF Next

LEMMA InitIInv == Init => IInv
<1>. SUFFICES ASSUME Init  PROVE IInv
  OBVIOUS
<1>1. RowsAgree
  BY DEF Init, RowsAgree, Role
<1>2. OnlyCreations
  BY DEF Init, OnlyCreations
<1>3. ASSUME NEW n \in Name  PROVE OneClaim(n)
  <2>1. RowClaims(n) = {} /\ DeletionClaims(n) = {} /\ NoticeClaims(n) = {}
    BY <1>3 DEF Init, RowClaims, DeletionClaims, NoticeClaims
  <2>2. CallClaims(n) = {}
    BY DEF Init, CallClaims, Claiming
  <2>. QED  BY <2>1, <2>2 DEF OneClaim, AtMostOne, Claims, Tagged
<1>. QED  BY <1>1, <1>2, <1>3, InitTyped DEF IInv

LEMMA StepIInv == IInv /\ [Next]_vars => IInv'
<1>. SUFFICES ASSUME IInv, [Next]_vars  PROVE IInv'
  OBVIOUS
<1>1. Typed' /\ RowsAgree' /\ OnlyCreations'
  BY TypedStep, RowsStep, OnlyCreationsStep DEF IInv
<1>2. ASSUME InTime', NEW n \in Name  PROVE OneClaim(n)'
  BY <1>2, InTimeBefore, ClaimStep DEF IInv
<1>. QED  BY <1>1, <1>2 DEF IInv

\* Types, the agreement of the rows, and one claim on a name at most.
THEOREM Invariance == Spec => []IInv
BY InitIInv, StepIInv, PTL DEF Spec

\* A name has a row in one gamedbd at most.
LEMMA OneRow ==
  ASSUME NEW n \in Name, OneClaim(n)
  PROVE  /\ \A y, z \in RowClaims(n) : y = z
         /\ \A k \in CallClaims(n) : \A y : y \notin RowClaims(n)
<1>1. \A y \in RowClaims(n) : <<"row", y>> \in Claims(n)
  BY DEF Claims, Tagged
<1>2. \A k \in CallClaims(n) : <<"call", k>> \in Claims(n)
  BY DEF Claims, Tagged
<1>3. \A y, z : <<"row", y>> = <<"row", z>> => y = z
  OBVIOUS
<1>4. \A y, k : <<"row", y>> # <<"call", k>>
  OBVIOUS
<1>. QED  BY <1>1, <1>2, <1>3, <1>4 DEF OneClaim, AtMostOne

\* Names are unique over all zones as long as writes and posts are answered
\* in time, whatever is lost and whoever crashes.
THEOREM NamesAreUnique == Spec => []NameUnique
<1>1. IInv => NameUnique
  BY OneRow DEF IInv, NameUnique, InTime, RowClaims
<1>. QED  BY <1>1, Invariance, PTL

----------------------------------------------------------------------------
(* Where no write and no post can time out, the names are a NameRegistry. *)

LEMMA HoldersAre ==
  ASSUME NEW n \in Name
  PROVE  /\ holders[n] = {<<z, rolename[z][n]>> : z \in RowClaims(n)}
         /\ holders'[n] = {<<z, rolename'[z][n]>> : z \in RowClaims(n)'}
BY DEF holders, RowClaims

LEMMA HoldersDomain ==
  /\ holders = [n \in Name |-> holders[n]]
  /\ holders' = [n \in Name |-> holders'[n]]
BY DEF holders

LEMMA Updated ==
  ASSUME NEW f, NEW g, f = [x \in Name |-> f[x]], g = [x \in Name |-> g[x]],
         NEW n \in Name, NEW v, g[n] = v, \A x \in Name : x # n => g[x] = f[x]
  PROVE  g = [f EXCEPT ![n] = v]
<1>1. [f EXCEPT ![n] = v] = [x \in Name |-> IF x = n THEN v ELSE f[x]]
  OBVIOUS
<1>2. [x \in Name |-> g[x]] = [x \in Name |-> IF x = n THEN v ELSE f[x]]
  OBVIOUS
<1>. QED  BY <1>1, <1>2

LEMMA HoldersStep ==
  ASSUME IInv, InTime, [Next]_vars
  PROVE  [Registry!Next]_holders
<1>. USE DEF Typed, IInv
<1>1. CASE UNCHANGED <<base, rolename, rolelist>>
  BY <1>1 DEF holders
<1>2. ASSUME NEW k \in Call, WriteCreate(k) \/ WriteRename(k)
      PROVE  Registry!Next
  <2>1. PICK z \in Zone, r \in Role, n \in Name :
          /\ z = call[k].zone /\ r = call[k].role /\ n = call[k].name
          /\ call[k].at = "db" /\ Inserted(z, r, n)
    BY <1>2, WrittenTyped DEF WriteCreate, WriteRename
  <2>2. \A y \in Zone, x \in Name : rolename'[y][x] = IF y = z /\ x = n THEN r ELSE rolename[y][x]
    BY <2>1, InsertedTyped
  <2>3. RowClaims(n) = {}
    <3>1. k \in CallClaims(n)
      BY <2>1, NotIdle DEF CallClaims, Claiming
    <3>. QED  BY <2>1, <3>1, OneRow
  <2>4. RowClaims(n)' = {z} /\ rolename'[z][n] = r
    BY <2>1, <2>2, <2>3, NoRoleAssumption DEF RowClaims
  <2>5. holders[n] = {} /\ holders'[n] = {<<z, r>>}
    BY <2>1, <2>3, <2>4, HoldersAre
  <2>6. ASSUME NEW x \in Name, x # n  PROVE holders'[x] = holders[x]
    <3>1. RowClaims(x)' = RowClaims(x) /\ \A y \in Zone : rolename'[y][x] = rolename[y][x]
      BY <2>2, <2>6 DEF RowClaims
    <3>2. RowClaims(x) \subseteq Zone
      BY DEF RowClaims
    <3> DEFINE now == {<<y, rolename[y][x]>> : y \in RowClaims(x)}
               then == {<<y, rolename'[y][x]>> : y \in RowClaims(x)'}
    <3>3. \A e : e \in now <=> e \in then
      BY <3>1, <3>2
    <3>4. holders[x] = now /\ holders'[x] = then
      BY HoldersAre
    <3> HIDE DEF now, then
    <3>. QED  BY <3>3, <3>4
  <2>7. holders' = [holders EXCEPT ![n] = {<<z, r>>}]
    BY <2>1, <2>5, <2>6, HoldersDomain, Updated
  <2>8. <<z, r>> \in Zone \X Role
    BY <2>1
  <2>. QED  BY <2>1, <2>5, <2>7, <2>8 DEF Registry!Next, Registry!Take
<1>3. ASSUME NEW d \in deletion, WriteDelete(d)
      PROVE  [Registry!Next]_holders
  <2>1. PICK z \in Zone, n \in Name \cup {NoName} :
          z = d.zone /\ n = base[z][d.role] /\ d.role \in Role
    BY <1>3, DeletedTyped
  <2>2. \A y \in Zone, x \in Name : rolename'[y][x] = IF y = z /\ x = n THEN NoRole ELSE rolename[y][x]
    BY <1>3, <2>1, DeletedTyped
  <2>3. n # NoName => rolename[z][n] = d.role
    BY <2>1, RowsByRole
  <2>4. ASSUME NEW x \in Name, x # n  PROVE holders'[x] = holders[x]
    <3>1. RowClaims(x)' = RowClaims(x) /\ \A y \in Zone : rolename'[y][x] = rolename[y][x]
      BY <2>2, <2>4 DEF RowClaims
    <3>2. RowClaims(x) \subseteq Zone
      BY DEF RowClaims
    <3> DEFINE now == {<<y, rolename[y][x]>> : y \in RowClaims(x)}
               then == {<<y, rolename'[y][x]>> : y \in RowClaims(x)'}
    <3>3. \A e : e \in now <=> e \in then
      BY <3>1, <3>2
    <3>4. holders[x] = now /\ holders'[x] = then
      BY HoldersAre
    <3> HIDE DEF now, then
    <3>. QED  BY <3>3, <3>4
  <2>5. CASE n \in Name
    <3>1. z \in RowClaims(n)
      BY <2>1, <2>3, <2>5, NamesAssumption, NoRoleAssumption DEF RowClaims
    <3>2. \A y \in RowClaims(n) : y = z
      BY <2>5, <3>1, OneRow
    <3>3. RowClaims(n)' = {}
      BY <2>2, <2>5, <3>2 DEF RowClaims
    <3>4. holders'[n] = {}
      BY <2>5, <3>3, HoldersAre
    <3>5. holders' = [holders EXCEPT ![n] = {}]
      BY <2>4, <2>5, <3>4, HoldersDomain, Updated
    <3>. QED  BY <2>5, <3>5 DEF Registry!Next, Registry!Release
  <2>6. CASE n \notin Name
    BY <2>4, <2>6, HoldersDomain
  <2>. QED  BY <2>5, <2>6
<1>. QED  BY <1>1, <1>2, <1>3, Writes

LEMMA AlwaysInTime ==
  ASSUME MaxDBTimeout = 0, MaxResend = 0, Typed
  PROVE  InTime
<1>1. left.db \in Nat /\ left.resend \in Nat
  BY DEF Typed, TypeOK
<1>. QED  BY <1>1 DEF Typed, LeftBound, InTime, WritesInTime, PostsInTime

\* The exchanges of gdeliveryd with uniquenamed and the gamedbds implement the
\* registry of names, for any zones, accounts, names and calls at once.
THEOREM ImplementsRegistry ==
  ASSUME MaxDBTimeout = 0, MaxResend = 0
  PROVE  Spec => RegistrySpec
<1>1. Init => Registry!Init
  BY DEF Init, Registry!Init, holders
<1>2. IInv /\ [Next]_vars => [Registry!Next]_holders
  BY HoldersStep, AlwaysInTime DEF IInv
<1>. QED  BY <1>1, <1>2, Invariance, PTL DEF Spec, RegistrySpec, Registry!Spec
=============================================================================
