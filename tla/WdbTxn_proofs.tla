--------------------------- MODULE WdbTxn_proofs ---------------------------
(***************************************************************************)
(* Theorems about WdbTxn, for any number of tables, threads, checkpoint     *)
(* callers, keys and values.                                                *)
(***************************************************************************)
EXTENDS WdbTxn, TLAPS, WellFoundedInduction

----------------------------------------------------------------------------
(* The next table of a loop is the lowest one left.                        *)

\* A set of tables that is not empty has a lowest member (WFMin on Nat).
LEMMA LowestInSet ==
  ASSUME NEW S \in SUBSET Storage, S # {}
  PROVE  /\ Lowest(S) \in S
         /\ \A r \in S : Lowest(S) <= r
<1>1. S \subseteq Nat
  BY SizesAssumption DEF Storage
<1>2. OpToRel(<, Nat) = {p \in Nat \X Nat : p[1] < p[2]}
  BY Zenon DEF OpToRel
<1>3. PICK x \in S : \A y \in S : ~ (<<y, x>> \in OpToRel(<, Nat))
  BY <1>1, NatLessThanWellFounded, WFMin
<1>4. ASSUME NEW y \in S, y < x  PROVE FALSE
  <2>1. <<y, x>> \in Nat \X Nat
    BY <1>1
  <2>2. <<y, x>>[1] < <<y, x>>[2]
    BY <1>4
  <2>3. <<y, x>> \in {p \in Nat \X Nat : p[1] < p[2]}
    BY Zenon, <2>1, <2>2
  <2>. QED  BY <1>2, <1>3, <2>3
<1>5. \A y \in S : x <= y
  BY <1>1, <1>4
<1>. QED  BY <1>1, <1>5 DEF Lowest

\* The table a loop visits next is one it has visits left for, and the lowest.
LEMMA NextIsLowest ==
  ASSUME NEW a \in Agent, Left(a) # {}
  PROVE  /\ NextTable(a) \in Storage /\ NextTable(a) \in Left(a)
         /\ \A r \in Left(a) : NextTable(a) <= r
<1>1. Left(a) \in SUBSET Storage
  BY DEF Left
<1>. QED  BY <1>1, LowestInSet DEF NextTable

\* A visit takes one from the count of one table.
LEMMA VisitCounts ==
  ASSUME todo \in [Agent -> [Storage -> Nat]], NEW a \in Agent, NEW s \in Left(a), Visit(a, s)
  PROVE  /\ todo' \in [Agent -> [Storage -> Nat]]
         /\ \A b \in Agent : b # a => todo'[b] = todo[b]
         /\ \A r \in Storage : todo'[a][r] = IF r = s THEN todo[a][r] - 1 ELSE todo[a][r]
<1>1. s \in Storage /\ todo[a] \in [Storage -> Nat] /\ todo[a][s] \in Nat /\ todo[a][s] > 0
  BY DEF Left
<1>2. [todo[a] EXCEPT ![s] = @ - 1] \in [Storage -> Nat]
  BY <1>1
<1>3. todo' = [todo EXCEPT ![a] = [todo[a] EXCEPT ![s] = @ - 1]]
  BY DEF Visit
<1>. QED  BY <1>1, <1>2, <1>3

----------------------------------------------------------------------------
(* Where the threads and the checkpoint callers can be.                    *)

ThreadInv(t) ==
  /\ phase[t] \notin {"snapping", "releasing"}
  /\ phase[t] \in {"idle", "locking"} => ~locked[t]
  /\ phase[t] = "unlocking" => locked[t]
  /\ phase[t] \in {"locking", "unlocking"} => 
       \A s \in Storage : todo[t][s] <= storage_vec[t][s]

CkInv(c) ==
  /\ phase[c] \notin {"begun", "thrown", "unlocking"}
  /\ \A s \in Storage : todo[c][s] <= EachTable[s]

\* Loops visit the tables in order: what they have lies below what is left, or
\* is the table with visits left itself.
LoopInv(a) == phase[a] = "locking" =>
  \A s \in Held(a), r \in Left(a) : s <= r

IInv ==
  /\ TypeOK
  /\ \A t \in Thread : ThreadInv(t)
  /\ \A c \in Checkpointer : CkInv(c)
  /\ \A a \in Agent : LoopInv(a)
  /\ LocksHeld
  /\ UndoOwned

LEMMA InitIInv == Init => IInv
<1>. SUFFICES ASSUME Init  PROVE IInv
  OBVIOUS
<1>. USE DEF Init
<1>1. TypeOK
  BY DEF TypeOK, Row, NoUndo, NoTable, Phases, Agent
<1>2. \A t \in Thread : ThreadInv(t)
  BY DEF ThreadInv, Agent
<1>3. \A c \in Checkpointer : CkInv(c)
  BY DEF CkInv, NoTable, EachTable, Agent
<1>4. \A a \in Agent : LoopInv(a)
  BY DEF LoopInv, Agent
<1>5. LocksHeld
  BY AgentsAssumption DEF LocksHeld, Held, Agent
<1>6. UndoOwned
  BY DEF UndoOwned
<1>. QED  BY <1>1, <1>2, <1>3, <1>4, <1>5, <1>6 DEF IInv
----------------------------------------------------------------------------
(* Type correctness.                                                       *)

\* Setting one row of one table keeps the type of the tables and of the log.
LEMMA RowUpdate ==
  ASSUME NEW f \in [Storage -> Row], NEW s \in Storage, NEW k \in Key,
         NEW v \in Value \cup {NoVal}
  PROVE  [f EXCEPT ![s][k] = v] \in [Storage -> Row]
<1>1. [f[s] EXCEPT ![k] = v] \in Row
  BY DEF Row
<1>. QED  BY <1>1

LEMMA TypeStep ==
  ASSUME TypeOK, [Next]_vars
  PROVE  TypeOK'
<1>. USE DEF TypeOK, Agent, Phases, txnVars, ckVars, logVars
<1>1. ASSUME NEW t \in Thread, NEW s \in Storage, GetStorage(t, s)  PROVE TypeOK'
  <2>1. [storage_vec[t] EXCEPT ![s] = @ + 1] \in [Storage -> Nat]
    OBVIOUS
  <2>2. storage_vec' = [storage_vec EXCEPT ![t] = [storage_vec[t] EXCEPT ![s] = @ + 1]]
    BY <1>1 DEF GetStorage
  <2>. QED  BY <1>1, <2>1, <2>2 DEF GetStorage
<1>2. ASSUME NEW t \in Thread, Begin(t)  PROVE TypeOK'
  BY <1>2 DEF Begin
<1>3. ASSUME NEW t \in Thread, LockBegin(t)  PROVE TypeOK'
  BY <1>3 DEF LockBegin
<1>4. ASSUME NEW t \in Thread, LockStep(t)  PROVE TypeOK'
  <2>1. NextTable(t) \in Left(t) /\ Visit(t, NextTable(t))
    BY <1>4, NextIsLowest DEF LockStep
  <2>2. todo' \in [Agent -> [Storage -> Nat]]
    BY <2>1, VisitCounts
  <2>. QED  BY <1>4, <2>2 DEF LockStep
<1>5. ASSUME NEW t \in Thread, LockDone(t)  PROVE TypeOK'
  BY <1>5 DEF LockDone
<1>6. ASSUME NEW t \in Thread, NEW s \in Storage, NEW k \in Key, NEW v \in Value,
             Insert(t, s, k, v)
      PROVE TypeOK'
  <2>1. db[s][k] \in Value \cup {NoVal}
    BY DEF Row
  <2>2. db' \in [Storage -> Row]
    BY <1>6, RowUpdate DEF Insert, Put
  <2>3. prepared' \in [Storage -> Row]
    <3>1. [prepared EXCEPT ![s][k] = db[s][k]] \in [Storage -> Row]
      BY <2>1, RowUpdate
    <3>2. prepared' \in {prepared, [prepared EXCEPT ![s][k] = db[s][k]]}
      BY <1>6 DEF Insert
    <3>. QED  BY <3>1, <3>2
  <2>4. new_key' \in [Storage -> SUBSET Key]
    BY <1>6 DEF Insert
  <2>. QED  BY <1>6, <2>2, <2>3, <2>4 DEF Insert
<1>7. ASSUME NEW t \in Thread, NEW s \in Storage, NEW k \in Key, NEW v \in Value,
             InsertNoOverwrite(t, s, k, v)
      PROVE TypeOK'
  <2>1. db' \in [Storage -> Row]
    BY <1>7, RowUpdate DEF InsertNoOverwrite, Put
  <2>. QED  BY <1>7, <2>1 DEF InsertNoOverwrite
<1>8. ASSUME NEW t \in Thread, NEW s \in Storage, NEW k \in Key, Del(t, s, k)
      PROVE TypeOK'
  <2>1. db[s][k] \in Value \cup {NoVal}
    BY DEF Row
  <2>2. db' \in [Storage -> Row]
    BY <1>8, RowUpdate DEF Del, Put
  <2>3. prepared' \in [Storage -> Row]
    <3>1. [prepared EXCEPT ![s][k] = db[s][k]] \in [Storage -> Row]
      BY <2>1, RowUpdate
    <3>2. prepared' \in {prepared, [prepared EXCEPT ![s][k] = db[s][k]]}
      BY <1>8 DEF Del
    <3>. QED  BY <3>1, <3>2
  <2>4. new_key' \in [Storage -> SUBSET Key]
    BY <1>8 DEF Del
  <2>. QED  BY <1>8, <2>2, <2>3, <2>4 DEF Del
<1>9. ASSUME NEW t \in Thread, AbortAndThrow(t)  PROVE TypeOK'
  BY <1>9 DEF AbortAndThrow
<1>10. ASSUME NEW t \in Thread, Release(t)  PROVE TypeOK'
  <2>1. /\ todo' \in {todo, [todo EXCEPT ![t] = storage_vec[t]]}
        /\ storage_vec' \in {storage_vec, [storage_vec EXCEPT ![t] = NoTable]}
        /\ phase' \in {[phase EXCEPT ![t] = "unlocking"], [phase EXCEPT ![t] = "idle"]}
    BY <1>10 DEF Release
  <2>2. todo' \in [Agent -> [Storage -> Nat]] /\ storage_vec' \in [Thread -> [Storage -> Nat]]
    <3>1. NoTable \in [Storage -> Nat] /\ storage_vec[t] \in [Storage -> Nat]
      BY DEF NoTable
    <3>. QED  BY <2>1, <3>1
  <2>3. phase' \in [Agent -> Phases]
    BY <2>1
  <2>. QED  BY <1>10, <2>2, <2>3 DEF Release
<1>11. ASSUME NEW t \in Thread, UnlockStep(t)  PROVE TypeOK'
  <2>1. NextTable(t) \in Storage /\ todo' \in [Agent -> [Storage -> Nat]]
    BY <1>11, NextIsLowest, VisitCounts DEF UnlockStep
  <2>2. Rolled(NextTable(t)) \in Row /\ NoUndo \in Row
    BY <2>1 DEF Rolled, NoUndo, Row
  <2>3. db' \in [Storage -> Row]
    BY <1>11, <2>1, <2>2 DEF UnlockStep
  <2>4. prepared' \in [Storage -> Row] /\ new_key' \in [Storage -> SUBSET Key]
    BY <1>11, <2>2 DEF UnlockStep
  <2>5. locker' \in [Storage -> Agent \cup {Nobody}]
    BY <1>11, <2>1 DEF UnlockStep
  <2>. QED  BY <1>11, <2>1, <2>3, <2>4, <2>5 DEF UnlockStep
<1>12. ASSUME NEW t \in Thread, UnlockDone(t)  PROVE TypeOK'
  BY <1>12 DEF UnlockDone, NoTable
<1>13. ASSUME NEW c \in Checkpointer, CkEnter(c)  PROVE TypeOK'
  BY <1>13 DEF CkEnter, EachTable
<1>14. ASSUME NEW c \in Checkpointer, CkLock(c)  PROVE TypeOK'
  <2>1. todo' \in [Agent -> [Storage -> Nat]]
    BY <1>14, NextIsLowest, VisitCounts DEF CkLock
  <2>. QED  BY <1>14, <2>1 DEF CkLock
<1>15. ASSUME NEW c \in Checkpointer, CkLocked(c)  PROVE TypeOK'
  BY <1>15 DEF CkLocked, EachTable
<1>16. ASSUME NEW c \in Checkpointer, CkSnapshot(c)  PROVE TypeOK'
  <2>. DEFINE n == NextTable(c)
  <2>1. n \in Storage /\ todo' \in [Agent -> [Storage -> Nat]]
    BY <1>16, NextIsLowest, VisitCounts DEF CkSnapshot
  <2>. QED  BY <1>16, <2>1 DEF CkSnapshot
<1>17. ASSUME NEW c \in Checkpointer, CkWritten(c)  PROVE TypeOK'
  BY <1>17 DEF CkWritten, EachTable
<1>18. ASSUME NEW c \in Checkpointer, CkRelease(c)  PROVE TypeOK'
  <2>1. NextTable(c) \in Storage /\ todo' \in [Agent -> [Storage -> Nat]]
    BY <1>18, NextIsLowest, VisitCounts DEF CkRelease
  <2>. QED  BY <1>18, <2>1 DEF CkRelease
<1>19. ASSUME NEW c \in Checkpointer, CkExit(c)  PROVE TypeOK'
  BY <1>19 DEF CkExit
<1>20. CASE UNCHANGED vars
  BY <1>20 DEF vars
<1>. QED
  BY <1>1, <1>2, <1>3, <1>4, <1>5, <1>6, <1>7, <1>8, <1>9, <1>10, <1>11, <1>12,
     <1>13, <1>14, <1>15, <1>16, <1>17, <1>18, <1>19, <1>20
     DEF Next, Handler, Access, Locking, Checkpoint

----------------------------------------------------------------------------
(* The inductive invariant is preserved by every step.                     *)

\* The part of it that speaks of locks and loops, agent by agent.
AgentPart(a) ==
  /\ a \in Thread => ThreadInv(a)
  /\ a \in Checkpointer => CkInv(a)
  /\ LoopInv(a)
  /\ \A s \in Storage : locker[s] = a <=> s \in Held(a)

LockPart == \A a \in Agent : AgentPart(a)

LEMMA LockPartIs ==
  LockPart <=> /\ \A t \in Thread : ThreadInv(t)
               /\ \A c \in Checkpointer : CkInv(c)
               /\ \A a \in Agent : LoopInv(a)
               /\ LocksHeld
BY DEF LockPart, AgentPart, LocksHeld, Agent

\* What a thread's loops say it holds, now and after a step.
LEMMA ThreadHeld ==
  ASSUME NEW t \in Thread, NEW s \in Storage
  PROVE  /\ s \in Held(t) <=>
              IF phase[t] = "locking" THEN todo[t][s] < storage_vec[t][s]
              ELSE IF phase[t] \in {"unlocking", "snapping"}
                   THEN todo[t][s] = storage_vec[t][s] /\ storage_vec[t][s] > 0
              ELSE locked[t] /\ storage_vec[t][s] > 0
         /\ s \in Held(t)' <=>
              IF phase'[t] = "locking" THEN todo'[t][s] < storage_vec'[t][s]
              ELSE IF phase'[t] \in {"unlocking", "snapping"}
                   THEN todo'[t][s] = storage_vec'[t][s] /\ storage_vec'[t][s] > 0
              ELSE locked'[t] /\ storage_vec'[t][s] > 0
BY DEF Held, Target, Has

\* What a checkpoint's loops say it holds.
LEMMA CkHeld ==
  ASSUME NEW c \in Checkpointer, NEW s \in Storage
  PROVE  /\ s \in Held(c) <=>
              \/ phase[c] = "locking" /\ todo[c][s] < 1
              \/ phase[c] \in {"unlocking", "snapping"} /\ todo[c][s] = 1
         /\ s \in Held(c)' <=>
              \/ phase'[c] = "locking" /\ todo'[c][s] < 1
              \/ phase'[c] \in {"unlocking", "snapping"} /\ todo'[c][s] = 1
<1>1. c \notin Thread /\ Target(c) = EachTable /\ EachTable[s] = 1
  BY AgentsAssumption DEF Target, EachTable
<1>2. Target(c)' = EachTable
  BY <1>1 DEF Target, EachTable
<1>. QED  BY <1>1, <1>2 DEF Held

\* A step of one agent leaves what the others have.
LEMMA OneAgent ==
  ASSUME LockPart, NEW a \in Agent,
         \A b \in Agent : b # a => phase'[b] = phase[b] /\ todo'[b] = todo[b],
         \A t \in Thread : t # a => storage_vec'[t] = storage_vec[t] /\ locked'[t] = locked[t],
         \A s \in Storage, b \in Agent : b # a => (locker'[s] = b <=> locker[s] = b),
         AgentPart(a)'
  PROVE  LockPart'
<1>. SUFFICES ASSUME NEW b \in Agent, b # a  PROVE AgentPart(b)'
  BY DEF LockPart
<1>1. phase'[b] = phase[b] /\ todo'[b] = todo[b] /\ AgentPart(b)
  BY DEF LockPart
<1>2. b \in Thread => storage_vec'[b] = storage_vec[b] /\ locked'[b] = locked[b]
  OBVIOUS
<1>3. Held(b)' = Held(b) /\ Left(b)' = Left(b)
  BY <1>1, <1>2 DEF Held, Target, Has, Left
<1>4. (b \in Thread => ThreadInv(b)') /\ (b \in Checkpointer => CkInv(b)')
  BY <1>1, <1>2 DEF AgentPart, ThreadInv, CkInv
<1>5. LoopInv(b)'
  BY <1>1, <1>3 DEF AgentPart, LoopInv
<1>6. \A s \in Storage : locker'[s] = b <=> s \in Held(b)'
  BY <1>1, <1>3 DEF AgentPart
<1>. QED  BY <1>4, <1>5, <1>6 DEF AgentPart

\* Steps of a thread.
LEMMA ThreadLocks ==
  ASSUME TypeOK, LockPart, NEW t \in Thread, Handler(t) \/ Locking(t)
  PROVE  LockPart'
<1>1. /\ t \in Agent /\ t \notin Checkpointer /\ t # Nobody /\ AgentPart(t) /\ ThreadInv(t)
      /\ phase \in [Agent -> Phases] /\ todo \in [Agent -> [Storage -> Nat]]
      /\ storage_vec \in [Thread -> [Storage -> Nat]] /\ locked \in [Thread -> BOOLEAN]
      /\ locker \in [Storage -> Agent \cup {Nobody}]
  BY AgentsAssumption DEF LockPart, AgentPart, TypeOK, Agent
<1>2. ASSUME NEW s \in Storage, GetStorage(t, s)  PROVE LockPart'
  <2>1. /\ phase' = phase /\ todo' = todo /\ locked' = locked /\ locker' = locker
        /\ ~locked[t] /\ phase[t] \in {"idle", "begun"}
        /\ \A u \in Thread : u # t => storage_vec'[u] = storage_vec[u]
    BY <1>1, <1>2 DEF GetStorage
  <2>2. \A r \in Storage : r \notin Held(t) /\ r \notin Held(t)'
    BY <2>1, ThreadHeld
  <2>3. AgentPart(t)'
    BY <1>1, <2>1, <2>2 DEF AgentPart, ThreadInv, LoopInv
  <2>. QED  BY <1>1, <2>1, <2>3, OneAgent
<1>3. CASE Begin(t) \/ AbortAndThrow(t)
  <2>1. /\ todo' = todo /\ locked' = locked /\ locker' = locker /\ storage_vec' = storage_vec
        /\ phase[t] \in {"idle", "begun"} /\ phase'[t] \in {"begun", "thrown"}
        /\ \A b \in Agent : b # t => phase'[b] = phase[b]
    BY <1>1, <1>3 DEF Begin, AbortAndThrow, txnVars
  <2>2. \A r \in Storage : r \in Held(t)' <=> r \in Held(t)
    BY <2>1, ThreadHeld
  <2>3. AgentPart(t)'
    BY <1>1, <2>1, <2>2 DEF AgentPart, ThreadInv, LoopInv
  <2>. QED  BY <1>1, <2>1, <2>3, OneAgent
<1>4. CASE LockBegin(t)
  <2>1. /\ locked' = locked /\ locker' = locker /\ storage_vec' = storage_vec
        /\ ~locked[t] /\ phase[t] = "begun" /\ phase'[t] = "locking" /\ todo'[t] = storage_vec[t]
        /\ \A b \in Agent : b # t => phase'[b] = phase[b] /\ todo'[b] = todo[b]
    BY <1>1, <1>4 DEF LockBegin, txnVars
  <2>2. \A r \in Storage : r \notin Held(t) /\ r \notin Held(t)'
    BY <1>1, <2>1, ThreadHeld
  <2>3. LoopInv(t)'
    BY <2>2 DEF LoopInv, Held
  <2>4. ThreadInv(t)'
    BY <1>1, <2>1 DEF ThreadInv
  <2>5. AgentPart(t)'
    BY <1>1, <2>1, <2>2, <2>3, <2>4 DEF AgentPart
  <2>. QED  BY <1>1, <2>1, <2>5, OneAgent
<1>5. CASE LockStep(t)
  <2>1. PICK n \in Left(t) : n = NextTable(t) /\ n \in Storage /\ \A r \in Left(t) : n <= r
    BY <1>1, <1>5, NextIsLowest DEF LockStep
  <2>2. /\ phase[t] = "locking" /\ phase' = phase /\ locked' = locked /\ storage_vec' = storage_vec
        /\ locker[n] \in {Nobody, t} /\ locker' = [locker EXCEPT ![n] = t] /\ Visit(t, n)
    BY <1>5, <2>1 DEF LockStep, txnVars
  <2>3. /\ \A b \in Agent : b # t => todo'[b] = todo[b]
        /\ \A r \in Storage : todo'[t][r] = IF r = n THEN todo[t][r] - 1 ELSE todo[t][r]
    BY <1>1, <2>1, <2>2, VisitCounts
  <2>4. todo[t][n] > 0 /\ \A r \in Storage : todo[t][r] \in Nat /\ storage_vec[t][r] \in Nat
                                        /\ todo[t][r] <= storage_vec[t][r]
    BY <1>1, <2>1, <2>2 DEF Left, ThreadInv
  <2>5. \A r \in Storage : r \in Held(t)' <=> r = n \/ r \in Held(t)
    BY <2>2, <2>3, <2>4, ThreadHeld
  <2>6. Left(t)' \subseteq Left(t)
    BY <2>3, <2>4 DEF Left
  <2>7. Held(t) \subseteq Storage /\ Held(t)' \subseteq Storage
    BY DEF Held
  <2>8. LoopInv(t)'
    BY <1>1, <2>1, <2>2, <2>5, <2>6, <2>7 DEF AgentPart, LoopInv
  <2>9. ThreadInv(t)'
    BY <1>1, <2>2, <2>3, <2>4 DEF ThreadInv
  <2>10. \A r \in Storage : locker'[r] = IF r = n THEN t ELSE locker[r]
    BY <1>1, <2>2
  <2>11. AgentPart(t)'
    BY <1>1, <2>5, <2>8, <2>9, <2>10 DEF AgentPart
  <2>12. \A r \in Storage, b \in Agent : b # t => (locker'[r] = b <=> locker[r] = b)
    BY <1>1, <2>2, <2>10, AgentsAssumption DEF Agent
  <2>. QED  BY <1>1, <2>2, <2>3, <2>11, <2>12, OneAgent
<1>6. CASE LockDone(t)
  <2>1. /\ locker' = locker /\ storage_vec' = storage_vec /\ todo' = todo
        /\ locked'[t] /\ phase[t] = "locking" /\ phase'[t] = "begun" /\ Left(t) = {}
        /\ \A b \in Agent : b # t => phase'[b] = phase[b]
        /\ \A u \in Thread : u # t => locked'[u] = locked[u]
    BY <1>1, <1>6 DEF LockDone
  <2>2. \A r \in Storage : todo[t][r] = 0 /\ storage_vec[t][r] \in Nat
    BY <1>1, <2>1 DEF Left
  <2>3. \A r \in Storage : r \in Held(t)' <=> r \in Held(t)
    BY <2>1, <2>2, ThreadHeld
  <2>4. AgentPart(t)'
    BY <1>1, <2>1, <2>3 DEF AgentPart, ThreadInv, LoopInv
  <2>. QED  BY <1>1, <2>1, <2>4, OneAgent
<1>7. CASE Access(t)
  <2>1. /\ phase' = phase /\ todo' = todo /\ locked' = locked /\ locker' = locker
        /\ storage_vec' = storage_vec
    BY <1>7 DEF Access, Insert, InsertNoOverwrite, Del, txnVars
  <2>2. Held(t)' = Held(t) /\ Left(t)' = Left(t)
    BY <2>1 DEF Held, Target, Has, Left
  <2>3. AgentPart(t)'
    BY <1>1, <2>1, <2>2 DEF AgentPart, ThreadInv, LoopInv
  <2>. QED  BY <1>1, <2>1, <2>3, OneAgent
<1>8. CASE Release(t) /\ locked[t]
  <2>1. /\ locked' = locked /\ locker' = locker /\ storage_vec' = storage_vec
        /\ phase[t] \in {"begun", "thrown"} /\ phase'[t] = "unlocking" /\ todo'[t] = storage_vec[t]
        /\ \A b \in Agent : b # t => phase'[b] = phase[b] /\ todo'[b] = todo[b]
    BY <1>1, <1>8 DEF Release
  <2>2. \A r \in Storage : r \in Held(t)' <=> r \in Held(t)
    BY <1>8, <2>1, ThreadHeld
  <2>3. AgentPart(t)'
    BY <1>1, <1>8, <2>1, <2>2 DEF AgentPart, ThreadInv, LoopInv
  <2>. QED  BY <1>1, <2>1, <2>3, OneAgent
<1>9. CASE Release(t) /\ ~locked[t]
  <2>1. /\ locked' = locked /\ locker' = locker /\ todo' = todo
        /\ phase[t] \in {"begun", "thrown"} /\ phase'[t] = "idle"
        /\ \A b \in Agent : b # t => phase'[b] = phase[b]
        /\ \A u \in Thread : u # t => storage_vec'[u] = storage_vec[u]
    BY <1>1, <1>9 DEF Release
  <2>2. \A r \in Storage : r \notin Held(t) /\ r \notin Held(t)'
    BY <1>9, <2>1, ThreadHeld
  <2>3. AgentPart(t)'
    BY <1>1, <1>9, <2>1, <2>2 DEF AgentPart, ThreadInv, LoopInv
  <2>. QED  BY <1>1, <2>1, <2>3, OneAgent
<1>10. CASE UnlockStep(t)
  <2>1. PICK n \in Left(t) : n = NextTable(t) /\ n \in Storage
    BY <1>1, <1>10, NextIsLowest DEF UnlockStep
  <2>2. /\ phase[t] = "unlocking" /\ phase' = phase /\ locked' = locked /\ storage_vec' = storage_vec
        /\ locker' = IF locker[n] = t THEN [locker EXCEPT ![n] = Nobody] ELSE locker
        /\ Visit(t, n)
    BY <1>10, <2>1 DEF UnlockStep, txnVars
  <2>3. /\ \A b \in Agent : b # t => todo'[b] = todo[b]
        /\ \A r \in Storage : todo'[t][r] = IF r = n THEN todo[t][r] - 1 ELSE todo[t][r]
    BY <1>1, <2>1, <2>2, VisitCounts
  <2>4. todo[t][n] > 0 /\ \A r \in Storage : todo[t][r] \in Nat /\ storage_vec[t][r] \in Nat
                                        /\ todo[t][r] <= storage_vec[t][r]
    BY <1>1, <2>1, <2>2 DEF Left, ThreadInv
  <2>5. \A r \in Storage : r \in Held(t)' <=> r # n /\ r \in Held(t)
    BY <2>2, <2>3, <2>4, ThreadHeld
  <2>6. ThreadInv(t)'
    BY <1>1, <2>2, <2>3, <2>4 DEF ThreadInv
  <2>7. \A r \in Storage : locker'[r] = IF r = n /\ locker[r] = t THEN Nobody ELSE locker[r]
    BY <1>1, <2>2
  <2>8. AgentPart(t)'
    BY <1>1, <2>2, <2>5, <2>6, <2>7 DEF AgentPart, LoopInv
  <2>9. \A r \in Storage, b \in Agent : b # t => (locker'[r] = b <=> locker[r] = b)
    BY <2>7, AgentsAssumption DEF Agent
  <2>. QED  BY <1>1, <2>2, <2>3, <2>8, <2>9, OneAgent
<1>11. CASE UnlockDone(t)
  <2>1. /\ locker' = locker /\ todo' = todo
        /\ ~locked'[t] /\ phase[t] = "unlocking" /\ phase'[t] = "idle" /\ Left(t) = {}
        /\ \A b \in Agent : b # t => phase'[b] = phase[b]
        /\ \A u \in Thread : u # t => locked'[u] = locked[u] /\ storage_vec'[u] = storage_vec[u]
    BY <1>1, <1>11 DEF UnlockDone
  <2>2. \A r \in Storage : todo[t][r] = 0
    BY <1>1, <2>1 DEF Left
  <2>3. \A r \in Storage : r \notin Held(t) /\ r \notin Held(t)'
    BY <2>1, <2>2, ThreadHeld
  <2>4. AgentPart(t)'
    BY <1>1, <2>1, <2>3 DEF AgentPart, ThreadInv, LoopInv
  <2>. QED  BY <1>1, <2>1, <2>4, OneAgent
<1>. QED
  BY <1>2, <1>3, <1>4, <1>5, <1>6, <1>7, <1>8, <1>9, <1>10, <1>11 DEF Handler, Locking

\* Steps of a checkpoint caller.
LEMMA CkLocks ==
  ASSUME TypeOK, LockPart, NEW c \in Checkpointer, CkEnter(c) \/ Checkpoint(c)
  PROVE  LockPart'
<1>1. /\ c \in Agent /\ c \notin Thread /\ c # Nobody /\ AgentPart(c) /\ CkInv(c)
      /\ phase \in [Agent -> Phases] /\ todo \in [Agent -> [Storage -> Nat]]
      /\ locker \in [Storage -> Agent \cup {Nobody}]
      /\ storage_vec' = storage_vec /\ locked' = locked
  BY AgentsAssumption DEF LockPart, AgentPart, TypeOK, Agent, CkEnter, Checkpoint, CkLock, CkLocked,
     CkSnapshot, CkWritten, CkRelease, CkExit, txnVars
<1>2. \A s \in Storage : todo[c][s] \in Nat /\ todo[c][s] <= 1 /\ EachTable[s] = 1
  BY <1>1 DEF CkInv, EachTable
<1>3. CASE CkEnter(c) \/ CkLocked(c) \/ CkWritten(c)
  <2>1. /\ locker' = locker /\ \A r \in Storage : todo'[c][r] = 1
        /\ \A b \in Agent : b # c => phase'[b] = phase[b] /\ todo'[b] = todo[b]
        /\ \/ phase[c] = "idle" /\ phase'[c] = "locking"
           \/ phase[c] = "locking" /\ phase'[c] = "snapping" /\ Left(c) = {}
           \/ phase[c] = "snapping" /\ phase'[c] = "releasing" /\ Left(c) = {}
    BY <1>1, <1>3 DEF CkEnter, CkLocked, CkWritten, EachTable
  <2>2. \A r \in Storage : r \in Held(c)' <=> r \in Held(c)
    BY <1>2, <2>1, CkHeld DEF Left
  <2>3. CkInv(c)'
    BY <1>1, <1>2, <2>1 DEF CkInv
  <2>4. LoopInv(c)'
    <3>. SUFFICES ASSUME phase'[c] = "locking"  PROVE \A r \in Storage : r \notin Held(c)'
      BY DEF LoopInv, Held
    <3>. QED  BY <2>1, CkHeld
  <2>5. AgentPart(c)'
    BY <1>1, <2>1, <2>2, <2>3, <2>4 DEF AgentPart
  <2>. QED  BY <1>1, <2>1, <2>5, OneAgent
<1>4. CASE CkLock(c)
  <2>1. PICK n \in Left(c) : n = NextTable(c) /\ n \in Storage /\ \A r \in Left(c) : n <= r
    BY <1>1, <1>4, NextIsLowest DEF CkLock
  <2>2. /\ phase[c] = "locking" /\ phase' = phase
        /\ locker[n] = Nobody /\ locker' = [locker EXCEPT ![n] = c] /\ Visit(c, n)
    BY <1>4, <2>1 DEF CkLock
  <2>3. /\ \A b \in Agent : b # c => todo'[b] = todo[b]
        /\ \A r \in Storage : todo'[c][r] = IF r = n THEN todo[c][r] - 1 ELSE todo[c][r]
    BY <1>1, <2>1, <2>2, VisitCounts
  <2>4. todo[c][n] > 0
    BY <2>1 DEF Left
  <2>5. \A r \in Storage : r \in Held(c)' <=> r = n \/ r \in Held(c)
    BY <1>2, <2>2, <2>3, <2>4, CkHeld
  <2>6. Left(c)' \subseteq Left(c)
    BY <1>2, <2>3, <2>4 DEF Left
  <2>7. Held(c) \subseteq Storage /\ Held(c)' \subseteq Storage
    BY DEF Held
  <2>8. LoopInv(c)'
    BY <1>1, <2>1, <2>2, <2>5, <2>6, <2>7 DEF AgentPart, LoopInv
  <2>9. CkInv(c)'
    BY <1>1, <1>2, <2>2, <2>3 DEF CkInv
  <2>10. \A r \in Storage : locker'[r] = IF r = n THEN c ELSE locker[r]
    BY <1>1, <2>2
  <2>11. AgentPart(c)'
    BY <1>1, <2>5, <2>8, <2>9, <2>10 DEF AgentPart
  <2>12. \A r \in Storage, b \in Agent : b # c => (locker'[r] = b <=> locker[r] = b)
    BY <2>2, <2>10, AgentsAssumption DEF Agent
  <2>. QED  BY <1>1, <2>2, <2>3, <2>11, <2>12, OneAgent
<1>5. CASE CkSnapshot(c)
  <2>1. PICK n \in Left(c) : n = NextTable(c) /\ n \in Storage
    BY <1>1, <1>5, NextIsLowest DEF CkSnapshot
  <2>2. /\ phase[c] = "snapping" /\ phase' = phase
        /\ locker' = [locker EXCEPT ![n] = Nobody] /\ Visit(c, n)
    BY <1>5, <2>1 DEF CkSnapshot
  <2>3. /\ \A b \in Agent : b # c => todo'[b] = todo[b]
        /\ \A r \in Storage : todo'[c][r] = IF r = n THEN todo[c][r] - 1 ELSE todo[c][r]
    BY <1>1, <2>1, <2>2, VisitCounts
  <2>4. todo[c][n] = 1 /\ locker[n] = c
    <3>1. todo[c][n] = 1
      BY <1>2, <2>1 DEF Left
    <3>. QED  BY <1>1, <2>1, <2>2, <3>1, CkHeld DEF AgentPart
  <2>5. \A r \in Storage : r \in Held(c)' <=> r # n /\ r \in Held(c)
    BY <1>2, <2>2, <2>3, <2>4, CkHeld
  <2>6. CkInv(c)'
    BY <1>1, <1>2, <2>2, <2>3 DEF CkInv
  <2>7. \A r \in Storage : locker'[r] = IF r = n THEN Nobody ELSE locker[r]
    BY <1>1, <2>2
  <2>8. AgentPart(c)'
    BY <1>1, <2>2, <2>5, <2>6, <2>7 DEF AgentPart, LoopInv
  <2>9. \A r \in Storage, b \in Agent : b # c => (locker'[r] = b <=> locker[r] = b)
    BY <2>4, <2>7, AgentsAssumption DEF Agent
  <2>. QED  BY <1>1, <2>2, <2>3, <2>8, <2>9, OneAgent
<1>6. CASE CkRelease(c)
  <2>1. PICK n \in Left(c) : n = NextTable(c)
    BY <1>1, <1>6, NextIsLowest DEF CkRelease
  <2>2. phase[c] = "releasing" /\ phase' = phase /\ locker' = locker /\ Visit(c, n)
    BY <1>6, <2>1 DEF CkRelease
  <2>3. /\ \A b \in Agent : b # c => todo'[b] = todo[b]
        /\ \A r \in Storage : todo'[c][r] = IF r = n THEN todo[c][r] - 1 ELSE todo[c][r]
    BY <1>1, <2>1, <2>2, VisitCounts
  <2>4. \A r \in Storage : r \notin Held(c)' /\ r \notin Held(c)
    BY <2>2, CkHeld
  <2>5. CkInv(c)'
    BY <1>1, <1>2, <2>2, <2>3 DEF CkInv
  <2>6. AgentPart(c)'
    BY <1>1, <2>2, <2>4, <2>5 DEF AgentPart, LoopInv
  <2>. QED  BY <1>1, <2>2, <2>3, <2>6, OneAgent
<1>7. CASE CkExit(c)
  <2>1. /\ locker' = locker /\ todo' = todo /\ phase[c] = "releasing" /\ phase'[c] = "idle"
        /\ \A b \in Agent : b # c => phase'[b] = phase[b]
    BY <1>1, <1>7 DEF CkExit
  <2>2. \A r \in Storage : r \notin Held(c)' /\ r \notin Held(c)
    BY <2>1, CkHeld
  <2>3. CkInv(c)'
    BY <1>1, <1>2, <2>1 DEF CkInv
  <2>4. AgentPart(c)'
    BY <1>1, <2>1, <2>2, <2>3 DEF AgentPart, LoopInv
  <2>. QED  BY <1>1, <2>1, <2>4, OneAgent
<1>. QED  BY <1>3, <1>4, <1>5, <1>6, <1>7 DEF Checkpoint

LEMMA LockStepInv ==
  ASSUME TypeOK, LockPart, [Next]_vars
  PROVE  LockPart'
<1>1. CASE UNCHANGED vars
  <2>1. ASSUME NEW a \in Agent  PROVE AgentPart(a)'
    <3>1. AgentPart(a)
      BY DEF LockPart
    <3>2. Held(a)' = Held(a) /\ Left(a)' = Left(a)
      BY <1>1 DEF vars, txnVars, Held, Target, Has, Left
    <3>. QED  BY <1>1, <3>1, <3>2 DEF vars, txnVars, AgentPart, ThreadInv, CkInv, LoopInv
  <2>. QED  BY <2>1 DEF LockPart
<1>. QED  BY <1>1, ThreadLocks, CkLocks DEF Next

\* A handler that works on a table has its lock.
LEMMA BodyLocked ==
  ASSUME LockPart, NEW t \in Thread, NEW s \in Storage, InBody(t, s)
  PROVE  locker[s] = t
<1>1. t \in Agent /\ s \in Held(t)
  BY ThreadHeld DEF InBody, Has, Agent
<1>. QED  BY <1>1 DEF LockPart, AgentPart

\* The undo logs stay with the transactions that wrote them.
LEMMA UndoStepInv ==
  ASSUME TypeOK, LockPart, UndoOwned, [Next]_vars
  PROVE  UndoOwned'
<1>. USE AgentsAssumption DEF UndoOwned, Has, Agent, txnVars, ckVars, logVars, TypeOK
<1>0. \A t \in Thread : ThreadInv(t)
  BY LockPartIs
<1>1. ASSUME NEW t \in Thread, NEW s \in Storage, GetStorage(t, s)  PROVE UndoOwned'
  BY <1>1 DEF GetStorage
<1>2. ASSUME NEW t \in Thread, Begin(t)  PROVE UndoOwned'
  BY <1>2 DEF Begin
<1>3. ASSUME NEW t \in Thread, LockBegin(t)  PROVE UndoOwned'
  BY <1>3 DEF LockBegin
<1>4. ASSUME NEW t \in Thread, LockStep(t)  PROVE UndoOwned'
  <2>1. PICK n \in Left(t) : n = NextTable(t) /\ n \in Storage
    BY <1>4, NextIsLowest DEF LockStep
  <2>. QED  BY <1>4, <2>1 DEF LockStep
<1>5. ASSUME NEW t \in Thread, LockDone(t)  PROVE UndoOwned'
  BY <1>5 DEF LockDone
<1>6. ASSUME NEW t \in Thread, Access(t)  PROVE UndoOwned'
  <2>1. /\ locker' = locker /\ locked' = locked /\ storage_vec' = storage_vec /\ locked[t]
        /\ \E s \in Storage :
             /\ InBody(t, s)
             /\ \A r \in Storage : r # s => prepared'[r] = prepared[r] /\ new_key'[r] = new_key[r]
    BY <1>6 DEF Access, Insert, InsertNoOverwrite, Del, InBody
  <2>. QED  BY <2>1, BodyLocked DEF InBody
<1>7. ASSUME NEW t \in Thread, AbortAndThrow(t)  PROVE UndoOwned'
  BY <1>7 DEF AbortAndThrow
<1>8. ASSUME NEW t \in Thread, Release(t)  PROVE UndoOwned'
  BY <1>8 DEF Release, NoTable
<1>9. ASSUME NEW t \in Thread, UnlockStep(t)  PROVE UndoOwned'
  <2>1. PICK n \in Left(t) : n = NextTable(t) /\ n \in Storage
    BY <1>9, NextIsLowest DEF UnlockStep
  <2>. QED  BY <1>9, <2>1 DEF UnlockStep
<1>10. ASSUME NEW t \in Thread, UnlockDone(t)  PROVE UndoOwned'
  <2>1. \A s \in Storage : s \notin Held(t)
    BY <1>10, ThreadHeld DEF UnlockDone, Left
  <2>2. \A s \in Storage : locker[s] # t
    BY <2>1 DEF LockPart, AgentPart
  <2>. QED  BY <1>10, <2>2 DEF UnlockDone
<1>11. ASSUME NEW c \in Checkpointer, CkEnter(c)  PROVE UndoOwned'
  BY <1>11 DEF CkEnter
<1>12. ASSUME NEW c \in Checkpointer, CkLock(c)  PROVE UndoOwned'
  <2>1. PICK n \in Left(c) : n = NextTable(c) /\ n \in Storage
    BY <1>12, NextIsLowest DEF CkLock
  <2>. QED  BY <1>12, <2>1 DEF CkLock
<1>13. ASSUME NEW c \in Checkpointer, CkLocked(c)  PROVE UndoOwned'
  BY <1>13 DEF CkLocked
<1>14. ASSUME NEW c \in Checkpointer, CkSnapshot(c)  PROVE UndoOwned'
  <2>1. PICK n \in Left(c) : n = NextTable(c) /\ n \in Storage
    BY <1>14, NextIsLowest DEF CkSnapshot
  <2>2. n \in Held(c)
    <3>1. CkInv(c) /\ todo[c][n] \in Nat
      BY <2>1, LockPartIs
    <3>. QED  BY <1>14, <2>1, <3>1, CkHeld DEF CkSnapshot, CkInv, EachTable, Left
  <2>3. locker[n] = c
    BY <2>1, <2>2 DEF LockPart, AgentPart
  <2>. QED  BY <1>14, <2>1, <2>3 DEF CkSnapshot
<1>15. ASSUME NEW c \in Checkpointer, CkWritten(c)  PROVE UndoOwned'
  BY <1>15 DEF CkWritten
<1>16. ASSUME NEW c \in Checkpointer, CkRelease(c)  PROVE UndoOwned'
  BY <1>16 DEF CkRelease
<1>17. ASSUME NEW c \in Checkpointer, CkExit(c)  PROVE UndoOwned'
  BY <1>17 DEF CkExit
<1>18. CASE UNCHANGED vars
  BY <1>18 DEF vars
<1>. QED
  BY <1>1, <1>2, <1>3, <1>4, <1>5, <1>6, <1>7, <1>8, <1>9, <1>10, <1>11, <1>12,
     <1>13, <1>14, <1>15, <1>16, <1>17, <1>18 DEF Next, Handler, Locking, Checkpoint

----------------------------------------------------------------------------
(* The theorems.                                                           *)

\* IInv holds of the initial states and of every step from a state it holds of.
THEOREM Invariance == Spec => []IInv
<1>1. ASSUME IInv, [Next]_vars  PROVE IInv'
  <2>1. TypeOK'
    BY <1>1, TypeStep DEF IInv
  <2>2. LockPart
    BY <1>1, LockPartIs DEF IInv
  <2>3. LockPart' /\ UndoOwned'
    BY <1>1, <2>2, LockStepInv, UndoStepInv DEF IInv
  <2>4. /\ \A t \in Thread : ThreadInv(t)'
        /\ \A c \in Checkpointer : CkInv(c)'
        /\ \A a \in Agent : LoopInv(a)'
        /\ LocksHeld'
    BY <2>3 DEF LockPart, AgentPart, LocksHeld, Agent
  <2>. QED  BY <2>1, <2>3, <2>4 DEF IInv
<1>. QED  BY <1>1, InitIInv, PTL DEF Spec

\* The state has its type (the fields of ThreadContext and Storage).
THEOREM TypeCorrect == Spec => []TypeOK
<1>1. IInv => TypeOK
  BY DEF IInv
<1>. QED  BY <1>1, Invariance, PTL

\* Storage::locker is held by the agents whose loops say so, and by no other, also
\* when a vector has a table more than once: the loops of storagewdb.h:783 and
\* :792 lock it in their first visit and free it in their first visit.
THEOREM LocksAreHeld == Spec => []LocksHeld
<1>1. IInv => LocksHeld
  BY DEF IInv
<1>. QED  BY <1>1, Invariance, PTL

\* An undo log that is not empty belongs to an open transaction that has the
\* lock: a second visit of storagewdb.h:792 may empty the log of the next owner,
\* but no visit leaves one behind, and nobody inherits one.
THEOREM UndoIsOwned == Spec => []UndoOwned
<1>1. IInv => UndoOwned
  BY DEF IInv
<1>. QED  BY <1>1, Invariance, PTL

\* Who has visits left in its loop holds no higher table.
LEMMA WaitsInOrder == IInv => OrderedWait
<1>. SUFFICES ASSUME IInv, NEW a \in Agent, phase[a] = "locking",
                     NEW s \in Storage, NEW r \in Left(a), locker[s] = a
              PROVE  s <= r
  BY DEF OrderedWait
<1>1. s \in Held(a)
  BY DEF IInv, LocksHeld
<1>. QED  BY <1>1 DEF IInv, LoopInv

\* A handler or a checkpoint that waits for a table's lock holds no higher table:
\* storage_vec is sorted (storagewdb.h:782, of all tables :589).
THEOREM OrderedWaits == Spec => []OrderedWait
  BY WaitsInOrder, Invariance, PTL

----------------------------------------------------------------------------
(* No circle of agents waits.                                              *)

\* A set of tables that is not empty has a highest member: its mirror image
\* has a lowest.
LEMMA HighestInSet ==
  ASSUME NEW S \in SUBSET Storage, S # {}
  PROVE  \E m \in S : \A s \in S : s <= m
<1>. DEFINE M == {r \in Storage : \E s \in S : r = NStorage + 1 - s}
<1>1. NStorage \in Nat /\ \A s \in S : s \in Nat /\ 1 <= s /\ s <= NStorage
  BY SizesAssumption DEF Storage
<1>2. \A s \in S : NStorage + 1 - s \in M
  BY <1>1 DEF Storage
<1>3. M \in SUBSET Storage /\ M # {}
  BY <1>2
<1>. HIDE DEF M
<1>4. Lowest(M) \in M /\ \A r \in M : Lowest(M) <= r
  BY <1>3, LowestInSet
<1>5. PICK m \in S : Lowest(M) = NStorage + 1 - m
  BY <1>4 DEF M
<1>6. \A s \in S : NStorage + 1 - m <= NStorage + 1 - s
  BY <1>2, <1>4, <1>5
<1>. QED  BY <1>1, <1>6

LEMMA WaitersHold ==
  ASSUME IInv, NEW a \in Waiting, NEW s \in Storage, locker[s] = a
  PROVE  NextTable(a) \in Storage /\ s < NextTable(a)
<1>1. /\ a \in Agent /\ phase[a] \in {"locking", "releasing"} /\ Left(a) # {}
      /\ locker[NextTable(a)] # a
  BY DEF Waiting
<1>2. NextTable(a) \in Storage /\ NextTable(a) \in Left(a)
  BY <1>1, NextIsLowest
<1>3. phase[a] = "locking"
  <2>1. s \in Held(a)
    BY <1>1 DEF IInv, LocksHeld
  <2>. QED  BY <1>1, <2>1 DEF IInv, Held, ThreadInv
<1>4. s <= NextTable(a) /\ s # NextTable(a)
  BY <1>1, <1>2, <1>3, WaitsInOrder DEF OrderedWait
<1>. QED  BY <1>2, <1>4, SizesAssumption DEF Storage

\* Of the agents that wait, the one that waits for the highest table waits for
\* none of them: its holder would wait for a higher one.
LEMMA OneWaitsOutside == IInv => NoWaitCycle
<1>. SUFFICES ASSUME IInv, NEW W \in SUBSET Waiting, W # {},
                     \A a \in W : locker[NextTable(a)] \in W
              PROVE  FALSE
  BY DEF NoWaitCycle
<1>. DEFINE S == {s \in Storage : \E a \in W : s = NextTable(a)}
<1>1. \A a \in W : NextTable(a) \in Storage
  <2>. SUFFICES ASSUME NEW a \in W  PROVE NextTable(a) \in Storage
    OBVIOUS
  <2>1. a \in Agent /\ Left(a) # {}
    BY DEF Waiting
  <2>. QED  BY <2>1, NextIsLowest
<1>2. S \in SUBSET Storage /\ S # {}
  BY <1>1
<1>3. PICK m \in S : \A s \in S : s <= m
  BY <1>2, HighestInSet
<1>4. PICK b \in W : locker[m] = b
  BY <1>3
<1>5. m < NextTable(b) /\ NextTable(b) \in S
  BY <1>2, <1>3, <1>4, WaitersHold
<1>6. m \in Nat /\ NextTable(b) \in Nat /\ NextTable(b) <= m
  BY <1>2, <1>3, <1>5, SizesAssumption DEF Storage
<1>. QED  BY <1>5, <1>6

\* Handlers that lock in pointer order and the checkpoint, which locks all
\* tables, never wait for each other in a circle (storagewdb.h:589, :628, :782).
THEOREM NoCircle == Spec => []NoWaitCycle
  BY OneWaitsOutside, Invariance, PTL

----------------------------------------------------------------------------
(* The store of atomic transactions.                                       *)

\* One checkpoint at a time (checkpoint_locker).
OneCheckpoint == \A c \in Checkpointer : phase[c] # "idle" => checkpoint_locker = c

AtomicInv == IInv /\ OneCheckpoint

LEMMA OneCheckpointStep ==
  ASSUME IInv, OneCheckpoint, [Next]_vars
  PROVE  OneCheckpoint'
<1>. USE AgentsAssumption DEF OneCheckpoint, IInv, TypeOK, Agent, ckVars
<1>1. ASSUME NEW t \in Thread, Handler(t) \/ Locking(t)  PROVE OneCheckpoint'
  BY <1>1 DEF Handler, GetStorage, Begin, LockBegin, Access, Insert, InsertNoOverwrite, Del,
     AbortAndThrow, Release, Locking, LockStep, LockDone, UnlockStep, UnlockDone
<1>2. ASSUME NEW c \in Checkpointer, CkEnter(c) \/ Checkpoint(c)  PROVE OneCheckpoint'
  BY <1>2 DEF CkEnter, Checkpoint, CkLock, CkLocked, CkSnapshot, CkWritten, CkRelease, CkExit
<1>3. CASE UNCHANGED vars
  BY <1>3 DEF vars
<1>. QED  BY <1>1, <1>2, <1>3 DEF Next

LEMMA AtomicInvariance == Spec => []AtomicInv
<1>1. Init => OneCheckpoint
  BY DEF Init, OneCheckpoint, Agent
<1>2. IInv /\ OneCheckpoint /\ [Next]_vars => OneCheckpoint'
  BY OneCheckpointStep
<1>. QED  BY <1>1, <1>2, Invariance, PTL DEF Spec, AtomicInv

\* The variables of the store that are not variables here.
Closing == {t \in Thread : phase[t] = "unlocking"} \cup Imaging
Twice == {x \in Thread \X Storage : storage_vec[x[1]][x[2]] > 1}
Holds(a) == {s \in Storage : locker[s] = a}

SameRows == Committed' = Committed /\ View' = View

\* The steps of the store, said of its values here.
RepeatStep(a, s) ==
  /\ a \notin Closing /\ Twice' = Twice \cup {<<a, s>>}
  /\ SameRows /\ locker' = locker /\ Closing' = Closing /\ Image' = Image
AcquireStep(a, s) ==
  /\ a \notin Closing /\ locker[s] = Nobody
  /\ locker' = [locker EXCEPT ![s] = a]
  /\ SameRows /\ Closing' = Closing /\ Twice' = Twice /\ Image' = Image
WriteStep(a, s) ==
  /\ a \notin Closing /\ locker[s] = a
  /\ \E r \in Row : View' = [View EXCEPT ![s] = r]
  /\ Committed' = Committed
  /\ locker' = locker /\ Closing' = Closing /\ Twice' = Twice /\ Image' = Image
CommitStep(a) ==
  /\ a \notin Closing /\ Closing' = Closing \cup {a}
  /\ Committed' = [s \in Storage |-> IF locker[s] = a THEN View[s] ELSE Committed[s]]
  /\ View' = View
  /\ locker' = locker /\ Twice' = Twice /\ Image' = Image
AbortStep(a) ==
  /\ a \notin Closing /\ Closing' = Closing \cup {a}
  /\ View' = [s \in Storage |-> IF locker[s] = a THEN Committed[s] ELSE View[s]]
  /\ Committed' = Committed
  /\ locker' = locker /\ Twice' = Twice /\ Image' = Image
TakeImageStep(a) ==
  /\ a \notin Closing /\ Image = NoImage /\ Holds(a) = Storage
  /\ Image' = Committed /\ Closing' = Closing \cup {a}
  /\ SameRows /\ locker' = locker /\ Twice' = Twice
GiveBackStep(a, s) ==
  /\ a \in Closing /\ locker[s] = a
  /\ locker' = [locker EXCEPT ![s] = Nobody]
  /\ SameRows /\ Closing' = Closing /\ Twice' = Twice /\ Image' = Image
DisturbStep(a, s) ==
  /\ a \in Closing /\ <<a, s>> \in Twice /\ locker[s] \in Thread \ {a}
  /\ \/ Committed' = [Committed EXCEPT ![s] = View[s]] /\ View' = View
     \/ View' = [View EXCEPT ![s] = Committed[s]] /\ Committed' = Committed
     \/ /\ locker[s] \in Closing
        /\ \E r \in Row : /\ Committed' = [Committed EXCEPT ![s] = r]
                          /\ View' = [View EXCEPT ![s] = r]
  /\ locker' = locker /\ Closing' = Closing /\ Twice' = Twice /\ Image' = Image
SettleStep(a) ==
  /\ Holds(a) = {} /\ Closing' = Closing \ {a} /\ Twice' = {x \in Twice : x[1] # a}
  /\ SameRows /\ locker' = locker /\ Image' = Image
DropImageStep(a) ==
  /\ a \in Closing /\ Holds(a) = {} /\ Closing' = Closing \ {a} /\ Image' = NoImage
  /\ SameRows /\ locker' = locker /\ Twice' = Twice
SameStep ==
  /\ SameRows /\ locker' = locker /\ Closing' = Closing /\ Twice' = Twice /\ Image' = Image

AtomicStep ==
  \/ \E a \in Agent, s \in Storage : AcquireStep(a, s) \/ GiveBackStep(a, s)
  \/ \E t \in Thread, s \in Storage : RepeatStep(t, s) \/ WriteStep(t, s) \/ DisturbStep(t, s)
  \/ \E t \in Thread : CommitStep(t) \/ AbortStep(t) \/ SettleStep(t)
  \/ \E c \in Checkpointer : TakeImageStep(c) \/ DropImageStep(c)
  \/ SameStep

LEMMA AtomicStepIs == AtomicStep => [Atomic!Next]_(Atomic!vars)
<1>. SUFFICES ASSUME AtomicStep  PROVE [Atomic!Next]_(Atomic!vars)
  OBVIOUS
<1>1. Atomic!Agent = Agent /\ Atomic!Row = Row /\ \A a : Atomic!Holds(a) = Holds(a)
  BY DEF Atomic!Agent, Agent, Atomic!Row, Row, Atomic!Holds, Holds
<1>2. ASSUME NEW a \in Agent, NEW s \in Storage, AcquireStep(a, s) \/ GiveBackStep(a, s)
      PROVE Atomic!Next
  <2>1. Atomic!Acquire(a, s) \/ Atomic!GiveBack(a, s)
    BY <1>2, Zenon DEF AcquireStep, GiveBackStep, SameRows, Closing, Twice, Atomic!Acquire, Atomic!GiveBack
  <2>. QED  BY <1>1, <2>1 DEF Atomic!Next
<1>3. ASSUME NEW t \in Thread, NEW s \in Storage, RepeatStep(t, s) \/ WriteStep(t, s) \/ DisturbStep(t, s)
      PROVE Atomic!Next
  <2>1. CASE RepeatStep(t, s)
    <3>1. Atomic!Repeat(t, s)
      BY <2>1, Zenon DEF RepeatStep, SameRows, Closing, Twice, Atomic!Repeat
    <3>. QED  BY <3>1 DEF Atomic!Next
  <2>2. CASE WriteStep(t, s)
    <3>1. Atomic!Write(t, s)
      BY <1>1, <2>2, Zenon DEF WriteStep, Closing, Twice, Atomic!Write
    <3>. QED  BY <3>1 DEF Atomic!Next
  <2>3. CASE DisturbStep(t, s)
    <3>1. Atomic!Disturb(t, s)
      BY <1>1, <2>3, Zenon DEF DisturbStep, Closing, Twice, Atomic!Disturb
    <3>. QED  BY <3>1 DEF Atomic!Next
  <2>. QED  BY <1>3, <2>1, <2>2, <2>3
<1>4. ASSUME NEW t \in Thread, CommitStep(t) \/ AbortStep(t) \/ SettleStep(t)  PROVE Atomic!Next
  <2>1. CASE CommitStep(t)
    <3>1. Atomic!Commit(t)
      BY <2>1, Zenon DEF CommitStep, Closing, Twice, Atomic!Commit
    <3>. QED  BY <3>1 DEF Atomic!Next
  <2>2. CASE AbortStep(t)
    <3>1. Atomic!Abort(t)
      BY <2>2, Zenon DEF AbortStep, Closing, Twice, Atomic!Abort
    <3>. QED  BY <3>1 DEF Atomic!Next
  <2>3. CASE SettleStep(t)
    <3>1. Atomic!Settle(t)
      BY <1>1, <2>3, Zenon DEF SettleStep, SameRows, Closing, Twice, Atomic!Settle
    <3>. QED  BY <3>1 DEF Atomic!Next
  <2>. QED  BY <1>4, <2>1, <2>2, <2>3
<1>5. ASSUME NEW c \in Checkpointer, TakeImageStep(c) \/ DropImageStep(c)  PROVE Atomic!Next
  <2>1. Atomic!TakeImage(c) \/ Atomic!DropImage(c)
    BY <1>1, <1>5, Zenon DEF TakeImageStep, DropImageStep, SameRows, Closing, Twice, Atomic!TakeImage, Atomic!DropImage
  <2>. QED  BY <2>1 DEF Atomic!Next
<1>6. CASE SameStep
  BY <1>6 DEF SameStep, SameRows, Closing, Twice, Atomic!vars
<1>. QED  BY <1>2, <1>3, <1>4, <1>5, <1>6 DEF AtomicStep

\* A checkpoint that copies has the tables it has yet to copy.
LEMMA SnappingHas ==
  ASSUME IInv, NEW c \in Checkpointer, phase[c] = "snapping", NEW s \in Left(c)
  PROVE  s \in Storage /\ c \in Agent /\ todo[c][s] = 1 /\ locker[s] = c
<1>1. s \in Storage /\ c \in Agent /\ todo[c][s] = 1
  BY DEF IInv, TypeOK, CkInv, EachTable, Left, Agent
<1>. QED  BY <1>1, CkHeld DEF IInv, LocksHeld

\* What a thread does does not change the image: the tables still to be copied
\* are the checkpoint's.
LEMMA ThreadImage ==
  ASSUME AtomicInv, NEW t \in Thread, snapshot' = snapshot,
         \A c \in Checkpointer : phase'[c] = phase[c] /\ todo'[c] = todo[c],
         \A s \in Storage : locker[s] \notin Thread => db'[s] = db[s]
  PROVE  Imaging' = Imaging /\ Image' = Image
<1>1. Imaging' = Imaging
  BY DEF Imaging
<1>2. \A c \in Imaging, s \in Storage : s \in Left(c) => db'[s] = db[s]
  <2>. SUFFICES ASSUME NEW c \in Imaging, NEW s \in Storage, s \in Left(c)  PROVE db'[s] = db[s]
    OBVIOUS
  <2>1. c \in Checkpointer /\ phase[c] = "snapping" /\ c \notin Thread
    BY AgentsAssumption DEF Imaging
  <2>2. locker[s] = c
    BY <2>1, SnappingHas DEF AtomicInv
  <2>. QED  BY <2>1, <2>2
<1>3. \A c \in Imaging : Left(c)' = Left(c)
  BY DEF Imaging, Left
<1>. HIDE DEF Imaging
<1>4. Image' = Image
  BY <1>1, <1>2, <1>3 DEF Image
<1>. QED  BY <1>1, <1>4

LEMMA ThreadClosing ==
  ASSUME NEW t \in Thread, Imaging' = Imaging,
         \A u \in Thread : u # t => phase'[u] = phase[u]
  PROVE  Closing' = IF phase'[t] = "unlocking" THEN Closing \cup {t} ELSE Closing \ {t}
<1>1. t \notin Imaging
  BY AgentsAssumption DEF Imaging
<1>. QED  BY <1>1 DEF Closing

\* A table's rows, by who has it, now and after a step.
LEMMA RowsAt ==
  ASSUME NEW s \in Storage
  PROVE  /\ Committed[s] = IF Committing(s) THEN db[s] ELSE Rolled(s)
         /\ View[s] = IF Closes(s) THEN Committed[s] ELSE db[s]
         /\ Committed'[s] = IF Committing(s)' THEN db'[s] ELSE Rolled(s)'
         /\ View'[s] = IF Closes(s)' THEN Committed'[s] ELSE db'[s]
BY DEF Committed, View

\* Rows that are the same table by table are the same.
LEMMA RowsSame ==
  ASSUME \A s \in Storage : Committed'[s] = Committed[s] /\ View'[s] = View[s]
  PROVE  SameRows
<1>1. Committed' = Committed
  BY DEF Committed
<1>2. View' = View
  BY DEF View
<1>. QED  BY <1>1, <1>2 DEF SameRows

\* A step that changes neither rows nor logs nor who closes a table.
LEMMA RowsKept ==
  ASSUME db' = db, prepared' = prepared, new_key' = new_key,
         \A s \in Storage : (Closes(s)' <=> Closes(s)) /\ (Committing(s)' <=> Committing(s))
  PROVE  SameRows
<1>1. \A s \in Storage : Rolled(s)' = Rolled(s)
  BY DEF Rolled
<1>. QED  BY <1>1, RowsAt, RowsSame

\* A table without an undo log.
LEMMA RolledClean ==
  ASSUME NEW s \in Storage, prepared[s] = NoUndo, new_key[s] = {}, db[s] \in Row
  PROVE  Rolled(s) = db[s]
<1>1. \A k \in Key : Rolled(s)[k] = db[s][k]
  BY DEF Rolled, NoUndo
<1>. QED  BY <1>1 DEF Rolled, Row

\* A row of a table, or a value of its log.
WithRow(f, s, k, v) == [f EXCEPT ![s][k] = v]

LEMMA SetRow ==
  ASSUME NEW f \in [Storage -> Row], NEW s \in Storage, NEW k \in Key, NEW v
  PROVE  /\ \A r \in Storage, j \in Key :
              WithRow(f, s, k, v)[r][j] = IF r = s /\ j = k THEN v ELSE f[r][j]
         /\ \A r \in Storage : r # s => WithRow(f, s, k, v)[r] = f[r]
BY DEF Row, WithRow

\* Before its transaction ends, the undo log gives back the rows a table had.
LEMMA AccessRolled ==
  ASSUME TypeOK, NEW t \in Thread, Access(t), NEW r \in Storage
  PROVE  Rolled(r)' = Rolled(r)
<1>0. db \in [Storage -> Row] /\ prepared \in [Storage -> Row] /\ new_key \in [Storage -> SUBSET Key]
  BY DEF TypeOK
<1>1. ASSUME NEW s \in Storage, NEW k \in Key, NEW v \in Value, Insert(t, s, k, v)
      PROVE  Rolled(r)' = Rolled(r)
  <2>1. \A j \in Key : db'[r][j] = IF r = s /\ j = k THEN v ELSE db[r][j]
    <3>1. db' = WithRow(db, s, k, v)
      BY <1>1 DEF Insert, Put, WithRow
    <3>. QED  BY <1>0, <3>1, SetRow
  <2>2. CASE Logged(s, k)
    <3>1. prepared' = prepared /\ new_key' = new_key
      BY <1>1, <2>2 DEF Insert, logVars
    <3>. QED  BY <2>1, <2>2, <3>1 DEF Rolled, Logged
  <2>3. CASE ~Logged(s, k) /\ db[s][k] # NoVal
    <3>1. prepared' = WithRow(prepared, s, k, db[s][k]) /\ new_key' = new_key
      BY <1>1, <2>3 DEF Insert, WithRow
    <3>2. \A j \in Key : prepared'[r][j] = IF r = s /\ j = k THEN db[s][k] ELSE prepared[r][j]
      BY <1>0, <3>1, SetRow
    <3>. QED  BY <2>1, <2>3, <3>1, <3>2 DEF Rolled, Logged
  <2>4. CASE ~Logged(s, k) /\ db[s][k] = NoVal
    <3>1. new_key' = [new_key EXCEPT ![s] = @ \cup {k}] /\ prepared' = prepared
      BY <1>1, <2>4 DEF Insert
    <3>2. \A j \in Key : j \in new_key'[r] <=> j \in new_key[r] \/ (r = s /\ j = k)
      BY <1>0, <3>1
    <3>. QED  BY <2>1, <2>4, <3>1, <3>2 DEF Rolled, Logged
  <2>. QED  BY <2>2, <2>3, <2>4
<1>2. ASSUME NEW s \in Storage, NEW k \in Key, NEW v \in Value, InsertNoOverwrite(t, s, k, v)
      PROVE  Rolled(r)' = Rolled(r)
  <2>1. \A j \in Key : db'[r][j] = IF r = s /\ j = k THEN v ELSE db[r][j]
    <3>1. db' = WithRow(db, s, k, v)
      BY <1>2 DEF InsertNoOverwrite, Put, WithRow
    <3>. QED  BY <1>0, <3>1, SetRow
  <2>2. /\ \A j \in Key : j \in new_key'[r] <=> j \in new_key[r] \/ (r = s /\ j = k)
        /\ prepared' = prepared /\ db[s][k] = NoVal /\ prepared[s][k] = NoVal
    BY <1>0, <1>2 DEF InsertNoOverwrite
  <2>. QED  BY <2>1, <2>2 DEF Rolled
<1>3. ASSUME NEW s \in Storage, NEW k \in Key, Del(t, s, k)
      PROVE  Rolled(r)' = Rolled(r)
  <2>1. \A j \in Key : db'[r][j] = IF r = s /\ j = k THEN NoVal ELSE db[r][j]
    <3>1. db' = WithRow(db, s, k, NoVal)
      BY <1>3 DEF Del, Put, WithRow
    <3>. QED  BY <1>0, <3>1, SetRow
  <2>2. CASE prepared[s][k] # NoVal
    <3>1. prepared' = prepared /\ new_key' = new_key
      BY <1>3, <2>2 DEF Del, logVars
    <3>. QED  BY <2>1, <2>2, <3>1 DEF Rolled
  <2>3. CASE prepared[s][k] = NoVal /\ k \in new_key[s]
    <3>1. new_key' = [new_key EXCEPT ![s] = @ \ {k}] /\ prepared' = prepared
      BY <1>3, <2>3 DEF Del
    <3>2. \A j \in Key : j \in new_key'[r] <=> j \in new_key[r] /\ ~(r = s /\ j = k)
      BY <1>0, <3>1
    <3>. QED  BY <2>1, <2>3, <3>1, <3>2 DEF Rolled
  <2>4. CASE prepared[s][k] = NoVal /\ k \notin new_key[s]
    <3>1. prepared' = WithRow(prepared, s, k, db[s][k]) /\ new_key' = new_key /\ db[s][k] # NoVal
      BY <1>3, <2>4 DEF Del, WithRow
    <3>2. \A j \in Key : prepared'[r][j] = IF r = s /\ j = k THEN db[s][k] ELSE prepared[r][j]
      BY <1>0, <3>1, SetRow
    <3>. QED  BY <2>1, <2>4, <3>1, <3>2 DEF Rolled
  <2>. QED  BY <2>2, <2>3, <2>4
<1>. QED  BY <1>1, <1>2, <1>3 DEF Access

\* A thread whose vector is emptied has no table twice.
LEMMA TwiceCleared ==
  ASSUME AtomicInv, NEW t \in Thread, storage_vec' = [storage_vec EXCEPT ![t] = NoTable]
  PROVE  Twice' = {x \in Twice : x[1] # t}
<1>1. storage_vec \in [Thread -> [Storage -> Nat]]
  BY DEF AtomicInv, IInv, TypeOK
<1>2. \A x \in Thread \X Storage :
        storage_vec'[x[1]][x[2]] = IF x[1] = t THEN 0 ELSE storage_vec[x[1]][x[2]]
  BY <1>1 DEF NoTable
<1>3. \A x \in Thread \X Storage : storage_vec'[x[1]][x[2]] > 1 <=> x[1] # t /\ storage_vec[x[1]][x[2]] > 1
  BY <1>2
<1>. QED  BY <1>3 DEF Twice

\* Steps of a thread's handler that change no row.
LEMMA QuietAtomic ==
  ASSUME AtomicInv, NEW t \in Thread,
         \/ \E s \in Storage : GetStorage(t, s)
         \/ Begin(t) \/ LockBegin(t) \/ LockDone(t) \/ AbortAndThrow(t)
         \/ Release(t) /\ ~locked[t]
  PROVE  /\ SameRows /\ locker' = locker /\ Closing' = Closing /\ Image' = Image
         /\ t \notin Closing
<1>1. /\ db' = db /\ prepared' = prepared /\ new_key' = new_key /\ locker' = locker /\ snapshot' = snapshot
      /\ phase \in [Agent -> Phases] /\ todo \in [Agent -> [Storage -> Nat]] /\ cancel \in [Thread -> BOOLEAN]
  BY DEF logVars, ckVars, GetStorage, Begin, LockBegin, LockDone, AbortAndThrow, Release,
         AtomicInv, IInv, TypeOK
<1>2. /\ \A a \in Agent : a # t => phase'[a] = phase[a] /\ todo'[a] = todo[a]
      /\ \A u \in Thread : u # t => cancel'[u] = cancel[u]
      /\ phase[t] # "unlocking" /\ phase'[t] # "unlocking"
  BY <1>1 DEF txnVars, Agent, GetStorage, Begin, LockBegin, LockDone, AbortAndThrow, Release
<1>3. Imaging' = Imaging /\ Image' = Image
  BY <1>1, <1>2, AgentsAssumption, ThreadImage DEF Agent
<1>4. Closing' = Closing /\ t \notin Closing
  <2>1. t \notin Closing
    BY <1>2, AgentsAssumption DEF Closing, Imaging
  <2>. QED  BY <1>2, <1>3, <2>1, ThreadClosing DEF Agent
<1>5. \A s \in Storage : (Closes(s)' <=> Closes(s)) /\ (Committing(s)' <=> Committing(s))
  BY <1>1, <1>2 DEF Committing, Closes, Agent
<1>6. SameRows
  BY <1>1, <1>5, RowsKept
<1>. QED  BY <1>1, <1>3, <1>4, <1>6

\* A table collected again.
LEMMA GetStorageAtomic ==
  ASSUME AtomicInv, NEW t \in Thread, NEW s \in Storage, GetStorage(t, s)
  PROVE  RepeatStep(t, s) \/ SameStep
<1>1. SameRows /\ locker' = locker /\ Closing' = Closing /\ Image' = Image /\ t \notin Closing
  BY QuietAtomic
<1>2. /\ storage_vec \in [Thread -> [Storage -> Nat]]
      /\ storage_vec' = [storage_vec EXCEPT ![t] = [storage_vec[t] EXCEPT ![s] = @ + 1]]
  BY DEF GetStorage, AtomicInv, IInv, TypeOK
<1>3. \A u \in Thread, r \in Storage :
        storage_vec'[u][r] = IF u = t /\ r = s THEN storage_vec[u][r] + 1 ELSE storage_vec[u][r]
  BY <1>2
<1>4. \A u \in Thread, r \in Storage :
        storage_vec'[u][r] > 1 <=> storage_vec[u][r] > 1 \/ (storage_vec'[t][s] > 1 /\ u = t /\ r = s)
  <2>. SUFFICES ASSUME NEW u \in Thread, NEW r \in Storage
                PROVE  storage_vec'[u][r] > 1 <=>
                         storage_vec[u][r] > 1 \/ (storage_vec'[t][s] > 1 /\ u = t /\ r = s)
    OBVIOUS
  <2>1. storage_vec[u][r] \in Nat
    BY <1>2
  <2>. QED  BY <1>3, <2>1
<1>5. CASE storage_vec'[t][s] > 1
  <2>1. \A x \in Thread \X Storage : x \in Twice' <=> x \in Twice \/ x = <<t, s>>
    BY <1>4, <1>5 DEF Twice
  <2>2. Twice' = Twice \cup {<<t, s>>}
    BY <2>1 DEF Twice
  <2>. QED  BY <1>1, <2>2 DEF RepeatStep
<1>6. CASE ~ (storage_vec'[t][s] > 1)
  <2>1. Twice' = Twice
    BY <1>4, <1>6 DEF Twice
  <2>. QED  BY <1>1, <2>1 DEF SameStep
<1>. QED  BY <1>5, <1>6

\* Whoever is not locked has no table; when its handler's block ends its vector
\* is emptied.
LEMMA ClearAtomic ==
  ASSUME AtomicInv, NEW t \in Thread, Release(t), ~locked[t]
  PROVE  SettleStep(t)
<1>1. SameRows /\ locker' = locker /\ Closing' = Closing /\ Image' = Image /\ t \notin Closing
  BY QuietAtomic
<1>2. \A s \in Storage : locker[s] # t
  <2>1. \A s \in Storage : s \notin Held(t)
    BY ThreadHeld DEF Release
  <2>. QED  BY <2>1 DEF AtomicInv, IInv, LocksHeld, Agent
<1>3. Twice' = {x \in Twice : x[1] # t}
  BY TwiceCleared DEF Release
<1>. QED  BY <1>1, <1>2, <1>3 DEF SettleStep, Holds

LEMMA AccessAtomic ==
  ASSUME AtomicInv, NEW t \in Thread, Access(t)
  PROVE  \E s \in Storage : WriteStep(t, s)
<1>1. /\ TypeOK /\ TypeOK' /\ locker' = locker /\ snapshot' = snapshot /\ phase' = phase /\ todo' = todo
      /\ cancel' = cancel /\ storage_vec' = storage_vec /\ locked[t] /\ phase[t] = "begun"
  <2>1. TypeOK /\ Next
    BY DEF AtomicInv, IInv, Next, Handler
  <2>2. TypeOK'
    BY <2>1, TypeStep
  <2>. QED  BY <2>1, <2>2 DEF Access, Insert, InsertNoOverwrite, Del, InBody, txnVars, ckVars
<1>2. PICK s \in Storage : InBody(t, s) /\ \A r \in Storage : r # s => db'[r] = db[r]
  BY <1>1 DEF Access, Insert, InsertNoOverwrite, Del, Put, TypeOK
<1>3. locker[s] = t
  <2>1. LockPart
    BY LockPartIs DEF AtomicInv, IInv
  <2>. QED  BY <1>2, <2>1, BodyLocked
<1>4. Imaging' = Imaging /\ Image' = Image
  BY <1>1, <1>2, <1>3, ThreadImage
<1>5. Closing' = Closing /\ t \notin Closing
  BY <1>1, <1>4, AgentsAssumption DEF Closing, Imaging
<1>6. Twice' = Twice
  BY <1>1 DEF Twice
<1>7. \A r \in Storage : Rolled(r)' = Rolled(r)
  BY <1>1, AccessRolled
<1>8. /\ \A r \in Storage : (Closes(r)' <=> Closes(r)) /\ (Committing(r)' <=> Committing(r))
      /\ ~Closes(s) /\ ~Committing(s)
  BY <1>1, <1>3 DEF Closes, Committing
<1>9. \A r \in Storage : /\ Committed'[r] = Committed[r]
                         /\ View'[r] = IF r = s THEN db'[s] ELSE View[r]
  BY <1>2, <1>7, <1>8, RowsAt
<1>10. Committed' = Committed
  BY <1>9 DEF Committed
<1>11. View' = [View EXCEPT ![s] = db'[s]] /\ db'[s] \in Row
  <2>1. View' = [r \in Storage |-> View'[r]] /\ View = [r \in Storage |-> View[r]]
    BY DEF View
  <2>. HIDE DEF View
  <2>2. View' = [View EXCEPT ![s] = db'[s]]
    BY <1>9, <2>1
  <2>. QED  BY <1>1, <2>2 DEF TypeOK
<1>. QED  BY <1>1, <1>3, <1>4, <1>5, <1>6, <1>10, <1>11 DEF WriteStep

LEMMA LockAtomic ==
  ASSUME AtomicInv, NEW t \in Thread, LockStep(t)
  PROVE  AtomicStep
<1>1. PICK s \in Left(t) : s = NextTable(t) /\ s \in Storage
  BY NextIsLowest DEF LockStep, Agent
<1>2. /\ TypeOK /\ t \in Agent /\ phase[t] = "locking"
      /\ db' = db /\ prepared' = prepared /\ new_key' = new_key /\ snapshot' = snapshot
      /\ phase' = phase /\ cancel' = cancel /\ storage_vec' = storage_vec /\ Visit(t, s)
      /\ locker' = [locker EXCEPT ![s] = t] /\ locker[s] \in {Nobody, t}
      /\ locker \in [Storage -> Agent \cup {Nobody}] /\ todo \in [Agent -> [Storage -> Nat]]
  BY <1>1 DEF LockStep, logVars, txnVars, ckVars, AtomicInv, IInv, TypeOK, Agent
<1>3. Imaging' = Imaging /\ Image' = Image
  <2>1. \A b \in Agent : b # t => todo'[b] = todo[b]
    BY <1>1, <1>2, VisitCounts
  <2>2. \A c \in Checkpointer : phase'[c] = phase[c] /\ todo'[c] = todo[c]
    BY <1>2, <2>1, AgentsAssumption DEF Agent
  <2>. QED  BY <1>2, <2>2, ThreadImage
<1>4. Closing' = Closing /\ t \notin Closing
  BY <1>2, <1>3, AgentsAssumption DEF Closing, Imaging
<1>5. Twice' = Twice
  BY <1>2 DEF Twice
<1>6. SameRows
  <2>1. \A r \in Storage : locker'[r] = IF r = s THEN t ELSE locker[r]
    BY <1>2
  <2>2. \A r \in Storage : (Closes(r)' <=> Closes(r)) /\ (Committing(r)' <=> Committing(r))
    BY <1>2, <2>1, AgentsAssumption DEF Closes, Committing
  <2>. QED  BY <1>2, <2>2, RowsKept
<1>7. CASE locker[s] = Nobody
  <2>1. AcquireStep(t, s)
    BY <1>2, <1>3, <1>4, <1>5, <1>6, <1>7 DEF AcquireStep
  <2>. QED  BY <1>1, <1>2, <2>1 DEF AtomicStep
<1>8. CASE locker[s] = t
  <2>1. locker' = locker
    BY <1>2, <1>8
  <2>. QED  BY <1>3, <1>4, <1>5, <1>6, <2>1 DEF SameStep, AtomicStep
<1>. QED  BY <1>2, <1>7, <1>8

\* The end of the handler's block settles the outcome.
LEMMA ReleaseAtomic ==
  ASSUME AtomicInv, NEW t \in Thread, Release(t), locked[t]
  PROVE  CommitStep(t) \/ AbortStep(t)
<1>1. /\ TypeOK /\ t \in Agent /\ phase[t] \in {"begun", "thrown"}
      /\ db' = db /\ prepared' = prepared /\ new_key' = new_key /\ snapshot' = snapshot
      /\ locker' = locker /\ cancel' = cancel /\ storage_vec' = storage_vec
      /\ phase' = [phase EXCEPT ![t] = "unlocking"] /\ todo' = [todo EXCEPT ![t] = storage_vec[t]]
      /\ phase \in [Agent -> Phases] /\ todo \in [Agent -> [Storage -> Nat]]
  BY DEF Release, logVars, ckVars, AtomicInv, IInv, TypeOK, Agent
<1>2. /\ \A a \in Agent : a # t => phase'[a] = phase[a] /\ todo'[a] = todo[a]
      /\ phase'[t] = "unlocking" /\ phase[t] # "unlocking"
  BY <1>1
<1>3. Imaging' = Imaging /\ Image' = Image
  BY <1>1, <1>2, AgentsAssumption, ThreadImage DEF Agent
<1>4. Closing' = Closing \cup {t} /\ t \notin Closing
  <2>1. t \notin Closing
    BY <1>2, AgentsAssumption DEF Closing, Imaging
  <2>. QED  BY <1>2, <1>3, <2>1, ThreadClosing DEF Agent
<1>5. Twice' = Twice
  BY <1>1 DEF Twice
<1>6. \A s \in Storage : Rolled(s)' = Rolled(s)
  BY <1>1 DEF Rolled
<1>7. \A s \in Storage :
        IF locker[s] = t THEN ~Closes(s) /\ ~Committing(s) /\ Closes(s)' /\ (Committing(s)' <=> ~cancel[t])
        ELSE (Closes(s)' <=> Closes(s)) /\ (Committing(s)' <=> Committing(s))
  BY <1>1, <1>2 DEF Closes, Committing, Agent
<1>8. \A s \in Storage : locker[s] # t => Committed'[s] = Committed[s] /\ View'[s] = View[s]
  BY <1>1, <1>6, <1>7, RowsAt
<1>9. \A s \in Storage : locker[s] = t =>
        /\ Committed'[s] = IF cancel[t] THEN Committed[s] ELSE View[s]
        /\ View'[s] = Committed'[s]
  BY <1>1, <1>6, <1>7, RowsAt
<1>10. /\ Committed' = [s \in Storage |-> Committed'[s]] /\ Committed = [s \in Storage |-> Committed[s]]
       /\ View' = [s \in Storage |-> View'[s]] /\ View = [s \in Storage |-> View[s]]
  BY DEF Committed, View
<1>. HIDE DEF Committed, View
<1>11. CASE cancel[t]
  <2>1. Committed' = Committed
    BY <1>8, <1>9, <1>10, <1>11
  <2>2. View' = [s \in Storage |-> IF locker[s] = t THEN Committed[s] ELSE View[s]]
    BY <1>8, <1>9, <1>10, <1>11
  <2>. QED  BY <1>1, <1>3, <1>4, <1>5, <2>1, <2>2 DEF AbortStep
<1>12. CASE ~cancel[t]
  <2>1. View' = View
    BY <1>8, <1>9, <1>10, <1>12
  <2>2. Committed' = [s \in Storage |-> IF locker[s] = t THEN View[s] ELSE Committed[s]]
    BY <1>8, <1>9, <1>10, <1>12
  <2>. QED  BY <1>1, <1>3, <1>4, <1>5, <2>1, <2>2 DEF CommitStep
<1>. QED  BY <1>11, <1>12

\* A visit of the unlock loop.
LEMMA UnlockVisit ==
  ASSUME AtomicInv, NEW t \in Thread, UnlockStep(t), NEW s \in Left(t), s = NextTable(t)
  PROVE  /\ TypeOK /\ IInv /\ t \in Agent /\ s \in Storage /\ phase[t] = "unlocking"
         /\ phase' = phase /\ cancel' = cancel /\ storage_vec' = storage_vec
         /\ \A r \in Storage : r # s => /\ db'[r] = db[r] /\ prepared'[r] = prepared[r]
                                        /\ new_key'[r] = new_key[r]
         /\ db'[s] = IF cancel[t] THEN Rolled(s) ELSE db[s]
         /\ Rolled(s) \in Row /\ db[s] \in Row /\ Rolled(s)' = db'[s]
         /\ locker' = IF locker[s] = t THEN [locker EXCEPT ![s] = Nobody] ELSE locker
         /\ Closing' = Closing /\ t \in Closing /\ Twice' = Twice
         /\ (locker[s] \in Thread \/ db'[s] = db[s]) => Image' = Image
<1>1. /\ TypeOK /\ IInv /\ t \in Agent /\ s \in Storage /\ phase[t] = "unlocking"
      /\ snapshot' = snapshot /\ phase' = phase /\ cancel' = cancel /\ storage_vec' = storage_vec
      /\ db \in [Storage -> Row] /\ prepared \in [Storage -> Row] /\ new_key \in [Storage -> SUBSET Key]
      /\ todo \in [Agent -> [Storage -> Nat]]
  BY DEF UnlockStep, txnVars, ckVars, AtomicInv, IInv, TypeOK, Agent, Left
<1>2. /\ db' = IF cancel[t] THEN [db EXCEPT ![s] = Rolled(s)] ELSE db
      /\ prepared' = [prepared EXCEPT ![s] = NoUndo]
      /\ new_key' = [new_key EXCEPT ![s] = {}]
      /\ locker' = IF locker[s] = t THEN [locker EXCEPT ![s] = Nobody] ELSE locker
      /\ Visit(t, s)
  BY DEF UnlockStep
<1>3. Rolled(s) \in Row /\ db[s] \in Row
  BY <1>1 DEF Rolled, Row
<1>4. \A r \in Storage : r # s => /\ db'[r] = db[r] /\ prepared'[r] = prepared[r]
                                  /\ new_key'[r] = new_key[r]
  BY <1>1, <1>2
<1>5. /\ db'[s] = IF cancel[t] THEN Rolled(s) ELSE db[s]
      /\ prepared'[s] = NoUndo /\ new_key'[s] = {}
  BY <1>1, <1>2
<1>6. Rolled(s)' = db'[s]
  <2>1. \A k \in Key : k \notin new_key'[s] /\ prepared'[s][k] = NoVal
    BY <1>5 DEF NoUndo
  <2>2. Rolled(s)' = [k \in Key |-> db'[s][k]]
    BY <2>1 DEF Rolled
  <2>3. db'[s] \in Row
    BY <1>3, <1>5
  <2>. QED  BY <2>2, <2>3 DEF Row
<1>7. \A c \in Checkpointer : phase'[c] = phase[c] /\ todo'[c] = todo[c]
  <2>1. \A b \in Agent : b # t => todo'[b] = todo[b]
    BY <1>1, <1>2, VisitCounts
  <2>. QED  BY <1>1, <2>1, AgentsAssumption DEF Agent
<1>8. (locker[s] \in Thread \/ db'[s] = db[s]) => Image' = Image
  BY <1>1, <1>4, <1>7, ThreadImage
<1>9. Closing' = Closing /\ t \in Closing
  BY <1>1 DEF Closing, Imaging
<1>10. Twice' = Twice
  BY <1>1 DEF Twice
<1>. QED  BY <1>1, <1>2, <1>3, <1>4, <1>5, <1>6, <1>8, <1>9, <1>10

\* The other tables' rows stay.
LEMMA UnlockOthers ==
  ASSUME AtomicInv, NEW t \in Thread, UnlockStep(t), NEW s \in Left(t), s = NextTable(t),
         NEW r \in Storage, r # s
  PROVE  Committed'[r] = Committed[r] /\ View'[r] = View[r]
<1>1. /\ s \in Storage /\ phase' = phase /\ cancel' = cancel /\ db'[r] = db[r]
      /\ prepared'[r] = prepared[r] /\ new_key'[r] = new_key[r]
      /\ locker' = IF locker[s] = t THEN [locker EXCEPT ![s] = Nobody] ELSE locker
  BY UnlockVisit
<1>2. locker'[r] = locker[r]
  BY <1>1
<1>3. (Closes(r)' <=> Closes(r)) /\ (Committing(r)' <=> Committing(r)) /\ Rolled(r)' = Rolled(r)
  BY <1>1, <1>2 DEF Closes, Committing, Rolled
<1>. QED  BY <1>1, <1>3, RowsAt

\* A table is given back with its log emptied: its rows stay.
LEMMA UnlockFirst ==
  ASSUME AtomicInv, NEW t \in Thread, UnlockStep(t), NEW s \in Left(t), s = NextTable(t), locker[s] = t
  PROVE  GiveBackStep(t, s)
<1>1. /\ TypeOK /\ s \in Storage /\ phase[t] = "unlocking" /\ Rolled(s)' = db'[s]
      /\ db'[s] = IF cancel[t] THEN Rolled(s) ELSE db[s]
      /\ locker' = [locker EXCEPT ![s] = Nobody]
      /\ Closing' = Closing /\ t \in Closing /\ Twice' = Twice /\ Image' = Image
  BY UnlockVisit
<1>2. Closes(s) /\ (Committing(s) <=> ~cancel[t])
  BY <1>1 DEF Closes, Committing
<1>3. ~Closes(s)' /\ ~Committing(s)'
  BY <1>1, AgentsAssumption DEF Closes, Committing, TypeOK
<1>4. Committed'[s] = Committed[s] /\ View'[s] = View[s]
  BY <1>1, <1>2, <1>3, RowsAt
<1>5. SameRows
  BY <1>4, UnlockOthers, RowsSame
<1>. QED  BY <1>1, <1>5 DEF GiveBackStep

\* A visit of a table the thread gave back before: whoever has it by now is
\* disturbed, unless its log is empty.
LEMMA UnlockAgain ==
  ASSUME AtomicInv, NEW t \in Thread, UnlockStep(t), NEW s \in Left(t), s = NextTable(t), locker[s] # t
  PROVE  DisturbStep(t, s) \/ SameStep
<1>1. /\ TypeOK /\ IInv /\ t \in Agent /\ s \in Storage /\ phase[t] = "unlocking"
      /\ phase' = phase /\ cancel' = cancel
      /\ db'[s] = IF cancel[t] THEN Rolled(s) ELSE db[s]
      /\ Rolled(s) \in Row /\ db[s] \in Row /\ Rolled(s)' = db'[s]
      /\ locker' = locker /\ Closing' = Closing /\ t \in Closing /\ Twice' = Twice
      /\ (locker[s] \in Thread \/ db'[s] = db[s]) => Image' = Image
  BY UnlockVisit
<1>2. (Closes(s)' <=> Closes(s)) /\ (Committing(s)' <=> Committing(s))
  BY <1>1 DEF Closes, Committing
<1>3. CASE prepared[s] = NoUndo /\ new_key[s] = {}
  <2>1. Rolled(s) = db[s]
    BY <1>1, <1>3, RolledClean
  <2>2. Committed'[s] = Committed[s] /\ View'[s] = View[s]
    BY <1>1, <1>2, <2>1, RowsAt
  <2>3. SameRows
    BY <2>2, UnlockOthers, RowsSame
  <2>. QED  BY <1>1, <2>1, <2>3 DEF SameStep
<1>4. CASE prepared[s] # NoUndo \/ new_key[s] # {}
  <2>1. locker[s] \in Thread \ {t}
    BY <1>1, <1>4 DEF IInv, UndoOwned
  <2>2. <<t, s>> \in Twice
    <3>1. /\ s \notin Held(t) /\ todo[t][s] \in Nat /\ todo[t][s] > 0
          /\ storage_vec[t][s] \in Nat /\ todo[t][s] <= storage_vec[t][s]
      BY <1>1 DEF IInv, LocksHeld, TypeOK, ThreadInv, Left
    <3>2. storage_vec[t][s] > 1
      BY <1>1, <3>1, ThreadHeld
    <3>. QED  BY <1>1, <3>2 DEF Twice
  <2>3. /\ Committed' = [r \in Storage |-> Committed'[r]] /\ Committed = [r \in Storage |-> Committed[r]]
        /\ View' = [r \in Storage |-> View'[r]] /\ View = [r \in Storage |-> View[r]]
    BY DEF Committed, View
  <2>4. \A r \in Storage : r # s => Committed'[r] = Committed[r] /\ View'[r] = View[r]
    BY UnlockOthers
  <2>5. CASE ~Closes(s) /\ cancel[t]
    <3>1. Committed'[s] = Committed[s] /\ View'[s] = Committed[s]
      BY <1>1, <1>2, <2>5, RowsAt DEF Committing
    <3>. HIDE DEF Committed, View
    <3>2. Committed' = Committed /\ View' = [View EXCEPT ![s] = Committed[s]]
      BY <2>3, <2>4, <3>1
    <3>. QED  BY <1>1, <2>1, <2>2, <3>2 DEF DisturbStep
  <2>6. CASE ~Closes(s) /\ ~cancel[t]
    <3>1. Committed'[s] = View[s] /\ View'[s] = View[s]
      BY <1>1, <1>2, <2>6, RowsAt DEF Committing
    <3>. HIDE DEF Committed, View
    <3>2. View' = View /\ Committed' = [Committed EXCEPT ![s] = View[s]]
      BY <2>3, <2>4, <3>1
    <3>. QED  BY <1>1, <2>1, <2>2, <3>2 DEF DisturbStep
  <2>7. CASE Closes(s)
    <3>1. locker[s] \in Closing
      BY <2>1, <2>7 DEF Closes, Closing
    <3>2. Committed'[s] = db'[s] /\ View'[s] = db'[s] /\ db'[s] \in Row
      BY <1>1, <1>2, <2>7, RowsAt
    <3>. HIDE DEF Committed, View
    <3>3. Committed' = [Committed EXCEPT ![s] = db'[s]] /\ View' = [View EXCEPT ![s] = db'[s]]
      BY <2>3, <2>4, <3>2
    <3>. QED  BY <1>1, <2>1, <2>2, <3>1, <3>2, <3>3 DEF DisturbStep
  <2>. QED  BY <2>5, <2>6, <2>7
<1>. QED  BY <1>3, <1>4

LEMMA UnlockAtomic ==
  ASSUME AtomicInv, NEW t \in Thread, UnlockStep(t)
  PROVE  AtomicStep
<1>1. PICK s \in Left(t) : s = NextTable(t) /\ s \in Storage
  BY NextIsLowest DEF UnlockStep, Agent
<1>. QED  BY <1>1, UnlockFirst, UnlockAgain DEF AtomicStep, Agent

LEMMA UnlockDoneAtomic ==
  ASSUME AtomicInv, NEW t \in Thread, UnlockDone(t)
  PROVE  SettleStep(t)
<1>1. /\ TypeOK /\ IInv /\ t \in Agent /\ phase[t] = "unlocking" /\ Left(t) = {}
      /\ db' = db /\ prepared' = prepared /\ new_key' = new_key /\ locker' = locker
      /\ snapshot' = snapshot /\ cancel' = cancel /\ todo' = todo
      /\ phase' = [phase EXCEPT ![t] = "idle"] /\ phase \in [Agent -> Phases]
  BY DEF UnlockDone, logVars, ckVars, AtomicInv, IInv, TypeOK, Agent
<1>2. /\ \A a \in Agent : a # t => phase'[a] = phase[a]
      /\ phase'[t] = "idle"
  BY <1>1
<1>3. \A s \in Storage : locker[s] # t
  <2>1. \A s \in Storage : s \notin Held(t)
    BY <1>1, ThreadHeld DEF Left
  <2>. QED  BY <1>1, <2>1 DEF IInv, LocksHeld
<1>4. Imaging' = Imaging /\ Image' = Image
  BY <1>1, <1>2, AgentsAssumption, ThreadImage DEF Agent
<1>5. Closing' = Closing \ {t}
  BY <1>2, <1>4, ThreadClosing DEF Agent
<1>6. \A s \in Storage : (Closes(s)' <=> Closes(s)) /\ (Committing(s)' <=> Committing(s))
  BY <1>1, <1>2, <1>3 DEF Closes, Committing, Agent
<1>7. SameRows
  BY <1>1, <1>6, RowsKept
<1>8. Holds(t) = {}
  BY <1>3 DEF Holds
<1>9. Twice' = {x \in Twice : x[1] # t}
  BY TwiceCleared DEF UnlockDone
<1>. QED  BY <1>1, <1>4, <1>5, <1>7, <1>8, <1>9 DEF SettleStep

\* What a checkpoint caller does does not change the rows.
LEMMA CkRows ==
  ASSUME AtomicInv, NEW c \in Checkpointer, CkEnter(c) \/ Checkpoint(c)
  PROVE  /\ TypeOK /\ IInv /\ c \in Agent /\ c \notin Thread
         /\ SameRows /\ Twice' = Twice
         /\ \A t \in Thread : phase'[t] = phase[t]
         /\ \A d \in Checkpointer : d # c => phase[d] = "idle" /\ phase'[d] = "idle"
<1>1. /\ TypeOK /\ IInv /\ OneCheckpoint /\ c \in Agent /\ c \notin Thread
      /\ db' = db /\ prepared' = prepared /\ new_key' = new_key /\ cancel' = cancel
      /\ storage_vec' = storage_vec
      /\ phase \in [Agent -> Phases] /\ locker \in [Storage -> Agent \cup {Nobody}]
  BY AgentsAssumption DEF CkEnter, Checkpoint, CkLock, CkLocked, CkSnapshot, CkWritten, CkRelease, CkExit,
     logVars, txnVars, AtomicInv, IInv, TypeOK, Agent
<1>2. \A a \in Agent : a # c => phase'[a] = phase[a]
  BY <1>1 DEF CkEnter, Checkpoint, CkLock, CkLocked, CkSnapshot, CkWritten, CkRelease, CkExit
<1>3. \A t \in Thread, s \in Storage : locker'[s] = t <=> locker[s] = t
  <2>. SUFFICES ASSUME NEW t \in Thread, NEW s \in Storage  PROVE locker'[s] = t <=> locker[s] = t
    OBVIOUS
  <2>1. t # c /\ t # Nobody
    BY AgentsAssumption
  <2>2. CASE locker' = locker
    BY <2>2
  <2>3. ASSUME CkLock(c)  PROVE locker'[s] = t <=> locker[s] = t
    BY <1>1, <2>1, <2>3 DEF CkLock
  <2>4. ASSUME CkSnapshot(c)  PROVE locker'[s] = t <=> locker[s] = t
    <3>1. PICK n \in Left(c) : n = NextTable(c)
      BY <1>1, <2>4, NextIsLowest DEF CkSnapshot
    <3>2. n \in Storage /\ locker[n] = c
      BY <1>1, <2>4, <3>1, SnappingHas DEF CkSnapshot
    <3>3. locker' = [locker EXCEPT ![n] = Nobody]
      BY <2>4, <3>1 DEF CkSnapshot
    <3>. QED  BY <1>1, <2>1, <3>2, <3>3
  <2>. QED  BY <2>2, <2>3, <2>4 DEF CkEnter, Checkpoint, CkLocked, CkWritten, CkRelease, CkExit
<1>4. \A t \in Thread : phase'[t] = phase[t]
  BY <1>1, <1>2 DEF Agent
<1>5. \A s \in Storage : (Closes(s)' <=> Closes(s)) /\ (Committing(s)' <=> Committing(s))
  BY <1>1, <1>3, <1>4 DEF Closes, Committing
<1>6. SameRows
  BY <1>1, <1>5, RowsKept
<1>7. checkpoint_locker \in {c, Nobody}
  <2>1. CkEnter(c) => checkpoint_locker = Nobody
    BY DEF CkEnter
  <2>2. Checkpoint(c) => phase[c] # "idle"
    BY DEF Checkpoint, CkLock, CkLocked, CkSnapshot, CkWritten, CkRelease, CkExit
  <2>. QED  BY <1>1, <2>1, <2>2 DEF OneCheckpoint
<1>8. \A d \in Checkpointer : d # c => phase[d] = "idle" /\ phase'[d] = "idle"
  BY <1>1, <1>2, <1>7, AgentsAssumption DEF OneCheckpoint, Agent
<1>9. Twice' = Twice
  BY <1>1 DEF Twice
<1>. QED  BY <1>1, <1>4, <1>6, <1>8, <1>9

\* The checkpoint's copy, by where it is.
LEMMA ImageIs ==
  ASSUME NEW c \in Checkpointer, \A d \in Checkpointer : d # c => phase[d] = "idle"
  PROVE  /\ Imaging = IF phase[c] = "snapping" THEN {c} ELSE {}
         /\ phase[c] # "snapping" => Image = NoImage
         /\ phase[c] = "snapping" =>
              Image = [s \in Storage |-> IF s \in Left(c) THEN db[s] ELSE snapshot[s]]
<1>1. Imaging = IF phase[c] = "snapping" THEN {c} ELSE {}
  BY DEF Imaging
<1>. HIDE DEF Imaging
<1>2. phase[c] = "snapping" => Imaging = {c}
  BY <1>1
<1>3. phase[c] = "snapping" =>
        Image = [s \in Storage |-> IF s \in Left(c) THEN db[s] ELSE snapshot[s]]
  BY <1>2 DEF Image
<1>. QED  BY <1>1, <1>3 DEF Image

\* The same of the next state.
LEMMA ImageNext ==
  ASSUME NEW c \in Checkpointer, \A d \in Checkpointer : d # c => phase'[d] = "idle"
  PROVE  /\ Imaging' = IF phase'[c] = "snapping" THEN {c} ELSE {}
         /\ phase'[c] # "snapping" => Image' = NoImage
         /\ phase'[c] = "snapping" =>
              Image' = [s \in Storage |-> IF s \in Left(c)' THEN db'[s] ELSE snapshot'[s]]
<1>1. Imaging' = IF phase'[c] = "snapping" THEN {c} ELSE {}
  BY DEF Imaging
<1>. HIDE DEF Imaging
<1>2. phase'[c] = "snapping" => Imaging' = {c}
  BY <1>1
<1>3. phase'[c] = "snapping" =>
        Image' = [s \in Storage |-> IF s \in Left(c)' THEN db'[s] ELSE snapshot'[s]]
  BY <1>2 DEF Image
<1>. QED  BY <1>1, <1>3 DEF Image

LEMMA CkQuietAtomic ==
  ASSUME AtomicInv, NEW c \in Checkpointer, CkEnter(c) \/ CkRelease(c) \/ CkExit(c)
  PROVE  SameStep
<1>1. /\ TypeOK /\ c \notin Thread /\ SameRows /\ Twice' = Twice /\ \A t \in Thread : phase'[t] = phase[t]
      /\ \A d \in Checkpointer : d # c => phase[d] = "idle" /\ phase'[d] = "idle"
  BY CkRows DEF Checkpoint
<1>2. locker' = locker /\ phase[c] # "snapping" /\ phase'[c] # "snapping"
  BY <1>1 DEF CkEnter, CkRelease, CkExit, TypeOK, Agent
<1>3. Imaging = {} /\ Imaging' = {} /\ Image = NoImage /\ Image' = NoImage
  BY <1>1, <1>2, ImageIs, ImageNext
<1>4. Closing' = Closing
  BY <1>1, <1>3 DEF Closing
<1>. QED  BY <1>1, <1>2, <1>3, <1>4 DEF SameStep

LEMMA CkLockAtomic ==
  ASSUME AtomicInv, NEW c \in Checkpointer, CkLock(c)
  PROVE  AtomicStep
<1>1. /\ TypeOK /\ c \in Agent /\ c \notin Thread /\ SameRows /\ Twice' = Twice
      /\ \A t \in Thread : phase'[t] = phase[t]
      /\ \A d \in Checkpointer : d # c => phase[d] = "idle" /\ phase'[d] = "idle"
  BY CkRows DEF Checkpoint
<1>2. /\ phase[c] = "locking" /\ phase' = phase /\ Left(c) # {}
      /\ locker[NextTable(c)] = Nobody /\ locker' = [locker EXCEPT ![NextTable(c)] = c]
  BY <1>1 DEF CkLock, TypeOK
<1>3. NextTable(c) \in Storage
  BY <1>1, <1>2, NextIsLowest
<1>4. Imaging = {} /\ Imaging' = {} /\ Image = NoImage /\ Image' = NoImage
  BY <1>1, <1>2, ImageIs, ImageNext
<1>5. Closing' = Closing /\ c \notin Closing
  BY <1>1, <1>4 DEF Closing
<1>. HIDE DEF NextTable
<1>6. AcquireStep(c, NextTable(c))
  BY <1>1, <1>2, <1>4, <1>5 DEF AcquireStep
<1>. QED  BY <1>1, <1>3, <1>6 DEF AtomicStep

\* All tables are locked: their rows are the committed ones.
LEMMA CkLockedAtomic ==
  ASSUME AtomicInv, NEW c \in Checkpointer, CkLocked(c)
  PROVE  TakeImageStep(c)
<1>1. /\ TypeOK /\ IInv /\ c \in Agent /\ c \notin Thread /\ SameRows /\ Twice' = Twice
      /\ \A t \in Thread : phase'[t] = phase[t]
      /\ \A d \in Checkpointer : d # c => phase[d] = "idle" /\ phase'[d] = "idle"
  BY CkRows DEF Checkpoint
<1>2. /\ phase[c] = "locking" /\ Left(c) = {} /\ phase'[c] = "snapping" /\ Left(c)' = Storage
      /\ db' = db /\ locker' = locker
  <2>1. todo'[c] = EachTable
    BY <1>1 DEF CkLocked, TypeOK
  <2>2. \A s \in Storage : todo'[c][s] = 1
    BY <2>1 DEF EachTable
  <2>3. Left(c)' = Storage
    BY <2>2 DEF Left
  <2>. QED  BY <1>1, <2>3 DEF CkLocked, TypeOK
<1>3. \A s \in Storage : locker[s] = c
  <2>1. \A s \in Storage : todo[c][s] \in Nat /\ ~ (todo[c][s] > 0)
    BY <1>1, <1>2 DEF IInv, TypeOK, Left
  <2>2. \A s \in Storage : s \in Held(c)
    BY <1>2, <2>1, CkHeld
  <2>. QED  BY <1>1, <2>2 DEF IInv, LocksHeld
<1>4. \A s \in Storage : Rolled(s) = db[s] /\ ~Committing(s)
  <2>1. \A s \in Storage : prepared[s] = NoUndo /\ new_key[s] = {}
    BY <1>1, <1>3 DEF IInv, UndoOwned
  <2>2. \A s \in Storage : db[s] \in Row
    BY <1>1 DEF TypeOK
  <2>. QED  BY <1>1, <1>3, <2>1, <2>2, RolledClean DEF Committing, Closes
<1>5. Committed = [s \in Storage |-> db[s]]
  BY <1>4 DEF Committed
<1>6. Imaging = {} /\ Imaging' = {c} /\ Image = NoImage
      /\ Image' = [s \in Storage |-> IF s \in Left(c)' THEN db'[s] ELSE snapshot'[s]]
  BY <1>1, <1>2, ImageIs, ImageNext
<1>7. Image' = Committed
  BY <1>2, <1>5, <1>6
<1>8. Closing' = Closing \cup {c} /\ c \notin Closing
  BY <1>1, <1>6 DEF Closing
<1>9. Holds(c) = Storage
  BY <1>3 DEF Holds
<1>. QED  BY <1>1, <1>2, <1>6, <1>7, <1>8, <1>9 DEF TakeImageStep

LEMMA CkSnapshotAtomic ==
  ASSUME AtomicInv, NEW c \in Checkpointer, CkSnapshot(c)
  PROVE  AtomicStep
<1>. DEFINE s == NextTable(c)
<1>1. /\ TypeOK /\ IInv /\ c \in Agent /\ c \notin Thread /\ SameRows /\ Twice' = Twice
      /\ \A t \in Thread : phase'[t] = phase[t]
      /\ \A d \in Checkpointer : d # c => phase[d] = "idle" /\ phase'[d] = "idle"
  BY CkRows DEF Checkpoint
<1>2. /\ phase[c] = "snapping" /\ phase' = phase /\ Left(c) # {}
      /\ db' = db /\ Visit(c, s)
      /\ snapshot' = [snapshot EXCEPT ![s] = db[s]]
      /\ locker' = [locker EXCEPT ![s] = Nobody]
  BY <1>1 DEF CkSnapshot, TypeOK
<1>3. s \in Left(c) /\ s \in Storage
  BY <1>1, <1>2, NextIsLowest
<1>4. locker[s] = c /\ todo[c][s] = 1
  BY <1>1, <1>2, <1>3, SnappingHas
<1>. HIDE DEF s
<1>5. Left(c)' = Left(c) \ {s} /\ \A r \in Storage : snapshot'[r] = IF r = s THEN db[s] ELSE snapshot[r]
  <2>1. \A r \in Storage : todo'[c][r] = IF r = s THEN todo[c][r] - 1 ELSE todo[c][r]
    BY <1>1, <1>2, <1>3, VisitCounts DEF TypeOK
  <2>. QED  BY <1>1, <1>2, <1>4, <2>1 DEF Left, TypeOK
<1>6. /\ Imaging = {c} /\ Imaging' = {c}
      /\ Image = [r \in Storage |-> IF r \in Left(c) THEN db[r] ELSE snapshot[r]]
      /\ Image' = [r \in Storage |-> IF r \in Left(c)' THEN db'[r] ELSE snapshot'[r]]
  BY <1>1, <1>2, ImageIs, ImageNext
<1>7. Image' = Image
  BY <1>2, <1>3, <1>5, <1>6
<1>8. Closing' = Closing /\ c \in Closing
  BY <1>1, <1>6 DEF Closing
<1>9. GiveBackStep(c, s)
  BY <1>1, <1>2, <1>4, <1>7, <1>8 DEF GiveBackStep
<1>. QED  BY <1>1, <1>3, <1>9 DEF AtomicStep

LEMMA CkWrittenAtomic ==
  ASSUME AtomicInv, NEW c \in Checkpointer, CkWritten(c)
  PROVE  DropImageStep(c)
<1>1. /\ TypeOK /\ IInv /\ c \in Agent /\ c \notin Thread /\ SameRows /\ Twice' = Twice
      /\ \A t \in Thread : phase'[t] = phase[t]
      /\ \A d \in Checkpointer : d # c => phase[d] = "idle" /\ phase'[d] = "idle"
  BY CkRows DEF Checkpoint
<1>2. phase[c] = "snapping" /\ Left(c) = {} /\ phase'[c] = "releasing" /\ locker' = locker
  BY <1>1 DEF CkWritten, TypeOK
<1>3. Imaging = {c} /\ Imaging' = {} /\ Image' = NoImage
  BY <1>1, <1>2, ImageIs, ImageNext
<1>4. Closing' = Closing \ {c} /\ c \in Closing
  BY <1>1, <1>3 DEF Closing
<1>5. Holds(c) = {}
  <2>1. \A s \in Storage : s \notin Held(c)
    BY <1>2, CkHeld DEF Left
  <2>. QED  BY <1>1, <2>1 DEF IInv, LocksHeld, Holds
<1>. QED  BY <1>1, <1>2, <1>3, <1>4, <1>5 DEF DropImageStep

LEMMA NextAtomic ==
  ASSUME AtomicInv, [Next]_vars
  PROVE  AtomicStep
<1>1. ASSUME NEW t \in Thread, Begin(t) \/ LockBegin(t) \/ LockDone(t) \/ AbortAndThrow(t)
      PROVE AtomicStep
  <2>1. SameRows /\ locker' = locker /\ Closing' = Closing /\ Image' = Image
    BY <1>1, QuietAtomic
  <2>2. Twice' = Twice
    BY <1>1 DEF Begin, LockBegin, LockDone, AbortAndThrow, txnVars, Twice
  <2>. QED  BY <2>1, <2>2 DEF SameStep, AtomicStep
<1>2. ASSUME NEW t \in Thread, Access(t)  PROVE AtomicStep
  BY <1>2, AccessAtomic DEF AtomicStep
<1>3. ASSUME NEW t \in Thread, LockStep(t)  PROVE AtomicStep
  BY <1>3, LockAtomic
<1>4. ASSUME NEW t \in Thread, Release(t), locked[t]  PROVE AtomicStep
  BY <1>4, ReleaseAtomic DEF AtomicStep
<1>5. ASSUME NEW t \in Thread, UnlockStep(t)  PROVE AtomicStep
  BY <1>5, UnlockAtomic
<1>6. ASSUME NEW t \in Thread, UnlockDone(t)  PROVE AtomicStep
  BY <1>6, UnlockDoneAtomic DEF AtomicStep
<1>7. ASSUME NEW c \in Checkpointer, CkEnter(c) \/ CkRelease(c) \/ CkExit(c)  PROVE AtomicStep
  BY <1>7, CkQuietAtomic DEF AtomicStep
<1>8. ASSUME NEW c \in Checkpointer, CkLock(c)  PROVE AtomicStep
  BY <1>8, CkLockAtomic
<1>9. ASSUME NEW c \in Checkpointer, CkLocked(c)  PROVE AtomicStep
  BY <1>9, CkLockedAtomic DEF AtomicStep
<1>10. ASSUME NEW c \in Checkpointer, CkSnapshot(c)  PROVE AtomicStep
  BY <1>10, CkSnapshotAtomic
<1>11. ASSUME NEW c \in Checkpointer, CkWritten(c)  PROVE AtomicStep
  BY <1>11, CkWrittenAtomic DEF AtomicStep
<1>12. ASSUME NEW t \in Thread, NEW s \in Storage, GetStorage(t, s)  PROVE AtomicStep
  BY <1>12, GetStorageAtomic DEF AtomicStep
<1>13. ASSUME NEW t \in Thread, Release(t), ~locked[t]  PROVE AtomicStep
  BY <1>13, ClearAtomic DEF AtomicStep
<1>14. CASE UNCHANGED vars
  <2>1. SameRows
    BY <1>14, RowsKept DEF vars, logVars, txnVars, Committing, Closes
  <2>2. SameStep
    BY <1>14, <2>1 DEF vars, logVars, txnVars, ckVars, SameStep, Closing, Twice, Imaging, Image, Left
  <2>. QED  BY <2>2 DEF AtomicStep
<1>. QED
  BY <1>1, <1>2, <1>3, <1>4, <1>5, <1>6, <1>7, <1>8, <1>9, <1>10, <1>11, <1>12, <1>13, <1>14
     DEF Next, Handler, Locking, Checkpoint

LEMMA InitAtomic == Init => Atomic!Init
<1>. SUFFICES ASSUME Init  PROVE Atomic!Init
  OBVIOUS
<1>1. TypeOK
  BY InitIInv DEF IInv
<1>2. \A s \in Storage : ~Committing(s) /\ ~Closes(s) /\ Rolled(s) = db[s] /\ db[s] \in Row
  <2>1. \A s \in Storage : locker[s] = Nobody /\ prepared[s] = NoUndo /\ new_key[s] = {} /\ db[s] \in Row
    BY DEF Init
  <2>. QED  BY <2>1, AgentsAssumption, RolledClean DEF Committing, Closes
<1>3. Committed \in [Storage -> Row] /\ View = Committed
  BY <1>2 DEF Committed, View
<1>4. Imaging = {} /\ {t \in Thread : phase[t] = "unlocking"} = {}
  BY DEF Init, Imaging, Agent
<1>5. Image = NoImage /\ Twice = {}
  <2>1. \A x \in Thread \X Storage : storage_vec[x[1]][x[2]] = 0
    BY DEF Init, NoTable
  <2>. QED  BY <1>4, <2>1 DEF Image, Twice
<1>6. Atomic!Row = Row
  BY DEF Atomic!Row, Row
<1>. QED  BY <1>3, <1>4, <1>5, <1>6 DEF Init, Twice, Atomic!Init

\* The transactions of the handlers implement the store: a handler that collects
\* no table twice is isolated, undone as a whole when aborted, and copied at one
\* instant by the checkpoint; one that does changes, while its transaction ends,
\* only rows of tables it has twice and another thread has by then, and only to
\* what Disturb allows (ThreadContext and Storage, storagewdb.h:121, :221, :792).
THEOREM ImplementsAtomicStore == Spec => AtomicSpec
<1>1. AtomicInv /\ [Next]_vars => [Atomic!Next]_(Atomic!vars)
  BY NextAtomic, AtomicStepIs
<1>. QED  BY <1>1, InitAtomic, AtomicInvariance, PTL DEF Spec, AtomicSpec, Atomic!Spec
=============================================================================
