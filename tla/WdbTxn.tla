------------------------------- MODULE WdbTxn -------------------------------
(***************************************************************************)
(* Transactions of the WDB storage layer (cnet/storage/storagewdb.h): the   *)
(* pool threads of gamedbd and uniquenamed run request handlers, each in a  *)
(* transaction over a set of tables; BackupThread and DbPolicy::OnQuit take *)
(* checkpoints of all tables meanwhile.                                     *)
(*                                                                          *)
(* A table is a number: its rank in the order of the Storage pointers, the  *)
(* order in which locks are taken.  The vector of a thread is the number of *)
(* times it has each table: a handler that returns after GetStorage without *)
(* a transaction (gamedbd/putrole.hrp:42) leaves its tables to the next one *)
(* of the thread, which collects them again.  The sort puts equal tables    *)
(* side by side.  A visit of a table by a loop is one step; that a second   *)
(* visit works on maps another thread may be using is not modelled beyond   *)
(* the order of the two.                                                    *)
(*                                                                          *)
(* The callers' discipline, read from the handlers of gamedbd/*.hrp and     *)
(* uniquenamed/*.hrp: one transaction at a time in a thread, GetStorage     *)
(* before the first access, NOOVERWRITE never on a key the same transaction *)
(* deleted, and after an exception nothing but the destructor of the        *)
(* transaction.                                                             *)
(***************************************************************************)
EXTENDS Integers, FiniteSets

CONSTANTS
  NStorage,      \* number of tables in storage_vec
  Thread,        \* pool threads that run handlers
  Checkpointer,  \* threads that call StorageEnv::checkpoint
  Key, Value, NoVal,
  Nobody,        \* owner of a free mutex
  NoImage,       \* no snapshot
  MaxRepeat,     \* bound: times one table is in a thread's storage_vec
  MaxTxn,        \* bound: transactions begun by one thread
  MaxCheckpoint  \* bound: checkpoints started by one caller

ASSUME SizesAssumption ==
  /\ NStorage \in Nat
  /\ MaxRepeat \in Nat
  /\ MaxTxn \in Nat
  /\ MaxCheckpoint \in Nat
ASSUME AgentsAssumption ==
  /\ Thread \cap Checkpointer = {}
  /\ Nobody \notin Thread \cup Checkpointer
ASSUME ValuesAssumption == NoVal \notin Value

Storage == 1..NStorage
Row == [Key -> Value \cup {NoVal}]
Agent == Thread \cup Checkpointer

VARIABLES
  db,                \* rows of each table as the page cache has them
  prepared,          \* undo log: the first value this transaction replaced
  new_key,           \* undo log: keys this transaction added
  locker,            \* owner of Storage::locker
  storage_vec,       \* ThreadContext::storage_vec: how often it has each table
  locked, cancel,    \* the flags of ThreadContext
  phase,             \* where a thread or a checkpoint caller stands
  todo,              \* visits its current for_each loop has yet to make
  checkpoint_locker, \* owner of StorageEnv::checkpoint_locker
  snapshot,          \* rows of each table as snapshot_create kept them
  started              \* transactions or checkpoints started, for the bounds

txnVars == <<storage_vec, locked, cancel>>
ckVars  == <<checkpoint_locker, snapshot>>
logVars == <<prepared, new_key>>
vars == <<db, logVars, locker, txnVars, phase, todo, ckVars, started>>

NoUndo == [k \in Key |-> NoVal]
NoTable == [s \in Storage |-> 0]

\* Mutant: the loop over all tables starts one element early.
EachTableOffByOne == [s \in 0..NStorage |-> 1]
EachTable == [s \in Storage |-> 1]

Lowest(S) == CHOOSE s \in S : \A r \in S : s <= r

Left(a) == {s \in Storage : todo[a][s] > 0}
Has(t, s) == storage_vec[t][s] > 0

\* Mutant: ThreadContext::lock without its sort; here the worst order.
NextTableUnsorted(a) ==
  IF a \in Thread THEN CHOOSE s \in Left(a) : \A r \in Left(a) : s >= r ELSE Lowest(Left(a))

\* The table a for_each loop visits next: both vectors are sorted.
NextTable(a) == Lowest(Left(a))

Visit(a, s) == todo' = [todo EXCEPT ![a][s] = @ - 1]

Init ==
  /\ db \in [Storage -> Row]
  /\ prepared = [s \in Storage |-> NoUndo]
  /\ new_key = [s \in Storage |-> {}]
  /\ locker = [s \in Storage |-> Nobody]
  /\ storage_vec = [t \in Thread |-> NoTable]
  /\ locked = [t \in Thread |-> FALSE]
  /\ cancel \in [Thread -> BOOLEAN]     \* not initialised by the constructor
  /\ phase = [a \in Agent |-> "idle"]
  /\ todo = [a \in Agent |-> NoTable]
  /\ checkpoint_locker = Nobody
  /\ snapshot = [s \in Storage |-> NoImage]
  /\ started = [a \in Agent |-> 0]

----------------------------------------------------------------------------
(* A handler and its transaction.                                          *)

\* AddStorage: push_back, whether the vector has the table or not.
GetStorage(t, s) ==
  /\ phase[t] \in {"idle", "begun"} /\ ~locked[t]
  /\ storage_vec[t][s] < MaxRepeat
  /\ storage_vec' = [storage_vec EXCEPT ![t][s] = @ + 1]
  /\ UNCHANGED <<db, logVars, locker, locked, cancel, phase, todo, ckVars, started>>

Begin(t) ==
  /\ phase[t] = "idle"
  /\ started[t] < MaxTxn
  /\ phase' = [phase EXCEPT ![t] = "begun"]
  /\ started' = [started EXCEPT ![t] = @ + 1]
  /\ UNCHANGED <<db, logVars, locker, txnVars, todo, ckVars>>

\* The first access locks every table of the transaction, lowest first.
LockBegin(t) ==
  /\ phase[t] = "begun" /\ ~locked[t]
  /\ storage_vec[t] # NoTable
  /\ phase' = [phase EXCEPT ![t] = "locking"]
  /\ todo' = [todo EXCEPT ![t] = storage_vec[t]]
  /\ UNCHANGED <<db, logVars, locker, txnVars, ckVars, started>>

\* Mutant: a mutex on which a thread waits for itself.
LockStepNormal(t) ==
  /\ phase[t] = "locking" /\ Left(t) # {}
  /\ locker[NextTable(t)] = Nobody
  /\ locker' = [locker EXCEPT ![NextTable(t)] = t]
  /\ Visit(t, NextTable(t))
  /\ UNCHANGED <<db, logVars, txnVars, phase, ckVars, started>>

LockStep(t) ==
  /\ phase[t] = "locking" /\ Left(t) # {}
  /\ LET s == NextTable(t) IN
       /\ locker[s] \in {Nobody, t}    \* ERRORCHECK: the owner passes
       /\ locker' = [locker EXCEPT ![s] = t]
       /\ Visit(t, s)
  /\ UNCHANGED <<db, logVars, txnVars, phase, ckVars, started>>

LockDone(t) ==
  /\ phase[t] = "locking" /\ Left(t) = {}
  /\ phase' = [phase EXCEPT ![t] = "begun"]
  /\ locked' = [locked EXCEPT ![t] = TRUE]
  /\ cancel' = [cancel EXCEPT ![t] = FALSE]
  /\ UNCHANGED <<db, logVars, locker, storage_vec, todo, ckVars, started>>

InBody(t, s) == phase[t] = "begun" /\ locked[t] /\ Has(t, s)

Put(s, k, v) == db' = [db EXCEPT ![s][k] = v]

Logged(s, k) == prepared[s][k] # NoVal \/ k \in new_key[s]

\* Mutant: every overwrite logs the value it replaces.
InsertRelogs(t, s, k, v) ==
  /\ InBody(t, s)
  /\ Put(s, k, v)
  /\ IF db[s][k] # NoVal
     THEN /\ prepared' = [prepared EXCEPT ![s][k] = db[s][k]]
          /\ UNCHANGED new_key
     ELSE /\ new_key' = [new_key EXCEPT ![s] = @ \cup {k}]
          /\ UNCHANGED prepared
  /\ UNCHANGED <<locker, txnVars, phase, todo, ckVars, started>>

Insert(t, s, k, v) ==
  /\ InBody(t, s)
  /\ Put(s, k, v)
  /\ IF Logged(s, k) THEN UNCHANGED logVars
     ELSE IF db[s][k] # NoVal
       THEN /\ prepared' = [prepared EXCEPT ![s][k] = db[s][k]]
            /\ UNCHANGED new_key
       ELSE /\ new_key' = [new_key EXCEPT ![s] = @ \cup {k}]
            /\ UNCHANGED prepared
  /\ UNCHANGED <<locker, txnVars, phase, todo, ckVars, started>>

InsertNoOverwrite(t, s, k, v) ==
  /\ InBody(t, s)
  /\ db[s][k] = NoVal /\ prepared[s][k] = NoVal
  /\ Put(s, k, v)
  /\ new_key' = [new_key EXCEPT ![s] = @ \cup {k}]
  /\ UNCHANGED <<prepared, locker, txnVars, phase, todo, ckVars, started>>

Del(t, s, k) ==
  /\ InBody(t, s)
  /\ db[s][k] # NoVal
  /\ Put(s, k, NoVal)
  /\ IF prepared[s][k] # NoVal THEN UNCHANGED logVars
     ELSE IF k \in new_key[s]
       THEN /\ new_key' = [new_key EXCEPT ![s] = @ \ {k}]
            /\ UNCHANGED prepared
       ELSE /\ prepared' = [prepared EXCEPT ![s][k] = db[s][k]]
            /\ UNCHANGED new_key
  /\ UNCHANGED <<locker, txnVars, phase, todo, ckVars, started>>

\* find misses, an insert meets an existing or an empty key, or the handler
\* catches a foreign exception: abort is called and the exception flies.
AbortAndThrow(t) ==
  /\ phase[t] = "begun"
  /\ phase' = [phase EXCEPT ![t] = "thrown"]
  /\ cancel' = [cancel EXCEPT ![t] = TRUE]
  /\ UNCHANGED <<db, logVars, locker, storage_vec, locked, todo, ckVars, started>>

\* ~Transaction: reached at the end of the handler's block, by return, or by
\* an exception (one the handler raised itself does not call abort).
Release(t) ==
  /\ phase[t] \in {"begun", "thrown"}
  /\ IF locked[t]
     THEN /\ phase' = [phase EXCEPT ![t] = "unlocking"]
          /\ todo' = [todo EXCEPT ![t] = storage_vec[t]]
          /\ UNCHANGED storage_vec
     ELSE /\ phase' = [phase EXCEPT ![t] = "idle"]
          /\ storage_vec' = [storage_vec EXCEPT ![t] = NoTable]
          /\ UNCHANGED todo
  /\ UNCHANGED <<db, logVars, locker, locked, cancel, ckVars, started>>

\* The rows of table s with the undo log applied: replaced values are put
\* back first, added keys deleted after.
Rolled(s) ==
  [k \in Key |-> IF k \in new_key[s] THEN NoVal
                 ELSE IF prepared[s][k] # NoVal THEN prepared[s][k]
                 ELSE db[s][k]]

\* Mutant: new_key is not cleared.
UnlockStepNotCleared(t) ==
  /\ phase[t] = "unlocking" /\ Left(t) # {}
  /\ LET s == NextTable(t) IN
       /\ db' = IF cancel[t] THEN [db EXCEPT ![s] = Rolled(s)] ELSE db
       /\ prepared' = [prepared EXCEPT ![s] = NoUndo]
       /\ locker' = IF locker[s] = t THEN [locker EXCEPT ![s] = Nobody] ELSE locker
       /\ Visit(t, s)
  /\ UNCHANGED <<new_key, txnVars, phase, ckVars, started>>

\* Mutant: a mutex that does not look at its owner.
UnlockStepUnchecked(t) ==
  /\ phase[t] = "unlocking" /\ Left(t) # {}
  /\ LET s == NextTable(t) IN
       /\ db' = IF cancel[t] THEN [db EXCEPT ![s] = Rolled(s)] ELSE db
       /\ prepared' = [prepared EXCEPT ![s] = NoUndo]
       /\ new_key' = [new_key EXCEPT ![s] = {}]
       /\ locker' = [locker EXCEPT ![s] = Nobody]
       /\ Visit(t, s)
  /\ UNCHANGED <<txnVars, phase, ckVars, started>>

\* Storage::checkpoint on the next table of the transaction.  On the second
\* visit of a table the thread has no lock any more: the undo log is that of
\* whoever has it, and the mutex (ERRORCHECK) refuses the unlock.
UnlockStep(t) ==
  /\ phase[t] = "unlocking" /\ Left(t) # {}
  /\ LET s == NextTable(t) IN
       /\ db' = IF cancel[t] THEN [db EXCEPT ![s] = Rolled(s)] ELSE db
       /\ prepared' = [prepared EXCEPT ![s] = NoUndo]
       /\ new_key' = [new_key EXCEPT ![s] = {}]
       /\ locker' = IF locker[s] = t THEN [locker EXCEPT ![s] = Nobody] ELSE locker
       /\ Visit(t, s)
  /\ UNCHANGED <<txnVars, phase, ckVars, started>>

\* A page cannot be read or written during the rollback: the catch block logs
\* and returns, after part of the undo log and before unlock.
UnlockDiskError(t) ==
  /\ phase[t] = "unlocking" /\ Left(t) # {} /\ cancel[t]
  /\ LET s == NextTable(t) IN
       /\ \E K \in SUBSET Key :
            db' = [db EXCEPT ![s] = [k \in Key |-> IF k \in K THEN Rolled(s)[k] ELSE @[k]]]
       /\ Visit(t, s)
  /\ UNCHANGED <<logVars, locker, txnVars, phase, ckVars, started>>

UnlockDone(t) ==
  /\ phase[t] = "unlocking" /\ Left(t) = {}
  /\ phase' = [phase EXCEPT ![t] = "idle"]
  /\ locked' = [locked EXCEPT ![t] = FALSE]
  /\ storage_vec' = [storage_vec EXCEPT ![t] = NoTable]
  /\ UNCHANGED <<db, logVars, locker, cancel, todo, ckVars, started>>

----------------------------------------------------------------------------
(* StorageEnv::checkpoint.                                                 *)

CkEnter(c) ==
  /\ phase[c] = "idle"
  /\ started[c] < MaxCheckpoint
  /\ checkpoint_locker = Nobody
  /\ checkpoint_locker' = c
  /\ phase' = [phase EXCEPT ![c] = "locking"]
  /\ todo' = [todo EXCEPT ![c] = EachTable]
  /\ started' = [started EXCEPT ![c] = @ + 1]
  /\ UNCHANGED <<db, logVars, locker, txnVars, snapshot>>

CkLock(c) ==
  /\ phase[c] = "locking" /\ Left(c) # {}
  /\ LET s == NextTable(c) IN
       /\ locker[s] = Nobody
       /\ locker' = [locker EXCEPT ![s] = c]
       /\ Visit(c, s)
  /\ UNCHANGED <<db, logVars, txnVars, phase, ckVars, started>>

CkLocked(c) ==
  /\ phase[c] = "locking" /\ Left(c) = {}
  /\ phase' = [phase EXCEPT ![c] = "snapping"]
  /\ todo' = [todo EXCEPT ![c] = EachTable]
  /\ UNCHANGED <<db, logVars, locker, txnVars, ckVars, started>>

CkSnapshot(c) ==
  /\ phase[c] = "snapping" /\ Left(c) # {}
  /\ LET s == NextTable(c) IN
       /\ snapshot' = [snapshot EXCEPT ![s] = db[s]]
       /\ locker' = [locker EXCEPT ![s] = Nobody]
       /\ Visit(c, s)
  /\ UNCHANGED <<db, logVars, txnVars, phase, checkpoint_locker, started>>

\* checkpoint_prepare and checkpoint_commit have returned, either way.
CkWritten(c) ==
  /\ phase[c] = "snapping" /\ Left(c) = {}
  /\ phase' = [phase EXCEPT ![c] = "releasing"]
  /\ todo' = [todo EXCEPT ![c] = EachTable]
  /\ UNCHANGED <<db, logVars, locker, txnVars, ckVars, started>>

\* snapshot_release: the table's lock is taken for the length of the call.
CkRelease(c) ==
  /\ phase[c] = "releasing" /\ Left(c) # {}
  /\ LET s == NextTable(c) IN
       /\ locker[s] = Nobody
       /\ snapshot' = [snapshot EXCEPT ![s] = NoImage]
       /\ Visit(c, s)
  /\ UNCHANGED <<db, logVars, locker, txnVars, phase, checkpoint_locker, started>>

CkExit(c) ==
  /\ phase[c] = "releasing" /\ Left(c) = {}
  /\ phase' = [phase EXCEPT ![c] = "idle"]
  /\ checkpoint_locker' = Nobody
  /\ UNCHANGED <<db, logVars, locker, txnVars, todo, snapshot, started>>

----------------------------------------------------------------------------
Access(t) ==
  \E s \in Storage, k \in Key :
    \/ \E v \in Value : Insert(t, s, k, v) \/ InsertNoOverwrite(t, s, k, v)
    \/ Del(t, s, k)

Handler(t) ==
  \/ \E s \in Storage : GetStorage(t, s)
  \/ Begin(t) \/ LockBegin(t) \/ Access(t) \/ AbortAndThrow(t) \/ Release(t)

Locking(t) ==
  LockStep(t) \/ LockDone(t) \/ UnlockStep(t) \/ UnlockDone(t)

Checkpoint(c) ==
  CkLock(c) \/ CkLocked(c) \/ CkSnapshot(c) \/ CkWritten(c) \/ CkRelease(c) \/ CkExit(c)

Next ==
  \/ \E t \in Thread : Handler(t) \/ Locking(t)
  \/ \E c \in Checkpointer : CkEnter(c) \/ Checkpoint(c)

Spec == Init /\ [][Next]_vars

\* A running thread keeps running and a handler's block ends; nothing is
\* assumed of the mutexes beyond granting a lock that stays free.
Fairness ==
  /\ \A t \in Thread : WF_vars(Locking(t)) /\ WF_vars(Release(t))
  /\ \A c \in Checkpointer : WF_vars(Checkpoint(c))

FairSpec == Spec /\ Fairness

\* With disks that can fail while a rollback runs.
DiskSpec ==
  /\ Init /\ [][Next \/ \E t \in Thread : UnlockDiskError(t)]_vars
  /\ Fairness

----------------------------------------------------------------------------
(* Properties.                                                             *)

Phases == {"idle", "begun", "locking", "thrown", "unlocking", "snapping", "releasing"}

\* Type of the state.
TypeOK ==
  /\ db \in [Storage -> Row]
  /\ prepared \in [Storage -> Row]
  /\ new_key \in [Storage -> SUBSET Key]
  /\ locker \in [Storage -> Agent \cup {Nobody}]
  /\ storage_vec \in [Thread -> [Storage -> Nat]]
  /\ locked \in [Thread -> BOOLEAN]
  /\ cancel \in [Thread -> BOOLEAN]
  /\ phase \in [Agent -> Phases]
  /\ todo \in [Agent -> [Storage -> Nat]]
  /\ checkpoint_locker \in Checkpointer \cup {Nobody}
  /\ snapshot \in [Storage -> Row \cup {NoImage}]
  /\ started \in [Agent -> Nat]

\* The undo log of a table is empty unless a transaction that locked it is
\* still open: no handler inherits another one's log, whoever empties it
\* (storagewdb.h:240, :251).
UndoOwned ==
  \A s \in Storage :
    (prepared[s] # NoUndo \/ new_key[s] # {}) =>
       /\ locker[s] \in Thread
       /\ locked[locker[s]]
       /\ Has(locker[s], s)

\* An agent owns the locks its loops say it has, however often a table is in
\* its vector: a table it has twice is locked by the first visit of the one loop
\* and free after the first visit of the other, and the second visit neither
\* waits nor takes the lock from its next owner (storagewdb.h:778, :788, :628).
Target(a) == IF a \in Thread THEN storage_vec[a] ELSE EachTable
Held(a) ==
  {s \in Storage :
     IF phase[a] = "locking" THEN todo[a][s] < Target(a)[s]
     ELSE IF phase[a] \in {"unlocking", "snapping"} THEN todo[a][s] = Target(a)[s] /\ Target(a)[s] > 0
     ELSE a \in Thread /\ locked[a] /\ Has(a, s)}

LocksHeld == \A a \in Agent, s \in Storage : locker[s] = a <=> s \in Held(a)

\* Whoever waits for a table's lock holds no higher table: handlers that
\* lock in pointer order and the checkpoint that locks all tables cannot wait
\* for each other in a circle (storagewdb.h:589, :628, :782).
OrderedWait ==
  \A a \in Agent : phase[a] = "locking" =>
    \A s \in Storage, r \in Left(a) : locker[s] = a => s <= r

\* The lock an agent waits for, and the same fact said of cycles: among any
\* agents that wait, one waits for a lock none of them holds.
Waiting == {a \in Agent : /\ phase[a] \in {"locking", "releasing"}
                          /\ Left(a) # {}
                          /\ locker[NextTable(a)] \notin {a, Nobody}}
NoWaitCycle ==
  \A W \in SUBSET Waiting : W # {} =>
    \E a \in W : locker[NextTable(a)] \notin W

\* Every transaction that waits for its locks ends, and every checkpoint
\* that starts returns, however the handlers interleave.
Completes == \A a \in Agent : phase[a] = "locking" ~> phase[a] = "idle"

\* The disk-error catch block of a rollback says the program aborts; then no
\* thread could be seen past it without a transaction and still the owner of
\* a table's lock (storagewdb.h:244-248).
NoOrphanLock ==
  \A t \in Thread, s \in Storage : locker[s] = t => phase[t] # "idle"

\* The rows a crash-free observer may rely on: those of a table whose
\* transaction is undecided, or decided against, with its undo log applied.
Closes(s) == locker[s] \in Thread /\ phase[locker[s]] = "unlocking"
Committing(s) == Closes(s) /\ ~cancel[locker[s]]
Committed == [s \in Storage |-> IF Committing(s) THEN db[s] ELSE Rolled(s)]

\* The rows its transaction reads, and leaves when its outcome is settled.
View == [s \in Storage |-> IF Closes(s) THEN Committed[s] ELSE db[s]]

Imaging == {c \in Checkpointer : phase[c] = "snapping"}
Image ==
  IF Imaging = {} THEN NoImage
  ELSE [s \in Storage |-> IF \E c \in Imaging : s \in Left(c) THEN db[s] ELSE snapshot[s]]

Atomic == INSTANCE AtomicStore WITH
  Table <- Storage,
  store <- Committed,
  view <- View,
  holder <- locker,
  closing <- {t \in Thread : phase[t] = "unlocking"} \cup Imaging,
  twice <- {x \in Thread \X Storage : storage_vec[x[1]][x[2]] > 1},
  image <- Image

\* Handlers see transactions that are atomic, isolated and undone as a whole
\* when aborted, and the checkpoint sees one instant of all tables; but a thread
\* that collected a table more than once disturbs, while its transaction ends,
\* the one of the next owner of that table (AtomicStore!Disturb).
AtomicSpec == Atomic!Spec
=============================================================================
