# Formal models of the idealworld 152 server

TLA+ modules, TLC configurations and TLAPS proofs for the server daemons under
`src/cnet`. All paths below are relative to `src/cnet` unless they start with
`src/`.

Contents: the system; what is hard in it; the modules; the runs; the proofs;
what is not covered; the plan.

## 1. The system

The server is a set of daemons that talk over one RPC library.

| Component | State it keeps | Operations | Talks to |
|---|---|---|---|
| **glinkd** | client sessions | forwards client protocols | gdeliveryd, gs |
| **gdeliveryd** | who is online (`UserContainer`), trades, auctions, mail, battles, all in memory | protocol handlers on 3 pool threads, a timer thread | glinkd, gs, gamedbd, uniquenamed |
| **gs** (`src/cgame/gs`) | the world: players, monsters, items | game ticks, client commands | gdeliveryd, gamedbd |
| **gamedbd** | tables of roles, inventories, mails ... | RPC handlers on 15 pool threads, checkpoints | gdeliveryd, gs |
| **uniquenamed** | tables of names and role ids | reserve and confirm names | gdeliveryd |
| **gfaction**, **gauthd**, **logservice**, **gacd** | factions; accounts; log files; operator console | | gdeliveryd |
| **WDB storage** (library in gamedbd, uniquenamed) | tables with undo logs (`storage/storagewdb.h`), pages, redo log and data files (`common/db.h`) | transactions, checkpoint, recovery | files |
| **RPC and threads** (library in all) | open calls, timers, pools | call, answer or time out once | |

`PROJECT.json` lists all of them, modelled or not, with the reason.

Four parts hold what the players own and cannot be checked by looking at one
thread at a time, and they are modelled first:

*WDB transactions.* A handler of gamedbd or uniquenamed names its tables
(`GetStorage`), opens a transaction, and at its first access locks all of them
in pointer order (`ThreadContext::lock`). It changes rows in place and keeps an
undo log with each table (`prepared`, `new_key`). When the transaction object is
destroyed each table is rolled back if `cancel` is set, its undo log is cleared
and its mutex released, one table after another. Nothing keeps a table from being in
the thread's vector twice. Meanwhile `BackupThread`, or
`OnQuit` when the process is told to end, runs `StorageEnv::checkpoint`: it locks
all tables, snapshots them and unlocks them one by one, writes, and releases the
snapshots.

*WDB checkpoint log.* A snapshot is the set of pages changed since the previous
one. `GlobalLogger::prepare` writes the pages to a record of the redo log and
marks it PREPARED; `commit` writes them to the data files, table by table, and
marks the record COMMITTED. Every table's first page names the log file it was
committed from (`logger_id`). A log that is full is replaced by a new file
(rotation). At a start `integrity_verify` takes the highest name among the
tables, and, if the record there is PREPARED, the commit is repeated (`redo`).

*Trade desk.* Two players of a game server trade through a `Transaction` object
of gdeliveryd. The game server writes both roles back and stops touching their
pockets; gdeliveryd reads the pockets from gamedbd (`TradeInventory`), lets the
players put up goods and money, submit and confirm, and writes both pockets with
one call (`TradeSave`). A timer thread visits each Transaction once a second; when
its state has lasted too long it reports the end to the game server (`OnDestroy`,
`GTradeEnd`) and deletes the object. A player, the game server or an ending
session may discard the trade.

*Trades between the daemons.* gdeliveryd creates a Transaction and sends `GTradeStart`;
the game server puts both roles in PLAYER_WAITING_TRADE, writes them with `PutRole` and
answers for each (`GTradeStart_Re`). The first agreement sets `OnDestroy`, each joins its
role (`TraderMap`), the second has the pockets read. Then PLAYER_TRADE lasts until
`GTradeEnd`, which says whether the pocket was modified and must be read again
(`GetMoneyInventory`). An attack or a lost connection refuses or discards the trade, after
which the role waits 10 s for its end and is otherwise dropped without being written. Writes
carry a timestamp of the role; gamedbd refuses one that is not newer than its row.

*Role names.* Several zones, each with a gamedbd and a gdeliveryd, share one
uniquenamed, which keeps for every name the zone, role and status (engaged, used,
obsolete) and for every account the slots in use. To create a role gdeliveryd
reserves the name and a slot (`PreCreateRole`), writes the role to its gamedbd
(`DBCreateRole`) and posts the outcome (`PostCreateRole`, sent again until it is
answered). A change of name goes the same way, with a post that has no answer; the
old name stays taken. A deleted role is marked, and a week later gamedbd announces
it and gdeliveryd has it deleted (`DBDeleteRole`) and tells uniquenamed
(`PostDeleteRole`, sent once). A creation whose write times out is rolled back:
the role is deleted and the name freed, at once and without waiting for either.

### Hard behaviours, and the properties that make each component correct

* Locks: handlers and checkpoints lock overlapping sets of tables. Nobody may wait
  in a circle, and each mutex must be held by whoever the code believes.
* Undo: a row may be overwritten, deleted and added again in one transaction, and
  the undo log is the table's, not the transaction's. An abort must restore every
  row, and no handler may inherit a log.
* Tables collected twice: the loop that ends a transaction comes back to such a table
  after it gave its mutex away, and works on the undo log of its next owner.
* Snapshot: tables are given back one by one while the copy is made, yet the copy
  must be one instant of all tables.
* Crash: between any two page writes of a commit, a rotation or a redo. A restart
  must serve all tables at one instant.
* Trade: messages of two players on different threads, a timer that takes no lock,
  a save that may be late, lost or never sent. Goods may change hands as both
  confirmed or not at all, and be saved once; every trade that was confirmed or
  discarded must end.

* Trades between daemons: both game server and gdeliveryd handle messages on several
  threads, so in any order; saves may be executed after everybody has given them up. A
  pocket may not be used by the world and a desk at once, goods may not be copied or lost by
  a write, a trade and a logout that cross, and no role may be left in its trade.
* Role names: three daemons, each of which may answer late, and messages in any
  order. A name may not belong to roles of two zones, the rows of one gamedbd must
  agree after rollbacks and repeated deletions, and a reservation must be decided.

`PROJECT.json` "hazards" has each of these at its line, and those that no
property covers yet with the reason.

## 2. The modules

| Module | What it is |
|---|---|
| `AtomicStore` | promise of the transaction layer: exclusive tables, atomic commit and abort, image of one instant; and the one way in which it is broken |
| `WdbTxn` | `storage/storagewdb.h`: threads, locks, undo logs, checkpoint's locking; implements `AtomicStore` |
| `WdbTxn_proofs` | theorems about `WdbTxn` |
| `CheckpointStore` | promise of checkpoints across crashes |
| `WdbLog` | `common/db.h`: log, data files, rotation, start, redo, crash; implements `CheckpointStore` |
| `WdbLog_proofs` | theorems about `WdbLog`, for old and new installations |
| `Barter` | promise of a trade |
| `TradeDesk` | `gdeliveryd/trade.{h,cpp}` and the handlers around it; implements `Barter` |
| `TradeDesk_proofs` | theorems about `TradeDesk` |
| `TradeFlow` | several trades from start to end between game server, gdeliveryd and gamedbd, with roles that leave and come back |
| `TradeFlow_proofs` | theorems about `TradeFlow` |
| `NameRegistry` | promise of the names of roles across zones |
| `RoleNames` | reservation, write, confirmation, change and deletion in `uniquenamed`, `gdeliveryd` and `gamedbd`; implements `NameRegistry` |
| `RoleNames_proofs` | theorems about `RoleNames` |
| `MCWdbTxn`, `MCWdbLog`, `MCTradeDesk`, `MCTradeFlow`, `MCRoleNames` | the instances for TLC; all but `MCTradeDesk` declare symmetry sets (threads, values, roles, goods, zones, names, calls), used by the runs without liveness |

### WdbTxn

A table is its rank in the order of the `Storage` pointers. `phase` is where a
thread or a checkpoint caller stands and `todo` how many visits of each table its
`for_each` has yet to make, so that every lock, unlock, rollback and snapshot of one
table is a step of its own. `GetStorage`, `Begin`, `LockBegin/Step/Done`, `Insert`,
`InsertNoOverwrite`, `Del`, `AbortAndThrow`, `Release`, `UnlockStep/Done` are the
operations of a handler; `CkEnter` ... `CkExit` those of
`StorageEnv::checkpoint`. `UnlockDiskError` (in `DiskSpec` only) is the catch block
of a failed rollback.

*Tables collected twice.* `ThreadContext::storage_vec` is a vector that `AddStorage`
extends without looking (`storage/storagewdb.h:121`), so the model counts how often a
thread has each table; equal ones are side by side after the sort. A handler that
returns after `GetStorage` without a transaction, as `putrole.hrp:42` does with seven
tables, leaves them to the thread's next handler, which may collect them again
(`GetStorage` in phase idle, then again). Mutexes are of the ERRORCHECK kind: the
second lock returns without waiting, and the second unlock is refused. But
`Storage::checkpoint` runs to the end on the second visit too (`:792`, `:221-242`),
when the mutex is free or another thread's: if `cancel` is set it rolls back what that
thread wrote so far, and in any case it empties its undo log, so that it can no longer
be undone. `UnlockStep` is both visits.

What holds all the same, and is checked and proved: who has the mutex (`LocksHeld`),
that no undo log is left to a later owner (`UndoOwned`), the order of waiting. What does not
is isolation. `AtomicStore` says so: `store` is what is permanent, `view` what the holder
of a table sees, and `twice` the tables an agent collected several times. While `twice`
is empty a transaction's writes appear or disappear together, and only by its own
`Commit` or `Abort`. `Disturb` is the exception: an agent that is giving tables back
comes to one it has twice and another thread holds by now; that thread's writes become permanent
(its log is forgotten) or are undone, or, when it is itself giving tables back, its outcome is turned round in
that table: committed writes are undone, aborted ones stay. Without `Disturb` TLC finds that the refinement
fails. No document or comment claims isolation, so this is a hazard and not a finding.

An access needs the table's mutex and no step of it can be seen by others, so an
access is one step, and so is a visit of a table. A second visit, which has no mutex, may
in the code also run at the same time as an access to the same `std::map` or page; what
becomes of the memory then is outside the model, which has the order of the two only.
The conditions on the callers are read from the handlers of
`gamedbd/*.hrp` and `uniquenamed/*.hrp`: one transaction at a time in a thread, a
handler names its tables before the first access, uses no NOOVERWRITE insert on
a key it deleted, and does nothing after an exception.

Left out: compression, cursors, statistics, the backup copy, removal of old logs.
What `prepare` and `commit` do between snapshot and release is `WdbLog`.

### WdbLog

A table is the rank of its name, a page a model value, `Magic` page 0, which also
holds `logger_id`. `file` and `log` survive a crash; `mem` does not. A start is
`Start` (load, `integrity_verify`), then, if the record is PREPARED, the commit loop
with `redo` set and `RedoMark`. A checkpoint is `SnapshotCreate`, `PrepareBegin`
(with rotation), `PrepareTable` for each table, `PrepareMark`, then `CommitOpen`,
`CommitPage`, `CommitMagic` for each table, `CommitMark`, `SnapshotRelease`. Handlers
`Write` at any time in between. `Crash` may fall between any two.

Abstractions, and why they keep what matters:

* A page write is atomic and survives the process. This is a killed process, not a
  power failure: after that the pages of a record and its mark, which share one
  sync, could be reordered (listed as a hazard).
* Positions in the log and its size limit are left out; instead `PrepareBegin` may
  rotate at any checkpoint, as it does when the log grew too large.
* Only the record at `logger_rec_cur` is kept; older ones are read by restore tools
  only, which are not modelled, and neither are the chains and key pages that lead
  to a record's pages.
* `integrity_verify` reads the item at `logger_rec_cur` without comparing it with
  `logger_rec_max`. For a full log it lies just behind the 4096 bytes of the page
  (36 bytes of header and 203 items of 20), where the next page in memory begins;
  those bytes are never PREPARED, but may be taken for an unfinished record, and the
  counter is then one past the end. `OpenLog` has both outcomes, `TypeOK` bounds them.
* After a redo everything is unloaded and loaded again; the new logger has no log
  file (`log_id = 0`) and a `key_page` that is allocated but not set. Whether the next
  checkpoint rotates is decided on the counters in it (`common/db.h:2005`), so both
  outcomes are in the model: it rotates, or it goes on and writes through the null
  pointer (`PrepareNoFile`), which ends the process before anything is in a file.
  Memory that such a write might damage before is not modelled.
* Names of logs come from the clock, which is taken to go forward.
* All pages stay cached. `Coherent` says why dropping a page that is neither changed
  nor copied is harmless; `PageHash::cleanup` (`common/db.h:1042`) also drops pages
  whose copy is still to be written, which is listed as a hazard.

### TradeDesk

One Transaction, from the moment `AttachTrader` answered ATTACH_DONE to its
release. Each public operation of `Transaction` is a step, since it holds
`locker_self`; what a handler does after it (`Write2DB`, `Destroy`) is a step of its
own, remembered in `cont`. The timer thread's test, report and release are three
steps (`Expire`, `TellOnDestroy`, `ReleaseObject`), for none of them holds
`locker_self`. `call` is the TradeSave call of a thread: sent or not, executed,
refused or still under way in gamedbd, and whether the answer is still awaited;
exactly one of `SaveClient` and `SaveOnTimeout` is run for it. A call that could
not be sent stays registered and times out.

Abstractions:

* Goods are single, unstackable and different; a pocket is a set of goods with money.
  Slots matter only for the room a pocket has (`Fits`). `MoveObject` therefore only
  marks the pocket modified, which is what decides whether a discarded trade is saved.
* Pockets start within the limit on money, as the game server keeps them.
* Looking a Transaction up and operating on it is one step. A handler that goes on
  with an object the timer thread deleted meanwhile is `UseReleased`: the process ends.
* A state's time limit may pass at any moment. Init is left out of `Expire`: its limit
  is 300 s, and the discard that leads to it goes on at once or through a call that
  ends within 20 s. `Confirm` has no limit.
* The branch of `Confirm` for a missing result is not in the model: `ResultFresh`
  shows that it cannot be reached.
* An update of goods and money that ends with ERR_TRADE_ADDGOODS or ERR_TRADE_RMVGOODS for
  want of money has moved the goods, and the other trader's submission stands
  (`gdeliveryd/trade.cpp:103`, `:127`). The model does the same, and the goods are accounted
  for all the same: `Conserved`, `ResultFresh` and `BarterSpec` hold with it, for the result is
  computed at the second submission.
* `told` is read in one step, where the code reads state and flags one after another.

### TradeFlow

`player` is the game server's object of a role: its state, the number of its trade, its
pocket, the timestamp of its writes and which session it is. `row` is the pocket in table
`inventory` with its timestamp; `put` and `get` are the game server's calls to gamedbd,
`trans` the Transactions with theirs, `toGS` and `toDS` the messages between the other two. Each
message handler and callback is one action named after it; `for` of a write says who waits
for it: a trade, a logout (`Off`) or nobody (the write timer, or a call that timed out but
may still be executed).

Abstractions:

* The desk is one step (`Confirm` divides the goods anew), `TradeDesk` has it in detail. A
  pocket is a set of different goods; the sums that `TradeSave` compares are then the number
  of holders of each good. `Update` is one step; its races are in `TradeDesk` (finding 4).
* Messages are sets without order: the game server handles those of gdeliveryd with
  two threads, gdeliveryd with three.
* A time limit may pass whenever the state has one, and so does a call's: each passing is a
  fault. Init never expires: the agreement or refusal comes within the write's 30 s and
  a save ends after 20, its limit is 300 s.
* Reading a role at login is one step, and so are the stages of a logout after its write.
  `RoleLogout` is the end of a session for gdeliveryd, by whatever message.
* What a role picks up or drops during a trade is kept apart in the code (`_trade_obj`'s
  backpack, `bCanDrop`) and left out; so are faction trades and two Transactions of one number.
* `MaxUpset` bounds attacks, lost connections and timer saves together, `MaxFault` everything
  that fails, is late or expires.

`DeskHolds` and `OneOwner` have conditions because the code needs them. A role whose trade
does not end within 10 s is dropped and may log in while its save, which has up to 20 s, is open; or it
comes back while its earlier session's agreement, refusal or write is on its way (`back`). A save may be executed by
gamedbd after gdeliveryd has given it up and reported an unmodified pocket (`late`). In each case
a role may use a pocket that the table then contradicts; TLC finds it when the condition is dropped. The repository says
nothing to the contrary, so these are conditions and not findings. Two more behaviours the model shows:

* A refusal that is handled before the other role's agreement destroys the Transaction
  without `OnDestroy` being set. If the agreement comes after the release it finds nothing, and
  its role stays in PLAYER_TRADE, which has no limit, until it is attacked or leaves. Hence
  the condition `r \in agreed` in `EndTold`.
* A `GTradeEnd` of an old trade drops a role that waits in a new one
  (`playertrade.cpp:497`), without writing it. `OneOwner` shows that its goods stay right.

### RoleNames

The tables are variables of their own names: `unamerole` and `uidrole` of
uniquenamed, `base`, `rolename`, `user.rolelist` (`rolelist`) and `waitdel` of the
gamedbd of each zone. `call` has the creations and changes of name under way: at
uniquenamed, back, at gamedbd, back; `waiting` is false when gdeliveryd has given
the call up, after which its answer is dropped. A handler of uniquenamed or gamedbd
is one WDB transaction and therefore one step (`PreCreateRole`, `PrePlayerRename`,
`DBCreateRole`, `DBPlayerRename`, `DBDeleteRole`, `PostCreateRole`,
`PostPlayerRename`, `PostDeleteRole`), and so is each answer or timeout in
gdeliveryd (`...Client`, `...OnTimeout`). `notice` has the posts on their way,
`unanswered` the `PostCreateRole` calls that gdeliveryd will repeat.

Abstractions:

* A role id is `logicuid + slot`, here the pair of account and slot. For an account of
  `OldUser` the logicuid is its user id; this matters where `DBDeleteRole` finds no role
  and looks for the account by the id.
* Pockets, occupation, referrer and the like are left out: a write they make fail
  is a write that may fail (`DBCreateRole` and `DBPlayerRename` may always do so).
* `Settled`: a marked role is deleted a week later (`accessdb.cpp:2515`), by when all
  earlier messages about the role have come. Deletions of the same role by the
  announcement and by a login may still overlap, and a role may be unmarked or
  created anew in between.
* Messages on their way are a set; two equal posts, one of them a repetition, are told
  apart by `copy`. `PostPlayerRename` and `PostDeleteRole` are sent once.
* Slow answers, losses and crashes are bounded by the constants `MaxPreTimeout`,
  `MaxDBTimeout`, `MaxResend`, `MaxLost`, `MaxCrash`; `MaxRequest` and `MaxExpiry` bound
  what players ask for. A repetition of a post that was lost is free of charge.
* A crash is one of gdeliveryd, whose calls are in memory. uniquenamed and gamedbd do
  not lose what they wrote; a restart from an older checkpoint is not modelled.
* A new logicuid never fails to be allocated otherwise than for want of slots; names of
  factions and families, `MoveRoleCreate` and the transformation of names are left out.

`NameUnique` has the conditions `WritesInTime` and `PostsInTime` because the code needs
them. TLC finds a name in two zones within seconds when one write may time out or one post
may be answered late (set `MaxDBTimeout` or `MaxResend` to 1 and drop the condition): the
post that frees the name overtakes the write that takes it. `RowsAgree` needs neither.

`Settles` says that every reservation ends: the name is confirmed, or freed, or gamedbd answers
that the slot has a role. In the last case (ERR_DUPLICATE_ROLEID) gdeliveryd confirms the
name of the role in the slot and forgets the one it had reserved
(`gdeliveryd/dbcreaterole.hrp:68`), which may stay reserved for ever. Two ways lead there, and `names_live` has
both. A write that timed out: its slot is given again while the late write fills it. And a post that was only slow:
it freed name and slot, the slot was given to the next role, the repeated post frees it
again, and the creation after that is given the slot of a live role; no write is late in this.
A reservation that is answered too late, one whose
gdeliveryd crashes and a change of name whose post is lost leave the name reserved for ever
too, because uniquenamed refuses a reserved name whatever its age
(`uniquenamed/precreaterole.hrp:46`); `names_live` has none of these. The repository says
nothing to the contrary, so these are limits of the properties and not findings.

## 3. The runs

Deadlock is not checked: every instance stops at its bounds, when all handlers are
done, when the desk is released or when no more crashes are left.

| Run | Instance | Checks | Shows |
|---|---|---|---|
| `txn` | 2 tables, 2 threads, 1 checkpoint caller, 1 key, 1 value besides none, each table up to 2 times in a thread's vector, 1 transaction a thread and 1 checkpoint | `TypeOK`, `UndoOwned`, `LocksHeld`, `OrderedWait`, `NoWaitCycle`, `AtomicSpec` | nobody waits in a circle; a table collected twice does no more than `LocksHeld`, `UndoOwned` and `AtomicStore` (with `Disturb`) allow (1.1 million states) |
| `txn_live` | 2 tables, 2 threads with 1 transaction each, tables up to 2 times, 1 checkpoint caller, no values, with fairness | `Completes` | handlers that lock end, checkpoints return |
| `txn_diskerr` | 1 table, 2 threads | `NoOrphanLock`: violated | finding 1 |
| `log` | 2 tables of one page, checkpointed before; 2 records a log, 3 logs, 2 checkpoints, 2 crashes | `TypeOK`, `RotationInterrupted`, `Coherent`, `CrashSafe` | a restart serves one instant; the cache agrees with the files on clean pages; `WdbLog` implements `CheckpointStore` |
| `log_live` | 2 new tables of two pages, 1 record a log, 1 checkpoint, 1 crash, with fairness | `Coherent`, `Redone`, `Completes` | a redo brings each table it commits to the record, also after a crash between two pages, and leaves the others alone; starts, redos and checkpoints end |
| `log_fresh` | 2 new tables, 1 crash | `RecoversFromLogs`: violated | finding 2 |
| `log_disk` | 1 table of two pages, prepare may fail | `NoLostPage`: violated | finding 3 |
| `trade` | 3 goods of which one is bound, sums 0 and 1, pockets of one slot and one coin, 2 threads, with fairness | `TypeOK`, `ResultFresh`, `Conserved`, `SavedOnce`, `BarterSpec`, `Closes` | what is saved is what was submitted, once; `TradeDesk` implements `Barter` with saves that fail, are late or never sent; trades that are confirmed, discarded or destroyed are released |
| `trade_told` | 1 good, 1 thread | `ModifiedTold`: violated | finding 4 |
| `flow` | 2 roles, 1 good, 2 trades, 2 logins; 1 attack, lost connection or timer save, 1 fault | `TypeOK`, `DeskHolds`, `OneOwner`, `EndTold` | a pocket is used by the world or by a desk; goods are neither copied nor lost; roles of a trade that is over are told |
| `names` | 2 zones, 2 names, 1 old account of 2 slots, 2 calls, 3 requests, 2 deletions; 1 late reservation, 1 loss of any post, 1 crash | `NameUnique`, `RowsAgree`, `RegistrySpec` | a name is one role's; `RoleNames` implements `NameRegistry` |
| `names_live` | 1 zone, 2 names, 1 account of 1 slot, 2 calls, 3 requests; 1 write that times out, 1 post answered late, 1 lost, with fairness | `TypeOK`, `RowsAgree`, `Settles` | the rows agree after rollbacks; every reservation is decided, or answered that its slot is in use |

### Why the bounds are enough

* Two handlers and a checkpoint caller on two tables have every pairwise order of lock,
  undo and snapshot loops, and can wait in a circle of two. Larger circles cannot be if each
  agent waits for a table above those it holds, and `OrderedWait` is proved for any number of
  tables and agents. Rows of different keys do not touch each other in the code, so one key
  is enough. The row has a value or none, and the first replaced of these is told from later ones,
  since every write between the two changes it. A table can be at most twice in a vector here, left by
  an early handler or named twice by one; a third visit finds what the second does. Values and repetitions are parameters of the proofs.
  A second transaction that inherits a table, or is disturbed, is the other thread's; for the same reason `txn_live`
  has one transaction a thread (with two it took four minutes, and passed).
* Recovery takes one record: two checkpoints give a record before and one after a crash,
  two crashes one in the redo of the other. Two records a log make a log fill within the
  run, and the start with any number of records in it gives the full log at once. With two
  tables a crash falls between tables (`log`), with two pages within one
  (`log_live`, one checkpoint and one crash: the log is full after its only record, so a
  start meets a full one too); the magic page, the one written last, is among the pages of
  each. One table of two pages through two checkpoints and two crashes was run once for
  `CrashSafe` and shows the same.
* A trade has two traders. Two threads are what a discard needs to race a confirmation; a
  third could only repeat one of them, since the first to get `locker_self` moves the state
  on. Pockets of one slot make trades fail for room, two coins above `MoneyLimit` for money,
  and two goods that may be traded make an exchange of one for the other possible.
* Two roles are the traders of both trades, at once or one after the other, which is what an old
  message needs to meet a new trade; a third role would only leave one of the two idle. One good
  is enough to be copied or lost, since each good is followed by itself. A session is ended and
  begun again once for each role. One upset and one fault are combined in every order; two goods
  (5.6 million states) and two faults (8.5 million) were run once and show the same.
* A name can be in two zones only if two calls or a call and a deletion race for it, so two
  zones, two names and two calls are enough; three requests let a name be freed by the first
  and given again while the second is under way. Two slots let `LowestFree` choose, one slot
  makes the account full. Two deletions are the announcement and the login racing. For
  other bounds there are the proofs. `names_live` follows reservations to their end: three requests are one
  whose post frees a slot, one that is given it, and one that is given it again after the
  post is repeated. A slot is freed and given across zones as it is within one, but only in its
  zone does gamedbd find it in use, so one zone is the worst case for `Settles`.

Each checked property has a mutant in the module, an operator named after the
definition it stands in for and marked "Mutant", under which the run finds the
property violated.

### Fairness

* `WdbTxn`: weak fairness of a thread's own loops and of the end of a handler's block,
  and of the checkpoint's steps. That is a scheduler that runs threads and handlers that
  return. No fairness of mutexes is needed (weak fairness suffices), since a bounded
  number of transactions competes.
* `WdbLog`: a stopped server is started again, and its threads run.
* `TradeDesk`: pool threads and the timer run, unanswered calls time out, and Null, whose
  limit is 0, expires. Nothing is assumed of players or gamedbd. The limits of the
  other states give no fairness: each renewed offer or repeated confirmation starts them
  again.
* `RoleNames`: each daemon serves the calls it has and gdeliveryd handles the answers; a post
  on its way is served, a lost `PostCreateRole` is sent again. A call that is not answered is
  not needed to time out, since every call is served in the end. Deletions and requests of
  players have no fairness.

### Findings

1. `txn_diskerr`: after an I/O error in a rollback a table stays locked for good by a
   thread without a transaction. The message says "PROGRAM ABORT!"; the `abort()` is
   commented out (`storage/storagewdb.h:246`).
2. `log_fresh`: a crash in the first checkpoint of a new installation; `redo` passes over
   the tables it did not reach, and tables of two instants are served (`common/db.h:2099`).
3. `log_disk`: a failed prepare leaves pages marked clean that are in no file
   (`storage/storagewdb.h:632`); here too the `abort()` is commented out (`:740`).
4. `trade_told`: a confirmation between the timer's report and the release is saved while
   the game server is told that nothing changed (`gdeliveryd/trade.cpp:298`).

## 4. The proofs

`WdbTxn_proofs` proves, for every number of tables, threads, checkpoint callers, keys
and values and from the named assumptions of `WdbTxn` only:

| Theorem | Statement |
|---|---|
| `Invariance` | `Spec => []IInv` |
| `TypeCorrect` | `Spec => []TypeOK` |
| `LocksAreHeld` | `Spec => []LocksHeld` |
| `UndoIsOwned` | `Spec => []UndoOwned` |
| `OrderedWaits` | `Spec => []OrderedWait` |
| `NoCircle` | `Spec => []NoWaitCycle` |
| `ImplementsAtomicStore` | `Spec => AtomicSpec` |

None of the properties is inductive by itself. `OrderedWait` needs the loops to go
upwards: what an agent that locks has passed lies below what it has to do. `LocksHeld`
needs to know how many visits of each table a loop has made in each phase (`ThreadHeld`,
`CkHeld`), that a thread whose flag `locked`
is set is in a phase where it may be, and that one checkpoint at most runs. `UndoOwned`
needs `LocksHeld`: what the step of one thread leaves in an undo log must be its own, and a
second visit may only empty one. `IInv` is the conjunction of `TypeOK`, `LocksHeld`, `UndoOwned` and
these facts about loops. The proof has a lemma for types, one for locks and loops and one for the
undo logs, each with a step per action, and the temporal step at the end.
The lemma `LowestInSet` (a non-empty set of tables has a lowest one) uses
`WellFoundedInduction` only.

`NoCircle` is about circles of any length: of the agents in one, take the one that waits
for the highest table; whoever holds that table waits for a higher one, by `OrderedWait`.

`ImplementsAtomicStore` adds to `IInv` that one checkpoint at most is under way
(`OneCheckpoint`) and shows for each step which step of `AtomicStore` it is. `Committed`, the
permanent rows, are those stored, with the undo log of an undecided or cancelled transaction applied.
The destructor of a transaction that holds its tables (`Release`) is the commit or, when
`cancel` is set, the abort. From then on the first visit of a table (`UnlockFirst`)
is only its return. A later visit (`UnlockAgain`) changes nothing if the table is free or the
checkpoint's, whose undo log is empty by `UndoOwned`. If another thread holds it, it is `Disturb`: with
`cancel` the rows become the permanent ones, without it they are made permanent; if that thread's own outcome
is settled, both are the same rows, and it is these that change. Only tables collected several times
are visited again, and `twice` has them.
The checkpoint takes its image when it has locked
all tables (`CkLocked`); the copy of a table (`CkSnapshot`) is again only the table's
return, since the image is the copied tables together with the rows, as they stand, of those
still to be copied, and these are locked by the checkpoint.

`WdbLog_proofs` proves, for every number of tables, pages, values, records a log, logs,
checkpoints and crashes, from `SizesAssumption` and `PagesAssumption` of `WdbLog`:

| Theorem | Statement |
|---|---|
| `Invariance` | `(Spec => []IInv) /\ (FreshSpec => []IInv)` |
| `TypeCorrect` | `[]TypeOK`, from both |
| `CacheCoherent` | `[]Coherent`, from both |
| `RedoIsComplete` | `Redone`, from both |
| `CheckpointedInvariance` | `Spec => []CheckpointedInv` |
| `LatestLogIsTaken` | `Spec => []RotationInterrupted` |
| `ImplementsStore` | `Spec => CrashSafe` |

`Coherent` says what a clean page has in its file; to keep it one has to know, in each phase,
what memory, the copies, the record and the files have to do with each other. `CopiesFilled`:
a copy of a table includes its magic page if it has any page. `InMemory`: what is neither
changed nor copied. `InRecord`: the record that is prepared equals the copies, off the tables
still `todo`. `InFiles`: tables the commit loop has passed have the record's pages, in a redo
every page is as loaded or as in the record. `IInv` is these and the types, and needs nothing of how logs are
named, so it holds for new installations too. What differs for those is which log a start
takes; `IdsInv` says for an installation that has been checkpointed which log each data file names
in each phase, and with it `RotationInterrupted` is inductive. `ImplementsStore` uses both:
while the server serves, the durable state of `CheckpointStore` is what a start now would
recover, and it changes only when the record is marked PREPARED. The new installation, which
does not implement it, is finding 2.

`TradeDesk_proofs` proves, for every set of goods, sums, limits and pool threads, from
`TradersAssumption`, `GoodsAssumption`, `MoneyAssumption` and `NoCallAssumption` (the mark for a call not
made is not a call):

| Theorem | Statement |
|---|---|
| `Invariance` | `Spec => []IInv` |
| `TypeCorrect` | `Spec => []TypeOK` |
| `ResultsAreFresh` | `Spec => []ResultFresh` |
| `NothingIsLost` | `Spec => []Conserved` |
| `IsSavedOnce` | `Spec => []SavedOnce` |
| `ImplementsBarter` | `Spec => BarterSpec` |

`SavedOnce` follows from `OneEnds`: a handler that moved the state out of the early ones is the only
one with anything left to do or with a call on record. For `ImplementsBarter` what is sent to
gamedbd must be what the abstract trade yields of the pockets in the table, also when the
answer is late and the object is gone: `Outcome` says that of the continuation and of the call,
`ResultFresh` of the result they were made from, `TradersInStep` of the two `Trader` objects.

`TradeFlow_proofs` proves, for every set of roles and goods and any number of trades, logins, upsets
and faults, from `TradeBounds` and `NoTradeAssumption`:

| Theorem | Statement |
|---|---|
| `Invariance` | `Spec => []IInv` |
| `TypeCorrect` | `Spec => []TypeOK` |
| `DesksHold` | `Spec => []DeskHolds` |
| `EndsAreTold` | `Spec => []EndTold` |
| `OneOwnerEach` | `Spec => []OneOwner` |

The invariant has layers, each of which needs those before it.
`Desks`: what the fields of a Transaction say of each other (a Transaction that is open or
modified has both roles joined, whoever joined has agreed, a save is awaited in Confirm and Init
only), and that the joined are in `TraderMap`. `Talk`: a role answers a trade once, so it
waits, its answer is on its way, or gdeliveryd has counted it, and never two of these; while a
start is on its way nobody has heard of the trade; the end is told of released trades only,
and a pocket is read again only for roles that had agreed. `Held`: a role that has joined, or
whose agreement is on its way to a live Transaction, is in that trade on the game server,
dropped, or back too early; `DeskHolds` is `Held` for open desks. `EndTold` is
inductive with these.

`Pockets` holds while `Timely`. The heart of it is that a pocket that is *away* (its role is in a trade
or being read after one, is in `TraderMap`, or has an agreement on its way) has no write that
gamedbd would still accept, and nothing in it is used up. A role goes away only on the answer
to its own last write, whose timestamp is then the row's, so every other write is too old.
A role in the world has the row less what it has used up, and a pending write takes away only
what is used up, the later the more, so writes in any order only drop goods that are gone.
A save redistributes goods among two pockets that are away, and since gamedbd counts every
good in both before and after, each keeps one owner. On return to the world a role either was
never changed (`Unsaved`) or is read again (`ReadBack`).

The proof first says what each action of the model comes to in terms of the fields the invariant
speaks of (`Moves`, `Answers`, `Finishes`, `Works`, `Releases`, `Puts` and the like; lemma `Steps`), so that
the layers have one case for each of these instead of one for each handler.

`RoleNames_proofs` proves, for every number of zones, accounts, slots, names and calls and all
bounds of requests and faults, from `NamesAssumption`, `NoRoleAssumption` and `BoundsAssumption`:

| Theorem | Statement |
|---|---|
| `TypeCorrect` | `Spec => []TypeOK` |
| `RowsAlwaysAgree` | `Spec => []RowsAgree` |
| `Invariance` | `Spec => []IInv` |
| `NamesAreUnique` | `Spec => []NameUnique` |
| `ImplementsRegistry` | `MaxDBTimeout = 0, MaxResend = 0` give `Spec => RegistrySpec` |

Types need to know that a call beyond its reservation has a role (`CallHasRole`). `RowsAgree`
is inductive with the types. `NameUnique` is not: a second zone may be about to write the
name. The argument counts *claims* on a name: a row of `rolename` in some zone; a call that has
reserved the name and is not yet written, or has failed and not yet said so; a deletion that
is executed and not yet told; a post on its way, or to be repeated, that will free the name.
`OneClaim(n)` says that a name has one claim at most and none while uniquenamed has it free.
Each step passes a claim on (a call to the row it writes or to the post it sends, a row to the
deletion that removed it, that to its post), drops it, or takes it when there is none
(a reservation, which needs the name free). A timed-out write would leave two claims, the
call and the post that frees the name, and so would a post that is repeated while it is on
its way; hence the condition `InTime` in `IInv`. A name in two zones would be two claims.
`ImplementsRegistry` maps a name to the set of zone and role pairs whose row it has; a creation
or change of name is a `Take`, since the call's claim excludes any other row, and a
deletion a `Release`. It assumes what makes `InTime` hold in all states.

Checked by TLC only: liveness (`Completes`, `Closes`, `Settles`), which is out of the prover's reach, and
the four violated properties. Every invariant and every refinement that a run checks has
a theorem.

## 5. Not covered

See "components". The reasons in short: the world server is too large and is a simulation;
glinkd, logservice, the operator console and the network library are I/O; most handlers of
gamedbd are instances of the transaction `WdbTxn` models; the B-tree inside a data file is
a sequential algorithm on byte layouts; `db_win32.h` is the storage engine again for
another system; the sale of points (`gamedbd/transman.cpp`) is not in use, since gamedbd never
initialises it and gdeliveryd's handlers for it are empty. The managers of gdeliveryd (auctions, mail, battles) are each of the kind
"cache of rows with timers" and come after the plan below.

## 6. The plan

Done: `AtomicStore`, `WdbTxn`, `CheckpointStore`, `WdbLog`, `Barter`, `TradeDesk`, `TradeFlow`,
`NameRegistry`, `RoleNames`; proofs of every invariant, of the action property `Redone` and of the four refinements.

Next, in this order:

1. `TradeFlow` with liveness: under the fairness of the daemons every trade state of the
   game server ends, but for the agreement that comes too late.
2. `PageCache`: cache with eviction under a running checkpoint (`PageHash`), composed with the
   pages of `WdbLog`; variants of `WdbLog` for failures of commit and for power failure.
3. Users and logins of gdeliveryd (`UserContainer`).
4. The stock exchange and the auctions of gdeliveryd: orders in memory against the rows of
   gamedbd, with timers that expire them.
5. `RoleNames` composed with restarts of uniquenamed and gamedbd from their last checkpoint
   (`CheckpointStore`), and the roles that move between zones.

Theorems to prove next: that the model with failures (`DiskSpec` of `WdbTxn` and `WdbLog`) keeps what it does
keep, `TypeOK`, `LocksHeld` and `Coherent` off the pages of a failed prepare; and that a new installation
implements `CheckpointStore` from its first completed checkpoint on.
