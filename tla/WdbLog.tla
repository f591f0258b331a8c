------------------------------- MODULE WdbLog -------------------------------
(***************************************************************************)
(* Checkpoints and crash recovery of the WDB storage (GlobalLogger,          *)
(* PageHash and DBCollection in cnet/common/db.h).  A checkpoint copies the  *)
(* changed pages of all tables (snapshot), writes the copies to a record of  *)
(* the redo log (prepare), then to the data file of one table after another  *)
(* (commit).  A process that dies in between leaves the files as they are;   *)
(* the next one reads them, and repeats the commit if the record is marked   *)
(* prepared.                                                                 *)
(*                                                                           *)
(* Table numbers are ranks of the table names, the order of loginfo_vec.     *)
(* Page 0, the magic page, holds besides its contents the logger_id of the   *)
(* log the table was last committed from.  A write of a page is atomic and   *)
(* survives the process (a kill, not a power failure).                       *)
(***************************************************************************)
EXTENDS Integers, FiniteSets

CONSTANTS
  NTable,         \* number of tables
  Page, Magic,    \* pages of a table; Magic is page 0
  Value, NoValue, \* contents of a page; no copy of a page
  NoState,        \* no image, for the refinement
  RecMax,         \* logger_rec_max: records of one log file
  MaxLog,         \* bound: log files ever opened
  MaxCheckpoint,  \* bound: checkpoints
  MaxCrash        \* bound: crashes

ASSUME SizesAssumption ==
  NTable \in Nat \ {0} /\ RecMax \in Nat \ {0} /\ MaxLog \in Nat \ {0}
    /\ MaxCheckpoint \in Nat /\ MaxCrash \in Nat
ASSUME PagesAssumption == Magic \in Page /\ NoValue \notin Value

Table == 1..NTable
LogId == 1..MaxLog        \* timestamps in the names of log files; 0 is none
Content == [Page -> Value]
Copy == [Page -> Value \cup {NoValue}]
NoCopy == [p \in Page |-> NoValue]
Pages(c) == {p \in Page : c[p] # NoValue}

\* Contents c with the pages of copy i put in place.
Overlay(c, i) == [p \in Page |-> IF i[p] = NoValue THEN c[p] ELSE i[p]]

VARIABLES
  file,        \* data files: contents and the logger_id in the magic page
  log,         \* log files: logger_rec_cur and the record it points at
  live,        \* pages as the cache has them
  dirty,       \* pages changed since the last snapshot
  snap,        \* page copies of the running checkpoint
  logger_id,   \* logger_id in the cached magic page
  log_id,      \* identity of the open log file; 0 when log_file is NULL
  need_rotate,
  pc,          \* what the process does
  redo,        \* the commit loop runs in redo, at startup
  todo, left,  \* tables of the running loop; pages of the current table
  checkpoints, crashes   \* counters for the bounds

mem == <<live, dirty, snap, logger_id, log_id, need_rotate, redo, todo, left>>
vars == <<file, log, mem, pc, checkpoints, crashes>>

NoCopies == [t \in Table |-> NoCopy]
NoPages == [t \in Table |-> {}]
NoIds == [t \in Table |-> 0]
NoRec == [result |-> "null", image |-> NoCopies]
NewLog == [cur |-> 0, rec |-> NoRec]

Highest(S) == CHOOSE x \in S : \A y \in S : y <= x
NextTable == CHOOSE t \in todo : \A u \in todo : t <= u
LastId == Highest({file[t].id : t \in Table})
Rec == log[log_id].rec

\* A stopped server whose tables have all been checkpointed before.
InitFiles ==
  /\ file \in [Table -> [page : Content, id : {1}]]
  /\ \E n \in 0..RecMax : log = [i \in LogId |-> [NewLog EXCEPT !.cur = IF i = 1 THEN n ELSE 0]]

\* A new installation: no table has been checkpointed.
FreshFiles ==
  /\ file \in [Table -> [page : Content, id : {0}]]
  /\ log = [i \in LogId |-> NewLog]

\* No process runs; its memory has no value that matters.
Stopped ==
  /\ live = NoCopies /\ dirty = NoPages /\ snap = NoCopies /\ logger_id = NoIds
  /\ log_id = 0 /\ need_rotate = FALSE /\ redo = FALSE /\ todo = {} /\ left = {}
  /\ pc = "down" /\ checkpoints = 0 /\ crashes = 0

Init == InitFiles /\ Stopped
FreshInit == FreshFiles /\ Stopped

----------------------------------------------------------------------------
(* Startup.                                                                *)

\* Table::open on every table: the cache takes the pages of the data file as
\* they are needed; the magic page counts as changed.
Load ==
  /\ live' = [t \in Table |-> file[t].page]
  /\ dirty' = [t \in Table |-> {Magic}]
  /\ snap' = NoCopies
  /\ left' = {}

\* load_log_file, then the test of the record at logger_rec_cur.  When the
\* log is full that record lies one past the page: what it reads are the
\* first bytes of the next page in memory, and they never say PREPARED.
OpenLog(i) ==
  /\ log_id' = i
  /\ \/ /\ log[i].cur >= RecMax
        /\ \E n \in {log[i].cur, RecMax + 1} : log' = [log EXCEPT ![i].cur = n]
        /\ pc' = "ready" /\ redo' = FALSE /\ todo' = {}
     \/ /\ log[i].cur < RecMax /\ log[i].rec.result = "prepared"
        /\ pc' = "committing" /\ redo' = TRUE /\ todo' = Table
        /\ UNCHANGED log
     \/ /\ log[i].cur < RecMax /\ log[i].rec.result # "prepared"
        /\ log' = IF log[i].rec.result = "begun"
                  THEN [log EXCEPT ![i] = [cur |-> @.cur + 1, rec |-> NoRec]] ELSE log
        /\ pc' = "ready" /\ redo' = FALSE /\ todo' = {}

\* DBCollection::init with integrity_verify.
Start ==
  /\ pc = "down"
  /\ Load
  /\ IF LastId = 0
     THEN /\ log_id' = 1 /\ log' = [log EXCEPT ![1] = NewLog]
          /\ logger_id' = NoIds
          /\ need_rotate' = FALSE
          /\ pc' = "ready" /\ redo' = FALSE /\ todo' = {}
     ELSE /\ logger_id' = [t \in Table |-> IF file[t].id = 0 THEN 0 ELSE LastId]
          /\ need_rotate' = (\E t \in Table : file[t].id = 0)
          /\ OpenLog(LastId)
  /\ UNCHANGED <<file, checkpoints, crashes>>

----------------------------------------------------------------------------
(* The server runs; a checkpoint starts.                                   *)

Serving == pc # "down" /\ ~redo

\* A handler changes a page.
Write(t, p, v) ==
  /\ Serving
  /\ v # live[t][p]
  /\ live' = [live EXCEPT ![t][p] = v]
  /\ dirty' = [dirty EXCEPT ![t] = @ \cup {p}]
  /\ UNCHANGED <<file, log, snap, logger_id, log_id, need_rotate, pc, redo, todo, left,
                 checkpoints, crashes>>

\* snapshot_create of every table, under all the tables' locks: the changed
\* pages are copied, with the magic page if there are any.
SnapshotCreate ==
  /\ pc = "ready" /\ checkpoints < MaxCheckpoint
  /\ snap' = [t \in Table |->
       [p \in Page |-> IF p \in dirty[t] \/ (p = Magic /\ dirty[t] # {})
                       THEN live[t][p] ELSE NoValue]]
  /\ dirty' = [t \in Table |-> {}]
  /\ pc' = "snapped"
  /\ checkpoints' = checkpoints + 1
  /\ UNCHANGED <<file, log, live, logger_id, log_id, need_rotate, redo, todo, left, crashes>>

\* init_log_file takes a name later than any in use (time(NULL), or one
\* second after the open log).  A file of that name an interrupted rotation
\* left is initialised again.
NewId == Highest({log_id} \cup {file[t].id : t \in Table}) + 1

\* The log in which the record goes, and its number there.
BeginRec(i, n) ==
  /\ log' = [log EXCEPT ![i] = [cur |-> n, rec |-> [NoRec EXCEPT !.result = "begun"]]]
  /\ log_id' = i
  /\ pc' = "preparing"
  /\ todo' = Table

\* Mutant: the records of a log file are not counted.
MustRotateUncounted == need_rotate

MustRotate == need_rotate \/ log[log_id].cur >= RecMax

\* Start of prepare: logger_check_rotate, which may rotate for the number of
\* log pages too, and logger_first_idx of the record.  Without a log file, after
\* a redo, what it tests are counters nobody has initialised.
PrepareBegin ==
  /\ pc = "snapped"
  /\ \/ log_id # 0 /\ ~MustRotate /\ BeginRec(log_id, log[log_id].cur)
     \/ NewId \in LogId /\ BeginRec(NewId, 0)
  /\ UNCHANGED <<file, live, dirty, snap, logger_id, need_rotate, redo, left, checkpoints, crashes>>

\* Mutant: the pages are saved as they are now, not as they were copied.
PrepareTableLive ==
  /\ pc = "preparing" /\ todo # {}
  /\ log' = [log EXCEPT ![log_id].rec.image[NextTable] =
       [p \in Page |-> IF snap[NextTable][p] = NoValue THEN NoValue ELSE live[NextTable][p]]]
  /\ todo' = todo \ {NextTable}
  /\ UNCHANGED <<file, live, dirty, snap, logger_id, log_id, need_rotate, pc, redo, left,
                 checkpoints, crashes>>

\* LogInfo::prepare: the copies of one table are in the log.
PrepareTable ==
  /\ pc = "preparing" /\ todo # {}
  /\ log' = [log EXCEPT ![log_id].rec.image[NextTable] = snap[NextTable]]
  /\ todo' = todo \ {NextTable}
  /\ UNCHANGED <<file, live, dirty, snap, logger_id, log_id, need_rotate, pc, redo, left,
                 checkpoints, crashes>>

PrepareMark ==
  /\ pc = "preparing" /\ todo = {}
  /\ log' = [log EXCEPT ![log_id].rec.result = "prepared"]
  /\ pc' = "committing"
  /\ todo' = Table
  /\ UNCHANGED <<file, live, dirty, snap, logger_id, log_id, need_rotate, redo, left,
                 checkpoints, crashes>>

----------------------------------------------------------------------------
(* LogInfo::commit on one table after another, in commit and in redo.      *)

\* redo passes over tables that were never committed.
CommitSkip ==
  /\ pc = "committing" /\ todo # {} /\ redo
  /\ logger_id[NextTable] = 0
  /\ todo' = todo \ {NextTable}
  /\ UNCHANGED <<file, log, live, dirty, snap, logger_id, log_id, need_rotate, pc, redo, left,
                 checkpoints, crashes>>

\* Mutant: a table without changed pages keeps its logger_id.
CommitOpenUnchanged ==
  /\ pc = "committing" /\ todo # {}
  /\ redo => logger_id[NextTable] # 0
  /\ IF Pages(Rec.image[NextTable]) = {}
     THEN todo' = todo \ {NextTable} /\ UNCHANGED <<file, logger_id, pc, left>>
     ELSE /\ pc' = "restoring"
          /\ left' = Pages(Rec.image[NextTable]) \ {Magic}
          /\ file' = [file EXCEPT ![NextTable].id = log_id]
          /\ logger_id' = [logger_id EXCEPT ![NextTable] = log_id]
          /\ UNCHANGED todo
  /\ UNCHANGED <<log, live, dirty, snap, log_id, need_rotate, redo, checkpoints, crashes>>

\* The identity of the log goes to the data file first.
CommitOpen ==
  /\ pc = "committing" /\ todo # {}
  /\ redo => logger_id[NextTable] # 0
  /\ file' = [file EXCEPT ![NextTable].id = log_id]
  /\ logger_id' = [logger_id EXCEPT ![NextTable] = log_id]
  /\ IF Pages(Rec.image[NextTable]) = {}
     THEN todo' = todo \ {NextTable} /\ UNCHANGED <<pc, left>>
     ELSE /\ pc' = "restoring"
          /\ left' = Pages(Rec.image[NextTable]) \ {Magic}
          /\ UNCHANGED todo
  /\ UNCHANGED <<log, live, dirty, snap, log_id, need_rotate, redo, checkpoints, crashes>>

\* Mutant: restore_page does not advance.
CommitPageAgain(p) ==
  /\ pc = "restoring" /\ p \in left
  /\ file' = [file EXCEPT ![NextTable].page[p] = Rec.image[NextTable][p]]
  /\ UNCHANGED <<log, live, dirty, snap, logger_id, log_id, need_rotate, pc, redo, todo, left,
                 checkpoints, crashes>>

\* restore_page: the other pages, in the order of the hash buckets.
CommitPage(p) ==
  /\ pc = "restoring" /\ p \in left
  /\ file' = [file EXCEPT ![NextTable].page[p] = Rec.image[NextTable][p]]
  /\ left' = left \ {p}
  /\ UNCHANGED <<log, live, dirty, snap, logger_id, log_id, need_rotate, pc, redo, todo,
                 checkpoints, crashes>>

\* Mutant: the magic page does not wait for the others.
CommitMagicEarly ==
  /\ pc = "restoring"
  /\ file' = [file EXCEPT ![NextTable].page[Magic] = Rec.image[NextTable][Magic]]
  /\ todo' = todo \ {NextTable}
  /\ left' = {}
  /\ pc' = "committing"
  /\ UNCHANGED <<log, live, dirty, snap, logger_id, log_id, need_rotate, redo,
                 checkpoints, crashes>>

\* The magic page comes last.
CommitMagic ==
  /\ pc = "restoring" /\ left = {}
  /\ file' = [file EXCEPT ![NextTable].page[Magic] = Rec.image[NextTable][Magic]]
  /\ todo' = todo \ {NextTable}
  /\ pc' = "committing"
  /\ UNCHANGED <<log, live, dirty, snap, logger_id, log_id, need_rotate, redo, left,
                 checkpoints, crashes>>

Committed == [log EXCEPT ![log_id] = [cur |-> @.cur + 1, rec |-> NoRec]]

\* End of commit: the record is marked; checkpoint returns after releasing
\* the copies.
CommitMark ==
  /\ pc = "committing" /\ todo = {} /\ ~redo
  /\ log' = Committed
  /\ pc' = "releasing"
  /\ UNCHANGED <<file, live, dirty, snap, logger_id, log_id, need_rotate, redo, todo, left,
                 checkpoints, crashes>>

\* Mutant: pages become clean when their copies are released.
SnapshotReleaseCleans ==
  /\ pc = "releasing"
  /\ snap' = NoCopies
  /\ dirty' = NoPages
  /\ pc' = "ready"
  /\ UNCHANGED <<file, log, live, logger_id, log_id, need_rotate, redo, todo, left,
                 checkpoints, crashes>>

SnapshotRelease ==
  /\ pc = "releasing"
  /\ snap' = NoCopies
  /\ pc' = "ready"
  /\ UNCHANGED <<file, log, live, dirty, logger_id, log_id, need_rotate, redo, todo, left,
                 checkpoints, crashes>>

\* End of redo: the record is marked, then all is unloaded and loaded again;
\* the new GlobalLogger has no log file until its first rotation, and a key page
\* that is not initialised.
RedoMark ==
  /\ pc = "committing" /\ todo = {} /\ redo
  /\ log' = Committed
  /\ Load
  /\ logger_id' = [t \in Table |-> file[t].id]
  /\ log_id' = 0 /\ need_rotate' = FALSE
  /\ redo' = FALSE
  /\ pc' = "ready"
  /\ UNCHANGED <<file, todo, checkpoints, crashes>>

----------------------------------------------------------------------------
(* The process ends, or a checkpoint fails.                                *)

\* What is left of a process are its files.
Die ==
  /\ live' = NoCopies /\ dirty' = NoPages /\ snap' = NoCopies /\ logger_id' = NoIds
  /\ log_id' = 0 /\ need_rotate' = FALSE /\ redo' = FALSE /\ todo' = {} /\ left' = {}
  /\ pc' = "down"
  /\ UNCHANGED <<file, log, checkpoints>>

Crash ==
  /\ pc # "down" /\ crashes < MaxCrash
  /\ Die
  /\ crashes' = crashes + 1

\* The counters of the key page say that no rotation is due: prepare writes
\* through the null log_file, and the process dies before anything is written.
PrepareNoFile ==
  /\ pc = "snapped" /\ log_id = 0
  /\ Die
  /\ UNCHANGED crashes

\* A write or read of the log fails during prepare: checkpoint releases the
\* copies and returns false.
PrepareFail ==
  /\ pc = "preparing"
  /\ snap' = NoCopies
  /\ todo' = {}
  /\ pc' = "ready"
  /\ UNCHANGED <<file, log, live, dirty, logger_id, log_id, need_rotate, redo, left,
                 checkpoints, crashes>>

Recovery ==
  Start \/ CommitSkip \/ CommitOpen \/ (\E p \in Page : CommitPage(p)) \/ CommitMagic \/ RedoMark

Checkpoint ==
  \/ PrepareBegin \/ PrepareNoFile \/ PrepareTable \/ PrepareMark
  \/ CommitOpen \/ (\E p \in Page : CommitPage(p)) \/ CommitMagic
  \/ CommitMark \/ SnapshotRelease

Next ==
  \/ Recovery \/ SnapshotCreate \/ Checkpoint \/ Crash
  \/ \E t \in Table, p \in Page, v \in Value : Write(t, p, v)

Spec == Init /\ [][Next]_vars
FreshSpec == FreshInit /\ [][Next]_vars

\* A stopped server is started again, and its threads run.
FairSpec == FreshSpec /\ WF_vars(Recovery) /\ WF_vars(Checkpoint)

\* With disks that can fail while a checkpoint is prepared.
DiskSpec == Init /\ [][Next \/ PrepareFail]_vars
----------------------------------------------------------------------------
(* Properties.                                                             *)

Steps == {"down", "ready", "snapped", "preparing", "committing", "restoring", "releasing"}

\* Type of the state; a log file never gets more records than its first page
\* has room for, but for the one past the end a start may step over.
TypeOK ==
  /\ file \in [Table -> [page : Content, id : 0..MaxLog]]
  /\ log \in [LogId -> [cur : 0..RecMax + 1,
                        rec : [result : {"null", "begun", "prepared"}, image : [Table -> Copy]]]]
  /\ live \in [Table -> Copy]
  /\ dirty \in [Table -> SUBSET Page]
  /\ snap \in [Table -> Copy]
  /\ logger_id \in [Table -> 0..MaxLog]
  /\ log_id \in 0..MaxLog
  /\ need_rotate \in BOOLEAN
  /\ pc \in Steps /\ redo \in BOOLEAN
  /\ todo \in SUBSET Table /\ left \in SUBSET Page
  /\ checkpoints \in 0..MaxCheckpoint /\ crashes \in 0..MaxCrash

\* A page the cache could drop and read again, neither changed nor copied for
\* a checkpoint, is in the data file as handlers see it (Page::set_snapshot and
\* is_clean, db.h:461-486; unload and load after redo, db.h:2958-2962).
Coherent ==
  Serving => \A t \in Table, p \in Page :
    p \notin dirty[t] /\ snap[t][p] = NoValue => live[t][p] = file[t].page[p]

\* Data files name different logs only while the later log's first record is
\* prepared and not done with ("after logrotate, prepare succeed, but commit
\* fail", db.h:2041): a restart that takes the latest never loses a record.
RotationInterrupted ==
  (\E t \in Table : file[t].id # LastId) =>
     log[LastId].cur = 0 /\ log[LastId].rec.result = "prepared"

\* What a start would make of the files as they are.
Pending ==
  /\ LastId # 0
  /\ log[LastId].cur < RecMax
  /\ log[LastId].rec.result = "prepared"
Recovered ==
  [t \in Table |-> IF Pending /\ file[t].id # 0
                   THEN Overlay(file[t].page, log[LastId].rec.image[t])
                   ELSE file[t].page]

\* The instant the running checkpoint saves.
Image == [t \in Table |-> Overlay(file[t].page, snap[t])]

Phase ==
  IF ~Serving THEN "down"
  ELSE IF pc = "ready" THEN "up"
  ELSE IF pc \in {"snapped", "preparing"} THEN "taking"
  ELSE IF pc # "releasing" /\ LastId # log_id THEN "taking"
  ELSE "taken"

Store == INSTANCE CheckpointStore WITH
  State <- [Table -> Content],
  rows <- IF Serving THEN live ELSE Recovered,
  durable <- Recovered,
  image <- IF Phase \in {"taking", "taken"} THEN Image ELSE NoState,
  phase <- Phase

\* Wherever the process dies, in a checkpoint, in a rotation or in a redo, the
\* next one serves all tables as of the last checkpoint that returned, or as
\* of the interrupted one: never a mixture, never an earlier state.
CrashSafe == Store!Spec

\* A redo that ends has brought every table the interrupted checkpoint had begun
\* to commit to the record, all its pages, and left the others as it found them
\* (redo and LogInfo::commit, db.h:2091-2110, 1840-1860): each table is at one
\* instant, even where finding 2 leaves the tables at different ones.
Redone ==
  [][redo /\ pc' = "ready" =>
       \A t \in Table : file[t].page =
         IF logger_id[t] = 0 THEN live[t] ELSE Overlay(live[t], Rec.image[t])]_vars

\* A start ends with the server ready, and so does every checkpoint.
Completes == pc # "ready" ~> pc = "ready"

\* "The embedded WDB storage then recovers from its logs on the next start"
\* (RUNBOOK.md:193): a start that finds a prepared record brings every table
\* to it.
RecoversFromLogs ==
  Pending => Recovered = [t \in Table |-> Overlay(file[t].page, log[LastId].rec.image[t])]

\* A checkpoint that fails is said to end the program (storagewdb.h:739); if
\* it did, no server would run whose cache takes a page for saved that is not
\* in the data file.
NoLostPage == Coherent
=============================================================================
