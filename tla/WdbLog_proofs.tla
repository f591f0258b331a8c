--------------------------- MODULE WdbLog_proofs ---------------------------
(***************************************************************************)
(* Theorems about WdbLog, for any number of tables, pages, values, records  *)
(* of a log, checkpoints and crashes.                                       *)
(***************************************************************************)
EXTENDS WdbLog, TLAPS, WellFoundedInduction

----------------------------------------------------------------------------
(* The inductive invariant, for old and new installations.                 *)

\* A copy of a table has the magic page if it has any.
Filled(c) == Pages(c) # {} => Magic \in Pages(c)
CopiesFilled ==
  /\ \A i \in LogId, t \in Table : Filled(log[i].rec.image[t])
  /\ \A t \in Table : Filled(snap[t])

\* What the process has in memory in each of its steps.
InMemory ==
  /\ pc # "down" => live \in [Table -> Content]
  /\ redo => pc \in {"committing", "restoring"}
  /\ pc \in {"down", "ready"} \/ redo => snap = NoCopies
  /\ pc # "down" /\ ~redo => \A t \in Table, p \in Page :
       p \notin dirty[t] /\ snap[t][p] # NoValue => live[t][p] = snap[t][p]

\* The record that is being written or restored.
InRecord ==
  /\ pc \in {"preparing", "committing", "restoring"} =>
       /\ log_id \in LogId /\ log[log_id].cur < RecMax
       /\ Rec.result = IF pc = "preparing" THEN "begun" ELSE "prepared"
       /\ ~redo => \A t \in Table : (pc = "preparing" /\ t \in todo) \/ Rec.image[t] = snap[t]
  /\ pc = "restoring" =>
       /\ todo # {} /\ logger_id[NextTable] # 0
       /\ Pages(Rec.image[NextTable]) # {}
       /\ left \subseteq Pages(Rec.image[NextTable]) \ {Magic}

\* Tables the commit loop has passed, and those a redo passed over.
Stored(t, c) == \A p \in Pages(c) : file[t].page[p] = c[p]
InFiles ==
  /\ pc \in {"committing", "restoring"} =>
       \A t \in Table \ todo : (redo /\ logger_id[t] = 0) \/ Stored(t, Rec.image[t])
  /\ pc = "restoring" =>
       \A p \in Pages(Rec.image[NextTable]) \ ({Magic} \cup left) :
         file[NextTable].page[p] = Rec.image[NextTable][p]
  /\ pc = "releasing" => \A t \in Table : Stored(t, snap[t])
  /\ redo => \A t \in Table, p \in Page :
       \/ file[t].page[p] = live[t][p]
       \/ /\ logger_id[t] # 0 /\ p \in Pages(Rec.image[t])
          /\ file[t].page[p] = Rec.image[t][p]

IInv ==
  /\ TypeOK
  /\ CopiesFilled
  /\ InMemory
  /\ InRecord
  /\ InFiles
  /\ Coherent

----------------------------------------------------------------------------
(* What it takes besides for an installation that has been checkpointed.   *)

Agree == \A t \in Table : file[t].id = LastId
IdsInv ==
  /\ \A t \in Table : file[t].id # 0
  /\ pc = "restoring" => file[NextTable].id = log_id
  /\ redo => /\ log_id = LastId
             /\ \A t \in Table : logger_id[t] # 0
             /\ \A t \in Table \ todo : file[t].id = log_id
  /\ pc \in {"ready", "snapped", "releasing"} => Agree /\ ~Pending /\ (log_id # 0 => log_id = LastId)
  /\ pc = "preparing" => Agree /\ ~Pending /\ (log_id = LastId \/ (log_id > LastId /\ log[log_id].cur = 0))
  /\ pc \in {"committing", "restoring"} /\ ~redo =>
       /\ \A t \in Table : file[t].id <= log_id
       /\ \A t \in Table \ todo : file[t].id = log_id
       /\ (\A t \in Table : file[t].id = log_id) \/ log[log_id].cur = 0
       /\ LastId = log_id \/ (Agree /\ ~Pending)
  /\ RotationInterrupted

CheckpointedInv == IInv /\ IdsInv

----------------------------------------------------------------------------
(* Lowest tables and highest identities.                                   *)

\* A set of naturals that is not empty has a lowest member (WFMin on Nat).
LEMMA LowestNat ==
  ASSUME NEW S \in SUBSET Nat, S # {}
  PROVE  \E x \in S : \A y \in S : x <= y
<1>1. OpToRel(<, Nat) = {q \in Nat \X Nat : q[1] < q[2]}
  BY Zenon DEF OpToRel
<1>2. PICK x \in S : \A y \in S : ~ (<<y, x>> \in OpToRel(<, Nat))
  BY NatLessThanWellFounded, WFMin
<1>3. ASSUME NEW y \in S, y < x  PROVE FALSE
  <2>1. <<y, x>> \in Nat \X Nat
    OBVIOUS
  <2>2. <<y, x>>[1] < <<y, x>>[2]
    BY <1>3
  <2>3. <<y, x>> \in {q \in Nat \X Nat : q[1] < q[2]}
    BY Zenon, <2>1, <2>2
  <2>. QED  BY <1>1, <1>2, <2>3
<1>. QED  BY <1>3

\* The loop over the tables has a next one until it has passed all.
LEMMA NextInTodo ==
  ASSUME todo \in SUBSET Table, todo # {}
  PROVE  NextTable \in todo /\ NextTable \in Table
<1>1. todo \in SUBSET Nat
  BY SizesAssumption DEF Table
<1>2. \E t \in todo : \A u \in todo : t <= u
  BY <1>1, LowestNat
<1>. QED  BY <1>2 DEF NextTable

\* A set of naturals with a bound has a highest member: the lowest distance
\* from the bound.
LEMMA HighestInSet ==
  ASSUME NEW S \in SUBSET Nat, S # {}, NEW b \in Nat, \A x \in S : x <= b
  PROVE  Highest(S) \in S /\ \A y \in S : y <= Highest(S)
<1>. DEFINE D == {n \in Nat : \E x \in S : n = b - x}
<1>1. \A x \in S : b - x \in D
  OBVIOUS
<1>2. D \in SUBSET Nat /\ D # {}
  BY <1>1
<1>. HIDE DEF D
<1>3. PICK n \in D : \A k \in D : n <= k
  BY <1>2, LowestNat
<1>4. PICK x \in S : n = b - x
  BY <1>3 DEF D
<1>5. \A y \in S : y <= x
  <2>. SUFFICES ASSUME NEW y \in S  PROVE y <= x
    OBVIOUS
  <2>1. n <= b - y
    BY <1>1, <1>3
  <2>2. x \in Nat /\ y \in Nat
    OBVIOUS
  <2>. QED  BY <1>4, <2>1, <2>2
<1>6. \E h \in S : \A y \in S : y <= h
  BY <1>5
<1>. QED  BY <1>6, Zenon DEF Highest

FileRec == [page : Content, id : 0..MaxLog]
RecType == [result : {"null", "begun", "prepared"}, image : [Table -> Copy]]
LogRec == [cur : 0..RecMax + 1, rec : RecType]

LEMMA Typed ==
  ASSUME TypeOK
  PROVE  /\ file \in [Table -> FileRec]
         /\ \A t \in Table : file[t].page \in Content /\ file[t].id \in 0..MaxLog
         /\ log \in [LogId -> LogRec]
         /\ \A i \in LogId : log[i].cur \in 0..RecMax + 1 /\ log[i].rec \in RecType
         /\ live \in [Table -> Copy] /\ snap \in [Table -> Copy]
         /\ todo \in SUBSET Table /\ left \in SUBSET Page
         /\ logger_id \in [Table -> 0..MaxLog] /\ log_id \in 0..MaxLog
BY DEF TypeOK, FileRec, RecType, LogRec

\* The identity a start takes is that of some table and not below any.
Last(f) == Highest({f[t].id : t \in Table})

LEMMA LastFacts ==
  ASSUME NEW f \in [Table -> FileRec]
  PROVE  /\ Last(f) \in 0..MaxLog
         /\ \E t \in Table : f[t].id = Last(f)
         /\ \A t \in Table : f[t].id \in 0..MaxLog /\ f[t].id <= Last(f)
<1>. DEFINE S == {f[t].id : t \in Table}
<1>1. \A x \in S : x \in 0..MaxLog
  BY DEF FileRec
<1>2. 1 \in Table
  BY SizesAssumption DEF Table
<1>3. S # {} /\ S \in SUBSET Nat /\ \A x \in S : x <= MaxLog
  BY <1>1, <1>2, SizesAssumption
<1>4. MaxLog \in Nat
  BY SizesAssumption
<1>5. Highest(S) \in S /\ \A y \in S : y <= Highest(S)
  BY <1>3, <1>4, HighestInSet
<1>. QED  BY <1>1, <1>5 DEF Last

\* There is no other such identity.
LEMMA LastIs ==
  ASSUME NEW f \in [Table -> FileRec], NEW u \in Table, \A t \in Table : f[t].id <= f[u].id
  PROVE  Last(f) = f[u].id
<1>1. PICK v \in Table : f[v].id = Last(f)
  BY LastFacts
<1>2. Last(f) \in Nat /\ f[u].id \in Nat /\ f[u].id <= Last(f) /\ Last(f) <= f[u].id
  BY <1>1, LastFacts, SizesAssumption
<1>. QED  BY <1>2

LEMMA LastIdFacts ==
  ASSUME TypeOK
  PROVE  /\ LastId = Last(file) /\ LastId \in 0..MaxLog
         /\ \E t \in Table : file[t].id = LastId
         /\ \A t \in Table : file[t].id <= LastId
<1>1. file \in [Table -> FileRec] /\ LastId = Last(file)
  BY Typed DEF LastId, Last
<1>. QED  BY <1>1, LastFacts

----------------------------------------------------------------------------
(* Writes to the files.                                                    *)

\* The file f with one page of table t written.
WithPage(f, t, p, v) == [f EXCEPT ![t].page[p] = v]

LEMMA SetPage ==
  ASSUME NEW f \in [Table -> FileRec], NEW t \in Table, NEW p \in Page, NEW v \in Value
  PROVE  LET g == WithPage(f, t, p, v) IN
         /\ g \in [Table -> FileRec]
         /\ \A u \in Table : g[u].id = f[u].id
         /\ \A u \in Table, q \in Page :
              g[u].page[q] = IF u = t /\ q = p THEN v ELSE f[u].page[q]
<1>. DEFINE g == WithPage(f, t, p, v)
            r == [f[t].page EXCEPT ![p] = v]
<1>1. f[t].page \in Content
  BY DEF FileRec
<1>2. r \in Content /\ \A q \in Page : r[q] = IF q = p THEN v ELSE f[t].page[q]
  BY <1>1 DEF Content
<1>3. g = [f EXCEPT ![t].page = r]
  BY DEF WithPage
<1>. HIDE DEF r, g
<1>4. /\ g \in [Table -> FileRec]
      /\ g[t].id = f[t].id /\ g[t].page = r
      /\ \A u \in Table : u # t => g[u] = f[u]
  BY <1>2, <1>3 DEF FileRec
<1>5. \A u \in Table, q \in Page : g[u].page[q] = IF u = t /\ q = p THEN v ELSE f[u].page[q]
  BY <1>2, <1>4
<1>. QED  BY <1>4, <1>5 DEF g

LEMMA SetId ==
  ASSUME NEW f \in [Table -> FileRec], NEW t \in Table, NEW i \in 0..MaxLog
  PROVE  LET g == [f EXCEPT ![t].id = i] IN
         /\ g \in [Table -> FileRec]
         /\ \A u \in Table : /\ g[u].id = IF u = t THEN i ELSE f[u].id
                             /\ g[u].page = f[u].page
BY DEF FileRec

\* Of the record of log i, the copies of table t.
WithImage(l, i, t, c) == [l EXCEPT ![i].rec.image[t] = c]

LEMMA SetImage ==
  ASSUME NEW l \in [LogId -> LogRec], NEW i \in LogId, NEW t \in Table, NEW c \in Copy
  PROVE  LET g == WithImage(l, i, t, c) IN
         /\ g \in [LogId -> LogRec]
         /\ \A j \in LogId : j # i => g[j] = l[j]
         /\ g[i].cur = l[i].cur /\ g[i].rec.result = l[i].rec.result
         /\ \A u \in Table : g[i].rec.image[u] = IF u = t THEN c ELSE l[i].rec.image[u]
<1>. DEFINE g == WithImage(l, i, t, c)
            m == [l[i].rec.image EXCEPT ![t] = c]
            r == [l[i].rec EXCEPT !.image = m]
<1>1. l[i] \in LogRec /\ l[i].rec \in RecType /\ l[i].rec.image \in [Table -> Copy]
  BY DEF LogRec, RecType
<1>2. m \in [Table -> Copy] /\ \A u \in Table : m[u] = IF u = t THEN c ELSE l[i].rec.image[u]
  BY <1>1
<1>. HIDE DEF m
<1>3. r \in RecType /\ r.image = m /\ r.result = l[i].rec.result
  BY <1>1, <1>2 DEF RecType
<1>4. g = [l EXCEPT ![i].rec = r]
  BY DEF m, WithImage
<1>. HIDE DEF r, g
<1>5. /\ g \in [LogId -> LogRec]
      /\ \A j \in LogId : j # i => g[j] = l[j]
      /\ g[i].cur = l[i].cur /\ g[i].rec = r
  BY <1>3, <1>4 DEF LogRec
<1>. QED  BY <1>2, <1>3, <1>5 DEF g

LEMMA SetResult ==
  ASSUME NEW l \in [LogId -> LogRec], NEW i \in LogId
  PROVE  LET g == [l EXCEPT ![i].rec.result = "prepared"] IN
         /\ g \in [LogId -> LogRec]
         /\ \A j \in LogId : j # i => g[j] = l[j]
         /\ g[i].cur = l[i].cur /\ g[i].rec.result = "prepared" /\ g[i].rec.image = l[i].rec.image
<1>. DEFINE g == [l EXCEPT ![i].rec.result = "prepared"]
            r == [l[i].rec EXCEPT !.result = "prepared"]
<1>1. l[i] \in LogRec /\ l[i].rec \in RecType
  BY DEF LogRec
<1>2. r \in RecType /\ r.result = "prepared" /\ r.image = l[i].rec.image
  BY <1>1 DEF RecType
<1>3. g = [l EXCEPT ![i].rec = r]
  OBVIOUS
<1>. HIDE DEF r, g
<1>4. /\ g \in [LogId -> LogRec]
      /\ \A j \in LogId : j # i => g[j] = l[j]
      /\ g[i].cur = l[i].cur /\ g[i].rec = r
  BY <1>2, <1>3 DEF LogRec
<1>. QED  BY <1>2, <1>4 DEF g

\* A record without copies.
LEMMA NoRecTyped ==
  /\ NoRec \in RecType /\ NoRec.result = "null" /\ \A t \in Table : NoRec.image[t] = NoCopy
  /\ [NoRec EXCEPT !.result = "begun"] \in RecType
  /\ [NoRec EXCEPT !.result = "begun"].result = "begun"
  /\ \A t \in Table : [NoRec EXCEPT !.result = "begun"].image[t] = NoCopy
  /\ NoCopy \in Copy /\ Filled(NoCopy) /\ Pages(NoCopy) = {}
  /\ NoCopies \in [Table -> Copy] /\ \A t \in Table : NoCopies[t] = NoCopy
<1>1. NoCopy \in Copy /\ Pages(NoCopy) = {}
  BY DEF NoCopy, Copy, Pages
<1>2. NoCopies \in [Table -> Copy] /\ \A t \in Table : NoCopies[t] = NoCopy
  BY <1>1 DEF NoCopies
<1>. HIDE DEF NoCopies
<1>. QED  BY <1>1, <1>2 DEF NoRec, RecType, Filled

----------------------------------------------------------------------------
(* The invariant holds at first and through each step.                     *)

LEMMA InitIInv == Init \/ FreshInit => IInv
<1>. SUFFICES ASSUME Init \/ FreshInit  PROVE IInv
  OBVIOUS
<1>1. Stopped /\ file \in [Table -> FileRec]
  BY SizesAssumption DEF Init, FreshInit, InitFiles, FreshFiles, FileRec
<1>2. NewLog \in LogRec /\ \A n \in 0..RecMax : [NewLog EXCEPT !.cur = n] \in LogRec
                                             /\ [NewLog EXCEPT !.cur = n].rec = NoRec
  BY NoRecTyped, SizesAssumption DEF NewLog, LogRec
<1>3. log \in [LogId -> LogRec] /\ \A i \in LogId : log[i].rec = NoRec
  <2>1. CASE Init
    <3>1. PICK n \in 0..RecMax : log = [i \in LogId |-> [NewLog EXCEPT !.cur = IF i = 1 THEN n ELSE 0]]
      BY <2>1 DEF Init, InitFiles
    <3>2. \A i \in LogId : (IF i = 1 THEN n ELSE 0) \in 0..RecMax
      BY SizesAssumption
    <3>. HIDE DEF NoRec
    <3>. QED  BY <1>2, <3>1, <3>2
  <2>2. CASE FreshInit
    BY <1>2, <2>2 DEF FreshInit, FreshFiles, NewLog
  <2>. QED  BY <2>1, <2>2
<1>4. TypeOK
  <2>1. NoPages \in [Table -> SUBSET Page] /\ NoIds \in [Table -> 0..MaxLog]
    BY SizesAssumption DEF NoPages, NoIds
  <2>2. 0 \in 0..MaxLog /\ 0 \in 0..MaxCheckpoint /\ 0 \in 0..MaxCrash
    BY SizesAssumption
  <2>. HIDE DEF NoCopies, NoPages, NoIds
  <2>. QED  BY <1>1, <1>3, <2>1, <2>2, NoRecTyped DEF Stopped, TypeOK, FileRec, LogRec, RecType, Steps
<1>5. CopiesFilled
  BY <1>1, <1>3, NoRecTyped DEF Stopped, CopiesFilled
<1>6. InMemory /\ InRecord /\ InFiles /\ Coherent
  BY <1>1 DEF Stopped, InMemory, InRecord, InFiles, Coherent, Serving
<1>. QED  BY <1>4, <1>5, <1>6 DEF IInv

LEMMA StutterStep ==
  ASSUME IInv, UNCHANGED vars
  PROVE  IInv'
<1>1. TypeOK' /\ CopiesFilled' /\ InMemory' /\ Coherent'
  BY DEF vars, mem, IInv, TypeOK, CopiesFilled, InMemory, Coherent, Serving
<1>2. InRecord'
  BY DEF vars, mem, IInv, InRecord, Rec, NextTable
<1>3. Rec' = Rec /\ NextTable' = NextTable /\ \A t \in Table : Stored(t, snap[t])' = Stored(t, snap[t])
  BY DEF vars, mem, Rec, NextTable, Stored
<1>4. \A t \in Table : Stored(t, Rec.image[t])' = Stored(t, Rec.image[t])
  BY <1>3 DEF vars, mem, Stored
<1>. HIDE DEF Stored, Rec, NextTable
<1>5. InFiles'
  BY <1>3, <1>4 DEF vars, mem, IInv, InFiles
<1>. QED  BY <1>1, <1>2, <1>5 DEF IInv

LEMMA WriteStep ==
  ASSUME IInv, NEW t \in Table, NEW p \in Page, NEW v \in Value, Write(t, p, v)
  PROVE  IInv'
<1>1. TypeOK /\ pc # "down" /\ ~redo /\ live \in [Table -> Content] /\ dirty \in [Table -> SUBSET Page]
  BY DEF IInv, TypeOK, Write, Serving, InMemory
<1>2. /\ live' \in [Table -> Content]
      /\ \A u \in Table, q \in Page : live'[u][q] = IF u = t /\ q = p THEN v ELSE live[u][q]
  BY <1>1 DEF Write, Content
<1>3. /\ dirty' \in [Table -> SUBSET Page]
      /\ \A u \in Table, q \in Page : q \in dirty'[u] <=> q \in dirty[u] \/ (u = t /\ q = p)
  BY <1>1 DEF Write
<1>4. live' \in [Table -> Copy]
  BY <1>2 DEF Content, Copy
<1>5. /\ file' = file /\ log' = log /\ snap' = snap /\ logger_id' = logger_id /\ log_id' = log_id
      /\ need_rotate' = need_rotate /\ pc' = pc /\ redo' = redo /\ todo' = todo /\ left' = left
      /\ checkpoints' = checkpoints /\ crashes' = crashes
  BY DEF Write
<1>6. TypeOK'
  BY <1>1, <1>3, <1>4, <1>5 DEF TypeOK
<1>7. CopiesFilled' /\ InRecord'
  BY <1>5 DEF IInv, CopiesFilled, InRecord, Rec, NextTable
<1>8. InMemory' /\ Coherent'
  BY <1>1, <1>2, <1>3, <1>5 DEF IInv, InMemory, Coherent, Serving
<1>9. InFiles'
  BY <1>1, <1>5 DEF IInv, InFiles, Rec, NextTable, Stored
<1>. QED  BY <1>6, <1>7, <1>8, <1>9 DEF IInv

LEMMA SnapshotCreateStep ==
  ASSUME IInv, SnapshotCreate
  PROVE  IInv'
<1>1. TypeOK /\ pc = "ready" /\ ~redo /\ live \in [Table -> Content] /\ snap = NoCopies
  BY DEF IInv, SnapshotCreate, InMemory
<1>2. /\ snap' \in [Table -> Copy] /\ dirty' = NoPages
      /\ \A t \in Table : Filled(snap'[t])
      /\ \A t \in Table, p \in Page :
           /\ snap'[t][p] = NoValue \/ snap'[t][p] = live[t][p]
           /\ snap'[t][p] = NoValue => p \notin dirty[t]
  BY <1>1, PagesAssumption DEF SnapshotCreate, Content, Copy, Filled, Pages, NoPages
<1>3. /\ file' = file /\ log' = log /\ live' = live /\ logger_id' = logger_id /\ log_id' = log_id
      /\ need_rotate' = need_rotate /\ pc' = "snapped" /\ redo' = redo /\ todo' = todo /\ left' = left
      /\ crashes' = crashes
  BY DEF SnapshotCreate
<1>4. checkpoints' \in 0..MaxCheckpoint
  BY <1>1, SizesAssumption DEF SnapshotCreate, TypeOK
<1>5. TypeOK'
  BY <1>1, <1>2, <1>3, <1>4 DEF TypeOK, NoPages, Steps
<1>6. CopiesFilled' /\ InRecord' /\ InFiles'
  BY <1>1, <1>2, <1>3 DEF IInv, CopiesFilled, InRecord, InFiles
<1>7. InMemory'
  BY <1>1, <1>2, <1>3 DEF InMemory
<1>8. Coherent'
  <2>1. \A t \in Table, p \in Page : snap[t][p] = NoValue
    BY <1>1 DEF NoCopies, NoCopy
  <2>2. \A t \in Table, p \in Page : p \notin dirty[t] => live[t][p] = file[t].page[p]
    BY <1>1, <2>1 DEF IInv, Coherent, Serving
  <2>. QED  BY <1>2, <1>3, <2>2 DEF Coherent
<1>. QED  BY <1>5, <1>6, <1>7, <1>8 DEF IInv

\* What load_log_file finds, and what a start makes of it.
LEMMA OpenLogFacts ==
  ASSUME TypeOK, NEW i \in LogId, OpenLog(i)
  PROVE  /\ log_id' = i /\ log' \in [LogId -> LogRec]
         /\ \A j \in LogId : log'[j].rec = log[j].rec \/ log'[j].rec = NoRec
         /\ \A j \in LogId : j # i => log'[j] = log[j]
         /\ \/ /\ pc' = "ready" /\ redo' = FALSE /\ todo' = {}
               /\ ~(log[i].cur < RecMax /\ log[i].rec.result = "prepared")
               /\ ~(log'[i].cur < RecMax /\ log'[i].rec.result = "prepared")
            \/ /\ pc' = "committing" /\ redo' = TRUE /\ todo' = Table /\ log' = log
               /\ log[i].cur < RecMax /\ log[i].rec.result = "prepared"
<1>1. /\ log \in [LogId -> LogRec] /\ log[i].cur \in 0..RecMax + 1 /\ log[i].rec \in RecType
      /\ RecMax \in Nat \ {0}
  BY Typed, SizesAssumption
<1>. HIDE DEF NoRec
<1>2. CASE log[i].cur >= RecMax
  <2>1. PICK n \in {log[i].cur, RecMax + 1} : log' = [log EXCEPT ![i].cur = n]
    BY <1>1, <1>2 DEF OpenLog
  <2>2. n \in 0..RecMax + 1 /\ ~(n < RecMax)
    BY <1>1, <1>2
  <2>3. /\ log' \in [LogId -> LogRec] /\ \A j \in LogId : log'[j].rec = log[j].rec
        /\ log'[i].cur = n /\ \A j \in LogId : j # i => log'[j] = log[j]
    BY <1>1, <2>1, <2>2 DEF LogRec
  <2>4. log_id' = i /\ pc' = "ready" /\ redo' = FALSE /\ todo' = {}
    BY <1>1, <1>2 DEF OpenLog
  <2>. QED  BY <1>1, <1>2, <2>2, <2>3, <2>4
<1>3. CASE log[i].cur < RecMax /\ log[i].rec.result = "prepared"
  BY <1>1, <1>3 DEF OpenLog
<1>4. CASE log[i].cur < RecMax /\ log[i].rec.result # "prepared"
  <2>1. /\ log_id' = i /\ pc' = "ready" /\ redo' = FALSE /\ todo' = {}
        /\ log' = IF log[i].rec.result = "begun"
                  THEN [log EXCEPT ![i] = [cur |-> @.cur + 1, rec |-> NoRec]] ELSE log
    BY <1>1, <1>4 DEF OpenLog
  <2>2. [cur |-> log[i].cur + 1, rec |-> NoRec] \in LogRec
    BY <1>1, <1>4, NoRecTyped DEF LogRec
  <2>3. /\ log' \in [LogId -> LogRec]
        /\ \A j \in LogId : log'[j].rec = log[j].rec \/ log'[j].rec = NoRec
        /\ \A j \in LogId : j # i => log'[j] = log[j]
        /\ log'[i].rec.result # "prepared"
    BY <1>1, <1>4, <2>1, <2>2, NoRecTyped
  <2>. QED  BY <1>4, <2>1, <2>3
<1>5. log[i].cur >= RecMax \/ log[i].cur < RecMax
  BY <1>1
<1>. QED  BY <1>2, <1>3, <1>4, <1>5

LEMMA StartStep ==
  ASSUME IInv, Start
  PROVE  IInv'
<1>1. TypeOK /\ file' = file /\ file \in [Table -> FileRec] /\ \A t \in Table : file[t].page \in Content
  BY Typed DEF IInv, Start
<1>2. /\ live' \in [Table -> Content] /\ \A t \in Table : live'[t] = file[t].page
      /\ dirty' \in [Table -> SUBSET Page] /\ snap' = NoCopies /\ left' = {}
      /\ checkpoints' = checkpoints /\ crashes' = crashes
  BY <1>1, PagesAssumption DEF Start, Load
<1>3. /\ logger_id' \in [Table -> 0..MaxLog] /\ need_rotate' \in BOOLEAN
      /\ log_id' \in LogId /\ log' \in [LogId -> LogRec]
      /\ \A j \in LogId : log'[j].rec = log[j].rec \/ log'[j].rec = NoRec
      /\ \/ pc' = "ready" /\ redo' = FALSE /\ todo' = {}
         \/ /\ pc' = "committing" /\ redo' = TRUE /\ todo' = Table /\ log' = log
            /\ log[log_id'].cur < RecMax /\ log[log_id'].rec.result = "prepared"
  <2>1. LastId \in 0..MaxLog /\ log \in [LogId -> LogRec]
    BY <1>1, LastIdFacts, Typed
  <2>2. CASE LastId = 0
    <3>. HIDE DEF LastId, NoRec
    <3>1. NewLog \in LogRec /\ NewLog.rec = NoRec
      BY NoRecTyped, SizesAssumption DEF NewLog, LogRec
    <3>2. 1 \in LogId
      BY SizesAssumption DEF LogId
    <3>3. /\ log_id' = 1 /\ log' = [log EXCEPT ![1] = NewLog] /\ logger_id' = NoIds
          /\ need_rotate' = FALSE /\ pc' = "ready" /\ redo' = FALSE /\ todo' = {}
      BY <2>2 DEF Start
    <3>4. /\ log' \in [LogId -> LogRec]
          /\ \A j \in LogId : log'[j].rec = log[j].rec \/ log'[j].rec = NoRec
      BY <2>1, <3>1, <3>2, <3>3
    <3>5. NoIds \in [Table -> 0..MaxLog]
      BY SizesAssumption DEF NoIds
    <3>. QED  BY <3>2, <3>3, <3>4, <3>5
  <2>3. CASE LastId # 0
    <3>. HIDE DEF LastId, NoRec
    <3>1. LastId \in LogId /\ OpenLog(LastId)
      BY <2>1, <2>3 DEF Start, LogId
    <3>2. logger_id' \in [Table -> 0..MaxLog] /\ need_rotate' \in BOOLEAN
      BY <2>1, <2>3, SizesAssumption DEF Start
    <3>. QED  BY <1>1, <3>1, <3>2, OpenLogFacts
  <2>. QED  BY <2>2, <2>3
<1>4. TypeOK'
  <2>1. live' \in [Table -> Copy] /\ snap' \in [Table -> Copy]
    BY <1>2, NoRecTyped DEF Content, Copy
  <2>2. log_id' \in 0..MaxLog
    BY <1>3, SizesAssumption DEF LogId
  <2>3. pc' \in Steps /\ redo' \in BOOLEAN /\ todo' \in SUBSET Table
    <3>1. CASE pc' = "ready" /\ redo' = FALSE /\ todo' = {}
      BY <3>1 DEF Steps
    <3>2. CASE pc' = "committing" /\ redo' = TRUE /\ todo' = Table
      BY <3>2 DEF Steps
    <3>. QED  BY <1>3, <3>1, <3>2
  <2>. QED  BY <1>1, <1>2, <1>3, <2>1, <2>2, <2>3 DEF TypeOK, FileRec, LogRec, RecType
<1>5. CopiesFilled'
  BY <1>2, <1>3, NoRecTyped DEF IInv, CopiesFilled
<1>6. InMemory'
  <2>1. \A t \in Table, p \in Page : snap'[t][p] = NoValue
    BY <1>2 DEF NoCopies, NoCopy
  <2>. QED  BY <1>2, <1>3, <2>1 DEF InMemory
<1>7. InRecord'
  BY <1>3 DEF InRecord, Rec
<1>8. InFiles' /\ Coherent'
  BY <1>1, <1>2, <1>3 DEF InFiles, Coherent
<1>. QED  BY <1>4, <1>5, <1>6, <1>7, <1>8 DEF IInv

\* A number for a record of a log, and its pages to come.
LEMMA BeginRecFacts ==
  ASSUME TypeOK, NEW i \in LogId, NEW n \in 0..RecMax + 1, BeginRec(i, n)
  PROVE  /\ log' \in [LogId -> LogRec]
         /\ \A j \in LogId : j # i => log'[j] = log[j]
         /\ log'[i].cur = n /\ log'[i].rec = [NoRec EXCEPT !.result = "begun"]
         /\ log_id' = i /\ pc' = "preparing" /\ todo' = Table
<1>. DEFINE b == [NoRec EXCEPT !.result = "begun"]
<1>1. b \in RecType /\ log \in [LogId -> LogRec]
  BY NoRecTyped, Typed
<1>2. log' = [log EXCEPT ![i] = [cur |-> n, rec |-> b]] /\ log_id' = i /\ pc' = "preparing" /\ todo' = Table
  BY DEF BeginRec
<1>. HIDE DEF b
<1>. QED  BY <1>1, <1>2 DEF LogRec, b

LEMMA PrepareBeginFacts ==
  ASSUME IInv, PrepareBegin
  PROVE  /\ pc = "snapped" /\ ~redo /\ log_id' \in LogId
         /\ \E n \in 0..RecMax + 1 : n < RecMax /\ BeginRec(log_id', n)
         /\ \/ log_id # 0 /\ ~need_rotate /\ log_id' = log_id
            \/ log_id' = NewId /\ BeginRec(log_id', 0)
<1>1. TypeOK /\ pc = "snapped" /\ ~redo /\ log_id \in 0..MaxLog /\ RecMax \in Nat \ {0}
  BY SizesAssumption DEF IInv, PrepareBegin, InMemory, TypeOK
<1>2. CASE log_id # 0 /\ ~MustRotate /\ BeginRec(log_id, log[log_id].cur)
  <2>1. log_id # 0 /\ ~need_rotate /\ ~(log[log_id].cur >= RecMax)
    BY <1>2 DEF MustRotate
  <2>2. log_id \in LogId /\ log_id' = log_id
    BY <1>1, <1>2, <2>1, SizesAssumption DEF LogId, BeginRec
  <2>3. log[log_id].cur \in 0..RecMax + 1
    BY <1>1, <2>2, Typed
  <2>4. log[log_id].cur < RecMax
    BY <1>1, <2>1, <2>3
  <2>. QED  BY <1>1, <1>2, <2>1, <2>2, <2>3, <2>4
<1>3. CASE NewId \in LogId /\ BeginRec(NewId, 0)
  <2>1. log_id' = NewId
    BY <1>3 DEF BeginRec
  <2>2. 0 \in 0..RecMax + 1 /\ 0 < RecMax
    BY <1>1
  <2>. QED  BY <1>1, <1>3, <2>1, <2>2
<1>. QED  BY <1>2, <1>3 DEF PrepareBegin

LEMMA PrepareBeginStep ==
  ASSUME IInv, PrepareBegin
  PROVE  IInv'
<1>1. TypeOK /\ pc = "snapped" /\ ~redo /\ log_id' \in LogId
  BY PrepareBeginFacts DEF IInv
<1>2. PICK n \in 0..RecMax + 1 : n < RecMax /\ BeginRec(log_id', n)
  BY PrepareBeginFacts
<1>3. /\ log' \in [LogId -> LogRec]
      /\ \A j \in LogId : j # log_id' => log'[j] = log[j]
      /\ log'[log_id'].cur = n /\ log'[log_id'].rec = [NoRec EXCEPT !.result = "begun"]
      /\ pc' = "preparing" /\ todo' = Table
  BY <1>1, <1>2, BeginRecFacts
<1>4. /\ log'[log_id'].rec.result = "begun"
      /\ \A t \in Table : Filled(log'[log_id'].rec.image[t])
  BY <1>3, NoRecTyped
<1>5. /\ file' = file /\ live' = live /\ dirty' = dirty /\ snap' = snap /\ logger_id' = logger_id
      /\ need_rotate' = need_rotate /\ redo' = redo /\ left' = left
      /\ checkpoints' = checkpoints /\ crashes' = crashes
  BY DEF PrepareBegin
<1>6. TypeOK'
  <2>1. log_id' \in 0..MaxLog
    BY <1>1, SizesAssumption DEF LogId
  <2>. QED  BY <1>1, <1>3, <1>5, <2>1 DEF TypeOK, LogRec, RecType, Steps
<1>7. CopiesFilled'
  BY <1>3, <1>4, <1>5 DEF IInv, CopiesFilled
<1>8. InMemory' /\ Coherent'
  BY <1>1, <1>3, <1>5 DEF IInv, InMemory, Coherent, Serving
<1>9. InRecord'
  BY <1>1, <1>2, <1>3, <1>4, <1>5 DEF InRecord, Rec
<1>10. InFiles'
  BY <1>1, <1>3, <1>5 DEF InFiles
<1>. QED  BY <1>6, <1>7, <1>8, <1>9, <1>10 DEF IInv

LEMMA PrepareTableFacts ==
  ASSUME IInv, PrepareTable
  PROVE  /\ pc = "preparing" /\ ~redo /\ log_id \in LogId /\ log_id' = log_id
         /\ log' \in [LogId -> LogRec]
         /\ \A j \in LogId : j # log_id => log'[j] = log[j]
         /\ log'[log_id].cur = log[log_id].cur /\ log'[log_id].rec.result = "begun"
         /\ NextTable \in todo /\ NextTable \in Table /\ todo' = todo \ {NextTable}
         /\ \A t \in Table : log'[log_id].rec.image[t] = IF t = NextTable THEN snap[t]
                                                         ELSE log[log_id].rec.image[t]
<1>1. TypeOK /\ pc = "preparing" /\ ~redo /\ log_id \in LogId /\ Rec.result = "begun"
  BY DEF IInv, PrepareTable, InMemory, InRecord
<1>2. log \in [LogId -> LogRec] /\ snap \in [Table -> Copy] /\ todo \in SUBSET Table /\ todo # {}
  BY <1>1, Typed DEF PrepareTable
<1>3. NextTable \in todo /\ NextTable \in Table /\ snap[NextTable] \in Copy
  BY <1>2, NextInTodo
<1>4. /\ log' = [log EXCEPT ![log_id].rec.image[NextTable] = snap[NextTable]]
      /\ todo' = todo \ {NextTable} /\ log_id' = log_id
  BY DEF PrepareTable
<1>. HIDE DEF NextTable
<1>5. /\ log' \in [LogId -> LogRec]
      /\ \A j \in LogId : j # log_id => log'[j] = log[j]
      /\ log'[log_id].cur = log[log_id].cur /\ log'[log_id].rec.result = log[log_id].rec.result
      /\ \A u \in Table : log'[log_id].rec.image[u] = IF u = NextTable THEN snap[NextTable]
                                                      ELSE log[log_id].rec.image[u]
  <2>. DEFINE n == NextTable
              c == snap[NextTable]
  <2>1. n \in Table /\ c \in Copy
    BY <1>3
  <2>2. log' = WithImage(log, log_id, n, c)
    BY <1>4 DEF WithImage
  <2>. HIDE DEF n, c
  <2>3. /\ log' \in [LogId -> LogRec]
        /\ \A j \in LogId : j # log_id => log'[j] = log[j]
        /\ log'[log_id].cur = log[log_id].cur /\ log'[log_id].rec.result = log[log_id].rec.result
        /\ \A u \in Table : log'[log_id].rec.image[u] = IF u = n THEN c
                                                        ELSE log[log_id].rec.image[u]
    BY <1>1, <1>2, <2>1, <2>2, SetImage
  <2>. QED  BY <2>3 DEF n, c
<1>6. log[log_id].rec.result = "begun"
  BY <1>1 DEF Rec
<1>. QED  BY <1>1, <1>3, <1>4, <1>5, <1>6

LEMMA PrepareTableStep ==
  ASSUME IInv, PrepareTable
  PROVE  IInv'
<1>1. TypeOK /\ snap \in [Table -> Copy] /\ todo \in SUBSET Table
  BY Typed DEF IInv
<1>2. /\ pc = "preparing" /\ ~redo /\ log_id \in LogId /\ log_id' = log_id
      /\ log' \in [LogId -> LogRec]
      /\ \A j \in LogId : j # log_id => log'[j] = log[j]
      /\ log'[log_id].cur = log[log_id].cur /\ log'[log_id].rec.result = "begun"
      /\ todo' = todo \ {NextTable} /\ NextTable \in Table
      /\ \A t \in Table : log'[log_id].rec.image[t] = IF t = NextTable THEN snap[t]
                                                      ELSE log[log_id].rec.image[t]
  BY PrepareTableFacts
<1>3. /\ file' = file /\ live' = live /\ dirty' = dirty /\ snap' = snap /\ logger_id' = logger_id
      /\ need_rotate' = need_rotate /\ pc' = pc /\ redo' = redo /\ left' = left
      /\ checkpoints' = checkpoints /\ crashes' = crashes
  BY DEF PrepareTable
<1>. HIDE DEF NextTable
<1>4. TypeOK'
  BY <1>1, <1>2, <1>3 DEF TypeOK, LogRec, RecType
<1>5. CopiesFilled'
  <2>1. \A t \in Table : Filled(snap[t]) /\ \A i \in LogId : Filled(log[i].rec.image[t])
    BY DEF IInv, CopiesFilled
  <2>2. \A t \in Table, i \in LogId : Filled(log'[i].rec.image[t])
    <3>. HIDE DEF Filled
    <3>. QED  BY <1>2, <2>1
  <2>. QED  BY <1>3, <2>1, <2>2 DEF CopiesFilled
<1>6. InMemory' /\ Coherent'
  BY <1>3 DEF IInv, InMemory, Coherent, Serving
<1>7. InRecord'
  <2>1. log[log_id].cur < RecMax
    BY <1>2 DEF IInv, InRecord
  <2>2. \A t \in Table : t \in todo \/ log[log_id].rec.image[t] = snap[t]
    BY <1>2 DEF IInv, InRecord, Rec
  <2>3. \A t \in Table : t \in todo' \/ log'[log_id].rec.image[t] = snap[t]
    BY <1>2, <2>2
  <2>. QED  BY <1>2, <1>3, <2>1, <2>3 DEF InRecord, Rec
<1>8. InFiles'
  BY <1>2, <1>3 DEF InFiles
<1>. QED  BY <1>4, <1>5, <1>6, <1>7, <1>8 DEF IInv

LEMMA PrepareMarkStep ==
  ASSUME IInv, PrepareMark
  PROVE  IInv'
<1>1. TypeOK /\ pc = "preparing" /\ ~redo /\ log_id \in LogId /\ log \in [LogId -> LogRec] /\ todo = {}
  BY Typed DEF IInv, PrepareMark, InMemory, InRecord
<1>2. /\ file' = file /\ live' = live /\ dirty' = dirty /\ snap' = snap /\ logger_id' = logger_id
      /\ log_id' = log_id /\ need_rotate' = need_rotate /\ pc' = "committing" /\ redo' = redo
      /\ todo' = Table /\ left' = left /\ checkpoints' = checkpoints /\ crashes' = crashes
      /\ log' = [log EXCEPT ![log_id].rec.result = "prepared"]
  BY DEF PrepareMark
<1>3. /\ log' \in [LogId -> LogRec]
      /\ \A j \in LogId : j # log_id => log'[j] = log[j]
      /\ log'[log_id].cur = log[log_id].cur /\ log'[log_id].rec.result = "prepared"
      /\ log'[log_id].rec.image = log[log_id].rec.image
  BY <1>1, <1>2, SetResult
<1>4. TypeOK'
  BY <1>1, <1>2, <1>3 DEF TypeOK, LogRec, RecType, Steps
<1>5. CopiesFilled'
  <2>1. \A j \in LogId : log'[j].rec.image = log[j].rec.image
    BY <1>3
  <2>. QED  BY <1>2, <2>1 DEF IInv, CopiesFilled
<1>6. InMemory' /\ Coherent'
  BY <1>1, <1>2 DEF IInv, InMemory, Coherent, Serving
<1>7. InRecord'
  <2>1. log[log_id].cur < RecMax /\ \A t \in Table : log[log_id].rec.image[t] = snap[t]
    BY <1>1 DEF IInv, InRecord, Rec
  <2>. QED  BY <1>1, <1>2, <1>3, <2>1 DEF InRecord, Rec
<1>8. InFiles'
  BY <1>1, <1>2 DEF InFiles
<1>. QED  BY <1>4, <1>5, <1>6, <1>7, <1>8 DEF IInv

LEMMA CommitSkipStep ==
  ASSUME IInv, CommitSkip
  PROVE  IInv'
<1>1. TypeOK /\ pc = "committing" /\ redo /\ todo \in SUBSET Table /\ logger_id[NextTable] = 0
  BY Typed DEF IInv, CommitSkip
<1>2. /\ file' = file /\ log' = log /\ live' = live /\ dirty' = dirty /\ snap' = snap
      /\ logger_id' = logger_id /\ log_id' = log_id /\ need_rotate' = need_rotate /\ pc' = pc
      /\ redo' = redo /\ todo' = todo \ {NextTable} /\ left' = left
      /\ checkpoints' = checkpoints /\ crashes' = crashes
  BY DEF CommitSkip
<1>3. TypeOK'
  BY <1>1, <1>2 DEF TypeOK
<1>4. CopiesFilled' /\ InMemory' /\ Coherent'
  BY <1>2 DEF IInv, CopiesFilled, InMemory, Coherent, Serving
<1>5. InRecord'
  BY <1>1, <1>2 DEF IInv, InRecord, Rec
<1>6. InFiles'
  <2>1. Rec' = Rec /\ \A t \in Table : Stored(t, Rec.image[t])' = Stored(t, Rec.image[t])
    BY <1>2 DEF Rec, Stored
  <2>. HIDE DEF Rec, Stored, NextTable
  <2>. QED  BY <1>1, <1>2, <2>1 DEF IInv, InFiles
<1>. QED  BY <1>3, <1>4, <1>5, <1>6 DEF IInv

LEMMA CommitOpenFacts ==
  ASSUME IInv, CommitOpen
  PROVE  /\ pc = "committing" /\ log_id \in LogId /\ log_id' = log_id
         /\ NextTable \in todo /\ NextTable \in Table
         /\ file' \in [Table -> FileRec]
         /\ \A t \in Table : /\ file'[t].id = IF t = NextTable THEN log_id ELSE file[t].id
                             /\ file'[t].page = file[t].page
         /\ logger_id' \in [Table -> 0..MaxLog]
         /\ \A t \in Table : logger_id'[t] = IF t = NextTable THEN log_id ELSE logger_id[t]
         /\ \/ /\ Pages(Rec.image[NextTable]) = {} /\ pc' = pc /\ left' = left
               /\ todo' = todo \ {NextTable}
            \/ /\ Pages(Rec.image[NextTable]) # {} /\ pc' = "restoring" /\ todo' = todo
               /\ left' = Pages(Rec.image[NextTable]) \ {Magic}
<1>1. /\ TypeOK /\ pc = "committing" /\ log_id \in LogId /\ log_id \in 0..MaxLog
      /\ todo \in SUBSET Table /\ todo # {}
      /\ file \in [Table -> FileRec] /\ logger_id \in [Table -> 0..MaxLog]
  BY Typed DEF IInv, CommitOpen, InRecord
<1>2. NextTable \in todo /\ NextTable \in Table
  BY <1>1, NextInTodo
<1>3. /\ file' = [file EXCEPT ![NextTable].id = log_id]
      /\ logger_id' = [logger_id EXCEPT ![NextTable] = log_id] /\ log_id' = log_id
      /\ \/ /\ Pages(Rec.image[NextTable]) = {} /\ pc' = pc /\ left' = left
            /\ todo' = todo \ {NextTable}
         \/ /\ Pages(Rec.image[NextTable]) # {} /\ pc' = "restoring" /\ todo' = todo
            /\ left' = Pages(Rec.image[NextTable]) \ {Magic}
  BY DEF CommitOpen
<1>. HIDE DEF NextTable
<1>4. /\ file' \in [Table -> FileRec]
      /\ \A t \in Table : /\ file'[t].id = IF t = NextTable THEN log_id ELSE file[t].id
                          /\ file'[t].page = file[t].page
  BY <1>1, <1>2, <1>3, SetId
<1>5. /\ logger_id' \in [Table -> 0..MaxLog]
      /\ \A t \in Table : logger_id'[t] = IF t = NextTable THEN log_id ELSE logger_id[t]
  BY <1>1, <1>2, <1>3
<1>. QED  BY <1>1, <1>2, <1>3, <1>4, <1>5

LEMMA CommitOpenStep ==
  ASSUME IInv, CommitOpen
  PROVE  IInv'
<1>1. /\ TypeOK /\ pc = "committing" /\ log_id \in LogId /\ log_id # 0 /\ log_id' = log_id
      /\ todo \in SUBSET Table /\ NextTable \in todo /\ NextTable \in Table
  BY CommitOpenFacts, Typed, SizesAssumption DEF IInv, LogId
<1>2. /\ file' \in [Table -> FileRec]
      /\ \A t \in Table : /\ file'[t].id = IF t = NextTable THEN log_id ELSE file[t].id
                          /\ file'[t].page = file[t].page
      /\ logger_id' \in [Table -> 0..MaxLog]
      /\ \A t \in Table : logger_id'[t] = IF t = NextTable THEN log_id ELSE logger_id[t]
  BY CommitOpenFacts
<1>3. /\ log' = log /\ live' = live /\ dirty' = dirty /\ snap' = snap /\ need_rotate' = need_rotate
      /\ redo' = redo /\ checkpoints' = checkpoints /\ crashes' = crashes /\ Rec' = Rec
  BY <1>1 DEF CommitOpen, Rec
<1>4. \/ /\ Pages(Rec.image[NextTable]) = {} /\ pc' = pc /\ left' = left
         /\ todo' = todo \ {NextTable}
      \/ /\ Pages(Rec.image[NextTable]) # {} /\ pc' = "restoring" /\ todo' = todo
         /\ left' = Pages(Rec.image[NextTable]) \ {Magic} /\ NextTable' = NextTable
  BY CommitOpenFacts DEF NextTable
<1>5. TypeOK'
  <2>1. left' \in SUBSET Page
    BY <1>1, <1>4 DEF TypeOK, Pages
  <2>2. todo' \in SUBSET Table /\ pc' \in Steps
    BY <1>1, <1>4 DEF Steps
  <2>. QED  BY <1>1, <1>2, <1>3, <2>1, <2>2 DEF TypeOK, FileRec
<1>6. CopiesFilled'
  BY <1>3 DEF IInv, CopiesFilled
<1>7. InMemory' /\ Coherent'
  BY <1>1, <1>2, <1>3, <1>4 DEF IInv, InMemory, Coherent, Serving
<1>8. InRecord'
  <2>1. /\ log[log_id].cur < RecMax /\ Rec.result = "prepared"
        /\ ~redo => \A t \in Table : Rec.image[t] = snap[t]
    BY <1>1 DEF IInv, InRecord
  <2>2. logger_id'[NextTable] # 0
    BY <1>1, <1>2
  <2>. HIDE DEF Rec, NextTable
  <2>. QED  BY <1>1, <1>3, <1>4, <2>1, <2>2 DEF InRecord
<1>9. InFiles'
  <2>1. \A t \in Table : Stored(t, Rec.image[t])' = Stored(t, Rec.image[t])
    BY <1>2, <1>3 DEF Stored
  <2>2. \A t \in Table \ todo' : (redo /\ logger_id'[t] = 0) \/ Stored(t, Rec.image[t])
    <3>. SUFFICES ASSUME NEW t \in Table, t \notin todo'
                  PROVE  (redo /\ logger_id'[t] = 0) \/ Stored(t, Rec.image[t])
      OBVIOUS
    <3>1. CASE t = NextTable
      BY <1>1, <1>4, <3>1 DEF Stored
    <3>2. CASE t # NextTable
      BY <1>1, <1>2, <1>4, <3>2 DEF IInv, InFiles
    <3>. QED  BY <3>1, <3>2
  <2>3. redo => \A t \in Table, p \in Page :
          \/ file'[t].page[p] = live[t][p]
          \/ /\ logger_id'[t] # 0 /\ p \in Pages(Rec.image[t])
             /\ file'[t].page[p] = Rec.image[t][p]
    <3>. HIDE DEF Rec, NextTable
    <3>. QED  BY <1>1, <1>2 DEF IInv, InFiles
  <2>4. pc' = "restoring" => Pages(Rec.image[NextTable]) \ ({Magic} \cup left') = {}
    BY <1>1, <1>4
  <2>. HIDE DEF Rec, NextTable, Stored
  <2>. QED  BY <1>1, <1>3, <1>4, <2>1, <2>2, <2>3, <2>4 DEF InFiles
<1>. QED  BY <1>5, <1>6, <1>7, <1>8, <1>9 DEF IInv

\* Pages of the current table, and at the end its magic page.
LEMMA RestoreFacts ==
  ASSUME IInv, NEW p \in Pages(Rec.image[NextTable]), pc = "restoring",
         file' = [file EXCEPT ![NextTable].page[p] = Rec.image[NextTable][p]]
  PROVE  /\ log_id \in LogId /\ NextTable \in todo /\ NextTable \in Table /\ p \in Page
         /\ logger_id[NextTable] # 0
         /\ file' \in [Table -> FileRec]
         /\ \A t \in Table : file'[t].id = file[t].id
         /\ \A t \in Table, q \in Page : file'[t].page[q] =
              IF t = NextTable /\ q = p THEN Rec.image[t][p] ELSE file[t].page[q]
<1>1. /\ TypeOK /\ log_id \in LogId /\ todo \in SUBSET Table /\ todo # {}
      /\ file \in [Table -> FileRec] /\ logger_id[NextTable] # 0
  BY Typed DEF IInv, InRecord
<1>2. NextTable \in todo /\ NextTable \in Table
  BY <1>1, NextInTodo
<1>3. p \in Page /\ Rec.image[NextTable][p] # NoValue
  BY DEF Pages
<1>4. Rec.image[NextTable] \in Copy
  <2>1. Rec \in RecType
    BY <1>1, Typed DEF Rec
  <2>. HIDE DEF Rec, NextTable
  <2>. QED  BY <1>2, <2>1 DEF RecType
<1>5. Rec.image[NextTable][p] \in Value
  <2>. HIDE DEF Rec, NextTable
  <2>. QED  BY <1>3, <1>4 DEF Copy
<1>. HIDE DEF Rec, NextTable
<1>. DEFINE n == NextTable
            v == Rec.image[NextTable][p]
<1>6. n \in Table /\ v \in Value
  BY <1>2, <1>5
<1>7. file' = WithPage(file, n, p, v)
  BY DEF WithPage
<1>. HIDE DEF n, v
<1>8. /\ file' \in [Table -> FileRec]
      /\ \A t \in Table : file'[t].id = file[t].id
      /\ \A t \in Table, q \in Page : file'[t].page[q] = IF t = n /\ q = p THEN v ELSE file[t].page[q]
  <2>1. file \in [Table -> FileRec] /\ p \in Page
    BY <1>1, <1>3
  <2>. QED  BY ONLY <1>6, <1>7, <2>1, SetPage
<1>. QED  BY <1>1, <1>2, <1>3, <1>8 DEF n, v

\* What the invariant says of the files, when such a page is written.
LEMMA RestoreKeeps ==
  ASSUME IInv, NEW p \in Pages(Rec.image[NextTable]), pc = "restoring",
         file' = [file EXCEPT ![NextTable].page[p] = Rec.image[NextTable][p]]
  PROVE  /\ \A t \in Table : t # NextTable => \A q \in Page : file'[t].page[q] = file[t].page[q]
         /\ redo => \A t \in Table, q \in Page :
              \/ file'[t].page[q] = live[t][q]
              \/ /\ logger_id[t] # 0 /\ q \in Pages(Rec.image[t])
                 /\ file'[t].page[q] = Rec.image[t][q]
         /\ ~redo => \A t \in Table, q \in Page :
              q \notin dirty[t] /\ snap[t][q] = NoValue => live[t][q] = file'[t].page[q]
<1>1. /\ logger_id[NextTable] # 0
      /\ \A t \in Table, q \in Page : file'[t].page[q] =
           IF t = NextTable /\ q = p THEN Rec.image[t][p] ELSE file[t].page[q]
  BY RestoreFacts
<1>2. Rec.image[NextTable][p] # NoValue /\ (~redo => \A t \in Table : Rec.image[t] = snap[t])
  BY DEF Pages, IInv, InRecord
<1>. HIDE DEF Rec, NextTable
<1>3. redo => \A t \in Table, q \in Page :
        \/ file'[t].page[q] = live[t][q]
        \/ /\ logger_id[t] # 0 /\ q \in Pages(Rec.image[t])
           /\ file'[t].page[q] = Rec.image[t][q]
  BY <1>1 DEF IInv, InFiles
<1>4. ~redo => \A t \in Table, q \in Page :
        q \notin dirty[t] /\ snap[t][q] = NoValue => live[t][q] = file'[t].page[q]
  BY <1>1, <1>2 DEF IInv, Coherent, Serving
<1>. QED  BY <1>1, <1>3, <1>4

LEMMA CommitPageStep ==
  ASSUME IInv, NEW p \in Page, CommitPage(p)
  PROVE  IInv'
<1>1. /\ TypeOK /\ pc = "restoring" /\ p \in left /\ left' = left \ {p} /\ left \in SUBSET Page
      /\ file' = [file EXCEPT ![NextTable].page[p] = Rec.image[NextTable][p]]
  BY Typed DEF CommitPage, IInv
<1>2. /\ log' = log /\ live' = live /\ dirty' = dirty /\ snap' = snap /\ logger_id' = logger_id
      /\ log_id' = log_id /\ need_rotate' = need_rotate /\ pc' = pc /\ redo' = redo /\ todo' = todo
      /\ checkpoints' = checkpoints /\ crashes' = crashes
      /\ Rec' = Rec /\ NextTable' = NextTable
  BY DEF CommitPage, Rec, NextTable
<1>3. p \in Pages(Rec.image[NextTable]) \ {Magic}
  BY <1>1 DEF IInv, InRecord
<1>4. /\ file' \in [Table -> FileRec] /\ NextTable \in Table /\ NextTable \in todo
      /\ \A t \in Table, q \in Page : file'[t].page[q] =
           IF t = NextTable /\ q = p THEN Rec.image[t][p] ELSE file[t].page[q]
  BY <1>1, <1>3, RestoreFacts
<1>5. /\ redo => \A t \in Table, q \in Page :
           \/ file'[t].page[q] = live[t][q]
           \/ /\ logger_id[t] # 0 /\ q \in Pages(Rec.image[t])
              /\ file'[t].page[q] = Rec.image[t][q]
      /\ ~redo => \A t \in Table, q \in Page :
           q \notin dirty[t] /\ snap[t][q] = NoValue => live[t][q] = file'[t].page[q]
  BY <1>1, <1>3, RestoreKeeps
<1>6. TypeOK'
  BY <1>1, <1>2, <1>4 DEF TypeOK, FileRec
<1>7. CopiesFilled' /\ InMemory' /\ Coherent'
  BY <1>2, <1>5 DEF IInv, CopiesFilled, InMemory, Coherent, Serving
<1>8. InRecord'
  <2>. HIDE DEF Rec, NextTable
  <2>. QED  BY <1>1, <1>2 DEF IInv, InRecord
<1>9. InFiles'
  <2>1. \A t \in Table \ todo : (redo /\ logger_id[t] = 0) \/ Stored(t, Rec.image[t])'
    <3>1. \A t \in Table \ todo : (redo /\ logger_id[t] = 0) \/ Stored(t, Rec.image[t])
      BY <1>1 DEF IInv, InFiles
    <3>2. \A t \in Table \ todo : Stored(t, Rec.image[t]) => Stored(t, Rec.image[t])'
      <4>. HIDE DEF Rec, NextTable
      <4>. QED  BY <1>2, <1>4 DEF Stored, Pages
    <3>. QED  BY <3>1, <3>2
  <2>2. \A q \in Pages(Rec.image[NextTable]) \ ({Magic} \cup left') :
          file'[NextTable].page[q] = Rec.image[NextTable][q]
    <3>1. \A q \in Pages(Rec.image[NextTable]) \ ({Magic} \cup left) :
            file[NextTable].page[q] = Rec.image[NextTable][q]
      BY <1>1 DEF IInv, InFiles
    <3>. HIDE DEF Rec, NextTable
    <3>. QED  BY <1>1, <1>4, <3>1 DEF Pages
  <2>. HIDE DEF Rec, NextTable, Stored
  <2>. QED  BY <1>1, <1>2, <1>5, <2>1, <2>2 DEF InFiles
<1>. QED  BY <1>6, <1>7, <1>8, <1>9 DEF IInv

LEMMA CommitMagicFacts ==
  ASSUME IInv, CommitMagic
  PROVE  Magic \in Pages(Rec.image[NextTable])
<1>1. /\ TypeOK /\ log_id \in LogId /\ todo \in SUBSET Table /\ todo # {}
      /\ Pages(Rec.image[NextTable]) # {}
  BY Typed DEF IInv, InRecord, CommitMagic
<1>2. NextTable \in Table
  BY <1>1, NextInTodo
<1>3. Filled(Rec.image[NextTable])
  BY <1>1, <1>2 DEF IInv, CopiesFilled, Rec
<1>. QED  BY <1>1, <1>3 DEF Filled

LEMMA CommitMagicStep ==
  ASSUME IInv, CommitMagic
  PROVE  IInv'
<1>1. /\ TypeOK /\ pc = "restoring" /\ left = {} /\ left' = left /\ pc' = "committing"
      /\ todo \in SUBSET Table /\ todo' = todo \ {NextTable}
      /\ file' = [file EXCEPT ![NextTable].page[Magic] = Rec.image[NextTable][Magic]]
  BY Typed DEF CommitMagic, IInv
<1>2. /\ log' = log /\ live' = live /\ dirty' = dirty /\ snap' = snap /\ logger_id' = logger_id
      /\ log_id' = log_id /\ need_rotate' = need_rotate /\ redo' = redo
      /\ checkpoints' = checkpoints /\ crashes' = crashes /\ Rec' = Rec
  BY DEF CommitMagic, Rec
<1>3. Magic \in Pages(Rec.image[NextTable])
  BY CommitMagicFacts
<1>4. /\ file' \in [Table -> FileRec] /\ NextTable \in Table /\ NextTable \in todo
      /\ \A t \in Table, q \in Page : file'[t].page[q] =
           IF t = NextTable /\ q = Magic THEN Rec.image[t][Magic] ELSE file[t].page[q]
  BY <1>1, <1>3, RestoreFacts
<1>5. /\ redo => \A t \in Table, q \in Page :
           \/ file'[t].page[q] = live[t][q]
           \/ /\ logger_id[t] # 0 /\ q \in Pages(Rec.image[t])
              /\ file'[t].page[q] = Rec.image[t][q]
      /\ ~redo => \A t \in Table, q \in Page :
           q \notin dirty[t] /\ snap[t][q] = NoValue => live[t][q] = file'[t].page[q]
  BY <1>1, <1>3, RestoreKeeps
<1>6. TypeOK'
  BY <1>1, <1>2, <1>4 DEF TypeOK, FileRec, Steps
<1>7. CopiesFilled' /\ InMemory' /\ Coherent'
  BY <1>1, <1>2, <1>5 DEF IInv, CopiesFilled, InMemory, Coherent, Serving
<1>8. InRecord'
  <2>. HIDE DEF Rec, NextTable
  <2>. QED  BY <1>1, <1>2 DEF IInv, InRecord
<1>9. InFiles'
  <2>1. \A t \in Table \ todo' : (redo /\ logger_id[t] = 0) \/ Stored(t, Rec.image[t])'
    <3>1. \A t \in Table \ todo : (redo /\ logger_id[t] = 0) \/ Stored(t, Rec.image[t])
      BY <1>1 DEF IInv, InFiles
    <3>2. \A t \in Table \ todo : Stored(t, Rec.image[t]) => Stored(t, Rec.image[t])'
      <4>. HIDE DEF Rec, NextTable
      <4>. QED  BY <1>2, <1>4 DEF Stored, Pages
    <3>3. \A q \in Pages(Rec.image[NextTable]) \ {Magic} :
            file[NextTable].page[q] = Rec.image[NextTable][q]
      BY <1>1 DEF IInv, InFiles
    <3>4. \A t \in Table : t = NextTable => Stored(t, Rec.image[t])'
      <4>. HIDE DEF Rec, NextTable
      <4>. QED  BY <1>2, <1>4, <3>3 DEF Stored, Pages
    <3>. QED  BY <1>1, <3>1, <3>2, <3>4
  <2>. HIDE DEF Rec, NextTable, Stored
  <2>. QED  BY <1>1, <1>2, <1>5, <2>1 DEF InFiles
<1>. QED  BY <1>6, <1>7, <1>8, <1>9 DEF IInv

\* The record is done with: the next one of the log has no copies.
LEMMA CommittedFacts ==
  ASSUME IInv, pc = "committing", log' = Committed
  PROVE  /\ log_id \in LogId /\ log' \in [LogId -> LogRec]
         /\ \A j \in LogId : j # log_id => log'[j] = log[j]
         /\ log'[log_id].cur = log[log_id].cur + 1 /\ log'[log_id].rec = NoRec
<1>1. log_id \in LogId /\ log[log_id].cur < RecMax /\ log \in [LogId -> LogRec]
  BY Typed DEF IInv, InRecord
<1>2. log[log_id].cur \in 0..RecMax + 1 /\ RecMax \in Nat
  BY <1>1, Typed, SizesAssumption DEF IInv
<1>3. [cur |-> log[log_id].cur + 1, rec |-> NoRec] \in LogRec
  BY <1>1, <1>2, NoRecTyped DEF LogRec
<1>. HIDE DEF NoRec
<1>. QED  BY <1>1, <1>3 DEF Committed

LEMMA CommittedFilled ==
  ASSUME IInv, pc = "committing", log' = Committed
  PROVE  \A i \in LogId, t \in Table : Filled(log'[i].rec.image[t])
<1>1. \A i \in LogId : log'[i].rec = log[i].rec \/ log'[i].rec = NoRec
  BY CommittedFacts
<1>2. \A i \in LogId, t \in Table : Filled(log[i].rec.image[t]) /\ Filled(NoRec.image[t])
  BY NoRecTyped DEF IInv, CopiesFilled
<1>. HIDE DEF Filled
<1>. QED  BY <1>1, <1>2

LEMMA CommitMarkStep ==
  ASSUME IInv, CommitMark
  PROVE  IInv'
<1>1. TypeOK /\ pc = "committing" /\ ~redo /\ todo = {} /\ log' = Committed
  BY DEF IInv, CommitMark
<1>2. /\ file' = file /\ live' = live /\ dirty' = dirty /\ snap' = snap /\ logger_id' = logger_id
      /\ log_id' = log_id /\ need_rotate' = need_rotate /\ pc' = "releasing" /\ redo' = redo
      /\ todo' = todo /\ left' = left /\ checkpoints' = checkpoints /\ crashes' = crashes
  BY DEF CommitMark
<1>3. log' \in [LogId -> LogRec]
  BY <1>1, CommittedFacts
<1>4. TypeOK'
  BY <1>1, <1>2, <1>3 DEF TypeOK, LogRec, RecType, Steps
<1>5. CopiesFilled'
  BY <1>1, <1>2, CommittedFilled DEF IInv, CopiesFilled
<1>6. InMemory' /\ Coherent' /\ InRecord'
  BY <1>1, <1>2 DEF IInv, InMemory, Coherent, Serving, InRecord
<1>7. InFiles'
  <2>1. \A t \in Table : Stored(t, Rec.image[t]) /\ Rec.image[t] = snap[t]
    BY <1>1 DEF IInv, InFiles, InRecord
  <2>2. \A t \in Table : Stored(t, snap[t])
    BY <2>1
  <2>. QED  BY <1>1, <1>2, <2>2 DEF InFiles, Stored
<1>. QED  BY <1>4, <1>5, <1>6, <1>7 DEF IInv

LEMMA SnapshotReleaseStep ==
  ASSUME IInv, SnapshotRelease
  PROVE  IInv'
<1>1. TypeOK /\ pc = "releasing" /\ ~redo /\ live \in [Table -> Content]
  BY DEF IInv, InMemory, SnapshotRelease
<1>2. /\ file' = file /\ log' = log /\ live' = live /\ dirty' = dirty /\ snap' = NoCopies
      /\ logger_id' = logger_id /\ log_id' = log_id /\ need_rotate' = need_rotate /\ pc' = "ready"
      /\ redo' = redo /\ todo' = todo /\ left' = left
      /\ checkpoints' = checkpoints /\ crashes' = crashes
  BY DEF SnapshotRelease
<1>3. \A t \in Table, p \in Page : p \notin dirty[t] => live[t][p] = file[t].page[p]
  <2>. SUFFICES ASSUME NEW t \in Table, NEW p \in Page, p \notin dirty[t]
                PROVE  live[t][p] = file[t].page[p]
    OBVIOUS
  <2>1. CASE snap[t][p] = NoValue
    BY <1>1, <2>1 DEF IInv, Coherent, Serving
  <2>2. CASE snap[t][p] # NoValue
    <3>1. live[t][p] = snap[t][p]
      BY <1>1, <2>2 DEF IInv, InMemory
    <3>2. Stored(t, snap[t])
      BY <1>1 DEF IInv, InFiles
    <3>. QED  BY <2>2, <3>1, <3>2 DEF Stored, Pages
  <2>. QED  BY <2>1, <2>2
<1>4. TypeOK'
  <2>. HIDE DEF NoCopies
  <2>. QED  BY <1>1, <1>2, NoRecTyped DEF TypeOK, Steps
<1>5. CopiesFilled'
  BY <1>2, NoRecTyped DEF IInv, CopiesFilled
<1>6. InMemory'
  <2>1. \A t \in Table, p \in Page : NoCopies[t][p] = NoValue
    BY DEF NoCopies, NoCopy
  <2>. QED  BY <1>1, <1>2, <2>1 DEF InMemory
<1>7. InRecord' /\ InFiles' /\ Coherent'
  BY <1>1, <1>2, <1>3 DEF InRecord, InFiles, Coherent
<1>. QED  BY <1>4, <1>5, <1>6, <1>7 DEF IInv

LEMMA RedoMarkStep ==
  ASSUME IInv, RedoMark
  PROVE  IInv'
<1>1. TypeOK /\ pc = "committing" /\ todo = {} /\ log' = Committed /\ file \in [Table -> FileRec]
  BY Typed DEF IInv, RedoMark
<1>2. /\ file' = file /\ pc' = "ready" /\ redo' = FALSE /\ todo' = todo
      /\ log_id' = 0 /\ need_rotate' = FALSE /\ logger_id' = [t \in Table |-> file[t].id]
      /\ snap' = NoCopies /\ left' = {}
      /\ live' = [t \in Table |-> file[t].page] /\ dirty' = [t \in Table |-> {Magic}]
      /\ checkpoints' = checkpoints /\ crashes' = crashes
  BY DEF RedoMark, Load
<1>3. live' \in [Table -> Content] /\ dirty' \in [Table -> SUBSET Page]
  BY <1>1, <1>2, PagesAssumption DEF FileRec
<1>4. TypeOK'
  <2>1. log' \in [LogId -> LogRec]
    BY <1>1, CommittedFacts
  <2>2. live' \in [Table -> Copy] /\ logger_id' \in [Table -> 0..MaxLog] /\ log_id' \in 0..MaxLog
    BY <1>1, <1>2, <1>3, SizesAssumption DEF Content, Copy, FileRec
  <2>. HIDE DEF NoCopies
  <2>. QED  BY <1>1, <1>2, <1>3, <2>1, <2>2, NoRecTyped DEF TypeOK, LogRec, RecType, Steps
<1>5. CopiesFilled'
  BY <1>1, <1>2, CommittedFilled, NoRecTyped DEF IInv, CopiesFilled
<1>6. InMemory'
  <2>1. \A t \in Table, p \in Page : NoCopies[t][p] = NoValue
    BY DEF NoCopies, NoCopy
  <2>. QED  BY <1>2, <1>3, <2>1 DEF InMemory
<1>7. InRecord' /\ InFiles' /\ Coherent'
  BY <1>2 DEF InRecord, InFiles, Coherent
<1>. QED  BY <1>4, <1>5, <1>6, <1>7 DEF IInv

LEMMA CrashStep ==
  ASSUME IInv, Crash \/ PrepareNoFile
  PROVE  IInv'
<1>1. TypeOK
  BY DEF IInv
<1>2. /\ file' = file /\ log' = log /\ live' = NoCopies /\ dirty' = NoPages /\ snap' = NoCopies
      /\ logger_id' = NoIds /\ log_id' = 0 /\ need_rotate' = FALSE /\ redo' = FALSE
      /\ todo' = {} /\ left' = {} /\ pc' = "down" /\ checkpoints' = checkpoints
  BY DEF Crash, PrepareNoFile, Die
<1>3. TypeOK'
  <2>1. crashes' \in 0..MaxCrash /\ 0 \in 0..MaxLog
    BY <1>1, SizesAssumption DEF Crash, PrepareNoFile, TypeOK
  <2>2. NoPages \in [Table -> SUBSET Page] /\ NoIds \in [Table -> 0..MaxLog]
    BY <2>1 DEF NoPages, NoIds
  <2>. HIDE DEF NoCopies, NoPages, NoIds
  <2>. QED  BY <1>1, <1>2, <2>1, <2>2, NoRecTyped DEF TypeOK, Steps
<1>4. CopiesFilled'
  BY <1>2, NoRecTyped DEF IInv, CopiesFilled
<1>5. InMemory' /\ InRecord' /\ InFiles' /\ Coherent'
  BY <1>2 DEF InMemory, InRecord, InFiles, Coherent, Serving
<1>. QED  BY <1>3, <1>4, <1>5 DEF IInv

LEMMA NextIInv == IInv /\ [Next]_vars => IInv'
<1>. SUFFICES ASSUME IInv, [Next]_vars  PROVE IInv'
  OBVIOUS
<1>1. CASE Start
  BY <1>1, StartStep
<1>2. CASE CommitSkip
  BY <1>2, CommitSkipStep
<1>3. CASE CommitOpen
  BY <1>3, CommitOpenStep
<1>4. ASSUME NEW p \in Page, CommitPage(p)  PROVE IInv'
  BY <1>4, CommitPageStep
<1>5. CASE CommitMagic
  BY <1>5, CommitMagicStep
<1>6. CASE RedoMark
  BY <1>6, RedoMarkStep
<1>7. CASE SnapshotCreate
  BY <1>7, SnapshotCreateStep
<1>8. CASE PrepareBegin
  BY <1>8, PrepareBeginStep
<1>9. CASE PrepareTable
  BY <1>9, PrepareTableStep
<1>10. CASE PrepareMark
  BY <1>10, PrepareMarkStep
<1>11. CASE CommitMark
  BY <1>11, CommitMarkStep
<1>12. CASE SnapshotRelease
  BY <1>12, SnapshotReleaseStep
<1>13. CASE Crash \/ PrepareNoFile
  BY <1>13, CrashStep
<1>14. ASSUME NEW t \in Table, NEW p \in Page, NEW v \in Value, Write(t, p, v)  PROVE IInv'
  BY <1>14, WriteStep
<1>15. CASE UNCHANGED vars
  BY <1>15, StutterStep
<1>. QED
  BY <1>1, <1>2, <1>3, <1>4, <1>5, <1>6, <1>7, <1>8, <1>9, <1>10, <1>11, <1>12, <1>13, <1>14, <1>15
     DEF Next, Recovery, Checkpoint

----------------------------------------------------------------------------
(* Theorems about old and new installations.                               *)

\* The inductive invariant holds in both: what is in memory, in the record and
\* in the files agree at every step of a checkpoint and of a redo (db.h).
THEOREM Invariance == (Spec => []IInv) /\ (FreshSpec => []IInv)
<1>1. Init => IInv
  BY InitIInv
<1>2. FreshInit => IInv
  BY InitIInv
<1>3. IInv /\ [Next]_vars => IInv'
  BY NextIInv
<1>. QED  BY <1>1, <1>2, <1>3, PTL DEF Spec, FreshSpec

\* The state has its type; a log file never gets more records than its first
\* page has room for, but for the one a start steps over.
THEOREM TypeCorrect == (Spec => []TypeOK) /\ (FreshSpec => []TypeOK)
<1>1. IInv => TypeOK
  BY DEF IInv
<1>. QED  BY <1>1, Invariance, PTL

\* A page the cache may drop is in the data file as handlers see it
\* (is_clean, db.h:480), after any number of checkpoints and crashes.
THEOREM CacheCoherent == (Spec => []Coherent) /\ (FreshSpec => []Coherent)
<1>1. IInv => Coherent
  BY DEF IInv
<1>. QED  BY <1>1, Invariance, PTL

\* Of the steps of a redo only the last leads to a server that is ready.
LEMMA RedoEnds ==
  ASSUME IInv, [Next]_vars, redo, pc' = "ready"
  PROVE  RedoMark
<1>1. pc \in {"committing", "restoring"} /\ pc # "ready" /\ pc # "down"
  BY DEF IInv, InMemory
<1>2. ~UNCHANGED vars
  BY <1>1 DEF vars
<1>3. ~Start /\ ~SnapshotCreate /\ ~PrepareBegin /\ ~PrepareTable /\ ~PrepareMark /\ ~SnapshotRelease
  BY <1>1 DEF Start, SnapshotCreate, PrepareBegin, PrepareTable, PrepareMark, SnapshotRelease
<1>4. ~CommitSkip /\ ~CommitOpen /\ ~CommitMagic /\ ~CommitMark /\ ~Crash /\ ~PrepareNoFile
  BY <1>1 DEF CommitSkip, CommitOpen, CommitMagic, CommitMark, Crash, PrepareNoFile, Die
<1>5. /\ ~ \E p \in Page : CommitPage(p)
      /\ ~ \E t \in Table, p \in Page, v \in Value : Write(t, p, v)
  BY <1>1 DEF CommitPage, Write, Serving
<1>. QED  BY <1>2, <1>3, <1>4, <1>5 DEF Next, Recovery, Checkpoint

LEMMA RedoneStep ==
  ASSUME IInv, RedoMark, NEW t \in Table
  PROVE  file[t].page = IF logger_id[t] = 0 THEN live[t] ELSE Overlay(live[t], Rec.image[t])
<1>1. /\ TypeOK /\ pc = "committing" /\ redo /\ todo = {}
      /\ file[t].page \in Content /\ live[t] \in Content
  BY Typed DEF IInv, RedoMark, InMemory
<1>2. \A p \in Page :
        \/ file[t].page[p] = live[t][p]
        \/ /\ logger_id[t] # 0 /\ p \in Pages(Rec.image[t])
           /\ file[t].page[p] = Rec.image[t][p]
  BY <1>1 DEF IInv, InFiles
<1>3. logger_id[t] = 0 \/ Stored(t, Rec.image[t])
  BY <1>1 DEF IInv, InFiles
<1>. HIDE DEF Rec
<1>4. CASE logger_id[t] = 0
  BY <1>1, <1>2, <1>4 DEF Content
<1>5. CASE logger_id[t] # 0
  <2>1. \A p \in Page : file[t].page[p] = Overlay(live[t], Rec.image[t])[p]
    BY <1>2, <1>3, <1>5 DEF Overlay, Stored, Pages
  <2>. QED  BY <1>1, <1>5, <2>1 DEF Content, Overlay
<1>. QED  BY <1>4, <1>5

\* A redo that ends has brought every table to the record, all its pages, and
\* passed over none but those never committed (redo, db.h:2091-2110).
THEOREM RedoIsComplete == (Spec => Redone) /\ (FreshSpec => Redone)
<1>. DEFINE R == redo /\ pc' = "ready" =>
              \A t \in Table : file[t].page =
                IF logger_id[t] = 0 THEN live[t] ELSE Overlay(live[t], Rec.image[t])
<1>1. IInv /\ [Next]_vars => [R]_vars
  BY RedoEnds, RedoneStep
<1>2. Spec => [][R]_vars
  BY <1>1, Invariance, PTL DEF Spec
<1>3. FreshSpec => [][R]_vars
  BY <1>1, Invariance, PTL DEF FreshSpec
<1>. QED  BY <1>2, <1>3 DEF Redone

----------------------------------------------------------------------------
(* The identities in the data files.                                       *)

LEMMA InitIds == Init => IdsInv
<1>. SUFFICES ASSUME Init  PROVE IdsInv
  OBVIOUS
<1>1. TypeOK
  BY InitIInv DEF IInv
<1>2. pc = "down" /\ ~redo /\ \A t \in Table : file[t].id = 1
  BY DEF Init, InitFiles, Stopped
<1>3. \A t \in Table : file[t].id = LastId
  BY <1>1, <1>2, LastIdFacts
<1>. QED  BY <1>2, <1>3 DEF IdsInv, RotationInterrupted

\* What IdsInv says in the terms of its parts.
LEMMA IdsFacts ==
  ASSUME CheckpointedInv
  PROVE  /\ TypeOK /\ IInv /\ IdsInv /\ LastId = Last(file) /\ LastId \in LogId /\ LastId # 0
         /\ \A t \in Table : file[t].id <= LastId /\ file[t].id \in 1..MaxLog
         /\ Pending <=> log[LastId].cur < RecMax /\ log[LastId].rec.result = "prepared"
<1>1. TypeOK /\ IInv /\ IdsInv /\ \A t \in Table : file[t].id # 0
  BY DEF CheckpointedInv, IInv, IdsInv
<1>2. /\ LastId = Last(file) /\ LastId \in 0..MaxLog
      /\ \E t \in Table : file[t].id = LastId
      /\ \A t \in Table : file[t].id <= LastId /\ file[t].id \in 0..MaxLog
  BY <1>1, LastIdFacts, Typed
<1>. HIDE DEF LastId
<1>3. LastId \in LogId /\ LastId # 0 /\ \A t \in Table : file[t].id \in 1..MaxLog
  BY <1>1, <1>2, SizesAssumption DEF LogId
<1>. QED  BY <1>1, <1>2, <1>3 DEF Pending

\* Steps that leave files and logs alone.
LEMMA SameFiles ==
  ASSUME file' = file, log' = log
  PROVE  /\ LastId' = LastId /\ Pending' = Pending /\ Agree' = Agree
         /\ RotationInterrupted' = RotationInterrupted
BY DEF LastId, Pending, Agree, RotationInterrupted

\* Logs none of which is the one a start takes.
LEMMA OtherLog ==
  ASSUME TypeOK, file' = file, log'[LastId] = log[LastId]
  PROVE  LastId' = LastId /\ Pending' = Pending /\ Agree' = Agree
BY DEF LastId, Pending, Agree

LEMMA AgreeRotation == Agree => RotationInterrupted
BY DEF Agree, RotationInterrupted

LEMMA StartFacts ==
  ASSUME CheckpointedInv, Start
  PROVE  /\ pc = "down" /\ file' = file /\ log_id' = LastId /\ LastId' = LastId
         /\ \A t \in Table : logger_id'[t] # 0
         /\ \/ /\ ~Pending /\ ~Pending' /\ pc' = "ready" /\ redo' = FALSE
            \/ /\ Pending /\ pc' = "committing" /\ redo' = TRUE /\ todo' = Table /\ log' = log
<1>1. /\ TypeOK /\ LastId \in LogId /\ LastId # 0 /\ pc = "down" /\ file' = file
      /\ \A t \in Table : file[t].id # 0
      /\ Pending <=> log[LastId].cur < RecMax /\ log[LastId].rec.result = "prepared"
  BY IdsFacts DEF IdsInv, Start
<1>2. LastId' = LastId
  BY <1>1 DEF LastId
<1>3. OpenLog(LastId) /\ \A t \in Table : logger_id'[t] # 0
  <2>. HIDE DEF LastId
  <2>. QED  BY <1>1 DEF Start
<1>4. /\ log_id' = LastId
      /\ \/ /\ pc' = "ready" /\ redo' = FALSE
            /\ ~(log[LastId].cur < RecMax /\ log[LastId].rec.result = "prepared")
            /\ ~(log'[LastId].cur < RecMax /\ log'[LastId].rec.result = "prepared")
         \/ /\ pc' = "committing" /\ redo' = TRUE /\ todo' = Table /\ log' = log
            /\ log[LastId].cur < RecMax /\ log[LastId].rec.result = "prepared"
  <2>. HIDE DEF LastId
  <2>. QED  BY <1>1, <1>3, OpenLogFacts
<1>. HIDE DEF LastId
<1>. QED  BY <1>1, <1>2, <1>3, <1>4 DEF Pending

LEMMA StartIds ==
  ASSUME CheckpointedInv, Start
  PROVE  IdsInv'
<1>1. /\ IdsInv /\ pc = "down" /\ file' = file /\ log_id' = LastId /\ LastId' = LastId
      /\ \A t \in Table : logger_id'[t] # 0
  BY IdsFacts, StartFacts
<1>. HIDE DEF LastId
<1>2. CASE ~Pending /\ ~Pending' /\ pc' = "ready" /\ redo' = FALSE
  <2>1. 0 < RecMax /\ LastId # 0
    BY IdsFacts, SizesAssumption
  <2>2. Agree
    BY <1>1, <1>2, <2>1 DEF IdsInv, Agree, RotationInterrupted, Pending
  <2>3. Agree' /\ RotationInterrupted'
    BY <1>1, <2>2 DEF Agree, RotationInterrupted
  <2>. QED  BY <1>1, <1>2, <2>3 DEF IdsInv
<1>3. CASE Pending /\ pc' = "committing" /\ redo' = TRUE /\ todo' = Table /\ log' = log
  <2>1. RotationInterrupted'
    BY <1>1, <1>3, SameFiles DEF IdsInv
  <2>. QED  BY <1>1, <1>3, <2>1 DEF IdsInv
<1>. QED  BY <1>2, <1>3, StartFacts

\* A new log has a name after all in use.
LEMMA NewIdFacts ==
  ASSUME TypeOK, NewId \in LogId
  PROVE  NewId > LastId
<1>. DEFINE S == {log_id} \cup {file[t].id : t \in Table}
<1>1. log_id \in 0..MaxLog /\ MaxLog \in Nat /\ \A t \in Table : file[t].id \in 0..MaxLog
  BY Typed, SizesAssumption
<1>2. S # {} /\ S \in SUBSET Nat /\ \A x \in S : x <= MaxLog
  BY <1>1
<1>3. Highest(S) \in S /\ \A y \in S : y <= Highest(S)
  BY <1>1, <1>2, HighestInSet
<1>4. PICK t \in Table : file[t].id = LastId
  BY LastIdFacts
<1>. DEFINE h == Highest(S)
<1>5. h \in Nat /\ LastId \in Nat /\ LastId <= h
  BY <1>1, <1>2, <1>3, <1>4
<1>6. NewId = h + 1
  BY DEF NewId
<1>. HIDE DEF h, LastId
<1>. QED  BY <1>5, <1>6

LEMMA PrepareBeginIds ==
  ASSUME CheckpointedInv, PrepareBegin
  PROVE  IdsInv' /\ Agree' /\ ~Pending /\ ~Pending' /\ LastId' = LastId /\ file' = file
<1>1. /\ TypeOK /\ IInv /\ IdsInv /\ LastId \in LogId /\ file' = file /\ redo' = redo
      /\ pc = "snapped" /\ ~redo /\ log_id' \in LogId
  BY IdsFacts, PrepareBeginFacts DEF PrepareBegin
<1>2. PICK n \in 0..RecMax + 1 : n < RecMax /\ BeginRec(log_id', n)
  BY <1>1, PrepareBeginFacts
<1>3. /\ \A j \in LogId : j # log_id' => log'[j] = log[j]
      /\ log'[log_id'].rec.result # "prepared" /\ pc' = "preparing"
  <2>1. /\ \A j \in LogId : j # log_id' => log'[j] = log[j]
        /\ log'[log_id'].rec = [NoRec EXCEPT !.result = "begun"] /\ pc' = "preparing"
    BY <1>1, <1>2, BeginRecFacts
  <2>. QED  BY <2>1, NoRecTyped
<1>4. LastId' = LastId /\ Agree' = Agree
  BY <1>1 DEF LastId, Agree
<1>5. Agree /\ ~Pending /\ (log_id # 0 => log_id = LastId)
  BY <1>1 DEF IdsInv
<1>6. ~Pending'
  <2>1. log'[LastId].rec.result = "prepared" => log'[LastId] = log[LastId]
    BY <1>1, <1>3
  <2>. HIDE DEF LastId
  <2>. QED  BY <1>4, <1>5, <2>1 DEF Pending
<1>7. log_id' = LastId \/ (log_id' > LastId /\ log'[log_id'].cur = 0)
  <2>1. CASE log_id # 0 /\ log_id' = log_id
    BY <1>5, <2>1
  <2>2. CASE log_id' = NewId /\ BeginRec(log_id', 0)
    <3>1. NewId > LastId
      BY <1>1, <2>2, NewIdFacts
    <3>2. 0 \in 0..RecMax + 1
      BY SizesAssumption
    <3>3. log'[log_id'].cur = 0
      BY <1>1, <2>2, <3>2, BeginRecFacts
    <3>. QED  BY <2>2, <3>1, <3>3
  <2>. QED  BY <1>1, <2>1, <2>2, PrepareBeginFacts
<1>8. RotationInterrupted'
  BY <1>4, <1>5 DEF Agree, RotationInterrupted
<1>. HIDE DEF LastId
<1>. QED  BY <1>1, <1>3, <1>4, <1>5, <1>6, <1>7, <1>8 DEF IdsInv

LEMMA PrepareTableIds ==
  ASSUME CheckpointedInv, PrepareTable
  PROVE  IdsInv' /\ ~Pending /\ ~Pending' /\ LastId' = LastId
<1>1. /\ TypeOK /\ IInv /\ IdsInv /\ LastId \in LogId /\ file' = file /\ redo' = redo /\ pc' = pc
  BY IdsFacts DEF PrepareTable
<1>2. /\ pc = "preparing" /\ ~redo /\ log_id \in LogId /\ log_id' = log_id
      /\ \A j \in LogId : j # log_id => log'[j] = log[j]
      /\ log'[log_id].cur = log[log_id].cur /\ log'[log_id].rec.result = "begun"
  BY <1>1, PrepareTableFacts
<1>3. LastId' = LastId /\ Agree' = Agree
  BY <1>1 DEF LastId, Agree
<1>4. Agree /\ ~Pending /\ (log_id = LastId \/ (log_id > LastId /\ log[log_id].cur = 0))
  BY <1>1, <1>2 DEF IdsInv
<1>5. ~Pending'
  <2>1. log'[LastId].rec.result = "prepared" => log'[LastId] = log[LastId]
    BY <1>1, <1>2
  <2>. HIDE DEF LastId
  <2>. QED  BY <1>3, <1>4, <2>1 DEF Pending
<1>6. RotationInterrupted'
  BY <1>3, <1>4 DEF Agree, RotationInterrupted
<1>. HIDE DEF LastId
<1>. QED  BY <1>1, <1>2, <1>3, <1>4, <1>5, <1>6 DEF IdsInv

LEMMA PrepareMarkFacts ==
  ASSUME CheckpointedInv, PrepareMark
  PROVE  /\ pc = "preparing" /\ ~redo /\ log_id \in LogId /\ log_id' = log_id /\ Agree /\ ~Pending
         /\ \A j \in LogId : j # log_id => log'[j] = log[j]
         /\ log'[log_id].cur = log[log_id].cur /\ log'[log_id].cur < RecMax
         /\ log'[log_id].rec.result = "prepared"
         /\ \A t \in Table : log'[log_id].rec.image[t] = snap[t]
         /\ LastId' = LastId /\ Agree'
<1>1. /\ TypeOK /\ IInv /\ IdsInv /\ pc = "preparing" /\ ~redo /\ log_id \in LogId
      /\ log \in [LogId -> LogRec] /\ todo = {} /\ file' = file /\ log_id' = log_id
      /\ log' = [log EXCEPT ![log_id].rec.result = "prepared"]
  BY IdsFacts, Typed DEF IInv, PrepareMark, InMemory, InRecord
<1>2. /\ \A j \in LogId : j # log_id => log'[j] = log[j]
      /\ log'[log_id].cur = log[log_id].cur /\ log'[log_id].rec.result = "prepared"
      /\ log'[log_id].rec.image = log[log_id].rec.image
  BY <1>1, SetResult
<1>3. log[log_id].cur < RecMax /\ \A t \in Table : log[log_id].rec.image[t] = snap[t]
  BY <1>1 DEF IInv, InRecord, Rec
<1>4. LastId' = LastId /\ Agree' = Agree
  BY <1>1 DEF LastId, Agree
<1>5. Agree /\ ~Pending
  BY <1>1 DEF IdsInv
<1>. HIDE DEF LastId, Agree
<1>. QED  BY <1>1, <1>2, <1>3, <1>4, <1>5

LEMMA PrepareMarkIds ==
  ASSUME CheckpointedInv, PrepareMark
  PROVE  IdsInv' /\ (LastId # log_id => ~Pending')
<1>1. /\ IInv /\ IdsInv /\ LastId \in LogId /\ LastId # 0 /\ \A t \in Table : file[t].id # 0
      /\ file' = file /\ pc' = "committing" /\ redo' = redo /\ todo' = Table
  BY IdsFacts DEF PrepareMark, IdsInv
<1>2. /\ pc = "preparing" /\ ~redo /\ log_id \in LogId /\ log_id' = log_id /\ Agree /\ ~Pending
      /\ \A j \in LogId : j # log_id => log'[j] = log[j]
      /\ log'[log_id].cur = log[log_id].cur
      /\ LastId' = LastId /\ Agree'
  BY PrepareMarkFacts
<1>3. log_id = LastId \/ (log_id > LastId /\ log[log_id].cur = 0)
  BY <1>1, <1>2 DEF IdsInv
<1>. HIDE DEF LastId
<1>4. LastId # log_id => ~Pending'
  BY <1>1, <1>2 DEF Pending
<1>5. \A t \in Table : file'[t].id = LastId /\ LastId <= log_id
  BY <1>1, <1>2, <1>3, SizesAssumption DEF Agree, LogId
<1>6. RotationInterrupted'
  BY <1>2 DEF Agree, RotationInterrupted
<1>. QED  BY <1>1, <1>2, <1>3, <1>4, <1>5, <1>6 DEF IdsInv

\* No table is passed over when all have been committed before.
LEMMA NoCommitSkip ==
  ASSUME CheckpointedInv, CommitSkip
  PROVE  FALSE
<1>1. /\ TypeOK /\ IdsInv /\ redo /\ logger_id[NextTable] = 0 /\ todo \in SUBSET Table /\ todo # {}
  BY IdsFacts, Typed DEF CommitSkip
<1>2. NextTable \in Table
  BY <1>1, NextInTodo
<1>. QED  BY <1>1, <1>2 DEF IdsInv

\* Once a table names the open log, it is the one a start takes.
LEMMA LastIsOpen ==
  ASSUME CheckpointedInv, pc \in {"committing", "restoring"}
  PROVE  /\ \A t \in Table : file[t].id <= log_id
         /\ (pc = "restoring" \/ redo \/ todo = {}) => LastId = log_id
         /\ LastId = log_id => Pending
<1>1. /\ TypeOK /\ IInv /\ IdsInv /\ LastId = Last(file) /\ todo \in SUBSET Table
      /\ file \in [Table -> FileRec] /\ \A t \in Table : file[t].id <= LastId
      /\ Pending <=> log[LastId].cur < RecMax /\ log[LastId].rec.result = "prepared"
  BY IdsFacts, Typed
<1>2. log[log_id].cur < RecMax /\ log[log_id].rec.result = "prepared"
  BY <1>1 DEF IInv, InRecord, Rec
<1>3. \A t \in Table : file[t].id <= log_id
  <2>. HIDE DEF LastId
  <2>. QED  BY <1>1 DEF IdsInv
<1>4. ASSUME NEW u \in Table, file[u].id = log_id  PROVE LastId = log_id
  BY <1>1, <1>3, <1>4, LastIs
<1>5. ASSUME pc = "restoring"  PROVE LastId = log_id
  <2>1. NextTable \in Table /\ file[NextTable].id = log_id
    BY <1>1, <1>5, NextInTodo DEF IdsInv, IInv, InRecord
  <2>. QED  BY <1>4, <2>1
<1>6. ASSUME todo = {}, ~redo  PROVE LastId = log_id
  <2>1. 1 \in Table
    BY SizesAssumption DEF Table
  <2>2. file[1].id = log_id
    BY <1>1, <1>6, <2>1 DEF IdsInv
  <2>. QED  BY <1>4, <2>1, <2>2
<1>7. redo => LastId = log_id
  BY <1>1 DEF IdsInv
<1>. HIDE DEF LastId
<1>. QED  BY <1>1, <1>2, <1>3, <1>5, <1>6, <1>7

LEMMA CommitOpenIds ==
  ASSUME CheckpointedInv, CommitOpen
  PROVE  IdsInv' /\ LastId' = log_id /\ Pending' /\ log' = log /\ Rec' = Rec
<1>1. /\ IInv /\ IdsInv /\ pc = "committing" /\ \A t \in Table : file[t].id <= log_id
      /\ \A t \in Table : file[t].id \in 1..MaxLog /\ file[t].id # 0
      /\ log' = log /\ redo' = redo /\ log_id' = log_id /\ log_id # 0 /\ log_id \in LogId
  BY IdsFacts, LastIsOpen, CommitOpenFacts, SizesAssumption DEF CommitOpen, LogId
<1>2. /\ NextTable \in Table /\ NextTable \in todo
      /\ file' \in [Table -> FileRec]
      /\ \A t \in Table : /\ file'[t].id = IF t = NextTable THEN log_id ELSE file[t].id
                          /\ file'[t].page = file[t].page
      /\ \A t \in Table : logger_id'[t] = IF t = NextTable THEN log_id ELSE logger_id[t]
  BY <1>1, CommitOpenFacts
<1>3. \/ pc' = "committing" /\ todo' = todo \ {NextTable}
      \/ pc' = "restoring" /\ todo' = todo /\ NextTable' = NextTable
  BY <1>1, CommitOpenFacts DEF NextTable
<1>4. LastId' = log_id
  <2>. DEFINE g == file'
              n == NextTable
  <2>1. g \in [Table -> FileRec] /\ n \in Table /\ g[n].id = log_id /\ \A t \in Table : g[t].id <= g[n].id
    BY <1>1, <1>2, SizesAssumption DEF LogId
  <2>. HIDE DEF g, n
  <2>2. Last(g) = log_id
    BY <2>1, LastIs
  <2>. QED  BY <2>2 DEF g, LastId, Last
<1>5. log[log_id].cur < RecMax /\ log[log_id].rec.result = "prepared" /\ Rec' = Rec
  BY <1>1 DEF IInv, InRecord, Rec
<1>6. Pending'
  BY <1>1, <1>4, <1>5 DEF Pending
<1>. HIDE DEF NextTable, LastId
<1>7. \A t \in Table \ todo' : file'[t].id = log_id
  BY <1>1, <1>2, <1>3 DEF IdsInv
<1>8. \A t \in Table : file'[t].id # 0 /\ file'[t].id <= log_id
  BY <1>1, <1>2, SizesAssumption DEF LogId
<1>9. redo => \A t \in Table : logger_id'[t] # 0
  BY <1>1, <1>2 DEF IdsInv
<1>10. pc' = "restoring" => file'[NextTable'].id = log_id
  BY <1>2, <1>3
<1>11. (\A t \in Table : file'[t].id = log_id) \/ log[log_id].cur = 0
  <2>1. CASE redo
    <3>1. log_id = LastId
      BY <1>1, <2>1 DEF IdsInv
    <3>2. (\A t \in Table : file[t].id = log_id) \/ log[log_id].cur = 0
      BY <1>1, <3>1 DEF IdsInv, RotationInterrupted
    <3>. QED  BY <1>2, <3>2
  <2>2. CASE ~redo
    BY <1>1, <1>2, <2>2 DEF IdsInv
  <2>. QED  BY <2>1, <2>2
<1>12. RotationInterrupted'
  BY <1>1, <1>4, <1>5, <1>11 DEF RotationInterrupted
<1>13. IdsInv'
  BY <1>1, <1>3, <1>4, <1>7, <1>8, <1>9, <1>10, <1>11, <1>12 DEF IdsInv
<1>. QED  BY <1>1, <1>4, <1>5, <1>6, <1>13

\* The pages of a record leave the identities as they are.
LEMMA SameIds ==
  ASSUME CheckpointedInv, log' = log, file' \in [Table -> FileRec],
         \A t \in Table : file'[t].id = file[t].id
  PROVE  LastId' = LastId /\ Pending' = Pending /\ RotationInterrupted'
<1>1. {file'[t].id : t \in Table} = {file[t].id : t \in Table}
  BY Zenon
<1>2. LastId' = LastId
  BY <1>1 DEF LastId
<1>3. RotationInterrupted
  BY DEF CheckpointedInv, IdsInv
<1>. HIDE DEF LastId
<1>4. RotationInterrupted'
  BY <1>2, <1>3 DEF RotationInterrupted
<1>. QED  BY <1>2, <1>4 DEF Pending

LEMMA CommitPageIds ==
  ASSUME CheckpointedInv, NEW p \in Page, CommitPage(p)
  PROVE  IdsInv' /\ LastId' = LastId /\ Pending' = Pending /\ log' = log
<1>1. /\ IInv /\ IdsInv /\ pc = "restoring" /\ p \in Pages(Rec.image[NextTable])
      /\ file' = [file EXCEPT ![NextTable].page[p] = Rec.image[NextTable][p]]
  BY IdsFacts DEF CommitPage, IInv, InRecord
<1>2. file' \in [Table -> FileRec] /\ NextTable \in Table /\ \A t \in Table : file'[t].id = file[t].id
  BY <1>1, RestoreFacts
<1>3. /\ log' = log /\ pc' = pc /\ redo' = redo /\ todo' = todo /\ logger_id' = logger_id
      /\ log_id' = log_id /\ NextTable' = NextTable
  BY DEF CommitPage, NextTable
<1>4. LastId' = LastId /\ Pending' = Pending /\ RotationInterrupted'
  BY <1>2, <1>3, SameIds
<1>. HIDE DEF NextTable, LastId, Pending
<1>5. IdsInv'
  BY <1>1, <1>2, <1>3, <1>4 DEF IdsInv, Agree
<1>. QED  BY <1>3, <1>4, <1>5

LEMMA CommitMagicIds ==
  ASSUME CheckpointedInv, CommitMagic
  PROVE  IdsInv' /\ LastId' = LastId /\ Pending' = Pending /\ log' = log
<1>1. /\ IInv /\ IdsInv /\ pc = "restoring" /\ Magic \in Pages(Rec.image[NextTable])
      /\ file' = [file EXCEPT ![NextTable].page[Magic] = Rec.image[NextTable][Magic]]
  BY IdsFacts, CommitMagicFacts DEF CommitMagic
<1>2. file' \in [Table -> FileRec] /\ NextTable \in Table /\ \A t \in Table : file'[t].id = file[t].id
  BY <1>1, RestoreFacts
<1>3. /\ log' = log /\ pc' = "committing" /\ redo' = redo /\ todo' = todo \ {NextTable}
      /\ logger_id' = logger_id /\ log_id' = log_id
  BY DEF CommitMagic
<1>4. LastId' = LastId /\ Pending' = Pending /\ RotationInterrupted'
  BY <1>2, <1>3, SameIds
<1>. HIDE DEF NextTable, LastId, Pending
<1>5. \A t \in Table \ todo' : file'[t].id = log_id
  BY <1>1, <1>2, <1>3 DEF IdsInv
<1>6. IdsInv'
  BY <1>1, <1>2, <1>3, <1>4, <1>5 DEF IdsInv, Agree
<1>. QED  BY <1>3, <1>4, <1>6

\* A commit or a redo that ends leaves no record to repeat.
LEMMA CommittedIds ==
  ASSUME CheckpointedInv, pc = "committing", todo = {}, log' = Committed, file' = file
  PROVE  Agree /\ Agree' /\ LastId = log_id /\ LastId' = LastId /\ Pending /\ ~Pending' /\ RotationInterrupted'
<1>1. IInv /\ IdsInv /\ LastId = log_id /\ Pending
  BY IdsFacts, LastIsOpen
<1>2. \A t \in Table : file[t].id = log_id
  BY <1>1 DEF IdsInv
<1>3. log'[log_id].rec.result = "null"
  BY <1>1, CommittedFacts, NoRecTyped
<1>4. LastId' = LastId
  BY DEF LastId
<1>. HIDE DEF LastId
<1>5. Agree /\ Agree'
  BY <1>1, <1>2, <1>4 DEF Agree
<1>6. RotationInterrupted'
  BY <1>5 DEF Agree, RotationInterrupted
<1>7. ~Pending'
  BY <1>1, <1>3, <1>4 DEF Pending
<1>. QED  BY <1>1, <1>4, <1>5, <1>6, <1>7

LEMMA CommitMarkIds ==
  ASSUME CheckpointedInv, CommitMark
  PROVE  IdsInv'
<1>1. /\ IdsInv /\ pc = "committing" /\ ~redo /\ todo = {} /\ log' = Committed /\ file' = file
      /\ log_id' = log_id /\ pc' = "releasing" /\ redo' = redo
  BY IdsFacts DEF CommitMark
<1>2. Agree' /\ LastId = log_id /\ LastId' = LastId /\ ~Pending' /\ RotationInterrupted'
  BY <1>1, CommittedIds
<1>. HIDE DEF LastId, Agree
<1>. QED  BY <1>1, <1>2 DEF IdsInv

LEMMA RedoMarkIds ==
  ASSUME CheckpointedInv, RedoMark
  PROVE  IdsInv'
<1>1. /\ IdsInv /\ pc = "committing" /\ todo = {} /\ log' = Committed /\ file' = file
      /\ log_id' = 0 /\ pc' = "ready" /\ redo' = FALSE
  BY IdsFacts DEF RedoMark
<1>2. Agree' /\ ~Pending' /\ RotationInterrupted'
  BY <1>1, CommittedIds
<1>. HIDE DEF LastId, Agree
<1>. QED  BY <1>1, <1>2 DEF IdsInv

\* Steps that change neither files nor identities.
LEMMA QuietIds ==
  ASSUME CheckpointedInv,
         \/ UNCHANGED vars
         \/ SnapshotCreate \/ SnapshotRelease
         \/ Crash \/ PrepareNoFile
         \/ \E t \in Table, p \in Page, v \in Value : Write(t, p, v)
  PROVE  IdsInv' /\ file' = file /\ log' = log /\ LastId' = LastId /\ Pending' = Pending
<1>1. IInv /\ IdsInv /\ file' = file /\ log' = log
  BY IdsFacts DEF vars, mem, SnapshotCreate, SnapshotRelease, Crash, PrepareNoFile, Die, Write
<1>2. /\ LastId' = LastId /\ Pending' = Pending /\ Agree' = Agree
      /\ RotationInterrupted' = RotationInterrupted
  BY <1>1, SameFiles
<1>. HIDE DEF LastId, Pending, Agree, RotationInterrupted
<1>3. CASE UNCHANGED vars
  <2>1. NextTable' = NextTable
    BY <1>3 DEF vars, mem, NextTable
  <2>. QED  BY <1>1, <1>2, <1>3, <2>1 DEF vars, mem, IdsInv
<1>4. CASE SnapshotCreate
  <2>1. ~redo
    BY <1>1, <1>4 DEF IInv, InMemory, SnapshotCreate
  <2>. QED  BY <1>1, <1>2, <1>4, <2>1 DEF SnapshotCreate, IdsInv
<1>5. CASE SnapshotRelease
  <2>1. ~redo
    BY <1>1, <1>5 DEF IInv, InMemory, SnapshotRelease
  <2>. QED  BY <1>1, <1>2, <1>5, <2>1 DEF SnapshotRelease, IdsInv
<1>6. CASE Crash \/ PrepareNoFile
  BY <1>1, <1>2, <1>6 DEF Crash, PrepareNoFile, Die, IdsInv
<1>7. ASSUME NEW t \in Table, NEW p \in Page, NEW v \in Value, Write(t, p, v)  PROVE IdsInv'
  <2>1. NextTable' = NextTable
    BY <1>7 DEF Write, NextTable
  <2>. HIDE DEF NextTable
  <2>. QED  BY <1>1, <1>2, <1>7, <2>1 DEF Write, IdsInv
<1>. QED  BY <1>1, <1>2, <1>3, <1>4, <1>5, <1>6, <1>7

LEMMA NextIds == CheckpointedInv /\ [Next]_vars => CheckpointedInv'
<1>. SUFFICES ASSUME CheckpointedInv, [Next]_vars  PROVE IdsInv'
  BY NextIInv DEF CheckpointedInv
<1>1. CASE Start
  BY <1>1, StartIds
<1>2. CASE CommitSkip
  BY <1>2, NoCommitSkip
<1>3. CASE CommitOpen
  BY <1>3, CommitOpenIds
<1>4. ASSUME NEW p \in Page, CommitPage(p)  PROVE IdsInv'
  BY <1>4, CommitPageIds
<1>5. CASE CommitMagic
  BY <1>5, CommitMagicIds
<1>6. CASE RedoMark
  BY <1>6, RedoMarkIds
<1>7. CASE PrepareBegin
  BY <1>7, PrepareBeginIds
<1>8. CASE PrepareTable
  BY <1>8, PrepareTableIds
<1>9. CASE PrepareMark
  BY <1>9, PrepareMarkIds
<1>10. CASE CommitMark
  BY <1>10, CommitMarkIds
<1>11. CASE \/ UNCHANGED vars \/ SnapshotCreate \/ SnapshotRelease \/ Crash \/ PrepareNoFile
            \/ \E t \in Table, p \in Page, v \in Value : Write(t, p, v)
  BY <1>11, QuietIds
<1>. QED
  BY <1>1, <1>2, <1>3, <1>4, <1>5, <1>6, <1>7, <1>8, <1>9, <1>10, <1>11
     DEF Next, Recovery, Checkpoint

\* The inductive invariant of an installation that has been checkpointed.
THEOREM CheckpointedInvariance == Spec => []CheckpointedInv
<1>1. Init => CheckpointedInv
  BY InitIInv, InitIds DEF CheckpointedInv
<1>. QED  BY <1>1, NextIds, PTL DEF Spec

\* Data files name different logs only while the later log's first record is
\* prepared and not done with, so that the latest is the one to redo
\* ("after logrotate, prepare succeed, but commit fail", db.h:2041).
THEOREM LatestLogIsTaken == Spec => []RotationInterrupted
<1>1. CheckpointedInv => RotationInterrupted
  BY DEF CheckpointedInv, IdsInv
<1>. QED  BY <1>1, CheckpointedInvariance, PTL

----------------------------------------------------------------------------
(* The store that checkpoints promise.                                     *)

\* Copies put in place of pages that are them already.
LEMMA OverlayTyped ==
  ASSUME NEW c \in Content, NEW i \in Copy
  PROVE  Overlay(c, i) \in Content
BY DEF Overlay, Content, Copy

LEMMA OverlayStored ==
  ASSUME NEW c \in Content, NEW i, \A p \in Pages(i) : c[p] = i[p]
  PROVE  Overlay(c, i) = c
<1>1. \A p \in Page : Overlay(c, i)[p] = c[p]
  BY DEF Overlay, Pages
<1>. QED  BY <1>1 DEF Overlay, Content

\* What a start makes of the files, by whether there is a record to repeat.
LEMMA RecoveredIs ==
  ASSUME CheckpointedInv
  PROVE  /\ Pending => Recovered = [t \in Table |-> Overlay(file[t].page, log[LastId].rec.image[t])]
         /\ ~Pending => Recovered = [t \in Table |-> file[t].page]
         /\ Recovered \in [Table -> Content]
<1>1. /\ TypeOK /\ LastId \in LogId /\ \A t \in Table : file[t].id # 0 /\ file[t].page \in Content
      /\ log[LastId].rec \in RecType
  BY IdsFacts, Typed DEF IdsInv
<1>. HIDE DEF LastId, Pending
<1>2. Pending => Recovered = [t \in Table |-> Overlay(file[t].page, log[LastId].rec.image[t])]
  BY <1>1 DEF Recovered
<1>3. ~Pending => Recovered = [t \in Table |-> file[t].page]
  BY DEF Recovered
<1>4. \A t \in Table : Overlay(file[t].page, log[LastId].rec.image[t]) \in Content
  BY <1>1, OverlayTyped DEF RecType
<1>. QED  BY <1>1, <1>2, <1>3, <1>4

\* The same of the next state.
LEMMA RecoveredNext ==
  ASSUME CheckpointedInv, [Next]_vars
  PROVE  /\ Pending' => Recovered' = [t \in Table |-> Overlay(file'[t].page, log'[LastId'].rec.image[t])]
         /\ ~Pending' => Recovered' = [t \in Table |-> file'[t].page]
<1>1. \A t \in Table : file'[t].id # 0
  BY NextIds DEF CheckpointedInv, IdsInv
<1>. HIDE DEF LastId, Pending
<1>. QED  BY <1>1 DEF Recovered

\* The four variables of the store.
Rows == IF Serving THEN live ELSE Recovered
Saving == IF Phase \in {"taking", "taken"} THEN Image ELSE NoState
StoreStep ==
  \/ Phase = "down" /\ Phase' = "up" /\ Rows' = Rows /\ Recovered' = Recovered /\ Saving' = Saving
  \/ Phase # "down" /\ Rows' \in [Table -> Content]
     /\ Recovered' = Recovered /\ Saving' = Saving /\ Phase' = Phase
  \/ Phase = "up" /\ Phase' = "taking" /\ Saving' = Rows /\ Rows' = Rows /\ Recovered' = Recovered
  \/ Phase = "taking" /\ Phase' = "taken" /\ Recovered' = Saving /\ Rows' = Rows /\ Saving' = Saving
  \/ Phase = "taken" /\ Phase' = "up" /\ Saving' = NoState /\ Rows' = Rows /\ Recovered' = Recovered
  \/ Phase # "down" /\ Phase' = "down" /\ Rows' = Recovered /\ Saving' = NoState /\ Recovered' = Recovered
  \/ Rows' = Rows /\ Recovered' = Recovered /\ Saving' = Saving /\ Phase' = Phase

LEMMA StoreStepIs == StoreStep => [Store!Next]_(Store!vars)
<1>1. Store!Next <=>
        \/ Store!Restart \/ Store!Write \/ Store!Take \/ Store!Persist \/ Store!Answer \/ Store!Crash
  BY DEF Store!Next
<1>. QED
  BY <1>1, Zenon DEF StoreStep, Rows, Saving, Store!Restart, Store!Write, Store!Take, Store!Persist,
     Store!Answer, Store!Crash, Store!vars

\* Start: the cache takes what the files hold, or a redo begins.
LEMMA StartStore ==
  ASSUME CheckpointedInv, Start
  PROVE  StoreStep
<1>1. pc = "down" /\ file' = file /\ LastId' = LastId /\ Phase = "down" /\ [Next]_vars
  BY StartFacts DEF Phase, Serving, Next, Recovery
<1>2. live' = [t \in Table |-> file[t].page]
  BY DEF Start, Load
<1>3. CASE ~Pending /\ ~Pending' /\ pc' = "ready" /\ redo' = FALSE
  <2>1. Recovered = [t \in Table |-> file[t].page] /\ Recovered' = Recovered
    BY <1>1, <1>3, RecoveredIs, RecoveredNext
  <2>2. Phase' = "up" /\ Rows = Recovered /\ Rows' = live' /\ Saving = NoState /\ Saving' = NoState
    BY <1>1, <1>3 DEF Phase, Serving, Rows, Saving
  <2>. QED  BY <1>1, <1>2, <2>1, <2>2 DEF StoreStep
<1>4. CASE Pending /\ pc' = "committing" /\ redo' = TRUE /\ log' = log
  <2>1. Recovered' = Recovered
    BY <1>1, <1>4 DEF Recovered, LastId, Pending
  <2>2. Phase' = "down" /\ Rows = Recovered /\ Rows' = Recovered' /\ Saving = NoState /\ Saving' = NoState
    BY <1>1, <1>4 DEF Phase, Serving, Rows, Saving
  <2>. QED  BY <1>1, <2>1, <2>2 DEF StoreStep
<1>. QED  BY <1>3, <1>4, StartFacts

\* Steps that leave the files as they are leave what a start makes of them.
LEMMA QuietStore ==
  ASSUME file' = file, log' = log
  PROVE  LastId' = LastId /\ Recovered' = Recovered
BY DEF Recovered, LastId, Pending

LEMMA WriteStore ==
  ASSUME CheckpointedInv, NEW t \in Table, NEW p \in Page, NEW v \in Value, Write(t, p, v)
  PROVE  StoreStep
<1>1. /\ Serving /\ file' = file /\ log' = log /\ snap' = snap /\ pc' = pc /\ redo' = redo
      /\ log_id' = log_id
  BY DEF Write
<1>2. Recovered' = Recovered /\ LastId' = LastId
  BY <1>1, QuietStore
<1>3. Phase' = Phase /\ Phase # "down" /\ Image' = Image
  BY <1>1, <1>2 DEF Phase, Serving, Image
<1>4. Saving' = Saving
  BY <1>3 DEF Saving
<1>5. live' \in [Table -> Content] /\ Rows' = live'
  <2>1. live \in [Table -> Content]
    BY <1>1 DEF CheckpointedInv, IInv, InMemory, Serving
  <2>2. live' = [live EXCEPT ![t][p] = v]
    BY DEF Write
  <2>3. live' \in [Table -> Content]
    BY <2>1, <2>2 DEF Content
  <2>. QED  BY <1>1, <2>3 DEF Rows, Serving
<1>. QED  BY <1>2, <1>3, <1>4, <1>5 DEF StoreStep

\* The copies taken are, over the files, all tables at that instant.
LEMMA SnapshotStore ==
  ASSUME CheckpointedInv, SnapshotCreate
  PROVE  StoreStep
<1>1. /\ TypeOK /\ pc = "ready" /\ ~redo /\ live \in [Table -> Content] /\ snap = NoCopies
      /\ file' = file /\ log' = log /\ live' = live /\ pc' = "snapped" /\ redo' = redo
  BY DEF CheckpointedInv, IInv, SnapshotCreate, InMemory
<1>2. Recovered' = Recovered
  BY <1>1, QuietStore
<1>3. \A t \in Table, p \in Page :
        /\ snap'[t][p] = NoValue \/ snap'[t][p] = live[t][p]
        /\ snap'[t][p] = NoValue => p \notin dirty[t]
  BY <1>1, PagesAssumption DEF SnapshotCreate, Content
<1>4. \A t \in Table, p \in Page : p \notin dirty[t] => live[t][p] = file[t].page[p]
  BY <1>1 DEF CheckpointedInv, IInv, Coherent, Serving, NoCopies, NoCopy
<1>5. \A t \in Table : Overlay(file[t].page, snap'[t]) = live[t]
  <2>. SUFFICES ASSUME NEW t \in Table  PROVE Overlay(file[t].page, snap'[t]) = live[t]
    OBVIOUS
  <2>1. \A p \in Page : Overlay(file[t].page, snap'[t])[p] = live[t][p]
    BY <1>3, <1>4 DEF Overlay
  <2>2. live[t] \in Content
    BY <1>1
  <2>. QED  BY <2>1, <2>2 DEF Overlay, Content
<1>6. Image' = live
  BY <1>1, <1>5 DEF Image
<1>7. Phase = "up" /\ Phase' = "taking" /\ Rows = live /\ Rows' = live /\ Saving' = Image'
  BY <1>1 DEF Phase, Serving, Rows, Saving
<1>. QED  BY <1>2, <1>6, <1>7 DEF StoreStep

\* While the record is written nothing is saved yet.
LEMMA PrepareStore ==
  ASSUME CheckpointedInv, PrepareBegin \/ PrepareTable
  PROVE  StoreStep
<1>1. /\ file' = file /\ live' = live /\ snap' = snap /\ pc' = "preparing" /\ redo' = redo /\ ~redo
      /\ pc \in {"snapped", "preparing"} /\ ~Pending /\ ~Pending' /\ [Next]_vars
  BY PrepareBeginIds, PrepareTableIds, IdsFacts
     DEF PrepareBegin, PrepareTable, BeginRec, IInv, InMemory, Next, Checkpoint
<1>2. Recovered' = Recovered
  BY <1>1, RecoveredIs, RecoveredNext
<1>3. Phase = "taking" /\ Phase' = "taking" /\ Image' = Image /\ Rows = live /\ Rows' = live
  BY <1>1 DEF Phase, Serving, Image, Rows
<1>4. Saving' = Saving
  BY <1>3 DEF Saving
<1>. QED  BY <1>1, <1>2, <1>3, <1>4 DEF StoreStep

\* The record is marked: if the tables name its log, it is what a start takes.
LEMMA PrepareMarkStore ==
  ASSUME CheckpointedInv, PrepareMark
  PROVE  StoreStep
<1>1. /\ file' = file /\ live' = live /\ snap' = snap /\ pc' = "committing" /\ redo' = redo
      /\ [Next]_vars
  BY DEF PrepareMark, Next, Checkpoint
<1>2. /\ pc = "preparing" /\ ~redo /\ log_id \in LogId /\ log_id' = log_id /\ ~Pending
      /\ log'[log_id].cur < RecMax /\ log'[log_id].rec.result = "prepared"
      /\ \A t \in Table : log'[log_id].rec.image[t] = snap[t]
      /\ LastId' = LastId /\ LastId # 0 /\ (LastId # log_id => ~Pending')
  BY PrepareMarkFacts, PrepareMarkIds, IdsFacts
<1>3. /\ Phase = "taking" /\ Image' = Image /\ Rows = live /\ Rows' = live
      /\ Phase' = IF LastId' # log_id' THEN "taking" ELSE "taken"
  BY <1>1, <1>2 DEF Phase, Serving, Image, Rows
<1>. HIDE DEF LastId
<1>4. CASE LastId # log_id
  <2>1. Recovered' = Recovered
    BY <1>1, <1>2, <1>4, RecoveredIs, RecoveredNext
  <2>2. Phase' = "taking" /\ Saving' = Saving
    BY <1>2, <1>3, <1>4 DEF Saving
  <2>. QED  BY <1>1, <1>3, <2>1, <2>2 DEF StoreStep
<1>5. CASE LastId = log_id
  <2>1. Pending'
    BY <1>2, <1>5 DEF Pending
  <2>2. Recovered' = Image
    BY <1>1, <1>2, <1>5, <2>1, RecoveredNext DEF Image
  <2>3. Phase' = "taken" /\ Saving = Image /\ Saving' = Image
    BY <1>2, <1>3, <1>5 DEF Saving
  <2>. QED  BY <1>1, <1>3, <2>2, <2>3 DEF StoreStep
<1>. QED  BY <1>4, <1>5

\* The log has its name in a table: its record is what a start takes.
LEMMA CommitOpenStore ==
  ASSUME CheckpointedInv, CommitOpen
  PROVE  StoreStep
<1>1. /\ IInv /\ pc = "committing" /\ pc' \in {"committing", "restoring"} /\ log' = log
      /\ LastId' = log_id /\ log_id' = log_id /\ Pending' /\ [Next]_vars
      /\ live' = live /\ snap' = snap /\ redo' = redo
      /\ \A t \in Table : file'[t].page = file[t].page
  BY IdsFacts, CommitOpenIds, CommitOpenFacts DEF CommitOpen, Next, Recovery
<1>2. Recovered' = [t \in Table |-> Overlay(file[t].page, log[log_id].rec.image[t])]
  <2>1. Recovered' = [t \in Table |-> Overlay(file'[t].page, log'[LastId'].rec.image[t])]
    BY <1>1, RecoveredNext
  <2>. HIDE DEF LastId
  <2>. QED  BY <1>1, <2>1
<1>3. LastId = log_id => Recovered' = Recovered
  <2>1. LastId = log_id => Pending
    BY <1>1, LastIsOpen
  <2>. HIDE DEF LastId
  <2>. QED  BY <1>1, <1>2, <2>1, RecoveredIs
<1>4. Image' = Image
  BY <1>1 DEF Image
<1>. HIDE DEF LastId
<1>5. CASE redo
  <2>1. Phase = "down" /\ Phase' = "down" /\ Rows = Recovered /\ Rows' = Recovered'
        /\ Saving = NoState /\ Saving' = NoState
    BY <1>1, <1>5 DEF Phase, Serving, Rows, Saving
  <2>2. LastId = log_id
    BY <1>1, <1>5, LastIsOpen
  <2>. QED  BY <1>3, <2>1, <2>2 DEF StoreStep
<1>6. CASE ~redo
  <2>1. Rows = live /\ Rows' = live /\ Phase' = "taken"
        /\ Phase = IF LastId # log_id THEN "taking" ELSE "taken"
    BY <1>1, <1>6 DEF Phase, Serving, Rows
  <2>2. Saving = Image /\ Saving' = Image
    BY <1>4, <2>1 DEF Saving
  <2>3. Recovered' = Image
    BY <1>1, <1>2, <1>6 DEF IInv, InRecord, Rec, Image
  <2>. QED  BY <1>3, <2>1, <2>2, <2>3 DEF StoreStep
<1>. QED  BY <1>5, <1>6

\* A page of the record goes to a file, in a commit or in a redo: what a start
\* makes of the files stays the same.
LEMMA RestoreStore ==
  ASSUME CheckpointedInv, NEW p \in Pages(Rec.image[NextTable]), pc = "restoring",
         [Next]_vars, file' = [file EXCEPT ![NextTable].page[p] = Rec.image[NextTable][p]],
         LastId' = LastId, Pending' = Pending, log' = log, log_id' = log_id, redo' = redo,
         live' = live, snap' = snap, pc' \in {"restoring", "committing"}
  PROVE  StoreStep
<1>1. /\ IInv /\ LastId = log_id /\ Pending /\ NextTable \in Table
      /\ \A t \in Table, q \in Page : file'[t].page[q] =
           IF t = NextTable /\ q = p THEN Rec.image[t][p] ELSE file[t].page[q]
  BY IdsFacts, LastIsOpen, RestoreFacts
<1>2. Rec.image[NextTable][p] # NoValue /\ (~redo => \A t \in Table : Rec.image[t] = snap[t])
  BY <1>1 DEF Pages, IInv, InRecord
<1>3. \A t \in Table : Overlay(file'[t].page, log[log_id].rec.image[t]) =
                       Overlay(file[t].page, log[log_id].rec.image[t])
  <2>. HIDE DEF NextTable
  <2>1. \A t \in Table, q \in Page : log[log_id].rec.image[t][q] = NoValue =>
          file'[t].page[q] = file[t].page[q]
    BY <1>1, <1>2 DEF Rec
  <2>. QED  BY ONLY <2>1 DEF Overlay
<1>4. ~redo => \A t \in Table : Overlay(file'[t].page, snap[t]) = Overlay(file[t].page, snap[t])
  BY <1>2, <1>3 DEF Rec
<1>. HIDE DEF NextTable, LastId, Pending
<1>5. Recovered' = Recovered
  <2>1. Recovered = [t \in Table |-> Overlay(file[t].page, log[log_id].rec.image[t])]
    BY <1>1, RecoveredIs
  <2>2. Recovered' = [t \in Table |-> Overlay(file'[t].page, log[log_id].rec.image[t])]
    BY <1>1, RecoveredNext
  <2>. QED  BY <1>3, <2>1, <2>2
<1>6. ~redo => Image' = Image
  BY <1>4 DEF Image
<1>7. CASE redo
  <2>1. Phase = "down" /\ Phase' = "down" /\ Rows = Recovered /\ Rows' = Recovered'
        /\ Saving = NoState /\ Saving' = NoState
    BY <1>1, <1>7 DEF Phase, Serving, Rows, Saving
  <2>. QED  BY <1>5, <2>1 DEF StoreStep
<1>8. CASE ~redo
  <2>1. Rows = live /\ Rows' = live /\ Phase = "taken" /\ Phase' = "taken"
    BY <1>1, <1>8 DEF Phase, Serving, Rows
  <2>2. Saving' = Saving
    BY <1>6, <1>8, <2>1 DEF Saving
  <2>. QED  BY <1>5, <2>1, <2>2 DEF StoreStep
<1>. QED  BY <1>7, <1>8

\* The record is done with when its pages are in the files.
LEMMA CommittedStore ==
  ASSUME CheckpointedInv, [Next]_vars, pc = "committing", todo = {}, log' = Committed, file' = file
  PROVE  Recovered = [t \in Table |-> file[t].page] /\ Recovered' = Recovered
<1>1. TypeOK /\ IInv /\ IdsInv /\ LastId = log_id /\ Pending /\ ~Pending'
  BY IdsFacts, CommittedIds
<1>2. \A t \in Table : Stored(t, Rec.image[t]) /\ file[t].page \in Content
  BY <1>1, Typed DEF IInv, IdsInv, InFiles
<1>3. \A t \in Table : Overlay(file[t].page, log[log_id].rec.image[t]) = file[t].page
  <2>. SUFFICES ASSUME NEW t \in Table
                PROVE  Overlay(file[t].page, log[log_id].rec.image[t]) = file[t].page
    OBVIOUS
  <2>1. \A p \in Pages(log[log_id].rec.image[t]) : file[t].page[p] = log[log_id].rec.image[t][p]
    BY <1>2 DEF Stored, Rec
  <2>. QED  BY <1>2, <2>1, OverlayStored
<1>. HIDE DEF LastId, Pending
<1>4. Recovered = [t \in Table |-> file[t].page]
  BY <1>1, <1>3, RecoveredIs
<1>5. Recovered' = [t \in Table |-> file[t].page]
  BY <1>1, RecoveredNext
<1>. QED  BY <1>4, <1>5

LEMMA CommitMarkStore ==
  ASSUME CheckpointedInv, CommitMark
  PROVE  StoreStep
<1>1. /\ pc = "committing" /\ ~redo /\ todo = {} /\ log' = Committed /\ file' = file
      /\ live' = live /\ snap' = snap /\ pc' = "releasing" /\ redo' = redo /\ [Next]_vars
  BY DEF CommitMark, Next, Checkpoint
<1>2. Recovered' = Recovered /\ LastId = log_id
  BY <1>1, CommittedStore, LastIsOpen
<1>. HIDE DEF LastId
<1>3. Phase = "taken" /\ Phase' = "taken" /\ Image' = Image /\ Rows = live /\ Rows' = live
  BY <1>1, <1>2 DEF Phase, Serving, Image, Rows
<1>4. Saving' = Saving
  BY <1>3 DEF Saving
<1>. QED  BY <1>2, <1>3, <1>4 DEF StoreStep

LEMMA ReleaseStore ==
  ASSUME CheckpointedInv, SnapshotRelease
  PROVE  StoreStep
<1>1. /\ pc = "releasing" /\ ~redo /\ file' = file /\ log' = log /\ live' = live
      /\ pc' = "ready" /\ redo' = redo
  BY DEF CheckpointedInv, IInv, InMemory, SnapshotRelease
<1>2. Recovered' = Recovered
  BY <1>1, QuietStore
<1>3. Phase = "taken" /\ Phase' = "up" /\ Rows = live /\ Rows' = live
  BY <1>1 DEF Phase, Serving, Rows
<1>4. Saving' = NoState
  BY <1>3 DEF Saving
<1>. QED  BY <1>2, <1>3, <1>4 DEF StoreStep

\* The end of a redo is where the store is up again.
LEMMA RedoMarkStore ==
  ASSUME CheckpointedInv, RedoMark
  PROVE  StoreStep
<1>1. /\ pc = "committing" /\ redo /\ todo = {} /\ log' = Committed /\ file' = file
      /\ live' = [t \in Table |-> file[t].page] /\ pc' = "ready" /\ redo' = FALSE /\ [Next]_vars
  BY DEF RedoMark, Load, Next, Recovery
<1>2. Recovered' = Recovered /\ live' = Recovered
  BY <1>1, CommittedStore
<1>3. Phase = "down" /\ Phase' = "up" /\ Rows = Recovered /\ Rows' = live'
  BY <1>1 DEF Phase, Serving, Rows
<1>4. Saving = NoState /\ Saving' = NoState
  BY <1>3 DEF Saving
<1>. QED  BY <1>2, <1>3, <1>4 DEF StoreStep

LEMMA CrashStore ==
  ASSUME CheckpointedInv, Crash \/ PrepareNoFile
  PROVE  StoreStep
<1>1. file' = file /\ log' = log /\ pc' = "down" /\ redo' = FALSE
  BY DEF Crash, PrepareNoFile, Die
<1>2. Recovered' = Recovered
  BY <1>1, QuietStore
<1>3. Phase' = "down" /\ Rows' = Recovered'
  BY <1>1 DEF Phase, Serving, Rows
<1>4. Saving' = NoState
  BY <1>3 DEF Saving
<1>5. CASE Phase = "down"
  <2>1. Rows = Recovered /\ Saving = NoState
    BY <1>5 DEF Phase, Rows, Saving
  <2>. QED  BY <1>2, <1>3, <1>4, <1>5, <2>1 DEF StoreStep
<1>6. CASE Phase # "down"
  BY <1>2, <1>3, <1>4, <1>6 DEF StoreStep
<1>. QED  BY <1>5, <1>6

LEMMA StutterStore ==
  ASSUME UNCHANGED vars
  PROVE  StoreStep
<1>1. file' = file /\ log' = log /\ live' = live /\ snap' = snap /\ pc' = pc /\ redo' = redo /\ log_id' = log_id
  BY DEF vars, mem
<1>2. Recovered' = Recovered /\ LastId' = LastId
  BY <1>1, QuietStore
<1>3. Phase' = Phase /\ Image' = Image
  BY <1>1, <1>2 DEF Phase, Serving, Image
<1>4. Rows' = Rows /\ Saving' = Saving
  BY <1>1, <1>2, <1>3 DEF Rows, Serving, Saving
<1>. QED  BY <1>2, <1>3, <1>4 DEF StoreStep

LEMMA NextStore ==
  ASSUME CheckpointedInv, [Next]_vars
  PROVE  StoreStep
<1>1. CASE Start
  BY <1>1, StartStore
<1>2. CASE CommitSkip
  BY <1>2, NoCommitSkip
<1>3. CASE CommitOpen
  BY <1>3, CommitOpenStore
<1>4. ASSUME NEW p \in Page, CommitPage(p)  PROVE StoreStep
  <2>1. /\ p \in Pages(Rec.image[NextTable]) /\ pc = "restoring" /\ log_id' = log_id /\ redo' = redo
        /\ file' = [file EXCEPT ![NextTable].page[p] = Rec.image[NextTable][p]]
        /\ live' = live /\ snap' = snap /\ pc' = "restoring"
    BY <1>4 DEF CommitPage, CheckpointedInv, IInv, InRecord
  <2>. QED  BY <1>4, <2>1, CommitPageIds, RestoreStore
<1>5. CASE CommitMagic
  <2>1. /\ Magic \in Pages(Rec.image[NextTable]) /\ pc = "restoring" /\ log_id' = log_id /\ redo' = redo
        /\ file' = [file EXCEPT ![NextTable].page[Magic] = Rec.image[NextTable][Magic]]
        /\ live' = live /\ snap' = snap /\ pc' = "committing"
    BY <1>5, CommitMagicFacts DEF CommitMagic, CheckpointedInv
  <2>. QED  BY <1>5, <2>1, CommitMagicIds, RestoreStore
<1>6. CASE RedoMark
  BY <1>6, RedoMarkStore
<1>7. CASE SnapshotCreate
  BY <1>7, SnapshotStore
<1>8. CASE PrepareBegin \/ PrepareTable
  BY <1>8, PrepareStore
<1>9. CASE PrepareMark
  BY <1>9, PrepareMarkStore
<1>10. CASE CommitMark
  BY <1>10, CommitMarkStore
<1>11. CASE SnapshotRelease
  BY <1>11, ReleaseStore
<1>12. CASE Crash \/ PrepareNoFile
  BY <1>12, CrashStore
<1>13. ASSUME NEW t \in Table, NEW p \in Page, NEW v \in Value, Write(t, p, v)  PROVE StoreStep
  BY <1>13, WriteStore
<1>14. CASE UNCHANGED vars
  BY <1>14, StutterStore
<1>. QED
  BY <1>1, <1>2, <1>3, <1>4, <1>5, <1>6, <1>7, <1>8, <1>9, <1>10, <1>11, <1>12, <1>13, <1>14
     DEF Next, Recovery, Checkpoint

LEMMA InitStore == Init => Store!Init
<1>. SUFFICES ASSUME Init  PROVE Store!Init
  OBVIOUS
<1>1. CheckpointedInv
  BY InitIInv, InitIds DEF CheckpointedInv
<1>2. Recovered \in [Table -> Content]
  BY <1>1, RecoveredIs
<1>3. ~Serving /\ Phase = "down"
  BY DEF Init, Stopped, Phase, Serving
<1>. QED  BY <1>2, <1>3 DEF Store!Init

\* The log implements the store that checkpoints promise: wherever the process
\* dies, the next one serves all tables as of one instant, that of the last
\* checkpoint that returned or of the interrupted one (prepare, commit and
\* redo, db.h:2064-2134).
THEOREM ImplementsStore == Spec => CrashSafe
<1>1. CheckpointedInv /\ [Next]_vars => [Store!Next]_(Store!vars)
  BY NextStore, StoreStepIs
<1>2. Init => Store!Init
  BY InitStore
<1>. QED  BY <1>1, <1>2, CheckpointedInvariance, PTL DEF Spec, CrashSafe, Store!Spec
=============================================================================
