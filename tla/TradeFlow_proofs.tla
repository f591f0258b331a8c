--------------------------- MODULE TradeFlow_proofs --------------------------
(***************************************************************************)
(* Proofs about TradeFlow, for any roles, goods and bounds.  The inductive   *)
(* invariant comes in five layers, each of which uses those before it:       *)
(* types; what a Transaction's fields say of each other (Desks); who may     *)
(* still answer for a trade (Talk); where its roles are (Held); and, while   *)
(* Timely, what the pockets of the table, of the game server and of the      *)
(* writes on their way have to do with each other (Pockets).                 *)
(***************************************************************************)
EXTENDS TradeFlow, FiniteSetTheorems, TLAPS

Ses == 0..MaxLogin
PlayerRec == [st : PlayerStates, tid : Trade \cup {None}, pocket : SUBSET Good, stamp : Nat,
              ses : Ses, b_disconnect : BOOLEAN]
WriteRec == [role : Role, ses : Ses, timestamp : Nat, pocket : SUBSET Good,
             for : Trade \cup {None, Off}, res : {"sent", "ok", "bad"}]
ReadRec == [role : Role, ses : Ses, tid : Trade, res : {"sent", "ok", "bad"}, pocket : SUBSET Good]
TransRec == [state : TransactionStates, traders : {<<>>} \cup (Role \X Role),
             ses : {<<>>} \cup (Ses \X Ses), OnDestroy : BOOLEAN, joined : SUBSET Role,
             agreed : SUBSET Role, pssn : [Role -> SUBSET Good], modified : BOOLEAN,
             inventory : {"none", "sent", "ok", "bad"}, save : {"none", "sent", "ok", "bad", "late"}]
StartMsg == [type : {"GTradeStart"}, tid : Trade, traders : Role \X Role, ses : Ses \X Ses]
EndMsg == [type : {"GTradeEnd"}, tid : Trade, role : Role, need_read : BOOLEAN]
ReplyMsg == [type : {"GTradeStart_Re"}, tid : Trade, role : Role, ok : BOOLEAN]
DiscardMsg == [type : {"GTradeDiscard"}, tid : Trade]
LogoutMsg == [type : {"PlayerLogout"}, role : Role]

InTradeStates == {"WAITING_TRADE", "TRADE", "WAIT_TRADE_COMPLETE", "WAIT_TRADE_READ"}

\* The types of all variables, of which TypeOK names the less obvious part.
Typed ==
  /\ player \in [Role -> PlayerRec] /\ row \in [Role -> [pocket : SUBSET Good, timestamp : Nat]]
  /\ put \subseteq WriteRec /\ get \subseteq ReadRec
  /\ trans \in [Trade -> TransRec] /\ TraderMap \in [Role -> Trade \cup {None}]
  /\ toGS \subseteq StartMsg \cup EndMsg /\ toDS \subseteq ReplyMsg \cup DiscardMsg \cup LogoutMsg
  /\ spent \subseteq Good /\ logins \in Ses /\ late \in BOOLEAN /\ back \subseteq Role
  /\ \A r \in Role : player[r].ses <= logins
  /\ \A r \in Role : (player[r].tid # None) <=> player[r].st \in InTradeStates

\* The two roles of a Transaction that is live.
Pair(d) == {d.traders[1], d.traders[2]}
Settled == {"Confirm", "Init", "Null"}

\* A Transaction's own fields.
DeskRecord(d) ==
  /\ d.state = "none" => d = NoTransaction
  /\ d.state \notin {"none", "released"} =>
       /\ d.traders \in Role \X Role /\ d.traders[1] # d.traders[2]
       /\ d.joined \subseteq Pair(d) /\ d.agreed \subseteq Pair(d)
       /\ d.agreed # {} => d.OnDestroy
       /\ \/ d.modified
          \/ d.state \in {"SetPossession", "Exchange", "Confirm"}
          \/ d.state = "Init" /\ d.save # "none"
          => d.joined = Pair(d)
  /\ d.joined \subseteq d.agreed
  /\ d.inventory # "none" => d.state \in {"SetPossession", "Null"} /\ d.save = "none"
  /\ d.state = "Confirm" => d.save \in {"sent", "ok", "bad"}
  /\ d.save \in {"sent", "ok", "bad"} => d.state \in {"Confirm", "Init"} /\ d.modified
  /\ d.save = "late" => d.state \in {"Null", "released"}

\* The Transactions, and the map of those who have joined them.
Desk(t) == DeskRecord(trans[t]) /\ (Live(t) => \A r \in trans[t].joined : TraderMap[r] = t)
MapOfDesks == \A r \in Role, t \in Trade : TraderMap[r] = t => Live(t) /\ r \in Traders(t)
Desks == (\A t \in Trade : Desk(t)) /\ MapOfDesks

IsStart(m, t) == m.type = "GTradeStart" /\ m.tid = t
IsReply(m, r, t) == m.type = "GTradeStart_Re" /\ m.role = r /\ m.tid = t
IsEnd(m, r, t) == m.type = "GTradeEnd" /\ m.role = r /\ m.tid = t

\* Of what is on its way for a trade, its number is in use.
Known ==
  /\ \A m \in toGS : trans[m.tid].state # "none"
  /\ \A m \in toDS : m.type # "PlayerLogout" => trans[m.tid].state # "none"
  /\ \A w \in put : w.for \in Trade => trans[w.for].state # "none"
  /\ \A r \in Role, t \in Trade : player[r].tid = t => trans[t].state # "none"

\* A trade is started once: while its start is on its way nobody has heard of it.
Starts ==
  \A m \in toGS : m.type = "GTradeStart" =>
    /\ trans[m.tid].agreed = {}
    /\ Live(m.tid) => m.traders = trans[m.tid].traders
    /\ \A r \in Role : player[r].tid # m.tid
    /\ \A w \in put : w.for # m.tid
    /\ \A r \in Role, n \in toDS : ~IsReply(n, r, m.tid)
    /\ \A n \in toGS : IsStart(n, m.tid) => n = m

\* A role answers a trade once: it waits, its answer is on its way, or gdeliveryd
\* knows that it has agreed.
Replies ==
  /\ \A r \in Role, t \in Trade : player[r].st = "WAITING_TRADE" /\ player[r].tid = t =>
       /\ r \notin trans[t].agreed
       /\ Live(t) => r \in Traders(t)
       /\ \A n \in toDS : ~IsReply(n, r, t)
  /\ \A m \in toDS : m.type = "GTradeStart_Re" =>
       /\ m.role \notin trans[m.tid].agreed
       /\ Live(m.tid) => m.role \in Traders(m.tid)
       /\ \A n \in toDS : IsReply(n, m.role, m.tid) => n = m

\* The end is told when the Transaction is gone, and a pocket is read again only
\* by roles that had agreed, which are then done with the trade.
Ends ==
  /\ \A m \in toGS : m.type = "GTradeEnd" =>
       /\ trans[m.tid].state = "released"
       /\ m.need_read => m.role \in trans[m.tid].agreed
  /\ \A x \in get : /\ x.role \in trans[x.tid].agreed
                    /\ ~(player[x.role].st \in {"TRADE", "WAIT_TRADE_COMPLETE"} /\ player[x.role].tid = x.tid)

Talk == Known /\ Starts /\ Replies /\ Ends

\* Where a role is that has joined a desk or whose agreement is on its way.
InTrade(r, t) == \/ player[r].st \in {"TRADE", "WAIT_TRADE_COMPLETE"} /\ player[r].tid = t
                 \/ player[r].st = "OUT"
                 \/ r \in back
Agreeing(r, t) == Live(t) /\ \E m \in toDS : IsReply(m, r, t) /\ m.ok
Held ==
  /\ \A r \in Role, t \in Trade : TraderMap[r] = t => InTrade(r, t)
  /\ \A r \in Role, t \in Trade : Agreeing(r, t) => InTrade(r, t)

\* The pocket of r is with a desk, or is being read after one.
Away(r) == \/ player[r].st \in {"TRADE", "WAIT_TRADE_COMPLETE", "WAIT_TRADE_READ"}
           \/ TraderMap[r] # None
           \/ \E t \in Trade : Agreeing(r, t)

World == {"NORMAL", "WAITING_TRADE", "DISCONNECT", "WAIT_LOGOUT"}
\* A write that gamedbd would not refuse for its age.
Pending(w) == w.res = "sent" /\ w.timestamp > row[w.role].timestamp

\* A good is in one pocket of the table, or was used up.
Single ==
  \A g \in Good : \/ \E r \in Role : {q \in Role : g \in row[q].pocket} = {r}
                  \/ {q \in Role : g \in row[q].pocket} = {} /\ g \in spent
InWorld == \A r \in Role : player[r].st \in World => player[r].pocket = row[r].pocket \ spent

\* Writes that may still be executed take away only what is used up, the later
\* the more.
Writes ==
  /\ \A w \in put : Pending(w) =>
       w.pocket \subseteq row[w.role].pocket /\ row[w.role].pocket \ w.pocket \subseteq spent
  /\ \A w, v \in put : Pending(w) /\ Pending(v) /\ w.role = v.role /\ w.timestamp < v.timestamp =>
       v.pocket \subseteq w.pocket
  /\ \A w \in put : player[w.role].st # "OUT" => w.timestamp <= player[w.role].stamp
  /\ \A r \in Role : player[r].st # "OUT" => row[r].timestamp <= player[r].stamp

\* The write a role waits for is its last one, and has its pocket.
WriteBack ==
  \A w \in put : w.for \in Trade /\ player[w.role].st = "WAITING_TRADE" /\ player[w.role].tid = w.for =>
    /\ w.timestamp = player[w.role].stamp /\ w.pocket = player[w.role].pocket
    /\ w.res = "ok" => /\ row[w.role].timestamp = w.timestamp
                       /\ row[w.role].pocket = w.pocket

\* No write disturbs a pocket that is away, and nothing in it is used up.
Undisturbed ==
  \A r \in Role : Away(r) =>
    /\ \A w \in put : w.role = r => ~Pending(w)
    /\ row[r].pocket \cap spent = {}

\* The game server's pocket of a role in a trade is out of date only if it will
\* be told to read it again.
Unsaved ==
  \A r \in Role : player[r].st \in {"TRADE", "WAIT_TRADE_COMPLETE"} =>
    LET t == player[r].tid IN
    \/ player[r].pocket = row[r].pocket
    \/ trans[t].modified /\ trans[t].state \in Settled
    \/ trans[t].state = "released" /\ \A m \in toGS : IsEnd(m, r, t) => m.need_read

\* What was read is what the table has.
ReadBack ==
  \A x \in get : LET p == player[x.role] IN
    p.st = "WAIT_TRADE_READ" /\ p.tid = x.tid /\ x.res = "ok" => x.pocket = row[x.role].pocket

Pockets == Single /\ InWorld /\ Writes /\ WriteBack /\ Undisturbed /\ Unsaved /\ ReadBack

IInv == Typed /\ Desks /\ Talk /\ Held /\ EndTold /\ (Timely => Pockets)

----------------------------------------------------------------------------
(* Types.                                                                  *)

LEMMA MessagesOfGS ==
  ASSUME Typed, NEW m \in toGS
  PROVE  /\ m.type = "GTradeStart" => m \in StartMsg
         /\ m.type = "GTradeEnd" => m \in EndMsg
         /\ m.tid \in Trade
BY DEF Typed, StartMsg, EndMsg

LEMMA MessagesOfDS ==
  ASSUME Typed, NEW m \in toDS
  PROVE  /\ m.type = "GTradeStart_Re" => m \in ReplyMsg
         /\ m.type = "GTradeDiscard" => m \in DiscardMsg
         /\ m.type = "PlayerLogout" => m \in LogoutMsg
BY DEF Typed, ReplyMsg, DiscardMsg, LogoutMsg

\* What the operations on a role make of it.
LEMMA StampedRole ==
  ASSUME NEW p \in PlayerRec
  PROVE  /\ Stamped(p) \in PlayerRec /\ Stamped(p).stamp = p.stamp + 1
         /\ Stamped(p).st = p.st /\ Stamped(p).tid = p.tid /\ Stamped(p).pocket = p.pocket
         /\ Stamped(p).ses = p.ses /\ Stamped(p).b_disconnect = p.b_disconnect
BY DEF PlayerRec, Stamped

LEMMA NormalRole ==
  ASSUME NEW p \in PlayerRec
  PROVE  LET q == FromTradeToNormal(p) IN
         /\ q \in PlayerRec /\ q.tid = None /\ q.st \in {"NORMAL", "DISCONNECT"}
         /\ q.pocket = p.pocket /\ q.stamp = p.stamp /\ q.ses = p.ses
<1>1. PICK s \in {"NORMAL", "DISCONNECT"} : FromTradeToNormal(p) = [p EXCEPT !.tid = None, !.st = s]
  BY DEF FromTradeToNormal
<1>. QED  BY <1>1 DEF PlayerRec, PlayerStates

LEMMA DroppedRole ==
  ASSUME NEW p \in PlayerRec
  PROVE  LET q == Dropped(p) IN
         /\ q \in PlayerRec /\ q.tid = None /\ q.st = "OUT" /\ q.pocket = {} /\ q.ses = p.ses
BY DEF PlayerRec, Dropped, PlayerStates

LEMMA Labels == {"NORMAL", "DISCONNECT", "OUT", "WAIT_LOGOUT"} \cap InTradeStates = {}
BY DEF InTradeStates

----------------------------------------------------------------------------
(* What the steps of the game server come to, in terms of the fields that    *)
(* the invariants speak of.                                                 *)

\* Role r changes its state, trade, pocket and timestamp to these, and no other does.
Moves(r, st, tid, pocket, stamp) ==
  /\ r \in Role /\ player' \in [Role -> PlayerRec]
  /\ \A q \in Role : q # r => player'[q] = player[q]
  /\ player'[r].st = st /\ player'[r].tid = tid /\ player'[r].pocket = pocket
  /\ player'[r].stamp = stamp /\ player'[r].ses = player[r].ses

\* The write of r's pocket as of now; f waits for it.
Written(r, f) == [role |-> r, ses |-> player[r].ses, timestamp |-> player[r].stamp + 1,
                  pocket |-> player[r].pocket, for |-> f, res |-> "sent"]

\* A write may be gone, or nobody waits for it any more.
PutLess ==
  \A w \in put' : \/ w \in put
                  \/ /\ w \in WriteRec /\ w.for = None /\ w.res = "sent"
                     /\ \E v \in put : /\ v.res = "sent" /\ v.role = w.role
                                       /\ v.timestamp = w.timestamp /\ v.pocket = w.pocket

Elsewhere == UNCHANGED <<row, trans, TraderMap, online, logins, late, back>>

Spends(r, g) ==
  /\ player[r].st \in {"NORMAL", "DISCONNECT"} /\ g \in player[r].pocket
  /\ Moves(r, player[r].st, None, player[r].pocket \ {g}, player[r].stamp)
  /\ spent' = spent \cup {g} /\ UNCHANGED <<put, get, toGS, toDS>> /\ Elsewhere
Saves(r, st, f) ==
  /\ player[r].st \in {"NORMAL", "DISCONNECT"} /\ st \in {"NORMAL", "WAIT_LOGOUT"} /\ f \in {None, Off}
  /\ Moves(r, st, None, player[r].pocket, player[r].stamp + 1)
  /\ put' = put \cup {Written(r, f)} /\ UNCHANGED <<get, toGS, toDS, spent>> /\ Elsewhere
Begins(m, a, b) ==
  /\ m \in toGS /\ m.type = "GTradeStart" /\ a \in Role /\ b \in Role /\ m.traders = <<a, b>>
  /\ player[a].st = "NORMAL" /\ player[b].st = "NORMAL"
  /\ player' \in [Role -> PlayerRec]
  /\ \A q \in Role \ {a, b} : player'[q] = player[q]
  /\ \A q \in {a, b} : /\ player'[q].st = "WAITING_TRADE" /\ player'[q].tid = m.tid
                       /\ player'[q].pocket = player[q].pocket /\ player'[q].ses = player[q].ses
                       /\ player'[q].stamp = player[q].stamp + 1
  /\ put' = put \cup {Written(a, m.tid), Written(b, m.tid)}
  /\ toGS' = toGS \ {m} /\ UNCHANGED <<get, toDS, spent>> /\ Elsewhere
Declines(m, a) ==
  /\ m \in toGS /\ m.type = "GTradeStart" /\ a \in Role /\ a = m.traders[1]
  /\ toGS' = toGS \ {m} /\ toDS' = toDS \cup {ReplyTradeRequest(m.tid, a, FALSE)}
  /\ UNCHANGED <<player, put, get, spent>> /\ Elsewhere
Answers(r, ok, st) ==
  /\ ok \in BOOLEAN /\ player[r].st = "WAITING_TRADE" /\ player[r].tid \in Trade
  /\ ok => /\ Moves(r, "TRADE", player[r].tid, player[r].pocket, player[r].stamp)
           /\ \E w \in put : w.role = r /\ w.for = player[r].tid /\ w.res = "ok"
  /\ ~ok => /\ st \in {"NORMAL", "DISCONNECT"}
            /\ Moves(r, st, None, player[r].pocket, player[r].stamp)
  /\ toDS' = toDS \cup {ReplyTradeRequest(player[r].tid, r, ok)} /\ PutLess
  /\ UNCHANGED <<get, toGS, spent>> /\ Elsewhere
Ignores ==
  /\ PutLess /\ toGS' \subseteq toGS /\ get' \subseteq get
  /\ \A m \in toGS \ toGS' : m.type = "GTradeEnd" => player[m.role].st # "TRADE"
  /\ UNCHANGED <<player, toDS, spent>> /\ Elsewhere
Leaves(r) ==
  /\ Moves(r, "OUT", None, {}, 0)
  /\ PutLess /\ toGS' \subseteq toGS /\ get' \subseteq get
  /\ \A m \in toGS \ toGS' : m.type = "GTradeEnd" => m.role = r
  /\ toDS' = toDS \cup {SendLogout(r)} /\ UNCHANGED spent /\ Elsewhere
Marks(r, st) ==
  /\ player[r].st # "OUT"
  /\ \/ st = player[r].st /\ toDS' = toDS
     \/ player[r].st = "NORMAL" /\ st = "DISCONNECT" /\ toDS' = toDS
     \/ /\ player[r].st = "TRADE" /\ st = "WAIT_TRADE_COMPLETE" /\ player[r].tid \in Trade
        /\ toDS' = toDS \cup {DiscardTrade(player[r].tid)}
  /\ Moves(r, st, player[r].tid, player[r].pocket, player[r].stamp)
  /\ UNCHANGED <<put, get, toGS, spent>> /\ Elsewhere
Finishes(m, r, st) ==
  /\ m \in toGS /\ m.type = "GTradeEnd" /\ r = m.role
  /\ player[r].st \in {"WAITING_TRADE", "TRADE", "WAIT_TRADE_COMPLETE"} /\ player[r].tid = m.tid
  /\ m.need_read => /\ Moves(r, "WAIT_TRADE_READ", m.tid, player[r].pocket, player[r].stamp)
                    /\ get' = get \cup {[role |-> r, ses |-> player[r].ses, tid |-> m.tid,
                                         res |-> "sent", pocket |-> {}]}
  /\ ~m.need_read => /\ st \in {"NORMAL", "DISCONNECT"} /\ get' = get
                     /\ Moves(r, st, None, player[r].pocket, player[r].stamp)
  /\ toGS' = toGS \ {m} /\ UNCHANGED <<put, toDS, spent>> /\ Elsewhere
Reads(x, r, st) ==
  /\ x \in get /\ x.res = "ok" /\ r = x.role /\ player[r].st = "WAIT_TRADE_READ" /\ player[r].tid = x.tid
  /\ st \in {"NORMAL", "DISCONNECT"} /\ Moves(r, st, None, x.pocket, player[r].stamp)
  /\ get' = get \ {x} /\ UNCHANGED <<put, toGS, toDS, spent>> /\ Elsewhere

GameServer ==
  \/ \E r \in Role : AutoSaveData(r) \/ RefuseTrade(r) \/ InterruptTrade(r) \/ LostConnection(r)
       \/ WaitingTradeCompleteTimeout(r) \/ Logout(r) \/ \E g \in Good : Spend(r, g)
  \/ \E m \in toGS : StartTrade(m) \/ TradeComplete(m)
  \/ \E w \in put : WaitingTradeWriteBack(w) \/ LogoutWritten(w)
  \/ \E x \in get : WaitingTradeReadBack(x)
RoleStep ==
  \/ \E r \in Role : \/ \E g \in Good : Spends(r, g)
                     \/ \E st \in PlayerStates, f \in {None, Off} : Saves(r, st, f)
                     \/ \E st \in PlayerStates, ok \in BOOLEAN : Answers(r, ok, st)
                     \/ \E st \in PlayerStates : Marks(r, st)
                     \/ Leaves(r)
  \/ \E m \in toGS, r \in Role : \/ \E b \in Role : Begins(m, r, b)
                                 \/ Declines(m, r)
                                 \/ \E st \in PlayerStates : Finishes(m, r, st)
  \/ \E x \in get, r \in Role, st \in PlayerStates : Reads(x, r, st)
  \/ Ignores

LEMMA MovesTo ==
  ASSUME Typed, NEW r \in Role, NEW q \in PlayerRec, player' = [player EXCEPT ![r] = q],
         q.ses = player[r].ses
  PROVE  Moves(r, q.st, q.tid, q.pocket, q.stamp)
BY DEF Typed, Moves

LEMMA RoleTyped ==
  ASSUME Typed, NEW r \in Role
  PROVE  player[r] \in PlayerRec /\ player[r].tid \in Trade \cup {None} /\ player[r].st \in PlayerStates
         /\ player[r].pocket \subseteq Good /\ player[r].stamp \in Nat /\ player[r].ses \in Ses
         /\ (player[r].tid # None <=> player[r].st \in InTradeStates)
BY DEF Typed, PlayerRec

LEMMA PutLessWrite ==
  ASSUME Typed, NEW w \in put,
         put' = (put \ {w}) \cup (IF w.res = "sent" THEN {[w EXCEPT !.for = None]} ELSE {})
  PROVE  PutLess
BY DEF Typed, PutLess, WriteRec

LEMMA SpendIs ==
  ASSUME Typed, NEW r \in Role, NEW g \in Good, Spend(r, g)
  PROVE  Spends(r, g)
<1>. DEFINE q == [player[r] EXCEPT !.pocket = @ \ {g}]
<1>1. q \in PlayerRec /\ q.st = player[r].st /\ q.tid = player[r].tid /\ q.stamp = player[r].stamp
      /\ q.pocket = player[r].pocket \ {g} /\ q.ses = player[r].ses
  BY RoleTyped DEF PlayerRec
<1>2. player' = [player EXCEPT ![r] = q] /\ player[r].st \in {"NORMAL", "DISCONNECT"}
  BY DEF Spend
<1>. HIDE DEF q
<1>3. Moves(r, q.st, q.tid, q.pocket, q.stamp)
  BY <1>1, <1>2, MovesTo
<1>4. player[r].tid = None
  BY <1>2, RoleTyped, Labels
<1>. QED  BY <1>1, <1>2, <1>3, <1>4 DEF Spend, Spends, gsOnly, Elsewhere

LEMMA SaveIs ==
  ASSUME Typed, NEW r \in Role, AutoSaveData(r) \/ Logout(r)
  PROVE  \E st \in PlayerStates, f \in {None, Off} : Saves(r, st, f)
<1>1. PICK st \in {"NORMAL", "WAIT_LOGOUT"}, f \in {None, Off} :
        /\ player[r].st \in {"NORMAL", "DISCONNECT"}
        /\ player' = [player EXCEPT ![r] = [Stamped(player[r]) EXCEPT !.st = st]]
        /\ put' = put \cup {Write(r, Stamped(player[r]), f)}
        /\ UNCHANGED <<get, toGS, toDS, spent>> /\ Elsewhere
  <2>1. CASE AutoSaveData(r)
    <3>1. [Stamped(player[r]) EXCEPT !.st = "NORMAL"] = Stamped(player[r])
      BY <2>1, RoleTyped, StampedRole DEF AutoSaveData, PlayerRec
    <3>. QED  BY <2>1, <3>1 DEF AutoSaveData, gsOnly, Elsewhere
  <2>2. CASE Logout(r)
    <3>1. player' = [player EXCEPT ![r] = [Stamped(player[r]) EXCEPT !.st = "WAIT_LOGOUT"]]
      BY <2>2 DEF Logout, Typed
    <3>. QED  BY <2>2, <3>1 DEF Logout, gsOnly, Elsewhere
  <2>. QED  BY <2>1, <2>2
<1>. DEFINE q == [Stamped(player[r]) EXCEPT !.st = st]
<1>2. q \in PlayerRec /\ q.st = st /\ q.tid = player[r].tid /\ q.stamp = player[r].stamp + 1
      /\ q.pocket = player[r].pocket /\ q.ses = player[r].ses
  BY RoleTyped, StampedRole DEF PlayerRec, PlayerStates
<1>3. player' = [player EXCEPT ![r] = q]
  BY <1>1
<1>. HIDE DEF q
<1>4. Moves(r, st, player[r].tid, player[r].pocket, player[r].stamp + 1)
  BY <1>2, <1>3, MovesTo
<1>5. player[r].tid = None
  BY <1>1, RoleTyped, Labels
<1>6. Write(r, Stamped(player[r]), f) = Written(r, f)
  BY RoleTyped, StampedRole DEF Write, Written
<1>7. st \in PlayerStates
  BY DEF PlayerStates
<1>8. Saves(r, st, f)
  BY <1>1, <1>4, <1>5, <1>6 DEF Saves
<1>. QED  BY <1>7, <1>8

LEMMA StartIs ==
  ASSUME Typed, NEW m \in toGS, StartTrade(m)
  PROVE  \E a \in Role : Declines(m, a) \/ \E b \in Role : Begins(m, a, b)
<1>1. m \in StartMsg /\ m.type = "GTradeStart"
  BY MessagesOfGS DEF StartTrade
<1>2. PICK a \in Role, b \in Role : m.traders = <<a, b>>
  BY <1>1 DEF StartMsg
<1>3. m.traders[1] = a /\ m.traders[2] = b
  BY <1>2
<1>4. {m.traders[i] : i \in 1..2} = {a, b}
  BY <1>3
<1>5. Elsewhere /\ UNCHANGED <<get, spent>> /\ toGS' = toGS \ {m}
  BY DEF StartTrade, gsOnly, Elsewhere
<1>6. CASE /\ toDS' = toDS \cup {ReplyTradeRequest(m.tid, m.traders[1], FALSE)}
           /\ UNCHANGED <<player, put>>
  <2>1. Declines(m, a)
    BY <1>1, <1>3, <1>5, <1>6 DEF Declines
  <2>. QED  BY <2>1
<1>7. CASE ~(/\ toDS' = toDS \cup {ReplyTradeRequest(m.tid, m.traders[1], FALSE)}
             /\ UNCHANGED <<player, put>>)
  <2>. DEFINE B(q) == [Stamped(player[q]) EXCEPT !.st = "WAITING_TRADE", !.tid = m.tid]
  <2>1. /\ CanTrade(m, 1) /\ CanTrade(m, 2) /\ UNCHANGED toDS
        /\ player' = [r \in Role |-> IF \E i \in 1..2 : r = m.traders[i] THEN B(r) ELSE player[r]]
        /\ put' = put \cup {Write(m.traders[i], B(m.traders[i]), m.tid) : i \in 1..2}
    BY <1>7 DEF StartTrade
  <2>2. ASSUME NEW q \in Role
        PROVE  /\ B(q) \in PlayerRec /\ B(q).st = "WAITING_TRADE" /\ B(q).tid = m.tid
               /\ B(q).pocket = player[q].pocket /\ B(q).ses = player[q].ses
               /\ B(q).stamp = player[q].stamp + 1
    <3>1. m.tid \in Trade
      BY <1>1 DEF StartMsg
    <3>2. Stamped(player[q]) \in PlayerRec
      BY RoleTyped, StampedRole
    <3>3. /\ Stamped(player[q]).stamp = player[q].stamp + 1
          /\ Stamped(player[q]).pocket = player[q].pocket /\ Stamped(player[q]).ses = player[q].ses
      BY RoleTyped, StampedRole
    <3>. QED  BY ONLY <3>1, <3>2, <3>3 DEF PlayerRec, PlayerStates
  <2>. HIDE DEF B
  <2>3. player[a].st = "NORMAL" /\ player[b].st = "NORMAL"
    BY <1>3, <2>1 DEF CanTrade
  <2>4. \A q \in Role : (\E i \in 1..2 : q = m.traders[i]) <=> q \in {a, b}
    BY ONLY <1>3
  <2>5. \A q \in Role : player'[q] = IF q \in {a, b} THEN B(q) ELSE player[q]
    BY ONLY <2>1, <2>4
  <2>6. player' \in [Role -> PlayerRec]
    <3>1. \A q \in Role : (IF \E i \in 1..2 : q = m.traders[i] THEN B(q) ELSE player[q]) \in PlayerRec
      BY <2>2, RoleTyped
    <3>. QED  BY ONLY <2>1, <3>1
  <2>7. put' = put \cup {Write(a, B(a), m.tid), Write(b, B(b), m.tid)}
    BY ONLY <1>3, <2>1
  <2>8. ASSUME NEW q \in Role
        PROVE  Write(q, B(q), m.tid) = Written(q, m.tid)
    BY <2>2 DEF Write, Written
  <2>9. put' = put \cup {Written(a, m.tid), Written(b, m.tid)}
    BY <2>7, <2>8
  <2>10. \A q \in {a, b} : /\ player'[q].st = "WAITING_TRADE" /\ player'[q].tid = m.tid
                           /\ player'[q].pocket = player[q].pocket /\ player'[q].ses = player[q].ses
                           /\ player'[q].stamp = player[q].stamp + 1
    BY <2>2, <2>5
  <2>11. \A q \in Role \ {a, b} : player'[q] = player[q]
    BY <2>5
  <2>12. Begins(m, a, b)
    BY ONLY <1>1, <1>2, <1>5, <2>1, <2>3, <2>6, <2>9, <2>10, <2>11 DEF Begins
  <2>. QED  BY <2>12
<1>. QED  BY <1>6, <1>7

\* A role that leaves the trade states keeps its pocket.
LEMMA NormalMoves ==
  ASSUME Typed, NEW r \in Role, NEW p \in PlayerRec, p.ses = player[r].ses,
         player' = [player EXCEPT ![r] = FromTradeToNormal(p)]
  PROVE  \E st \in {"NORMAL", "DISCONNECT"} : Moves(r, st, None, p.pocket, p.stamp)
<1>. DEFINE q == FromTradeToNormal(p)
<1>1. q \in PlayerRec /\ q.tid = None /\ q.st \in {"NORMAL", "DISCONNECT"}
      /\ q.pocket = p.pocket /\ q.stamp = p.stamp /\ q.ses = p.ses
  BY NormalRole
<1>. HIDE DEF q
<1>2. player' = [player EXCEPT ![r] = q]
  BY DEF q
<1>3. Moves(r, q.st, q.tid, q.pocket, q.stamp)
  BY <1>1, <1>2, MovesTo
<1>. QED  BY <1>1, <1>3

LEMMA DropMoves ==
  ASSUME Typed, NEW r \in Role, Drop(r)
  PROVE  Moves(r, "OUT", None, {}, 0) /\ toDS' = toDS \cup {SendLogout(r)}
<1>. DEFINE q == Dropped(player[r])
<1>1. q \in PlayerRec /\ q.tid = None /\ q.st = "OUT" /\ q.pocket = {} /\ q.ses = player[r].ses /\ q.stamp = 0
  BY RoleTyped, DroppedRole DEF Dropped, PlayerRec
<1>2. player' = [player EXCEPT ![r] = q]
  BY DEF Drop
<1>. HIDE DEF q
<1>3. Moves(r, q.st, q.tid, q.pocket, q.stamp)
  BY <1>1, <1>2, MovesTo
<1>. QED  BY <1>1, <1>3 DEF Drop

LEMMA SameStates == {"NORMAL", "DISCONNECT"} \subseteq PlayerStates
BY DEF PlayerStates

LEMMA PutSame == ASSUME put' \subseteq put PROVE PutLess
BY DEF PutLess

LEMMA WriteBackIs ==
  ASSUME Typed, NEW w \in put, WaitingTradeWriteBack(w)
  PROVE  Ignores \/ \E r \in Role, st \in PlayerStates, ok \in BOOLEAN : Answers(r, ok, st)
<1>. DEFINE r == w.role
            waiting == /\ player[r].ses = w.ses /\ player[r].st = "WAITING_TRADE"
                       /\ player[r].tid = w.for
<1>1. PutLess /\ Elsewhere /\ UNCHANGED <<get, toGS, spent>> /\ r \in Role /\ w.for \in Trade
  <2>1. r \in Role
    BY DEF Typed, WriteRec
  <2>. QED  BY <2>1, PutLessWrite DEF WaitingTradeWriteBack, gsOnly, Elsewhere
<1>2. CASE ~waiting
  <2>1. Ignores
    BY <1>1, <1>2 DEF WaitingTradeWriteBack, Ignores
  <2>. QED  BY <2>1
<1>3. CASE waiting /\ w.res = "ok"
  <2>. DEFINE q == [player[r] EXCEPT !.st = "TRADE"]
  <2>1. q \in PlayerRec /\ q.st = "TRADE" /\ q.tid = player[r].tid /\ q.stamp = player[r].stamp
        /\ q.pocket = player[r].pocket /\ q.ses = player[r].ses
    BY <1>1, RoleTyped DEF PlayerRec, PlayerStates
  <2>2. player' = [player EXCEPT ![r] = q] /\ toDS' = toDS \cup {ReplyTradeRequest(player[r].tid, r, TRUE)}
    BY <1>3 DEF WaitingTradeWriteBack
  <2>. HIDE DEF q
  <2>3. Moves(r, "TRADE", player[r].tid, player[r].pocket, player[r].stamp)
    BY <1>1, <2>1, <2>2, MovesTo
  <2>4. Answers(r, TRUE, "NORMAL")
    BY <1>1, <1>3, <2>2, <2>3 DEF Answers
  <2>. QED  BY <1>1, <2>4, SameStates
<1>4. CASE waiting /\ w.res # "ok"
  <2>1. player' = [player EXCEPT ![r] = FromTradeToNormal(player[r])]
        /\ toDS' = toDS \cup {ReplyTradeRequest(player[r].tid, r, FALSE)}
    BY <1>4 DEF WaitingTradeWriteBack
  <2>2. PICK st \in {"NORMAL", "DISCONNECT"} : Moves(r, st, None, player[r].pocket, player[r].stamp)
    BY <1>1, <2>1, RoleTyped, NormalMoves
  <2>3. Answers(r, FALSE, st)
    BY <1>1, <1>4, <2>1, <2>2 DEF Answers
  <2>. QED  BY <1>1, <2>3, SameStates
<1>. QED  BY <1>2, <1>3, <1>4

LEMMA RefuseIs ==
  ASSUME Typed, NEW r \in Role, NEW p \in PlayerRec, p.ses = player[r].ses,
         p.pocket = player[r].pocket, p.stamp = player[r].stamp,
         player[r].st = "WAITING_TRADE",
         player' = [player EXCEPT ![r] = FromTradeToNormal(p)],
         toDS' = toDS \cup {ReplyTradeRequest(player[r].tid, r, FALSE)},
         UNCHANGED <<put, get, toGS, spent>>, Elsewhere
  PROVE  \E st \in PlayerStates : Answers(r, FALSE, st)
<1>1. PICK st \in {"NORMAL", "DISCONNECT"} : Moves(r, st, None, player[r].pocket, player[r].stamp)
  BY NormalMoves
<1>2. player[r].tid \in Trade
  BY RoleTyped DEF InTradeStates
<1>3. Answers(r, FALSE, st)
  BY <1>1, <1>2, PutSame DEF Answers
<1>. QED  BY <1>3, SameStates

\* The role's trade, pocket and timestamp stay.
LEMMA MarkMoves ==
  ASSUME Typed, NEW r \in Role, NEW st \in PlayerStates, NEW b \in BOOLEAN,
         player' = [player EXCEPT ![r] = [@ EXCEPT !.st = st, !.b_disconnect = b]]
  PROVE  Moves(r, st, player[r].tid, player[r].pocket, player[r].stamp)
<1>. DEFINE q == [player[r] EXCEPT !.st = st, !.b_disconnect = b]
<1>1. q \in PlayerRec /\ q.st = st /\ q.tid = player[r].tid /\ q.stamp = player[r].stamp
      /\ q.pocket = player[r].pocket /\ q.ses = player[r].ses
  BY RoleTyped DEF PlayerRec
<1>2. player' = [player EXCEPT ![r] = q]
  BY DEF Typed
<1>. HIDE DEF q
<1>. QED  BY <1>1, <1>2, MovesTo

LEMMA RefuseTradeIs ==
  ASSUME Typed, NEW r \in Role, RefuseTrade(r)
  PROVE  \E st \in PlayerStates : Answers(r, FALSE, st)
BY RefuseIs, RoleTyped DEF RefuseTrade, gsOnly, Elsewhere

LEMMA InterruptIs ==
  ASSUME Typed, NEW r \in Role, InterruptTrade(r)
  PROVE  \E st \in PlayerStates : Marks(r, st)
<1>1. /\ player' = [player EXCEPT ![r] = [@ EXCEPT !.st = "WAIT_TRADE_COMPLETE",
                                                   !.b_disconnect = player[r].b_disconnect]]
      /\ player[r].b_disconnect \in BOOLEAN
  <2>1. player[r] \in PlayerRec
    BY RoleTyped
  <2>2. [player[r] EXCEPT !.st = "WAIT_TRADE_COMPLETE", !.b_disconnect = player[r].b_disconnect]
          = [player[r] EXCEPT !.st = "WAIT_TRADE_COMPLETE"]
    BY <2>1 DEF PlayerRec
  <2>3. player' = [player EXCEPT ![r] = [player[r] EXCEPT !.st = "WAIT_TRADE_COMPLETE"]]
    BY DEF InterruptTrade, Typed
  <2>. QED  BY <2>1, <2>2, <2>3 DEF PlayerRec
<1>2. "WAIT_TRADE_COMPLETE" \in PlayerStates
  BY DEF PlayerStates
<1>3. Moves(r, "WAIT_TRADE_COMPLETE", player[r].tid, player[r].pocket, player[r].stamp)
  BY <1>1, <1>2, MarkMoves
<1>4. player[r].tid \in Trade
  BY RoleTyped DEF InTradeStates, InterruptTrade
<1>5. Marks(r, "WAIT_TRADE_COMPLETE")
  BY <1>3, <1>4 DEF InterruptTrade, gsOnly, Elsewhere, Marks
<1>. QED  BY <1>2, <1>5

LEMMA LostConnectionIs ==
  ASSUME Typed, NEW r \in Role, LostConnection(r)
  PROVE  \E st \in PlayerStates : Marks(r, st) \/ Answers(r, FALSE, st)
<1>. DEFINE p == [player[r] EXCEPT !.b_disconnect = TRUE]
<1>1. /\ p \in PlayerRec /\ p.ses = player[r].ses /\ p.pocket = player[r].pocket
      /\ p.stamp = player[r].stamp /\ p.st = player[r].st /\ p.tid = player[r].tid
  BY RoleTyped DEF PlayerRec
<1>2. /\ UNCHANGED <<put, get, toGS, spent>> /\ Elsewhere /\ player[r].st # "OUT"
      /\ \/ p.st = "NORMAL" /\ player' = [player EXCEPT ![r] = [p EXCEPT !.st = "DISCONNECT"]] /\ UNCHANGED toDS
         \/ /\ p.st = "WAITING_TRADE" /\ player' = [player EXCEPT ![r] = FromTradeToNormal(p)]
            /\ toDS' = toDS \cup {ReplyTradeRequest(p.tid, r, FALSE)}
         \/ /\ p.st = "TRADE" /\ player' = [player EXCEPT ![r] = [p EXCEPT !.st = "WAIT_TRADE_COMPLETE"]]
            /\ toDS' = toDS \cup {DiscardTrade(p.tid)}
         \/ /\ p.st \in {"WAIT_TRADE_COMPLETE", "WAIT_TRADE_READ"}
            /\ player' = [player EXCEPT ![r] = p] /\ UNCHANGED toDS
  BY DEF LostConnection, gsOnly, Elsewhere
<1>3. ASSUME NEW st \in PlayerStates, player' = [player EXCEPT ![r] = [p EXCEPT !.st = st]]
      PROVE  Moves(r, st, player[r].tid, player[r].pocket, player[r].stamp)
  <2>. DEFINE q == [p EXCEPT !.st = st]
  <2>1. q \in PlayerRec /\ q.ses = p.ses /\ q.pocket = p.pocket /\ q.stamp = p.stamp /\ q.st = st /\ q.tid = p.tid
    BY <1>1 DEF PlayerRec
  <2>2. player' = [player EXCEPT ![r] = q]
    BY <1>3
  <2>. HIDE DEF q
  <2>. QED  BY <1>1, <2>1, <2>2, MovesTo
<1>. HIDE DEF p
<1>4. CASE p.st = "NORMAL"
  <2>1. "DISCONNECT" \in PlayerStates
    BY DEF PlayerStates
  <2>2. Marks(r, "DISCONNECT")
    BY <1>1, <1>2, <1>3, <1>4, <2>1 DEF Marks
  <2>. QED  BY <2>1, <2>2
<1>5. CASE p.st = "WAITING_TRADE"
  <2>1. player[r].st = "WAITING_TRADE" /\ player' = [player EXCEPT ![r] = FromTradeToNormal(p)]
        /\ toDS' = toDS \cup {ReplyTradeRequest(player[r].tid, r, FALSE)}
    BY <1>1, <1>2, <1>5
  <2>. QED  BY <1>1, <1>2, <2>1, RefuseIs
<1>6. CASE p.st = "TRADE"
  <2>1. "WAIT_TRADE_COMPLETE" \in PlayerStates
    BY DEF PlayerStates
  <2>2. player[r].tid \in Trade
    BY <1>1, <1>6, RoleTyped DEF InTradeStates
  <2>3. Marks(r, "WAIT_TRADE_COMPLETE")
    BY <1>1, <1>2, <1>3, <1>6, <2>1, <2>2 DEF Marks
  <2>. QED  BY <2>1, <2>3
<1>7. CASE p.st \in {"WAIT_TRADE_COMPLETE", "WAIT_TRADE_READ"}
  <2>1. player' = [player EXCEPT ![r] = p]
    BY <1>2, <1>7
  <2>2. Moves(r, player[r].st, player[r].tid, player[r].pocket, player[r].stamp)
    BY <1>1, <2>1, MovesTo
  <2>3. Marks(r, player[r].st) /\ player[r].st \in PlayerStates
    BY <1>1, <1>2, <1>7, <2>2, RoleTyped DEF Marks
  <2>. QED  BY <2>3
<1>. QED  BY <1>2, <1>4, <1>5, <1>6, <1>7

LEMMA TimeoutIs ==
  ASSUME Typed, NEW r \in Role, WaitingTradeCompleteTimeout(r)
  PROVE  Leaves(r)
BY DropMoves, PutSame DEF WaitingTradeCompleteTimeout, gsOnly, Elsewhere, Leaves

LEMMA LogoutWrittenIs ==
  ASSUME Typed, NEW w \in put, LogoutWritten(w)
  PROVE  \E r \in Role : Leaves(r)
<1>1. w.role \in Role
  BY DEF Typed, WriteRec
<1>2. Leaves(w.role)
  BY <1>1, DropMoves, PutLessWrite DEF LogoutWritten, gsOnly, Elsewhere, Leaves
<1>. QED  BY <1>1, <1>2

LEMMA TradeCompleteIs ==
  ASSUME Typed, NEW m \in toGS, TradeComplete(m)
  PROVE  \/ Ignores
         \/ \E r \in Role : Leaves(r) \/ \E st \in PlayerStates : Finishes(m, r, st)
<1>. DEFINE r == m.role
<1>1. /\ m \in EndMsg /\ r \in Role /\ m.type = "GTradeEnd"
      /\ toGS' = toGS \ {m} /\ UNCHANGED <<put, spent>> /\ Elsewhere
  BY MessagesOfGS DEF TradeComplete, EndMsg, gsOnly, Elsewhere
<1>2. CASE player[r].st \notin {"WAITING_TRADE", "TRADE", "WAIT_TRADE_COMPLETE"}
  BY <1>1, <1>2, PutSame DEF TradeComplete, Ignores
<1>3. CASE player[r].st \in {"WAITING_TRADE", "TRADE", "WAIT_TRADE_COMPLETE"} /\ player[r].tid # m.tid
  <2>1. Leaves(r)
    BY <1>1, <1>3, PutSame, DropMoves DEF TradeComplete, Leaves
  <2>. QED  BY <1>1, <2>1
<1>4. CASE /\ player[r].st \in {"WAITING_TRADE", "TRADE", "WAIT_TRADE_COMPLETE"} /\ player[r].tid = m.tid
           /\ m.need_read
  <2>. DEFINE q == [player[r] EXCEPT !.st = "WAIT_TRADE_READ"]
  <2>1. q \in PlayerRec /\ q.st = "WAIT_TRADE_READ" /\ q.tid = m.tid /\ q.stamp = player[r].stamp
        /\ q.pocket = player[r].pocket /\ q.ses = player[r].ses
    BY <1>1, <1>4, RoleTyped DEF PlayerRec, PlayerStates
  <2>2. /\ player' = [player EXCEPT ![r] = q] /\ UNCHANGED toDS
        /\ get' = get \cup {[role |-> r, ses |-> player[r].ses, tid |-> m.tid,
                             res |-> "sent", pocket |-> {}]}
    BY <1>4 DEF TradeComplete
  <2>. HIDE DEF q
  <2>3. Moves(r, "WAIT_TRADE_READ", m.tid, player[r].pocket, player[r].stamp)
    BY <1>1, <2>1, <2>2, MovesTo
  <2>4. Finishes(m, r, "NORMAL")
    BY <1>1, <1>4, <2>2, <2>3 DEF Finishes
  <2>. QED  BY <1>1, <2>4, SameStates
<1>5. CASE /\ player[r].st \in {"WAITING_TRADE", "TRADE", "WAIT_TRADE_COMPLETE"} /\ player[r].tid = m.tid
           /\ ~m.need_read
  <2>1. player' = [player EXCEPT ![r] = FromTradeToNormal(player[r])] /\ UNCHANGED <<get, toDS>>
    BY <1>5 DEF TradeComplete
  <2>2. PICK st \in {"NORMAL", "DISCONNECT"} : Moves(r, st, None, player[r].pocket, player[r].stamp)
    BY <1>1, <2>1, RoleTyped, NormalMoves
  <2>3. Finishes(m, r, st)
    BY <1>1, <1>5, <2>1, <2>2 DEF Finishes
  <2>. QED  BY <1>1, <2>3, SameStates
<1>. QED  BY <1>2, <1>3, <1>4, <1>5

LEMMA ReadBackIs ==
  ASSUME Typed, NEW x \in get, WaitingTradeReadBack(x)
  PROVE  \/ Ignores
         \/ \E r \in Role : Leaves(r) \/ \E st \in PlayerStates : Reads(x, r, st)
<1>. DEFINE r == x.role
            other == player[r].ses # x.ses \/ player[r].st # "WAIT_TRADE_READ" \/ player[r].tid # x.tid
<1>1. /\ x \in ReadRec /\ r \in Role /\ get' = get \ {x} /\ UNCHANGED <<put, toGS, spent>> /\ Elsewhere
  <2>1. x \in ReadRec
    BY DEF Typed
  <2>. QED  BY <2>1 DEF WaitingTradeReadBack, ReadRec, gsOnly, Elsewhere
<1>2. CASE other
  BY <1>1, <1>2, PutSame DEF WaitingTradeReadBack, Ignores
<1>3. CASE ~other /\ x.res = "ok"
  <2>. DEFINE p == [player[r] EXCEPT !.pocket = x.pocket]
  <2>1. p \in PlayerRec /\ p.ses = player[r].ses /\ p.pocket = x.pocket /\ p.stamp = player[r].stamp
    BY <1>1, RoleTyped DEF PlayerRec, ReadRec
  <2>2. player' = [player EXCEPT ![r] = FromTradeToNormal(p)] /\ UNCHANGED toDS
    BY <1>3 DEF WaitingTradeReadBack, Typed
  <2>. HIDE DEF p
  <2>3. PICK st \in {"NORMAL", "DISCONNECT"} : Moves(r, st, None, x.pocket, player[r].stamp)
    BY <1>1, <2>1, <2>2, NormalMoves
  <2>4. Reads(x, r, st)
    BY <1>1, <1>3, <2>2, <2>3 DEF Reads
  <2>. QED  BY <1>1, <2>4, SameStates
<1>4. CASE ~other /\ x.res # "ok"
  <2>1. Leaves(r)
    BY <1>1, <1>4, PutSame, DropMoves DEF WaitingTradeReadBack, Leaves
  <2>. QED  BY <1>1, <2>1
<1>. QED  BY <1>2, <1>3, <1>4

\* Every step of the game server is one of these.
LEMMA RoleSteps ==
  ASSUME Typed, GameServer
  PROVE  RoleStep
<1>1. ASSUME NEW r \in Role, AutoSaveData(r) \/ Logout(r) PROVE RoleStep
  BY <1>1, SaveIs DEF RoleStep
<1>2. ASSUME NEW r \in Role, NEW g \in Good, Spend(r, g) PROVE RoleStep
  BY <1>2, SpendIs DEF RoleStep
<1>3. ASSUME NEW r \in Role, RefuseTrade(r) \/ LostConnection(r) \/ InterruptTrade(r) PROVE RoleStep
  BY <1>3, RefuseTradeIs, LostConnectionIs, InterruptIs DEF RoleStep
<1>4. ASSUME NEW r \in Role, WaitingTradeCompleteTimeout(r) PROVE RoleStep
  BY <1>4, TimeoutIs DEF RoleStep
<1>5. ASSUME NEW m \in toGS, StartTrade(m) PROVE RoleStep
  BY <1>5, StartIs DEF RoleStep
<1>6. ASSUME NEW m \in toGS, TradeComplete(m) PROVE RoleStep
  BY <1>6, TradeCompleteIs DEF RoleStep
<1>7. ASSUME NEW w \in put, WaitingTradeWriteBack(w) PROVE RoleStep
  BY <1>7, WriteBackIs DEF RoleStep
<1>8. ASSUME NEW w \in put, LogoutWritten(w) PROVE RoleStep
  BY <1>8, LogoutWrittenIs DEF RoleStep
<1>9. ASSUME NEW x \in get, WaitingTradeReadBack(x) PROVE RoleStep
  BY <1>9, ReadBackIs DEF RoleStep
<1>. QED
  BY <1>1, <1>2, <1>3, <1>4, <1>5, <1>6, <1>7, <1>8, <1>9 DEF GameServer

----------------------------------------------------------------------------
(* What the steps of gdeliveryd and of gamedbd come to.                     *)

\* e is d after work that changes neither its roles nor what they have said.
Worked(d, e) ==
  /\ e \in TransRec /\ DeskRecord(e)
  /\ e.agreed = d.agreed /\ e.joined = d.joined /\ e.traders = d.traders
  /\ d.state # "none" /\ e.state # "none" /\ (d.state = "released" <=> e.state = "released")
  /\ d.modified /\ d.state \in Settled => e.modified /\ e.state \in Settled

Works(t) ==
  /\ t \in Trade /\ trans' \in [Trade -> TransRec] /\ Worked(trans[t], trans'[t])
  /\ \A u \in Trade : u # t => trans'[u] = trans[u]
  /\ toDS' \subseteq toDS
  /\ UNCHANGED <<player, put, get, TraderMap, toGS, spent, logins, back>>

\* A Transaction for a and b.
Creates(t, a, b) ==
  /\ t \in Trade /\ trans[t].state = "none" /\ a \in Role /\ b \in Role /\ a # b
  /\ trans' \in [Trade -> TransRec] /\ \A u \in Trade : u # t => trans'[u] = trans[u]
  /\ DeskRecord(trans'[t]) /\ trans'[t].state \in {"Init", "Null"}
  /\ trans'[t].agreed = {} /\ trans'[t].joined = {} /\ trans'[t].traders = <<a, b>>
  /\ \/ toGS' = toGS
     \/ \E m \in StartMsg : m.tid = t /\ m.traders = <<a, b>> /\ toGS' = toGS \cup {m}
  /\ UNCHANGED <<player, row, put, get, TraderMap, toDS, spent, logins, late, back>>

\* The agreement m reaches a live Transaction.
Agrees(m, t, r) ==
  /\ m \in toDS /\ IsReply(m, r, t) /\ m.ok /\ t \in Trade /\ r \in Role /\ Live(t)
  /\ trans' \in [Trade -> TransRec] /\ \A u \in Trade : u # t => trans'[u] = trans[u]
  /\ LET d == trans[t]
         e == trans'[t] IN
     /\ DeskRecord(e) /\ e.state \notin {"none", "released"} /\ e.traders = d.traders
     /\ e.agreed = d.agreed \cup {r}
     /\ \/ e.joined = d.joined /\ TraderMap' = TraderMap
        \/ /\ e.joined = d.joined \cup {r}
           /\ TraderMap[r] = None /\ TraderMap' = [TraderMap EXCEPT ![r] = t]
     /\ d.modified /\ d.state \in Settled => e.modified /\ e.state \in Settled
  /\ toDS' = toDS \ {m}
  /\ UNCHANGED <<player, row, put, get, toGS, spent, logins, late, back>>

\* A message that comes too late.
Forgets ==
  /\ toDS' \subseteq toDS
  /\ UNCHANGED <<player, row, put, get, trans, TraderMap, toGS, spent, logins, late, back>>

\* The end is told if anybody has agreed, and the Transaction released.
Releases(t) ==
  /\ t \in Trade /\ Live(t)
  /\ trans' \in [Trade -> TransRec] /\ \A u \in Trade : u # t => trans'[u] = trans[u]
  /\ DeskRecord(trans'[t]) /\ trans'[t].state = "released" /\ trans'[t].agreed = trans[t].agreed
  /\ \A m \in toGS' : \/ m \in toGS
                      \/ m \in EndMsg /\ m.tid = t /\ m.role \in Traders(t) /\ m.need_read = trans[t].modified
  /\ toGS \subseteq toGS'
  /\ trans[t].OnDestroy => \A r \in Traders(t) : GTradeEnd(t, r) \in toGS'
  /\ TraderMap' = [r \in Role |-> IF r \in Traders(t) /\ TraderMap[r] = t THEN None ELSE TraderMap[r]]
  /\ UNCHANGED <<player, row, put, get, toDS, spent, logins, late, back>>

LEMMA TransTyped ==
  ASSUME Typed, Desks, NEW t \in Trade
  PROVE  /\ trans[t] \in TransRec /\ DeskRecord(trans[t])
         /\ Live(t) => Traders(t) = Pair(trans[t]) /\ Pair(trans[t]) \subseteq Role
         /\ trans[t].state \in TransactionStates
<1>1. trans[t] \in TransRec /\ DeskRecord(trans[t])
  BY DEF Typed, Desks, Desk
<1>2. ASSUME Live(t) PROVE Traders(t) = Pair(trans[t]) /\ Pair(trans[t]) \subseteq Role
  <2>1. PICK a \in Role, b \in Role : trans[t].traders = <<a, b>>
    BY <1>1, <1>2 DEF DeskRecord, Live
  <2>. QED  BY <2>1 DEF Traders, Pair
<1>. QED  BY <1>1, <1>2 DEF TransRec

LEMMA TransTo ==
  ASSUME Typed, NEW t \in Trade, NEW d \in TransRec, trans' = [trans EXCEPT ![t] = d]
  PROVE  /\ trans' \in [Trade -> TransRec] /\ trans'[t] = d
         /\ \A u \in Trade : u # t => trans'[u] = trans[u]
BY DEF Typed

\* A Transaction that is destroyed while no save is awaited.
LEMMA DestroyWorks ==
  ASSUME NEW d \in TransRec, DeskRecord(d), d.state \notin {"none", "released"},
         d.save \notin {"sent", "ok", "bad"}
  PROVE  Worked(d, Destroy([d EXCEPT !.inventory = "none"])) /\ Worked(d, Destroy(d))
<1>. DEFINE e == Destroy(d)
            f == Destroy([d EXCEPT !.inventory = "none"])
<1>1. /\ e \in TransRec /\ e.state = "Null" /\ e.agreed = d.agreed /\ e.joined = d.joined
      /\ e.traders = d.traders /\ e.OnDestroy = d.OnDestroy /\ e.modified = d.modified
      /\ e.inventory = d.inventory /\ e.save = d.save
  BY DEF Destroy, TransRec, TransactionStates
<1>2. /\ f \in TransRec /\ f.state = "Null" /\ f.agreed = d.agreed /\ f.joined = d.joined
      /\ f.traders = d.traders /\ f.OnDestroy = d.OnDestroy /\ f.modified = d.modified
      /\ f.inventory = "none" /\ f.save = d.save
  BY DEF Destroy, TransRec, TransactionStates
<1>. HIDE DEF e, f
<1>3. Worked(d, e)
  BY <1>1 DEF Worked, DeskRecord, Pair, Settled
<1>4. Worked(d, f)
  BY <1>2 DEF Worked, DeskRecord, Pair, Settled
<1>. QED  BY <1>3, <1>4 DEF e, f

LEMMA WorksTo ==
  ASSUME Typed, NEW t \in Trade, NEW d, trans' = [trans EXCEPT ![t] = d], Worked(trans[t], d),
         toDS' \subseteq toDS, UNCHANGED <<player, put, get, TraderMap, toGS, spent, logins, back>>
  PROVE  Works(t)
<1>1. d \in TransRec
  BY DEF Worked
<1>. QED  BY <1>1, TransTo DEF Works

LEMMA OperateWorks ==
  ASSUME Typed, NEW t \in Trade, NEW d, Operate(t, d), Worked(trans[t], d)
  PROVE  Works(t) /\ UNCHANGED <<row, late>>
<1>1. /\ trans' = [trans EXCEPT ![t] = d] /\ toDS' \subseteq toDS
      /\ UNCHANGED <<player, put, get, TraderMap, toGS, spent, logins, back, row, late>>
  BY DEF Operate, dsOnly
<1>. QED  BY <1>1, WorksTo

LEMMA InventoryWorks ==
  ASSUME Typed, Desks, NEW t \in Trade, TradeInventory(t)
  PROVE  Works(t) /\ UNCHANGED <<row, late>>
<1>. DEFINE d == trans[t]
            pssn == [r \in Role |-> IF r \in Traders(t) THEN row[r].pocket ELSE {}]
<1>1. d \in TransRec /\ DeskRecord(d) /\ d.inventory = "sent"
  BY TransTyped DEF TradeInventory
<1>2. pssn \in [Role -> SUBSET Good]
  BY DEF Typed
<1>3. PICK e \in {[d EXCEPT !.inventory = "bad"], [d EXCEPT !.inventory = "ok", !.pssn = pssn]} :
        trans' = [trans EXCEPT ![t] = e]
  BY DEF TradeInventory
<1>4. UNCHANGED <<player, put, get, TraderMap, toGS, toDS, spent, logins, back, row, late>>
  BY DEF TradeInventory, dbOnly
<1>. HIDE DEF d, pssn
<1>5. /\ e \in TransRec /\ e.state = d.state /\ e.agreed = d.agreed /\ e.joined = d.joined
      /\ e.traders = d.traders /\ e.OnDestroy = d.OnDestroy /\ e.modified = d.modified
      /\ e.inventory # "none" /\ e.save = d.save
  BY <1>1, <1>2, <1>3 DEF TransRec
<1>6. Worked(d, e)
  BY <1>1, <1>5 DEF Worked, DeskRecord, Pair, Settled
<1>. QED  BY <1>3, <1>4, <1>6, WorksTo DEF d

LEMMA InventoryClientWorks ==
  ASSUME Typed, Desks, NEW t \in Trade, TradeInventoryClient(t) \/ TradeInventoryOnTimeout(t)
  PROVE  Works(t) /\ UNCHANGED <<row, late>>
<1>. DEFINE d == trans[t]
            c == [d EXCEPT !.inventory = "none"]
            e == [c EXCEPT !.state = "Exchange"]
<1>1. d \in TransRec /\ DeskRecord(d) /\ d.inventory # "none"
  BY TransTyped DEF TradeInventoryClient, TradeInventoryOnTimeout
<1>2. d.state \in {"SetPossession", "Null"} /\ d.save = "none"
  BY <1>1 DEF DeskRecord
<1>3. Worked(d, Destroy(c))
  BY <1>1, <1>2, DestroyWorks
<1>4. \/ Operate(t, Destroy(c))
      \/ d.state = "SetPossession" /\ Operate(t, e)
  BY DEF TradeInventoryClient, TradeInventoryOnTimeout
<1>5. CASE Operate(t, Destroy(c))
  BY <1>3, <1>5, OperateWorks
<1>6. CASE d.state = "SetPossession" /\ Operate(t, e)
  <2>1. /\ e \in TransRec /\ e.state = "Exchange" /\ e.agreed = d.agreed /\ e.joined = d.joined
        /\ e.traders = d.traders /\ e.OnDestroy = d.OnDestroy /\ e.modified = d.modified
        /\ e.inventory = "none" /\ e.save = d.save
    BY <1>1 DEF TransRec, TransactionStates
  <2>. HIDE DEF e
  <2>2. Worked(d, e)
    BY <1>1, <1>2, <1>6, <2>1 DEF Worked, DeskRecord, Pair, Settled
  <2>. QED  BY <1>6, <2>2, OperateWorks
<1>. QED  BY <1>4, <1>5, <1>6

LEMMA MoveWorks ==
  ASSUME Typed, Desks, NEW t \in Trade, MoveObject(t)
  PROVE  Works(t) /\ UNCHANGED <<row, late>>
<1>. DEFINE d == trans[t]
            e == [d EXCEPT !.modified = TRUE]
<1>1. d \in TransRec /\ DeskRecord(d) /\ d.state = "Exchange" /\ Operate(t, e)
  BY TransTyped DEF MoveObject
<1>2. /\ e \in TransRec /\ e.state = d.state /\ e.agreed = d.agreed /\ e.joined = d.joined
      /\ e.traders = d.traders /\ e.OnDestroy = d.OnDestroy /\ e.modified
      /\ e.inventory = d.inventory /\ e.save = d.save
  BY <1>1 DEF TransRec
<1>. HIDE DEF e
<1>3. Worked(d, e)
  BY <1>1, <1>2 DEF Worked, DeskRecord, Pair, Settled
<1>. QED  BY <1>1, <1>3, OperateWorks

\* A desk that is closed by a confirmation or a discard, and saved or not.
LEMMA CloseWorks ==
  ASSUME NEW d \in TransRec, DeskRecord(d), d.state = "Exchange",
         NEW c \in TransRec, c.state \in {"Confirm", "Init"}, c.agreed = d.agreed, c.joined = d.joined,
         c.traders = d.traders, c.OnDestroy = d.OnDestroy, d.modified => c.modified,
         c.inventory = d.inventory, c.save = d.save
  PROVE  /\ c.modified => Worked(d, [c EXCEPT !.save = "sent"])
         /\ Worked(d, Destroy(c))
<1>. DEFINE e == [c EXCEPT !.save = "sent"]
            f == Destroy(c)
<1>1. /\ e \in TransRec /\ e.state = c.state /\ e.agreed = d.agreed /\ e.joined = d.joined
      /\ e.traders = d.traders /\ e.OnDestroy = d.OnDestroy /\ e.modified = c.modified
      /\ e.inventory = d.inventory /\ e.save = "sent"
  BY DEF TransRec
<1>2. /\ f \in TransRec /\ f.state = "Null" /\ f.agreed = d.agreed /\ f.joined = d.joined
      /\ f.traders = d.traders /\ f.OnDestroy = d.OnDestroy /\ f.modified = c.modified
      /\ f.inventory = d.inventory /\ f.save = d.save
  BY DEF TransRec, Destroy, TransactionStates
<1>. HIDE DEF e, f
<1>3. d.save = "none" /\ d.inventory = "none" /\ d.joined = Pair(d)
  BY DEF DeskRecord, TransRec
<1>4. c.modified => Worked(d, e)
  BY <1>1, <1>3 DEF Worked, DeskRecord, Pair, Settled
<1>5. Worked(d, f)
  BY <1>2, <1>3 DEF Worked, DeskRecord, Pair, Settled
<1>. QED  BY <1>4, <1>5 DEF e, f

LEMMA ConfirmWorks ==
  ASSUME Typed, Desks, NEW t \in Trade, NEW S \in SUBSET Good, Confirm(t, S) \/ TradeDiscard(t)
  PROVE  Works(t) /\ UNCHANGED <<row, late>>
<1>. DEFINE d == trans[t]
<1>1. d \in TransRec /\ DeskRecord(d) /\ d.state = "Exchange"
  BY TransTyped DEF Confirm, TradeDiscard
<1>2. PICK c \in TransRec :
        /\ Write2DB(t, c)
        /\ c.state \in {"Confirm", "Init"} /\ c.agreed = d.agreed /\ c.joined = d.joined
        /\ c.traders = d.traders /\ c.OnDestroy = d.OnDestroy /\ (d.modified => c.modified)
        /\ c.inventory = d.inventory /\ c.save = d.save
  <2>1. CASE TradeDiscard(t)
    <3>. DEFINE c == [d EXCEPT !.state = "Init"]
    <3>1. /\ c \in TransRec /\ c.state = "Init" /\ c.agreed = d.agreed /\ c.joined = d.joined
          /\ c.traders = d.traders /\ c.OnDestroy = d.OnDestroy /\ (d.modified => c.modified)
          /\ c.inventory = d.inventory /\ c.save = d.save
      BY <1>1 DEF TransRec, TransactionStates
    <3>2. Write2DB(t, c)
      BY <2>1 DEF TradeDiscard
    <3>. HIDE DEF c
    <3>. QED  BY <3>1, <3>2
  <2>2. CASE Confirm(t, S)
    <3>. DEFINE a == d.traders[1]
                b == d.traders[2]
                all == d.pssn[a] \cup d.pssn[b]
                p == [d.pssn EXCEPT ![a] = S, ![b] = all \ S]
                mod == d.modified \/ p # d.pssn
                c == [d EXCEPT !.state = "Confirm", !.pssn = p, !.modified = mod]
    <3>1. Write2DB(t, c)
      BY <2>2 DEF Confirm
    <3>2. p \in [Role -> SUBSET Good] /\ mod \in BOOLEAN /\ (d.modified => mod)
      <4>1. a \in Role /\ b \in Role
        BY <1>1 DEF DeskRecord
      <4>2. d.pssn \in [Role -> SUBSET Good]
        BY <1>1 DEF TransRec
      <4>. QED  BY <4>1, <4>2
    <3>. HIDE DEF p, mod
    <3>3. /\ c \in TransRec /\ c.state = "Confirm" /\ c.agreed = d.agreed /\ c.joined = d.joined
          /\ c.traders = d.traders /\ c.OnDestroy = d.OnDestroy /\ (d.modified => c.modified)
          /\ c.inventory = d.inventory /\ c.save = d.save
      BY <1>1, <3>2 DEF TransRec, TransactionStates
    <3>. HIDE DEF c
    <3>. QED  BY <3>1, <3>3
  <2>. QED  BY <2>1, <2>2
<1>3. (c.modified => Worked(d, [c EXCEPT !.save = "sent"])) /\ Worked(d, Destroy(c))
  BY <1>1, <1>2, CloseWorks
<1>4. \/ c.modified /\ Operate(t, [c EXCEPT !.save = "sent"])
      \/ Operate(t, Destroy(c))
  BY <1>2 DEF Write2DB
<1>. QED  BY <1>3, <1>4, OperateWorks

\* Answers to a save, or none in time.
LEMMA SaveWorks ==
  ASSUME NEW d \in TransRec, DeskRecord(d), d.save \in {"sent", "ok", "bad"},
         NEW s \in {"none", "late"}
  PROVE  Worked(d, Destroy([d EXCEPT !.save = s]))
<1>. DEFINE e == Destroy([d EXCEPT !.save = s])
<1>1. /\ e \in TransRec /\ e.state = "Null" /\ e.agreed = d.agreed /\ e.joined = d.joined
      /\ e.traders = d.traders /\ e.OnDestroy = d.OnDestroy /\ e.modified = d.modified
      /\ e.inventory = d.inventory /\ e.save = s
  BY DEF TransRec, Destroy, TransactionStates
<1>. HIDE DEF e
<1>. QED  BY <1>1 DEF e, Worked, DeskRecord, Pair, Settled

LEMMA SaveClientWorks ==
  ASSUME Typed, Desks, NEW t \in Trade, TradeSaveClient(t) \/ TradeSaveOnTimeout(t)
  PROVE  Works(t) /\ UNCHANGED <<row, late>>
<1>. DEFINE d == trans[t]
<1>1. d \in TransRec /\ DeskRecord(d) /\ d.save \in {"sent", "ok", "bad"}
  BY TransTyped DEF TradeSaveClient, TradeSaveOnTimeout
<1>2. \E s \in {"none", "late"} : Operate(t, Destroy([d EXCEPT !.save = s]))
  <2>1. CASE TradeSaveClient(t)
    BY <2>1 DEF TradeSaveClient
  <2>2. CASE TradeSaveOnTimeout(t)
    <3>1. Operate(t, Destroy([d EXCEPT !.save = IF d.save = "sent" THEN "late" ELSE "none"]))
      BY <2>2 DEF TradeSaveOnTimeout
    <3>. QED  BY <3>1
  <2>. QED  BY <2>1, <2>2
<1>. QED  BY <1>1, <1>2, SaveWorks, OperateWorks

LEMMA TradeSaveWorks ==
  ASSUME Typed, Desks, NEW t \in Trade, TradeSave(t)
  PROVE  Works(t)
<1>. DEFINE d == trans[t]
<1>1. d \in TransRec /\ DeskRecord(d) /\ d.save \in {"sent", "late"}
  BY TransTyped DEF TradeSave
<1>2. PICK s \in {"none", "ok", "bad"} : /\ trans' = [trans EXCEPT ![t] = [d EXCEPT !.save = s]]
                                         /\ s = "none" <=> d.save = "late"
  <2>1. PICK done \in BOOLEAN :
          trans' = [trans EXCEPT ![t].save = IF @ = "late" THEN "none" ELSE IF done THEN "ok" ELSE "bad"]
    BY DEF TradeSave
  <2>2. trans' = [trans EXCEPT ![t] = [d EXCEPT !.save = IF d.save = "late" THEN "none" ELSE
                                                         IF done THEN "ok" ELSE "bad"]]
    BY <2>1 DEF Typed
  <2>. QED  BY <2>2
<1>. DEFINE e == [d EXCEPT !.save = s]
<1>3. /\ e \in TransRec /\ e.state = d.state /\ e.agreed = d.agreed /\ e.joined = d.joined
      /\ e.traders = d.traders /\ e.OnDestroy = d.OnDestroy /\ e.modified = d.modified
      /\ e.inventory = d.inventory /\ e.save = s
  BY <1>1 DEF TransRec
<1>. HIDE DEF e
<1>4. d.state # "none"
  BY <1>1 DEF DeskRecord, NoTransaction
<1>5. Worked(d, e)
  BY <1>1, <1>2, <1>3, <1>4 DEF Worked, DeskRecord, Pair, Settled
<1>. QED  BY <1>2, <1>5, WorksTo DEF TradeSave, dbOnly, e

LEMMA DiscardWorks ==
  ASSUME Typed, Desks, NEW m \in toDS, GTradeDiscard(m)
  PROVE  Forgets \/ (Works(m.tid) /\ UNCHANGED <<row, late>>)
<1>. DEFINE t == m.tid
            d == trans[t]
            c == [d EXCEPT !.state = "Init"]
<1>1. t \in Trade
  BY MessagesOfDS DEF GTradeDiscard, DiscardMsg
<1>2. /\ toDS' \subseteq toDS
      /\ UNCHANGED <<player, put, get, TraderMap, toGS, spent, logins, back, row, late>>
  BY DEF GTradeDiscard, dsOnly
<1>3. CASE d.state # "Exchange"
  BY <1>2, <1>3 DEF GTradeDiscard, Forgets
<1>4. CASE d.state = "Exchange"
  <2>1. d \in TransRec /\ DeskRecord(d)
    BY <1>1, TransTyped
  <2>2. /\ c \in TransRec /\ c.state = "Init" /\ c.agreed = d.agreed /\ c.joined = d.joined
        /\ c.traders = d.traders /\ c.OnDestroy = d.OnDestroy /\ c.modified = d.modified
        /\ c.inventory = d.inventory /\ c.save = d.save
    BY <2>1 DEF TransRec, TransactionStates
  <2>3. \/ c.modified /\ trans' = [trans EXCEPT ![t] = [c EXCEPT !.save = "sent"]]
        \/ trans' = [trans EXCEPT ![t] = Destroy(c)]
    BY <1>4 DEF GTradeDiscard
  <2>4. (c.modified => Worked(d, [c EXCEPT !.save = "sent"])) /\ Worked(d, Destroy(c))
    BY <1>4, <2>1, <2>2, CloseWorks
  <2>. QED  BY <1>1, <1>2, <2>3, <2>4, WorksTo
<1>. QED  BY <1>3, <1>4

\* A live Transaction from one of whose roles an answer is on its way has not
\* been saved.
LEMMA AnswerAwaited ==
  ASSUME Typed, Desks, Replies, NEW m \in toDS, m.type = "GTradeStart_Re", Live(m.tid)
  PROVE  LET d == trans[m.tid] IN
         /\ m \in ReplyMsg /\ m.role \in Pair(d) /\ m.role \notin d.agreed
         /\ d.state \notin {"SetPossession", "Exchange", "Confirm"}
         /\ d.save \in {"none", "late"} /\ ~d.modified
         /\ d \in TransRec /\ DeskRecord(d) /\ d.state \notin {"none", "released"}
<1>. DEFINE d == trans[m.tid]
<1>1. m \in ReplyMsg /\ m.tid \in Trade
  BY MessagesOfDS DEF ReplyMsg
<1>2. d \in TransRec /\ DeskRecord(d) /\ d.state \notin {"none", "released"} /\ Traders(m.tid) = Pair(d)
  BY <1>1, TransTyped DEF Live
<1>3. m.role \in Pair(d) /\ m.role \notin d.agreed
  BY <1>2 DEF Replies
<1>4. d.joined # Pair(d)
  BY <1>2, <1>3 DEF DeskRecord
<1>5. d.save \in {"none", "sent", "ok", "bad", "late"}
  BY <1>2 DEF TransRec
<1>. QED  BY <1>1, <1>2, <1>3, <1>4, <1>5 DEF DeskRecord

LEMMA RefusalWorks ==
  ASSUME Typed, Desks, Replies, NEW m \in toDS, GTradeStart_ReRefuse(m)
  PROVE  Forgets \/ (Works(m.tid) /\ UNCHANGED <<row, late>>)
<1>. DEFINE t == m.tid
<1>1. t \in Trade
  BY MessagesOfDS DEF GTradeStart_ReRefuse, ReplyMsg
<1>2. /\ toDS' \subseteq toDS /\ m.type = "GTradeStart_Re"
      /\ UNCHANGED <<player, put, get, TraderMap, toGS, spent, logins, back, row, late>>
  BY DEF GTradeStart_ReRefuse, dsOnly
<1>3. CASE ~Live(t)
  BY <1>2, <1>3 DEF GTradeStart_ReRefuse, Forgets
<1>4. CASE Live(t)
  <2>1. trans' = [trans EXCEPT ![t] = Destroy(trans[t])]
    BY <1>1, <1>4 DEF GTradeStart_ReRefuse, Typed
  <2>2. Worked(trans[t], Destroy(trans[t]))
    BY <1>2, <1>4, AnswerAwaited, DestroyWorks
  <2>. QED  BY <1>1, <1>2, <2>1, <2>2, WorksTo
<1>. QED  BY <1>3, <1>4

LEMMA RoleLogoutWorks ==
  ASSUME Typed, Desks, NEW m \in toDS, RoleLogout(m)
  PROVE  Forgets \/ \E t \in Trade : Works(t) /\ UNCHANGED <<row, late>>
<1>. DEFINE t == TraderMap[m.role]
            d == trans[t]
            c == [d EXCEPT !.modified = FALSE]
<1>1. /\ toDS' \subseteq toDS
      /\ UNCHANGED <<player, put, get, TraderMap, toGS, spent, logins, back, row, late>>
  BY DEF RoleLogout, dsOnly
<1>2. CASE ~(t # None /\ d.state = "Exchange")
  BY <1>1, <1>2 DEF RoleLogout, Forgets
<1>3. CASE t # None /\ d.state = "Exchange"
  <2>1. m.role \in Role
    BY MessagesOfDS DEF RoleLogout, LogoutMsg
  <2>2. t \in Trade
    BY <1>3, <2>1 DEF Typed
  <2>3. d \in TransRec /\ DeskRecord(d)
    BY <2>2, TransTyped
  <2>4. trans' = [trans EXCEPT ![t] = Destroy(c)]
    BY <1>3, <2>2 DEF RoleLogout, Typed
  <2>5. /\ c \in TransRec /\ c.state = d.state /\ c.agreed = d.agreed /\ c.joined = d.joined
        /\ c.traders = d.traders /\ c.OnDestroy = d.OnDestroy
        /\ c.inventory = d.inventory /\ c.save = d.save
    BY <2>3 DEF TransRec
  <2>6. DeskRecord(c) /\ c.state = "Exchange" /\ c.save \notin {"sent", "ok", "bad"}
    BY <1>3, <2>3, <2>5 DEF DeskRecord, Pair
  <2>7. Worked(c, Destroy(c))
    BY <2>5, <2>6, DestroyWorks
  <2>. HIDE DEF c
  <2>8. Worked(d, Destroy(c))
    BY <1>3, <2>5, <2>6, <2>7 DEF Worked, Settled
  <2>. QED  BY <1>1, <2>2, <2>4, <2>8, WorksTo
<1>. QED  BY <1>2, <1>3

LEMMA CreateIs ==
  ASSUME Typed, Desks, NEW a \in Role, NEW b \in Role, Create(a, b)
  PROVE  \E t \in Trade : Creates(t, a, b)
<1>. DEFINE ss == <<player[a].ses, player[b].ses>>
            d == [NoTransaction EXCEPT !.state = "Init", !.traders = <<a, b>>, !.ses = ss]
<1>1. PICK t \in Trade :
        /\ trans[t].state = "none" /\ a # b
        /\ UNCHANGED <<TraderMap, online, toDS, logins, back>> /\ dsOnly
        /\ \/ /\ trans' = [trans EXCEPT ![t] = d]
              /\ toGS' = toGS \cup {[type |-> "GTradeStart", tid |-> t, traders |-> <<a, b>>, ses |-> ss]}
           \/ trans' = [trans EXCEPT ![t] = Destroy(d)] /\ UNCHANGED toGS
  <2>1. d.traders = <<a, b>> /\ d.ses = ss
    BY DEF NoTransaction
  <2>. QED  BY <2>1 DEF Create
<1>2. ss \in Ses \X Ses /\ NoPocket \in [Role -> SUBSET Good]
  BY RoleTyped DEF NoPocket
<1>3. /\ d \in TransRec /\ d.state = "Init" /\ d.agreed = {} /\ d.joined = {} /\ d.traders = <<a, b>>
      /\ ~d.OnDestroy /\ ~d.modified /\ d.inventory = "none" /\ d.save = "none"
  <2>. HIDE DEF ss
  <2>. QED  BY <1>2 DEF TransRec, NoTransaction, TransactionStates
<1>4. /\ Destroy(d) \in TransRec /\ Destroy(d).state = "Null" /\ Destroy(d).agreed = {} /\ Destroy(d).joined = {}
      /\ Destroy(d).traders = <<a, b>>
      /\ ~Destroy(d).OnDestroy /\ ~Destroy(d).modified /\ Destroy(d).inventory = "none" /\ Destroy(d).save = "none"
  <2>. HIDE DEF d
  <2>. QED  BY <1>3 DEF Destroy, TransRec, TransactionStates
<1>. HIDE DEF d
<1>5. DeskRecord(d) /\ DeskRecord(Destroy(d))
  BY <1>1, <1>3, <1>4 DEF DeskRecord, Pair
<1>6. CASE /\ trans' = [trans EXCEPT ![t] = d]
           /\ toGS' = toGS \cup {[type |-> "GTradeStart", tid |-> t, traders |-> <<a, b>>, ses |-> ss]}
  <2>. DEFINE m == [type |-> "GTradeStart", tid |-> t, traders |-> <<a, b>>, ses |-> ss]
  <2>1. m \in StartMsg /\ m.tid = t /\ m.traders = <<a, b>>
    <3>. HIDE DEF ss
    <3>. QED  BY <1>2 DEF StartMsg
  <2>. HIDE DEF m
  <2>2. toGS' = toGS \cup {m}
    BY <1>6 DEF m
  <2>3. Creates(t, a, b)
    BY <1>1, <1>3, <1>5, <1>6, <2>1, <2>2, TransTo DEF Creates, dsOnly
  <2>. QED  BY <2>3
<1>7. CASE trans' = [trans EXCEPT ![t] = Destroy(d)] /\ UNCHANGED toGS
  <2>1. Creates(t, a, b)
    BY <1>1, <1>4, <1>5, <1>7, TransTo DEF Creates, dsOnly
  <2>. QED  BY <2>1
<1>. QED  BY <1>1, <1>6, <1>7

LEMMA UpdateIs ==
  ASSUME Typed, Desks, NEW t \in Trade, Update(t)
  PROVE  Releases(t)
<1>. DEFINE d == trans[t]
            k == [d EXCEPT !.state = "released"]
            z == [NoTransaction EXCEPT !.state = "released", !.agreed = d.agreed]
<1>1. /\ d.state \in {"Init_half", "SetPossession", "Exchange", "Null"}
      /\ toGS' = IF d.OnDestroy THEN toGS \cup {GTradeEnd(t, r) : r \in Traders(t)} ELSE toGS
      /\ TraderMap' = [r \in Role |-> IF r \in Traders(t) /\ TraderMap[r] = t THEN None ELSE TraderMap[r]]
      /\ trans' = [trans EXCEPT ![t] = IF d.save = "late" THEN k ELSE z]
      /\ UNCHANGED <<player, row, put, get, toDS, spent, logins, late, back>>
  BY DEF Update, dsOnly
<1>2. d \in TransRec /\ DeskRecord(d) /\ Traders(t) \subseteq Role /\ Live(t)
  BY <1>1, TransTyped DEF Live
<1>3. ASSUME d.save = "late"
      PROVE  k \in TransRec /\ k.state = "released" /\ k.agreed = d.agreed /\ DeskRecord(k)
  <2>1. /\ k \in TransRec /\ k.state = "released" /\ k.agreed = d.agreed /\ k.joined = d.joined
        /\ k.inventory = d.inventory /\ k.save = d.save
    BY <1>2 DEF TransRec, TransactionStates
  <2>2. d.inventory = "none"
    BY <1>2, <1>3 DEF DeskRecord
  <2>. HIDE DEF k
  <2>. QED  BY <1>2, <1>3, <2>1, <2>2 DEF DeskRecord
<1>4. z \in TransRec /\ z.state = "released" /\ z.agreed = d.agreed /\ DeskRecord(z)
  <2>1. d.agreed \subseteq Role /\ NoPocket \in [Role -> SUBSET Good]
    BY <1>2 DEF TransRec, NoPocket
  <2>2. /\ z \in TransRec /\ z.state = "released" /\ z.agreed = d.agreed /\ z.joined = {}
        /\ z.inventory = "none" /\ z.save = "none"
    BY <2>1 DEF TransRec, NoTransaction, TransactionStates
  <2>. HIDE DEF z
  <2>. QED  BY <2>2 DEF DeskRecord
<1>5. PICK e \in TransRec : /\ trans' = [trans EXCEPT ![t] = e]
                            /\ e.state = "released" /\ e.agreed = d.agreed /\ DeskRecord(e)
  BY <1>1, <1>3, <1>4
<1>6. trans' \in [Trade -> TransRec] /\ trans'[t] = e /\ \A u \in Trade : u # t => trans'[u] = trans[u]
  BY <1>5, TransTo
<1>7. ASSUME NEW r \in Traders(t)
      PROVE  /\ GTradeEnd(t, r) \in EndMsg /\ GTradeEnd(t, r).tid = t /\ GTradeEnd(t, r).role = r
             /\ GTradeEnd(t, r).need_read = d.modified
  BY <1>2 DEF EndMsg, GTradeEnd, TransRec
<1>8. \A m \in toGS' : \/ m \in toGS
                       \/ m \in EndMsg /\ m.tid = t /\ m.role \in Traders(t) /\ m.need_read = trans[t].modified
  BY <1>1, <1>7
<1>9. toGS \subseteq toGS' /\ (trans[t].OnDestroy => \A r \in Traders(t) : GTradeEnd(t, r) \in toGS')
  BY <1>1
<1>. QED  BY <1>1, <1>2, <1>5, <1>6, <1>8, <1>9 DEF Releases

LEMMA AgreeIs ==
  ASSUME Typed, Desks, Replies, NEW m \in toDS, GTradeStart_ReAgree(m)
  PROVE  Forgets \/ Agrees(m, m.tid, m.role)
<1>. DEFINE t == m.tid
            r == m.role
            d == trans[t]
            c == [d EXCEPT !.OnDestroy = TRUE, !.agreed = @ \cup {r}]
            joins == d.state \in {"Init", "Init_half"} /\ TraderMap[r] = None
<1>1. /\ m.type = "GTradeStart_Re" /\ m.ok /\ toDS' = toDS \ {m}
      /\ UNCHANGED <<player, row, put, get, toGS, spent, logins, late, back>>
  BY DEF GTradeStart_ReAgree, dsOnly
<1>2. m \in ReplyMsg /\ t \in Trade /\ r \in Role
  BY <1>1, MessagesOfDS DEF ReplyMsg
<1>3. CASE ~Live(t)
  BY <1>1, <1>3 DEF GTradeStart_ReAgree, Forgets
<1>4. CASE Live(t)
  <2>1. /\ r \in Pair(d) /\ r \notin d.agreed
        /\ d.state \notin {"none", "released", "SetPossession", "Exchange", "Confirm"}
        /\ d.save \in {"none", "late"} /\ ~d.modified
        /\ d \in TransRec /\ DeskRecord(d)
    BY <1>1, <1>4, AnswerAwaited
  <2>2. /\ c \in TransRec /\ c.state = d.state /\ c.agreed = d.agreed \cup {r} /\ c.joined = d.joined
        /\ c.traders = d.traders /\ c.OnDestroy /\ c.modified = d.modified
        /\ c.inventory = d.inventory /\ c.save = d.save
    BY <1>2, <2>1 DEF TransRec
  <2>3. \/ ~joins /\ trans' = [trans EXCEPT ![t] = Destroy(c)] /\ UNCHANGED TraderMap
        \/ /\ joins /\ TraderMap' = [TraderMap EXCEPT ![r] = t]
           /\ \/ trans' = [trans EXCEPT ![t] = Attached(c, r)]
              \/ /\ Attached(c, r).inventory = "sent"
                 /\ trans' = [trans EXCEPT ![t] = Destroy([Attached(c, r) EXCEPT !.inventory = "none"])]
    BY <1>4, <2>2 DEF GTradeStart_ReAgree
  <2>4. DeskRecord(c)
    BY <2>1, <2>2 DEF DeskRecord, Pair
  <2>. HIDE DEF c
  <2>5. CASE ~joins /\ trans' = [trans EXCEPT ![t] = Destroy(c)] /\ UNCHANGED TraderMap
    <3>1. Worked(c, Destroy(c))
      BY <2>1, <2>2, <2>4, DestroyWorks
    <3>2. Destroy(c) \in TransRec
      BY <3>1 DEF Worked
    <3>. QED  BY <1>1, <1>2, <1>4, <2>1, <2>2, <2>5, <3>1, <3>2, TransTo DEF Agrees, Worked, IsReply
  <2>6. CASE /\ joins /\ TraderMap' = [TraderMap EXCEPT ![r] = t]
             /\ \/ trans' = [trans EXCEPT ![t] = Attached(c, r)]
                \/ /\ Attached(c, r).inventory = "sent"
                   /\ trans' = [trans EXCEPT ![t] = Destroy([Attached(c, r) EXCEPT !.inventory = "none"])]
    <3>. DEFINE e == Attached(c, r)
                f == Destroy([e EXCEPT !.inventory = "none"])
    <3>1. PICK a \in Role, b \in Role : d.traders = <<a, b>> /\ a # b /\ Pair(d) = {a, b}
      <4>1. d.traders \in Role \X Role /\ d.traders[1] # d.traders[2]
        BY <2>1 DEF DeskRecord
      <4>. QED  BY <4>1 DEF Pair
    <3>2. d.joined \subseteq {a, b} /\ r \in {a, b} /\ d.joined \subseteq d.agreed /\ r \notin d.joined
          /\ d.inventory = "none" /\ d.save = "none"
      BY <2>1, <2>6, <3>1 DEF DeskRecord
    <3>3. Cardinality(d.joined \cup {r}) >= 2 => d.joined \cup {r} = {a, b}
      <4>1. ASSUME d.joined \cup {r} # {a, b} PROVE d.joined \cup {r} = {r}
        BY <3>2, <4>1
      <4>2. Cardinality({r}) = 1
        BY FS_Singleton
      <4>. QED  BY <4>1, <4>2
    <3>4. Cardinality(d.joined \cup {r}) \in Nat
      BY <3>2, FS_CardinalityType, FS_EmptySet, FS_AddElement, FS_Subset, SMTT(30)
    <3>5. /\ e \in TransRec /\ e.agreed = c.agreed /\ e.joined = d.joined \cup {r}
          /\ e.traders = d.traders /\ e.OnDestroy /\ e.modified = d.modified /\ e.save = d.save
          /\ \/ e.state = "Init_half" /\ e.inventory = d.inventory
             \/ e.state = "SetPossession" /\ e.inventory = "sent" /\ e.joined = {a, b}
      <4>1. CASE Cardinality(c.joined \cup {r}) < 2
        <5>1. e = [c EXCEPT !.joined = c.joined \cup {r}, !.state = "Init_half"]
          BY <4>1 DEF Attached
        <5>. QED  BY <1>2, <2>2, <5>1, ZenonT(60) DEF TransRec, TransactionStates
      <4>2. CASE ~(Cardinality(c.joined \cup {r}) < 2)
        <5>1. e = [c EXCEPT !.joined = c.joined \cup {r}, !.state = "SetPossession", !.inventory = "sent"]
          BY <4>2 DEF Attached
        <5>2. d.joined \cup {r} = {a, b}
          BY <2>2, <3>3, <3>4, <4>2
        <5>. QED  BY <1>2, <2>2, <5>1, <5>2, ZenonT(60) DEF TransRec, TransactionStates
      <4>. QED  BY <4>1, <4>2
    <3>. HIDE DEF e
    <3>6. DeskRecord(e)
      <4>1. Pair(e) = {a, b}
        BY <3>1, <3>5 DEF Pair
      <4>2. e.traders \in Role \X Role /\ e.traders[1] # e.traders[2]
        BY <3>1, <3>5
      <4>3. e.joined \subseteq e.agreed /\ e.joined \subseteq {a, b} /\ e.agreed \subseteq {a, b}
        BY <2>1, <2>2, <3>1, <3>2, <3>5 DEF DeskRecord
      <4>. QED  BY <2>1, <3>2, <3>5, <4>1, <4>2, <4>3 DEF DeskRecord
    <3>7. Worked(e, f)
      BY <2>1, <3>5, <3>6, DestroyWorks
    <3>8. f \in TransRec
      BY <3>7 DEF Worked
    <3>. HIDE DEF f
    <3>9. CASE trans' = [trans EXCEPT ![t] = e]
      BY <1>1, <1>2, <1>4, <2>1, <2>2, <2>6, <3>5, <3>6, <3>9, TransTo DEF Agrees, IsReply
    <3>10. CASE trans' = [trans EXCEPT ![t] = f]
      BY <1>1, <1>2, <1>4, <2>1, <2>2, <2>6, <3>5, <3>7, <3>8, <3>10, TransTo DEF Agrees, IsReply, Worked
    <3>. QED  BY <2>6, <3>9, <3>10 DEF e, f
  <2>. QED  BY <2>3, <2>5, <2>6
<1>. QED  BY <1>3, <1>4

\* gamedbd executes the write w or refuses it; who waits for it gets an answer.
Puts(w) ==
  /\ w \in put /\ w.res = "sent" /\ w \in WriteRec
  /\ \/ row' = row
     \/ /\ w.timestamp > row[w.role].timestamp
        /\ row' = [row EXCEPT ![w.role] = [pocket |-> w.pocket, timestamp |-> w.timestamp]]
  /\ \A v \in put' :
       \/ v \in put
       \/ /\ v \in WriteRec /\ v.role = w.role /\ v.timestamp = w.timestamp /\ v.pocket = w.pocket
          /\ v.for = w.for /\ v.res \in {"ok", "bad"}
          /\ v.res = "ok" => row'[v.role].pocket = v.pocket /\ row'[v.role].timestamp = v.timestamp
  /\ UNCHANGED <<player, get, trans, TraderMap, toGS, toDS, spent, logins, late, back>>

Gets(x) ==
  /\ x \in get /\ x \in ReadRec
  /\ \A y \in get' :
       \/ y \in get
       \/ /\ y \in ReadRec /\ y.role = x.role /\ y.tid = x.tid
          /\ y.res = "ok" => y.pocket = row[x.role].pocket
  /\ UNCHANGED <<player, row, put, trans, TraderMap, toGS, toDS, spent, logins, late, back>>

LEMMA PutIs ==
  ASSUME Typed, NEW w \in put, PutRole(w)
  PROVE  Puts(w)
<1>1. w \in WriteRec /\ w.role \in Role /\ w.res = "sent"
  BY DEF Typed, WriteRec, PutRole
<1>2. PICK done \in BOOLEAN :
        /\ done => w.timestamp > row[w.role].timestamp
        /\ row' = IF done THEN [row EXCEPT ![w.role] = [pocket |-> w.pocket, timestamp |-> w.timestamp]]
                  ELSE row
        /\ put' = (put \ {w}) \cup
             (IF w.for = None THEN {} ELSE {[w EXCEPT !.res = IF done THEN "ok" ELSE "bad"]})
  BY DEF PutRole
<1>3. UNCHANGED <<player, get, trans, TraderMap, toGS, toDS, spent, logins, late, back>>
  BY DEF PutRole, dbOnly
<1>. DEFINE v == [w EXCEPT !.res = IF done THEN "ok" ELSE "bad"]
<1>4. /\ v \in WriteRec /\ v.role = w.role /\ v.timestamp = w.timestamp /\ v.pocket = w.pocket
      /\ v.for = w.for /\ v.res = IF done THEN "ok" ELSE "bad"
  BY <1>1 DEF WriteRec
<1>5. done => row'[w.role].pocket = w.pocket /\ row'[w.role].timestamp = w.timestamp
  BY <1>1, <1>2 DEF Typed
<1>. HIDE DEF v
<1>6. \A u \in put' : u \in put \/ u = v
  BY <1>2 DEF v
<1>. QED  BY <1>1, <1>2, <1>3, <1>4, <1>5, <1>6 DEF Puts

LEMMA GetIs ==
  ASSUME Typed, NEW x \in get, GetMoneyInventory(x)
  PROVE  Gets(x)
<1>1. x \in ReadRec /\ row[x.role].pocket \subseteq Good
  BY DEF Typed, ReadRec
<1>2. PICK y \in {[x EXCEPT !.res = "ok", !.pocket = row[x.role].pocket], [x EXCEPT !.res = "bad"]} :
        get' = (get \ {x}) \cup {y}
  BY DEF GetMoneyInventory
<1>3. y \in ReadRec /\ y.role = x.role /\ y.tid = x.tid /\ (y.res = "ok" => y.pocket = row[x.role].pocket)
  BY <1>1, <1>2 DEF ReadRec
<1>. QED  BY <1>1, <1>2, <1>3 DEF Gets, GetMoneyInventory, dbOnly

\* Every step is one of these.
DeskStep ==
  \/ \E t \in Trade : \/ Works(t) /\ UNCHANGED <<row, late>>
                      \/ Works(t) /\ TradeSave(t)
                      \/ Releases(t)
  \/ \E t \in Trade, a, b \in Role : Creates(t, a, b)
  \/ \E m \in toDS, t \in Trade, r \in Role : Agrees(m, t, r)
  \/ Forgets
StoreStep == (\E w \in put : Puts(w)) \/ (\E x \in get : Gets(x)) \/ (\E r \in Role : Login(r))

LEMMA Steps ==
  ASSUME Typed, Desks, Replies, Next
  PROVE  RoleStep \/ DeskStep \/ StoreStep
<1>1. ASSUME GameServer PROVE RoleStep
  BY <1>1, RoleSteps
<1>2. ASSUME NEW r \in Role, Login(r) PROVE StoreStep
  BY <1>2 DEF StoreStep
<1>3. ASSUME NEW w \in put, PutRole(w) PROVE StoreStep
  BY <1>3, PutIs DEF StoreStep
<1>4. ASSUME NEW x \in get, GetMoneyInventory(x) PROVE StoreStep
  BY <1>4, GetIs DEF StoreStep
<1>5. ASSUME NEW a \in Role, NEW b \in Role, Create(a, b) PROVE DeskStep
  BY <1>5, CreateIs DEF DeskStep
<1>6. ASSUME NEW m \in toDS, GTradeStart_ReAgree(m) PROVE DeskStep
  <2>1. m.tid \in Trade /\ m.role \in Role
    BY <1>6, MessagesOfDS DEF GTradeStart_ReAgree, ReplyMsg
  <2>. QED  BY <1>6, <2>1, AgreeIs DEF DeskStep
<1>7. ASSUME NEW m \in toDS, GTradeStart_ReRefuse(m) \/ GTradeDiscard(m) PROVE DeskStep
  <2>1. m.tid \in Trade
    BY <1>7, MessagesOfDS DEF GTradeStart_ReRefuse, ReplyMsg, GTradeDiscard, DiscardMsg
  <2>. QED  BY <1>7, <2>1, RefusalWorks, DiscardWorks DEF DeskStep
<1>8. ASSUME NEW m \in toDS, RoleLogout(m) PROVE DeskStep
  BY <1>8, RoleLogoutWorks DEF DeskStep
<1>9. ASSUME NEW t \in Trade, \/ TradeInventory(t) \/ TradeInventoryClient(t) \/ TradeInventoryOnTimeout(t)
                              \/ MoveObject(t) \/ TradeDiscard(t) \/ TradeSaveClient(t) \/ TradeSaveOnTimeout(t)
                              \/ \E S \in SUBSET Good : Confirm(t, S)
      PROVE DeskStep
  <2>1. Works(t) /\ UNCHANGED <<row, late>>
    BY <1>9, InventoryWorks, InventoryClientWorks, MoveWorks, ConfirmWorks, SaveClientWorks
  <2>. QED  BY <2>1 DEF DeskStep
<1>10. ASSUME NEW t \in Trade, TradeSave(t) PROVE DeskStep
  BY <1>10, TradeSaveWorks DEF DeskStep
<1>11. ASSUME NEW t \in Trade, Update(t) PROVE DeskStep
  BY <1>11, UpdateIs DEF DeskStep
<1>. QED
  BY <1>1, <1>2, <1>3, <1>4, <1>5, <1>6, <1>7, <1>8, <1>9, <1>10, <1>11 DEF Next, GameServer

----------------------------------------------------------------------------
(* Types stay.                                                             *)

LEMMA MovesTyped ==
  ASSUME Typed, NEW r \in Role, NEW st, NEW tid, NEW pocket, NEW stamp, Moves(r, st, tid, pocket, stamp),
         tid # None <=> st \in InTradeStates, logins' = logins
  PROVE  /\ player' \in [Role -> PlayerRec]
         /\ \A q \in Role : player'[q].ses <= logins'
         /\ \A q \in Role : (player'[q].tid # None) <=> player'[q].st \in InTradeStates
BY DEF Typed, Moves

LEMMA RoleStepTyped ==
  ASSUME Typed, RoleStep
  PROVE  Typed'
<1>. USE TradeBounds, NoTradeAssumption
<1>1. ASSUME NEW r \in Role, NEW g \in Good, Spends(r, g) PROVE Typed'
  <2>1. player[r].tid = None /\ player[r].st \notin InTradeStates
    BY <1>1, RoleTyped, Labels DEF Spends
  <2>. QED  BY <1>1, <2>1, MovesTyped DEF Spends, Elsewhere, Typed
<1>2. ASSUME NEW r \in Role, NEW f \in Trade \cup {None, Off} PROVE Written(r, f) \in WriteRec
  BY RoleTyped DEF Written, WriteRec
<1>3. ASSUME NEW r \in Role, NEW st, NEW f \in {None, Off}, Saves(r, st, f) PROVE Typed'
  <2>1. st \notin InTradeStates /\ Written(r, f) \in WriteRec
    BY <1>2, <1>3, Labels DEF Saves
  <2>. QED  BY <1>3, <2>1, MovesTyped DEF Saves, Elsewhere, Typed
<1>4. ASSUME NEW m \in toGS, NEW a \in Role, NEW b \in Role, Begins(m, a, b) PROVE Typed'
  <2>1. m.tid \in Trade
    BY MessagesOfGS
  <2>2. Written(a, m.tid) \in WriteRec /\ Written(b, m.tid) \in WriteRec
    BY <1>2, <2>1
  <2>3. \A q \in Role : player'[q].ses <= logins'
    BY <1>4 DEF Begins, Elsewhere, Typed
  <2>4. \A q \in Role : (player'[q].tid # None) <=> player'[q].st \in InTradeStates
    BY <1>4, <2>1 DEF Begins, Typed, InTradeStates
  <2>. QED  BY <1>4, <2>2, <2>3, <2>4 DEF Begins, Elsewhere, Typed
<1>5. ASSUME NEW t \in Trade, NEW r \in Role, NEW ok \in BOOLEAN
      PROVE  ReplyTradeRequest(t, r, ok) \in ReplyMsg
  BY DEF ReplyTradeRequest, ReplyMsg
<1>6. ASSUME NEW m \in toGS, NEW a \in Role, Declines(m, a) PROVE Typed'
  <2>1. m.tid \in Trade
    BY MessagesOfGS
  <2>2. toDS' \subseteq toDS \cup ReplyMsg
    BY <1>5, <1>6, <2>1 DEF Declines
  <2>3. toGS' \subseteq toGS /\ UNCHANGED <<player, put, get, spent>> /\ Elsewhere
    BY <1>6 DEF Declines
  <2>. QED  BY <2>2, <2>3 DEF Elsewhere, Typed
<1>7. ASSUME PutLess PROVE put' \subseteq WriteRec
  BY <1>7 DEF PutLess, Typed
<1>8. ASSUME NEW r \in Role, NEW ok \in BOOLEAN, NEW st, Answers(r, ok, st) PROVE Typed'
  <2>1. /\ player' \in [Role -> PlayerRec]
        /\ \A q \in Role : player'[q].ses <= logins'
        /\ \A q \in Role : (player'[q].tid # None) <=> player'[q].st \in InTradeStates
    <3>1. CASE ok
      <4>1. "TRADE" \in InTradeStates /\ player[r].tid # None
        BY <1>8 DEF InTradeStates, Answers
      <4>. QED  BY <1>8, <3>1, <4>1, MovesTyped DEF Answers, Elsewhere
    <3>2. CASE ~ok
      BY <1>8, <3>2, Labels, MovesTyped DEF Answers, Elsewhere
    <3>. QED  BY <3>1, <3>2
  <2>2. put' \subseteq WriteRec /\ ReplyTradeRequest(player[r].tid, r, ok) \in ReplyMsg
    BY <1>5, <1>7, <1>8 DEF Answers
  <2>. QED  BY <1>8, <2>1, <2>2 DEF Answers, Elsewhere, Typed
<1>9. ASSUME Ignores PROVE Typed'
  BY <1>7, <1>9 DEF Ignores, Elsewhere, Typed
<1>10. ASSUME NEW r \in Role, Leaves(r) PROVE Typed'
  <2>1. SendLogout(r) \in LogoutMsg
    BY DEF SendLogout, LogoutMsg
  <2>. QED  BY <1>7, <1>10, <2>1, MovesTyped, Labels DEF Leaves, Elsewhere, Typed
<1>11. ASSUME NEW r \in Role, NEW st, Marks(r, st) PROVE Typed'
  <2>1. player[r].tid # None <=> st \in InTradeStates
    BY <1>11, RoleTyped DEF Marks, InTradeStates
  <2>2. toDS' \subseteq toDS \cup DiscardMsg
    BY <1>11 DEF Marks, DiscardTrade, DiscardMsg
  <2>. QED  BY <1>11, <2>1, <2>2, MovesTyped DEF Marks, Elsewhere, Typed
<1>12. ASSUME NEW m \in toGS, NEW r \in Role, NEW st, Finishes(m, r, st) PROVE Typed'
  <2>1. m.tid \in Trade
    BY MessagesOfGS
  <2>2. CASE m.need_read
    <3>1. "WAIT_TRADE_READ" \in InTradeStates /\ m.tid # None
      BY <2>1 DEF InTradeStates
    <3>2. [role |-> r, ses |-> player[r].ses, tid |-> m.tid, res |-> "sent", pocket |-> {}] \in ReadRec
      BY <2>1, RoleTyped DEF ReadRec
    <3>3. /\ Moves(r, "WAIT_TRADE_READ", m.tid, player[r].pocket, player[r].stamp)
          /\ toGS' \subseteq toGS /\ get' \subseteq get \cup ReadRec
          /\ UNCHANGED <<put, toDS, spent>> /\ Elsewhere
      BY <1>12, <2>2, <3>2 DEF Finishes
    <3>4. /\ player' \in [Role -> PlayerRec]
          /\ \A q \in Role : player'[q].ses <= logins'
          /\ \A q \in Role : (player'[q].tid # None) <=> player'[q].st \in InTradeStates
      BY <3>1, <3>3, MovesTyped DEF Elsewhere
    <3>. QED  BY <3>3, <3>4 DEF Elsewhere, Typed
  <2>3. CASE ~m.need_read
    BY <1>12, <2>3, MovesTyped, Labels DEF Finishes, Elsewhere, Typed
  <2>. QED  BY <2>2, <2>3
<1>13. ASSUME NEW x \in get, NEW r \in Role, NEW st, Reads(x, r, st) PROVE Typed'
  BY <1>13, MovesTyped, Labels DEF Reads, Elsewhere, Typed
<1>. QED
  BY <1>1, <1>3, <1>4, <1>6, <1>8, <1>9, <1>10, <1>11, <1>12, <1>13 DEF RoleStep

LEMMA DeskStepTyped ==
  ASSUME Typed, Desks, DeskStep
  PROVE  Typed'
<1>. USE TradeBounds, NoTradeAssumption
<1>1. ASSUME NEW t \in Trade, Works(t) /\ UNCHANGED <<row, late>> PROVE Typed'
  BY <1>1 DEF Works, Typed
<1>2. ASSUME NEW t \in Trade, Works(t), TradeSave(t) PROVE Typed'
  <2>1. row' \in [Role -> [pocket : SUBSET Good, timestamp : Nat]]
    <3>1. trans[t].pssn \in [Role -> SUBSET Good]
      BY TransTyped DEF TransRec
    <3>2. ASSUME NEW r \in Role
          PROVE  [row[r] EXCEPT !.pocket = trans[t].pssn[r]] \in [pocket : SUBSET Good, timestamp : Nat]
      BY <3>1 DEF Typed
    <3>3. PICK B \in SUBSET Role :
            row' = [r \in Role |-> IF r \in B THEN [row[r] EXCEPT !.pocket = trans[t].pssn[r]] ELSE row[r]]
      <4>1. PICK done \in BOOLEAN :
              row' = [r \in Role |-> IF done /\ r \in Traders(t)
                                     THEN [row[r] EXCEPT !.pocket = trans[t].pssn[r]] ELSE row[r]]
        BY <1>2 DEF TradeSave
      <4>. WITNESS {r \in Role : done /\ r \in Traders(t)} \in SUBSET Role
      <4>. QED  BY <4>1
    <3>. QED  BY <3>2, <3>3 DEF Typed
  <2>2. late' \in BOOLEAN
    BY <1>2 DEF TradeSave, Typed
  <2>. QED  BY <1>2, <2>1, <2>2 DEF Works, Typed
<1>3. ASSUME NEW t \in Trade, Releases(t) PROVE Typed'
  BY <1>3 DEF Releases, Typed
<1>4. ASSUME NEW t \in Trade, NEW a \in Role, NEW b \in Role, Creates(t, a, b) PROVE Typed'
  BY <1>4 DEF Creates, Typed
<1>5. ASSUME NEW m \in toDS, NEW t \in Trade, NEW r \in Role, Agrees(m, t, r) PROVE Typed'
  BY <1>5 DEF Agrees, Typed
<1>6. ASSUME Forgets PROVE Typed'
  BY <1>6 DEF Forgets, Typed
<1>. QED  BY <1>1, <1>2, <1>3, <1>4, <1>5, <1>6 DEF DeskStep

\* A login: a new session, read from the table.
LEMMA LoginIs ==
  ASSUME Typed, NEW r \in Role, Login(r)
  PROVE  /\ player' \in [Role -> PlayerRec] /\ \A q \in Role : q # r => player'[q] = player[q]
         /\ player'[r].st = "NORMAL" /\ player'[r].tid = None /\ player'[r].pocket = row[r].pocket
         /\ player'[r].stamp = row[r].timestamp /\ player'[r].ses = player[r].ses + 1
         /\ spent' = spent \ row[r].pocket /\ logins' = logins + 1 /\ logins' \in Ses
         /\ back' = back \/ back' = back \cup {r}
         /\ \/ TraderMap[r] # None
            \/ \E w \in put : w.role = r
            \/ \E m \in toDS : m.type = "GTradeStart_Re" /\ m.role = r
            => r \in back'
         /\ UNCHANGED <<row, put, get, trans, TraderMap, toGS, toDS, late>>
<1>. DEFINE q == [st |-> "NORMAL", tid |-> None, pocket |-> row[r].pocket,
                  stamp |-> row[r].timestamp, ses |-> player[r].ses + 1, b_disconnect |-> FALSE]
<1>1. logins < MaxLogin /\ logins \in Nat /\ MaxLogin \in Nat /\ player[r].ses \in Nat /\ player[r].ses <= logins
  BY TradeBounds, RoleTyped DEF Login, Typed, Ses
<1>2. q \in PlayerRec
  BY <1>1 DEF PlayerRec, PlayerStates, Ses, Typed
<1>3. player' = [player EXCEPT ![r] = q]
  BY DEF Login, Typed
<1>4. player' \in [Role -> PlayerRec] /\ player'[r] = q /\ \A p \in Role : p # r => player'[p] = player[p]
  BY <1>2, <1>3 DEF Typed
<1>5. logins' = logins + 1 /\ logins' \in Ses
  BY <1>1 DEF Login, Ses
<1>6. /\ spent' = spent \ row[r].pocket
      /\ back' = back \/ back' = back \cup {r}
      /\ \/ TraderMap[r] # None
         \/ \E w \in put : w.role = r
         \/ \E m \in toDS : m.type = "GTradeStart_Re" /\ m.role = r
         => r \in back'
      /\ UNCHANGED <<row, put, get, trans, TraderMap, toGS, toDS, late>>
  BY DEF Login
<1>. QED  BY <1>4, <1>5, <1>6

LEMMA StoreStepTyped ==
  ASSUME Typed, StoreStep
  PROVE  Typed'
<1>1. ASSUME NEW w \in put, Puts(w) PROVE Typed'
  <2>1. row' \in [Role -> [pocket : SUBSET Good, timestamp : Nat]]
    BY <1>1 DEF Puts, Typed, WriteRec
  <2>2. put' \subseteq WriteRec
    BY <1>1 DEF Puts, Typed
  <2>. QED  BY <1>1, <2>1, <2>2 DEF Puts, Typed
<1>2. ASSUME NEW x \in get, Gets(x) PROVE Typed'
  BY <1>2 DEF Gets, Typed
<1>3. ASSUME NEW r \in Role, Login(r) PROVE Typed'
  <2>1. \A q \in Role : player'[q].ses <= logins'
    BY <1>3, LoginIs, RoleTyped DEF Typed, Ses
  <2>2. \A q \in Role : (player'[q].tid # None) <=> player'[q].st \in InTradeStates
    BY <1>3, LoginIs, Labels DEF Typed
  <2>. QED  BY <1>3, LoginIs, <2>1, <2>2 DEF Typed
<1>. QED  BY <1>1, <1>2, <1>3 DEF StoreStep

----------------------------------------------------------------------------
(* The Transactions' fields keep together.                                 *)

LEMMA RolesOnly == RoleStep => Elsewhere
<1>1. ASSUME NEW r \in Role, NEW g, NEW st, NEW f, NEW ok,
             Spends(r, g) \/ Saves(r, st, f) \/ Answers(r, ok, st) \/ Marks(r, st) \/ Leaves(r)
      PROVE  Elsewhere
  BY <1>1 DEF Spends, Saves, Answers, Marks, Leaves
<1>2. ASSUME NEW m \in toGS, NEW r \in Role, NEW b, NEW st, Begins(m, r, b) \/ Declines(m, r) \/ Finishes(m, r, st)
      PROVE  Elsewhere
  BY <1>2 DEF Begins, Declines, Finishes
<1>3. ASSUME NEW x \in get, NEW r \in Role, NEW st, Reads(x, r, st)
      PROVE  Elsewhere
  BY <1>3 DEF Reads
<1>4. ASSUME Ignores PROVE Elsewhere
  BY <1>4 DEF Ignores
<1>. QED  BY <1>1, <1>2, <1>3, <1>4 DEF RoleStep

LEMMA DesksStep ==
  ASSUME Typed, Desks, Replies, RoleStep \/ DeskStep \/ StoreStep
  PROVE  Desks'
<1>. USE NoTradeAssumption
<1>1. ASSUME UNCHANGED <<trans, TraderMap>> PROVE Desks'
  BY <1>1 DEF Desks, Desk, MapOfDesks, Live, Traders
<1>2. CASE RoleStep
  <2>1. UNCHANGED <<trans, TraderMap>>
    BY <1>2, RolesOnly DEF Elsewhere
  <2>. QED  BY <1>1, <2>1
<1>3. CASE StoreStep
  <2>1. UNCHANGED <<trans, TraderMap>>
    BY <1>3 DEF StoreStep, Puts, Gets, Login
  <2>. QED  BY <1>1, <2>1
<1>4. ASSUME NEW t \in Trade, Works(t) PROVE Desks'
  <2>1. \A u \in Trade : Desk(u)'
    BY <1>4 DEF Works, Worked, Desks, Desk, Live
  <2>2. \A u \in Trade : Live(u) => Live(u)'
    BY <1>4 DEF Works, Worked, Live
  <2>3. \A u \in Trade : Traders(u)' = Traders(u)
    BY <1>4 DEF Works, Worked, Traders
  <2>4. MapOfDesks'
    BY <1>4, <2>2, <2>3 DEF Works, Desks, MapOfDesks, Typed
  <2>. QED  BY <2>1, <2>4 DEF Desks
<1>5. ASSUME NEW t \in Trade, Releases(t) PROVE Desks'
  <2>1. ASSUME NEW u \in Trade PROVE Desk(u)'
    BY <1>5 DEF Releases, Desks, Desk, Live, Typed, TransRec, DeskRecord
  <2>2. ASSUME NEW r \in Role, NEW u \in Trade, TraderMap'[r] = u
        PROVE  Live(u)' /\ r \in Traders(u)'
    <3>1. TraderMap[r] = u /\ u # t
      BY <1>5, <2>2 DEF Releases, Desks, MapOfDesks
    <3>2. trans'[u] = trans[u]
      BY <1>5, <3>1 DEF Releases
    <3>. QED  BY <3>1, <3>2 DEF Desks, MapOfDesks, Live, Traders
  <2>. QED  BY <2>1, <2>2 DEF Desks, MapOfDesks
<1>6. ASSUME NEW t \in Trade, NEW a \in Role, NEW b \in Role, Creates(t, a, b) PROVE Desks'
  <2>1. ASSUME NEW u \in Trade PROVE Desk(u)'
    BY <1>6 DEF Creates, Desks, Desk, Live
  <2>2. ASSUME NEW r \in Role, NEW u \in Trade, TraderMap'[r] = u
        PROVE  Live(u)' /\ r \in Traders(u)'
    <3>1. TraderMap[r] = u /\ u # t
      BY <1>6, <2>2 DEF Creates, Desks, MapOfDesks, Live
    <3>2. trans'[u] = trans[u]
      BY <1>6, <3>1 DEF Creates
    <3>. QED  BY <3>1, <3>2 DEF Desks, MapOfDesks, Live, Traders
  <2>. QED  BY <2>1, <2>2 DEF Desks, MapOfDesks
<1>7. ASSUME NEW m \in toDS, NEW t \in Trade, NEW r \in Role, Agrees(m, t, r) PROVE Desks'
  <2>1. Live(t) /\ r \in Traders(t)
    BY <1>7 DEF Agrees, Replies, IsReply
  <2>2. \A u \in Trade : Traders(u)' = Traders(u) /\ (Live(u) => Live(u)')
    BY <1>7 DEF Agrees, Traders, Live
  <2>3. ASSUME NEW u \in Trade PROVE Desk(u)'
    <3>1. DeskRecord(trans'[u])
      BY <1>7 DEF Agrees, Desks, Desk
    <3>2. ASSUME Live(u)', NEW q \in trans'[u].joined PROVE TraderMap'[q] = u
      <4>1. CASE q \in trans[u].joined /\ Live(u)
        <5>1. TraderMap[q] = u /\ q \in Role
          BY <4>1, TransTyped DEF Desks, Desk, TransRec
        <5>. QED  BY <1>7, <5>1 DEF Agrees, Typed
      <4>2. CASE ~(q \in trans[u].joined /\ Live(u))
        <5>1. u = t /\ q = r /\ TraderMap' = [TraderMap EXCEPT ![r] = t]
          BY <1>7, <2>1, <3>2, <4>2 DEF Agrees, Live
        <5>. QED  BY <5>1 DEF Typed
      <4>. QED  BY <4>1, <4>2
    <3>. QED  BY <3>1, <3>2 DEF Desk
  <2>4. ASSUME NEW q \in Role, NEW u \in Trade, TraderMap'[q] = u
        PROVE  Live(u)' /\ q \in Traders(u)'
    <3>1. TraderMap[q] = u \/ (q = r /\ u = t)
      BY <1>7, <2>4 DEF Agrees, Typed
    <3>. QED  BY <2>1, <2>2, <3>1 DEF Desks, MapOfDesks
  <2>. QED  BY <2>3, <2>4 DEF Desks, MapOfDesks
<1>8. ASSUME Forgets PROVE Desks'
  BY <1>1, <1>8 DEF Forgets
<1>. QED  BY <1>2, <1>3, <1>4, <1>5, <1>6, <1>7, <1>8 DEF DeskStep

----------------------------------------------------------------------------
(* Who may still answer for a trade.                                       *)

LEMMA MessageTids ==
  ASSUME Typed
  PROVE  /\ \A m \in toGS : m.tid \in Trade
         /\ \A m \in toDS : m.type # "PlayerLogout" => m.tid \in Trade
         /\ \A m \in toDS : m.type = "GTradeStart_Re" => m.role \in Role /\ m.tid \in Trade
         /\ \A m \in toGS : m.type = "GTradeEnd" => m.role \in Role
         /\ \A w \in put : w.role \in Role /\ w.for \in Trade \cup {None, Off}
         /\ \A x \in get : x.role \in Role /\ x.tid \in Trade
<1>1. \A m \in toGS : m.tid \in Trade
  BY MessagesOfGS
<1>2. \A m \in toDS : m.type # "PlayerLogout" => m.tid \in Trade
  BY DEF Typed, ReplyMsg, DiscardMsg, LogoutMsg
<1>3. \A m \in toDS : m.type = "GTradeStart_Re" => m.role \in Role /\ m.tid \in Trade
  BY MessagesOfDS DEF ReplyMsg
<1>4. \A m \in toGS : m.type = "GTradeEnd" => m.role \in Role
  BY MessagesOfGS DEF EndMsg
<1>5. /\ \A w \in put : w.role \in Role /\ w.for \in Trade \cup {None, Off}
      /\ \A x \in get : x.role \in Role /\ x.tid \in Trade
  BY DEF Typed, WriteRec, ReadRec
<1>. QED  BY <1>1, <1>2, <1>3, <1>4, <1>5

\* A step after which no Transaction has heard more, and nobody else is waiting.
TransQuiet ==
  \A u \in Trade :
    /\ trans'[u].agreed = trans[u].agreed
    /\ Live(u)' => Live(u) /\ trans'[u].traders = trans[u].traders
    /\ trans'[u].state = "none" => trans[u].state = "none"
    /\ trans[u].state = "released" => trans'[u].state = "released"
RolesQuiet ==
  \A r \in Role, t \in Trade : player'[r].tid = t =>
    /\ player[r].tid = t
    /\ player'[r].st = "WAITING_TRADE" => player[r].st = "WAITING_TRADE"
    /\ player'[r].st \in {"TRADE", "WAIT_TRADE_COMPLETE"} => player[r].st \in {"TRADE", "WAIT_TRADE_COMPLETE"}
CallsQuiet ==
  /\ \A w \in put' : w.for \in Trade => \E v \in put : v.for = w.for
  /\ \A x \in get' : \/ \E y \in get : y.role = x.role /\ y.tid = x.tid
                    \/ /\ x.role \in Role /\ x.tid \in Trade /\ x.role \in trans[x.tid].agreed
                       /\ player'[x.role].st = "WAIT_TRADE_READ"
EndsQuiet ==
  \A m \in toGS' : \/ m \in toGS
                   \/ /\ m.type = "GTradeEnd" /\ m.tid \in Trade /\ trans'[m.tid].state = "released"
                      /\ m.need_read => m.role \in trans[m.tid].agreed
AnswersQuiet ==
  \A m \in toDS' : \/ m \in toDS
                   \/ m.type = "PlayerLogout"
                   \/ m.type = "GTradeDiscard" /\ trans[m.tid].state # "none"

LEMMA TalkLess ==
  ASSUME Typed, Typed', Talk, TransQuiet, RolesQuiet, CallsQuiet, AnswersQuiet, EndsQuiet
  PROVE  Talk'
<1>1. ASSUME NEW u \in Trade, Live(u)' PROVE Live(u) /\ Traders(u)' = Traders(u)
  BY <1>1 DEF TransQuiet, Traders
<1>2. Known'
  <2>1. ASSUME NEW m \in toGS' PROVE trans'[m.tid].state # "none"
    BY MessageTids DEF Talk, Known, TransQuiet, EndsQuiet
  <2>2. ASSUME NEW m \in toDS', m.type # "PlayerLogout" PROVE trans'[m.tid].state # "none"
    <3>1. m.tid \in Trade
      BY <2>2 DEF Typed, ReplyMsg, DiscardMsg, LogoutMsg
    <3>. QED  BY <2>2, <3>1 DEF Talk, Known, TransQuiet, AnswersQuiet
  <2>3. ASSUME NEW w \in put', w.for \in Trade PROVE trans'[w.for].state # "none"
    BY <2>3 DEF Talk, Known, TransQuiet, CallsQuiet
  <2>4. ASSUME NEW r \in Role, NEW t \in Trade, player'[r].tid = t PROVE trans'[t].state # "none"
    BY <2>4 DEF Talk, Known, TransQuiet, RolesQuiet
  <2>. QED  BY <2>1, <2>2, <2>3, <2>4 DEF Known
<1>3. Starts'
  <2>1. SUFFICES ASSUME NEW m \in toGS', m.type = "GTradeStart"
                 PROVE  /\ trans'[m.tid].agreed = {}
                        /\ Live(m.tid)' => m.traders = trans'[m.tid].traders
                        /\ \A r \in Role : player'[r].tid # m.tid
                        /\ \A w \in put' : w.for # m.tid
                        /\ \A r \in Role, n \in toDS' : ~IsReply(n, r, m.tid)
                        /\ \A n \in toGS' : IsStart(n, m.tid) => n = m
    BY DEF Starts
  <2>2. m \in toGS /\ m.tid \in Trade
    BY <2>1, MessageTids DEF EndsQuiet
  <2>3. /\ trans[m.tid].agreed = {}
        /\ Live(m.tid) => m.traders = trans[m.tid].traders
        /\ \A r \in Role : player[r].tid # m.tid
        /\ \A w \in put : w.for # m.tid
        /\ \A r \in Role, n \in toDS : ~IsReply(n, r, m.tid)
        /\ \A n \in toGS : IsStart(n, m.tid) => n = m
    BY <2>1, <2>2 DEF Talk, Starts
  <2>. QED  BY <2>2, <2>3 DEF TransQuiet, RolesQuiet, CallsQuiet, AnswersQuiet, EndsQuiet, IsReply, IsStart
<1>4. Replies'
  <2>1. ASSUME NEW r \in Role, NEW t \in Trade, player'[r].st = "WAITING_TRADE", player'[r].tid = t
        PROVE  /\ r \notin trans'[t].agreed
               /\ Live(t)' => r \in Traders(t)'
               /\ \A n \in toDS' : ~IsReply(n, r, t)
    BY <1>1, <2>1 DEF Talk, Replies, TransQuiet, RolesQuiet, AnswersQuiet, IsReply
  <2>2. ASSUME NEW m \in toDS', m.type = "GTradeStart_Re"
        PROVE  /\ m.role \notin trans'[m.tid].agreed
               /\ Live(m.tid)' => m.role \in Traders(m.tid)'
               /\ \A n \in toDS' : IsReply(n, m.role, m.tid) => n = m
    <3>1. m \in toDS /\ m.tid \in Trade
      BY <2>2, MessageTids DEF AnswersQuiet
    <3>. QED  BY <1>1, <2>2, <3>1 DEF Talk, Replies, TransQuiet, AnswersQuiet, IsReply
  <2>. QED  BY <2>1, <2>2 DEF Replies
<1>5. Ends'
  <2>1. ASSUME NEW m \in toGS', m.type = "GTradeEnd"
        PROVE  trans'[m.tid].state = "released" /\ (m.need_read => m.role \in trans'[m.tid].agreed)
    BY <2>1, MessageTids DEF Talk, Ends, TransQuiet, EndsQuiet
  <2>2. ASSUME NEW x \in get'
        PROVE  /\ x.role \in trans'[x.tid].agreed
               /\ ~(player'[x.role].st \in {"TRADE", "WAIT_TRADE_COMPLETE"} /\ player'[x.role].tid = x.tid)
    <3>1. CASE \E y \in get : y.role = x.role /\ y.tid = x.tid
      <4>1. PICK y \in get : y.role = x.role /\ y.tid = x.tid
        BY <3>1
      <4>2. y.role \in Role /\ y.tid \in Trade
        BY MessageTids
      <4>. QED  BY <4>1, <4>2 DEF Talk, Ends, TransQuiet, RolesQuiet
    <3>. QED  BY <3>1 DEF CallsQuiet, TransQuiet
  <2>. QED  BY <2>1, <2>2 DEF Ends
<1>. QED  BY <1>2, <1>3, <1>4, <1>5 DEF Talk

LEMMA TransSame == ASSUME UNCHANGED trans PROVE TransQuiet
BY DEF TransQuiet, Live

LEMMA CallsSame == ASSUME put' \subseteq put \/ PutLess, get' \subseteq get PROVE CallsQuiet
BY NoTradeAssumption DEF CallsQuiet, PutLess

LEMMA MovesQuiet ==
  ASSUME Typed, NEW r \in Role, NEW st, NEW tid, NEW pocket, NEW stamp, Moves(r, st, tid, pocket, stamp),
         \/ tid = None
         \/ tid = player[r].tid /\ st = player[r].st
         \/ tid = player[r].tid /\ player[r].st \in {"TRADE", "WAIT_TRADE_COMPLETE"} /\ st # "WAITING_TRADE"
         \/ tid = player[r].tid /\ st \notin {"WAITING_TRADE", "TRADE", "WAIT_TRADE_COMPLETE"}
  PROVE  RolesQuiet
BY NoTradeAssumption DEF Moves, RolesQuiet

LEMMA RoleStepTalk ==
  ASSUME Typed, Typed', Desks, Talk, RoleStep
  PROVE  Talk'
<1>. USE NoTradeAssumption
<1>1. TransQuiet /\ UNCHANGED <<trans, TraderMap>>
  BY RolesOnly, TransSame DEF Elsewhere
<1>2. (toDS' = toDS => AnswersQuiet) /\ (toGS' \subseteq toGS => EndsQuiet)
  BY DEF AnswersQuiet, EndsQuiet
<1>3. ASSUME NEW r \in Role, NEW g \in Good, Spends(r, g) PROVE Talk'
  <2>1. RolesQuiet /\ CallsQuiet
    BY <1>3, MovesQuiet, CallsSame DEF Spends
  <2>. QED  BY <1>1, <1>2, <1>3, <2>1, TalkLess DEF Spends
<1>4. ASSUME NEW r \in Role, NEW st, NEW f, Saves(r, st, f) PROVE Talk'
  <2>1. RolesQuiet
    BY <1>4, MovesQuiet DEF Saves
  <2>2. CallsQuiet
    BY <1>4 DEF Saves, Written, CallsQuiet
  <2>. QED  BY <1>1, <1>2, <1>4, <2>1, <2>2, TalkLess DEF Saves
<1>5. ASSUME NEW r \in Role, Leaves(r) PROVE Talk'
  <2>1. RolesQuiet /\ CallsQuiet
    BY <1>5, MovesQuiet, CallsSame DEF Leaves
  <2>2. AnswersQuiet
    BY <1>5 DEF Leaves, AnswersQuiet, SendLogout
  <2>. QED  BY <1>1, <1>2, <1>5, <2>1, <2>2, TalkLess DEF Leaves
<1>6. ASSUME NEW r \in Role, NEW st, Marks(r, st) PROVE Talk'
  <2>1. RolesQuiet
    <3>1. \/ st = player[r].st
          \/ player[r].tid = None
          \/ player[r].st \in {"TRADE", "WAIT_TRADE_COMPLETE"} /\ st # "WAITING_TRADE"
      BY <1>6, RoleTyped, Labels DEF Marks
    <3>. QED  BY <1>6, <3>1, MovesQuiet DEF Marks
  <2>2. CallsQuiet
    BY <1>6, CallsSame DEF Marks
  <2>3. AnswersQuiet
    BY <1>6 DEF Marks, AnswersQuiet, DiscardTrade, Talk, Known
  <2>. QED  BY <1>1, <1>2, <1>6, <2>1, <2>2, <2>3, TalkLess DEF Marks
<1>7. ASSUME Ignores PROVE Talk'
  <2>1. RolesQuiet
    BY <1>7 DEF Ignores, RolesQuiet
  <2>2. CallsQuiet
    BY <1>7, CallsSame DEF Ignores
  <2>. QED  BY <1>1, <1>2, <1>7, <2>1, <2>2, TalkLess DEF Ignores
<1>8. ASSUME NEW x \in get, NEW r \in Role, NEW st, Reads(x, r, st) PROVE Talk'
  <2>1. RolesQuiet /\ CallsQuiet
    BY <1>8, MovesQuiet, CallsSame DEF Reads
  <2>. QED  BY <1>1, <1>2, <1>8, <2>1, TalkLess DEF Reads
<1>9. ASSUME NEW m \in toGS, NEW r \in Role, NEW st, Finishes(m, r, st) PROVE Talk'
  <2>1. m.tid \in Trade
    BY MessageTids
  <2>2. RolesQuiet
    BY <1>9, MovesQuiet DEF Finishes
  <2>3. CASE ~m.need_read
    <3>1. CallsQuiet
      BY <1>9, <2>3, CallsSame DEF Finishes
    <3>. QED  BY <1>1, <1>2, <1>9, <2>2, <3>1, TalkLess DEF Finishes
  <2>4. CASE m.need_read
    <3>1. r \in trans[m.tid].agreed
      BY <1>9, <2>4 DEF Finishes, Talk, Ends
    <3>2. CallsQuiet
      BY <1>9, <2>1, <2>4, <3>1 DEF Finishes, CallsQuiet, Moves
    <3>. QED  BY <1>1, <1>2, <1>9, <2>2, <3>2, TalkLess DEF Finishes
  <2>. QED  BY <2>3, <2>4
<1>10. ASSUME NEW m \in toGS, NEW a \in Role, NEW b \in Role, Begins(m, a, b) PROVE Talk'
  <2>1. /\ m.tid \in Trade /\ trans[m.tid].state # "none" /\ trans[m.tid].agreed = {}
        /\ Live(m.tid) => Traders(m.tid) = {a, b}
        /\ \A r \in Role, n \in toDS : ~IsReply(n, r, m.tid)
        /\ \A n \in toGS : IsStart(n, m.tid) => n = m
    <3>1. /\ m.tid \in Trade /\ trans[m.tid].state # "none" /\ trans[m.tid].agreed = {}
          /\ Live(m.tid) => trans[m.tid].traders = <<a, b>>
          /\ \A r \in Role, n \in toDS : ~IsReply(n, r, m.tid)
          /\ \A n \in toGS : IsStart(n, m.tid) => n = m
      BY <1>10, MessageTids DEF Begins, Talk, Known, Starts
    <3>. QED  BY <3>1 DEF Traders
  <2>2. \A q \in Role, t \in Trade : player'[q].tid = t =>
          \/ player[q].tid = t /\ player'[q] = player[q] /\ q \notin {a, b}
          \/ t = m.tid /\ q \in {a, b} /\ player'[q].st = "WAITING_TRADE"
    BY <1>10 DEF Begins
  <2>3. \A w \in put' : w \in put \/ w.for = m.tid
    BY <1>10 DEF Begins, Written
  <2>4. UNCHANGED <<trans, toDS, get>> /\ toGS' = toGS \ {m} /\ m.type = "GTradeStart"
    BY <1>1, <1>10 DEF Begins
  <2>5. Known'
    BY <2>1, <2>2, <2>3, <2>4, MessageTids DEF Talk, Known
  <2>6. Starts'
    <3>1. SUFFICES ASSUME NEW n \in toGS', n.type = "GTradeStart"
                   PROVE  /\ trans[n.tid].agreed = {}
                          /\ Live(n.tid)' => n.traders = trans[n.tid].traders
                          /\ \A r \in Role : player'[r].tid # n.tid
                          /\ \A w \in put' : w.for # n.tid
                          /\ \A r \in Role, k \in toDS : ~IsReply(k, r, n.tid)
                          /\ \A k \in toGS' : IsStart(k, n.tid) => k = n
      BY <2>4 DEF Starts
    <3>2. n \in toGS /\ n.tid \in Trade /\ n.tid # m.tid
      BY <2>1, <2>4, <3>1, MessageTids DEF IsStart
    <3>3. /\ trans[n.tid].agreed = {}
          /\ Live(n.tid) => n.traders = trans[n.tid].traders
          /\ \A r \in Role : player[r].tid # n.tid
          /\ \A w \in put : w.for # n.tid
          /\ \A r \in Role, k \in toDS : ~IsReply(k, r, n.tid)
          /\ \A k \in toGS : IsStart(k, n.tid) => k = n
      BY <3>1, <3>2 DEF Talk, Starts
    <3>. QED  BY <2>2, <2>3, <2>4, <3>2, <3>3 DEF Live
  <2>7. Replies'
    BY <2>1, <2>2, <2>4, SMTT(30) DEF Talk, Replies, Live, Traders
  <2>8. Ends'
    BY <2>2, <2>4, MessageTids DEF Talk, Ends
  <2>. QED  BY <2>5, <2>6, <2>7, <2>8 DEF Talk
<1>11. ASSUME NEW m \in toGS, NEW a \in Role, Declines(m, a) PROVE Talk'
  <2>1. /\ m.tid \in Trade /\ trans[m.tid].state # "none" /\ trans[m.tid].agreed = {}
        /\ Live(m.tid) => a \in Traders(m.tid)
        /\ \A r \in Role : player[r].tid # m.tid
        /\ \A r \in Role, n \in toDS : ~IsReply(n, r, m.tid)
        /\ \A n \in toGS : IsStart(n, m.tid) => n = m
    <3>1. /\ m.tid \in Trade /\ trans[m.tid].state # "none" /\ trans[m.tid].agreed = {}
          /\ Live(m.tid) => trans[m.tid].traders[1] = a
          /\ \A r \in Role : player[r].tid # m.tid
          /\ \A r \in Role, n \in toDS : ~IsReply(n, r, m.tid)
          /\ \A n \in toGS : IsStart(n, m.tid) => n = m
      BY <1>11, MessageTids DEF Declines, Talk, Known, Starts
    <3>2. Live(m.tid) => a \in Traders(m.tid)
      BY <3>1, TransTyped DEF Pair
    <3>. QED  BY <3>1, <3>2
  <2>2. PICK k : /\ k.type = "GTradeStart_Re" /\ k.role = a /\ k.tid = m.tid
                 /\ toDS' = toDS \cup {k}
    BY <1>11 DEF Declines, ReplyTradeRequest
  <2>3. UNCHANGED <<trans, player, put, get>> /\ toGS' = toGS \ {m} /\ m.type = "GTradeStart"
    BY <1>1, <1>11 DEF Declines
  <2>4. Known'
    BY <2>1, <2>2, <2>3 DEF Talk, Known
  <2>5. Starts'
    BY <2>1, <2>2, <2>3, MessageTids DEF Talk, Starts, Live, IsReply, IsStart
  <2>6. Replies'
    BY <2>1, <2>2, <2>3, MessageTids DEF Talk, Replies, Live, Traders, IsReply
  <2>7. Ends'
    BY <2>3 DEF Talk, Ends
  <2>. QED  BY <2>4, <2>5, <2>6, <2>7 DEF Talk
<1>12. ASSUME NEW r \in Role, NEW st, NEW ok, Answers(r, ok, st) PROVE Talk'
  <2>. DEFINE t == player[r].tid
  <2>1. /\ t \in Trade /\ trans[t].state # "none" /\ r \notin trans[t].agreed
        /\ Live(t) => r \in Traders(t)
        /\ \A n \in toDS : ~IsReply(n, r, t)
        /\ \A n \in toGS : ~IsStart(n, t)
    BY <1>12 DEF Answers, Talk, Known, Replies, Starts, IsStart
  <2>2. PICK k : /\ k.type = "GTradeStart_Re" /\ k.role = r /\ k.tid = t
                 /\ toDS' = toDS \cup {k}
    BY <1>12 DEF Answers, ReplyTradeRequest
  <2>3. UNCHANGED <<trans, toGS, get>> /\ PutLess
    BY <1>1, <1>12 DEF Answers
  <2>4. /\ \A q \in Role : q # r => player'[q] = player[q]
        /\ player'[r].st # "WAITING_TRADE" /\ player'[r].tid \in {t, None}
    BY <1>12 DEF Answers, Moves
  <2>5. CallsQuiet
    BY <2>3, CallsSame
  <2>. HIDE DEF t
  <2>6. Known'
    BY <2>1, <2>2, <2>3, <2>4, <2>5 DEF Talk, Known, CallsQuiet, t
  <2>7. Starts'
    <3>1. SUFFICES ASSUME NEW n \in toGS, n.type = "GTradeStart"
                   PROVE  /\ trans[n.tid].agreed = {}
                          /\ Live(n.tid)' => n.traders = trans[n.tid].traders
                          /\ \A q \in Role : player'[q].tid # n.tid
                          /\ \A w \in put' : w.for # n.tid
                          /\ \A q \in Role, m \in toDS' : ~IsReply(m, q, n.tid)
                          /\ \A m \in toGS : IsStart(m, n.tid) => m = n
      BY <2>3 DEF Starts
    <3>2. n.tid \in Trade /\ n.tid # t
      BY <2>1, <3>1, MessageTids DEF IsStart
    <3>3. /\ trans[n.tid].agreed = {}
          /\ Live(n.tid) => n.traders = trans[n.tid].traders
          /\ \A q \in Role : player[q].tid # n.tid
          /\ \A w \in put : w.for # n.tid
          /\ \A q \in Role, m \in toDS : ~IsReply(m, q, n.tid)
          /\ \A m \in toGS : IsStart(m, n.tid) => m = n
      BY <3>1 DEF Talk, Starts
    <3>4. \A w \in put' : w.for # n.tid
      BY <2>5, <3>2, <3>3 DEF CallsQuiet
    <3>. QED  BY <2>2, <2>3, <2>4, <3>2, <3>3, <3>4 DEF Live, IsReply
  <2>8. Replies'
    BY <2>1, <2>2, <2>3, <2>4, MessageTids DEF Talk, Replies, Live, Traders, IsReply, t
  <2>9. Ends'
    BY <2>1, <2>3, <2>4, MessageTids DEF Talk, Ends
  <2>. QED  BY <2>6, <2>7, <2>8, <2>9 DEF Talk
<1>. QED
  BY <1>3, <1>4, <1>5, <1>6, <1>7, <1>8, <1>9, <1>10, <1>11, <1>12 DEF RoleStep

LEMMA DeskStepTalk ==
  ASSUME Typed, Typed', Desks, Talk, DeskStep
  PROVE  Talk'
<1>. USE NoTradeAssumption
<1>1. ASSUME UNCHANGED <<player, put, get>>, toDS' \subseteq toDS, TransQuiet, EndsQuiet PROVE Talk'
  <2>1. RolesQuiet
    BY <1>1 DEF RolesQuiet
  <2>2. CallsQuiet
    BY <1>1, CallsSame
  <2>3. AnswersQuiet
    BY <1>1 DEF AnswersQuiet
  <2>. QED  BY <1>1, <2>1, <2>2, <2>3, TalkLess
<1>2. ASSUME NEW t \in Trade, Works(t) PROVE Talk'
  <2>1. TransQuiet
    BY <1>2 DEF Works, Worked, TransQuiet, Live
  <2>2. EndsQuiet
    BY <1>2 DEF Works, EndsQuiet
  <2>. QED  BY <1>1, <1>2, <2>1, <2>2 DEF Works
<1>3. ASSUME Forgets PROVE Talk'
  <2>1. TransQuiet
    BY <1>3, TransSame DEF Forgets
  <2>2. EndsQuiet
    BY <1>3 DEF Forgets, EndsQuiet
  <2>. QED  BY <1>1, <1>3, <2>1, <2>2 DEF Forgets
<1>4. ASSUME NEW t \in Trade, Releases(t) PROVE Talk'
  <2>1. TransQuiet
    BY <1>4 DEF Releases, TransQuiet, Live
  <2>2. EndsQuiet
    <3>1. ASSUME trans[t].modified, NEW r \in Traders(t) PROVE r \in trans[t].agreed
      BY <1>4, <3>1, TransTyped DEF Releases, DeskRecord, Live
    <3>. QED  BY <1>4, <3>1 DEF Releases, EndsQuiet, EndMsg
  <2>. QED  BY <1>1, <1>4, <2>1, <2>2 DEF Releases
<1>5. ASSUME NEW t \in Trade, NEW a \in Role, NEW b \in Role, Creates(t, a, b) PROVE Talk'
  <2>1. /\ \A m \in toGS : m.tid # t
        /\ \A m \in toDS : m.type # "PlayerLogout" => m.tid # t
        /\ \A w \in put : w.for # t
        /\ \A r \in Role : player[r].tid # t
    BY <1>5 DEF Creates, Talk, Known
  <2>2. \A x \in get : x.tid # t
    BY <1>5, MessageTids DEF Creates, Desks, Desk, DeskRecord, NoTransaction, Talk, Ends
  <2>3. /\ \A u \in Trade : u # t => trans'[u] = trans[u]
        /\ trans'[t].state # "none" /\ trans'[t].agreed = {} /\ trans'[t].traders = <<a, b>>
        /\ UNCHANGED <<player, put, get, toDS>>
    BY <1>5 DEF Creates
  <2>4. \/ toGS' = toGS
        \/ \E m \in StartMsg : m.tid = t /\ m.traders = <<a, b>> /\ toGS' = toGS \cup {m}
    BY <1>5 DEF Creates
  <2>5. /\ toGS \subseteq toGS'
        /\ \A m \in toGS' \ toGS : m.type = "GTradeStart" /\ m.tid = t /\ m.traders = <<a, b>>
        /\ \A m, n \in toGS' \ toGS : m = n
    BY <2>4 DEF StartMsg
  <2>6. Known'
    BY <2>3, <2>5, MessageTids DEF Talk, Known
  <2>7. Starts'
    <3>1. ASSUME NEW m \in toGS, m.type = "GTradeStart"
          PROVE  /\ trans'[m.tid].agreed = {}
                 /\ Live(m.tid)' => m.traders = trans'[m.tid].traders
                 /\ \A r \in Role : player[r].tid # m.tid
                 /\ \A w \in put : w.for # m.tid
                 /\ \A r \in Role, n \in toDS : ~IsReply(n, r, m.tid)
                 /\ \A n \in toGS' : IsStart(n, m.tid) => n = m
      BY <2>1, <2>3, <2>5, <3>1, MessageTids DEF Talk, Starts, IsStart, Live
    <3>2. ASSUME NEW m \in toGS' \ toGS
          PROVE  /\ trans'[m.tid].agreed = {}
                 /\ m.traders = trans'[m.tid].traders
                 /\ \A r \in Role : player[r].tid # m.tid
                 /\ \A w \in put : w.for # m.tid
                 /\ \A r \in Role, n \in toDS : ~IsReply(n, r, m.tid)
                 /\ \A n \in toGS' : IsStart(n, m.tid) => n = m
      BY <2>1, <2>3, <2>5 DEF IsReply, IsStart
    <3>. QED  BY <2>3, <3>1, <3>2 DEF Starts
  <2>8. Replies'
    BY <2>1, <2>3, MessageTids DEF Talk, Replies, IsReply, Live, Traders
  <2>9. Ends'
    BY <2>1, <2>2, <2>3, <2>5, MessageTids DEF Talk, Ends
  <2>. QED  BY <2>6, <2>7, <2>8, <2>9 DEF Talk
<1>6. ASSUME NEW m \in toDS, NEW t \in Trade, NEW r \in Role, Agrees(m, t, r) PROVE Talk'
  <2>1. /\ \A u \in Trade : u # t => trans'[u] = trans[u]
        /\ trans'[t].state \notin {"none", "released"} /\ Live(t)
        /\ trans'[t].traders = trans[t].traders /\ trans'[t].agreed = trans[t].agreed \cup {r}
        /\ UNCHANGED <<player, put, get, toGS>> /\ toDS' = toDS \ {m} /\ IsReply(m, r, t)
    BY <1>6 DEF Agrees
  <2>2. Known'
    BY <2>1, MessageTids DEF Talk, Known
  <2>3. Starts'
    BY <2>1, MessageTids DEF Talk, Starts, Live, IsReply, IsStart
  <2>4. Replies'
    BY <2>1, MessageTids DEF Talk, Replies, Live, Traders, IsReply
  <2>5. Ends'
    BY <2>1, MessageTids DEF Talk, Ends, Live
  <2>. QED  BY <2>2, <2>3, <2>4, <2>5 DEF Talk
<1>. QED  BY <1>2, <1>3, <1>4, <1>5, <1>6 DEF DeskStep

LEMMA StoreStepTalk ==
  ASSUME Typed, Typed', Desks, Talk, StoreStep
  PROVE  Talk'
<1>. USE NoTradeAssumption
<1>1. ASSUME UNCHANGED <<trans, toGS, toDS>>, RolesQuiet, CallsQuiet PROVE Talk'
  <2>1. TransQuiet
    BY <1>1, TransSame
  <2>2. AnswersQuiet /\ EndsQuiet
    BY <1>1 DEF AnswersQuiet, EndsQuiet
  <2>. QED  BY <1>1, <2>1, <2>2, TalkLess
<1>2. ASSUME NEW w \in put, Puts(w) PROVE Talk'
  <2>1. RolesQuiet
    BY <1>2 DEF Puts, RolesQuiet
  <2>2. CallsQuiet
    BY <1>2 DEF Puts, CallsQuiet
  <2>. QED  BY <1>1, <1>2, <2>1, <2>2 DEF Puts
<1>3. ASSUME NEW x \in get, Gets(x) PROVE Talk'
  <2>1. RolesQuiet
    BY <1>3 DEF Gets, RolesQuiet
  <2>2. CallsQuiet
    BY <1>3 DEF Gets, CallsQuiet
  <2>. QED  BY <1>1, <1>3, <2>1, <2>2 DEF Gets
<1>4. ASSUME NEW r \in Role, Login(r) PROVE Talk'
  <2>1. RolesQuiet
    BY <1>4, LoginIs DEF RolesQuiet
  <2>2. CallsQuiet
    BY <1>4, LoginIs, CallsSame
  <2>. QED  BY <1>1, <1>4, <2>1, <2>2, LoginIs
<1>. QED  BY <1>2, <1>3, <1>4 DEF StoreStep

LEMMA TalkStep ==
  ASSUME Typed, Typed', Desks, Talk, RoleStep \/ DeskStep \/ StoreStep
  PROVE  Talk'
BY RoleStepTalk, DeskStepTalk, StoreStepTalk

----------------------------------------------------------------------------
(* Where the roles of a trade are.                                         *)

\* No role leaves a trade that is open, unless the role is gone.
RolesStay ==
  \A r \in Role :
    \/ player'[r] = player[r]
    \/ player[r].st \notin {"TRADE", "WAIT_TRADE_COMPLETE", "OUT"}
    \/ player'[r].st = "OUT"
    \/ player[r].st # "OUT" /\ ~Live(player[r].tid)
    \/ /\ player[r].st # "OUT" /\ player'[r].st \in {"TRADE", "WAIT_TRADE_COMPLETE"}
       /\ player'[r].tid = player[r].tid

LEMMA HeldRoles ==
  ASSUME Typed, Desks, Held, RolesStay, UNCHANGED <<trans, TraderMap, back>>,
         NEW r \in Role, NEW t \in Trade, Live(t), TraderMap[r] = t \/ Agreeing(r, t)
  PROVE  InTrade(r, t)'
<1>1. InTrade(r, t)
  BY DEF Held
<1>. QED  BY <1>1 DEF InTrade, RolesStay

LEMMA HeldLess ==
  ASSUME Typed, Desks, Held, RolesStay, UNCHANGED <<trans, TraderMap, back>>,
         \A m \in toDS' : m.type = "GTradeStart_Re" /\ m.ok => m \in toDS
  PROVE  Held'
<1>1. \A r \in Role, t \in Trade : TraderMap[r] = t => Live(t)
  BY DEF Desks, MapOfDesks
<1>2. \A t \in Trade : Live(t)' <=> Live(t)
  BY DEF Live
<1>3. ASSUME NEW r \in Role, NEW t \in Trade, TraderMap'[r] = t PROVE InTrade(r, t)'
  BY <1>1, <1>3, HeldRoles
<1>4. ASSUME NEW r \in Role, NEW t \in Trade, Agreeing(r, t)' PROVE InTrade(r, t)'
  <2>1. Agreeing(r, t) /\ Live(t)
    BY <1>2, <1>4 DEF Agreeing, IsReply
  <2>. QED  BY <2>1, HeldRoles
<1>. QED  BY <1>3, <1>4 DEF Held

LEMMA RoleStepHeld ==
  ASSUME Typed, Desks, Talk, Held, RoleStep
  PROVE  Held'
<1>. USE NoTradeAssumption
<1>1. UNCHANGED <<trans, TraderMap, back>>
  BY RolesOnly DEF Elsewhere
<1>2. ASSUME NEW r \in Role, NEW g, NEW st, NEW f, Spends(r, g) \/ Saves(r, st, f) PROVE Held'
  <2>1. RolesStay
    BY <1>2 DEF Spends, Saves, Moves, RolesStay
  <2>. QED  BY <1>1, <1>2, <2>1, HeldLess DEF Spends, Saves
<1>3. ASSUME NEW r \in Role, NEW st, Marks(r, st) \/ Leaves(r) PROVE Held'
  <2>1. RolesStay
    BY <1>3 DEF Marks, Leaves, Moves, RolesStay
  <2>2. \A m \in toDS' : m.type = "GTradeStart_Re" => m \in toDS
    BY <1>3 DEF Marks, Leaves, DiscardTrade, SendLogout
  <2>. QED  BY <1>1, <2>1, <2>2, HeldLess
<1>4. ASSUME NEW m \in toGS, NEW a \in Role, NEW b \in Role, Begins(m, a, b) PROVE Held'
  <2>1. RolesStay
    BY <1>4 DEF Begins, RolesStay
  <2>. QED  BY <1>1, <1>4, <2>1, HeldLess DEF Begins
<1>5. ASSUME NEW m \in toGS, NEW a \in Role, Declines(m, a) PROVE Held'
  <2>1. RolesStay
    BY <1>5 DEF Declines, RolesStay
  <2>2. \A n \in toDS' : n.type = "GTradeStart_Re" /\ n.ok => n \in toDS
    BY <1>5 DEF Declines, ReplyTradeRequest
  <2>. QED  BY <1>1, <2>1, <2>2, HeldLess
<1>6. ASSUME NEW r \in Role, NEW st, NEW ok, Answers(r, ok, st) PROVE Held'
  <2>1. RolesStay
    BY <1>6 DEF Answers, RolesStay, Moves
  <2>2. CASE ~ok
    <3>1. \A n \in toDS' : n.type = "GTradeStart_Re" /\ n.ok => n \in toDS
      BY <1>6, <2>2 DEF Answers, ReplyTradeRequest
    <3>. QED  BY <1>1, <2>1, <3>1, HeldLess
  <2>3. CASE ok
    <3>1. ASSUME NEW q \in Role, NEW t \in Trade, TraderMap'[q] = t PROVE InTrade(q, t)'
      <4>1. TraderMap[q] = t /\ Live(t)
        BY <1>1, <3>1 DEF Desks, MapOfDesks
      <4>. QED  BY <1>1, <2>1, <4>1, HeldRoles
    <3>2. ASSUME NEW q \in Role, NEW t \in Trade, Agreeing(q, t)' PROVE InTrade(q, t)'
      <4>1. Live(t) /\ (Agreeing(q, t) \/ (q = r /\ t = player[r].tid))
        BY <1>1, <1>6, <2>3, <3>2 DEF Agreeing, Live, Answers, IsReply, ReplyTradeRequest
      <4>2. CASE Agreeing(q, t)
        BY <1>1, <2>1, <4>1, <4>2, HeldRoles
      <4>3. CASE q = r /\ t = player[r].tid
        BY <1>6, <2>3, <4>3 DEF Answers, Moves, InTrade
      <4>. QED  BY <4>1, <4>2, <4>3
    <3>. QED  BY <3>1, <3>2 DEF Held
  <2>. QED  BY <2>2, <2>3
<1>7. ASSUME NEW m \in toGS, NEW r \in Role, NEW st, Finishes(m, r, st) PROVE Held'
  <2>1. ~Live(m.tid)
    BY <1>7 DEF Finishes, Talk, Ends, Live
  <2>2. RolesStay
    BY <1>7, <2>1 DEF Finishes, RolesStay, Moves
  <2>. QED  BY <1>1, <1>7, <2>2, HeldLess DEF Finishes
<1>8. ASSUME NEW x \in get, NEW r \in Role, NEW st, Reads(x, r, st) PROVE Held'
  <2>1. RolesStay
    BY <1>8 DEF Reads, RolesStay, Moves
  <2>. QED  BY <1>1, <1>8, <2>1, HeldLess DEF Reads
<1>9. ASSUME Ignores PROVE Held'
  <2>1. RolesStay
    BY <1>9 DEF Ignores, RolesStay
  <2>. QED  BY <1>1, <1>9, <2>1, HeldLess DEF Ignores
<1>. QED
  BY <1>2, <1>3, <1>4, <1>5, <1>6, <1>7, <1>8, <1>9 DEF RoleStep

LEMMA HeldStep ==
  ASSUME Typed, Desks, Talk, Held, RoleStep \/ DeskStep \/ StoreStep
  PROVE  Held'
<1>. USE NoTradeAssumption
<1>1. ASSUME UNCHANGED <<player, back>>,
             \A r \in Role, t \in Trade :
               TraderMap'[r] = t \/ Agreeing(r, t)' => TraderMap[r] = t \/ Agreeing(r, t)
      PROVE  Held'
  <2>1. ASSUME NEW r \in Role, NEW t \in Trade, TraderMap'[r] = t \/ Agreeing(r, t)' PROVE InTrade(r, t)'
    <3>1. InTrade(r, t)
      BY <1>1, <2>1 DEF Held
    <3>. QED  BY <1>1, <3>1 DEF InTrade
  <2>. QED  BY <2>1 DEF Held
<1>2. ASSUME NEW t \in Trade, Works(t) PROVE Held'
  <2>1. UNCHANGED <<player, back, TraderMap>> /\ \A u \in Trade : Live(u)' => Live(u)
    BY <1>2 DEF Works, Worked, Live
  <2>2. toDS' \subseteq toDS
    BY <1>2 DEF Works
  <2>. QED  BY <1>1, <2>1, <2>2 DEF Agreeing
<1>3. ASSUME Forgets PROVE Held'
  BY <1>1, <1>3 DEF Forgets, Agreeing, Live
<1>4. ASSUME NEW t \in Trade, Releases(t) PROVE Held'
  <2>1. UNCHANGED <<player, back, toDS>> /\ \A u \in Trade : Live(u)' => Live(u)
    BY <1>4 DEF Releases, Live
  <2>2. \A r \in Role, u \in Trade : TraderMap'[r] = u => TraderMap[r] = u
    BY <1>4 DEF Releases
  <2>. QED  BY <1>1, <2>1, <2>2 DEF Agreeing
<1>5. ASSUME NEW t \in Trade, NEW a \in Role, NEW b \in Role, Creates(t, a, b) PROVE Held'
  <2>1. UNCHANGED <<player, back, toDS, TraderMap>> /\ \A u \in Trade : u # t /\ Live(u)' => Live(u)
    BY <1>5 DEF Creates, Live
  <2>2. \A r \in Role, m \in toDS : ~IsReply(m, r, t)
    BY <1>5 DEF Creates, Talk, Known, IsReply
  <2>. QED  BY <1>1, <2>1, <2>2 DEF Agreeing
<1>6. ASSUME NEW m \in toDS, NEW t \in Trade, NEW r \in Role, Agrees(m, t, r) PROVE Held'
  <2>1. UNCHANGED <<player, back>> /\ toDS' \subseteq toDS /\ \A u \in Trade : Live(u)' => Live(u)
    BY <1>6 DEF Agrees, Live
  <2>2. \A q \in Role, u \in Trade : TraderMap'[q] = u => TraderMap[q] = u \/ (q = r /\ u = t)
    BY <1>6 DEF Agrees, Typed
  <2>3. Agreeing(r, t)
    BY <1>6 DEF Agrees, Agreeing
  <2>. QED  BY <1>1, <2>1, <2>2, <2>3 DEF Agreeing
<1>7. ASSUME NEW w \in put, Puts(w) PROVE Held'
  BY <1>1, <1>7 DEF Puts, Agreeing, Live
<1>8. ASSUME NEW x \in get, Gets(x) PROVE Held'
  BY <1>1, <1>8 DEF Gets, Agreeing, Live
<1>9. ASSUME NEW r \in Role, Login(r) PROVE Held'
  <2>1. UNCHANGED <<trans, TraderMap, toDS>>
    BY <1>9, LoginIs
  <2>2. back \subseteq back' /\ \A q \in Role : q # r => player'[q] = player[q]
    BY <1>9, LoginIs
  <2>3. \A t \in Trade : TraderMap[r] = t \/ Agreeing(r, t) => r \in back'
    BY <1>9, LoginIs DEF Agreeing, IsReply
  <2>4. ASSUME NEW q \in Role, NEW t \in Trade, TraderMap'[q] = t \/ Agreeing(q, t)' PROVE InTrade(q, t)'
    <3>1. TraderMap[q] = t \/ Agreeing(q, t)
      BY <2>1, <2>4 DEF Agreeing, Live
    <3>2. InTrade(q, t)
      BY <3>1 DEF Held
    <3>. QED  BY <2>2, <2>3, <3>1, <3>2 DEF InTrade
  <2>. QED  BY <2>4 DEF Held
<1>. QED
  BY <1>2, <1>3, <1>4, <1>5, <1>6, <1>7, <1>8, <1>9, RoleStepHeld DEF DeskStep, StoreStep

----------------------------------------------------------------------------
(* Who has to be told of the end is told.                                  *)

Untold(r, t) == player[r].st = "TRADE" /\ player[r].tid = t /\ trans[t].state = "released" /\ r \in trans[t].agreed
Told(r, t) == \E m \in toGS : m.type = "GTradeEnd" /\ m.tid = t /\ m.role = r

LEMMA EndToldIs ==
  ASSUME Typed
  PROVE  EndTold <=> \A r \in Role, t \in Trade : Untold(r, t) => Told(r, t)
<1>1. ASSUME NEW r \in Role, player[r].st = "TRADE" PROVE player[r].tid \in Trade
  BY <1>1, RoleTyped DEF InTradeStates
<1>. QED  BY <1>1 DEF EndTold, Untold, Told

LEMMA EndToldStep ==
  ASSUME Typed, Typed', Desks, Talk, EndTold, RoleStep \/ DeskStep \/ StoreStep
  PROVE  EndTold'
<1>. USE NoTradeAssumption
<1>1. SUFFICES ASSUME NEW r \in Role, NEW t \in Trade, Untold(r, t)'
               PROVE  Told(r, t)'
  <2>1. ASSUME NEW r \in Role, player'[r].st = "TRADE" PROVE player'[r].tid \in Trade
    BY <2>1 DEF Typed, InTradeStates, PlayerRec
  <2>. QED  BY <1>1, <2>1 DEF EndTold, Untold, Told
<1>2. Untold(r, t) => Told(r, t)
  BY EndToldIs
<1>3. CASE RoleStep
  <2>1. UNCHANGED trans
    BY <1>3, RolesOnly DEF Elsewhere
  <2>2. ASSUME Untold(r, t), \A m \in toGS \ toGS' : m.type = "GTradeEnd" => player'[m.role].st # "TRADE"
        PROVE  Told(r, t)'
    BY <1>1, <1>2, <2>2 DEF Untold, Told
  <2>3. ASSUME NEW q \in Role, NEW g, NEW st, NEW f,
               Spends(q, g) \/ Saves(q, st, f) \/ Marks(q, st)
        PROVE  Told(r, t)'
    <3>1. Untold(r, t) /\ toGS' = toGS
      BY <1>1, <2>1, <2>3 DEF Untold, Spends, Saves, Marks, Moves
    <3>. QED  BY <2>2, <3>1
  <2>4. ASSUME NEW q \in Role, Leaves(q) PROVE Told(r, t)'
    BY <1>1, <2>1, <2>2, <2>4 DEF Untold, Leaves, Moves
  <2>5. ASSUME NEW m \in toGS, NEW a \in Role, NEW b \in Role, Begins(m, a, b) \/ Declines(m, a)
        PROVE  Told(r, t)'
    <3>1. Untold(r, t)
      BY <1>1, <2>1, <2>5 DEF Untold, Begins, Declines
    <3>. QED  BY <1>1, <2>2, <2>5, <3>1 DEF Begins, Declines
  <2>6. ASSUME NEW q \in Role, NEW st, NEW ok, Answers(q, ok, st) PROVE Told(r, t)'
    <3>1. Untold(r, t)
      BY <1>1, <2>1, <2>6 DEF Untold, Answers, Moves, Talk, Replies
    <3>. QED  BY <2>2, <2>6, <3>1 DEF Answers
  <2>7. ASSUME NEW m \in toGS, NEW q \in Role, NEW st, Finishes(m, q, st) PROVE Told(r, t)'
    <3>1. player'[q].st # "TRADE" /\ \A p \in Role : p # q => player'[p] = player[p]
      BY <2>7 DEF Finishes, Moves
    <3>2. Untold(r, t)
      BY <1>1, <2>1, <3>1 DEF Untold
    <3>. QED  BY <2>2, <2>7, <3>1, <3>2 DEF Finishes
  <2>8. ASSUME NEW x \in get, NEW q \in Role, NEW st, Reads(x, q, st) PROVE Told(r, t)'
    BY <1>1, <2>1, <2>2, <2>8 DEF Untold, Reads, Moves
  <2>9. ASSUME Ignores PROVE Told(r, t)'
    BY <1>1, <2>1, <2>2, <2>9 DEF Untold, Ignores
  <2>. QED
    BY <1>3, <2>3, <2>4, <2>5, <2>6, <2>7, <2>8, <2>9 DEF RoleStep
<1>4. ASSUME NEW u \in Trade, Works(u) PROVE Told(r, t)'
  BY <1>1, <1>2, <1>4 DEF Works, Worked, Untold, Told
<1>5. ASSUME NEW u \in Trade, Releases(u) PROVE Told(r, t)'
  <2>1. CASE u # t
    BY <1>1, <1>2, <1>5, <2>1 DEF Releases, Untold, Told
  <2>2. CASE u = t
    <3>1. r \in Traders(t) /\ trans[t].OnDestroy
      BY <1>1, <1>5, <2>2, TransTyped DEF Releases, Untold, DeskRecord, Live
    <3>2. GTradeEnd(t, r) \in toGS'
      BY <1>5, <2>2, <3>1 DEF Releases
    <3>. QED  BY <3>2 DEF Told, GTradeEnd
  <2>. QED  BY <2>1, <2>2
<1>6. ASSUME NEW u \in Trade, NEW a \in Role, NEW b \in Role, Creates(u, a, b) PROVE Told(r, t)'
  <2>1. t # u /\ toGS \subseteq toGS'
    BY <1>1, <1>6 DEF Creates, Untold
  <2>. QED  BY <1>1, <1>2, <1>6, <2>1 DEF Creates, Untold, Told
<1>7. ASSUME NEW m \in toDS, NEW u \in Trade, NEW q \in Role, Agrees(m, u, q) PROVE Told(r, t)'
  BY <1>1, <1>2, <1>7 DEF Agrees, Untold, Told
<1>8. ASSUME Forgets PROVE Told(r, t)'
  BY <1>1, <1>2, <1>8 DEF Forgets, Untold, Told
<1>9. ASSUME (\E w \in put : Puts(w)) \/ (\E x \in get : Gets(x)) PROVE Told(r, t)'
  BY <1>1, <1>2, <1>9 DEF Puts, Gets, Untold, Told
<1>10. ASSUME NEW q \in Role, Login(q) PROVE Told(r, t)'
  <2>1. UNCHANGED <<trans, toGS>> /\ player'[q].st = "NORMAL" /\ \A p \in Role : p # q => player'[p] = player[p]
    BY <1>10, LoginIs
  <2>. QED  BY <1>1, <1>2, <2>1 DEF Untold, Told
<1>. QED
  BY <1>3, <1>4, <1>5, <1>6, <1>7, <1>8, <1>9, <1>10 DEF DeskStep, StoreStep

----------------------------------------------------------------------------
(* What the pockets have to do with each other, while Timely.              *)

\* A pocket that is away is not in the world.
LEMMA AwayRoles ==
  ASSUME Typed, Desks, Held, back = {}
  PROVE  /\ \A r \in Role : Away(r) => player[r].st \notin World
         /\ \A r \in Role, t \in Trade : TraderMap[r] = t =>
              \/ player[r].st \in {"TRADE", "WAIT_TRADE_COMPLETE"} /\ player[r].tid = t
              \/ player[r].st = "OUT"
<1>1. \A r \in Role, t \in Trade : TraderMap[r] = t \/ Agreeing(r, t) =>
        \/ player[r].st \in {"TRADE", "WAIT_TRADE_COMPLETE"} /\ player[r].tid = t
        \/ player[r].st = "OUT"
  BY DEF Held, InTrade
<1>2. \A r \in Role : TraderMap[r] # None => TraderMap[r] \in Trade
  BY DEF Typed
<1>. QED  BY <1>1, <1>2 DEF Away, World

\* A good has one owner at most, and what is in a pocket that is used is in that of the table.
LEMMA OneRow ==
  ASSUME Single, NEW q \in Role, NEW r \in Role, NEW g \in Good, g \in row[q].pocket, g \in row[r].pocket
  PROVE  q = r
BY DEF Single

\* The writes of the step are those of before, or those of the roles N as they are now.
WritesOf(N) ==
  \A w \in put' :
    \/ w \in put
    \/ /\ w \in WriteRec /\ w.for = None /\ w.res = "sent"
       /\ \E v \in put : /\ v.res = "sent" /\ v.role = w.role
                         /\ v.timestamp = w.timestamp /\ v.pocket = w.pocket
    \/ /\ w \in WriteRec /\ w.res = "sent" /\ w.role \in N
       /\ w.timestamp = player[w.role].stamp + 1 /\ w.pocket = player[w.role].pocket

\* The timestamps of the roles N are one higher, of others as they were.
StampsOf(N) ==
  /\ \A r \in N : /\ player[r].st \in World /\ player'[r].stamp = player[r].stamp + 1
  /\ \A r \in Role \ N : player'[r].st # "OUT" => player[r].st # "OUT" /\ player'[r].stamp = player[r].stamp

LEMMA WritesLess == PutLess => WritesOf({})
BY DEF PutLess, WritesOf

LEMMA RoleWrites ==
  ASSUME Typed, Typed', Pockets, UNCHANGED row, spent \subseteq spent', NEW N \in SUBSET Role, WritesOf(N), StampsOf(N)
  PROVE  Writes'
<1>1. \A w \in put : w \in WriteRec /\ w.role \in Role /\ w.timestamp \in Nat
  BY DEF Typed, WriteRec
<1>2. \A r \in Role : player[r].stamp \in Nat /\ row[r].timestamp \in Nat
  BY RoleTyped DEF Typed
<1>3. \A w \in put' : w.role \in Role /\ w.timestamp \in Nat
  BY DEF Typed, WriteRec
<1>4. \A w \in put' : Pending(w)' <=> w.res = "sent" /\ w.timestamp > row[w.role].timestamp
  BY DEF Pending
\* Its owner's pocket is what a new write has.
<1>5. ASSUME NEW r \in N
      PROVE  /\ player[r].pocket = row[r].pocket \ spent
             /\ \A w \in put : w.role = r => w.timestamp <= player[r].stamp
             /\ row[r].timestamp <= player[r].stamp
  BY DEF Pockets, InWorld, Writes, StampsOf, World
<1>. DEFINE Old(w) == \E v \in put : /\ Pending(v) /\ v.role = w.role
                                     /\ v.timestamp = w.timestamp /\ v.pocket = w.pocket
            New(w) == w.role \in N /\ w.timestamp = player[w.role].stamp + 1 /\ w.pocket = player[w.role].pocket
<1>6. \A w \in put' : w.res = "sent" /\ w.timestamp > row[w.role].timestamp => Old(w) \/ New(w)
  BY DEF WritesOf, Pending
<1>7. ASSUME NEW w \in put', Old(w) \/ New(w)
      PROVE  w.pocket \subseteq row[w.role].pocket /\ row[w.role].pocket \ w.pocket \subseteq spent
  BY <1>5, <1>7 DEF Pockets, Writes
<1>8. ASSUME NEW w \in put', NEW v \in put', Old(w) \/ New(w), Old(v) \/ New(v), w.role = v.role,
             w.timestamp < v.timestamp
      PROVE  v.pocket \subseteq w.pocket
  <2>1. CASE Old(w) /\ Old(v)
    BY <1>1, <1>8, <2>1 DEF Pockets, Writes
  <2>2. CASE Old(w) /\ New(v)
    BY <1>5, <1>7, <1>8, <2>2
  <2>3. CASE New(w) /\ Old(v)
    BY <1>1, <1>2, <1>5, <1>8, <2>3
  <2>4. CASE New(w) /\ New(v)
    BY <1>2, <1>8, <2>4
  <2>. QED  BY <1>8, <2>1, <2>2, <2>3, <2>4
<1>9. ASSUME NEW w \in put', player'[w.role].st # "OUT" PROVE w.timestamp <= player'[w.role].stamp
  <2>1. CASE \E v \in put : v.role = w.role /\ v.timestamp = w.timestamp
    BY <1>1, <1>2, <1>3, <1>5, <1>9, <2>1 DEF StampsOf, Pockets, Writes
  <2>2. CASE w.role \in N /\ w.timestamp = player[w.role].stamp + 1
    BY <1>2, <2>2 DEF StampsOf
  <2>. QED  BY <2>1, <2>2 DEF WritesOf
<1>10. ASSUME NEW r \in Role, player'[r].st # "OUT" PROVE row[r].timestamp <= player'[r].stamp
  BY <1>2, <1>5, <1>10 DEF StampsOf, Pockets, Writes
<1>. HIDE DEF Old, New
<1>11. ASSUME NEW w \in put', Pending(w)'
       PROVE  w.pocket \subseteq row'[w.role].pocket /\ row'[w.role].pocket \ w.pocket \subseteq spent'
  BY <1>4, <1>6, <1>7, <1>11
<1>12. ASSUME NEW w \in put', NEW v \in put', Pending(w)', Pending(v)', w.role = v.role,
              w.timestamp < v.timestamp
       PROVE  v.pocket \subseteq w.pocket
  BY <1>4, <1>6, <1>8, <1>12
<1>. QED  BY <1>9, <1>10, <1>11, <1>12 DEF Writes

\* What is newly used up was in the world.
SpentInWorld ==
  /\ spent \subseteq spent' /\ spent' \subseteq Good
  /\ \A g \in spent' \ spent : \E q \in Role : player[q].st \in World /\ g \in player[q].pocket

\* No role begins to wait for a write, enters a trade or begins to be read again.
RolesKept ==
  \A r \in Role :
    \/ player'[r].st \in {"NORMAL", "DISCONNECT", "WAIT_LOGOUT", "OUT"}
    \/ /\ player'[r].st = player[r].st /\ player[r].st \in InTradeStates
       /\ player'[r].tid = player[r].tid /\ player'[r].stamp = player[r].stamp
       /\ player'[r].pocket = player[r].pocket
    \/ /\ player[r].st = "TRADE" /\ player'[r].st = "WAIT_TRADE_COMPLETE"
       /\ player'[r].tid = player[r].tid /\ player'[r].pocket = player[r].pocket

LEMMA SingleLess ==
  ASSUME Single, UNCHANGED row, spent \subseteq spent'
  PROVE  Single'
<1>1. ASSUME NEW g \in Good
      PROVE  \/ \E r \in Role : {q \in Role : g \in row[q].pocket} = {r}
             \/ {q \in Role : g \in row[q].pocket} = {} /\ g \in spent'
  BY DEF Single
<1>. QED  BY <1>1 DEF Single

LEMMA UndisturbedAt ==
  ASSUME Typed, Desks, Held, back = {}, Pockets, UNCHANGED row, SpentInWorld,
         NEW N \in SUBSET Role, WritesOf(N), StampsOf(N), NEW r \in Role, Away(r)
  PROVE  /\ \A w \in put' : w.role = r => ~Pending(w)'
         /\ row'[r].pocket \cap spent' = {}
<1>1. r \notin N /\ player[r].st \notin World
  BY AwayRoles DEF StampsOf
<1>2. ASSUME NEW w \in put', w.role = r PROVE ~Pending(w)'
  BY <1>1, <1>2 DEF WritesOf, Pending, Pockets, Undisturbed
<1>3. ASSUME NEW g \in row[r].pocket, g \in spent' PROVE FALSE
  <2>1. g \in spent' \ spent /\ g \in Good
    BY <1>3 DEF Pockets, Undisturbed, SpentInWorld
  <2>2. PICK q \in Role : player[q].st \in World /\ g \in player[q].pocket
    BY <2>1 DEF SpentInWorld
  <2>3. g \in row[q].pocket
    BY <2>2 DEF Pockets, InWorld
  <2>. QED  BY <1>1, <1>3, <2>1, <2>2, <2>3, OneRow DEF Pockets
<1>. QED  BY <1>2, <1>3

LEMMA KeptPockets ==
  ASSUME Typed, Typed', Desks, Held, back = {}, Pockets, UNCHANGED <<row, trans, TraderMap>>, SpentInWorld,
         NEW N \in SUBSET Role, WritesOf(N), StampsOf(N), RolesKept,
         \A w \in put' : w.for \in Trade => w \in put,
         \A m \in toDS' : m.type = "GTradeStart_Re" /\ m.ok => m \in toDS,
         toGS' \subseteq toGS, get' \subseteq get, InWorld'
  PROVE  Pockets'
<1>1. Single' /\ Writes'
  BY SingleLess, RoleWrites DEF Pockets, SpentInWorld
<1>2. WriteBack'
  <2>1. ASSUME NEW w \in put', w.for \in Trade, player'[w.role].st = "WAITING_TRADE", player'[w.role].tid = w.for
        PROVE  /\ w \in put /\ w.role \in Role
               /\ player[w.role].st = "WAITING_TRADE" /\ player[w.role].tid = w.for
               /\ player'[w.role].stamp = player[w.role].stamp /\ player'[w.role].pocket = player[w.role].pocket
    <3>1. w \in put /\ w.role \in Role
      BY <2>1, MessageTids
    <3>. QED  BY <2>1, <3>1 DEF RolesKept
  <2>. QED  BY <2>1 DEF Pockets, WriteBack
<1>3. Undisturbed'
  <2>1. ASSUME NEW r \in Role, Away(r)' PROVE Away(r)
    BY <2>1 DEF Away, RolesKept, Agreeing, IsReply, Live
  <2>. QED  BY <2>1, UndisturbedAt DEF Undisturbed
<1>4. Unsaved'
  BY DEF Pockets, Unsaved, RolesKept
<1>5. ReadBack'
  <2>1. \A x \in get : x.role \in Role
    BY MessageTids
  <2>. QED  BY <2>1 DEF Pockets, ReadBack, RolesKept
<1>. QED  BY <1>1, <1>2, <1>3, <1>4, <1>5 DEF Pockets

\* Nobody is stamped and nothing used up.
LEMMA QuietPockets ==
  ASSUME Typed, Typed', Desks, Held, back = {}, Pockets, UNCHANGED <<row, trans, TraderMap, spent>>,
         PutLess, StampsOf({}), RolesKept,
         \A m \in toDS' : m.type = "GTradeStart_Re" /\ m.ok => m \in toDS,
         toGS' \subseteq toGS, get' \subseteq get,
         \A r \in Role : player'[r].st \in World => player'[r].pocket = row[r].pocket \ spent
  PROVE  Pockets'
<1>1. SpentInWorld
  BY DEF SpentInWorld, Typed
<1>2. InWorld'
  BY DEF InWorld
<1>3. WritesOf({}) /\ {} \in SUBSET Role
  BY WritesLess
<1>4. \A w \in put' : w.for \in Trade => w \in put
  BY NoTradeAssumption DEF PutLess
<1>. QED  BY <1>1, <1>2, <1>3, <1>4, KeptPockets

LEMMA RoleStepPockets ==
  ASSUME Typed, Typed', Desks, Talk, Held, back = {}, Pockets, RoleStep
  PROVE  Pockets'
<1>. USE NoTradeAssumption
<1>1. UNCHANGED <<row, trans, TraderMap>>
  BY RolesOnly DEF Elsewhere
<1>2. \A r \in Role : player[r].st \in World => player[r].pocket = row[r].pocket \ spent
  BY DEF Pockets, InWorld
<1>3. ASSUME NEW r \in Role PROVE player[r].st \in PlayerStates /\ (player[r].tid # None <=> player[r].st \in InTradeStates)
  BY RoleTyped
<1>4. ASSUME NEW r \in Role, NEW g \in Good, Spends(r, g) PROVE Pockets'
  <2>1. SpentInWorld
    BY <1>4 DEF Spends, SpentInWorld, Typed, World
  <2>2. RolesKept /\ StampsOf({}) /\ {} \in SUBSET Role
    BY <1>3, <1>4 DEF Spends, Moves, RolesKept, StampsOf, PlayerStates, InTradeStates
  <2>3. InWorld'
    <3>1. g \in row[r].pocket /\ player[r].pocket = row[r].pocket \ spent
      BY <1>2, <1>4 DEF Spends, World
    <3>2. ASSUME NEW q \in Role, q # r PROVE g \notin row[q].pocket
      BY <3>1, <3>2, OneRow DEF Pockets
    <3>. QED  BY <1>1, <1>2, <1>4, <3>1, <3>2 DEF Spends, Moves, InWorld
  <2>4. WritesOf({}) /\ UNCHANGED <<put, toDS, toGS, get>>
    BY <1>4 DEF Spends, WritesOf
  <2>. QED  BY <1>1, <2>1, <2>2, <2>3, <2>4, KeptPockets
<1>5. ASSUME NEW r \in Role, NEW st, NEW f, Saves(r, st, f) PROVE Pockets'
  <2>1. SpentInWorld
    BY <1>5 DEF Saves, SpentInWorld, Typed
  <2>2. RolesKept /\ StampsOf({r}) /\ {r} \in SUBSET Role
    BY <1>3, <1>5 DEF Saves, Moves, RolesKept, StampsOf, PlayerStates, InTradeStates, World
  <2>3. InWorld'
    BY <1>1, <1>2, <1>5 DEF Saves, Moves, InWorld, World
  <2>4. WritesOf({r}) /\ \A w \in put' : w.for \in Trade => w \in put
    <3>1. put' = put \cup {Written(r, f)} /\ f \notin Trade /\ put' \subseteq WriteRec
      BY <1>5 DEF Saves, Typed
    <3>. QED  BY <3>1 DEF WritesOf, Written
  <2>. QED  BY <1>1, <1>5, <2>1, <2>2, <2>3, <2>4, KeptPockets DEF Saves
<1>6. ASSUME NEW r \in Role, Leaves(r) PROVE Pockets'
  <2>1. RolesKept /\ StampsOf({})
    BY <1>3, <1>6 DEF Leaves, Moves, RolesKept, StampsOf, PlayerStates, InTradeStates
  <2>2. \A m \in toDS' : m.type = "GTradeStart_Re" /\ m.ok => m \in toDS
    BY <1>6 DEF Leaves, SendLogout
  <2>3. \A q \in Role : player'[q].st \in World => player'[q].pocket = row[q].pocket \ spent
    BY <1>2, <1>6 DEF Leaves, Moves, World
  <2>. QED  BY <1>1, <1>6, <2>1, <2>2, <2>3, QuietPockets DEF Leaves
<1>7. ASSUME NEW r \in Role, NEW st, Marks(r, st) PROVE Pockets'
  <2>1. RolesKept /\ StampsOf({})
    BY <1>3, <1>7 DEF Marks, Moves, RolesKept, StampsOf, PlayerStates, InTradeStates
  <2>2. \A m \in toDS' : m.type = "GTradeStart_Re" /\ m.ok => m \in toDS
    BY <1>7 DEF Marks, DiscardTrade
  <2>3. \A q \in Role : player'[q].st \in World => player'[q].pocket = row[q].pocket \ spent
    BY <1>2, <1>7 DEF Marks, Moves, World
  <2>4. PutLess
    BY <1>7, PutSame DEF Marks
  <2>. QED  BY <1>1, <1>7, <2>1, <2>2, <2>3, <2>4, QuietPockets DEF Marks
<1>8. ASSUME UNCHANGED <<player, spent>>, PutLess, toGS' \subseteq toGS, get' \subseteq get,
             \A m \in toDS' : m.type = "GTradeStart_Re" /\ m.ok => m \in toDS
      PROVE  Pockets'
  <2>1. RolesKept /\ StampsOf({})
    BY <1>3, <1>8 DEF RolesKept, StampsOf, PlayerStates, InTradeStates
  <2>. QED  BY <1>1, <1>2, <1>8, <2>1, QuietPockets
<1>9. ASSUME NEW m \in toGS, NEW a \in Role, Declines(m, a) PROVE Pockets'
  <2>1. \A n \in toDS' : n.type = "GTradeStart_Re" /\ n.ok => n \in toDS
    BY <1>9 DEF Declines, ReplyTradeRequest
  <2>. QED  BY <1>8, <1>9, <2>1, PutSame DEF Declines
<1>10. ASSUME Ignores PROVE Pockets'
  BY <1>8, <1>10 DEF Ignores
<1>11. ASSUME NEW x \in get, NEW r \in Role, NEW st, Reads(x, r, st) PROVE Pockets'
  <2>1. RolesKept /\ StampsOf({})
    BY <1>3, <1>11 DEF Reads, Moves, RolesKept, StampsOf, PlayerStates, InTradeStates
  <2>2. player'[r].pocket = row[r].pocket \ spent
    <3>1. Away(r)
      BY <1>11 DEF Reads, Away
    <3>2. x.pocket = row[r].pocket /\ row[r].pocket \cap spent = {}
      BY <1>11, <3>1 DEF Reads, Pockets, ReadBack, Undisturbed
    <3>. QED  BY <1>11, <3>2 DEF Reads, Moves
  <2>3. \A q \in Role : player'[q].st \in World => player'[q].pocket = row[q].pocket \ spent
    BY <1>2, <1>11, <2>2 DEF Reads, Moves
  <2>. QED  BY <1>1, <1>11, <2>1, <2>3, PutSame, QuietPockets DEF Reads
<1>12. ASSUME NEW r \in Role, NEW st, Answers(r, FALSE, st) PROVE Pockets'
  <2>1. RolesKept /\ StampsOf({})
    BY <1>3, <1>12 DEF Answers, Moves, RolesKept, StampsOf, PlayerStates, InTradeStates
  <2>2. \A m \in toDS' : m.type = "GTradeStart_Re" /\ m.ok => m \in toDS
    BY <1>12 DEF Answers, ReplyTradeRequest
  <2>3. \A q \in Role : player'[q].st \in World => player'[q].pocket = row[q].pocket \ spent
    BY <1>2, <1>12 DEF Answers, Moves, World
  <2>. QED  BY <1>1, <1>12, <2>1, <2>2, <2>3, QuietPockets DEF Answers
\* The role enters the trade: its last write has been executed.
<1>13. ASSUME NEW r \in Role, NEW st, Answers(r, TRUE, st) PROVE Pockets'
  <2>1. /\ Moves(r, "TRADE", player[r].tid, player[r].pocket, player[r].stamp)
        /\ player[r].st = "WAITING_TRADE" /\ player[r].tid \in Trade /\ PutLess
        /\ UNCHANGED <<get, toGS, spent>> /\ toDS' = toDS \cup {ReplyTradeRequest(player[r].tid, r, TRUE)}
    BY <1>13 DEF Answers
  <2>2. /\ row[r].timestamp = player[r].stamp
        /\ player[r].pocket = row[r].pocket /\ row[r].pocket \cap spent = {}
    <3>1. PICK w \in put : w.role = r /\ w.for = player[r].tid /\ w.res = "ok"
      BY <1>13 DEF Answers
    <3>2. row[r].timestamp = player[r].stamp /\ row[r].pocket = player[r].pocket
      BY <2>1, <3>1 DEF Pockets, WriteBack
    <3>. QED  BY <1>2, <2>1, <3>2 DEF World
  <2>3. SpentInWorld /\ WritesOf({}) /\ {} \in SUBSET Role
    BY <2>1, WritesLess DEF SpentInWorld, Typed
  <2>4. StampsOf({})
    BY <2>1 DEF Moves, StampsOf
  <2>5. Single' /\ Writes'
    BY <1>1, <2>3, <2>4, SingleLess, RoleWrites DEF Pockets, SpentInWorld
  <2>6. InWorld'
    BY <1>1, <1>2, <2>1 DEF Moves, InWorld, World
  <2>7. WriteBack'
    <3>1. ASSUME NEW w \in put', w.for \in Trade PROVE w \in put /\ w.role \in Role
      BY <2>1, <3>1, MessageTids DEF PutLess
    <3>. QED  BY <1>1, <2>1, <3>1 DEF Moves, Pockets, WriteBack
  <2>8. Undisturbed'
    <3>1. ASSUME NEW q \in Role, Away(q)', q # r PROVE Away(q)
      BY <1>1, <2>1, <3>1 DEF Moves, Away, Agreeing, IsReply, ReplyTradeRequest, Live
    <3>2. ASSUME NEW w \in put', w.role = r PROVE ~Pending(w)'
      <4>1. player'[r].st # "OUT" /\ player'[r].stamp = player[r].stamp
        BY <2>1 DEF Moves
      <4>2. w.timestamp <= player[r].stamp /\ w.timestamp \in Nat /\ player[r].stamp \in Nat
        BY <2>5, <3>2, <4>1, RoleTyped DEF Writes, Typed, WriteRec
      <4>. QED  BY <1>1, <2>2, <3>2, <4>2 DEF Pending
    <3>. QED  BY <1>1, <2>1, <2>2, <2>3, <2>4, <3>1, <3>2, UndisturbedAt DEF Undisturbed
  <2>9. Unsaved'
    BY <1>1, <2>1, <2>2 DEF Moves, Pockets, Unsaved
  <2>10. ReadBack'
    BY <1>1, <2>1, MessageTids DEF Moves, Pockets, ReadBack
  <2>. QED  BY <2>5, <2>6, <2>7, <2>8, <2>9, <2>10 DEF Pockets
<1>14. ASSUME NEW m \in toGS, NEW r \in Role, NEW st, Finishes(m, r, st), ~m.need_read PROVE Pockets'
  <2>1. RolesKept /\ StampsOf({})
    BY <1>3, <1>14 DEF Finishes, Moves, RolesKept, StampsOf, PlayerStates, InTradeStates
  <2>2. player[r].pocket = row[r].pocket \ spent
    <3>1. CASE player[r].st = "WAITING_TRADE"
      BY <1>2, <3>1 DEF World
    <3>2. CASE player[r].st \in {"TRADE", "WAIT_TRADE_COMPLETE"}
      <4>1. row[r].pocket \cap spent = {}
        BY <3>2 DEF Away, Pockets, Undisturbed
      <4>2. trans[m.tid].state = "released" /\ player[r].tid = m.tid /\ IsEnd(m, r, m.tid)
        BY <1>14 DEF Finishes, Talk, Ends, IsEnd
      <4>3. player[r].pocket = row[r].pocket
        BY <1>14, <3>2, <4>2 DEF Pockets, Unsaved, Settled
      <4>. QED  BY <4>1, <4>3
    <3>. QED  BY <1>14, <3>1, <3>2 DEF Finishes
  <2>3. \A q \in Role : player'[q].st \in World => player'[q].pocket = row[q].pocket \ spent
    BY <1>2, <1>14, <2>2 DEF Finishes, Moves
  <2>. QED  BY <1>1, <1>14, <2>1, <2>3, PutSame, QuietPockets DEF Finishes
\* The role is to be read again; nobody does yet.
<1>15. ASSUME NEW m \in toGS, NEW r \in Role, NEW st, Finishes(m, r, st), m.need_read PROVE Pockets'
  <2>1. /\ Moves(r, "WAIT_TRADE_READ", m.tid, player[r].pocket, player[r].stamp)
        /\ toGS' \subseteq toGS /\ UNCHANGED <<put, spent, toDS>> /\ player[r].tid = m.tid /\ m.tid \in Trade
        /\ player[r].st \in {"TRADE", "WAIT_TRADE_COMPLETE"}
    <3>1. r \in trans[m.tid].agreed /\ m.tid \in Trade
      BY <1>15, MessageTids DEF Finishes, Talk, Ends
    <3>2. player[r].st # "WAITING_TRADE"
      BY <1>15, <3>1 DEF Finishes, Talk, Replies
    <3>. QED  BY <1>15, <3>1, <3>2 DEF Finishes
  <2>2. SpentInWorld /\ WritesOf({}) /\ {} \in SUBSET Role
    BY <2>1 DEF SpentInWorld, WritesOf, Typed
  <2>3. StampsOf({})
    BY <2>1 DEF Moves, StampsOf
  <2>4. Single' /\ Writes'
    BY <1>1, <2>2, <2>3, SingleLess, RoleWrites DEF Pockets, SpentInWorld
  <2>5. InWorld'
    BY <1>1, <1>2, <2>1 DEF Moves, InWorld, World
  <2>6. WriteBack'
    BY <1>1, <2>1, MessageTids DEF Moves, Pockets, WriteBack
  <2>7. Undisturbed'
    <3>1. ASSUME NEW q \in Role, Away(q)' PROVE Away(q)
      BY <1>1, <2>1, <3>1 DEF Moves, Away, Agreeing, Live
    <3>. QED  BY <1>1, <2>2, <2>3, <3>1, UndisturbedAt DEF Undisturbed
  <2>8. Unsaved'
    BY <1>1, <2>1 DEF Moves, Pockets, Unsaved
  <2>9. ReadBack'
    <3>1. SUFFICES ASSUME NEW x \in get', player'[x.role].st = "WAIT_TRADE_READ", player'[x.role].tid = x.tid,
                          x.res = "ok"
                   PROVE  x.pocket = row[x.role].pocket
      BY <1>1 DEF ReadBack
    <3>2. x \in get /\ x.role \in Role
      BY <1>15, <3>1, MessageTids DEF Finishes
    <3>3. x.role # r
      BY <2>1, <3>1, <3>2 DEF Moves, Talk, Ends
    <3>. QED  BY <2>1, <3>1, <3>2, <3>3 DEF Moves, Pockets, ReadBack
  <2>. QED  BY <2>4, <2>5, <2>6, <2>7, <2>8, <2>9 DEF Pockets
\* Both begin to wait for their write.
<1>16. ASSUME NEW m \in toGS, NEW a \in Role, NEW b \in Role, Begins(m, a, b) PROVE Pockets'
  <2>. DEFINE N == {a, b}
  <2>1. /\ \A q \in Role \ N : player'[q] = player[q]
        /\ \A q \in N : /\ player[q].st = "NORMAL" /\ player'[q].st = "WAITING_TRADE" /\ player'[q].tid = m.tid
                        /\ player'[q].pocket = player[q].pocket /\ player'[q].stamp = player[q].stamp + 1
        /\ N \in SUBSET Role /\ UNCHANGED <<get, toDS, spent>> /\ toGS' \subseteq toGS
    BY <1>16 DEF Begins
  <2>2. \A w \in put' : w \in put \/ /\ w \in WriteRec /\ w.res = "sent" /\ w.role \in N /\ w.for = m.tid
                                     /\ w.timestamp = player[w.role].stamp + 1 /\ w.pocket = player[w.role].pocket
    BY <1>16 DEF Begins, Written, Typed
  <2>. HIDE DEF N
  <2>3. SpentInWorld /\ WritesOf(N)
    BY <2>1, <2>2 DEF SpentInWorld, WritesOf, Typed
  <2>4. StampsOf(N)
    BY <2>1 DEF StampsOf, World
  <2>5. Single' /\ Writes'
    BY <1>1, <2>1, <2>3, <2>4, SingleLess, RoleWrites DEF Pockets, SpentInWorld
  <2>6. InWorld'
    BY <1>1, <1>2, <2>1 DEF InWorld, World
  <2>7. WriteBack'
    <3>1. SUFFICES ASSUME NEW w \in put', w.for \in Trade, player'[w.role].st = "WAITING_TRADE",
                          player'[w.role].tid = w.for
                   PROVE  /\ w.timestamp = player'[w.role].stamp /\ w.pocket = player'[w.role].pocket
                          /\ w.res = "ok" => row[w.role].timestamp = w.timestamp /\ row[w.role].pocket = w.pocket
      BY <1>1 DEF WriteBack
    <3>2. CASE w \in put
      <4>1. w.for # m.tid /\ w.role \in Role
        BY <1>16, <3>2, MessageTids DEF Begins, Talk, Starts
      <4>2. w.role \notin N
        BY <2>1, <3>1, <4>1
      <4>. QED  BY <2>1, <3>1, <3>2, <4>1, <4>2 DEF Pockets, WriteBack
    <3>3. CASE w \notin put
      BY <2>1, <2>2, <3>3
    <3>. QED  BY <3>2, <3>3
  <2>8. Undisturbed'
    <3>1. ASSUME NEW q \in Role, Away(q)' PROVE Away(q)
      BY <1>1, <2>1, <3>1 DEF Away, Agreeing, Live
    <3>. QED  BY <1>1, <2>1, <2>3, <2>4, <3>1, UndisturbedAt DEF Undisturbed
  <2>9. Unsaved'
    BY <1>1, <2>1 DEF Pockets, Unsaved
  <2>10. ReadBack'
    BY <1>1, <2>1, MessageTids DEF Pockets, ReadBack
  <2>. QED  BY <2>5, <2>6, <2>7, <2>8, <2>9, <2>10 DEF Pockets
<1>17. ASSUME NEW r \in Role, NEW st, NEW ok \in BOOLEAN, Answers(r, ok, st) PROVE Pockets'
  BY <1>12, <1>13, <1>17
<1>. QED
  BY <1>4, <1>5, <1>6, <1>7, <1>9, <1>10, <1>11, <1>14, <1>15, <1>16, <1>17 DEF RoleStep

\* gamedbd executes a write, which takes away only what was used up.
LEMMA PutPockets ==
  ASSUME Typed, Typed', Desks, Talk, Held, back = {}, Pockets, NEW w \in put, Puts(w)
  PROVE  Pockets'
<1>1. /\ w.role \in Role /\ w.timestamp \in Nat /\ w.res = "sent" /\ w \in WriteRec
      /\ UNCHANGED <<player, get, trans, TraderMap, toGS, toDS, spent>>
  BY DEF Puts, WriteRec
<1>2. \A v \in put' :
        \/ v \in put
        \/ /\ v \in WriteRec /\ v.role = w.role /\ v.timestamp = w.timestamp /\ v.pocket = w.pocket
           /\ v.for = w.for /\ v.res \in {"ok", "bad"}
           /\ v.res = "ok" => row'[v.role].pocket = v.pocket /\ row'[v.role].timestamp = v.timestamp
  BY DEF Puts
<1>3. /\ \A v \in put : v.role \in Role /\ v.timestamp \in Nat
      /\ \A r \in Role : row[r].timestamp \in Nat /\ player[r].stamp \in Nat
  BY RoleTyped DEF Typed, WriteRec
<1>4. \A q \in Role : Away(q)' <=> Away(q)
  BY <1>1 DEF Away, Agreeing, Live
<1>5. CASE row' = row
  <2>1. \A v \in put' : Pending(v)' => Pending(v) /\ v \in put
    BY <1>2, <1>5 DEF Pending
  <2>2. Writes'
    BY <1>1, <1>2, <1>5, <2>1 DEF Pockets, Writes
  <2>3. WriteBack'
    BY <1>1, <1>2, <1>5 DEF Pockets, WriteBack
  <2>4. Undisturbed'
    BY <1>1, <1>4, <1>5, <2>1 DEF Pockets, Undisturbed
  <2>5. Single' /\ InWorld' /\ Unsaved' /\ ReadBack'
    BY <1>1, <1>5 DEF Pockets, Single, InWorld, Unsaved, ReadBack
  <2>. QED  BY <2>2, <2>3, <2>4, <2>5 DEF Pockets
<1>6. CASE row' # row
  <2>. DEFINE r == w.role
  <2>1. /\ Pending(w) /\ row'[r].pocket = w.pocket /\ row'[r].timestamp = w.timestamp
        /\ \A q \in Role : q # r => row'[q] = row[q]
    BY <1>1, <1>6 DEF Puts, Pending, Typed
  <2>2. w.pocket \subseteq row[r].pocket /\ row[r].pocket \ w.pocket \subseteq spent
    BY <2>1 DEF Pockets, Writes
  <2>3. ~Away(r)
    BY <1>1, <2>1 DEF Pockets, Undisturbed
  <2>4. \A v \in put' : Pending(v)' => Pending(v) /\ v \in put /\ (v.role = r => v.timestamp > w.timestamp)
    BY <1>1, <1>2, <1>3, <2>1 DEF Pending
  <2>5. Single'
    <3>1. SUFFICES ASSUME NEW g \in Good
                   PROVE  \/ \E q \in Role : {p \in Role : g \in row'[p].pocket} = {q}
                          \/ {p \in Role : g \in row'[p].pocket} = {} /\ g \in spent
      BY <1>1 DEF Single
    <3>2. \A p \in Role : g \in row'[p].pocket => g \in row[p].pocket
      BY <2>1, <2>2
    <3>3. CASE {p \in Role : g \in row[p].pocket} = {}
      BY <3>2, <3>3 DEF Pockets, Single
    <3>4. ASSUME NEW q \in Role, {p \in Role : g \in row[p].pocket} = {q}
          PROVE  \/ {p \in Role : g \in row'[p].pocket} = {q}
                 \/ {p \in Role : g \in row'[p].pocket} = {} /\ g \in spent
      <4>1. \A p \in Role : g \in row[p].pocket <=> p = q
        BY <3>4
      <4>2. CASE g \in row'[q].pocket
        BY <3>2, <4>1, <4>2
      <4>3. CASE g \notin row'[q].pocket
        <5>1. g \in spent
          BY <2>1, <2>2, <4>1, <4>3
        <5>. QED  BY <3>2, <4>1, <4>3, <5>1
      <4>. QED  BY <4>2, <4>3
    <3>. QED  BY <3>3, <3>4 DEF Pockets, Single
  <2>6. InWorld'
    BY <1>1, <2>1, <2>2 DEF Pockets, InWorld
  <2>7. Writes'
    <3>1. ASSUME NEW v \in put', Pending(v)'
          PROVE  v.pocket \subseteq row'[v.role].pocket /\ row'[v.role].pocket \ v.pocket \subseteq spent
      <4>1. Pending(v) /\ v \in put /\ v.role \in Role
        BY <1>3, <2>4, <3>1
      <4>2. CASE v.role = r
        <5>1. v.pocket \subseteq w.pocket
          BY <2>1, <2>4, <3>1, <4>1, <4>2 DEF Pockets, Writes
        <5>. QED  BY <2>1, <2>2, <4>1, <4>2, <5>1 DEF Pockets, Writes
      <4>3. CASE v.role # r
        BY <2>1, <4>1, <4>3 DEF Pockets, Writes
      <4>. QED  BY <4>2, <4>3
    <3>2. ASSUME NEW v \in put', NEW u \in put', Pending(v)', Pending(u)', v.role = u.role,
                 v.timestamp < u.timestamp
          PROVE  u.pocket \subseteq v.pocket
      BY <2>4, <3>2 DEF Pockets, Writes
    <3>3. ASSUME NEW v \in put', player[v.role].st # "OUT" PROVE v.timestamp <= player[v.role].stamp
      BY <1>2, <3>3 DEF Pockets, Writes
    <3>4. ASSUME NEW q \in Role, player[q].st # "OUT" PROVE row'[q].timestamp <= player[q].stamp
      BY <2>1, <3>4 DEF Pockets, Writes
    <3>. QED  BY <1>1, <3>1, <3>2, <3>3, <3>4 DEF Writes
  <2>8. WriteBack'
    <3>1. SUFFICES ASSUME NEW v \in put', v.for \in Trade, player[v.role].st = "WAITING_TRADE",
                          player[v.role].tid = v.for
                   PROVE  /\ v.timestamp = player[v.role].stamp /\ v.pocket = player[v.role].pocket
                          /\ v.res = "ok" => row'[v.role].timestamp = v.timestamp /\ row'[v.role].pocket = v.pocket
      BY <1>1 DEF WriteBack
    <3>2. CASE v \in put
      <4>1. /\ v.timestamp = player[v.role].stamp /\ v.pocket = player[v.role].pocket /\ v.role \in Role
            /\ v.res = "ok" => row[v.role].timestamp = v.timestamp /\ row[v.role].pocket = v.pocket
        BY <1>3, <3>1, <3>2 DEF Pockets, WriteBack
      <4>2. ASSUME v.role = r, v.res = "ok" PROVE FALSE
        <5>1. w.timestamp <= player[r].stamp
          BY <3>1, <4>2 DEF Pockets, Writes
        <5>. QED  BY <1>1, <1>3, <2>1, <4>1, <4>2, <5>1 DEF Pending
      <4>. QED  BY <2>1, <4>1, <4>2
    <3>3. CASE v \notin put
      BY <1>2, <3>1, <3>3 DEF Pockets, WriteBack
    <3>. QED  BY <3>2, <3>3
  <2>9. Undisturbed'
    BY <1>1, <1>4, <2>1, <2>3, <2>4 DEF Pockets, Undisturbed
  <2>10. Unsaved' /\ ReadBack'
    <3>1. \A q \in Role : player[q].st \in {"TRADE", "WAIT_TRADE_COMPLETE", "WAIT_TRADE_READ"} => row'[q] = row[q]
      BY <2>1, <2>3 DEF Away
    <3>2. \A x \in get : x.role \in Role
      BY MessageTids
    <3>. QED  BY <1>1, <3>1, <3>2 DEF Pockets, Unsaved, ReadBack
  <2>. QED  BY <2>5, <2>6, <2>7, <2>8, <2>9, <2>10 DEF Pockets
<1>. QED  BY <1>5, <1>6

LEMMA StoreStepPockets ==
  ASSUME Typed, Typed', Desks, Talk, Held, back = {}, back' = {}, Pockets, StoreStep
  PROVE  Pockets'
<1>. USE NoTradeAssumption
<1>1. ASSUME NEW w \in put, Puts(w) PROVE Pockets'
  BY <1>1, PutPockets
<1>2. ASSUME NEW x \in get, Gets(x) PROVE Pockets'
  <2>1. UNCHANGED <<player, row, put, trans, TraderMap, toGS, toDS, spent>>
    BY <1>2 DEF Gets
  <2>2. ReadBack'
    BY <1>2, MessageTids DEF Gets, Pockets, ReadBack
  <2>3. Writes' /\ WriteBack' /\ Undisturbed'
    BY <2>1 DEF Pockets, Writes, WriteBack, Undisturbed, Pending, Away, Agreeing, Live
  <2>4. Single' /\ InWorld' /\ Unsaved'
    BY <2>1 DEF Pockets, Single, InWorld, Unsaved
  <2>. QED  BY <2>2, <2>3, <2>4 DEF Pockets
<1>3. ASSUME NEW r \in Role, Login(r) PROVE Pockets'
  <2>1. /\ \A q \in Role : q # r => player'[q] = player[q]
        /\ player'[r].st = "NORMAL" /\ player'[r].pocket = row[r].pocket /\ player'[r].stamp = row[r].timestamp
        /\ spent' = spent \ row[r].pocket /\ UNCHANGED <<row, put, get, trans, TraderMap, toGS, toDS>>
    BY <1>3, LoginIs
  <2>2. /\ TraderMap[r] = None /\ \A w \in put : w.role # r
        /\ \A m \in toDS : ~(m.type = "GTradeStart_Re" /\ m.role = r)
    BY <1>3, LoginIs
  <2>3. \A w \in put : w.role \in Role /\ w.timestamp \in Nat
    BY DEF Typed, WriteRec
  <2>4. \A q \in Role : row[q].pocket \subseteq Good /\ row[q].timestamp \in Nat
    BY DEF Typed
  <2>5. \A q \in Role : \A g \in row[q].pocket : q # r => g \notin row[r].pocket
    BY <2>4, OneRow DEF Pockets
  <2>6. \A w \in put : Pending(w)' <=> Pending(w)
    BY <2>1 DEF Pending
  <2>7. Single'
    <3>1. SUFFICES ASSUME NEW g \in Good
                   PROVE  \/ \E q \in Role : {p \in Role : g \in row[p].pocket} = {q}
                          \/ {p \in Role : g \in row[p].pocket} = {} /\ g \in spent'
      BY <2>1 DEF Single
    <3>. QED  BY <2>1 DEF Pockets, Single
  <2>8. InWorld'
    BY <2>1, <2>5 DEF Pockets, InWorld
  <2>9. Writes'
    <3>1. ASSUME NEW w \in put, Pending(w)
          PROVE  w.pocket \subseteq row[w.role].pocket /\ row[w.role].pocket \ w.pocket \subseteq spent'
      BY <2>1, <2>2, <2>3, <2>5, <3>1 DEF Pockets, Writes
    <3>. QED  BY <2>1, <2>2, <2>3, <2>4, <2>6, <3>1 DEF Pockets, Writes
  <2>10. WriteBack'
    BY <2>1, <2>2, <2>3 DEF Pockets, WriteBack
  <2>11. Undisturbed'
    <3>1. ASSUME NEW q \in Role, Away(q)' PROVE Away(q)
      BY <2>1, <2>2, <3>1 DEF Away, Agreeing, Live, IsReply
    <3>. QED  BY <2>1, <2>6, <3>1 DEF Pockets, Undisturbed
  <2>12. Unsaved' /\ ReadBack'
    BY <2>1, MessageTids DEF Pockets, Unsaved, ReadBack
  <2>. QED  BY <2>7, <2>8, <2>9, <2>10, <2>11, <2>12 DEF Pockets
<1>. QED  BY <1>1, <1>2, <1>3 DEF StoreStep

\* A Transaction goes on, and the table stays as it is.
LEMMA DeskPockets ==
  ASSUME Typed, Desks, Talk, Pockets, UNCHANGED <<player, row, put, get, spent>>,
         \A r \in Role : Away(r)' => Away(r), Unsaved'
  PROVE  Pockets'
<1>1. Single' /\ InWorld' /\ WriteBack' /\ ReadBack'
  BY DEF Pockets, Single, InWorld, WriteBack, ReadBack
<1>2. Writes'
  BY DEF Pockets, Writes, Pending
<1>3. Undisturbed'
  BY DEF Pockets, Undisturbed, Pending
<1>. QED  BY <1>1, <1>2, <1>3 DEF Pockets

LEMMA DeskStepPockets ==
  ASSUME Typed, Typed', Desks, Talk, Held, Pockets, DeskStep, UNCHANGED row
  PROVE  Pockets'
<1>. USE NoTradeAssumption
<1>1. UNCHANGED <<player, row, put, get, spent>>
  BY DEF DeskStep, Works, Releases, Creates, Agrees, Forgets
<1>2. \A r \in Role : player[r].st \in {"TRADE", "WAIT_TRADE_COMPLETE"} => player[r].tid \in Trade
  BY RoleTyped DEF InTradeStates
<1>3. ASSUME NEW t \in Trade, Works(t) PROVE Pockets'
  <2>1. UNCHANGED <<toGS, TraderMap>> /\ toDS' \subseteq toDS /\ \A u \in Trade : Live(u)' => Live(u)
    BY <1>3 DEF Works, Worked, Live
  <2>2. \A r \in Role : Away(r)' => Away(r)
    BY <1>1, <2>1 DEF Away, Agreeing
  <2>3. Unsaved'
    BY <1>1, <1>2, <1>3, <2>1 DEF Works, Worked, Pockets, Unsaved
  <2>. QED  BY <1>1, <2>2, <2>3, DeskPockets
<1>4. ASSUME Forgets PROVE Pockets'
  <2>1. UNCHANGED <<trans, toGS, TraderMap>> /\ toDS' \subseteq toDS
    BY <1>4 DEF Forgets
  <2>2. \A r \in Role : Away(r)' => Away(r)
    BY <1>1, <2>1 DEF Away, Agreeing, Live
  <2>3. Unsaved'
    BY <1>1, <2>1 DEF Pockets, Unsaved
  <2>. QED  BY <1>1, <2>2, <2>3, DeskPockets
<1>5. ASSUME NEW t \in Trade, Releases(t) PROVE Pockets'
  <2>1. UNCHANGED toDS /\ \A u \in Trade : Live(u)' => Live(u)
    BY <1>5 DEF Releases, Live
  <2>2. \A r \in Role : TraderMap'[r] # None => TraderMap[r] # None
    BY <1>5 DEF Releases
  <2>3. \A r \in Role : Away(r)' => Away(r)
    BY <1>1, <2>1, <2>2 DEF Away, Agreeing
  <2>4. Unsaved'
    <3>1. SUFFICES ASSUME NEW r \in Role, player[r].st \in {"TRADE", "WAIT_TRADE_COMPLETE"},
                          NEW u \in Trade, player[r].tid = u
                   PROVE  \/ player[r].pocket = row[r].pocket
                          \/ trans'[u].modified /\ trans'[u].state \in Settled
                          \/ trans'[u].state = "released" /\ \A m \in toGS' : IsEnd(m, r, u) => m.need_read
      BY <1>1, <1>2 DEF Unsaved
    <3>2. \/ player[r].pocket = row[r].pocket
          \/ trans[u].modified /\ trans[u].state \in Settled
          \/ trans[u].state = "released" /\ \A m \in toGS : IsEnd(m, r, u) => m.need_read
      BY <3>1 DEF Pockets, Unsaved
    <3>3. CASE u # t
      <4>1. \A m \in toGS' : IsEnd(m, r, u) => m \in toGS
        BY <1>5, <3>3 DEF Releases, IsEnd
      <4>. QED  BY <1>5, <3>2, <3>3, <4>1 DEF Releases
    <3>4. CASE u = t
      <4>1. trans[t].state # "released" /\ trans'[t].state = "released"
        BY <1>5 DEF Releases, Live
      <4>2. \A m \in toGS : ~IsEnd(m, r, t)
        BY <4>1 DEF Talk, Ends, IsEnd
      <4>3. \A m \in toGS' : IsEnd(m, r, t) => m.need_read = trans[t].modified
        BY <1>5, <4>2 DEF Releases
      <4>. QED  BY <3>2, <3>4, <4>1, <4>3
    <3>. QED  BY <3>3, <3>4
  <2>. QED  BY <1>1, <2>3, <2>4, DeskPockets
<1>6. ASSUME NEW t \in Trade, NEW a \in Role, NEW b \in Role, Creates(t, a, b) PROVE Pockets'
  <2>1. /\ UNCHANGED <<toDS, TraderMap>> /\ \A u \in Trade : u # t => trans'[u] = trans[u]
        /\ \A m \in toGS' : m \in toGS \/ m.type = "GTradeStart"
    BY <1>6 DEF Creates, StartMsg
  <2>2. /\ \A m \in toDS : m.type = "GTradeStart_Re" => m.tid # t
        /\ \A r \in Role : player[r].tid # t
    BY <1>6 DEF Creates, Talk, Known
  <2>3. \A r \in Role : Away(r)' => Away(r)
    <3>1. \A r \in Role, u \in Trade : Agreeing(r, u)' => Agreeing(r, u)
      BY <2>1, <2>2 DEF Agreeing, Live, IsReply
    <3>. QED  BY <1>1, <2>1, <3>1 DEF Away
  <2>4. Unsaved'
    BY <1>1, <1>2, <2>1, <2>2 DEF Pockets, Unsaved, IsEnd
  <2>. QED  BY <1>1, <2>3, <2>4, DeskPockets
<1>7. ASSUME NEW m \in toDS, NEW t \in Trade, NEW r \in Role, Agrees(m, t, r) PROVE Pockets'
  <2>1. UNCHANGED toGS /\ toDS' \subseteq toDS /\ (\A u \in Trade : Live(u)' => Live(u)) /\ Agreeing(r, t)
    BY <1>7 DEF Agrees, Live, Agreeing
  <2>2. \A q \in Role : TraderMap'[q] # None => TraderMap[q] # None \/ q = r
    BY <1>7 DEF Agrees, Typed
  <2>3. \A q \in Role : Away(q)' => Away(q)
    BY <1>1, <2>1, <2>2 DEF Away, Agreeing
  <2>4. Unsaved'
    BY <1>1, <1>2, <1>7, <2>1 DEF Agrees, Live, Pockets, Unsaved
  <2>. QED  BY <1>1, <2>3, <2>4, DeskPockets
<1>. QED  BY <1>3, <1>4, <1>5, <1>6, <1>7 DEF DeskStep

\* How many of two roles have a good.
LEMMA OfTwo ==
  ASSUME NEW a, NEW b, a # b, NEW S \in SUBSET {a, b}
  PROVE  /\ Cardinality(S) \in Nat
         /\ Cardinality(S) = 0 <=> S = {}
         /\ Cardinality(S) = 1 <=> S = {a} \/ S = {b}
<1>1. S = {} \/ S = {a} \/ S = {b} \/ S = {a, b}
  OBVIOUS
<1>2. Cardinality({}) = 0 /\ Cardinality({a}) = 1 /\ Cardinality({b}) = 1
  BY FS_EmptySet, FS_Singleton
<1>3. Cardinality({a, b}) = 2
  <2>1. IsFiniteSet({a}) /\ b \notin {a} /\ {a, b} = {a} \cup {b}
    BY FS_Singleton
  <2>2. Cardinality({a} \cup {b}) = Cardinality({a}) + 1
    BY <2>1, FS_AddElement
  <2>. QED  BY <1>2, <2>1, <2>2
<1>. QED  BY <1>1, <1>2, <1>3

\* A save in time gives the pockets of the pair, which are both away, a new owner
\* for what they have together.
LEMMA SavePockets ==
  ASSUME Typed, Typed', Desks, Talk, Held, back = {}, ~late', Pockets, NEW t \in Trade, Works(t), TradeSave(t)
  PROVE  Pockets'
<1>. USE NoTradeAssumption
<1>1. CASE row' = row
  BY <1>1, DeskStepPockets DEF DeskStep
<1>2. CASE row' # row
  <2>. DEFINE new == trans[t].pssn
  <2>1. /\ trans[t].save = "sent"
        /\ row' = [r \in Role |-> IF r \in Traders(t) THEN [row[r] EXCEPT !.pocket = new[r]] ELSE row[r]]
        /\ \A g \in Good : Holders(g, [r \in Role |-> row[r].pocket], Traders(t)) = Holders(g, new, Traders(t))
    <3>1. PICK done \in BOOLEAN :
            /\ done => \A g \in Good : Holders(g, [r \in Role |-> row[r].pocket], Traders(t)) = Holders(g, new, Traders(t))
            /\ row' = [r \in Role |-> IF done /\ r \in Traders(t)
                                      THEN [row[r] EXCEPT !.pocket = new[r]] ELSE row[r]]
            /\ late' = (late \/ (done /\ trans[t].save = "late"))
      BY <1>2 DEF TradeSave
    <3>2. done
      <4>1. ~done => row' = [r \in Role |-> row[r]]
        BY <3>1
      <4>. QED  BY <1>2, <4>1 DEF Typed
    <3>3. trans[t].save \in {"sent", "late"}
      BY DEF TradeSave
    <3>. QED  BY <3>1, <3>2, <3>3
  <2>2. /\ trans[t].state \in {"Confirm", "Init"} /\ trans[t].modified /\ Live(t)
        /\ trans[t].joined = Pair(trans[t]) /\ trans[t].traders[1] # trans[t].traders[2]
    BY <2>1, TransTyped DEF DeskRecord, Live
  <2>3. PICK a \in Role, b \in Role : a # b /\ Traders(t) = {a, b}
    BY <2>2, TransTyped DEF Pair
  <2>4. new \in [Role -> SUBSET Good]
    BY TransTyped DEF TransRec
  \* Where the two are, and what it says of their pockets.
  <2>5. \A r \in {a, b} : /\ TraderMap[r] = t /\ Away(r) /\ player[r].st \notin World \cup {"WAIT_TRADE_READ"}
                          /\ player[r].st # "OUT" => player[r].tid = t
    <3>1. \A r \in {a, b} : TraderMap[r] = t
      BY <2>2, <2>3, TransTyped DEF Desks, Desk
    <3>2. \A r \in {a, b} : \/ player[r].st \in {"TRADE", "WAIT_TRADE_COMPLETE"} /\ player[r].tid = t
                            \/ player[r].st = "OUT"
      BY <3>1, AwayRoles
    <3>. QED  BY <3>1, <3>2 DEF Away, World
  <2>. HIDE DEF new
  <2>6. /\ \A r \in {a, b} : row'[r].pocket = new[r] /\ row'[r].timestamp = row[r].timestamp
        /\ \A r \in Role \ {a, b} : row'[r] = row[r]
    BY <2>1, <2>3 DEF Typed
  <2>7. UNCHANGED <<player, put, get, TraderMap, toGS, spent>> /\ toDS' \subseteq toDS
        /\ \A u \in Trade : Live(u)' => Live(u)
    BY DEF Works, Worked, Live
  \* Each good has as many owners among the two as before.
  <2>8. ASSUME NEW g \in Good
        PROVE  LET H == {r \in {a, b} : g \in row[r].pocket}
                   K == {r \in {a, b} : g \in new[r]} IN
               /\ H = {} <=> K = {}
               /\ (H = {a} \/ H = {b}) <=> (K = {a} \/ K = {b})
    <3>. DEFINE H == {r \in {a, b} : g \in row[r].pocket}
                K == {r \in {a, b} : g \in new[r]}
    <3>1. Cardinality(H) = Cardinality(K)
      <4>1. Holders(g, [r \in Role |-> row[r].pocket], {a, b}) = Holders(g, new, {a, b})
        BY <2>1, <2>3
      <4>2. {r \in {a, b} : g \in [q \in Role |-> row[q].pocket][r]} = H
        OBVIOUS
      <4>. QED  BY <4>1, <4>2 DEF Holders
    <3>2. H \in SUBSET {a, b} /\ K \in SUBSET {a, b} /\ a # b
      BY <2>3
    <3>. HIDE DEF H, K
    <3>3. (H = {} <=> K = {}) /\ ((H = {a} \/ H = {b}) <=> (K = {a} \/ K = {b}))
      <4>1. (Cardinality(H) = 0 <=> H = {}) /\ (Cardinality(H) = 1 <=> H = {a} \/ H = {b})
        BY ONLY <3>2, OfTwo, Zenon
      <4>2. (Cardinality(K) = 0 <=> K = {}) /\ (Cardinality(K) = 1 <=> K = {a} \/ K = {b})
        BY ONLY <3>2, OfTwo, Zenon
      <4>. QED  BY ONLY <3>1, <4>1, <4>2
    <3>. QED  BY <3>3 DEF H, K
  <2>9. Single'
    <3>1. SUFFICES ASSUME NEW g \in Good
                   PROVE  \/ \E q \in Role : {p \in Role : g \in row'[p].pocket} = {q}
                          \/ {p \in Role : g \in row'[p].pocket} = {} /\ g \in spent
      BY <2>7 DEF Single
    <3>. DEFINE H == {r \in {a, b} : g \in row[r].pocket}
                K == {r \in {a, b} : g \in new[r]}
    <3>2. /\ H = {} <=> K = {}
          /\ (H = {a} \/ H = {b}) <=> (K = {a} \/ K = {b})
      BY <2>8
    <3>3. {p \in Role : g \in row[p].pocket} = H \cup {p \in Role \ {a, b} : g \in row[p].pocket}
      OBVIOUS
    <3>4. {p \in Role : g \in row'[p].pocket} = K \cup {p \in Role \ {a, b} : g \in row[p].pocket}
      BY <2>6
    <3>5. H \subseteq {a, b} /\ K \subseteq {a, b}
      OBVIOUS
    <3>. HIDE DEF H, K
    <3>6. CASE {p \in Role : g \in row[p].pocket} = {} /\ g \in spent
      BY <3>2, <3>3, <3>4, <3>6
    <3>7. ASSUME NEW q \in Role, {p \in Role : g \in row[p].pocket} = {q}
          PROVE  \E o \in Role : {p \in Role : g \in row'[p].pocket} = {o}
      <4>1. CASE q \in {a, b}
        <5>1. {p \in Role \ {a, b} : g \in row[p].pocket} = {}
          BY <3>7, <4>1
        <5>2. H = {q}
          BY <3>3, <3>7, <5>1
        <5>. QED  BY <3>2, <3>4, <4>1, <5>1, <5>2
      <4>2. CASE q \notin {a, b}
        <5>1. H = {}
          BY <3>3, <3>5, <3>7, <4>2
        <5>. QED  BY <3>2, <3>3, <3>4, <3>7, <5>1
      <4>. QED  BY <4>1, <4>2
    <3>. QED  BY <3>6, <3>7 DEF Pockets, Single
  <2>10. \A r \in Role : player[r].st \in World \cup {"WAIT_TRADE_READ"} => row'[r] = row[r]
    BY <2>5, <2>6
  <2>11. \A r \in Role : row'[r].timestamp = row[r].timestamp
    BY <2>6
  <2>12. \A w \in put : w.role \in Role
    BY MessageTids
  <2>13. \A w \in put : (Pending(w)' <=> Pending(w)) /\ (Pending(w) => row'[w.role] = row[w.role])
    <3>1. ASSUME NEW w \in put, w.role \in {a, b} PROVE ~Pending(w)
      BY <2>5, <3>1 DEF Pockets, Undisturbed
    <3>. QED  BY <2>6, <2>11, <2>12, <3>1 DEF Pending
  <2>14. InWorld'
    BY <2>7, <2>10 DEF Pockets, InWorld
  <2>15. Writes'
    BY <2>7, <2>11, <2>12, <2>13 DEF Pockets, Writes
  <2>16. WriteBack'
    BY <2>7, <2>10, <2>12 DEF Pockets, WriteBack, World
  <2>17. Undisturbed'
    <3>1. ASSUME NEW r \in Role, Away(r)' PROVE Away(r)
      BY <2>7, <3>1 DEF Away, Agreeing
    <3>2. ASSUME NEW r \in {a, b}, NEW g \in new[r], g \in spent PROVE FALSE
      <4>1. g \in Good
        BY <2>4
      <4>2. \E q \in {a, b} : g \in row[q].pocket
        BY <2>8, <3>2, <4>1
      <4>. QED  BY <2>5, <3>2, <4>2 DEF Pockets, Undisturbed
    <3>3. ASSUME NEW r \in Role, Away(r) PROVE row'[r].pocket \cap spent = {}
      BY <2>6, <3>2, <3>3 DEF Pockets, Undisturbed
    <3>. QED  BY <2>7, <2>13, <3>1, <3>3 DEF Pockets, Undisturbed
  <2>18. Unsaved'
    <3>1. SUFFICES ASSUME NEW r \in Role, player[r].st \in {"TRADE", "WAIT_TRADE_COMPLETE"},
                          NEW u \in Trade, player[r].tid = u
                   PROVE  \/ player[r].pocket = row'[r].pocket
                          \/ trans'[u].modified /\ trans'[u].state \in Settled
                          \/ trans'[u].state = "released" /\ \A m \in toGS : IsEnd(m, r, u) => m.need_read
      BY <2>7, RoleTyped DEF Unsaved, InTradeStates
    <3>2. CASE r \in {a, b}
      <4>1. u = t
        BY <2>5, <3>1, <3>2
      <4>. QED  BY <2>2, <4>1 DEF Works, Worked, Settled
    <3>3. CASE r \notin {a, b}
      BY <2>6, <3>1, <3>3 DEF Pockets, Unsaved, Works, Worked
    <3>. QED  BY <3>2, <3>3
  <2>19. ReadBack'
    BY <2>7, <2>10, MessageTids DEF Pockets, ReadBack
  <2>. QED  BY <2>9, <2>14, <2>15, <2>16, <2>17, <2>18, <2>19 DEF Pockets
<1>. QED  BY <1>1, <1>2

LEMMA PocketsStep ==
  ASSUME Typed, Typed', Desks, Talk, Held, Timely => Pockets, RoleStep \/ DeskStep \/ StoreStep
  PROVE  (Timely => Pockets)'
<1>1. (late => late') /\ back \subseteq back'
  <2>1. ASSUME NEW t \in Trade, TradeSave(t) PROVE late => late'
    BY <2>1 DEF TradeSave
  <2>2. CASE RoleStep
    BY <2>2, RolesOnly DEF Elsewhere
  <2>3. CASE StoreStep
    BY <2>3, LoginIs DEF StoreStep, Puts, Gets
  <2>4. CASE DeskStep
    BY <2>1, <2>4 DEF DeskStep, Works, Creates, Agrees, Forgets, Releases, Typed
  <2>. QED  BY <2>2, <2>3, <2>4
<1>2. SUFFICES ASSUME Timely' PROVE Pockets'
  OBVIOUS
<1>3. ~late' /\ back' = {} /\ back = {} /\ Pockets
  BY <1>1, <1>2 DEF Timely
<1>4. CASE RoleStep
  BY <1>3, <1>4, RoleStepPockets
<1>5. CASE StoreStep
  BY <1>3, <1>5, StoreStepPockets
<1>6. ASSUME NEW t \in Trade, Works(t), TradeSave(t) PROVE Pockets'
  BY <1>3, <1>6, SavePockets
<1>7. ASSUME DeskStep, UNCHANGED row PROVE Pockets'
  BY <1>3, <1>7, DeskStepPockets
<1>8. CASE DeskStep
  BY <1>6, <1>7, <1>8 DEF DeskStep, Releases, Creates, Agrees, Forgets
<1>. QED  BY <1>4, <1>5, <1>8

----------------------------------------------------------------------------
(* The invariant.                                                          *)

LEMMA InitIInv == Init => IInv
<1>. USE NoTradeAssumption, TradeBounds
<1>1. SUFFICES ASSUME Init PROVE IInv
  OBVIOUS
<1>2. PICK own \in [Good -> Role] :
        /\ player = [r \in Role |-> [st |-> "NORMAL", tid |-> None, pocket |-> {g \in Good : own[g] = r},
                                     stamp |-> 0, ses |-> 0, b_disconnect |-> FALSE]]
        /\ row = [r \in Role |-> [pocket |-> {g \in Good : own[g] = r}, timestamp |-> 0]]
  BY <1>1 DEF Init
<1>3. /\ put = {} /\ get = {} /\ toGS = {} /\ toDS = {} /\ spent = {} /\ back = {} /\ late = FALSE /\ logins = 0
      /\ trans = [t \in Trade |-> NoTransaction] /\ TraderMap = [r \in Role |-> None]
  BY <1>1 DEF Init
<1>4. NoTransaction \in TransRec /\ DeskRecord(NoTransaction)
  BY DEF NoTransaction, TransRec, TransactionStates, NoPocket, DeskRecord
<1>5. Typed
  <2>1. player \in [Role -> PlayerRec]
    BY <1>2 DEF PlayerRec, PlayerStates, Ses
  <2>2. row \in [Role -> [pocket : SUBSET Good, timestamp : Nat]]
    BY <1>2
  <2>3. \A r \in Role : player[r].ses <= 0 /\ player[r].tid = None /\ player[r].st = "NORMAL"
    BY <1>2
  <2>4. trans \in [Trade -> TransRec] /\ TraderMap \in [Role -> Trade \cup {None}]
    BY <1>3, <1>4
  <2>5. logins \in Ses /\ \A r \in Role : player[r].ses <= logins
    BY <1>3, <2>3 DEF Ses
  <2>6. \A r \in Role : (player[r].tid # None) <=> player[r].st \in InTradeStates
    BY <2>3 DEF InTradeStates
  <2>. QED  BY <1>3, <2>1, <2>2, <2>4, <2>5, <2>6 DEF Typed
<1>6. Desks
  BY <1>3, <1>4 DEF Desks, Desk, MapOfDesks, NoTransaction, Live
<1>7. \A r \in Role : player[r].tid = None /\ player[r].st = "NORMAL"
  BY <1>2
<1>8. Talk
  BY <1>3, <1>7 DEF Talk, Known, Starts, Replies, Ends
<1>9. Held
  BY <1>3 DEF Held, Agreeing
<1>10. EndTold
  BY <1>7 DEF EndTold
<1>11. Pockets
  <2>1. ASSUME NEW g \in Good PROVE {q \in Role : g \in row[q].pocket} = {own[g]} /\ own[g] \in Role
    BY <1>2
  <2>2. \A r \in Role : player[r].pocket = row[r].pocket /\ player[r].stamp = 0 /\ row[r].timestamp = 0
    BY <1>2
  <2>3. \A r \in Role : ~Away(r)
    BY <1>3, <1>7 DEF Away, Agreeing
  <2>. QED  BY <1>3, <1>7, <2>1, <2>2, <2>3
            DEF Pockets, Single, InWorld, Writes, WriteBack, Undisturbed, Unsaved, ReadBack
<1>. QED  BY <1>5, <1>6, <1>8, <1>9, <1>10, <1>11 DEF IInv

LEMMA StepIInv == IInv /\ Next => IInv'
<1>1. SUFFICES ASSUME IInv, Next PROVE IInv'
  OBVIOUS
<1>2. RoleStep \/ DeskStep \/ StoreStep
  BY <1>1, Steps DEF IInv, Talk
<1>3. Typed'
  BY <1>1, <1>2, RoleStepTyped, DeskStepTyped, StoreStepTyped DEF IInv
<1>4. Desks'
  BY <1>1, <1>2, DesksStep DEF IInv, Talk
<1>5. Talk'
  BY <1>1, <1>2, <1>3, TalkStep DEF IInv
<1>6. Held'
  BY <1>1, <1>2, HeldStep DEF IInv
<1>7. EndTold'
  BY <1>1, <1>2, <1>3, EndToldStep DEF IInv
<1>8. (Timely => Pockets)'
  BY <1>1, <1>2, <1>3, PocketsStep DEF IInv
<1>. QED  BY <1>3, <1>4, <1>5, <1>6, <1>7, <1>8 DEF IInv

LEMMA StutterIInv == IInv /\ UNCHANGED vars => IInv'
<1>. SUFFICES ASSUME IInv, UNCHANGED vars PROVE IInv'
  OBVIOUS
<1>. USE DEF IInv, vars
<1>1. Typed' /\ Desks'
  BY DEF Typed, Desks, Desk, MapOfDesks, Live, Traders
<1>2. Talk'
  <2>. USE DEF Talk, Live, Traders
  <2>1. Known'
    BY DEF Known
  <2>2. Starts'
    BY DEF Starts
  <2>3. Replies'
    BY DEF Replies
  <2>4. Ends'
    BY DEF Ends
  <2>. QED  BY <2>1, <2>2, <2>3, <2>4
<1>3. Held' /\ EndTold'
  BY DEF Held, InTrade, Agreeing, Live, EndTold
<1>4. (Timely => Pockets)'
  BY DEF Timely, Pockets, Single, InWorld, Writes, WriteBack, Undisturbed, Unsaved, ReadBack, Pending, Away,
         Agreeing, Live
<1>. QED  BY <1>1, <1>2, <1>3, <1>4

\* What the theorems below rest on: the layers hold in every state the daemons
\* reach, for any roles, goods and numbers of trades, logins and faults.
THEOREM Invariance == Spec => []IInv
<1>1. IInv /\ [Next]_vars => IInv'
  BY StepIInv, StutterIInv
<1>. QED  BY InitIInv, <1>1, PTL DEF Spec

\* Types; a role has a trade exactly in the states of playertrade.cpp that belong to
\* one, a Transaction awaits an answer of gamedbd only where its state says so, and
\* whoever is in TraderMap is a trader of a Transaction that is there (trade.h, trade.cpp).
THEOREM TypeCorrect == Spec => []TypeOK
<1>1. IInv => TypeOK
  <2>1. SUFFICES ASSUME IInv PROVE TypeOK
    OBVIOUS
  <2>2. Typed /\ Desks
    BY <2>1 DEF IInv
  <2>3. ASSUME NEW r \in Role
        PROVE  /\ player[r].st \in PlayerStates /\ player[r].pocket \subseteq Good
               /\ player[r].tid \in Trade \cup {None} /\ player[r].stamp \in Nat /\ player[r].ses \in 0..MaxLogin
               /\ (player[r].tid # None) <=>
                    player[r].st \in {"WAITING_TRADE", "TRADE", "WAIT_TRADE_COMPLETE", "WAIT_TRADE_READ"}
    BY <2>2, RoleTyped DEF InTradeStates, Ses
  <2>4. ASSUME NEW t \in Trade
        PROVE  /\ trans[t].state \in TransactionStates
               /\ trans[t].state = "Confirm" => trans[t].save \in {"sent", "ok", "bad"}
               /\ trans[t].save \in {"none", "sent", "ok", "bad", "late"}
               /\ trans[t].inventory \in {"none", "sent", "ok", "bad"}
    BY <2>2, TransTyped DEF DeskRecord, TransRec
  <2>5. \A r \in Role : TraderMap[r] # None => Live(TraderMap[r]) /\ r \in Traders(TraderMap[r])
    BY <2>2 DEF Typed, Desks, MapOfDesks
  <2>6. row \in [Role -> [pocket : SUBSET Good, timestamp : Nat]]
    BY <2>2 DEF Typed
  <2>. QED  BY <2>3, <2>4, <2>5, <2>6 DEF TypeOK
<1>. QED  BY <1>1, Invariance, PTL

\* While gdeliveryd works with two pockets, both roles are found by that trade and are
\* in it on the game server, gone, or came back too early: the world does not use the
\* pockets (trade.cpp, playertrade.cpp, gtradestart_re.hpp).
THEOREM DesksHold == Spec => []DeskHolds
<1>1. IInv => DeskHolds
  <2>1. SUFFICES ASSUME IInv, NEW t \in Trade, Open(t), NEW r \in Traders(t)
                 PROVE  /\ TraderMap[r] = t
                        /\ \/ player[r].st \in {"TRADE", "WAIT_TRADE_COMPLETE"} /\ player[r].tid = t
                           \/ player[r].st = "OUT"
                           \/ r \in back
    BY DEF DeskHolds
  <2>2. Live(t) /\ trans[t].joined = Pair(trans[t]) /\ r \in Role /\ r \in trans[t].joined
    BY <2>1, TransTyped DEF IInv, Open, Live, DeskRecord
  <2>3. TraderMap[r] = t
    BY <2>1, <2>2 DEF IInv, Desks, Desk
  <2>4. InTrade(r, t)
    BY <2>1, <2>2, <2>3 DEF IInv, Held
  <2>. QED  BY <2>3, <2>4 DEF InTrade
<1>. QED  BY <1>1, Invariance, PTL

\* A role that waits in PLAYER_TRADE and whose agreement reached its Transaction has the
\* end of the trade on its way as soon as that is gone (gtradestart_re.hpp, trade.cpp).
THEOREM EndsAreTold == Spec => []EndTold
<1>1. IInv => EndTold
  BY DEF IInv
<1>. QED  BY <1>1, Invariance, PTL

\* As long as no save runs after it was given up and no role is loaded too early, a good
\* is in one pocket of the table or used up, and a role that is in the world has what the
\* table says it has: trades neither copy goods nor lose them (playertrade.cpp,
\* trade.cpp, tradesave.hrp, putrole.hrp).
THEOREM OneOwnerEach == Spec => []OneOwner
<1>1. IInv => OneOwner
  <2>1. SUFFICES ASSUME IInv, Timely PROVE OneOwner
    BY DEF OneOwner
  <2>2. Single /\ InWorld
    BY <2>1 DEF IInv, Pockets
  <2>3. ASSUME NEW g \in Good
        PROVE  LET n == Cardinality({r \in Role : g \in row[r].pocket}) IN n = 1 \/ (n = 0 /\ g \in spent)
    BY <2>2, FS_EmptySet, FS_Singleton DEF Single
  <2>4. \A r \in Role : player[r].st \in {"NORMAL", "WAITING_TRADE", "DISCONNECT", "WAIT_LOGOUT"} =>
          player[r].pocket = row[r].pocket \ spent
    BY <2>2 DEF InWorld, World
  <2>. QED  BY <2>3, <2>4 DEF OneOwner
<1>. QED  BY <1>1, Invariance, PTL
=============================================================================
