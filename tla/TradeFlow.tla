----------------------------- MODULE TradeFlow ------------------------------
(***************************************************************************)
(* A trade from its start to its end between the three daemons: the game    *)
(* server (playertrade.cpp), which writes both roles back and stops using   *)
(* their pockets; gdeliveryd (trade.cpp, gtradestart_re.hpp ...), which     *)
(* reads the pockets and saves them; and gamedbd, which keeps them.  Several *)
(* trades, and roles that leave, are dropped and come back.                 *)
(*                                                                          *)
(* What the players do at the desk is in TradeDesk; here it is one step that *)
(* divides the goods anew.  A pocket is a set of goods, all different.      *)
(* Messages between the daemons are handled by pool threads in any order.   *)
(***************************************************************************)
EXTENDS Integers, FiniteSets

CONSTANTS
  Role, Good,
  MaxTrade,       \* trades that are agreed upon
  MaxLogin,       \* logins after the first one of every role
  MaxUpset,       \* saves by the write timer, attacks and lost connections
  MaxFault,       \* calls that fail, are not sent or end too late, and limits that pass
  None, Off       \* no trade; the write at a logout

Trade == 1..MaxTrade

ASSUME TradeBounds == {MaxTrade, MaxLogin, MaxUpset, MaxFault} \subseteq Nat
ASSUME NoTradeAssumption == None \notin Trade \cup {Off} /\ Off \notin Trade

VARIABLES
  player,    \* the game server: gplayer_imp of each role
  row,       \* gamedbd: the pocket in table inventory, with its timestamp
  put,       \* PutRole calls of the game server
  get,       \* GetMoneyInventory calls of the game server
  trans,     \* gdeliveryd: Transactions with their calls to gamedbd
  TraderMap, \* gdeliveryd: the trade a role has joined
  online,    \* gdeliveryd: roles it knows as online
  toGS, toDS,\* messages to the game server and to gdeliveryd
  spent,     \* goods used up in the world
  logins, upsets, faults,
  late,      \* a save was executed after gdeliveryd had given it up
  back       \* roles that came back while an earlier trade or write was open

vars == <<player, row, put, get, trans, TraderMap, online, toGS, toDS, spent, logins, upsets,
          faults, late, back>>

NoPocket == [r \in Role |-> {}]

NoTransaction ==
  [state |-> "none", traders |-> <<>>, ses |-> <<>>, OnDestroy |-> FALSE, joined |-> {}, agreed |-> {},
   pssn |-> NoPocket, modified |-> FALSE, inventory |-> "none", save |-> "none"]

Init ==
  /\ \E own \in [Good -> Role] :
       LET has(r) == {g \in Good : own[g] = r} IN
       /\ player = [r \in Role |-> [st |-> "NORMAL", tid |-> None, pocket |-> has(r),
                                    stamp |-> 0, ses |-> 0, b_disconnect |-> FALSE]]
       /\ row = [r \in Role |-> [pocket |-> has(r), timestamp |-> 0]]
  /\ put = {} /\ get = {}
  /\ trans = [t \in Trade |-> NoTransaction]
  /\ TraderMap = [r \in Role |-> None]
  /\ online = Role
  /\ toGS = {} /\ toDS = {}
  /\ spent = {} /\ logins = 0 /\ upsets = 0 /\ faults = 0
  /\ late = FALSE /\ back = {}

ReplyTradeRequest(t, r, ok) == [type |-> "GTradeStart_Re", tid |-> t, role |-> r, ok |-> ok]
DiscardTrade(t) == [type |-> "GTradeDiscard", tid |-> t]
SendLogout(r) == [type |-> "PlayerLogout", role |-> r]
GTradeEnd(t, r) == [type |-> "GTradeEnd", tid |-> t, role |-> r, need_read |-> trans[t].modified]

\* The call user_save_data makes for player p of role r; f says who waits for it.
Write(r, p, f) == [role |-> r, ses |-> p.ses, timestamp |-> p.stamp, pocket |-> p.pocket,
                   for |-> f, res |-> "sent"]
Stamped(p) == [p EXCEPT !.stamp = @ + 1]

\* Something that may happen a bounded number of times goes wrong if b holds.
FaultIf(b) == faults' = (IF b THEN faults + 1 ELSE faults) /\ faults' <= MaxFault
Fault == FaultIf(TRUE)
Upset == upsets < MaxUpset /\ upsets' = upsets + 1

----------------------------------------------------------------------------
(* The game server.                                                        *)

gsOnly == UNCHANGED <<row, trans, TraderMap, online, logins, late, back>>

\* Mutant: the trade's number is kept.
FromTradeToNormalKeepsTid(p) == [p EXCEPT !.st = IF p.b_disconnect THEN "DISCONNECT" ELSE "NORMAL"]

FromTradeToNormal(p) == [p EXCEPT !.tid = None, !.st = IF p.b_disconnect THEN "DISCONNECT" ELSE "NORMAL"]

\* Logout(-1), after which the player object is gone.
Dropped(p) == [p EXCEPT !.st = "OUT", !.tid = None, !.pocket = {}, !.stamp = 0, !.b_disconnect = FALSE]
Drop(r) ==
  /\ player' = [player EXCEPT ![r] = Dropped(@)]
  /\ toDS' = toDS \cup {SendLogout(r)}

\* A good is used up in the world: by a command, obeyed in the normal state only,
\* or by a death, which costs goods also while the role is leaving.
Spend(r, g) ==
  /\ player[r].st \in {"NORMAL", "DISCONNECT"} /\ g \in player[r].pocket
  /\ player' = [player EXCEPT ![r].pocket = @ \ {g}]
  /\ spent' = spent \cup {g}
  /\ UNCHANGED <<put, get, toGS, toDS, upsets, faults>> /\ gsOnly

\* The write timer; it passes over roles that trade.
AutoSaveData(r) ==
  /\ player[r].st = "NORMAL" /\ Upset
  /\ player' = [player EXCEPT ![r] = Stamped(@)]
  /\ put' = put \cup {Write(r, Stamped(player[r]), None)}
  /\ UNCHANGED <<get, toGS, toDS, spent, faults>> /\ gsOnly

CanTrade(m, i) == /\ player[m.traders[i]].st = "NORMAL"
                  /\ player[m.traders[i]].ses = m.ses[i]

\* trade_start: both begin to wait for their write, or the first one refuses.
\* It may always refuse (distance, death, a session of another kind).
StartTrade(m) ==
  LET began(r) == [Stamped(player[r]) EXCEPT !.st = "WAITING_TRADE", !.tid = m.tid] IN
  /\ m \in toGS /\ m.type = "GTradeStart"
  /\ toGS' = toGS \ {m}
  /\ \/ /\ CanTrade(m, 1) /\ CanTrade(m, 2)
        /\ player' = [r \in Role |-> IF \E i \in 1..2 : r = m.traders[i] THEN began(r) ELSE player[r]]
        /\ put' = put \cup {Write(m.traders[i], began(m.traders[i]), m.tid) : i \in 1..2}
        /\ UNCHANGED <<toDS, faults>>
     \/ /\ toDS' = toDS \cup {ReplyTradeRequest(m.tid, m.traders[1], FALSE)}
        /\ FaultIf(CanTrade(m, 1) /\ CanTrade(m, 2))
        /\ UNCHANGED <<player, put>>
  /\ UNCHANGED <<get, spent, upsets>> /\ gsOnly

\* The write has an answer, or none in time.
WaitingTradeWriteBack(w) ==
  LET p == player[w.role]
      waiting == p.ses = w.ses /\ p.st = "WAITING_TRADE" /\ p.tid = w.for IN
  /\ w \in put /\ w.for \in Trade
  /\ FaultIf(w.res = "sent")
  /\ put' = (put \ {w}) \cup (IF w.res = "sent" THEN {[w EXCEPT !.for = None]} ELSE {})
  /\ IF waiting
       THEN /\ toDS' = toDS \cup {ReplyTradeRequest(w.for, w.role, w.res = "ok")}
            /\ player' = [player EXCEPT ![w.role] =
                 IF w.res = "ok" THEN [@ EXCEPT !.st = "TRADE"] ELSE FromTradeToNormal(@)]
       ELSE UNCHANGED <<player, toDS>>
  /\ UNCHANGED <<get, toGS, spent, upsets>> /\ gsOnly

\* Attacked, or too long without an answer of gamedbd.
RefuseTrade(r) ==
  /\ player[r].st = "WAITING_TRADE" /\ Upset
  /\ toDS' = toDS \cup {ReplyTradeRequest(player[r].tid, r, FALSE)}
  /\ player' = [player EXCEPT ![r] = FromTradeToNormal(@)]
  /\ UNCHANGED <<put, get, toGS, spent, faults>> /\ gsOnly

\* Attacked or called away.
InterruptTrade(r) ==
  /\ player[r].st = "TRADE" /\ Upset
  /\ toDS' = toDS \cup {DiscardTrade(player[r].tid)}
  /\ player' = [player EXCEPT ![r].st = "WAIT_TRADE_COMPLETE"]
  /\ UNCHANGED <<put, get, toGS, spent, faults>> /\ gsOnly

LostConnection(r) ==
  LET p == [player[r] EXCEPT !.b_disconnect = TRUE] IN
  /\ player[r].st \notin {"OUT", "WAIT_LOGOUT"} /\ ~player[r].b_disconnect /\ Upset
  /\ \/ /\ p.st = "NORMAL"
        /\ player' = [player EXCEPT ![r] = [p EXCEPT !.st = "DISCONNECT"]]
        /\ UNCHANGED toDS
     \/ /\ p.st = "WAITING_TRADE"
        /\ player' = [player EXCEPT ![r] = FromTradeToNormal(p)]
        /\ toDS' = toDS \cup {ReplyTradeRequest(p.tid, r, FALSE)}
     \/ /\ p.st = "TRADE"
        /\ player' = [player EXCEPT ![r] = [p EXCEPT !.st = "WAIT_TRADE_COMPLETE"]]
        /\ toDS' = toDS \cup {DiscardTrade(p.tid)}
     \/ /\ p.st \in {"WAIT_TRADE_COMPLETE", "WAIT_TRADE_READ"}
        /\ player' = [player EXCEPT ![r] = p]
        /\ UNCHANGED toDS
  /\ UNCHANGED <<put, get, toGS, spent, faults>> /\ gsOnly

\* Ten seconds after the discard: dropped, and nothing is saved.
WaitingTradeCompleteTimeout(r) ==
  /\ player[r].st = "WAIT_TRADE_COMPLETE" /\ Fault
  /\ Drop(r)
  /\ UNCHANGED <<put, get, toGS, spent, upsets>> /\ gsOnly

\* trade_end for one of the two roles.
TradeComplete(m) ==
  LET p == player[m.role] IN
  /\ m \in toGS /\ m.type = "GTradeEnd"
  /\ toGS' = toGS \ {m}
  /\ IF p.st \notin {"WAITING_TRADE", "TRADE", "WAIT_TRADE_COMPLETE"}
       THEN UNCHANGED <<player, get, toDS>>
     ELSE IF p.tid # m.tid
       THEN Drop(m.role) /\ UNCHANGED get
     ELSE /\ UNCHANGED toDS
          /\ IF m.need_read
               THEN /\ player' = [player EXCEPT ![m.role].st = "WAIT_TRADE_READ"]
                    /\ get' = get \cup {[role |-> m.role, ses |-> p.ses, tid |-> m.tid,
                                         res |-> "sent", pocket |-> {}]}
               ELSE /\ player' = [player EXCEPT ![m.role] = FromTradeToNormal(@)]
                    /\ UNCHANGED get
  /\ UNCHANGED <<put, spent, upsets, faults>> /\ gsOnly

\* The pocket was read, could not be, or was not in time.
WaitingTradeReadBack(x) ==
  LET p == player[x.role] IN
  /\ x \in get /\ FaultIf(x.res = "sent")
  /\ get' = get \ {x}
  /\ IF p.ses # x.ses \/ p.st # "WAIT_TRADE_READ" \/ p.tid # x.tid
       THEN UNCHANGED <<player, toDS>>
     ELSE IF x.res = "ok"
       THEN /\ player' = [player EXCEPT ![x.role] = FromTradeToNormal([@ EXCEPT !.pocket = x.pocket])]
            /\ UNCHANGED toDS
     ELSE Drop(x.role)
  /\ UNCHANGED <<put, toGS, spent, upsets>> /\ gsOnly

\* The end of PLAYER_DISCONNECT: Logout writes the role.
Logout(r) ==
  /\ player[r].st = "DISCONNECT"
  /\ player' = [player EXCEPT ![r] = [Stamped(@) EXCEPT !.st = "WAIT_LOGOUT"]]
  /\ put' = put \cup {Write(r, Stamped(player[r]), Off)}
  /\ UNCHANGED <<get, toGS, toDS, spent, upsets, faults>> /\ gsOnly

\* It was written, or not, or not in time: the role leaves anyway.
LogoutWritten(w) ==
  /\ w \in put /\ w.for = Off /\ FaultIf(w.res = "sent")
  /\ put' = (put \ {w}) \cup (IF w.res = "sent" THEN {[w EXCEPT !.for = None]} ELSE {})
  /\ Drop(w.role)
  /\ UNCHANGED <<get, toGS, spent, upsets>> /\ gsOnly

----------------------------------------------------------------------------
(* gamedbd.                                                                *)

dbOnly == UNCHANGED <<player, TraderMap, online, toGS, toDS, spent, logins, upsets, back>>

\* Mutant: the timestamps are not compared.
PutRoleAnyAge(w) ==
  /\ w \in put /\ w.res = "sent"
  /\ \E done \in BOOLEAN :
       /\ FaultIf(~done)
       /\ row' = IF done THEN [row EXCEPT ![w.role] = [pocket |-> w.pocket, timestamp |-> w.timestamp]]
                 ELSE row
       /\ put' = (put \ {w}) \cup
            (IF w.for = None THEN {} ELSE {[w EXCEPT !.res = IF done THEN "ok" ELSE "bad"]})
  /\ UNCHANGED <<get, trans, late>> /\ dbOnly

\* A write that is older than the row is refused; any may fail.
PutRole(w) ==
  /\ w \in put /\ w.res = "sent"
  /\ \E done \in BOOLEAN :
       /\ done => w.timestamp > row[w.role].timestamp
       /\ FaultIf(~done /\ w.timestamp > row[w.role].timestamp)
       /\ row' = IF done THEN [row EXCEPT ![w.role] = [pocket |-> w.pocket, timestamp |-> w.timestamp]]
                 ELSE row
       /\ put' = (put \ {w}) \cup
            (IF w.for = None THEN {} ELSE {[w EXCEPT !.res = IF done THEN "ok" ELSE "bad"]})
  /\ UNCHANGED <<get, trans, late>> /\ dbOnly

GetMoneyInventory(x) ==
  /\ x \in get /\ x.res = "sent"
  /\ \E y \in {[x EXCEPT !.res = "ok", !.pocket = row[x.role].pocket], [x EXCEPT !.res = "bad"]} :
       get' = (get \ {x}) \cup {y} /\ FaultIf(y.res = "bad")
  /\ UNCHANGED <<row, put, trans, late>> /\ dbOnly

Traders(t) == {trans[t].traders[i] : i \in DOMAIN trans[t].traders}

TradeInventory(t) ==
  /\ trans[t].inventory = "sent"
  /\ \E y \in {[trans[t] EXCEPT !.inventory = "bad"],
               [trans[t] EXCEPT !.inventory = "ok",
                 !.pssn = [r \in Role |-> IF r \in Traders(t) THEN row[r].pocket ELSE {}]]} :
       trans' = [trans EXCEPT ![t] = y] /\ FaultIf(y.inventory = "bad")
  /\ UNCHANGED <<row, put, get, late>> /\ dbOnly

Holders(g, pocket, R) == Cardinality({r \in R : g \in pocket[r]})

\* Both pockets are written, keeping the timestamps, if together they are what
\* they were in the table.  An answer that nobody waits for is dropped.
TradeSave(t) ==
  LET pockets == [r \in Role |-> row[r].pocket]
      verified == \A g \in Good : Holders(g, pockets, Traders(t)) = Holders(g, trans[t].pssn, Traders(t)) IN
  /\ trans[t].save \in {"sent", "late"}
  /\ \E done \in BOOLEAN :
       /\ done => verified
       /\ FaultIf(~done /\ verified)
       /\ row' = [r \in Role |-> IF done /\ r \in Traders(t)
                                 THEN [row[r] EXCEPT !.pocket = trans[t].pssn[r]] ELSE row[r]]
       /\ trans' = [trans EXCEPT ![t].save =
                     IF @ = "late" THEN "none" ELSE IF done THEN "ok" ELSE "bad"]
       /\ late' = (late \/ (done /\ trans[t].save = "late"))
  /\ UNCHANGED <<put, get>> /\ dbOnly

----------------------------------------------------------------------------
(* gdeliveryd.                                                             *)

dsOnly == UNCHANGED <<player, row, put, get, spent, upsets, late>>

Live(t) == trans[t].state \notin {"none", "released"}
Destroy(d) == [d EXCEPT !.state = "Null"]

\* The partner agreed (TradeStartRqst): a new Transaction, and the game server is asked.
Create(a, b) ==
  \E t \in Trade :
    /\ trans[t].state = "none" /\ \A u \in 1..(t - 1) : trans[u].state # "none"
    /\ a # b /\ {a, b} \subseteq online
    /\ TraderMap[a] = None /\ TraderMap[b] = None
    /\ LET d == [NoTransaction EXCEPT !.state = "Init", !.traders = <<a, b>>,
                                      !.ses = <<player[a].ses, player[b].ses>>] IN
       \/ /\ trans' = [trans EXCEPT ![t] = d]
          /\ toGS' = toGS \cup {[type |-> "GTradeStart", tid |-> t, traders |-> d.traders, ses |-> d.ses]}
          /\ UNCHANGED faults
       \/ trans' = [trans EXCEPT ![t] = Destroy(d)] /\ Fault /\ UNCHANGED toGS
    /\ UNCHANGED <<TraderMap, online, toDS, logins, back>> /\ dsOnly

\* AttachTrader: d with r joined.
Attached(d, r) ==
  LET j == d.joined \cup {r} IN
  IF Cardinality(j) < 2
    THEN [d EXCEPT !.joined = j, !.state = "Init_half"]
    ELSE [d EXCEPT !.joined = j, !.state = "SetPossession", !.inventory = "sent"]

\* Mutant: the end is reported only when both have agreed.
GTradeStart_ReAgreeBoth(m) ==
  LET t == m.tid
      d == [trans[t] EXCEPT !.OnDestroy = trans[t].joined \cup {m.role} = Traders(t), !.agreed = @ \cup {m.role}]
      joins == d.state \in {"Init", "Init_half"} /\ TraderMap[m.role] = None IN
  /\ m \in toDS /\ m.type = "GTradeStart_Re" /\ m.ok
  /\ toDS' = toDS \ {m}
  /\ IF ~Live(t) THEN UNCHANGED <<trans, TraderMap, faults>>
     ELSE IF ~joins THEN trans' = [trans EXCEPT ![t] = Destroy(d)] /\ UNCHANGED <<TraderMap, faults>>
     ELSE /\ TraderMap' = [TraderMap EXCEPT ![m.role] = t]
          /\ \/ trans' = [trans EXCEPT ![t] = Attached(d, m.role)] /\ UNCHANGED faults
             \/ /\ Attached(d, m.role).inventory = "sent" /\ Fault    \* the call cannot be sent
                /\ trans' = [trans EXCEPT ![t] = Destroy([Attached(d, m.role) EXCEPT !.inventory = "none"])]
  /\ UNCHANGED <<online, toGS, logins, back>> /\ dsOnly

\* A role agrees: from now on the end of the trade is reported, and the role joins.
GTradeStart_ReAgree(m) ==
  LET t == m.tid
      d == [trans[t] EXCEPT !.OnDestroy = TRUE, !.agreed = @ \cup {m.role}]
      joins == d.state \in {"Init", "Init_half"} /\ TraderMap[m.role] = None IN
  /\ m \in toDS /\ m.type = "GTradeStart_Re" /\ m.ok
  /\ toDS' = toDS \ {m}
  /\ IF ~Live(t) THEN UNCHANGED <<trans, TraderMap, faults>>
     ELSE IF ~joins THEN trans' = [trans EXCEPT ![t] = Destroy(d)] /\ UNCHANGED <<TraderMap, faults>>
     ELSE /\ TraderMap' = [TraderMap EXCEPT ![m.role] = t]
          /\ \/ trans' = [trans EXCEPT ![t] = Attached(d, m.role)] /\ UNCHANGED faults
             \/ /\ Attached(d, m.role).inventory = "sent" /\ Fault    \* the call cannot be sent
                /\ trans' = [trans EXCEPT ![t] = Destroy([Attached(d, m.role) EXCEPT !.inventory = "none"])]
  /\ UNCHANGED <<online, toGS, logins, back>> /\ dsOnly

GTradeStart_ReRefuse(m) ==
  /\ m \in toDS /\ m.type = "GTradeStart_Re" /\ ~m.ok
  /\ toDS' = toDS \ {m}
  /\ trans' = IF Live(m.tid) THEN [trans EXCEPT ![m.tid] = Destroy(@)] ELSE trans
  /\ UNCHANGED <<TraderMap, online, toGS, logins, faults, back>> /\ dsOnly

\* Operations on the Transaction alone.
Operate(t, d) ==
  /\ trans' = [trans EXCEPT ![t] = d]
  /\ UNCHANGED <<TraderMap, online, toGS, toDS, logins, back>> /\ dsOnly

TradeInventoryClient(t) ==
  /\ trans[t].inventory \in {"ok", "bad"} /\ UNCHANGED faults
  /\ LET d == [trans[t] EXCEPT !.inventory = "none"] IN
     Operate(t, IF trans[t].inventory = "ok" /\ d.state = "SetPossession"
                  THEN [d EXCEPT !.state = "Exchange"] ELSE Destroy(d))

TradeInventoryOnTimeout(t) ==
  /\ trans[t].inventory # "none" /\ FaultIf(trans[t].inventory = "sent")
  /\ Operate(t, Destroy([trans[t] EXCEPT !.inventory = "none"]))

\* A good is moved within a pocket.
MoveObject(t) ==
  /\ trans[t].state = "Exchange" /\ ~trans[t].modified /\ UNCHANGED faults
  /\ Operate(t, [trans[t] EXCEPT !.modified = TRUE])

\* Write2DB and what follows it: nothing to save, saved, or not sent.
Write2DB(t, d) ==
  \E sent \in BOOLEAN :
    /\ sent => d.modified
    /\ FaultIf(~sent /\ d.modified)
    /\ Operate(t, IF sent THEN [d EXCEPT !.save = "sent"] ELSE Destroy(d))

\* Both confirmed: A has the goods S now, the other one the rest.
Confirm(t, S) ==
  LET a == trans[t].traders[1]
      b == trans[t].traders[2]
      all == trans[t].pssn[a] \cup trans[t].pssn[b]
      p == [trans[t].pssn EXCEPT ![a] = S, ![b] = all \ S] IN
  /\ trans[t].state = "Exchange" /\ S \subseteq all
  /\ Write2DB(t, [trans[t] EXCEPT !.state = "Confirm", !.pssn = p,
                                  !.modified = @ \/ p # trans[t].pssn])

\* A player discards.
TradeDiscard(t) ==
  /\ trans[t].state = "Exchange"
  /\ Write2DB(t, [trans[t] EXCEPT !.state = "Init"])

\* The game server does; nothing comes of it in other states.
GTradeDiscard(m) ==
  LET d == [trans[m.tid] EXCEPT !.state = "Init"] IN
  /\ m \in toDS /\ m.type = "GTradeDiscard"
  /\ toDS' = toDS \ {m}
  /\ IF trans[m.tid].state # "Exchange" THEN UNCHANGED <<trans, faults>>
     ELSE \E sent \in BOOLEAN :
            /\ sent => d.modified
            /\ FaultIf(~sent /\ d.modified)
            /\ trans' = [trans EXCEPT ![m.tid] =
                 IF sent THEN [d EXCEPT !.save = "sent"] ELSE Destroy(d)]
  /\ UNCHANGED <<TraderMap, online, toGS, logins, back>> /\ dsOnly

TradeSaveClient(t) ==
  /\ trans[t].save \in {"ok", "bad"} /\ UNCHANGED faults
  /\ Operate(t, Destroy([trans[t] EXCEPT !.save = "none"]))

TradeSaveOnTimeout(t) ==
  /\ trans[t].save \in {"sent", "ok", "bad"} /\ FaultIf(trans[t].save = "sent")
  /\ Operate(t, Destroy([trans[t] EXCEPT !.save = IF @ = "sent" THEN "late" ELSE "none"]))

\* Mutant: the traders are taken out of the map whatever they have joined.
UpdateErasesAny(t) ==
  LET d == trans[t] IN
  /\ d.state \in {"Init_half", "SetPossession", "Exchange", "Null"}
  /\ FaultIf(d.state # "Null")
  /\ toGS' = IF d.OnDestroy THEN toGS \cup {GTradeEnd(t, r) : r \in Traders(t)} ELSE toGS
  /\ TraderMap' = [r \in Role |-> IF r \in Traders(t) THEN None ELSE TraderMap[r]]
  /\ trans' = [trans EXCEPT ![t] =
       IF d.save = "late" THEN [d EXCEPT !.state = "released"]
       ELSE [NoTransaction EXCEPT !.state = "released", !.agreed = d.agreed]]
  /\ UNCHANGED <<online, toDS, logins, back>> /\ dsOnly

\* The timer: the end is reported if a role had agreed, and the object released.
\* A save that was given up is still on its way.
Update(t) ==
  LET d == trans[t] IN
  /\ d.state \in {"Init_half", "SetPossession", "Exchange", "Null"}
  /\ FaultIf(d.state # "Null")
  /\ toGS' = IF d.OnDestroy THEN toGS \cup {GTradeEnd(t, r) : r \in Traders(t)} ELSE toGS
  /\ TraderMap' = [r \in Role |-> IF r \in Traders(t) /\ TraderMap[r] = t THEN None ELSE TraderMap[r]]
  /\ trans' = [trans EXCEPT ![t] =
       IF d.save = "late" THEN [d EXCEPT !.state = "released"]
       ELSE [NoTransaction EXCEPT !.state = "released", !.agreed = d.agreed]]
  /\ UNCHANGED <<online, toDS, logins, back>> /\ dsOnly

\* The role's session ends (DiscardTransaction): its trade is discarded unsaved.
RoleLogout(m) ==
  LET t == TraderMap[m.role] IN
  /\ m \in toDS /\ m.type = "PlayerLogout"
  /\ toDS' = toDS \ {m}
  /\ online' = online \ {m.role}
  /\ trans' = IF t # None /\ trans[t].state = "Exchange"
                THEN [trans EXCEPT ![t] = Destroy([@ EXCEPT !.modified = FALSE])] ELSE trans
  /\ UNCHANGED <<TraderMap, toGS, logins, faults, back>> /\ dsOnly

\* It logs in again and is read from gamedbd.
Login(r) ==
  /\ r \notin online /\ logins < MaxLogin
  /\ online' = online \cup {r}
  /\ logins' = logins + 1
  /\ player' = [player EXCEPT ![r] = [st |-> "NORMAL", tid |-> None, pocket |-> row[r].pocket,
       stamp |-> row[r].timestamp, ses |-> @.ses + 1, b_disconnect |-> FALSE]]
  /\ spent' = spent \ row[r].pocket
  /\ back' = IF \/ TraderMap[r] # None
                \/ \E w \in put : w.role = r
                \/ \E m \in toDS : m.type = "GTradeStart_Re" /\ m.role = r
               THEN back \cup {r} ELSE back
  /\ UNCHANGED <<row, put, get, trans, TraderMap, toGS, toDS, upsets, faults, late>>

----------------------------------------------------------------------------
Next ==
  \/ \E r \in Role : AutoSaveData(r) \/ RefuseTrade(r) \/ InterruptTrade(r) \/ LostConnection(r)
       \/ WaitingTradeCompleteTimeout(r) \/ Logout(r) \/ Login(r) \/ \E g \in Good : Spend(r, g)
  \/ \E m \in toGS : StartTrade(m) \/ TradeComplete(m)
  \/ \E w \in put : WaitingTradeWriteBack(w) \/ LogoutWritten(w) \/ PutRole(w)
  \/ \E x \in get : WaitingTradeReadBack(x) \/ GetMoneyInventory(x)
  \/ \E a, b \in Role : Create(a, b)
  \/ \E m \in toDS : GTradeStart_ReAgree(m) \/ GTradeStart_ReRefuse(m) \/ GTradeDiscard(m) \/ RoleLogout(m)
  \/ \E t \in Trade : TradeInventory(t) \/ TradeInventoryClient(t) \/ TradeInventoryOnTimeout(t)
       \/ MoveObject(t) \/ TradeDiscard(t) \/ TradeSave(t) \/ TradeSaveClient(t)
       \/ TradeSaveOnTimeout(t) \/ Update(t) \/ \E S \in SUBSET Good : Confirm(t, S)

Spec == Init /\ [][Next]_vars

----------------------------------------------------------------------------
PlayerStates == {"NORMAL", "WAITING_TRADE", "TRADE", "WAIT_TRADE_COMPLETE", "WAIT_TRADE_READ",
                 "DISCONNECT", "WAIT_LOGOUT", "OUT"}
TransactionStates == {"none", "Init", "Init_half", "SetPossession", "Exchange", "Confirm", "Null", "released"}

\* Types, and which states of a role have a trade and which states of a
\* Transaction an open call.
TypeOK ==
  /\ \A r \in Role :
       /\ player[r].st \in PlayerStates /\ player[r].pocket \subseteq Good
       /\ player[r].tid \in Trade \cup {None} /\ player[r].stamp \in Nat /\ player[r].ses \in 0..MaxLogin
       /\ (player[r].tid # None) <=>
            player[r].st \in {"WAITING_TRADE", "TRADE", "WAIT_TRADE_COMPLETE", "WAIT_TRADE_READ"}
  /\ row \in [Role -> [pocket : SUBSET Good, timestamp : Nat]]
  /\ \A t \in Trade :
       /\ trans[t].state \in TransactionStates
       /\ trans[t].state = "Confirm" => trans[t].save \in {"sent", "ok", "bad"}
       /\ trans[t].save \in {"none", "sent", "ok", "bad", "late"}
       /\ trans[t].inventory \in {"none", "sent", "ok", "bad"}
  /\ \A r \in Role : TraderMap[r] # None => Live(TraderMap[r]) /\ r \in Traders(TraderMap[r])

\* A desk that works with the pockets of two roles.
Open(t) == \/ trans[t].state \in {"SetPossession", "Exchange", "Confirm"}
           \/ trans[t].state = "Init" /\ trans[t].save # "none"

\* The desk and the world never use a pocket at the same time: while a desk is
\* open its roles are found by their trade (DiscardTransaction looks there when
\* a session ends) and on the game server they are in it, or have been
\* dropped.  Only a role that came back too early may be elsewhere.
DeskHolds ==
  \A t \in Trade : Open(t) => \A r \in Traders(t) :
    /\ TraderMap[r] = t
    /\ \/ player[r].st \in {"TRADE", "WAIT_TRADE_COMPLETE"} /\ player[r].tid = t
       \/ player[r].st = "OUT"
       \/ r \in back

\* No save ran after it was given up and no role was loaded before what its
\* earlier session had begun was over.  Nothing in the code sees to either:
\* a save may take 20 s, and a role is dropped after 10.
Timely == ~late /\ back = {}

\* Trades neither copy goods nor lose them: a good is in one pocket of the
\* table, and what a role can use is that pocket without what it has used up,
\* whatever writes, trades and logouts are on their way.
OneOwner ==
  Timely =>
    /\ \A g \in Good : LET n == Cardinality({r \in Role : g \in row[r].pocket}) IN
         n = 1 \/ (n = 0 /\ g \in spent)
    /\ \A r \in Role : player[r].st \in {"NORMAL", "WAITING_TRADE", "DISCONNECT", "WAIT_LOGOUT"} =>
         player[r].pocket = row[r].pocket \ spent

\* PLAYER_TRADE has no limit of its own: a role in it whose agreement reached
\* its Transaction in time is told when that is gone, also when the other one
\* never agreed (gtradestart_re.hpp sets OnDestroy at the first agreement).
EndTold ==
  \A r \in Role :
    LET t == player[r].tid IN
    player[r].st = "TRADE" /\ trans[t].state = "released" /\ r \in trans[t].agreed =>
      \E m \in toGS : m.type = "GTradeEnd" /\ m.tid = t /\ m.role = r
=============================================================================
