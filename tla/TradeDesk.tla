----------------------------- MODULE TradeDesk ------------------------------
(***************************************************************************)
(* One Transaction of gdeliveryd (trade.h, trade.cpp and the handlers of     *)
(* the Trade* and GTrade* messages), from the moment both traders joined it  *)
(* to its release, with the two calls to gamedbd.  The pool threads run the  *)
(* handlers; each call of a Transaction's operation is one step, for it      *)
(* holds locker_self, but a handler that goes on after it (Write2DB,         *)
(* Destroy) does so in steps of its own.  The timer thread tests the state,  *)
(* reports and releases without that lock.                                   *)
(*                                                                           *)
(* Goods are single, unstackable and all different; a pocket is a set of     *)
(* them with a sum of money.  The position of a good in the pocket is left   *)
(* out: MoveObject only marks the pocket modified.                           *)
(***************************************************************************)
EXTENDS Integers, FiniteSets

CONSTANTS
  Alice, Bob,
  Good, Bound,    \* goods; those that may not be given to another player
  NoGood,         \* a message about money only
  Amount,         \* sums of money a message may name, 0 among them
  Capacity,       \* slots of a pocket
  MaxExchg,       \* goods a trader may put up (24)
  MoneyLimit,     \* the most a pocket may hold after a trade (200000000)
  Handler,        \* pool threads
  NoCall, Untold

ASSUME TradersAssumption == Alice # Bob
ASSUME GoodsAssumption ==
  /\ Bound \subseteq Good /\ NoGood \notin Good /\ IsFiniteSet(Good)
  /\ Capacity \in Nat /\ MaxExchg \in Nat
ASSUME MoneyAssumption == Amount \subseteq Nat /\ 0 \in Amount /\ MoneyLimit \in Nat

Trader == {Alice, Bob}
Other(t) == IF t = Alice THEN Bob ELSE Alice
Pocket == [goods : SUBSET Good, money : Nat]
Empty == [goods |-> {}, money |-> 0]

\* A call of TradeSave: which end of the trade made it, the pockets in its
\* argument, how far gamedbd is with it, and whether its answer is awaited.
Call == [cause : {"confirmed", "discarded"}, pocket : [Trader -> Pocket],
         stage : {"unsent", "sent", "saved", "refused"}, waiting : BOOLEAN]
ASSUME NoCallAssumption == NoCall \notin Call

VARIABLES
  state,       \* of the Transaction; "gone" once it is released
  trader,      \* the two Trader objects
  blGenResult, \* result is filled in
  result,      \* _newposs and _newmoney of each trader
  cont,        \* what a handler has yet to do after its operation
  call,        \* TradeSave calls, by the thread that made them
  timer,       \* the timer thread on this Transaction
  told,        \* what OnDestroy told the game server: who was modified
  answer,      \* what the players were told of the save
  db,          \* pockets in gamedbd's table inventory
  up           \* gdeliveryd runs

desk == <<state, trader, blGenResult, result>>
vars == <<desk, cont, call, timer, told, answer, db, up>>

States == {"SetPossession", "Exchange", "Ready_half", "Ready", "Confirm_half", "Confirm",
           "Init", "Null", "gone"}

\* Mutant: goods may still be changed when both have submitted.
OptionPolicyLate(opt) ==
  CASE state = "SetPossession" -> opt = "SETPSSN"
    [] state \in {"Exchange", "Ready_half", "Ready"} ->
         opt \in {"UPDATEGOODS", "SUBMIT", "CONFIRM", "DISCARD", "MOVEOBJ"}
    [] state = "Confirm_half" -> opt \in {"CONFIRM", "DISCARD"}
    [] OTHER -> FALSE

\* Mutant: a trade may be discarded when both have confirmed.
OptionPolicyDiscard(opt) ==
  CASE state = "SetPossession" -> opt = "SETPSSN"
    [] state \in {"Exchange", "Ready_half"} -> opt \in {"UPDATEGOODS", "SUBMIT", "DISCARD", "MOVEOBJ"}
    [] state \in {"Ready", "Confirm_half"} -> opt \in {"CONFIRM", "DISCARD"}
    [] state = "Confirm" -> opt = "DISCARD"
    [] OTHER -> FALSE

\* The options of the Transaction's state.
OptionPolicy(opt) ==
  CASE state = "SetPossession" -> opt = "SETPSSN"
    [] state \in {"Exchange", "Ready_half"} -> opt \in {"UPDATEGOODS", "SUBMIT", "DISCARD", "MOVEOBJ"}
    [] state \in {"Ready", "Confirm_half"} -> opt \in {"CONFIRM", "DISCARD"}
    [] OTHER -> FALSE

Joined == [state |-> "INIT_HALF", possession |-> Empty, exchg |-> Empty, modified |-> FALSE]

Init ==
  /\ state = "SetPossession"
  /\ trader = [t \in Trader |-> Joined]
  /\ blGenResult = FALSE
  /\ result = [t \in Trader |-> Empty]
  /\ cont = [h \in Handler |-> "idle"]
  /\ call = [h \in Handler |-> NoCall]
  /\ timer = "waiting" /\ told = Untold /\ answer = "none" /\ up = TRUE
  /\ db \in [Trader -> [goods : SUBSET Good, money : Amount]]
  /\ db[Alice].goods \cap db[Bob].goods = {}
  /\ \A t \in Trader : Cardinality(db[t].goods) <= Capacity /\ db[t].money <= MoneyLimit

----------------------------------------------------------------------------
(* The answer to TradeInventory.                                           *)

SetPossession ==
  /\ up /\ OptionPolicy("SETPSSN")
  /\ trader' = [t \in Trader |->
       [trader[t] EXCEPT !.possession = db[t], !.state = "EXCHANGE"]]
  /\ state' = "Exchange"
  /\ UNCHANGED <<blGenResult, result, cont, call, timer, told, answer, db, up>>

\* It says failure, or has not come in time.
InventoryFails ==
  /\ up /\ state = "SetPossession"
  /\ state' = "Null"
  /\ UNCHANGED <<trader, blGenResult, result, cont, call, timer, told, answer, db, up>>

----------------------------------------------------------------------------
(* What the players put up.                                                *)

VerifyGoods(g, p) == g = NoGood \/ g \in p.goods \ Bound

With(p, g) == [p EXCEPT !.goods = @ \cup ({g} \ {NoGood})]
Without(p, g) == [p EXCEPT !.goods = @ \ {g}]
Gain(p, m) == [p EXCEPT !.money = @ + m]
Pay(p, m) == [p EXCEPT !.money = @ - m]

\* Good g and money m of trader t go from one of its sides to the other.
PutUp(t, g, m) ==
  [trader[t] EXCEPT !.possession = Pay(Without(@, g), m), !.exchg = Gain(With(@, g), m)]
TakeBack(t, g, m) ==
  [trader[t] EXCEPT !.exchg = Pay(Without(@, g), m), !.possession = Gain(With(@, g), m)]

\* Both traders have to submit again.
Reopen(t, r) ==
  /\ state' = "Exchange"
  /\ trader' = [[trader EXCEPT ![t] = r] EXCEPT ![Alice].state = "EXCHANGE", ![Bob].state = "EXCHANGE"]

MayUpdate(t, g, m) ==
  /\ up /\ OptionPolicy("UPDATEGOODS")
  /\ g # NoGood \/ m # 0
  /\ trader[t].state # "READY"

\* Mutant: the money is not looked at.
AddExchgObjectUnpaid(t, g, m) ==
  /\ MayUpdate(t, g, m)
  /\ Cardinality(trader[t].exchg.goods) < MaxExchg /\ Capacity > 0
  /\ VerifyGoods(g, trader[t].possession)
  /\ Reopen(t, PutUp(t, g, m))
  /\ UNCHANGED <<blGenResult, result, cont, call, timer, told, answer, db, up>>

AddExchgObject(t, g, m) ==
  /\ MayUpdate(t, g, m)
  /\ Cardinality(trader[t].exchg.goods) < MaxExchg /\ Capacity > 0
  /\ VerifyGoods(g, trader[t].possession)
  /\ IF m <= trader[t].possession.money
     THEN Reopen(t, PutUp(t, g, m))
     ELSE \* the good has been put up when the money is found short
          trader' = [trader EXCEPT ![t] = PutUp(t, g, 0)] /\ UNCHANGED state
  /\ UNCHANGED <<blGenResult, result, cont, call, timer, told, answer, db, up>>

\* Mutant: money is given back without a look at what was put up.
RemoveExchgObjectUnchecked(t, g, m) ==
  /\ MayUpdate(t, g, m)
  /\ VerifyGoods(g, trader[t].exchg)
  /\ Reopen(t, [TakeBack(t, g, 0) EXCEPT !.possession = Gain(@, m)])
  /\ UNCHANGED <<blGenResult, result, cont, call, timer, told, answer, db, up>>

RemoveExchgObject(t, g, m) ==
  /\ MayUpdate(t, g, m)
  /\ VerifyGoods(g, trader[t].exchg)
  /\ IF m <= trader[t].exchg.money
     THEN Reopen(t, TakeBack(t, g, m))
     ELSE trader' = [trader EXCEPT ![t] = TakeBack(t, g, 0)] /\ UNCHANGED state
  /\ UNCHANGED <<blGenResult, result, cont, call, timer, told, answer, db, up>>

MoveObject(t, g) ==
  /\ up /\ OptionPolicy("MOVEOBJ") /\ trader[t].state = "EXCHANGE"
  /\ g # NoGood /\ VerifyGoods(g, trader[t].possession)
  /\ trader' = [trader EXCEPT ![t].modified = TRUE]
  /\ UNCHANGED <<state, blGenResult, result, cont, call, timer, told, answer, db, up>>

----------------------------------------------------------------------------
(* Submission and confirmation.                                            *)

\* What trader t will hold, and whether its pocket takes it.
GenerateResult(t) ==
  [goods |-> trader[t].possession.goods \cup trader[Other(t)].exchg.goods,
   money |-> trader[t].possession.money + trader[Other(t)].exchg.money]
Fits(p) == p.money <= MoneyLimit /\ Cardinality(p.goods) <= Capacity

Submit(t) ==
  /\ up /\ OptionPolicy("SUBMIT")
  /\ LET submitted == [trader EXCEPT ![t].state = "READY"]
         outcome == [u \in Trader |-> GenerateResult(u)]
     IN IF trader[Other(t)].state # "READY"
        THEN /\ state' = "Ready_half" /\ trader' = submitted
             /\ UNCHANGED <<blGenResult, result>>
        ELSE IF \A u \in Trader : Fits(outcome[u])
        THEN /\ state' = "Ready" /\ trader' = submitted
             /\ blGenResult' = TRUE /\ result' = outcome
        ELSE \* what this leaves in result is not read, for blGenResult is false
             /\ Reopen(t, trader[t])
             /\ blGenResult' = FALSE
             /\ result' = IF Fits(outcome[Alice]) THEN [result EXCEPT ![Alice] = outcome[Alice]] ELSE result
  /\ UNCHANGED <<cont, call, timer, told, answer, db, up>>

SomethingUp == \E t \in Trader : trader[t].exchg # Empty

Idle(h) == up /\ cont[h] = "idle" /\ call[h] = NoCall

\* Mutant: one confirmation does for both.
ConfirmAlone(h, t) ==
  /\ Idle(h) /\ OptionPolicy("CONFIRM")
  /\ trader[t].state \in {"READY", "CONFIRM"}
  /\ state' = "Confirm"
  /\ trader' = [u \in Trader |->
       [trader[u] EXCEPT !.state = IF u = t THEN "CONFIRM" ELSE @, !.possession = result[u], !.modified = TRUE]]
  /\ cont' = [cont EXCEPT ![h] = "confirmed"]
  /\ UNCHANGED <<blGenResult, result, call, timer, told, answer, db, up>>

\* In the states that have this option result is filled in.
Confirm(h, t) ==
  /\ Idle(h) /\ OptionPolicy("CONFIRM")
  /\ trader[t].state \in {"READY", "CONFIRM"}
  /\ LET confirmed == [trader EXCEPT ![t].state = "CONFIRM"] IN
     IF trader[Other(t)].state # "CONFIRM"
     THEN /\ state' = "Confirm_half" /\ trader' = confirmed
          /\ UNCHANGED cont
     ELSE /\ state' = "Confirm"
          /\ trader' = IF SomethingUp
                       THEN [u \in Trader |-> [confirmed[u] EXCEPT !.possession = result[u], !.modified = TRUE]]
                       ELSE confirmed
          /\ cont' = [cont EXCEPT ![h] = "confirmed"]
  /\ UNCHANGED <<blGenResult, result, call, timer, told, answer, db, up>>

\* TradeDiscard of a player, GTradeDiscard of the game server ("discarded"),
\* DiscardTransaction when a player's session ends ("rollback").  What was put
\* up fits its owner's pocket again, for it came from there.
Discard(h, next) ==
  /\ Idle(h) /\ OptionPolicy("DISCARD")
  /\ trader' = [t \in Trader |-> [trader[t] EXCEPT
       !.possession = [goods |-> @.goods \cup trader[t].exchg.goods,
                       money |-> @.money + trader[t].exchg.money]]]
  /\ state' = "Init"
  /\ cont' = [cont EXCEPT ![h] = next]
  /\ UNCHANGED <<blGenResult, result, call, timer, told, answer, db, up>>

----------------------------------------------------------------------------
(* Saving: Write2DB, the call, Destroy.                                    *)

NeedSave == \E t \in Trader : trader[t].modified

\* GetExchgResult moves the pockets into the argument of the call; the call
\* is registered before it is sent, and times out if it could not be.
Write2DB(h) ==
  /\ up /\ state # "gone" /\ cont[h] \in {"confirmed", "discarded"}
  /\ trader' = [t \in Trader |-> [trader[t] EXCEPT !.possession.goods = {}]]
  /\ IF NeedSave
     THEN \E sent \in BOOLEAN :
            /\ call' = [call EXCEPT ![h] =
                 [cause |-> cont[h], pocket |-> [t \in Trader |-> trader[t].possession],
                  stage |-> IF sent THEN "sent" ELSE "unsent", waiting |-> TRUE]]
            /\ cont' = [cont EXCEPT ![h] = IF sent THEN "idle" ELSE "destroy"]
            /\ answer' = IF sent THEN answer ELSE "DB_FAILURE"
     ELSE cont' = [cont EXCEPT ![h] = "destroy"] /\ UNCHANGED <<call, answer>>
  /\ UNCHANGED <<state, blGenResult, result, timer, told, db, up>>

DestroyAfter(h) ==
  /\ up /\ state # "gone" /\ cont[h] \in {"destroy", "rollback"}
  /\ state' = "Null"
  /\ trader' = IF cont[h] = "rollback"
               THEN [t \in Trader |-> [trader[t] EXCEPT !.modified = FALSE]] ELSE trader
  /\ cont' = [cont EXCEPT ![h] = "idle"]
  /\ UNCHANGED <<blGenResult, result, call, timer, told, answer, db, up>>

\* A handler goes on with an object the timer thread has released; here the
\* process ends.
UseReleased(h) ==
  /\ up /\ state = "gone" /\ cont[h] # "idle"
  /\ up' = FALSE
  /\ UNCHANGED <<desk, cont, call, timer, told, answer, db>>

Pieces(p, g) == Cardinality({t \in Trader : g \in p[t].goods})

\* TradeSave in gamedbd.
SaveVerified(p) ==
  /\ p[Alice].money + p[Bob].money = db[Alice].money + db[Bob].money
  /\ \A g \in Good : Pieces(p, g) = Pieces(db, g)

DbSave(h) ==
  /\ call[h] # NoCall /\ call[h].stage = "sent"
  /\ SaveVerified(call[h].pocket)
  /\ db' = call[h].pocket
  /\ call' = [call EXCEPT ![h].stage = "saved"]
  /\ UNCHANGED <<desk, cont, timer, told, answer, up>>

\* A row cannot be read or the sums differ.
DbRefuse(h) ==
  /\ call[h] # NoCall /\ call[h].stage = "sent"
  /\ call' = [call EXCEPT ![h].stage = "refused"]
  /\ UNCHANGED <<desk, cont, timer, told, answer, db, up>>

Answered(h, a) ==
  /\ call' = [call EXCEPT ![h].waiting = FALSE]
  /\ IF state = "gone" THEN UNCHANGED <<state, answer>> ELSE state' = "Null" /\ answer' = a
  /\ UNCHANGED <<trader, blGenResult, result, cont, timer, told, db, up>>

SaveClient(h) ==
  /\ up /\ call[h] # NoCall /\ call[h].waiting /\ call[h].stage \in {"saved", "refused"}
  /\ Answered(h, IF call[h].stage = "saved" THEN "DONE" ELSE "DB_FAILURE")

SaveOnTimeout(h) ==
  /\ up /\ call[h] # NoCall /\ call[h].waiting
  /\ Answered(h, "DB_FAILURE")

----------------------------------------------------------------------------
(* The timer thread, once a second.                                        *)

\* Confirm has no time limit; Init has one of 300 s and is left within the
\* 20 s of the call made in it.
Expire ==
  /\ up /\ timer = "waiting" /\ state \notin {"Confirm", "Init", "gone"}
  /\ timer' = "expired"
  /\ UNCHANGED <<desk, cont, call, told, answer, db, up>>

\* GTradeEnd to the game server.
TellOnDestroy ==
  /\ up /\ timer = "expired"
  /\ timer' = "reported"
  /\ told' = IF state = "Init" THEN told ELSE [t \in Trader |-> trader[t].modified]
  /\ UNCHANGED <<desk, cont, call, answer, db, up>>

\* Mutant: the observer is detached but the object is kept.
ReleaseObjectKeeps ==
  /\ up /\ timer = "reported" /\ state # "gone"
  /\ timer' = "waiting"
  /\ UNCHANGED <<desk, cont, call, told, answer, db, up>>

ReleaseObject ==
  /\ up /\ timer = "reported" /\ state # "gone"
  /\ state' = "gone"
  /\ UNCHANGED <<trader, blGenResult, result, cont, call, timer, told, answer, db, up>>

----------------------------------------------------------------------------
Player(t) ==
  \/ \E g \in Good \cup {NoGood}, m \in Amount : AddExchgObject(t, g, m) \/ RemoveExchgObject(t, g, m)
  \/ \E g \in Good : MoveObject(t, g)
  \/ Submit(t)
  \/ \E h \in Handler : Confirm(h, t)

Saving(h) == Write2DB(h) \/ DestroyAfter(h) \/ UseReleased(h)

Timer == TellOnDestroy \/ ReleaseObject

Next ==
  \/ SetPossession \/ InventoryFails
  \/ \E t \in Trader : Player(t)
  \/ \E h \in Handler, next \in {"discarded", "rollback"} : Discard(h, next)
  \/ \E h \in Handler : Saving(h) \/ DbSave(h) \/ DbRefuse(h) \/ SaveClient(h) \/ SaveOnTimeout(h)
  \/ Expire \/ Timer

Spec == Init /\ [][Next]_vars

\* The pool threads and the timer thread run, and a call that is not answered
\* times out.  Nothing is assumed of gamedbd, nor of the players.
Fairness ==
  /\ \A h \in Handler : WF_vars(Saving(h)) /\ WF_vars(SaveOnTimeout(h))
  /\ WF_vars(Timer)
  /\ WF_vars(state = "Null" /\ Expire)

FairSpec == Spec /\ Fairness

----------------------------------------------------------------------------
(* Properties.                                                             *)

\* Type of the state.
TypeOK ==
  /\ state \in States
  /\ trader \in [Trader -> [state : {"INIT_HALF", "EXCHANGE", "READY", "CONFIRM"},
                            possession : Pocket, exchg : Pocket, modified : BOOLEAN]]
  /\ blGenResult \in BOOLEAN
  /\ result \in [Trader -> Pocket]
  /\ cont \in [Handler -> {"idle", "confirmed", "discarded", "rollback", "destroy"}]
  /\ call \in [Handler -> {NoCall} \cup Call]
  /\ timer \in {"waiting", "expired", "reported"}
  /\ told \in {Untold} \cup [Trader -> BOOLEAN]
  /\ answer \in {"none", "DONE", "DB_FAILURE"}
  /\ db \in [Trader -> Pocket]
  /\ up \in BOOLEAN

\* The result computed when the second trader submitted is what a computation
\* at the confirmation would give (blGenResult, trade.cpp:452, :498).
ResultFresh ==
  state \in {"Ready", "Confirm_half"} =>
    blGenResult /\ \A t \in Trader : result[t] = GenerateResult(t) /\ Fits(result[t])

\* Until both have confirmed, what a trader holds and what it put up are
\* together what gamedbd has for it, whichever updates failed half way
\* (trade.cpp:77-133).
Conserved ==
  state \in {"Exchange", "Ready_half", "Ready", "Confirm_half"} =>
    \A t \in Trader :
      /\ trader[t].possession.goods \cap trader[t].exchg.goods = {}
      /\ trader[t].possession.goods \cup trader[t].exchg.goods = db[t].goods
      /\ trader[t].possession.money + trader[t].exchg.money = db[t].money

\* A Transaction is saved by one handler at most: no confirmation races with
\* a discard into two TradeSave calls (tradeconfirm.hpp:32, tradediscard.hpp:33,
\* gtradediscard.hpp:28).
SavedOnce ==
  \A h, i \in Handler : call[h] # NoCall /\ call[i] # NoCall => h = i

\* The trade as the players see it.
Settled == \E h \in Handler :
  call[h] # NoCall /\ call[h].cause = "confirmed" /\ call[h].stage = "saved"
InPlay ==
  \/ state \in {"SetPossession", "Exchange", "Ready_half", "Ready", "Confirm_half"}
  \/ \E h \in Handler :
       \/ cont[h] = "confirmed" /\ state # "gone"
       \/ call[h] # NoCall /\ call[h].cause = "confirmed" /\ call[h].stage = "sent"

Trading == INSTANCE Barter WITH
  NoBid <- Empty,
  pocket <- db,
  bid <- [t \in Trader |-> trader[t].exchg],
  accepted <- {t \in Trader : trader[t].state = "CONFIRM"},
  status <- IF Settled THEN "settled" ELSE IF InPlay THEN "open" ELSE "off"

\* Whatever the order of the players' messages, of the timer and of gamedbd's
\* answers: nothing changes hands but what was put up when the first of the
\* two confirmed, and only when both did.
BarterSpec == Trading!Spec

\* A trade that is confirmed, discarded or destroyed is released, though
\* Confirm has no time limit: gamedbd's answer or the timeout of the call ends
\* it (trade.cpp:57, tradesave.hrp:103).
Closes == state \in {"Confirm", "Init", "Null"} ~> state = "gone" \/ ~up

\* The callback's parameters say of each trader whether it was modified
\* (trade.h:130): the game server reads the pockets of the modified ones again.
ModifiedTold ==
  told # Untold => \A t \in Trader : trader[t].modified => told[t]
=============================================================================
