-------------------------- MODULE TradeDesk_proofs --------------------------
(***************************************************************************)
(* Theorems about TradeDesk, for any goods, sums of money, limits and pool  *)
(* threads.                                                                 *)
(***************************************************************************)
EXTENDS TradeDesk, TLAPS

----------------------------------------------------------------------------
(* The inductive invariant.                                                *)

\* Both confirmations are still to come.
Early == {"SetPossession", "Exchange", "Ready_half", "Ready", "Confirm_half"}

\* What the two Trader objects can be in each of these states.
TradersInStep ==
  /\ state = "SetPossession" =>
       \A t \in Trader : trader[t].state = "INIT_HALF" /\ trader[t].exchg = Empty
  /\ state = "Exchange" => \A t \in Trader : trader[t].state = "EXCHANGE"
  /\ state = "Ready_half" => \A t \in Trader : trader[t].state \in {"EXCHANGE", "READY"}
  /\ state = "Ready" => \A t \in Trader : trader[t].state = "READY"
  /\ state = "Confirm_half" => \A t \in Trader : trader[t].state \in {"READY", "CONFIRM"}

\* A handler that ended the trade and is not done with it, or whose call is
\* on record: there is one at most, and none before the trade is ended.
Busy(h) == cont[h] # "idle" \/ call[h] # NoCall
OneEnds ==
  /\ state \in Early => \A h \in Handler : ~Busy(h)
  /\ \A h, i \in Handler : Busy(h) /\ Busy(i) => h = i
  /\ \A h \in Handler : call[h] # NoCall => cont[h] \in {"idle", "destroy"}

\* Pockets p are what both confirmed.
Exchanged(p) ==
  /\ \A t \in Trader : trader[t].state = "CONFIRM"
  /\ \A t \in Trader : p[t] = Trading!Trade(db[t], trader[t].exchg, trader[Other(t)].exchg)

\* What is about to be saved.
Outcome ==
  \A h \in Handler :
    /\ cont[h] = "discarded" => \A t \in Trader : trader[t].possession = db[t]
    /\ cont[h] = "confirmed" => Exchanged([t \in Trader |-> trader[t].possession])
    /\ call[h] # NoCall /\ call[h].stage = "sent" =>
         IF call[h].cause = "confirmed" THEN Exchanged(call[h].pocket)
                                        ELSE \A t \in Trader : call[h].pocket[t] = db[t]

IInv ==
  /\ TypeOK
  /\ TradersInStep
  /\ Conserved
  /\ ResultFresh
  /\ OneEnds
  /\ Outcome

----------------------------------------------------------------------------
(* The operators on pockets.                                               *)

LEMMA Traders == Alice \in Trader /\ Bob \in Trader /\ \A t \in Trader : Other(t) \in Trader /\ Other(t) # t
BY TradersAssumption DEF Trader, Other

TraderRecord == [state : {"INIT_HALF", "EXCHANGE", "READY", "CONFIRM"},
                 possession : Pocket, exchg : Pocket, modified : BOOLEAN]

\* Taking a good and money out of a pocket, and putting them in.
LEMMA PocketOps ==
  ASSUME NEW p \in Pocket, NEW g \in Good \cup {NoGood}, NEW m \in Nat
  PROVE  /\ Pay(Without(p, g), m) = [goods |-> p.goods \ {g}, money |-> p.money - m]
         /\ Gain(With(p, g), m) = [goods |-> p.goods \cup ({g} \ {NoGood}), money |-> p.money + m]
         /\ m <= p.money => Pay(Without(p, g), m) \in Pocket
         /\ Gain(With(p, g), m) \in Pocket
<1>1. Without(p, g) = [goods |-> p.goods \ {g}, money |-> p.money]
  BY DEF Without, Pocket
<1>2. With(p, g) = [goods |-> p.goods \cup ({g} \ {NoGood}), money |-> p.money]
  BY DEF With, Pocket
<1>3. Pay(Without(p, g), m) = [goods |-> p.goods \ {g}, money |-> p.money - m]
  BY <1>1 DEF Pay
<1>4. Gain(With(p, g), m) = [goods |-> p.goods \cup ({g} \ {NoGood}), money |-> p.money + m]
  BY <1>2 DEF Gain
<1>. QED  BY <1>3, <1>4 DEF Pocket

\* A good and money that are there go from the pocket to what is put up.
LEMMA PutUpMoves ==
  ASSUME TypeOK, NEW t \in Trader, NEW g \in Good \cup {NoGood}, NEW m \in Nat,
         m <= trader[t].possession.money
  PROVE  /\ PutUp(t, g, m) \in TraderRecord
         /\ PutUp(t, g, m).state = trader[t].state
         /\ PutUp(t, g, m).possession =
              [goods |-> trader[t].possession.goods \ {g}, money |-> trader[t].possession.money - m]
         /\ PutUp(t, g, m).exchg =
              [goods |-> trader[t].exchg.goods \cup ({g} \ {NoGood}), money |-> trader[t].exchg.money + m]
<1>1. trader[t] \in TraderRecord
  BY DEF TypeOK, TraderRecord
<1>2. trader[t].possession \in Pocket /\ trader[t].exchg \in Pocket
  BY <1>1 DEF TraderRecord
<1>. DEFINE less == Pay(Without(trader[t].possession, g), m)
            more == Gain(With(trader[t].exchg, g), m)
<1>3. less \in Pocket /\ more \in Pocket
  BY <1>2, PocketOps
<1>4. PutUp(t, g, m) = [trader[t] EXCEPT !.possession = less, !.exchg = more]
  BY DEF PutUp
<1>. HIDE DEF less, more
<1>5. /\ PutUp(t, g, m) \in TraderRecord
      /\ PutUp(t, g, m).state = trader[t].state
      /\ PutUp(t, g, m).possession = less
      /\ PutUp(t, g, m).exchg = more
  BY <1>1, <1>3, <1>4 DEF TraderRecord
<1>. QED  BY <1>2, <1>5, PocketOps DEF less, more

\* And back.
LEMMA TakeBackMoves ==
  ASSUME TypeOK, NEW t \in Trader, NEW g \in Good \cup {NoGood}, NEW m \in Nat,
         m <= trader[t].exchg.money
  PROVE  /\ TakeBack(t, g, m) \in TraderRecord
         /\ TakeBack(t, g, m).state = trader[t].state
         /\ TakeBack(t, g, m).exchg =
              [goods |-> trader[t].exchg.goods \ {g}, money |-> trader[t].exchg.money - m]
         /\ TakeBack(t, g, m).possession =
              [goods |-> trader[t].possession.goods \cup ({g} \ {NoGood}),
               money |-> trader[t].possession.money + m]
<1>1. trader[t] \in TraderRecord
  BY DEF TypeOK, TraderRecord
<1>2. trader[t].possession \in Pocket /\ trader[t].exchg \in Pocket
  BY <1>1 DEF TraderRecord
<1>. DEFINE less == Pay(Without(trader[t].exchg, g), m)
            more == Gain(With(trader[t].possession, g), m)
<1>3. less \in Pocket /\ more \in Pocket
  BY <1>2, PocketOps
<1>4. TakeBack(t, g, m) = [trader[t] EXCEPT !.exchg = less, !.possession = more]
  BY DEF TakeBack
<1>. HIDE DEF less, more
<1>5. /\ TakeBack(t, g, m) \in TraderRecord
      /\ TakeBack(t, g, m).state = trader[t].state
      /\ TakeBack(t, g, m).exchg = less
      /\ TakeBack(t, g, m).possession = more
  BY <1>1, <1>3, <1>4 DEF TraderRecord
<1>. QED  BY <1>2, <1>5, PocketOps DEF less, more

\* What Reopen leaves of the two Trader objects.
LEMMA ReopenTraders ==
  ASSUME TypeOK, NEW t \in Trader, NEW r \in TraderRecord, Reopen(t, r)
  PROVE  /\ trader' \in [Trader -> TraderRecord]
         /\ \A u \in Trader :
              /\ trader'[u].state = "EXCHANGE"
              /\ trader'[u].possession = IF u = t THEN r.possession ELSE trader[u].possession
              /\ trader'[u].exchg = IF u = t THEN r.exchg ELSE trader[u].exchg
<1>1. trader \in [Trader -> TraderRecord]
  BY DEF TypeOK, TraderRecord
<1>. QED  BY <1>1, TradersAssumption DEF Reopen, TraderRecord, Trader

\* A call whose answer has come or timed out is as it was but for that.
LEMMA CallAnswered ==
  ASSUME NEW c \in Call
  PROVE  /\ [c EXCEPT !.waiting = FALSE] \in Call
         /\ [c EXCEPT !.waiting = FALSE].stage = c.stage
         /\ [c EXCEPT !.waiting = FALSE].cause = c.cause
BY DEF Call

LEMMA OutcomeTyped ==
  ASSUME TypeOK, NEW t \in Trader
  PROVE  GenerateResult(t) \in Pocket
<1>1. /\ trader[t].possession \in Pocket
      /\ trader[Other(t)].exchg \in Pocket
  BY Traders DEF TypeOK
<1>. QED  BY <1>1 DEF GenerateResult, Pocket

----------------------------------------------------------------------------
(* Type correctness.                                                       *)

\* A change of what trader t has put up: the new record of t, and whether the
\* change was completed and both have to submit again.
Changed(t, r) ==
  \/ Reopen(t, r)
  \/ trader' = [trader EXCEPT ![t] = r] /\ UNCHANGED state

LEMMA ChangedTraders ==
  ASSUME TypeOK, NEW t \in Trader, NEW r \in TraderRecord, Changed(t, r)
  PROVE  /\ \/ state' = "Exchange" /\ \A u \in Trader : trader'[u].state = "EXCHANGE"
            \/ state' = state /\ \A u \in Trader : trader'[u].state = IF u = t THEN r.state ELSE trader[u].state
         /\ trader' \in [Trader -> TraderRecord]
         /\ \A u \in Trader : trader'[u].possession = IF u = t THEN r.possession ELSE trader[u].possession
         /\ \A u \in Trader : trader'[u].exchg = IF u = t THEN r.exchg ELSE trader[u].exchg
<1>1. CASE Reopen(t, r)
  BY <1>1, ReopenTraders, ZenonT(60) DEF Reopen
<1>2. CASE trader' = [trader EXCEPT ![t] = r] /\ UNCHANGED state
  <2>1. trader \in [Trader -> TraderRecord]
    BY DEF TypeOK, TraderRecord
  <2>. QED  BY <1>2, <2>1
<1>. QED  BY <1>1, <1>2 DEF Changed

\* AddExchgObject and RemoveExchgObject change one trader's record, by PutUp or
\* TakeBack, of money that is there.
LEMMA AddChanges ==
  ASSUME TypeOK, NEW t \in Trader, NEW g \in Good \cup {NoGood}, NEW m \in Amount,
         AddExchgObject(t, g, m)
  PROVE  \E n \in Nat : /\ n <= trader[t].possession.money
                        /\ PutUp(t, g, n) \in TraderRecord
                        /\ Changed(t, PutUp(t, g, n))
<1>. DEFINE n == IF m <= trader[t].possession.money THEN m ELSE 0
<1>1. trader[t].possession.money \in Nat
  BY DEF TypeOK, Pocket
<1>2. n \in Nat /\ n <= trader[t].possession.money
  BY <1>1, MoneyAssumption
<1>3. Changed(t, PutUp(t, g, n))
  BY DEF AddExchgObject, Changed
<1>. HIDE DEF n
<1>4. PutUp(t, g, n) \in TraderRecord
  BY <1>2, PutUpMoves
<1>. QED  BY <1>2, <1>3, <1>4

LEMMA RemoveChanges ==
  ASSUME TypeOK, NEW t \in Trader, NEW g \in Good \cup {NoGood}, NEW m \in Amount,
         RemoveExchgObject(t, g, m)
  PROVE  \E n \in Nat : /\ n <= trader[t].exchg.money
                        /\ TakeBack(t, g, n) \in TraderRecord
                        /\ Changed(t, TakeBack(t, g, n))
<1>. DEFINE n == IF m <= trader[t].exchg.money THEN m ELSE 0
<1>1. trader[t].exchg.money \in Nat
  BY DEF TypeOK, Pocket
<1>2. n \in Nat /\ n <= trader[t].exchg.money
  BY <1>1, MoneyAssumption
<1>3. Changed(t, TakeBack(t, g, n))
  BY DEF RemoveExchgObject, Changed
<1>. HIDE DEF n
<1>4. TakeBack(t, g, n) \in TraderRecord
  BY <1>2, TakeBackMoves
<1>. QED  BY <1>2, <1>3, <1>4

\* The pockets read from gamedbd.
LEMMA SetPossessionTraders ==
  ASSUME TypeOK, SetPossession
  PROVE  \A u \in Trader : /\ trader'[u].state = "EXCHANGE"
                           /\ trader'[u].possession = db[u]
                           /\ trader'[u].exchg = trader[u].exchg
<1>1. trader \in [Trader -> TraderRecord]
  BY DEF TypeOK, TraderRecord
<1>2. trader' = [u \in Trader |-> [trader[u] EXCEPT !.possession = db[u], !.state = "EXCHANGE"]]
  BY DEF SetPossession
<1>. QED  BY <1>1, <1>2 DEF TraderRecord

\* A submission changes the traders' states only.
LEMMA SubmitTraders ==
  ASSUME TypeOK, NEW t \in Trader, Submit(t)
  PROVE  /\ trader' \in [Trader -> TraderRecord]
         /\ \A u \in Trader : /\ trader'[u].possession = trader[u].possession
                              /\ trader'[u].exchg = trader[u].exchg
<1>1. trader \in [Trader -> TraderRecord] /\ trader[t] \in TraderRecord
  BY DEF TypeOK, TraderRecord
<1>2. CASE trader' = [trader EXCEPT ![t].state = "READY"]
  BY <1>1, <1>2 DEF TraderRecord
<1>3. CASE Reopen(t, trader[t])
  BY <1>1, <1>3, ReopenTraders
<1>. QED  BY <1>2, <1>3 DEF Submit

\* A handler that confirms sets the state of its trader and, if it is the
\* second one, puts the results into the pockets.
LEMMA ConfirmTraders ==
  ASSUME TypeOK, NEW h \in Handler, NEW t \in Trader, Confirm(h, t)
  PROVE  /\ trader' \in [Trader -> TraderRecord]
         /\ \A u \in Trader :
              /\ trader'[u].state = IF u = t THEN "CONFIRM" ELSE trader[u].state
              /\ trader'[u].exchg = trader[u].exchg
              /\ trader'[u].possession = IF state' = "Confirm" /\ SomethingUp
                                         THEN result[u] ELSE trader[u].possession
<1>. DEFINE confirmed == [trader EXCEPT ![t].state = "CONFIRM"]
<1>1. trader \in [Trader -> TraderRecord] /\ result \in [Trader -> Pocket]
  BY DEF TypeOK, TraderRecord
<1>2. /\ confirmed \in [Trader -> TraderRecord]
      /\ \A u \in Trader :
           /\ confirmed[u].state = IF u = t THEN "CONFIRM" ELSE trader[u].state
           /\ confirmed[u].exchg = trader[u].exchg
           /\ confirmed[u].possession = trader[u].possession
  BY <1>1 DEF TraderRecord
<1>. HIDE DEF confirmed
<1>3. CASE state' = "Confirm_half"
  BY <1>2, <1>3 DEF Confirm, confirmed
<1>4. CASE state' = "Confirm" /\ ~SomethingUp
  BY <1>2, <1>4 DEF Confirm, confirmed
<1>5. CASE state' = "Confirm" /\ SomethingUp
  <2>1. trader' = [u \in Trader |-> [confirmed[u] EXCEPT !.possession = result[u], !.modified = TRUE]]
    BY <1>5 DEF Confirm, confirmed
  <2>2. /\ trader' \in [Trader -> TraderRecord]
        /\ \A u \in Trader : /\ trader'[u].state = confirmed[u].state
                             /\ trader'[u].exchg = confirmed[u].exchg
                             /\ trader'[u].possession = result[u]
    BY <1>1, <1>2, <2>1, ZenonT(60) DEF TraderRecord
  <2>. QED  BY <1>2, <1>5, <2>2
<1>. QED  BY <1>3, <1>4, <1>5 DEF Confirm

\* A discard puts what was put up back into the pockets.
LEMMA DiscardTraders ==
  ASSUME TypeOK, NEW h \in Handler, NEW next \in {"discarded", "rollback"}, Discard(h, next)
  PROVE  /\ trader' \in [Trader -> TraderRecord]
         /\ \A u \in Trader :
              /\ trader'[u].state = trader[u].state
              /\ trader'[u].exchg = trader[u].exchg
              /\ trader'[u].possession =
                   [goods |-> trader[u].possession.goods \cup trader[u].exchg.goods,
                    money |-> trader[u].possession.money + trader[u].exchg.money]
<1>. DEFINE back(u) == [goods |-> trader[u].possession.goods \cup trader[u].exchg.goods,
                        money |-> trader[u].possession.money + trader[u].exchg.money]
<1>1. trader \in [Trader -> TraderRecord]
  BY DEF TypeOK, TraderRecord
<1>2. ASSUME NEW u \in Trader  PROVE back(u) \in Pocket
  <2>1. trader[u].possession \in Pocket /\ trader[u].exchg \in Pocket
    BY <1>1 DEF TraderRecord
  <2>. QED  BY <2>1 DEF Pocket
<1>3. trader' = [u \in Trader |-> [trader[u] EXCEPT !.possession = back(u)]]
  BY DEF Discard
<1>. HIDE DEF back
<1>4. /\ trader' \in [Trader -> TraderRecord]
      /\ \A u \in Trader : /\ trader'[u].state = trader[u].state
                           /\ trader'[u].exchg = trader[u].exchg
                           /\ trader'[u].possession = back(u)
  BY <1>1, <1>2, <1>3 DEF TraderRecord
<1>. QED  BY <1>4 DEF back

\* Saving takes the goods out of the Trader objects; a call, if there is one,
\* has the pockets as they were.
LEMMA Write2DBTraders ==
  ASSUME TypeOK, NEW h \in Handler, Write2DB(h)
  PROVE  /\ trader' \in [Trader -> TraderRecord]
         /\ \A u \in Trader : /\ trader'[u].state = trader[u].state
                              /\ trader'[u].exchg = trader[u].exchg
<1>1. trader \in [Trader -> TraderRecord]
  BY DEF TypeOK, TraderRecord
<1>2. ASSUME NEW u \in Trader  PROVE [trader[u].possession EXCEPT !.goods = {}] \in Pocket
  <2>1. trader[u].possession \in Pocket
    BY <1>1 DEF TraderRecord
  <2>. QED  BY <2>1 DEF Pocket
<1>3. trader' = [u \in Trader |->
                   [trader[u] EXCEPT !.possession = [trader[u].possession EXCEPT !.goods = {}]]]
  BY DEF Write2DB
<1>. QED  BY <1>1, <1>2, <1>3 DEF TraderRecord

\* The call it makes.
LEMMA Write2DBCall ==
  ASSUME TypeOK, NEW h \in Handler, Write2DB(h)
  PROVE  \/ UNCHANGED call /\ cont' = [cont EXCEPT ![h] = "destroy"]
         \/ \E c \in Call :
              /\ call' = [call EXCEPT ![h] = c]
              /\ c.cause = cont[h]
              /\ c.pocket = [t \in Trader |-> trader[t].possession]
              /\ \/ c.stage = "sent" /\ cont' = [cont EXCEPT ![h] = "idle"]
                 \/ c.stage = "unsent" /\ cont' = [cont EXCEPT ![h] = "destroy"]
<1>1. CASE ~NeedSave
  BY <1>1 DEF Write2DB
<1>2. CASE NeedSave
  <2>1. PICK sent \in BOOLEAN :
          /\ call' = [call EXCEPT ![h] =
               [cause |-> cont[h], pocket |-> [t \in Trader |-> trader[t].possession],
                stage |-> IF sent THEN "sent" ELSE "unsent", waiting |-> TRUE]]
          /\ cont' = [cont EXCEPT ![h] = IF sent THEN "idle" ELSE "destroy"]
    BY <1>2 DEF Write2DB
  <2>. DEFINE c == [cause |-> cont[h], pocket |-> [t \in Trader |-> trader[t].possession],
                    stage |-> IF sent THEN "sent" ELSE "unsent", waiting |-> TRUE]
  <2>2. [t \in Trader |-> trader[t].possession] \in [Trader -> Pocket]
    BY DEF TypeOK
  <2>3. cont[h] \in {"confirmed", "discarded"}
    BY DEF Write2DB
  <2>4. c \in Call
    BY <2>2, <2>3 DEF Call
  <2>. QED  BY <2>1, <2>4
<1>. QED  BY <1>1, <1>2

LEMMA TypeStep ==
  ASSUME TypeOK, [Next]_vars
  PROVE  TypeOK'
<1>1. CASE SetPossession
  BY <1>1 DEF SetPossession, TypeOK, States, desk
<1>2. CASE InventoryFails
  BY <1>2 DEF InventoryFails, TypeOK, States
<1>3. ASSUME NEW t \in Trader, NEW g \in Good \cup {NoGood}, NEW m \in Amount,
             AddExchgObject(t, g, m)
      PROVE TypeOK'
  <2>1. trader' \in [Trader -> TraderRecord] /\ state' \in States
    BY <1>3, AddChanges, ChangedTraders DEF TypeOK, States
  <2>. QED  BY <1>3, <2>1 DEF AddExchgObject, TypeOK, TraderRecord
<1>4. ASSUME NEW t \in Trader, NEW g \in Good \cup {NoGood}, NEW m \in Amount,
             RemoveExchgObject(t, g, m)
      PROVE TypeOK'
  <2>1. trader' \in [Trader -> TraderRecord] /\ state' \in States
    BY <1>4, RemoveChanges, ChangedTraders DEF TypeOK, States
  <2>. QED  BY <1>4, <2>1 DEF RemoveExchgObject, TypeOK, TraderRecord
<1>5. ASSUME NEW t \in Trader, NEW g \in Good, MoveObject(t, g)  PROVE TypeOK'
  BY <1>5 DEF MoveObject, TypeOK
<1>6. ASSUME NEW t \in Trader, Submit(t)  PROVE TypeOK'
  <2>. DEFINE outcome == [u \in Trader |-> GenerateResult(u)]
  <2>1. outcome \in [Trader -> Pocket]
    BY OutcomeTyped
  <2>2. trader[t] \in TraderRecord
    BY DEF TypeOK, TraderRecord
  <2>3. trader' \in [Trader -> TraderRecord] /\ state' \in States
    <3>1. CASE trader' = [trader EXCEPT ![t].state = "READY"] /\ state' \in States
      BY <3>1 DEF TypeOK, TraderRecord
    <3>2. CASE Reopen(t, trader[t])
      BY <2>2, <3>2, ReopenTraders DEF Reopen, States
    <3>. QED  BY <1>6, <3>1, <3>2 DEF Submit, States
  <2>4. result' \in [Trader -> Pocket] /\ blGenResult' \in BOOLEAN
    <3>. HIDE DEF outcome
    <3>1. result' \in {result, outcome, [result EXCEPT ![Alice] = outcome[Alice]]}
      BY <1>6 DEF Submit, outcome
    <3>2. blGenResult' \in BOOLEAN
      BY <1>6 DEF Submit, TypeOK
    <3>. QED  BY <2>1, <3>1, <3>2, Traders DEF TypeOK
  <2>. QED  BY <1>6, <2>3, <2>4 DEF Submit, TypeOK, TraderRecord
<1>7. ASSUME NEW h \in Handler, NEW t \in Trader, Confirm(h, t)  PROVE TypeOK'
  <2>1. trader' \in [Trader -> TraderRecord]
    BY <1>7, ConfirmTraders
  <2>. QED  BY <1>7, <2>1 DEF Confirm, TypeOK, TraderRecord, States
<1>8. ASSUME NEW h \in Handler, NEW next \in {"discarded", "rollback"}, Discard(h, next)
      PROVE TypeOK'
  <2>1. trader' \in [Trader -> TraderRecord]
    BY <1>8, DiscardTraders
  <2>. QED  BY <1>8, <2>1 DEF Discard, TypeOK, TraderRecord, States
<1>9. ASSUME NEW h \in Handler, Write2DB(h)  PROVE TypeOK'
  <2>1. trader' \in [Trader -> TraderRecord]
    BY <1>9, Write2DBTraders
  <2>2. call' \in [Handler -> {NoCall} \cup Call]
    <3>1. call \in [Handler -> {NoCall} \cup Call]
      BY DEF TypeOK
    <3>. QED  BY <1>9, <3>1, Write2DBCall
  <2>. QED  BY <1>9, <2>1, <2>2 DEF Write2DB, TypeOK, TraderRecord
<1>10. ASSUME NEW h \in Handler, DestroyAfter(h)  PROVE TypeOK'
  BY <1>10 DEF DestroyAfter, TypeOK, States
<1>11. ASSUME NEW h \in Handler, UseReleased(h)  PROVE TypeOK'
  BY <1>11 DEF UseReleased, TypeOK, desk
<1>12. ASSUME NEW h \in Handler, DbSave(h)  PROVE TypeOK'
  BY <1>12 DEF DbSave, TypeOK, desk, Call
<1>13. ASSUME NEW h \in Handler, DbRefuse(h)  PROVE TypeOK'
  BY <1>13 DEF DbRefuse, TypeOK, desk, Call
<1>14. ASSUME NEW h \in Handler, SaveClient(h) \/ SaveOnTimeout(h)  PROVE TypeOK'
  <2>1. call[h] \in Call /\ call' = [call EXCEPT ![h].waiting = FALSE]
    BY <1>14 DEF SaveClient, SaveOnTimeout, Answered, TypeOK
  <2>2. call' \in [Handler -> {NoCall} \cup Call]
    BY <2>1 DEF TypeOK, Call
  <2>3. state' \in States /\ answer' \in {"none", "DONE", "DB_FAILURE"}
    BY <1>14 DEF SaveClient, SaveOnTimeout, Answered, TypeOK, States
  <2>. QED  BY <1>14, <2>2, <2>3 DEF SaveClient, SaveOnTimeout, Answered, TypeOK
<1>15. CASE Expire \/ Timer
  BY <1>15 DEF Expire, Timer, TellOnDestroy, ReleaseObject, desk, TypeOK, States
<1>16. CASE UNCHANGED vars
  BY <1>16 DEF vars, desk, TypeOK
<1>. QED
  BY <1>1, <1>2, <1>3, <1>4, <1>5, <1>6, <1>7, <1>8, <1>9, <1>10, <1>11, <1>12, <1>13, <1>14,
     <1>15, <1>16 DEF Next, Player, Saving

----------------------------------------------------------------------------
(* The inductive invariant is preserved by every step.                     *)

LEMMA InitIInv == Init => IInv
<1>. SUFFICES ASSUME Init  PROVE IInv
  OBVIOUS
<1>1. Empty \in Pocket
  BY DEF Empty, Pocket
<1>2. TypeOK
  <2>1. trader \in [Trader -> TraderRecord]
    BY <1>1 DEF Init, Joined, TraderRecord
  <2>2. db \in [Trader -> Pocket]
    BY MoneyAssumption DEF Init, Pocket
  <2>. QED  BY <1>1, <2>1, <2>2 DEF Init, TypeOK, States, TraderRecord
<1>. QED
  BY <1>2 DEF Init, IInv, TradersInStep, Joined, Conserved, ResultFresh, OneEnds, Early, Busy, Outcome

\* A handler may end the trade only from states in which none has.
LEMMA EndsStep ==
  ASSUME TypeOK, OneEnds, [Next]_vars
  PROVE  OneEnds'
<1>. USE DEF OneEnds, Busy, Early
<1>0. /\ cont \in [Handler -> {"idle", "confirmed", "discarded", "rollback", "destroy"}]
      /\ call \in [Handler -> {NoCall} \cup Call]
      /\ state \in States
  BY DEF TypeOK
<1>. USE <1>0
<1>1. CASE SetPossession \/ InventoryFails
  BY <1>1 DEF SetPossession, InventoryFails, OptionPolicy
<1>2. ASSUME NEW t \in Trader, NEW g \in Good \cup {NoGood}, NEW m \in Amount,
             AddExchgObject(t, g, m) \/ RemoveExchgObject(t, g, m)
      PROVE OneEnds'
  <2>1. state' \in {state, "Exchange"} /\ state \in Early /\ UNCHANGED <<cont, call>>
    BY <1>2 DEF AddExchgObject, RemoveExchgObject, MayUpdate, OptionPolicy, Reopen
  <2>. QED  BY <2>1
<1>3. ASSUME NEW t \in Trader, Submit(t)  PROVE OneEnds'
  <2>1. state' \in Early /\ state \in Early /\ UNCHANGED <<cont, call>>
    BY <1>3 DEF Submit, OptionPolicy, Reopen
  <2>. QED  BY <2>1
<1>4. ASSUME NEW h \in Handler, NEW t \in Trader, Confirm(h, t)  PROVE OneEnds'
  <2>1. state \in Early /\ UNCHANGED call
    BY <1>4 DEF Confirm, OptionPolicy
  <2>2. \/ state' = "Confirm_half" /\ UNCHANGED cont
        \/ state' = "Confirm" /\ cont' = [cont EXCEPT ![h] = "confirmed"]
    BY <1>4 DEF Confirm
  <2>. QED  BY <2>1, <2>2
<1>5. ASSUME NEW h \in Handler, NEW next \in {"discarded", "rollback"}, Discard(h, next)
      PROVE OneEnds'
  <2>1. state \in Early /\ UNCHANGED call /\ state' = "Init" /\ cont' = [cont EXCEPT ![h] = next]
    BY <1>5 DEF Discard, OptionPolicy
  <2>. QED  BY <2>1
<1>6. ASSUME NEW h \in Handler, Write2DB(h)  PROVE OneEnds'
  <2>1. cont[h] # "idle" /\ UNCHANGED state
    BY <1>6 DEF Write2DB
  <2>2. \E c \in {NoCall} \cup Call, k \in {"idle", "destroy"} :
          /\ \/ call' = [call EXCEPT ![h] = c]
             \/ UNCHANGED call /\ k = "destroy"
          /\ cont' = [cont EXCEPT ![h] = k]
    BY <1>6, Write2DBCall
  <2>. QED  BY <2>1, <2>2
<1>7. ASSUME NEW h \in Handler, DestroyAfter(h)  PROVE OneEnds'
  BY <1>7 DEF DestroyAfter
<1>8. ASSUME NEW h \in Handler, UseReleased(h)  PROVE OneEnds'
  BY <1>8 DEF UseReleased, desk
<1>9. ASSUME NEW h \in Handler, DbSave(h) \/ DbRefuse(h)  PROVE OneEnds'
  <2>1. /\ UNCHANGED <<state, cont>> /\ call[h] # NoCall
        /\ \A i \in Handler : i # h => call'[i] = call[i]
    BY <1>9 DEF DbSave, DbRefuse, desk
  <2>. QED  BY <2>1
<1>10. ASSUME NEW h \in Handler, SaveClient(h) \/ SaveOnTimeout(h)  PROVE OneEnds'
  <2>1. /\ state' \in {state, "Null"} /\ UNCHANGED cont /\ call[h] # NoCall
        /\ \A i \in Handler : i # h => call'[i] = call[i]
    BY <1>10 DEF SaveClient, SaveOnTimeout, Answered
  <2>. QED  BY <2>1
<1>11. CASE Expire \/ Timer
  BY <1>11 DEF Expire, Timer, TellOnDestroy, ReleaseObject, desk
<1>12. ASSUME NEW t \in Trader, NEW g \in Good, MoveObject(t, g)  PROVE OneEnds'
  BY <1>12 DEF MoveObject
<1>13. CASE UNCHANGED vars
  BY <1>13 DEF vars, desk
<1>. QED
  BY <1>1, <1>2, <1>3, <1>4, <1>5, <1>6, <1>7, <1>8, <1>9, <1>10, <1>11, <1>12, <1>13
     DEF Next, Player, Saving

\* The Trader objects keep step with the state.
LEMMA TradersStep ==
  ASSUME TypeOK, OneEnds, TradersInStep, [Next]_vars
  PROVE  TradersInStep'
<1>. USE DEF TradersInStep
<1>0. trader \in [Trader -> TraderRecord] /\ state \in States
  BY DEF TypeOK, TraderRecord
<1>1. CASE SetPossession \/ InventoryFails
  BY <1>1, SetPossessionTraders DEF SetPossession, InventoryFails
<1>2. ASSUME NEW t \in Trader, NEW g \in Good \cup {NoGood}, NEW m \in Amount,
             AddExchgObject(t, g, m) \/ RemoveExchgObject(t, g, m)
      PROVE TradersInStep'
  <2>1. PICK r \in TraderRecord : Changed(t, r) /\ r.state = trader[t].state
    BY <1>2, AddChanges, RemoveChanges, PutUpMoves, TakeBackMoves, ZenonT(60)
  <2>2. state \in {"Exchange", "Ready_half"}
    BY <1>2 DEF AddExchgObject, RemoveExchgObject, MayUpdate, OptionPolicy
  <2>3. \/ state' = "Exchange" /\ \A u \in Trader : trader'[u].state = "EXCHANGE"
        \/ state' = state /\ \A u \in Trader : trader'[u].state = trader[u].state
    BY <2>1, ChangedTraders
  <2>. QED  BY <2>2, <2>3
<1>3. ASSUME NEW t \in Trader, Submit(t)  PROVE TradersInStep'
  <2>1. state \in {"Exchange", "Ready_half"}
    BY <1>3 DEF Submit, OptionPolicy
  <2>2. CASE Reopen(t, trader[t])
    <3>1. trader[t] \in TraderRecord
      BY <1>0
    <3>2. state' = "Exchange" /\ \A u \in Trader : trader'[u].state = "EXCHANGE"
      BY <2>2, <3>1, ReopenTraders DEF Reopen
    <3>. QED  BY <3>2
  <2>3. CASE /\ trader' = [trader EXCEPT ![t].state = "READY"]
             /\ IF trader[Other(t)].state # "READY" THEN state' = "Ready_half" ELSE state' = "Ready"
    <3>1. \A u \in Trader : trader'[u].state = IF u = t THEN "READY" ELSE trader[u].state
      BY <1>0, <2>3 DEF TraderRecord
    <3>2. \A u \in Trader : u = t \/ u = Other(t)
      BY DEF Trader, Other
    <3>. QED  BY <2>1, <2>3, <3>1, <3>2
  <2>. QED  BY <1>3, <2>2, <2>3 DEF Submit
<1>4. ASSUME NEW h \in Handler, NEW t \in Trader, Confirm(h, t)  PROVE TradersInStep'
  <2>1. /\ state \in {"Ready", "Confirm_half"}
        /\ state' \in {"Confirm_half", "Confirm"}
    BY <1>4 DEF Confirm, OptionPolicy
  <2>2. \A u \in Trader : trader'[u].state = IF u = t THEN "CONFIRM" ELSE trader[u].state
    BY <1>4, ConfirmTraders
  <2>. QED  BY <2>1, <2>2
<1>5. ASSUME NEW h \in Handler, NEW next \in {"discarded", "rollback"}, Discard(h, next)
      PROVE TradersInStep'
  BY <1>5 DEF Discard
<1>6. ASSUME NEW h \in Handler, Write2DB(h)  PROVE TradersInStep'
  BY <1>6, Write2DBTraders DEF Write2DB, OneEnds, Early, Busy
<1>7. ASSUME NEW h \in Handler, DestroyAfter(h)  PROVE TradersInStep'
  BY <1>7 DEF DestroyAfter
<1>8. ASSUME NEW h \in Handler, UseReleased(h) \/ DbSave(h) \/ DbRefuse(h)  PROVE TradersInStep'
  BY <1>8 DEF UseReleased, DbSave, DbRefuse, desk
<1>9. ASSUME NEW h \in Handler, SaveClient(h) \/ SaveOnTimeout(h)  PROVE TradersInStep'
  BY <1>9 DEF SaveClient, SaveOnTimeout, Answered
<1>10. CASE Expire \/ Timer
  BY <1>10 DEF Expire, Timer, TellOnDestroy, ReleaseObject, desk
<1>11. ASSUME NEW t \in Trader, NEW g \in Good, MoveObject(t, g)  PROVE TradersInStep'
  <2>1. UNCHANGED state /\ \A u \in Trader : trader'[u].state = trader[u].state /\ trader'[u].exchg = trader[u].exchg
    BY <1>0, <1>11 DEF MoveObject, TraderRecord
  <2>. QED  BY <2>1
<1>12. CASE UNCHANGED vars
  BY <1>12 DEF vars, desk
<1>. QED
  BY <1>1, <1>2, <1>3, <1>4, <1>5, <1>6, <1>7, <1>8, <1>9, <1>10, <1>11, <1>12
     DEF Next, Player, Saving

\* What a trader holds and has put up stays together what gamedbd has for it.
LEMMA ConservedStep ==
  ASSUME TypeOK, OneEnds, TradersInStep, Conserved, [Next]_vars
  PROVE  Conserved'
<1>. DEFINE Whole(t) ==
       /\ trader[t].possession.goods \cap trader[t].exchg.goods = {}
       /\ trader[t].possession.goods \cup trader[t].exchg.goods = db[t].goods
       /\ trader[t].possession.money + trader[t].exchg.money = db[t].money
<1>0. /\ trader \in [Trader -> TraderRecord] /\ state \in States
      /\ db \in [Trader -> Pocket]
      /\ \A t \in Trader : trader[t].possession \in Pocket /\ trader[t].exchg \in Pocket
  BY DEF TypeOK, TraderRecord
<1>a. state \in Early \ {"SetPossession"} => \A t \in Trader : Whole(t)
  BY DEF Conserved, Early
<1>b. ASSUME UNCHANGED db, \A t \in Trader : /\ trader'[t].possession = trader[t].possession
                                            /\ trader'[t].exchg = trader[t].exchg,
             state' \in Early => state \in Early \ {"SetPossession"}
      PROVE Conserved'
  BY <1>b, <1>a DEF Conserved, Early
<1>1. CASE SetPossession \/ InventoryFails
  <2>1. ASSUME SetPossession, NEW t \in Trader  PROVE Whole(t)'
    <3>1. trader'[t].possession = db[t] /\ trader'[t].exchg = Empty /\ UNCHANGED db
      BY <2>1, SetPossessionTraders DEF SetPossession, OptionPolicy, TradersInStep
    <3>2. db[t] \in Pocket
      BY <1>0
    <3>. QED  BY <3>1, <3>2 DEF Empty, Pocket
  <2>. QED  BY <1>1, <2>1 DEF InventoryFails, Conserved
<1>2. ASSUME NEW t \in Trader, NEW g \in Good \cup {NoGood}, NEW m \in Amount,
             AddExchgObject(t, g, m)
      PROVE Conserved'
  <2>1. PICK n \in Nat : /\ n <= trader[t].possession.money
                         /\ PutUp(t, g, n) \in TraderRecord
                         /\ Changed(t, PutUp(t, g, n))
    BY <1>2, AddChanges
  <2>2. /\ UNCHANGED db /\ state \in {"Exchange", "Ready_half"}
        /\ g = NoGood \/ g \in trader[t].possession.goods
    BY <1>2 DEF AddExchgObject, MayUpdate, OptionPolicy, VerifyGoods
  <2>3. ASSUME NEW u \in Trader  PROVE Whole(u)'
    <3>1. Whole(u)
      BY <1>a, <2>2 DEF Early
    <3>2. CASE u = t
      <4>1. /\ trader'[u].possession =
                 [goods |-> trader[t].possession.goods \ {g}, money |-> trader[t].possession.money - n]
            /\ trader'[u].exchg =
                 [goods |-> trader[t].exchg.goods \cup ({g} \ {NoGood}), money |-> trader[t].exchg.money + n]
        <5>1. /\ trader'[u].possession = PutUp(t, g, n).possession
              /\ trader'[u].exchg = PutUp(t, g, n).exchg
          BY <2>1, <3>2, ChangedTraders
        <5>. QED  BY <2>1, <5>1, PutUpMoves
      <4>2. trader[u].possession \in Pocket /\ trader[u].exchg \in Pocket
        BY <1>0
      <4>. QED  BY <2>2, <3>1, <3>2, <4>1, <4>2, GoodsAssumption DEF Pocket
    <3>3. CASE u # t
      BY <2>1, <2>2, <3>1, <3>3, ChangedTraders
    <3>. QED  BY <3>2, <3>3
  <2>. QED  BY <2>3 DEF Conserved
<1>3. ASSUME NEW t \in Trader, NEW g \in Good \cup {NoGood}, NEW m \in Amount,
             RemoveExchgObject(t, g, m)
      PROVE Conserved'
  <2>1. PICK n \in Nat : /\ n <= trader[t].exchg.money
                         /\ TakeBack(t, g, n) \in TraderRecord
                         /\ Changed(t, TakeBack(t, g, n))
    BY <1>3, RemoveChanges
  <2>2. /\ UNCHANGED db /\ state \in {"Exchange", "Ready_half"}
        /\ g = NoGood \/ g \in trader[t].exchg.goods
    BY <1>3 DEF RemoveExchgObject, MayUpdate, OptionPolicy, VerifyGoods
  <2>3. ASSUME NEW u \in Trader  PROVE Whole(u)'
    <3>1. Whole(u)
      BY <1>a, <2>2 DEF Early
    <3>2. CASE u = t
      <4>1. /\ trader'[u].exchg =
                 [goods |-> trader[t].exchg.goods \ {g}, money |-> trader[t].exchg.money - n]
            /\ trader'[u].possession =
                 [goods |-> trader[t].possession.goods \cup ({g} \ {NoGood}),
                  money |-> trader[t].possession.money + n]
        <5>1. /\ trader'[u].possession = TakeBack(t, g, n).possession
              /\ trader'[u].exchg = TakeBack(t, g, n).exchg
          BY <2>1, <3>2, ChangedTraders
        <5>. QED  BY <2>1, <5>1, TakeBackMoves
      <4>2. trader[u].possession \in Pocket /\ trader[u].exchg \in Pocket
        BY <1>0
      <4>. QED  BY <2>2, <3>1, <3>2, <4>1, <4>2, GoodsAssumption DEF Pocket
    <3>3. CASE u # t
      BY <2>1, <2>2, <3>1, <3>3, ChangedTraders
    <3>. QED  BY <3>2, <3>3
  <2>. QED  BY <2>3 DEF Conserved
<1>4. ASSUME NEW t \in Trader, Submit(t)  PROVE Conserved'
  <2>1. state \in {"Exchange", "Ready_half"} /\ UNCHANGED db
    BY <1>4 DEF Submit, OptionPolicy
  <2>2. \A u \in Trader : /\ trader'[u].possession = trader[u].possession
                          /\ trader'[u].exchg = trader[u].exchg
    BY <1>4, SubmitTraders
  <2>. QED  BY <1>b, <2>1, <2>2 DEF Early
<1>5. ASSUME NEW h \in Handler, NEW t \in Trader, Confirm(h, t)  PROVE Conserved'
  <2>1. state \in {"Ready", "Confirm_half"} /\ UNCHANGED db
    BY <1>5 DEF Confirm, OptionPolicy
  <2>2. CASE state' = "Confirm_half"
    BY <1>5, <1>b, <2>1, <2>2, ConfirmTraders DEF Early
  <2>3. CASE state' = "Confirm"
    BY <2>3 DEF Conserved
  <2>. QED  BY <1>5, <2>2, <2>3 DEF Confirm
<1>6. ASSUME NEW h \in Handler, NEW next \in {"discarded", "rollback"}, Discard(h, next)
      PROVE Conserved'
  BY <1>6 DEF Discard, Conserved
<1>7. ASSUME NEW h \in Handler, Write2DB(h)  PROVE Conserved'
  BY <1>7 DEF Write2DB, OneEnds, Early, Busy, Conserved
<1>8. ASSUME NEW h \in Handler, DestroyAfter(h)  PROVE Conserved'
  BY <1>8 DEF DestroyAfter, Conserved
<1>9. ASSUME NEW h \in Handler, UseReleased(h) \/ DbRefuse(h)  PROVE Conserved'
  BY <1>9 DEF UseReleased, DbRefuse, desk, Conserved
<1>10. ASSUME NEW h \in Handler, DbSave(h)  PROVE Conserved'
  BY <1>10 DEF DbSave, desk, OneEnds, Early, Busy, Conserved
<1>11. ASSUME NEW h \in Handler, SaveClient(h) \/ SaveOnTimeout(h)  PROVE Conserved'
  BY <1>11 DEF SaveClient, SaveOnTimeout, Answered, Conserved
<1>12. CASE Expire \/ Timer
  BY <1>12 DEF Expire, Timer, TellOnDestroy, ReleaseObject, desk, Conserved
<1>13. ASSUME NEW t \in Trader, NEW g \in Good, MoveObject(t, g)  PROVE Conserved'
  <2>1. state \in {"Exchange", "Ready_half"} /\ UNCHANGED <<state, db>>
    BY <1>13 DEF MoveObject, OptionPolicy
  <2>2. \A u \in Trader : /\ trader'[u].possession = trader[u].possession
                          /\ trader'[u].exchg = trader[u].exchg
    BY <1>0, <1>13 DEF MoveObject, TraderRecord
  <2>. QED  BY <1>b, <2>1, <2>2 DEF Early
<1>14. CASE UNCHANGED vars
  BY <1>14 DEF vars, desk, Conserved
<1>. QED
  BY <1>1, <1>2, <1>3, <1>4, <1>5, <1>6, <1>7, <1>8, <1>9, <1>10, <1>11, <1>12, <1>13, <1>14
     DEF Next, Player, Saving

\* The result is computed when both have submitted, and nothing it is computed
\* from changes until both have confirmed.
LEMMA FreshStep ==
  ASSUME TypeOK, OneEnds, ResultFresh, [Next]_vars
  PROVE  ResultFresh'
<1>0. trader \in [Trader -> TraderRecord] /\ state \in States
  BY DEF TypeOK, TraderRecord
<1>a. ASSUME UNCHANGED <<blGenResult, result>>,
             \A t \in Trader : /\ trader'[t].possession = trader[t].possession
                               /\ trader'[t].exchg = trader[t].exchg,
             state' \in {"Ready", "Confirm_half"} => state \in {"Ready", "Confirm_half"}
      PROVE ResultFresh'
  <2>1. \A t \in Trader : GenerateResult(t)' = GenerateResult(t)
    BY <1>a, Traders DEF GenerateResult
  <2>. QED  BY <1>a, <2>1 DEF ResultFresh, Fits
<1>1. CASE SetPossession \/ InventoryFails
  BY <1>1 DEF SetPossession, InventoryFails, ResultFresh
<1>2. ASSUME NEW t \in Trader, NEW g \in Good \cup {NoGood}, NEW m \in Amount,
             AddExchgObject(t, g, m) \/ RemoveExchgObject(t, g, m)
      PROVE ResultFresh'
  BY <1>2 DEF AddExchgObject, RemoveExchgObject, MayUpdate, OptionPolicy, Reopen, ResultFresh
<1>3. ASSUME NEW t \in Trader, Submit(t)  PROVE ResultFresh'
  <2>1. CASE state' = "Ready"
    <3>1. /\ blGenResult' = TRUE /\ result' = [u \in Trader |-> GenerateResult(u)]
          /\ \A u \in Trader : Fits([v \in Trader |-> GenerateResult(v)][u])
      BY <1>3, <2>1 DEF Submit, Reopen
    <3>2. \A u \in Trader : GenerateResult(u)' = GenerateResult(u)
      BY <1>3, SubmitTraders, Traders DEF GenerateResult
    <3>. QED  BY <3>1, <3>2 DEF ResultFresh, Fits
  <2>2. CASE state' # "Ready"
    BY <1>3, <2>2 DEF Submit, Reopen, ResultFresh
  <2>. QED  BY <2>1, <2>2
<1>4. ASSUME NEW h \in Handler, NEW t \in Trader, Confirm(h, t)  PROVE ResultFresh'
  <2>1. CASE state' = "Confirm_half"
    <3>1. state \in {"Ready", "Confirm_half"} /\ UNCHANGED <<blGenResult, result>>
      BY <1>4 DEF Confirm, OptionPolicy
    <3>. QED  BY <1>4, <1>a, <2>1, <3>1, ConfirmTraders
  <2>2. CASE state' = "Confirm"
    BY <2>2 DEF ResultFresh
  <2>. QED  BY <1>4, <2>1, <2>2 DEF Confirm
<1>5. ASSUME NEW h \in Handler, NEW next \in {"discarded", "rollback"}, Discard(h, next)
      PROVE ResultFresh'
  BY <1>5 DEF Discard, ResultFresh
<1>6. ASSUME NEW h \in Handler, Write2DB(h)  PROVE ResultFresh'
  BY <1>6 DEF Write2DB, OneEnds, Early, Busy, ResultFresh
<1>7. ASSUME NEW h \in Handler, DestroyAfter(h)  PROVE ResultFresh'
  BY <1>7 DEF DestroyAfter, ResultFresh
<1>8. ASSUME NEW h \in Handler, UseReleased(h) \/ DbSave(h) \/ DbRefuse(h)  PROVE ResultFresh'
  BY <1>8, <1>a DEF UseReleased, DbSave, DbRefuse, desk
<1>9. ASSUME NEW h \in Handler, SaveClient(h) \/ SaveOnTimeout(h)  PROVE ResultFresh'
  BY <1>9 DEF SaveClient, SaveOnTimeout, Answered, ResultFresh
<1>10. CASE Expire \/ Timer
  BY <1>10, <1>a DEF Expire, Timer, TellOnDestroy, ReleaseObject, desk
<1>11. ASSUME NEW t \in Trader, NEW g \in Good, MoveObject(t, g)  PROVE ResultFresh'
  <2>1. \A u \in Trader : /\ trader'[u].possession = trader[u].possession
                          /\ trader'[u].exchg = trader[u].exchg
    BY <1>0, <1>11 DEF MoveObject, TraderRecord
  <2>. QED  BY <1>11, <1>a, <2>1 DEF MoveObject
<1>12. CASE UNCHANGED vars
  BY <1>12, <1>a DEF vars, desk
<1>. QED
  BY <1>1, <1>2, <1>3, <1>4, <1>5, <1>6, <1>7, <1>8, <1>9, <1>10, <1>11, <1>12
     DEF Next, Player, Saving

\* What the pockets say when both have confirmed is the exchange of what they
\* put up, and when the trade was discarded, what they had.
LEMMA OutcomeStep ==
  ASSUME TypeOK, TradersInStep, TradersInStep', Conserved, ResultFresh, OneEnds, OneEnds',
         Outcome, [Next]_vars
  PROVE  Outcome'
<1>0. /\ trader \in [Trader -> TraderRecord] /\ state \in States
      /\ cont \in [Handler -> {"idle", "confirmed", "discarded", "rollback", "destroy"}]
      /\ call \in [Handler -> {NoCall} \cup Call]
      /\ db \in [Trader -> Pocket]
      /\ \A t \in Trader : trader[t].possession \in Pocket /\ trader[t].exchg \in Pocket
  BY DEF TypeOK, TraderRecord
\* As long as no handler has ended the trade there is nothing to show.
<1>a. ASSUME state \in Early, UNCHANGED <<cont, call>>  PROVE Outcome'
  BY <1>a DEF OneEnds, Busy, Outcome
\* Nor in steps that leave the pockets and the rows alone.
<1>b. ASSUME UNCHANGED <<trader, db>>,
             \A h \in Handler : cont'[h] \in {"confirmed", "discarded"} => cont'[h] = cont[h],
             \A h \in Handler : call'[h] # NoCall /\ call'[h].stage = "sent" =>
                                  call[h] # NoCall /\ call[h].stage = "sent"
                                  /\ call'[h].cause = call[h].cause /\ call'[h].pocket = call[h].pocket
      PROVE Outcome'
  BY <1>b DEF Outcome, Exchanged, Trading!Trade
<1>1. CASE SetPossession \/ InventoryFails
  BY <1>1, <1>a DEF SetPossession, InventoryFails, OptionPolicy, Early
<1>2. ASSUME NEW t \in Trader, NEW g \in Good \cup {NoGood}, NEW m \in Amount,
             AddExchgObject(t, g, m) \/ RemoveExchgObject(t, g, m)
      PROVE Outcome'
  BY <1>2, <1>a DEF AddExchgObject, RemoveExchgObject, MayUpdate, OptionPolicy, Early
<1>3. ASSUME NEW t \in Trader, Submit(t)  PROVE Outcome'
  BY <1>3, <1>a DEF Submit, OptionPolicy, Early
<1>4. ASSUME NEW h \in Handler, NEW t \in Trader, Confirm(h, t)  PROVE Outcome'
  <2>1. state \in {"Ready", "Confirm_half"} /\ UNCHANGED <<db, call>>
    BY <1>4 DEF Confirm, OptionPolicy
  <2>2. CASE state' = "Confirm_half"
    BY <1>4, <1>a, <2>1, <2>2 DEF Confirm, Early
  <2>3. CASE state' = "Confirm"
    <3>1. cont' = [cont EXCEPT ![h] = "confirmed"] /\ trader[Other(t)].state = "CONFIRM"
      BY <1>4, <2>3 DEF Confirm
    <3>2. \A i \in Handler : cont[i] = "idle" /\ call[i] = NoCall
      BY <2>1 DEF OneEnds, Early, Busy
    <3>3. ASSUME NEW u \in Trader
          PROVE  trader'[u].possession = Trading!Trade(db[u], trader[u].exchg, trader[Other(u)].exchg)
      <4>2. /\ trader[u].possession.goods \cap trader[u].exchg.goods = {}
            /\ trader[u].possession.goods \cup trader[u].exchg.goods = db[u].goods
            /\ trader[u].possession.money + trader[u].exchg.money = db[u].money
        BY <2>1 DEF Conserved
      <4>3. CASE SomethingUp
        <5>1. trader'[u].possession = GenerateResult(u)
          BY <1>4, <2>1, <2>3, <4>3, ConfirmTraders DEF ResultFresh
        <5>2. trader[u].possession.money + trader[Other(u)].exchg.money =
                (db[u].money - trader[u].exchg.money) + trader[Other(u)].exchg.money
          BY <1>0, <4>2, Traders DEF Pocket
        <5>3. trader[u].possession.goods \cup trader[Other(u)].exchg.goods =
                (db[u].goods \ trader[u].exchg.goods) \cup trader[Other(u)].exchg.goods
          BY <4>2
        <5>. QED  BY <5>1, <5>2, <5>3 DEF GenerateResult, Trading!Trade
      <4>4. CASE ~SomethingUp
        <5>1. trader'[u].possession = trader[u].possession
          BY <1>4, <4>4, ConfirmTraders
        <5>2. trader[u].exchg = Empty /\ trader[Other(u)].exchg = Empty
          BY <4>4, Traders DEF SomethingUp
        <5>3. trader[u].possession = [goods |-> trader[u].possession.goods, money |-> trader[u].possession.money]
          BY <1>0 DEF Pocket
        <5>4. /\ trader[u].possession.goods = (db[u].goods \ {}) \cup {}
              /\ trader[u].possession.money = (db[u].money - 0) + 0
          <6>1. trader[u].exchg.goods = {} /\ trader[u].exchg.money = 0
            BY <5>2 DEF Empty
          <6>. QED  BY <1>0, <4>2, <6>1 DEF Pocket
        <5>. QED  BY <5>1, <5>2, <5>3, <5>4 DEF Trading!Trade, Empty
      <4>. QED  BY <4>3, <4>4
    <3>4. \A u \in Trader : trader'[u].state = "CONFIRM" /\ trader'[u].exchg = trader[u].exchg
      <4>1. \A u \in Trader : u = t \/ u = Other(t)
        BY DEF Trader, Other
      <4>. QED  BY <1>4, <3>1, <4>1, ConfirmTraders
    <3>5. Exchanged([u \in Trader |-> trader[u].possession])'
      BY <2>1, <3>3, <3>4, Traders DEF Exchanged
    <3>. QED  BY <1>0, <2>1, <3>1, <3>2, <3>5 DEF Outcome
  <2>. QED  BY <1>4, <2>2, <2>3 DEF Confirm
<1>5. ASSUME NEW h \in Handler, NEW next \in {"discarded", "rollback"}, Discard(h, next)
      PROVE Outcome'
  <2>1. /\ state \in Early \ {"SetPossession"} /\ UNCHANGED <<db, call>>
        /\ cont' = [cont EXCEPT ![h] = next]
    BY <1>5 DEF Discard, OptionPolicy, Early
  <2>2. \A i \in Handler : cont[i] = "idle" /\ call[i] = NoCall
    BY <2>1 DEF OneEnds, Busy
  <2>3. ASSUME NEW u \in Trader  PROVE trader'[u].possession = db[u]
    <3>1. trader'[u].possession = [goods |-> db[u].goods, money |-> db[u].money]
      BY <1>5, <2>1, DiscardTraders DEF Conserved, Early
    <3>2. db[u] \in Pocket
      BY <1>0
    <3>. QED  BY <3>1, <3>2 DEF Pocket
  <2>. QED  BY <1>0, <2>1, <2>2, <2>3 DEF Outcome
<1>6. ASSUME NEW h \in Handler, Write2DB(h)  PROVE Outcome'
  <2>1. UNCHANGED db /\ cont[h] \in {"confirmed", "discarded"}
    BY <1>6 DEF Write2DB
  <2>2. \A i \in Handler : i # h => cont[i] = "idle" /\ call[i] = NoCall
    BY <2>1 DEF OneEnds, Busy
  <2>3. \A u \in Trader : trader'[u].state = trader[u].state /\ trader'[u].exchg = trader[u].exchg
    BY <1>6, Write2DBTraders
  <2>4. call[h] = NoCall
    BY <2>1 DEF OneEnds
  <2>5. CASE UNCHANGED call /\ cont' = [cont EXCEPT ![h] = "destroy"]
    BY <1>0, <2>2, <2>4, <2>5 DEF Outcome
  <2>6. ASSUME NEW c \in Call, NEW k \in {"idle", "destroy"},
               call' = [call EXCEPT ![h] = c], cont' = [cont EXCEPT ![h] = k],
               c.cause = cont[h], c.pocket = [t \in Trader |-> trader[t].possession]
        PROVE Outcome'
    <3>1. c.cause = "confirmed" => Exchanged(c.pocket)'
      BY <2>1, <2>3, <2>6, Traders DEF Outcome, Exchanged
    <3>2. c.cause = "discarded" => \A t \in Trader : c.pocket[t] = db'[t]
      BY <2>1, <2>6 DEF Outcome
    <3>. QED  BY <1>0, <2>1, <2>2, <2>6, <3>1, <3>2 DEF Outcome
  <2>. QED  BY <1>6, <2>5, <2>6, Write2DBCall
<1>7. ASSUME NEW h \in Handler, DestroyAfter(h)  PROVE Outcome'
  <2>1. cont' = [cont EXCEPT ![h] = "idle"] /\ cont[h] # "idle" /\ UNCHANGED <<call, db>>
    BY <1>7 DEF DestroyAfter
  <2>2. \A u \in Trader : trader'[u].state = trader[u].state /\ trader'[u].exchg = trader[u].exchg
    BY <1>0, <1>7 DEF DestroyAfter, TraderRecord
  <2>3. \A i \in Handler : i # h => cont[i] = "idle" /\ call[i] = NoCall
    BY <2>1 DEF OneEnds, Busy
  <2>4. \A p : Exchanged(p) => Exchanged(p)'
    BY <2>1, <2>2, Traders DEF Exchanged
  <2>. QED  BY <1>0, <2>1, <2>3, <2>4 DEF Outcome
<1>8. ASSUME NEW h \in Handler, UseReleased(h)  PROVE Outcome'
  BY <1>8, <1>b DEF UseReleased, desk
<1>9. ASSUME NEW h \in Handler, DbSave(h)  PROVE Outcome'
  <2>1. /\ call[h] # NoCall /\ UNCHANGED <<trader, cont>>
        /\ call' = [call EXCEPT ![h].stage = "saved"]
    BY <1>9 DEF DbSave, desk
  <2>2. \A i \in Handler : i # h => cont[i] = "idle" /\ call[i] = NoCall
    BY <2>1 DEF OneEnds, Busy
  <2>3. cont[h] \in {"idle", "destroy"}
    BY <2>1 DEF OneEnds
  <2>4. call'[h].stage = "saved"
    BY <1>0, <2>1 DEF Call
  <2>. QED  BY <1>0, <2>1, <2>2, <2>3, <2>4 DEF Outcome
<1>10. ASSUME NEW h \in Handler, DbRefuse(h)  PROVE Outcome'
  <2>1. /\ UNCHANGED <<trader, cont, db>> /\ call[h] \in Call
        /\ call' = [call EXCEPT ![h].stage = "refused"]
    BY <1>0, <1>10 DEF DbRefuse, desk
  <2>2. call'[h].stage = "refused"
    BY <1>0, <2>1 DEF Call
  <2>. QED  BY <1>0, <1>b, <2>1, <2>2
<1>11. ASSUME NEW h \in Handler, SaveClient(h) \/ SaveOnTimeout(h)  PROVE Outcome'
  <2>1. /\ UNCHANGED <<trader, cont, db>> /\ call[h] \in Call /\ call[h] # NoCall
        /\ call' = [call EXCEPT ![h].waiting = FALSE]
    BY <1>0, <1>11 DEF SaveClient, SaveOnTimeout, Answered
  <2>2. /\ call'[h].stage = call[h].stage /\ call'[h].cause = call[h].cause
        /\ call'[h].pocket = call[h].pocket
    BY <1>0, <2>1 DEF Call
  <2>. QED  BY <1>0, <1>b, <2>1, <2>2
<1>12. CASE Expire \/ Timer
  BY <1>12, <1>b DEF Expire, Timer, TellOnDestroy, ReleaseObject, desk
<1>13. ASSUME NEW t \in Trader, NEW g \in Good, MoveObject(t, g)  PROVE Outcome'
  BY <1>13, <1>a DEF MoveObject, OptionPolicy, Early
<1>14. CASE UNCHANGED vars
  BY <1>14, <1>b DEF vars, desk
<1>. QED
  BY <1>1, <1>2, <1>3, <1>4, <1>5, <1>6, <1>7, <1>8, <1>9, <1>10, <1>11, <1>12, <1>13, <1>14
     DEF Next, Player, Saving

----------------------------------------------------------------------------
(* The step to Barter.                                                     *)

Bids == [t \in Trader |-> trader[t].exchg]
Accepted == {t \in Trader : trader[t].state = "CONFIRM"}

\* No step but the saving of what both confirmed settles a trade, and none
\* takes it up again once it is off.
NoSettling == (Settled' <=> Settled) /\ (InPlay' => InPlay)

LEMMA OpenWhileEarly ==
  ASSUME OneEnds, state \in Early
  PROVE  InPlay /\ ~Settled
BY DEF OneEnds, Busy, Early, InPlay, Settled

\* Such a step is a stutter or calls the trade off if it leaves the bids, the
\* acceptances and the pockets alone.
LEMMA Unsettled ==
  ASSUME UNCHANGED <<db, Bids, Accepted>>, NoSettling
  PROVE  [Trading!Next]_(Trading!vars)
<1>1. CASE Settled \/ (InPlay' <=> InPlay)
  BY <1>1 DEF Trading!vars, Bids, Accepted, NoSettling
<1>2. CASE ~Settled /\ InPlay /\ ~InPlay'
  <2>1. Trading!CallOff
    BY <1>2 DEF Trading!CallOff, Bids, Accepted, NoSettling
  <2>. QED  BY <2>1 DEF Trading!Next
<1>. QED  BY <1>1, <1>2 DEF NoSettling

\* A change of what is put up, before anybody confirmed.
LEMMA OfferStep ==
  ASSUME IInv, IInv', state \in {"Exchange", "Ready_half"}, state' \in {"Exchange", "Ready_half"},
         UNCHANGED db
  PROVE  Trading!Offer
<1>1. InPlay /\ ~Settled /\ InPlay' /\ ~Settled'
  <2>1. OneEnds /\ OneEnds' /\ state \in Early /\ state' \in Early
    BY DEF IInv, Early
  <2>. QED  BY <2>1, OpenWhileEarly DEF OneEnds, Busy, Early, InPlay, Settled
<1>2. Accepted = {} /\ Accepted' = {}
  BY DEF IInv, TradersInStep, Accepted
<1>3. Bids' \in [Trader -> Pocket]
  BY DEF IInv, TypeOK, Bids
<1>4. ASSUME NEW t \in Trader  PROVE Trading!Within(Bids'[t], db[t])
  <2>1. /\ trader'[t].possession.goods \cup trader'[t].exchg.goods = db[t].goods
        /\ trader'[t].possession.money + trader'[t].exchg.money = db[t].money
    BY DEF IInv, Conserved
  <2>2. trader'[t].possession.money \in Nat /\ trader'[t].exchg.money \in Nat
    BY DEF IInv, TypeOK, Pocket
  <2>3. trader'[t].exchg.money <= db[t].money
    BY <2>1, <2>2
  <2>. QED  BY <2>1, <2>3 DEF Trading!Within, Bids
<1>. QED  BY <1>1, <1>2, <1>3, <1>4 DEF Trading!Offer, Bids, Accepted

LEMMA BarterStep ==
  ASSUME IInv, IInv', [Next]_vars
  PROVE  [Trading!Next]_(Trading!vars)
<1>0. /\ TypeOK /\ OneEnds /\ TradersInStep /\ TradersInStep' /\ Outcome
      /\ trader \in [Trader -> TraderRecord]
      /\ cont \in [Handler -> {"idle", "confirmed", "discarded", "rollback", "destroy"}]
      /\ call \in [Handler -> {NoCall} \cup Call]
  BY DEF IInv, TypeOK, TraderRecord
\* Steps that change no Trader object's state or bid.
<1>a. ASSUME \A u \in Trader : trader'[u].state = trader[u].state /\ trader'[u].exchg = trader[u].exchg
      PROVE  UNCHANGED <<Bids, Accepted>>
  BY <1>a DEF Bids, Accepted
<1>1. CASE SetPossession
  <2>1. UNCHANGED <<Bids, Accepted>>
    <3>1. \A u \in Trader : trader[u].state # "CONFIRM" /\ trader'[u].state # "CONFIRM"
      BY <1>0, <1>1, SetPossessionTraders DEF SetPossession, OptionPolicy, TradersInStep
    <3>2. Accepted = {} /\ Accepted' = {}
      BY <3>1 DEF Accepted
    <3>3. UNCHANGED Bids
      BY <1>0, <1>1, SetPossessionTraders DEF Bids
    <3>. QED  BY <3>2, <3>3
  <2>2. NoSettling /\ UNCHANGED db
    BY <1>1 DEF SetPossession, OptionPolicy, NoSettling, Settled, InPlay
  <2>. QED  BY <2>1, <2>2, Unsettled
<1>2. CASE InventoryFails
  <2>1. UNCHANGED <<db, Bids, Accepted>> /\ NoSettling
    BY <1>2 DEF InventoryFails, NoSettling, Settled, InPlay, Bids, Accepted
  <2>. QED  BY <2>1, Unsettled
<1>3. ASSUME NEW t \in Trader, NEW g \in Good \cup {NoGood}, NEW m \in Amount,
             AddExchgObject(t, g, m) \/ RemoveExchgObject(t, g, m)
      PROVE [Trading!Next]_(Trading!vars)
  <2>1. /\ state \in {"Exchange", "Ready_half"} /\ state' \in {"Exchange", "Ready_half"}
        /\ UNCHANGED db
    BY <1>3 DEF AddExchgObject, RemoveExchgObject, MayUpdate, OptionPolicy, Reopen
  <2>. QED  BY <2>1, OfferStep DEF Trading!Next
<1>4. ASSUME NEW t \in Trader, NEW g \in Good, MoveObject(t, g)
      PROVE [Trading!Next]_(Trading!vars)
  <2>1. UNCHANGED <<Bids, Accepted>>
    BY <1>0, <1>4, <1>a DEF MoveObject, TraderRecord
  <2>2. UNCHANGED db /\ NoSettling
    BY <1>4 DEF MoveObject, NoSettling, Settled, InPlay
  <2>. QED  BY <2>1, <2>2, Unsettled
<1>5. ASSUME NEW t \in Trader, Submit(t)  PROVE [Trading!Next]_(Trading!vars)
  <2>1. /\ state \in {"Exchange", "Ready_half"} /\ state' \in {"Exchange", "Ready_half", "Ready"}
        /\ UNCHANGED <<db, cont, call>>
    BY <1>5 DEF Submit, OptionPolicy, Reopen
  <2>2. Accepted = {} /\ Accepted' = {}
    BY <1>0, <2>1 DEF TradersInStep, Accepted
  <2>3. UNCHANGED Bids
    BY <1>0, <1>5, SubmitTraders DEF Bids
  <2>4. NoSettling
    BY <2>1 DEF NoSettling, Settled, InPlay
  <2>. QED  BY <2>1, <2>2, <2>3, <2>4, Unsettled
<1>6. ASSUME NEW h \in Handler, NEW t \in Trader, Confirm(h, t)
      PROVE [Trading!Next]_(Trading!vars)
  <2>1. state \in Early /\ UNCHANGED <<db, call>>
    BY <1>6 DEF Confirm, OptionPolicy, Early
  <2>2. InPlay /\ ~Settled
    BY <1>0, <2>1, OpenWhileEarly
  <2>3. ~Settled'
    BY <2>1, <2>2 DEF Settled
  <2>4. InPlay'
    BY <1>0, <1>6 DEF Confirm, InPlay
  <2>5. UNCHANGED Bids /\ Accepted' = Accepted \cup {t}
    BY <1>0, <1>6, ConfirmTraders DEF Bids, Accepted
  <2>6. Trading!Accept(t)
    BY <2>1, <2>2, <2>3, <2>4, <2>5 DEF Trading!Accept, Bids, Accepted
  <2>. QED  BY <2>6 DEF Trading!Next
<1>7. ASSUME NEW h \in Handler, NEW next \in {"discarded", "rollback"}, Discard(h, next)
      PROVE [Trading!Next]_(Trading!vars)
  <2>1. state \in Early /\ UNCHANGED <<db, call>>
    BY <1>7 DEF Discard, OptionPolicy, Early
  <2>2. NoSettling
    BY <1>0, <2>1, OpenWhileEarly DEF NoSettling, Settled
  <2>3. UNCHANGED <<Bids, Accepted>>
    BY <1>0, <1>7, <1>a, DiscardTraders
  <2>. QED  BY <2>1, <2>2, <2>3, Unsettled
<1>8. ASSUME NEW h \in Handler, Write2DB(h)  PROVE [Trading!Next]_(Trading!vars)
  <2>1. UNCHANGED <<db, state>> /\ state # "gone" /\ cont[h] \in {"confirmed", "discarded"}
    BY <1>8 DEF Write2DB
  <2>2. UNCHANGED <<Bids, Accepted>>
    BY <1>0, <1>8, <1>a, Write2DBTraders
  <2>3. call[h] = NoCall
    BY <1>0, <2>1 DEF OneEnds
  <2>4. NoSettling
    <3>1. CASE UNCHANGED call /\ cont' = [cont EXCEPT ![h] = "destroy"]
      BY <1>0, <2>1, <3>1 DEF NoSettling, Settled, InPlay
    <3>2. ASSUME NEW c \in Call, NEW k \in {"idle", "destroy"},
                 call' = [call EXCEPT ![h] = c], cont' = [cont EXCEPT ![h] = k],
                 c.cause = cont[h], c.stage # "saved"
          PROVE NoSettling
      <4>1. Settled' <=> Settled
        BY <1>0, <2>3, <3>2 DEF Settled
      <4>2. InPlay' => InPlay
        BY <1>0, <2>1, <3>2 DEF InPlay
      <4>. QED  BY <4>1, <4>2 DEF NoSettling
    <3>. QED  BY <1>0, <1>8, <3>1, <3>2, Write2DBCall
  <2>. QED  BY <2>1, <2>2, <2>4, Unsettled
<1>9. ASSUME NEW h \in Handler, DestroyAfter(h)  PROVE [Trading!Next]_(Trading!vars)
  <2>1. UNCHANGED <<Bids, Accepted>>
    BY <1>0, <1>9, <1>a DEF DestroyAfter, TraderRecord
  <2>2. UNCHANGED db /\ NoSettling
    BY <1>0, <1>9 DEF DestroyAfter, NoSettling, Settled, InPlay
  <2>. QED  BY <2>1, <2>2, Unsettled
<1>10. ASSUME NEW h \in Handler, DbSave(h)  PROVE [Trading!Next]_(Trading!vars)
  <2>1. /\ call[h] \in Call /\ call[h] # NoCall /\ call[h].stage = "sent"
        /\ db' = call[h].pocket /\ call' = [call EXCEPT ![h].stage = "saved"]
        /\ UNCHANGED <<state, trader, cont>>
    BY <1>0, <1>10 DEF DbSave, desk
  <2>2. \A i \in Handler : i # h => cont[i] = "idle" /\ call[i] = NoCall
    BY <1>0, <2>1 DEF OneEnds, Busy
  <2>3. /\ call'[h] \in Call /\ call'[h].stage = "saved" /\ call'[h].cause = call[h].cause
        /\ call'[h] # NoCall
        /\ \A i \in Handler : i # h => call'[i] = call[i]
    <3>1. call'[h] = [call[h] EXCEPT !.stage = "saved"]
      BY <1>0, <2>1
    <3>2. call'[h] \in Call /\ call'[h].stage = "saved" /\ call'[h].cause = call[h].cause
      BY <2>1, <3>1 DEF Call
    <3>. QED  BY <1>0, <2>1, <3>2, NoCallAssumption
  <2>4. CASE call[h].cause = "confirmed"
    <3>1. InPlay /\ ~Settled
      BY <2>1, <2>2, <2>4 DEF InPlay, Settled
    <3>2. Settled'
      BY <2>3, <2>4 DEF Settled
    <3>3. Exchanged(call[h].pocket)
      BY <1>0, <2>1, <2>4 DEF Outcome
    <3>4. Accepted = Trader /\ UNCHANGED <<Bids, Accepted>>
      BY <2>1, <3>3 DEF Exchanged, Accepted, Bids
    <3>5. \A t, u \in Trader : t # u => db'[t] = Trading!Trade(db[t], Bids[t], Bids[u])
      <4>1. \A t, u \in Trader : t # u => u = Other(t)
        BY DEF Trader, Other
      <4>. QED  BY <2>1, <3>3, <4>1 DEF Exchanged, Bids
    <3>6. db' \in [Trader -> Pocket]
      BY DEF IInv, TypeOK
    <3>7. Trading!Settle
      BY <3>1, <3>2, <3>4, <3>5, <3>6 DEF Trading!Settle, Bids, Accepted
    <3>. QED  BY <3>7 DEF Trading!Next
  <2>5. CASE call[h].cause = "discarded"
    <3>1. \A t \in Trader : call[h].pocket[t] = db[t]
      BY <1>0, <2>1, <2>5 DEF Outcome
    <3>2. call[h].pocket \in [Trader -> Pocket] /\ db \in [Trader -> Pocket]
      BY <1>0, <2>1 DEF Call, TypeOK
    <3>3. UNCHANGED db
      BY <2>1, <3>1, <3>2
    <3>4. UNCHANGED <<Bids, Accepted>>
      BY <2>1 DEF Bids, Accepted
    <3>5. NoSettling
      BY <2>1, <2>2, <2>3, <2>5 DEF NoSettling, Settled, InPlay
    <3>. QED  BY <3>3, <3>4, <3>5, Unsettled
  <2>. QED  BY <2>1, <2>4, <2>5 DEF Call
<1>11. ASSUME NEW h \in Handler, DbRefuse(h)  PROVE [Trading!Next]_(Trading!vars)
  <2>1. /\ call[h] \in Call /\ call[h] # NoCall /\ call[h].stage = "sent"
        /\ call' = [call EXCEPT ![h].stage = "refused"]
        /\ UNCHANGED <<state, trader, cont, db>>
    BY <1>0, <1>11 DEF DbRefuse, desk
  <2>2. /\ call'[h].stage = "refused"
        /\ \A i \in Handler : i # h => call'[i] = call[i]
    BY <1>0, <2>1 DEF Call
  <2>3. NoSettling
    BY <2>1, <2>2 DEF NoSettling, Settled, InPlay
  <2>4. UNCHANGED <<Bids, Accepted>>
    BY <2>1 DEF Bids, Accepted
  <2>. QED  BY <2>1, <2>3, <2>4, Unsettled
<1>12. ASSUME NEW h \in Handler, SaveClient(h) \/ SaveOnTimeout(h)
       PROVE [Trading!Next]_(Trading!vars)
  <2>1. /\ call[h] \in Call /\ call[h] # NoCall
        /\ call' = [call EXCEPT ![h].waiting = FALSE]
        /\ state' \in {state, "Null"} /\ (state = "gone" => state' = "gone")
        /\ UNCHANGED <<trader, cont, db>>
    BY <1>0, <1>12 DEF SaveClient, SaveOnTimeout, Answered
  <2>2. /\ call'[h].stage = call[h].stage /\ call'[h].cause = call[h].cause /\ call'[h] # NoCall
        /\ \A i \in Handler : i # h => call'[i] = call[i]
    <3>1. call'[h] = [call[h] EXCEPT !.waiting = FALSE]
      BY <1>0, <2>1
    <3>2. call'[h] \in Call /\ call'[h].stage = call[h].stage /\ call'[h].cause = call[h].cause
      BY <2>1, <3>1, CallAnswered
    <3>. QED  BY <1>0, <2>1, <3>2, NoCallAssumption
  <2>3. NoSettling
    BY <2>1, <2>2 DEF NoSettling, Settled, InPlay
  <2>4. UNCHANGED <<Bids, Accepted>>
    BY <2>1 DEF Bids, Accepted
  <2>. QED  BY <2>1, <2>3, <2>4, Unsettled
<1>13. CASE (\E h \in Handler : UseReleased(h)) \/ Expire \/ Timer
  <2>1. UNCHANGED <<db, Bids, Accepted>> /\ NoSettling
    BY <1>13 DEF UseReleased, Expire, Timer, TellOnDestroy, ReleaseObject, desk,
                 NoSettling, Settled, InPlay, Bids, Accepted
  <2>. QED  BY <2>1, Unsettled
<1>14. CASE UNCHANGED vars
  <2>1. UNCHANGED <<db, Bids, Accepted>> /\ NoSettling
    BY <1>14 DEF vars, desk, NoSettling, Settled, InPlay, Bids, Accepted
  <2>. QED  BY <2>1, Unsettled
<1>. QED
  BY <1>1, <1>2, <1>3, <1>4, <1>5, <1>6, <1>7, <1>8, <1>9, <1>10, <1>11, <1>12, <1>13, <1>14
     DEF Next, Player, Saving

----------------------------------------------------------------------------
(* The theorems.                                                           *)

\* IInv holds of the initial states and of every step from a state it holds of.
THEOREM Invariance == Spec => []IInv
<1>1. ASSUME IInv, [Next]_vars  PROVE IInv'
  <2>1. TypeOK' /\ OneEnds'
    BY <1>1, TypeStep, EndsStep DEF IInv
  <2>2. TradersInStep' /\ Conserved' /\ ResultFresh'
    BY <1>1, TradersStep, ConservedStep, FreshStep DEF IInv
  <2>3. Outcome'
    BY <1>1, <2>1, <2>2, OutcomeStep DEF IInv
  <2>. QED  BY <2>1, <2>2, <2>3 DEF IInv
<1>. QED  BY <1>1, InitIInv, PTL DEF Spec

\* The state has its type (the fields of Transaction and Trader).
THEOREM TypeCorrect == Spec => []TypeOK
<1>1. IInv => TypeOK
  BY DEF IInv
<1>. QED  BY <1>1, Invariance, PTL

\* The result of the exchange is not stale when the second trader confirms
\* (blGenResult, trade.cpp:452, 498).
THEOREM ResultsAreFresh == Spec => []ResultFresh
<1>1. IInv => ResultFresh
  BY DEF IInv
<1>. QED  BY <1>1, Invariance, PTL

\* Putting up and taking back neither makes nor loses goods or money.
THEOREM NothingIsLost == Spec => []Conserved
<1>1. IInv => Conserved
  BY DEF IInv
<1>. QED  BY <1>1, Invariance, PTL

\* One handler at most saves a Transaction.
THEOREM IsSavedOnce == Spec => []SavedOnce
<1>1. IInv => SavedOnce
  BY DEF IInv, OneEnds, Busy, SavedOnce
<1>. QED  BY <1>1, Invariance, PTL

\* The desk, with calls to gamedbd that fail, are late or are never sent, and a
\* timer that releases the Transaction under the handlers, keeps Barter's promise.
THEOREM ImplementsBarter == Spec => BarterSpec
<1>1. IInv /\ Init => Trading!Init
  <2>. SUFFICES ASSUME IInv, Init  PROVE Trading!Init
    OBVIOUS
  <2>1. state \in Early /\ OneEnds
    BY DEF Init, Early, IInv
  <2>2. InPlay /\ ~Settled
    BY <2>1, OpenWhileEarly
  <2>3. Accepted = {} /\ Bids = [t \in Trader |-> Empty]
    BY DEF Init, Joined, Accepted, Bids
  <2>4. db \in [Trader -> Pocket]
    BY DEF IInv, TypeOK
  <2>. QED  BY <2>2, <2>3, <2>4 DEF Trading!Init, Accepted, Bids
<1>2. IInv /\ IInv' /\ [Next]_vars => [Trading!Next]_(Trading!vars)
  BY BarterStep
<1>. QED  BY <1>1, <1>2, Invariance, PTL DEF Spec, BarterSpec, Trading!Spec
=============================================================================
