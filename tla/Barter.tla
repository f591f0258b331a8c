------------------------------- MODULE Barter -------------------------------
(***************************************************************************)
(* What a trade between two roles promises: each puts part of its pocket    *)
(* up, nothing put up changes once one of them has confirmed, and at the    *)
(* end the pockets have changed hands as both confirmed, or not at all.     *)
(* TradeDesk is shown to implement this module.                             *)
(***************************************************************************)
EXTENDS Naturals

CONSTANTS Trader, Pocket, NoBid   \* pockets are records of goods and money

VARIABLES
  pocket,    \* what each trader owns
  bid,       \* the part of it put up
  accepted,  \* traders that confirmed the bids
  status     \* "open", "settled" or "off"

vars == <<pocket, bid, accepted, status>>

Within(b, p) == b.goods \subseteq p.goods /\ b.money <= p.money

\* Pocket p less what its owner gives, with what the other one gives.
Trade(p, give, take) ==
  [goods |-> (p.goods \ give.goods) \cup take.goods,
   money |-> (p.money - give.money) + take.money]

Init ==
  /\ pocket \in [Trader -> Pocket]
  /\ bid = [t \in Trader |-> NoBid]
  /\ accepted = {}
  /\ status = "open"

Offer ==
  /\ status = "open" /\ accepted = {}
  /\ bid' \in [Trader -> Pocket]
  /\ \A t \in Trader : Within(bid'[t], pocket[t])
  /\ UNCHANGED <<pocket, accepted, status>>

Accept(t) ==
  /\ status = "open"
  /\ accepted' = accepted \cup {t}
  /\ UNCHANGED <<pocket, bid, status>>

Settle ==
  /\ status = "open" /\ accepted = Trader
  /\ \A t, u \in Trader : t # u => pocket'[t] = Trade(pocket[t], bid[t], bid[u])
  /\ pocket' \in [Trader -> Pocket]
  /\ status' = "settled"
  /\ UNCHANGED <<bid, accepted>>

CallOff ==
  /\ status = "open"
  /\ status' = "off"
  /\ UNCHANGED <<pocket, bid, accepted>>

Next == Offer \/ (\E t \in Trader : Accept(t)) \/ Settle \/ CallOff

Spec == Init /\ [][Next]_vars
=============================================================================
