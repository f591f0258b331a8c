---------------------------- MODULE MCTradeDesk -----------------------------
(* Instances of TradeDesk for TLC: two traders, one or two pool threads, a   *)
(* few goods and coins; the values are in the configurations.                *)
EXTENDS TradeDesk
=============================================================================
