----------------------------- MODULE MCNetting -----------------------------
(***************************************************************************)
(* Scale-ins, over-closes, settlements and bare futures trades, for        *)
(* Netting.                                                                *)
(***************************************************************************)
EXTENDS Netting

Trade(at, sec, act, qty) ==
    [at |-> at, sec |-> sec, und |-> "x", right |-> "-", type |-> "Trade", sub |-> "-",
     act |-> act, qty |-> qty, order |-> "o"]

Delivered(at, sec, sub, act, qty) ==
    [at |-> at, sec |-> sec, und |-> "x", right |-> "-", type |-> "Receive Deliver",
     sub |-> sub, act |-> act, qty |-> qty, order |-> "none"]

\* The third row opens in the instant of the close before it; the sixth is
\* the close of a re-symbolled contract, which carries no price.
MixedRows == <<
    Trade(1, "a", "Sell to Open", 2),
    Trade(2, "a", "Buy to Close", 1),
    Trade(2, "a", "Sell to Open", 1),
    Trade(3, "f", "Buy", 1),
    Trade(4, "f", "Sell", 2),
    Delivered(5, "a", "-", "Buy to Close", 2),
    Delivered(6, "a", "Assignment", "-", 1),
    Delivered(6, "a", "Cash Settled Assignment", "-", 1),
    Trade(7, "a", "Buy to Close", 2)>>

Groups2 == 1 .. 2
=============================================================================
