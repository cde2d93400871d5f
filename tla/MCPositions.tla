---------------------------- MODULE MCPositions ----------------------------
(***************************************************************************)
(* A contract that is opened twice, closed and flipped in one instant, and *)
(* whose settlement arrives under another security; module Rebuild says    *)
(* what a replay makes of any of its rows.                                 *)
(***************************************************************************)
EXTENDS Rebuild, PositionBook

Trade(at, sec, act, qty) ==
    [at |-> at, sec |-> sec, und |-> "x", right |-> "C", type |-> "Trade", sub |-> "-",
     act |-> act, qty |-> qty, order |-> "o"]

Expired(at, sec, qty) ==
    [at |-> at, sec |-> sec, und |-> "x", right |-> "C", type |-> "Receive Deliver",
     sub |-> "Expiration", act |-> "-", qty |-> qty, order |-> "none"]

\* Contract a is adjusted to b before it expires.
AdjustedRows == <<
    Trade(1, "a", "Buy to Open", 1),
    Trade(2, "a", "Buy to Open", 1),
    Trade(3, "a", "Sell to Close", 1),
    Trade(3, "a", "Sell to Close", 2),
    Expired(20, "b", 1)>>

AllRows == 1 .. Len(Row)
Books   == [S \in SUBSET AllRows |-> Rebuilt(S)]

\* What the broker lists: the last row takes the contract off its list.
Holdings ==
    [n \in 0 .. Len(Row) |-> IF n = Len(Row) THEN 0 ELSE NetOpenQuantity(1 .. n, Contract)]

\* A second rebuild is begun beside the first once all rows are there and nobody
\* else is writing, so that the two race from what one or fewer rebuilds have left.
Running == {r \in Rebuilder : rebuild[r].pc # "idle"}

FirstRebuilder == CHOOSE r \in Rebuilder : TRUE

RaceNext ==
    /\ Next
    /\ Running = {} /\ Running' # {} => Running' = {FirstRebuilder}
    /\ Cardinality(Running') > 1 =>
            known = Activity /\ \A w \in Writer : write'[w].pc = "idle"

RaceSpec == Init /\ [][RaceNext]_vars /\ Fairness

\* What the theorems about the closed rows assume of a replay holds of these rows.
ASSUME InstanceAssumption == KeysApart /\ ReplayGrows /\ ContractOver
=============================================================================
