---------------------------- MODULE MCOperator ----------------------------
(***************************************************************************)
(* Small accounts with expiring contracts and an operator, on which        *)
(* Operator is model-checked.                                              *)
(***************************************************************************)
EXTENDS Operator, TLC

Trade(at, sec, act, order) ==
    [at |-> at, sec |-> sec, und |-> "x", right |-> "P", type |-> "Trade", sub |-> "-",
     act |-> act, qty |-> 1, order |-> order]

Expired(at, sec) ==
    [at |-> at, sec |-> sec, und |-> "x", right |-> "P", type |-> "Receive Deliver",
     sub |-> "Expiration", act |-> "-", qty |-> 1, order |-> "none"]

Dividend(at) ==
    [at |-> at, sec |-> "a", und |-> "x", right |-> "-", type |-> "Money Movement",
     sub |-> "-", act |-> "-", qty |-> 1, order |-> "none"]

\* Two groups hold one put in opposite directions; it expires without a word from
\* the broker, and later activity shows that its time is past.
SiblingRows == <<
    Trade(0,   "a", "Sell to Open", "o1"),
    Trade(100, "a", "Buy to Open",  "o2"),
    Expired(200, "a"), Expired(200, "a"), Expired(200, "a"),
    Dividend(1000)>>

\* The broker's own settlement of the first lot comes two days late.
LateRows == <<
    Trade(0,   "a", "Sell to Open", "o1"),
    Expired(200, "a"), Expired(200, "a"),
    Dividend(1000)>>

LateLapses == <<0, 1, 0, 0>>

SiblingLapses == <<0, 0, 1, 2, 3, 0>>

ExpiresA == [s \in {"a"} |-> 500]

\* The second lot to the first group, or the first to a group of its own.
Merge == {<<{2}, 1>>}
Split == {<<{1}, NoGroup>>}

NoRegrouping == {}

NoIntents == [o \in Order |-> NoIntent]

\* What is said of such accounts beyond the bounds of a run is said of these.
ASSUME InstanceAssumption == SettlementsStay

Groups3 == 1 .. 3
Groups2 == 1 .. 2

\* The feed delivers rows in the order they were executed, each order before its rows,
\* between two passes.
InOrder ==
    /\ UNCHANGED <<txns \ Synthetic, orders, known>> \/ \A p \in Pass : pc[p] = "idle"
    /\ \A t \in (txns' \ txns) \ Synthetic :
        /\ \A u \in 1 .. t - 1 : u \in txns \cup Synthetic
        /\ Row[t].order \in orders \cup {NoOrder}

\* As InOrder, but for one row that may come after later ones.
LateRow == 3
OneLate ==
    /\ UNCHANGED <<txns \ Synthetic, orders, known>> \/ \A p \in Pass : pc[p] = "idle"
    /\ \A t \in (txns' \ txns) \ Synthetic :
        /\ \A u \in 1 .. t - 1 : u \in txns \cup Synthetic \cup {LateRow}
        /\ Row[t].order \in orders \cup {NoOrder}

OneLateDesk == DeskInit /\ [][DeskNext /\ OneLate]_deskVars

\* Either a pass dies, in its lapses (MCReconcile lets it die elsewhere), or a command
\* is given, which may die too.
InOrderNext ==
    \/ Commands /\ aborts = 0
    \/ Carries
    \/ CommandDies
    \/ /\ Others /\ InOrder
       /\ \A p \in Pass : Die(p) => given = 0 /\ stage[p] \in {"reading", "applying"}

InOrderDesk == DeskInit /\ [][InOrderNext]_deskVars /\ Fairness
=============================================================================
