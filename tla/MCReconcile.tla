---------------------------- MODULE MCReconcile ----------------------------
(***************************************************************************)
(* Small accounts on which Reconcile is model-checked.  Each scenario is a *)
(* list of rows; a configuration picks one of them as Row.                 *)
(***************************************************************************)
EXTENDS Reconcile, TLC

\* Securities are an option series a, b, c on one underlying x, and the future x.
Option(at, sec, act, qty, order) ==
    [at |-> at, sec |-> sec, und |-> "x", right |-> "P", type |-> "Trade", sub |-> "-",
     act |-> act, qty |-> qty, order |-> order]

Settlement(at, sec, sub, qty) ==
    [at |-> at, sec |-> sec, und |-> "x", right |-> "P", type |-> "Receive Deliver",
     sub |-> sub, act |-> "-", qty |-> qty, order |-> "none"]

Delivery(at, act, qty) ==
    [at |-> at, sec |-> "f", und |-> "x", right |-> "-", type |-> "Receive Deliver",
     sub |-> "-", act |-> act, qty |-> qty, order |-> "none"]

\* A short put is rolled twice, legged in as two orders half a minute apart and
\* then as one order; the last put is assigned and the future it delivers arrives
\* with the assignment.
RollRows == <<
    Option(0,   "a", "Sell to Open", 1, "o1"),
    Option(100, "a", "Buy to Close", 1, "o2"),
    Option(130, "b", "Sell to Open", 1, "o3"),
    Option(200, "b", "Buy to Close", 1, "o4"),
    Option(201, "c", "Sell to Open", 1, "o4"),
    Settlement(300, "c", "Assignment", 1),
    Delivery(300, "Buy", 1)>>

\* The host's short put, filled in two parts; the same put is bought elsewhere;
\* the short is bought back.
IntentRows == <<
    Option(0,   "a", "Sell to Open", 1, "o1"),
    Option(3,   "a", "Sell to Open", 1, "o1"),
    Option(100, "a", "Buy to Open",  1, "o2"),
    Option(200, "a", "Buy to Close", 2, "o3")>>

\* One round trip.
TripRows == <<
    Option(0,   "a", "Sell to Open", 1, "o1"),
    Option(100, "a", "Buy to Close", 1, "o2")>>

NoIntents == [o \in Order |-> NoIntent]

\* The host announced the first order, or every order.
HostOpens == [o \in Order |-> IF o = "o1" THEN "i1" ELSE NoIntent]
HostAll   == [o \in Order |-> "i1"]

Groups3 == 1 .. 3
Groups6 == 1 .. 6

PassSymmetry == Permutations(Pass)

\* A feed that delivers rows in the order they were executed, and every order before its
\* rows but one, which may come any time later.
LateOrder == "o3"

InOrder ==
    \A t \in txns' \ txns : /\ 1 .. t - 1 \subseteq txns
                          /\ Row[t].order \in orders \cup {NoOrder, LateOrder}

InOrderNext == (Feed /\ InOrder) \/ \E p \in Pass : Step(p) \/ AbortPass(p)

InOrderSpec == Init /\ [][InOrderNext]_vars /\ PassesRunOn

\* Passes that overlap start when there is a row to take, and die in the middle of one
\* cluster's writes (the lifecycle run lets a pass start and die anywhere).
MidCluster == {"createAttach", "createOrders", "createEntry", "refreshRead", "refreshWrite",
               "event", "stamp"}

\* The host opens its trade before it submits, and submits before the broker lists: its
\* orders are recorded before they are synced.
HostFirst ==
    /\ opened' # opened => orders = {}
    /\ \A i \in Intent, o \in orders' \ orders :
        opened[i] # NoGroup /\ IntentOf[o] = i => orderGroup'[o] = opened[i]

RaceNext ==
    \/ Feed /\ InOrder /\ HostFirst
    \/ \E p \in Pass : Step(p) /\ (pc[p] = "idle" => txns # {})
    \/ \E p \in Pass : AbortPass(p) /\ pc[p] \in MidCluster

RaceSpec == Init /\ [][RaceNext]_vars
=============================================================================
