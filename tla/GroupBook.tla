----------------------------- MODULE GroupBook -----------------------------
(***************************************************************************)
(* The group-grain book of tt-ledger (src/tt_ledger/ingest/reconcile.py):  *)
(* how the member rows of ONE trade group net out, when that group counts  *)
(* as fully closed, and what its terminal status is.                       *)
(*                                                                         *)
(* The rows themselves are data and never change, so they are a constant:  *)
(* Row lists every broker row of one account in executed_at order, and a   *)
(* transaction is its position in that list.  A group's membership is then *)
(* a set of positions, and the walk in time order is a walk up the list.   *)
(* Rows with no security or no quantity move no book and are left out;     *)
(* rows with equal executed_at are taken in list order.                    *)
(***************************************************************************)
EXTENDS Integers, Sequences, FiniteSets

CONSTANTS
    Sec,         \* the securities of the account
    Underlying,  \* their (normalised) underlying roots
    Order,       \* broker order ids
    NoOrder,     \* tt_order_id is null: settlements and deliveries
    Row          \* the account's rows, in executed_at order

OpeningActions == {"Buy to Open", "Sell to Open"}
ClosingActions == {"Buy to Close", "Sell to Close"}
BareActions    == {"Buy", "Sell"}
BuyActions     == {"Buy to Open", "Buy to Close", "Buy"}
NoAction       == "-"

\* Receive Deliver sub-types that end a position, and the status each stands for.
SettlementStatus ==
    [st \in {"Expiration", "Assignment", "Cash Settled Assignment",
             "Exercise", "Cash Settled Exercise"} |->
        CASE st = "Expiration" -> "expired"
          [] st \in {"Assignment", "Cash Settled Assignment"} -> "assigned"
          [] OTHER -> "exercised"]

RowType ==
    [at    : Nat,                                  \* executed_at, in seconds
     sec   : Sec,
     und   : Underlying,
     right : {"C", "P", "-"},                      \* the security's option type
     type  : {"Trade", "Receive Deliver", "Money Movement"},
     sub   : DOMAIN SettlementStatus \cup {"-"},
     act   : OpeningActions \cup ClosingActions \cup BareActions \cup {NoAction},
     qty   : Nat \ {0},
     order : Order \cup {NoOrder}]

ASSUME RowAssumption ==
    /\ Row \in Seq(RowType)
    /\ \A i, j \in DOMAIN Row : i < j => Row[i].at <= Row[j].at
    /\ NoOrder \notin Order

Txn == DOMAIN Row

Lower(a, b)  == IF a <= b THEN a ELSE b
Abs(n)       == IF n < 0 THEN -n ELSE n

\* The earliest and the latest of a non-empty set of rows.
First(S) == CHOOSE t \in S : \A u \in S : t <= u
Last(S)  == CHOOSE t \in S : \A u \in S : u <= t

-----------------------------------------------------------------------------
(* What one row is.                                                        *)

IsNontradeClose(t) ==
    Row[t].type = "Receive Deliver" /\ Row[t].sub \in DOMAIN SettlementStatus

IsDelivery(t) == Row[t].type = "Receive Deliver" /\ Row[t].act # NoAction

IsClosing(t) == Row[t].act \in ClosingActions \/ IsNontradeClose(t)

IsOpening(t) == Row[t].act \in OpeningActions

IsBare(t) == Row[t].act \in BareActions

ActionDelta(t) == IF Row[t].act \in BuyActions THEN Row[t].qty ELSE -Row[t].qty

-----------------------------------------------------------------------------
(* One step of the walk.  The code's step returns None for a row that does *)
(* not move the net; here Moves says whether it does, NetAfter where to.   *)

\* Mutation: a close drives the net through zero (trade closes before the clamp).
ThroughZero(current, qty) == IF current > 0 THEN current - qty ELSE current + qty

\* A close drives the net toward zero and stops there.
TowardZero(current, qty) ==
    IF current > 0 THEN current - Lower(qty, current)
                   ELSE current + Lower(qty, -current)

\* A bare Buy or Sell closes only against a holding of the opposite sign.
Closes(current, t) ==
    \/ IsClosing(t)
    \/ IsBare(t) /\ current * ActionDelta(t) < 0

Moves(current, t) ==
    /\ Row[t].type # "Money Movement"
    /\ IsNontradeClose(t) \/ Row[t].act # NoAction
    /\ Closes(current, t) => current # 0

NetAfter(current, t) ==
    IF Closes(current, t) THEN TowardZero(current, Row[t].qty)
                          ELSE current + ActionDelta(t)

(* The walk over a set of rows: the running net per security, and the      *)
(* securities some row moved (the keys of the code's dictionary).          *)
FlatBook == [net |-> [s \in Sec |-> 0], moved |-> {}]

WalkStep(book, t) ==
    LET s    == Row[t].sec
        step == NetAfter(book.net[s], t)
    IN  IF Moves(book.net[s], t)
        THEN [net |-> [book.net EXCEPT ![s] = step], moved |-> book.moved \cup {s}]
        ELSE book

Book(S) ==
    LET walk[i \in 0 .. Len(Row)] ==
            IF i = 0 THEN FlatBook
            ELSE IF i \in S THEN WalkStep(walk[i - 1], i) ELSE walk[i - 1]
    IN  walk[Len(Row)]

NetQuantities(S) == Book(S).net

-----------------------------------------------------------------------------
(* What the book says of the group.                                        *)

\* Everything the group traded has netted back to zero, and it did trade:
\* unmatched closes alone do not make a closed group.
FullyClosed(S) ==
    LET book == Book(S)
    IN  /\ book.moved # {}
        /\ \E t \in S : IsOpening(t) \/ IsBare(t)
        /\ \A s \in Sec : book.net[s] = 0

CloseCauses(S) ==
    LET book == Book(S)
        bare == {t \in S : /\ IsBare(t)
                           /\ Row[t].sec \in book.moved
                           /\ book.net[Row[t].sec] = 0}
    IN  {SettlementStatus[Row[t].sub] : t \in {u \in S : IsNontradeClose(u)}}
        \cup {"closed" : t \in {u \in S : ~IsNontradeClose(u) /\
                                   (Row[u].act \in ClosingActions \/ u \in bare)}}

\* One cause names the status; several (or none) make it mixed.
TerminalStatus(S) ==
    IF \E c \in CloseCauses(S) : CloseCauses(S) = {c}
    THEN CHOOSE c \in CloseCauses(S) : TRUE
    ELSE "mixed"
=============================================================================
