-------------------------------- MODULE Lots --------------------------------
(***************************************************************************)
(* The account-grain book of tt-ledger (src/tt_ledger/ingest/replay.py):   *)
(* one running lot per security, walked over the whole history in replay's *)
(* own order.  Unlike a group, an account has one position per contract: a *)
(* close beyond the lot flips it through zero.  Three walks share the lot: *)
(* the rebuild of positions and closed positions, the net quantities the   *)
(* detectors ask for, and the price-based profit of one group.             *)
(*                                                                         *)
(* A lot's average price is represented by how many contracts were opened  *)
(* into it and how many were realised out of it; fees by the rows charged. *)
(***************************************************************************)
EXTENDS GroupBook

CONSTANT Unpriced  \* the rows without a price (re-symbolled contracts)

ASSUME LotsAssumption == Unpriced \subseteq Txn

-----------------------------------------------------------------------------
(* Replay's order: by time, and within one instant the opens first.        *)

ReplayedBefore(t, u) ==
    \/ Row[t].at < Row[u].at
    \/ Row[t].at = Row[u].at /\ ~IsClosing(t) /\ IsClosing(u)
    \/ Row[t].at = Row[u].at /\ (IsClosing(t) <=> IsClosing(u)) /\ t < u

Replayed ==
    [i \in Txn |-> CHOOSE t \in Txn : Cardinality({u \in Txn : ReplayedBefore(u, t)}) = i - 1]

\* A walk over the rows of S in security s.
Walk(S, s, start, Step(_, _)) ==
    LET walk[i \in 0 .. Len(Row)] ==
            IF i = 0 THEN start
            ELSE IF Replayed[i] \in S /\ Row[Replayed[i]].sec = s
                 THEN Step(walk[i - 1], Replayed[i])
                 ELSE walk[i - 1]
    IN  walk[Len(Row)]

-----------------------------------------------------------------------------
(* What a row does to a lot.                                               *)

\* A row without an action moves by the quantity it carries.
SignedDelta(t) ==
    IF Row[t].act \in {"Sell", "Sell to Open", "Sell to Close"} THEN -Row[t].qty ELSE Row[t].qty

\* Settlements take what is held; a close of what was never seen open is
\* dropped.
EffectiveDelta(net, had, t) ==
    CASE Row[t].type = "Money Movement" -> 0
      [] IsNontradeClose(t) -> TowardZero(net, Row[t].qty) - net
      [] Row[t].act \in ClosingActions /\ net = 0 /\ ~had -> 0
      [] OTHER -> SignedDelta(t)

HasPrice(t) == IsNontradeClose(t) \/ t \notin Unpriced

\* "since" is the row that opened the lot, "until" the one that closed it.
FlatLot == [net |-> 0, since |-> 0, until |-> 0, opened |-> 0, realised |-> 0, fees |-> {}]

NewLot(t, net, fees) ==
    [FlatLot EXCEPT !.net = net, !.since = t, !.opened = Abs(net), !.fees = fees]

Added(lot, delta, t) ==
    [lot EXCEPT !.net = @ + delta, !.opened = @ + Abs(delta), !.fees = @ \cup {t}]

\* The part of delta that the lot can absorb is realised.
Reduced(lot, delta, t) ==
    [lot EXCEPT !.net      = TowardZero(@, Abs(delta)),
                !.realised = @ + Lower(Abs(delta), Abs(lot.net)),
                !.fees     = @ \cup {t}]

\* Mutation: a flip opens the new lot with the whole row.
AfterReducingWhole(lot, delta, t) ==
    IF Abs(delta) > Abs(lot.net) THEN NewLot(t, delta, {}) ELSE FlatLot

\* What follows a lot that closed: nothing, or the other side of a flip,
\* whose fees stayed with the lifecycle it closed.
AfterReducing(lot, delta, t) ==
    IF Abs(delta) > Abs(lot.net) THEN NewLot(t, lot.net + delta, {}) ELSE FlatLot

-----------------------------------------------------------------------------
(* The rebuild: the open lot and the lifecycles completed on the way.      *)

\* "marks" are the rows that fed the open lot or one before it: all that move
\* it except a close that leaves it flat.
NoHistory == [lot |-> FlatLot, had |-> FALSE, closed |-> {}, marks |-> {}]

ReplayRow(book, t) ==
    LET lot   == book.lot
        delta == EffectiveDelta(lot.net, book.had, t)
        marks == [book EXCEPT !.had = TRUE, !.marks = @ \cup {t}]
        done  == Reduced(lot, delta, t)
        next  == AfterReducing(lot, delta, t)
    IN  IF delta = 0 \/ ~HasPrice(t) THEN book
        ELSE CASE lot.net = 0         -> [marks EXCEPT !.lot = NewLot(t, delta, {t})]
               [] lot.net * delta > 0 -> [marks EXCEPT !.lot = Added(lot, delta, t)]
               [] lot.net * delta < 0 /\ done.net # 0 -> [marks EXCEPT !.lot = done]
               [] OTHER ->
                    [marks EXCEPT !.lot    = next,
                                  !.closed = @ \cup {[done EXCEPT !.until = t]},
                                  !.marks  = IF next.net = 0 THEN book.marks ELSE @]

ReplaySecurity(S, s) == Walk(S, s, NoHistory, ReplayRow)

\* The quantity walk has a copy of the rules of its own, and a row needs no price.
IsSkipped(net, had, t) ==
    \/ Row[t].type = "Money Movement"
    \/ net = 0 /\ IF IsNontradeClose(t) THEN TRUE ELSE ~had /\ Row[t].act \in ClosingActions

\* Mutation: trades are clamped at account grain too.
DeltaAtGroupGrain(net, t) ==
    IF ~IsNontradeClose(t) /\ net * SignedDelta(t) >= 0 THEN SignedDelta(t)
    ELSE TowardZero(net, Row[t].qty) - net

NetDelta(net, t) ==
    IF ~IsNontradeClose(t) THEN SignedDelta(t)
    ELSE IF net > 0 THEN -Lower(Row[t].qty, net) ELSE Lower(Row[t].qty, -net)

\* Mutation: the walk never remembers that it held the security.
NetRowWithoutMemory(book, t) ==
    IF IsSkipped(book.lot.net, FALSE, t) THEN book
    ELSE [book EXCEPT !.lot.net = @ + NetDelta(@, t)]

NetRow(book, t) ==
    IF IsSkipped(book.lot.net, book.had, t) THEN book
    ELSE [book EXCEPT !.lot.net = @ + NetDelta(@, t), !.had = TRUE]

NetOpenQuantity(S, s) == Walk(S, s, NoHistory, NetRow).lot.net

\* Mutation: no clamp.
Unclamped(net, delta) == delta

\* A group's close is capped at the lot the group holds.
ClampedDelta(net, delta) ==
    IF net * delta < 0 THEN TowardZero(net, Abs(delta)) - net ELSE delta

\* Profit accumulates over the lots: what a row takes from the lot is
\* realised, the rest of it is opened.
PriceRow(book, t) ==
    LET lot   == book.lot
        delta == ClampedDelta(lot.net, EffectiveDelta(lot.net, book.had, t))
        taken == IF lot.net * delta < 0 THEN Lower(Abs(delta), Abs(lot.net)) ELSE 0
    IN  IF delta = 0 \/ ~HasPrice(t) THEN book
        ELSE [book EXCEPT !.had = TRUE,
                          !.lot.net = @ + delta,
                          !.lot.opened = @ + Abs(delta) - taken,
                          !.lot.realised = @ + taken]

\* The walk behind a group's price-based profit: what it realised, and the lot left.
PriceRealized(S, s) == Walk(S, s, NoHistory, PriceRow).lot
=============================================================================
