------------------------------ MODULE Routing ------------------------------
(***************************************************************************)
(* How one reconcile pass splits its candidates: time clusters, the        *)
(* draw-down that routes closing rows to the open groups they offset, and  *)
(* the tests that link a close to the group that continues it              *)
(* (src/tt_ledger/ingest/reconcile.py).                                    *)
(***************************************************************************)
EXTENDS GroupBook

CONSTANTS
    Group,          \* primary keys of trade_groups
    NoGroup,        \* a null trade_group_id
    GroupTolerance, \* _GROUP_TOLERANCE, in seconds
    RollTolerance   \* _ROLL_TOLERANCE, in seconds

ASSUME RoutingAssumption ==
    /\ Group \subseteq Nat
    /\ NoGroup \notin Group
    /\ GroupTolerance \in Nat
    /\ RollTolerance \in Nat

-----------------------------------------------------------------------------
(* Clusters.  A row joins the cluster of the row before it when it was     *)
(* executed within the tolerance of THAT row, so a cluster ends at the     *)
(* first gap.  Clusters are handled in time order, so only the earliest    *)
(* one of the remaining rows is ever needed.                               *)

FirstCluster(S) ==
    {t \in S : \A u \in S : u < t =>
        \E v \in S : /\ u < v /\ v <= t
                     /\ Row[v].at - Row[u].at <= GroupTolerance}

-----------------------------------------------------------------------------
(* Draw-down.  Each closing row is consumed against every listed group     *)
(* whose remaining net it offsets, in list order; the row itself goes to   *)
(* the first of them.                                                      *)

Offsets(net, t) ==
    /\ net # 0
    /\ Row[t].act # NoAction => net * ActionDelta(t) < 0

\* Mutation: the first holder is charged with the whole row.
DrawFromFirst(list, remaining, t) ==
    LET s       == Row[t].sec
        holders == {k \in 1 .. Len(list) : Offsets(remaining[list[k]][s], t)}
        g       == list[First(holders)]
    IN  IF holders = {} THEN [remaining |-> remaining, left |-> Row[t].qty, first |-> NoGroup]
        ELSE [remaining |-> [remaining EXCEPT ![g][s] =
                                IF @ > 0 THEN @ - Row[t].qty ELSE @ + Row[t].qty],
              left |-> 0, first |-> g]

DrawDown(list, remaining, t) ==
    LET s == Row[t].sec
        draw[k \in 0 .. Len(list)] ==
            IF k = 0 THEN [remaining |-> remaining, left |-> Row[t].qty, first |-> NoGroup]
            ELSE LET d    == draw[k - 1]
                     g    == list[k]
                     net  == d.remaining[g][s]
                     take == Lower(d.left, Abs(net))
                 IN  IF d.left > 0 /\ Offsets(net, t)
                     THEN [remaining |-> [d.remaining EXCEPT ![g][s] = TowardZero(net, take)],
                           left      |-> d.left - take,
                           first     |-> IF d.first = NoGroup THEN g ELSE d.first]
                     ELSE d
    IN  draw[Len(list)]

\* The first listed group that ever held the row's security.
MemberOf(list, members, t) ==
    LET holds == {k \in 1 .. Len(list) :
                    \E u \in members[list[k]] : Row[u].sec = Row[t].sec}
    IN  IF holds = {} THEN NoGroup ELSE list[First(holds)]

\* Mutation: a close goes to the first group that ever held its security.
RouteByMembership(list, members, routed, t) ==
    IF IsClosing(t)
    THEN [routed EXCEPT !.to = [@ EXCEPT ![t] = MemberOf(list, members, t)]]
    ELSE routed

(* The whole cluster, row by row: where each row goes (NoGroup: the rest,  *)
(* which opens a new group) and what is left of every listed group's net.  *)
RouteRow(list, members, routed, t) ==
    LET drawn == DrawDown(list, routed.remaining, t)
    IN  CASE IsClosing(t) ->
                [remaining |-> drawn.remaining,
                 to |-> [routed.to EXCEPT ![t] =
                            IF drawn.first # NoGroup THEN drawn.first
                            ELSE MemberOf(list, members, t)]]
          [] ~IsClosing(t) /\ IsBare(t) ->
                [remaining |-> drawn.remaining,
                 to |-> [routed.to EXCEPT ![t] = drawn.first]]
          [] OTHER -> routed

RouteCluster(list, members, cluster) ==
    LET route[i \in 0 .. Len(Row)] ==
            IF i = 0 THEN [remaining |-> [g \in Group |-> NetQuantities(members[g])],
                           to        |-> [t \in Txn |-> NoGroup]]
            ELSE IF i \in cluster THEN RouteRow(list, members, route[i - 1], i)
                                  ELSE route[i - 1]
    IN  route[Len(Row)]

-----------------------------------------------------------------------------
(* Continuations.                                                          *)

\* A close and an open on one underlying: the two halves of a roll.
SameUnderlying(closes, opens) ==
    \E t \in closes, u \in opens : Row[t].und = Row[u].und

\* An assignment or exercise whose delivered position is among the opens.
DeliversUnderlying(closes, opens) ==
    \E t \in closes, u \in opens :
        /\ IsNontradeClose(t)
        /\ SettlementStatus[Row[t].sub] \in {"assigned", "exercised"}
        /\ IsDelivery(u)
        /\ Row[t].und = Row[u].und

MaxQuantity(S) ==
    IF S = {} THEN 0 ELSE Row[CHOOSE t \in S : \A u \in S : Row[u].qty <= Row[t].qty].qty

OptionTypes(S) == {Row[t].right : t \in S} \ {"-"}

\* Mutation: a close may also follow its opens.
LegsInAnyOrder(closes, opens) ==
    /\ Row[First(opens)].at - Row[Last(closes)].at <= RollTolerance
    /\ SameUnderlying(closes, opens)
    /\ MaxQuantity(closes) = MaxQuantity(opens)

\* A close cluster and a later open cluster that together are one roll.
\* Both sets are non-empty.
LegsOfOneRoll(closes, opens) ==
    /\ Row[First(opens)].at - Row[Last(closes)].at \in 0 .. RollTolerance
    /\ SameUnderlying(closes, opens)
    /\ MaxQuantity(closes) = MaxQuantity(opens)
    /\ \/ OptionTypes(closes) = {}
       \/ OptionTypes(opens) = {}
       \/ OptionTypes(closes) = OptionTypes(opens)
=============================================================================
