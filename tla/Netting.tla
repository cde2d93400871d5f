------------------------------ MODULE Netting ------------------------------
(***************************************************************************)
(* The group-grain book and the draw-down, exercised over every way to     *)
(* spread an account's rows over its groups.  Rows are attached to groups  *)
(* in any order, by whatever path (reconcile, an operator, a late sync);   *)
(* then a cluster of later rows arrives and is routed.  Nothing here is a  *)
(* pass: GroupBook, Routing, Lots and Detectors are pure, and the          *)
(* properties say what a pass, a report or a rebuild may rely on.          *)
(***************************************************************************)
EXTENDS Detectors, OpenLegs

ASSUME NettingAssumption == IsFiniteSet(Group)

VARIABLES
    members,  \* the rows of each group
    cluster   \* the rows to be routed

vars == <<members, cluster>>

Attached == UNION {members[g] : g \in Group}

TypeOK ==
    /\ members \in [Group -> SUBSET Txn]
    /\ cluster \in SUBSET Txn

Init ==
    /\ members = [g \in Group |-> {}]
    /\ cluster = {}

Attach(g, t) ==
    /\ cluster = {}
    /\ t \notin Attached
    /\ members' = [members EXCEPT ![g] = @ \cup {t}]
    /\ UNCHANGED cluster

\* The cluster is built up the list, from rows later than every attached one.
Arrive(t) ==
    /\ \A u \in Attached \cup cluster : u < t
    /\ cluster' = cluster \cup {t}
    /\ UNCHANGED members

Next ==
    \/ \E g \in Group, t \in Txn : Attach(g, t)
    \/ \E t \in Txn : Arrive(t)

Spec == Init /\ [][Next]_vars

-----------------------------------------------------------------------------
(* The book of one group.                                                  *)

Trades(S, s) == {t \in S : Row[t].sec = s}

\* Only opens of one direction and explicit closes or settlements, no row both.
OneSided(S) ==
    /\ \A t \in S : /\ Row[t].type # "Money Movement"
                    /\ IsClosing(t) <=> ~IsOpening(t)
    /\ \A t, u \in S : IsOpening(t) /\ IsOpening(u) /\ Row[t].sec = Row[u].sec
                        => Row[t].act = Row[u].act

(* What a one-sided group holds, computed the other way round: the opens    *)
(* less the closes of the best suffix, i.e. the largest excess of opens     *)
(* over closes that any tail of the history shows (_net_quantities).        *)
Excess(S, s, from) ==
    SumFunctionOnSet([t \in Txn |-> IF IsClosing(t) THEN -Row[t].qty ELSE Row[t].qty],
                     {t \in Trades(S, s) : t >= from})

NetIsLargestExcess ==
    \A g \in Group, s \in Sec :
        OneSided(members[g]) =>
            Abs(NetQuantities(members[g])[s])
                = Max({0} \cup {Excess(members[g], s, from) : from \in Txn})

-----------------------------------------------------------------------------
(* The routing of a cluster over the groups, in any list order.            *)

Lists == {l \in [1 .. Cardinality(Group) -> Group] : \A g \in Group : \E k \in DOMAIN l : l[k] = g}

Nets == [g \in Group |-> NetQuantities(members[g])]

\* The cluster only closes what is held of s: a settlement meets either side,
\* a trade no group that holds its own side.
OnlyCloses(s) ==
    \A t \in Trades(cluster, s) :
        /\ IsClosing(t)
        /\ Row[t].act # NoAction => \A g \in Group : Nets[g][s] * ActionDelta(t) <= 0

HeldBy(net, s) == SumFunction([g \in Group |-> Abs(net[g][s])])

Routed(l) == RouteCluster(l, members, cluster)

\* The groups' own books once the cluster is attached where it was routed.
After(routed) ==
    [g \in Group |-> NetQuantities(members[g] \cup {t \in cluster : routed.to[t] = g})]

(* The draw-down takes what the closes carry and no more, over all groups   *)
(* together: no lot is taken twice and none is missed while a close has     *)
(* quantity left (_draw_down).                                              *)
DrawDownConserves ==
    \A s \in Sec : OnlyCloses(s) =>
        \A l \in Lists :
            HeldBy(Routed(l).remaining, s)
                = Max({0, HeldBy(Nets, s) - Contracts(Trades(cluster, s))})

(* Closes of one lot each strand no lot: once they are attached where they  *)
(* were routed, the groups' own books show the same total (two expirations  *)
(* that both landed on one of two groups left the other open forever).      *)
NoLotStranded ==
    \A s \in Sec :
        /\ OnlyCloses(s)
        /\ \A t \in Trades(cluster, s) : Row[t].qty = 1 /\ Row[t].type # "Money Movement"
        =>
            \A l \in Lists :
                LET routed == Routed(l)
                IN  HeldBy(After(routed), s) = HeldBy(routed.remaining, s)

-----------------------------------------------------------------------------
(* The account's book beside the groups'.  The attached rows are all there *)
(* is of the account.                                                      *)

\* What row t finds in the book of S.
Finds(S, t) == NetQuantities({u \in S : u < t})[Row[t].sec]

\* Every row means what it says: opens add to what is held, closes meet a
\* holding of the other side.
Tidy(S) ==
    \A t \in S :
        /\ Moves(Finds(S, t), t)
        /\ IsOpening(t) => Finds(S, t) * ActionDelta(t) >= 0
        /\ IsClosing(t) /\ Row[t].act # NoAction => Finds(S, t) * ActionDelta(t) < 0

\* And no close exceeds what it meets.
Backed(S) ==
    /\ Tidy(S)
    /\ \A t \in S : Closes(Finds(S, t), t) => Row[t].qty <= Abs(Finds(S, t))

\* Within one instant no close is listed before what replay applies first.
OpensListedFirst(S) ==
    \A t, u \in S : t < u /\ Row[t].at = Row[u].at /\ IsClosing(t) => IsClosing(u)

(* When every group closes only what it holds, the groups' nets add up to   *)
(* the account's: the clamped walk per group in list order and the walk     *)
(* through zero over the account, opens first, tell one story, so an open   *)
(* group is a lot the account holds (net_open_quantities: "its netting must *)
(* match group accounting's view").  Where a settlement takes whatever is   *)
(* held, the groups must hold one side.                                     *)
GroupsSumToAccount ==
    cluster = {} /\ (\A g \in Group : Backed(members[g])) =>
        \A s \in Sec :
            \/ ~OneSided(Trades(Attached, s)) /\ \E t \in Trades(Attached, s) : IsNontradeClose(t)
            \/ NetOpenQuantity(Attached, s) = SumFunction([g \in Group |-> Nets[g][s]])

(* The quantity walk and the rebuild agree, whatever the history, unless a  *)
(* row carries no price, where they differ on purpose (net_open_quantities: *)
(* "the same walk _replay_security does").                                  *)
WalksAgree ==
    cluster = {} =>
        \A s \in Sec : Trades(Attached, s) \cap Unpriced = {} =>
            NetOpenQuantity(Attached, s) = ReplaySecurity(Attached, s).lot.net

(* A rebuild uses every contract and every fee once: what a lifecycle       *)
(* opened it has realised when it closes, what is left of the open lot is   *)
(* its net, no row's fees are in two lifecycles, and the rows charged carry *)
(* just the contracts opened and realised, a settlement perhaps more (a     *)
(* flip's fees are "attributed entirely to the lifecycle it CLOSES").       *)
ContractsAndFeesOnce ==
    cluster = {} =>
        \A s \in Sec :
            LET book    == ReplaySecurity(Attached, s)
                lots    == {book.lot} \cup book.closed
                charged == UNION {lot.fees : lot \in lots}
                used    == SumFunction([lot \in lots |-> lot.opened + lot.realised])
                carried == Contracts(charged)
            IN  /\ \A lot \in lots : Abs(lot.net) = lot.opened - lot.realised
                /\ \A k, l \in lots : k # l => k.fees \cap l.fees = {}
                /\ used <= carried
                /\ (\A t \in charged : ~IsNontradeClose(t)) => used = carried

(* The profit of a group is taken from the same position its book shows:    *)
(* the price walk ends at the group's net, and has realised exactly the     *)
(* contracts the group opened and no longer holds, over-closes included     *)
(* (price_realized_gross with clamp_closes against _group_net_step).        *)
ProfitFollowsBook ==
    cluster = {} =>
        \A g \in Group : Tidy(members[g]) /\ OpensListedFirst(members[g]) /\ members[g] \cap Unpriced = {} =>
            \A s \in Sec :
                LET lot == PriceRealized(members[g], s)
                IN  /\ lot.net = Nets[g][s]
                    /\ lot.realised = lot.opened - Abs(lot.net)

\* Trades close no more than the group holds, and settlements come last, each row
\* for all that the trades have left.
SettledWhole(S) ==
    LET trades == {t \in S : ~IsPositionRemoval(t)}
    IN  /\ \A t \in trades : IsClosing(t) => Row[t].qty <= Abs(Finds(S, t))
        /\ \A t \in S \ trades :
            /\ Row[t].qty = Abs(NetQuantities(trades)[Row[t].sec])
            /\ \A u \in trades : Row[u].sec = Row[t].sec => u < t

(* The legs a host is told a group holds are those of the group's book,     *)
(* side included, as long as a settlement removes all the group holds: the  *)
(* cash row beside the physical one is no second removal, and a contract    *)
(* opened, closed in part and opened again nets out without being walked    *)
(* (fold_open_group_legs, net_open_by_group: "counted once per leg").       *)
LegsMatchBook ==
    \A g \in Group :
        OneSided(members[g]) /\ SettledWhole(members[g]) =>
            \A s \in Sec :
                /\ SignedNetOpen(members[g], s) = Nets[g][s]
                /\ g \in Shares(members, s) <=> s \in HeldSecurities(members[g])

(* When two groups are all of a one-sided account, and it is flat and its   *)
(* closes never exceeded its holding, the report on the one left stuck      *)
(* names the other as the group to merge it with: for a group of closes     *)
(* alone always, for one that holds something if its own closes were in     *)
(* order (find_misattributed_open_groups, find_orphan_settlement_groups:    *)
(* covered_by means "merging into this group closes both").                 *)
Flat(S) == \A s \in Sec : NetOpenQuantity(S, s) = 0

StuckGroupIsPaired ==
    cluster = {} /\ OneSided(Attached) /\ Backed(Attached) /\ Flat(Attached) =>
        \A g, h \in Group : g # h /\ Attached = members[g] \cup members[h] =>
            /\ OrphanSettlement(members[g]) => h \in OrphanCoveredBy(members, g)
            /\ Backed(members[g]) /\ HeldSecurities(members[g]) # {}
               => /\ Misattributed(Attached, members[g])
                  /\ h \in MisattributedCoveredBy(members, g)
=============================================================================
