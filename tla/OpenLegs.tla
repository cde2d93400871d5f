------------------------------ MODULE OpenLegs ------------------------------
(***************************************************************************)
(* What the stores answer when a host asks which legs a group still holds: *)
(* open_group_legs folds rows by fold_open_group_legs                      *)
(* (src/tt_ledger/rows.py), net_open_by_group aggregates them in SQL       *)
(* (src/tt_ledger/store/sql.py).  Neither walks the rows in time order, as *)
(* the group's book does: opens and closes are added up, whatever their    *)
(* order, and the settlements that carry no action count once per leg.     *)
(***************************************************************************)
EXTENDS GroupBook, FiniteSetsExt

Quantity(S) == SumFunction([t \in S |-> Row[t].qty])

ActionNetsAsTrade(t) == IsOpening(t) \/ Row[t].act \in ClosingActions

IsPositionRemoval(t) == ~ActionNetsAsTrade(t) /\ Row[t].sub \in DOMAIN SettlementStatus

Opens(S, s)    == {t \in S : Row[t].sec = s /\ IsOpening(t)}
Removals(S, s) == {t \in S : Row[t].sec = s /\ IsPositionRemoval(t)}

Traded(S, s) ==
    Quantity(Opens(S, s))
        - Quantity({t \in S : Row[t].sec = s /\ Row[t].act \in ClosingActions})

\* Mutation: the physical and the cash row of one settlement are added up.
RemovedRowByRow(S, s) == Quantity(Removals(S, s))

\* The physical and the cash row of one settlement describe one event.
Removed(S, s) == Max({0} \cup {Row[t].qty : t \in Removals(S, s)})

NetOpen(S, s) == Traded(S, s) - Removed(S, s)

\* The side is that of the group's own opening fills.
Short(S, s) ==
    Quantity({t \in Opens(S, s) : Row[t].act \in BuyActions})
        < Quantity({t \in Opens(S, s) : Row[t].act \notin BuyActions})

SignedNetOpen(S, s) == IF Short(S, s) THEN -NetOpen(S, s) ELSE NetOpen(S, s)

\* open_position_shares: the groups that still claim a part of the position.
Shares(members, s) == {g \in DOMAIN members : NetOpen(members[g], s) > 0}
=============================================================================
