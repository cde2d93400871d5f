----------------------------- MODULE Detectors -----------------------------
(***************************************************************************)
(* The read-only reports on open groups that no pass can repair            *)
(* (src/tt_ledger/ingest/reconcile.py): a group whose close is attached to *)
(* another group, and a group that is nothing but closes.  Each names the  *)
(* groups that a merge with would leave fully closed.                      *)
(*                                                                         *)
(* members is the membership of every group, activity the account's rows.  *)
(***************************************************************************)
EXTENDS Routing, Lots, FiniteSetsExt

\* The largest position a group ever held in a security.
PeakExposure(S, s) ==
    Max({0} \cup {Abs(NetQuantities({u \in S : u <= t})[s]) : t \in S})

Contracts(S) == SumFunction([t \in S |-> Row[t].qty])

\* Mutation: fills are counted, not contracts.
OverClosesByFills(S, s) ==
    Cardinality({t \in S : Row[t].sec = s /\ (IsClosing(t) \/ IsBare(t))}) > PeakExposure(S, s)

\* More closing quantity than the group ever held: a fill that closed other
\* groups' lots too.
OverCloses(S, s) ==
    Contracts({t \in S : Row[t].sec = s /\ (IsClosing(t) \/ IsBare(t))}) > PeakExposure(S, s)

HeldSecurities(S) == {s \in Sec : NetQuantities(S)[s] # 0}

\* The group holds something, and the account none of it.
Misattributed(activity, S) ==
    /\ HeldSecurities(S) # {}
    /\ \A s \in HeldSecurities(S) : NetOpenQuantity(activity, s) = 0

MisattributedCoveredBy(members, g) ==
    {h \in Group \ {g} :
        /\ \E s \in HeldSecurities(members[g]) : OverCloses(members[h], s)
        /\ FullyClosed(members[g] \cup members[h])}

OrphanSettlement(S) ==
    /\ S # {}
    /\ \A t \in S : IsClosing(t)
    /\ Book(S).moved = {}

OrphanCoveredBy(members, g) ==
    {h \in Group \ {g} :
        /\ \E t \in members[g] : Row[t].sec \in HeldSecurities(members[h])
        /\ FullyClosed(members[h] \cup members[g])}
=============================================================================
