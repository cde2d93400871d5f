------------------------------- MODULE Lapse -------------------------------
(***************************************************************************)
(* synthesize_lapsed_settlements (src/tt_ledger/ingest/reconcile.py): the  *)
(* part of a reconcile pass that writes the settlement the broker never    *)
(* sent for a lot whose contract has expired, one row per open group and   *)
(* security, and retires the lot through _apply_exit.  It runs between the *)
(* linking and the snapshot of the pass, over a list of open groups of its *)
(* own, and uses the pass's own steps for what it shares with it: loading  *)
(* the groups (ListOpen, LoadRows) and the exits (ExitAttach, EmitEvent,   *)
(* Stamp).                                                                 *)
(*                                                                         *)
(* A synthesised row has an identity made of its group and its security,   *)
(* so the rows that may be synthesised are rows of the account like any    *)
(* other, members of Row that only this module ever puts in the table.     *)
(***************************************************************************)
EXTENDS Reconcile

CONSTANTS
    SettledGroup,  \* Txn -> the group a synthesised row is for, NoGroup for a broker's row
    LapsesAt,      \* the time expiry + settle_after of each expiring security
    Priced         \* securities that settle at a price a resolver must know

Expiring == DOMAIN LapsesAt

Synthetic == {t \in Txn : SettledGroup[t] # NoGroup}

ASSUME LapseAssumption ==
    /\ LapsesAt \in [Expiring -> Nat] /\ Expiring \subseteq Sec
    /\ Priced \subseteq Expiring
    /\ SettledGroup \in [Txn -> Group \cup {NoGroup}]
    /\ \A t \in Synthetic : /\ Row[t].sub = "Expiration" /\ IsNontradeClose(t)
                            /\ Row[t].act = NoAction /\ Row[t].order = NoOrder
                            /\ Row[t].sec \in Expiring

\* A group and a security have one settlement (a second one, for a lot of another size,
\* would replace it, which is left out); it is timed at the close of the contract's last
\* day, so that only settlements follow it, and the time to settle comes by whole days.
ASSUME SettlementAssumption ==
    /\ \A t, u \in Synthetic :
        SettledGroup[t] = SettledGroup[u] /\ Row[t].sec = Row[u].sec => t = u
    /\ \A t \in Synthetic, u \in Txn :
        t < u /\ Row[u].sec = Row[t].sec =>
            IsNontradeClose(u) \/ Row[u].type = "Money Movement"
    /\ \A t \in Synthetic, s \in Expiring :
        LapsesAt[s] <= Row[t].at => LapsesAt[s] <= LapsesAt[Row[t].sec]

VARIABLES
    stage,   \* how far each pass has come with its lapses
    clock,   \* the account's latest activity, as the pass read it
    known    \* securities whose settlement price can be resolved by now

lapseVars == <<stage, clock, known>>

Stages == {"due", "reading", "applying", "done"}

LapseType ==
    /\ stage \in [Pass -> Stages]
    /\ clock \in [Pass -> Nat]
    /\ known \in SUBSET Priced

LapseInit ==
    /\ stage = [p \in Pass |-> "due"]
    /\ clock = [p \in Pass |-> 0]
    /\ known = {}

-----------------------------------------------------------------------------
(* What is to be settled.                                                  *)

LastActivity == IF txns = {} THEN 0 ELSE Row[Last(txns)].at

\* The row that settles a net of a group in a security.
LapseRow(g, s, net) ==
    {t \in Synthetic : SettledGroup[t] = g /\ Row[t].sec = s /\ Row[t].qty = Abs(net)}

Settleable(s, now) ==
    /\ s \in Expiring /\ now >= LapsesAt[s]
    /\ s \in Priced => s \in known

\* Mutation: lots are looked for in the account's net (the code before the groups' own
\* books were used).
LapsedOfAccount(p) ==
    LET net(g)     == NetQuantities(Support(book[p][g]))
        account(s) == NetQuantities(txns)[s]
    IN  UNION {LapseRow(g, s, net(g)[s]) : g \in Listed(p),
               s \in {u \in Sec : Settleable(u, clock[p]) /\ account(u) # 0}}

\* Mutation: only short lots are settled.
LapsedShorts(p) ==
    LET net(g) == NetQuantities(Support(book[p][g]))
    IN  UNION {IF net(g)[s] >= 0 THEN {} ELSE LapseRow(g, s, net(g)[s]) :
               g \in Listed(p), s \in {u \in Sec : Settleable(u, clock[p])}}

\* Every lot past its time that an open group's own book holds.
Lapsed(p) ==
    LET net(g) == NetQuantities(Support(book[p][g]))
    IN  UNION {IF net(g)[s] = 0 THEN {} ELSE LapseRow(g, s, net(g)[s]) :
               g \in Listed(p), s \in {u \in Sec : Settleable(u, clock[p])}}

\* _apply_exit, group by group in the order of the list.
LapseJobs(p, S) ==
    LET of(k) == {t \in S : SettledGroup[t] = list[p][k]}
    IN  {NewJob("exit", k, list[p][k], of(k)) : k \in {i \in 1 .. Len(list[p]) : of(i) # {}}}

-----------------------------------------------------------------------------
(* The stage.                                                              *)

\* One read of account_activity fixes the clock; an account without any is left alone.
ReadClock(p) ==
    /\ pc[p] = "snapshot" /\ stage[p] = "due"
    /\ IF txns = {}
       THEN /\ stage' = [stage EXCEPT ![p] = "done"]
            /\ UNCHANGED <<pc, clock>>
       ELSE /\ stage' = [stage EXCEPT ![p] = "reading"]
            /\ clock' = [clock EXCEPT ![p] = LastActivity]
            /\ pc' = [pc EXCEPT ![p] = "list"]
    /\ UNCHANGED <<tables, phase, cand, intended, loading, list, book, cluster, rest,
                   newGroup, todo, job, pending, seen, applied, created, quiet, lone, settled,
                   aborts, known>>

\* All rows are written in one statement, as members of their groups.
Synthesise(p) ==
    /\ pc[p] = "work" /\ stage[p] = "reading"
    /\ LET S == Lapsed(p)
       IN  /\ txns' = txns \cup S
           /\ txnGroup' = [t \in Txn |-> IF t \in S THEN SettledGroup[t] ELSE txnGroup[t]]
           /\ todo' = [todo EXCEPT ![p] = LapseJobs(p, S)]
    /\ stage' = [stage EXCEPT ![p] = "applying"]
    /\ clock' = [clock EXCEPT ![p] = 0]
    /\ UNCHANGED <<linked, orders, orderGroup, groupRow, entries, exits, edges, opened,
                   pc, phase, cand, intended, loading, list, book, cluster, rest,
                   newGroup, job, pending, seen, applied, created, quiet, lone, settled,
                   aborts, known>>

\* The groups loaded here are not those the candidates will be routed to.
EndLapse(p) ==
    /\ pc[p] = "work" /\ stage[p] = "applying" /\ todo[p] = {}
    /\ stage' = [stage EXCEPT ![p] = "done"]
    /\ pc' = [pc EXCEPT ![p] = "snapshot"]
    /\ list' = [list EXCEPT ![p] = <<>>]
    /\ book' = [book EXCEPT ![p] = [g \in Group |-> None]]
    /\ applied' = [applied EXCEPT ![p] = <<>>]
    /\ UNCHANGED <<tables, phase, cand, intended, loading, cluster, rest, newGroup, todo,
                   job, pending, seen, created, quiet, lone, settled, aborts, clock, known>>

\* The pass goes on to its snapshot and past its clusters only when no lapse is under way.
RunOn(p) ==
    /\ Step(p)
    /\ pc[p] = "snapshot" \/ (pc[p] = "work" /\ todo[p] = {}) => stage[p] = "done"
    /\ stage' = [stage EXCEPT ![p] = IF pc'[p] = "idle" THEN "due" ELSE @]
    /\ UNCHANGED <<clock, known>>

PassStep(p) == ReadClock(p) \/ Synthesise(p) \/ EndLapse(p) \/ RunOn(p)

Die(p) ==
    /\ AbortPass(p)
    /\ stage' = [stage EXCEPT ![p] = "due"]
    /\ clock' = [clock EXCEPT ![p] = 0]
    /\ UNCHANGED known

-----------------------------------------------------------------------------
(* The world around the passes.                                            *)

\* The broker's rows, orders and the host's groups.
BrokerFeed ==
    /\ \/ \E t \in Txn \ Synthetic : FeedTransaction(t)
       \/ \E o \in Order : FeedOrder(o)
       \/ \E i \in Intent, g \in Group : FeedTradeGroup(i, g)
       \/ \E o \in Order : FeedRecordOrder(o)
    /\ UNCHANGED lapseVars

\* The host comes to know the underlying's settlement price.
PriceArrives(s) ==
    /\ s \in Priced \ known
    /\ known' = known \cup {s}
    /\ quiet' = [p \in Pass |-> FALSE]
    /\ settled' = FALSE
    /\ UNCHANGED <<tables, locals, lone, aborts, stage, clock>>

-----------------------------------------------------------------------------
(* Correctness.                                                            *)

\* A lot of an open group that should be settled: its contract's time has come, its
\* price is known, and the lot, settlements synthesised before left aside, has the size
\* its settlement is for; yet the group still holds of it.
Overdue(g, s) ==
    LET rows == GroupTransactions(g)
        lot  == NetQuantities(rows \ Synthetic)[s]
    IN  /\ g \in OpenGroups
        /\ NetQuantities(rows)[s] # 0
        /\ Settleable(s, LastActivity)
        /\ LapseRow(g, s, lot) # {}

(* When an undisturbed pass has gone through its lapses, no open group      *)
(* holds a lot past its time, in whichever direction, sibling groups that   *)
(* hold the contract the other way included (synthesize_lapsed_settlements: *)
(* "Each group settles its own leg at its own sign").                       *)
NoLotOverdue ==
    \A p \in Pass : quiet[p] /\ stage[p] = "done" /\ pc[p] = "snapshot" =>
        \A g \in Group, s \in Expiring : ~Overdue(g, s)

(* What docs/ingestion.md says of the same case: a settlement is            *)
(* synthesised only for a group whose net goes the way the account's net    *)
(* goes, and for no more than the account's net; a sibling that holds the   *)
(* contract the other way is left to a regroup.  The code looks at no net   *)
(* but the group's own (synthesize_lapsed_settlements).                     *)
CappedByAccount ==
    [][\A t \in Synthetic \cap (txns' \ txns) :
        LET s       == Row[t].sec
            lot     == NetQuantities(GroupTransactions(SettledGroup[t]))[s]
            account == NetQuantities(txns)[s]
        IN  lot * account > 0 /\ Row[t].qty <= Abs(account)]_<<vars, lapseVars>>

(* A lot past its time leaves its group in the end, though passes die half  *)
(* way and operators move rows (synthesize_lapsed_settlements).             *)
OverdueLotsSettle ==
    \A g \in Group, s \in Expiring : Overdue(g, s) ~> ~Overdue(g, s)

(* A settlement sits in a group that opened the contract it settles: the    *)
(* broker's own row, come after one was synthesised, changes nothing        *)
(* ("re-runs and late-arriving broker truth still no-op").                  *)
SettlementHasItsLot ==
    settled => \A t \in txns :
        IsNontradeClose(t) /\ txnGroup[t] # NoGroup =>
            \E u \in GroupTransactions(txnGroup[t]) :
                /\ ~IsNontradeClose(u)
                /\ Row[u].sec = Row[t].sec
=============================================================================
