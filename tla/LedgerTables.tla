---------------------------- MODULE LedgerTables ----------------------------
(***************************************************************************)
(* The tables of the ledger that grouping reads and writes, and the        *)
(* LedgerStore calls on them (src/tt_ledger/store/sql.py).  Every call     *)
(* opens and commits a database transaction of its own, so each operator   *)
(* below is one atomic step of whichever actor makes the call, and nothing *)
(* ties two calls together.                                                *)
(*                                                                         *)
(* An amount stamped on a trade group (premium, fees, realised profit) is  *)
(* a sum over rows.  It is represented by what was summed: how many times  *)
(* each row was counted.  A trade_group_events row is represented by what  *)
(* it adds to the group's history: the entry, the rows an exit covers, or  *)
(* the group that continues this one; adjustment notes are left out.       *)
(***************************************************************************)
EXTENDS Routing

CONSTANTS
    Intent,     \* trades opened by the host platform at submit time
    NoIntent,   \* an order the host did not submit
    IntentOf    \* Order -> Intent \cup {NoIntent}

ASSUME IntentAssumption ==
    /\ NoIntent \notin Intent
    /\ IntentOf \in [Order -> Intent \cup {NoIntent}]

VARIABLES
    txns,        \* rows present in transactions
    linked,      \* rows whose order_id is set
    txnGroup,    \* transactions.trade_group_id
    orders,      \* rows present in orders
    orderGroup,  \* orders.trade_group_id
    groupRow,    \* trade_groups
    entries,     \* ENTRY events per group
    exits,       \* per group and row: exit events that cover the row
    edges,       \* rolled_to_group_id edges: roll and delivery continuations
    opened       \* the group the host opened for an intent

tables == <<txns, linked, txnGroup, orders, orderGroup, groupRow,
            entries, exits, edges, opened>>

Count == [Txn -> Nat]
None  == [t \in Txn |-> 0]
Once(S) == [t \in Txn |-> IF t \in S THEN 1 ELSE 0]
Support(count) == {t \in Txn : count[t] # 0}

Statuses == {"none", "open", "closed", "expired", "assigned", "exercised",
             "mixed", "unfilled"}
Reviews  == {"needs_review", "confirmed", "ignored", "invalid"}

GroupRowType ==
    [status   : Statuses,       \* "none": the key is not allocated
     manual   : BOOLEAN,        \* manually_attributed
     review   : Reviews,
     premium  : Count,          \* what total_premium sums
     fees     : Count,          \* what total_fees sums
     stamped  : BOOLEAN,        \* realized_pnl is not null
     realized : Count]          \* what realized_pnl sums

NoRow == [status |-> "none", manual |-> FALSE, review |-> "needs_review",
          premium |-> None, fees |-> None, stamped |-> FALSE, realized |-> None]

TablesType ==
    /\ txns \in SUBSET Txn
    /\ linked \in SUBSET {t \in Txn : Row[t].order \in Order}
    /\ txnGroup \in [Txn -> Group \cup {NoGroup}]
    /\ orders \in SUBSET Order
    /\ orderGroup \in [Order -> Group \cup {NoGroup}]
    /\ groupRow \in [Group -> GroupRowType]
    /\ entries \in [Group -> Nat]
    /\ exits \in [Group -> Count]
    /\ edges \in SUBSET (Group \X Group)
    /\ opened \in [Intent -> Group \cup {NoGroup}]

TablesInit ==
    /\ txns = {}
    /\ linked = {}
    /\ txnGroup = [t \in Txn |-> NoGroup]
    /\ orders = {}
    /\ orderGroup = [o \in Order |-> NoGroup]
    /\ groupRow = [g \in Group |-> NoRow]
    /\ entries = [g \in Group |-> 0]
    /\ exits = [g \in Group |-> None]
    /\ edges = {}
    /\ opened = [i \in Intent |-> NoGroup]

-----------------------------------------------------------------------------
(* Reads.                                                                  *)

OpenGroups == {g \in Group : groupRow[g].status = "open"}

GroupTransactions(g) == {t \in txns : txnGroup[t] = g}

\* account_activity's order_trade_group_id: through order_id, not tt_order_id.
OrderTradeGroup(t) == IF t \in linked THEN orderGroup[Row[t].order] ELSE NoGroup

\* The key a new trade_groups row gets.
FreeGroup(g) ==
    /\ groupRow[g].status = "none"
    /\ \A h \in Group : h < g => groupRow[h].status # "none"

-----------------------------------------------------------------------------
(* Writes.                                                                 *)

\* Mutation: a re-synced row blanks its linkage.
Overwrite(new, old) == new

\* An incoming null leaves a linkage column as it is.
Coalesce(new, old) == IF new = NoGroup THEN old ELSE new

UpsertTransaction(t, group) ==
    /\ txns' = txns \cup {t}
    /\ txnGroup' = [txnGroup EXCEPT ![t] = Coalesce(group, @)]
    /\ UNCHANGED <<linked, orders, orderGroup, groupRow, entries, exits, edges, opened>>

UpsertOrders(S, group) ==
    /\ orders' = orders \cup S
    /\ orderGroup' = [o \in Order |->
            IF o \in S THEN Coalesce(group, orderGroup[o]) ELSE orderGroup[o]]
    /\ UNCHANGED <<txns, linked, txnGroup, groupRow, entries, exits, edges, opened>>

\* Mutation: only rows whose order was there before some other row are linked.
LinkFirstRowOnly ==
    /\ linked' = linked \cup {t \in txns : Row[t].order \in orders /\ linked = {}}
    /\ UNCHANGED <<txns, txnGroup, orders, orderGroup, groupRow, entries, exits,
                   edges, opened>>

\* Rows with no order yet, matched by their exact tt_order_id.
LinkTransactionsToOrders ==
    /\ linked' = linked \cup {t \in txns : Row[t].order \in orders}
    /\ UNCHANGED <<txns, txnGroup, orders, orderGroup, groupRow, entries, exits,
                   edges, opened>>

\* Orders with no group whose grouped transactions all agree on one.
GroupsOfOrder(o) == {txnGroup[t] : t \in {u \in txns : Row[u].order = o}} \ {NoGroup}

LinkOrdersToGroups ==
    /\ orderGroup' = [o \in Order |->
            IF /\ o \in orders
               /\ orderGroup[o] = NoGroup
               /\ \E g \in Group : GroupsOfOrder(o) = {g}
            THEN CHOOSE g \in Group : g \in GroupsOfOrder(o)
            ELSE orderGroup[o]]
    /\ UNCHANGED <<txns, linked, txnGroup, orders, groupRow, entries, exits, edges,
                   opened>>

\* Mutation: the rows are not written.
AttachNothing(S, g) ==
    /\ txnGroup' = txnGroup
    /\ UNCHANGED <<txns, linked, orders, orderGroup, groupRow, entries, exits, edges,
                   opened>>

\* The attach is unconditional: it does not look at the group a row has.
AttachTransactions(S, g) ==
    /\ txnGroup' = [t \in Txn |-> IF t \in S THEN g ELSE txnGroup[t]]
    /\ UNCHANGED <<txns, linked, orders, orderGroup, groupRow, entries, exits, edges,
                   opened>>

\* The whole row is written, whatever the table holds by now.
UpsertTradeGroup(g, row) ==
    /\ groupRow' = [groupRow EXCEPT ![g] = row]
    /\ UNCHANGED <<txns, linked, txnGroup, orders, orderGroup, entries, exits, edges,
                   opened>>

\* Mutation: the caller writes the event too.
AddEntryEventTwice(g) ==
    /\ entries' = [entries EXCEPT ![g] = @ + 2]
    /\ UNCHANGED <<txns, linked, txnGroup, orders, orderGroup, groupRow, exits, edges,
                   opened>>

AddEntryEvent(g) ==
    /\ entries' = [entries EXCEPT ![g] = @ + 1]
    /\ UNCHANGED <<txns, linked, txnGroup, orders, orderGroup, groupRow, exits, edges,
                   opened>>

\* An exit event over some rows, with or without a continuation, or a bare
\* continuation (no rows).
AddExitEvent(g, S, to) ==
    /\ exits' = [exits EXCEPT ![g] = [t \in Txn |-> IF t \in S THEN @[t] + 1 ELSE @[t]]]
    /\ edges' = IF to = NoGroup THEN edges ELSE edges \cup {<<g, to>>}
    /\ UNCHANGED <<txns, linked, txnGroup, orders, orderGroup, groupRow, entries, opened>>

-----------------------------------------------------------------------------
(* The feed: what the broker sync and the host platform write.             *)

\* Pull re-sends rows it already sent; linkage columns come in null.
SyncTransaction(t) == UpsertTransaction(t, NoGroup)

SyncOrder(o) == UpsertOrders({o}, NoGroup)

\* open_trade_group: the host's group and, in a second call, its ENTRY event.
\* Nobody but the host knows the group before it returns, so the two are one.
OpenTradeGroup(i, g) ==
    /\ opened[i] = NoGroup
    /\ FreeGroup(g)
    /\ opened' = [opened EXCEPT ![i] = g]
    /\ groupRow' = [groupRow EXCEPT ![g] =
            [NoRow EXCEPT !.status = "open", !.manual = TRUE, !.review = "confirmed"]]
    /\ entries' = [entries EXCEPT ![g] = @ + 1]
    /\ UNCHANGED <<txns, linked, txnGroup, orders, orderGroup, exits, edges>>

\* record_order(trade_group=...) at submit time.
RecordOrder(o) ==
    /\ IntentOf[o] # NoIntent
    /\ opened[IntentOf[o]] # NoGroup
    /\ UpsertOrders({o}, opened[IntentOf[o]])
=============================================================================
