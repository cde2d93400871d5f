------------------------------ MODULE OrderRow ------------------------------
(***************************************************************************)
(* One row of the orders table and everyone who writes it: the host that   *)
(* records the order when it submits it (LedgerClient.record_order), the   *)
(* order-history syncs (pull.sync_orders), the push path                   *)
(* (apply_fill_event), the reconcile pass that groups the order's fills    *)
(* (_create_trade_group, link_orders_to_groups) and the operator           *)
(* (remap_trade_group, link_order_to_group).                               *)
(*                                                                         *)
(* A single statement is atomic, a read followed by an upsert is not: each *)
(* writer but the host reads the row in one step and writes the whole row  *)
(* back in a later one.  The broker's facts about the order (status, fills *)
(* and prices) are one number, the version of the order they describe;     *)
(* version 0 stands for a row without any.                                 *)
(***************************************************************************)
EXTENDS Integers, FiniteSets

CONSTANTS
    Syncer,      \* processes that run sync_orders (timer, CLI)
    Versions,    \* bound: states the order goes through at the broker
    Deliveries,  \* bound: messages the stream delivers about the order
    MaxEdits,    \* bound: operator commands
    MaxAborts,   \* bound: passes that die between two of their steps
    None         \* a column without a value; no row

ASSUME OrderRowAssumption ==
    /\ Versions \in Nat \ {0} /\ Deliveries \in Nat
    /\ MaxEdits \in Nat /\ MaxAborts \in Nat
    /\ Syncer \cap {"host", "push", "pass", "operator"} = {}
    /\ None \notin {"tag", "host", "chosen", "own", "linked", "auto"}

Writer == Syncer \cup {"host", "push", "pass", "operator"}

\* tag:      client_order_id and market_context_id, which only the host knows
\* strategy: strategy_id: what the host recorded, or what an operator chose
\* group:    trade_group_id: the host's own, one an operator linked, or the one
\*           a pass made
Row == [origin : {"zts", "broker"},
        tag : {None, "tag"},
        strategy : {None, "host", "chosen"},
        group : {None, "own", "linked", "auto"},
        facts : 0 .. Versions]

ASSUME NoneIsNoRow == None \notin Row

VARIABLES
    version,  \* the order at the broker (1: received)
    row,      \* the row of orders
    legs,     \* the version the rows of order_legs describe (0: none, or as submitted)
    joined,   \* the group the order's transactions are members of
    task,     \* where each writer is, the version it works with, the row it read
    sent,     \* messages the stream delivered
    edits,    \* operator commands issued
    aborts

vars == <<version, row, legs, joined, task, sent, edits, aborts>>

Step == {"idle", "read", "write", "legs", "attach", "stamp", "link", "remap"}

At(step, v, r) == [at |-> step, got |-> v, saw |-> r]

TypeOK ==
    /\ version \in 1 .. Versions
    /\ row \in Row \cup {None}
    /\ legs \in 0 .. Versions
    /\ joined \in {None, "own", "linked", "auto"}
    /\ task \in [Writer -> [at : Step, got : 0 .. Versions, saw : Row \cup {None}]]
    /\ sent \in 0 .. Deliveries
    /\ edits \in 0 .. MaxEdits
    /\ aborts \in 0 .. MaxAborts

\* The order was placed by the host, which has yet to record it, or elsewhere.
Init ==
    /\ version = 1
    /\ row = None /\ legs = 0 /\ joined = None
    /\ \E s \in {"write", "idle"} :
        task = [w \in Writer |-> At(IF w = "host" THEN s ELSE "idle", 0, None)]
    /\ sent = 0
    /\ edits = 0 /\ aborts = 0

-----------------------------------------------------------------------------
(* The store.                                                              *)

Coalesce(new, old) == IF new = None THEN old ELSE new

\* Mutation: preserve_if_null is not passed.
Replaced(old, new) == new

\* upsert_orders: the new row wins, except that a linkage column it has no value
\* for keeps the one it had.
Upserted(old, new) ==
    IF old = None THEN new
    ELSE [new EXCEPT !.tag = Coalesce(@, old.tag),
                     !.strategy = Coalesce(@, old.strategy),
                     !.group = Coalesce(@, old.group)]

IsAt(w, step) == task[w].at = step

GoTo(w, step, v, r) == task' = [task EXCEPT ![w] = At(step, v, r)]

Finish(w) == GoTo(w, "idle", 0, None)

-----------------------------------------------------------------------------
(* The broker.                                                             *)

Progress ==
    /\ version < Versions
    /\ version' = version + 1
    /\ UNCHANGED <<row, legs, joined, task, sent, edits, aborts>>

-----------------------------------------------------------------------------
(* The host: record_order writes the row, then its legs.                   *)

RecordOrder ==
    /\ IsAt("host", "write")
    /\ \E own \in {None, "own"} :
        row' = Upserted(row, [origin |-> "zts", tag |-> "tag", strategy |-> "host",
                              group |-> own, facts |-> 0])
    /\ GoTo("host", "legs", 0, None)
    /\ UNCHANGED <<version, legs, joined, sent, edits, aborts>>

RecordLegs ==
    /\ IsAt("host", "legs")
    /\ legs' = 0
    /\ Finish("host")
    /\ UNCHANGED <<version, row, joined, sent, edits, aborts>>

-----------------------------------------------------------------------------
(* sync_orders: fetch, look, write the row, write the legs.                *)

Fetch(s) ==
    /\ IsAt(s, "idle")
    /\ GoTo(s, "read", version, None)
    /\ UNCHANGED <<version, row, legs, joined, sent, edits, aborts>>

SyncReads(s) ==
    /\ IsAt(s, "read")
    /\ GoTo(s, "write", task[s].got, row)
    /\ UNCHANGED <<version, row, legs, joined, sent, edits, aborts>>

\* Mutation: the status of an order the host recorded is left alone.
LeftAlone(existing, v) ==
    IF existing # None /\ existing.origin = "zts" THEN existing
    ELSE [origin |-> "broker", tag |-> None,
          strategy |-> IF existing = None THEN None ELSE existing.strategy,
          group |-> IF existing = None THEN None ELSE existing.group,
          facts |-> v]

\* Mutation: a row built anew does not say where it is from.
NoOrigin(existing, v) ==
    [origin |-> None, tag |-> None, strategy |-> None, group |-> None, facts |-> v]

\* _build_order_row: a row of the host's is enriched, any other is built anew and
\* keeps the linkage it is known to have.
BuiltRow(existing, v) ==
    IF existing # None /\ existing.origin = "zts" THEN [existing EXCEPT !.facts = v]
    ELSE [origin |-> "broker", tag |-> None,
          strategy |-> IF existing = None THEN None ELSE existing.strategy,
          group |-> IF existing = None THEN None ELSE existing.group,
          facts |-> v]

SyncWrites(s) ==
    /\ IsAt(s, "write")
    /\ row' = Upserted(row, BuiltRow(task[s].saw, task[s].got))
    /\ GoTo(s, "legs", task[s].got, None)
    /\ UNCHANGED <<version, legs, joined, sent, edits, aborts>>

SyncWritesLegs(s) ==
    /\ IsAt(s, "legs")
    /\ legs' = task[s].got
    /\ Finish(s)
    /\ UNCHANGED <<version, row, joined, sent, edits, aborts>>

-----------------------------------------------------------------------------
(* The push path: messages may come late, again and out of order.          *)

\* An order the ledger does not know is passed over.
PushReads ==
    /\ IsAt("push", "idle")
    /\ sent < Deliveries
    /\ sent' = sent + 1
    /\ \E v \in 1 .. version :
        IF row = None THEN UNCHANGED task ELSE GoTo("push", "write", v, row)
    /\ UNCHANGED <<version, row, legs, joined, edits, aborts>>

PushWrites ==
    /\ IsAt("push", "write")
    /\ row' = Upserted(row, [task["push"].saw EXCEPT !.facts = task["push"].got])
    /\ Finish("push")
    /\ UNCHANGED <<version, legs, joined, sent, edits, aborts>>

-----------------------------------------------------------------------------
(* The reconcile pass, as far as this order goes.                          *)

Unlinked == IF row = None THEN TRUE ELSE row.group = None

\* The fills are synced and ungrouped; the pass looks whether the order carries a
\* group already.
PassLoads ==
    /\ IsAt("pass", "idle")
    /\ version > 1 /\ joined = None
    /\ GoTo("pass", "attach", 0, IF Unlinked THEN None ELSE row)
    /\ UNCHANGED <<version, row, legs, joined, sent, edits, aborts>>

\* The fills join the group the order carries, or a new one.
PassAttaches ==
    /\ IsAt("pass", "attach")
    /\ joined' = IF task["pass"].saw = None THEN "auto" ELSE task["pass"].saw.group
    /\ IF joined' = "auto" THEN GoTo("pass", "stamp", 0, None) ELSE Finish("pass")
    /\ UNCHANGED <<version, row, legs, sent, edits, aborts>>

\* _create_trade_group looks the order up once more; one that is not there is
\* passed over.
PassReads ==
    /\ IsAt("pass", "stamp")
    /\ IF row = None THEN Finish("pass") ELSE GoTo("pass", "write", 0, row)
    /\ UNCHANGED <<version, row, legs, joined, sent, edits, aborts>>

PassStamps ==
    /\ IsAt("pass", "write")
    /\ row' = Upserted(row, [task["pass"].saw EXCEPT !.group = "auto"])
    /\ Finish("pass")
    /\ UNCHANGED <<version, legs, joined, sent, edits, aborts>>

\* Mutation: only orders of the host's are healed.
LinkOwnOrders ==
    /\ IsAt("pass", "idle")
    /\ row # None /\ joined # None
    /\ row.group = None /\ row.origin = "zts"
    /\ row' = [row EXCEPT !.group = joined]
    /\ UNCHANGED <<version, legs, joined, task, sent, edits, aborts>>

\* link_orders_to_groups, once per pass.
LinkOrders ==
    /\ IsAt("pass", "idle")
    /\ row # None /\ joined # None
    /\ row.group = None
    /\ row' = [row EXCEPT !.group = joined]
    /\ UNCHANGED <<version, legs, joined, task, sent, edits, aborts>>

PassDies ==
    /\ ~IsAt("pass", "idle")
    /\ aborts < MaxAborts
    /\ aborts' = aborts + 1
    /\ Finish("pass")
    /\ UNCHANGED <<version, row, legs, joined, sent, edits>>

-----------------------------------------------------------------------------
(* The operator.                                                           *)

\* link_order_to_group refuses an order that carries a group.
LinkReads ==
    /\ IsAt("operator", "idle") /\ edits < MaxEdits
    /\ row # None /\ row.group = None
    /\ edits' = edits + 1
    /\ GoTo("operator", "link", 0, row)
    /\ UNCHANGED <<version, row, legs, joined, sent, aborts>>

LinkWrites ==
    /\ IsAt("operator", "link")
    /\ row' = Upserted(row, [task["operator"].saw EXCEPT !.group = "linked"])
    /\ Finish("operator")
    /\ UNCHANGED <<version, legs, joined, sent, edits, aborts>>

\* remap_trade_group gives the orders of a group another strategy.
RemapReads ==
    /\ IsAt("operator", "idle") /\ edits < MaxEdits
    /\ row # None /\ row.group # None
    /\ edits' = edits + 1
    /\ GoTo("operator", "remap", 0, row)
    /\ UNCHANGED <<version, row, legs, joined, sent, aborts>>

RemapWrites ==
    /\ IsAt("operator", "remap")
    /\ row' = Upserted(row, [task["operator"].saw EXCEPT !.strategy = "chosen"])
    /\ Finish("operator")
    /\ UNCHANGED <<version, legs, joined, sent, edits, aborts>>

-----------------------------------------------------------------------------
Host == RecordOrder \/ RecordLegs

Sync(s) == Fetch(s) \/ SyncReads(s) \/ SyncWrites(s) \/ SyncWritesLegs(s)

Push == PushReads \/ PushWrites

Pass == PassLoads \/ PassAttaches \/ PassReads \/ PassStamps \/ LinkOrders

Operator == LinkReads \/ LinkWrites \/ RemapReads \/ RemapWrites

Next ==
    \/ Progress \/ Host \/ Push \/ Pass \/ PassDies \/ Operator
    \/ \E s \in Syncer : Sync(s)

\* A command that was started is carried through; syncs and passes come again.
Fairness ==
    /\ WF_vars(Progress) /\ WF_vars(Host) /\ WF_vars(Pass)
    /\ WF_vars(PushWrites) /\ WF_vars(LinkWrites) /\ WF_vars(RemapWrites)
    /\ \A s \in Syncer : WF_vars(Sync(s))

Spec == Init /\ [][Next]_vars /\ Fairness

-----------------------------------------------------------------------------
(* Correctness.                                                            *)

(* What the host, a pass or an operator linked the order to is never wiped  *)
(* back to nothing, though every other writer writes whole rows from reads  *)
(* that may be older than the link (_ORDER_LINKAGE_COLS in store/sql.py).   *)
LinkageKept ==
    [][row # None =>
        /\ row' # None
        /\ row.tag # None => row'.tag # None
        /\ row.strategy # None => row'.strategy # None
        /\ row.group # None => row'.group # None]_vars

(* A sync, the stream and an operator may each put an older state of the    *)
(* order back, but as long as syncs come again the row and its legs end up  *)
(* with the broker's last word, and stay there (pull.sync_orders: "the      *)
(* authoritative source of order/leg/fill structure").                      *)
Converges == <>[](row # None /\ row.facts = Versions /\ legs = Versions)

(* An order whose fills are in a group comes to carry a group itself, even  *)
(* when the pass died between the two writes or the order was synced after  *)
(* its fills (link_orders_to_groups).                                       *)
CarriesGroup == joined # None ~> row # None /\ row.group # None
=============================================================================
