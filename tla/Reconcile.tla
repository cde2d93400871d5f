----------------------------- MODULE Reconcile -----------------------------
(***************************************************************************)
(* reconcile(): the passes that turn synced rows into trade groups         *)
(* (src/tt_ledger/ingest/reconcile.py), running against the tables of      *)
(* LedgerTables while the feed keeps adding rows.                          *)
(*                                                                         *)
(* A pass is a coroutine that awaits one store call after another.  What   *)
(* it learned from an earlier call (the candidate rows, the member rows of *)
(* the open groups, a trade_groups row) lives in its local variables and   *)
(* may be out of date when a later call uses it.  Each action below is one *)
(* store call together with the local work that follows it up to the next  *)
(* call; a read nobody else can influence (securities, the existence of a  *)
(* group) and the append of a note nobody reads are part of the call       *)
(* before or after them.                                                   *)
(*                                                                         *)
(* No lot of the account lapses here: synthesize_lapsed_settlements finds  *)
(* nothing to settle.  A pass looks at all of the activity (since is None, *)
(* the default): one that is given a date leaves the rows before it to a   *)
(* pass that is not.  dry_run writes nothing and is not a pass.            *)
(***************************************************************************)
EXTENDS LedgerTables

CONSTANTS
    Pass,       \* reconcile calls that may be in flight
    Overlap,    \* whether two passes may be in flight at once
    MaxAborts   \* bound: passes that fail or die before they end

ASSUME ReconcileAssumption ==
    /\ Overlap \in BOOLEAN
    /\ MaxAborts \in Nat

VARIABLES
    pc,        \* the next store call of each pass
    phase,     \* "routed", "intent" (pre-attributed rows first) or "heal"
    cand,      \* candidates not yet taken into a cluster
    intended,  \* the snapshot's order_trade_group_id
    loading,   \* open groups whose rows are still to be read
    list,      \* open_groups, in list order
    book,      \* the rows of each group in list, as counts
    cluster,   \* rows of the current cluster still to be routed
    rest,      \* rows of the current cluster that open a new group
    newGroup,  \* that group, once created
    todo,      \* the attributions the current cluster still needs
    job,       \* the one being carried out
    pending,   \* its events still to be written
    seen,      \* the trade_groups row it read
    applied,   \* exits carried out so far, for the roll post-pass
    created,   \* groups created so far, for the roll post-pass
    \* History, which only the properties read:
    quiet,     \* nothing else has written since this pass began
    lone,      \* no other pass has been in flight since this one began
    settled,   \* a quiet pass has ended and nothing has been written since
    aborts     \* number of aborted passes

locals == <<pc, phase, cand, intended, loading, list, book, cluster, rest,
            newGroup, todo, job, pending, seen, applied, created>>
vars == <<tables, locals, quiet, lone, settled, aborts>>

\* "fill" and "exit" come from pre-attributed orders or from the routing,
\* "create" from the rows the routing left over.  Jobs of one cluster are
\* done in order of key, and a fill before the exit with the same key.
\* "to" is the group an exit rolls to.
Job == [key : Nat, kind : {"fill", "exit", "create"}, group : Group \cup {NoGroup},
        rows : SUBSET Txn, to : Group \cup {NoGroup}]

NoJob == [key |-> 0, kind |-> "create", group |-> NoGroup, rows |-> {}, to |-> NoGroup]

NewJob(kind, key, g, S) ==
    [key |-> key, kind |-> kind, group |-> g, rows |-> S, to |-> NoGroup]

\* What the roll post-pass is told of each routed exit and each new group.
AppliedExit  == [group : Group, rows : SUBSET Txn, rolled : BOOLEAN]
CreatedGroup == [group : Group, rows : SUBSET Txn]

Event == [key : Nat, rows : SUBSET Txn, to : Group \cup {NoGroup}]

PcValues == {"idle", "linkOrders", "snapshot", "list", "load", "work",
             "refreshRead", "refreshWrite", "createAttach", "createOrders",
             "createEntry", "event", "stamp", "rolls", "heal", "healWrite"}

TypeOK ==
    /\ TablesType
    /\ pc \in [Pass -> PcValues]
    /\ phase \in [Pass -> {"routed", "intent", "heal"}]
    /\ cand \in [Pass -> SUBSET Txn]
    /\ intended \in [Pass -> [Txn -> Group \cup {NoGroup}]]
    /\ loading \in [Pass -> SUBSET Group]
    /\ list \in [Pass -> Seq(Group)]
    /\ book \in [Pass -> [Group -> Count]]
    /\ cluster \in [Pass -> SUBSET Txn]
    /\ rest \in [Pass -> SUBSET Txn]
    /\ newGroup \in [Pass -> Group \cup {NoGroup}]
    /\ todo \in [Pass -> SUBSET Job]
    /\ job \in [Pass -> Job]
    /\ pending \in [Pass -> SUBSET Event]
    /\ seen \in [Pass -> GroupRowType]
    /\ applied \in [Pass -> Seq(AppliedExit)]
    /\ created \in [Pass -> Seq(CreatedGroup)]
    /\ quiet \in [Pass -> BOOLEAN]
    /\ lone \in [Pass -> BOOLEAN]
    /\ settled \in BOOLEAN
    /\ aborts \in 0 .. MaxAborts

Init ==
    /\ TablesInit
    /\ pc = [p \in Pass |-> "idle"]
    /\ phase = [p \in Pass |-> "routed"]
    /\ cand = [p \in Pass |-> {}]
    /\ intended = [p \in Pass |-> [t \in Txn |-> NoGroup]]
    /\ loading = [p \in Pass |-> {}]
    /\ list = [p \in Pass |-> <<>>]
    /\ book = [p \in Pass |-> [g \in Group |-> None]]
    /\ cluster = [p \in Pass |-> {}]
    /\ rest = [p \in Pass |-> {}]
    /\ newGroup = [p \in Pass |-> NoGroup]
    /\ todo = [p \in Pass |-> {}]
    /\ job = [p \in Pass |-> NoJob]
    /\ pending = [p \in Pass |-> {}]
    /\ seen = [p \in Pass |-> NoRow]
    /\ applied = [p \in Pass |-> <<>>]
    /\ created = [p \in Pass |-> <<>>]
    /\ quiet = [p \in Pass |-> FALSE]
    /\ lone = [p \in Pass |-> FALSE]
    /\ settled = FALSE
    /\ aborts = 0

-----------------------------------------------------------------------------
(* The in-memory books.                                                    *)

\* Mutation: rows are added whether or not they are held (the code before the guard).
ExtendAll(count, S) ==
    [t \in Txn |-> IF t \in S THEN count[t] + 1 ELSE count[t]]

\* _OpenGroup.extend_unique: a row already held is not added again.
ExtendUnique(count, S) ==
    [t \in Txn |-> IF t \in S /\ count[t] = 0 THEN 1 ELSE count[t]]

Members(p) == [g \in Group |-> Support(book[p][g])]

Listed(p) == {list[p][k] : k \in 1 .. Len(list[p])}

Without(seq, g) ==
    IF \E k \in 1 .. Len(seq) : seq[k] = g
    THEN LET k == CHOOSE k \in 1 .. Len(seq) : seq[k] = g
         IN  SubSeq(seq, 1, k - 1) \o SubSeq(seq, k + 1, Len(seq))
    ELSE seq

\* Mutation: rows that have a group are candidates again.
CandidatesAgain ==
    {t \in txns : t \in linked \/ IsNontradeClose(t) \/ IsDelivery(t)}

Candidates ==
    {t \in txns : /\ txnGroup[t] = NoGroup
                  /\ t \in linked \/ IsNontradeClose(t) \/ IsDelivery(t)}

\* The job a pass turns to next.
NextJob(p, j) ==
    /\ pc[p] = "work"
    /\ j \in todo[p]
    /\ \A k \in todo[p] : \/ j.key < k.key
                          \/ j.key = k.key /\ (j.kind = "fill" \/ k = j)

-----------------------------------------------------------------------------
(* Linking and loading.                                                    *)

MayBegin(p) == pc[p] = "idle" /\ (Overlap \/ \A q \in Pass : pc[q] = "idle")

BeginPass(p) ==
    /\ MayBegin(p)
    /\ LinkTransactionsToOrders
    /\ pc' = [pc EXCEPT ![p] = "linkOrders"]
    /\ lone' = [q \in Pass |-> q = p /\ \A r \in Pass : pc[r] = "idle"]
    /\ quiet' = lone'
    /\ UNCHANGED <<phase, cand, intended, loading, list, book, cluster, rest,
                   newGroup, todo, job, pending, seen, applied, created,
                   settled, aborts>>

LinkOrders(p) ==
    /\ pc[p] = "linkOrders"
    /\ LinkOrdersToGroups
    /\ pc' = [pc EXCEPT ![p] = "snapshot"]
    /\ UNCHANGED <<phase, cand, intended, loading, list, book, cluster, rest,
                   newGroup, todo, job, pending, seen, applied, created, quiet, lone,
                   settled, aborts>>

\* One read of account_activity fixes the candidates and their orders' groups.
Snapshot(p) ==
    /\ pc[p] = "snapshot"
    /\ cand' = [cand EXCEPT ![p] = Candidates]
    /\ intended' = [intended EXCEPT ![p] =
            [t \in Txn |-> IF t \in Candidates THEN OrderTradeGroup(t) ELSE NoGroup]]
    /\ pc' = [pc EXCEPT ![p] = "list"]
    /\ UNCHANGED <<tables, phase, loading, list, book, cluster, rest, newGroup, todo,
                   job, pending, seen, applied, created, quiet, lone, settled, aborts>>

\* _load_open_groups reads the list of open groups, then their rows one group
\* at a time, in whatever order the unordered query returned them.
ListOpen(p) ==
    /\ pc[p] = "list"
    /\ loading' = [loading EXCEPT ![p] = OpenGroups]
    /\ list' = [list EXCEPT ![p] = <<>>]
    /\ book' = [book EXCEPT ![p] = [g \in Group |-> None]]
    /\ pc' = [pc EXCEPT ![p] = IF OpenGroups # {} THEN "load"
                               ELSE IF phase[p] = "heal" THEN "heal" ELSE "work"]
    /\ UNCHANGED <<tables, phase, cand, intended, cluster, rest, newGroup, todo, job,
                   pending, seen, applied, created, quiet, lone, settled, aborts>>

LoadRows(p, g) ==
    /\ pc[p] = "load"
    /\ g \in loading[p]
    /\ book' = [book EXCEPT ![p][g] = Once(GroupTransactions(g))]
    /\ list' = [list EXCEPT ![p] = Append(@, g)]
    /\ loading' = [loading EXCEPT ![p] = @ \ {g}]
    /\ pc' = [pc EXCEPT ![p] = IF loading[p] # {g} THEN "load"
                               ELSE IF phase[p] = "heal" THEN "heal" ELSE "work"]
    /\ UNCHANGED <<tables, phase, cand, intended, cluster, rest, newGroup, todo, job,
                   pending, seen, applied, created, quiet, lone, settled, aborts>>

-----------------------------------------------------------------------------
(* One cluster: pre-attributed rows first, then the routing of the others. *)

\* Mutation: a row whose order names no group is taken for an intent row too.
IntentJobsOfAll(p, rows) ==
    LET of(g) == {t \in rows : intended[p][t] = g}
        named == {g \in Group \cup {NoGroup} : of(g) # {}}
    IN  {NewJob("fill", First(of(g)), g, of(g)) : g \in named}

\* Rows whose order names a group: its opens join it, its closes leave it.
IntentJobs(p, rows) ==
    LET of(g) == {t \in rows : intended[p][t] = g}
        named == {g \in Group : of(g) # {}}
        fills == {NewJob("fill", First(of(g)), g, {t \in of(g) : ~IsClosing(t)}) : g \in named}
        exit  == {NewJob("exit", First(of(g)), g, {t \in of(g) : IsClosing(t)}) : g \in named}
    IN  {j \in fills \cup exit : j.rows # {}}

TakeCluster(p) ==
    /\ pc[p] = "work" /\ phase[p] = "routed" /\ todo[p] = {}
    /\ cand[p] # {}
    /\ LET c == FirstCluster(cand[p])
       IN  /\ cand' = [cand EXCEPT ![p] = @ \ c]
           /\ cluster' = [cluster EXCEPT ![p] = {t \in c : intended[p][t] = NoGroup}]
           /\ todo' = [todo EXCEPT ![p] = IntentJobs(p, c)]
    /\ phase' = [phase EXCEPT ![p] = "intent"]
    /\ rest' = [rest EXCEPT ![p] = {}]
    /\ newGroup' = [newGroup EXCEPT ![p] = NoGroup]
    /\ UNCHANGED <<tables, pc, intended, loading, list, book, job, pending, seen,
                   applied, created, quiet, lone, settled, aborts>>

\* An order's group that is not among the open ones is fetched, whatever its
\* status, and stays in the list for the rest of the pass.
FindGroup(p, j) ==
    /\ NextJob(p, j)
    /\ phase[p] = "intent"
    /\ j.group \notin Listed(p)
    /\ book' = [book EXCEPT ![p][j.group] = Once(GroupTransactions(j.group))]
    /\ list' = [list EXCEPT ![p] = Append(@, j.group)]
    /\ UNCHANGED <<tables, pc, phase, cand, intended, loading, cluster, rest, newGroup,
                   todo, job, pending, seen, applied, created, quiet, lone, settled, aborts>>

RoutedJobs(p, routed) ==
    LET bucket(g) == {t \in cluster[p] : routed.to[t] = g}
        opens     == bucket(NoGroup)
        closes    == {g \in Group : bucket(g) # {}}
        create    == NewJob("create", 0, NoGroup, opens)
    IN  {NewJob("exit", First(bucket(g)), g, bucket(g)) : g \in closes}
        \cup (IF opens # {} THEN {create} ELSE {})

Route(p) ==
    /\ pc[p] = "work" /\ phase[p] = "intent" /\ todo[p] = {}
    /\ LET routed == RouteCluster(list[p], Members(p), cluster[p])
       IN  /\ todo' = [todo EXCEPT ![p] = RoutedJobs(p, routed)]
           /\ rest' = [rest EXCEPT ![p] = {t \in cluster[p] : routed.to[t] = NoGroup}]
    /\ cluster' = [cluster EXCEPT ![p] = {}]
    /\ phase' = [phase EXCEPT ![p] = "routed"]
    /\ UNCHANGED <<tables, pc, cand, intended, loading, list, book, newGroup, job,
                   pending, seen, applied, created, quiet, lone, settled, aborts>>

-----------------------------------------------------------------------------
(* Fills of a pre-attributed order.                                        *)

AttachFills(p, j) ==
    /\ NextJob(p, j) /\ j.kind = "fill"
    /\ j.group \in Listed(p)
    /\ AttachTransactions(j.rows, j.group)
    /\ book' = [book EXCEPT ![p][j.group] = ExtendUnique(@, j.rows)]
    /\ todo' = [todo EXCEPT ![p] = @ \ {j}]
    /\ job' = [job EXCEPT ![p] = j]
    /\ pc' = [pc EXCEPT ![p] = "refreshRead"]
    /\ UNCHANGED <<phase, cand, intended, loading, list, cluster, rest, newGroup,
                   pending, seen, applied, created, quiet, lone, settled, aborts>>

RefreshRead(p) ==
    /\ pc[p] = "refreshRead"
    /\ \E g \in Group : g = job[p].group /\ seen' = [seen EXCEPT ![p] = groupRow[g]]
    /\ pc' = [pc EXCEPT ![p] = "refreshWrite"]
    /\ UNCHANGED <<tables, phase, cand, intended, loading, list, book, cluster, rest,
                   newGroup, todo, job, pending, applied, created, quiet, lone, settled, aborts>>

\* _refresh_group_financials: only what the fills determine is replaced.
RefreshWrite(p) ==
    /\ pc[p] = "refreshWrite"
    /\ \E g \in Group :
        /\ g = job[p].group
        /\ UpsertTradeGroup(g, [seen[p] EXCEPT !.premium = book[p][g],
                                               !.fees    = book[p][g]])
    /\ seen' = [seen EXCEPT ![p] = NoRow]
    /\ job' = [job EXCEPT ![p] = NoJob]
    /\ pc' = [pc EXCEPT ![p] = "work"]
    /\ UNCHANGED <<phase, cand, intended, loading, list, book, cluster, rest, newGroup,
                   todo, pending, applied, created, quiet, lone, settled, aborts>>

-----------------------------------------------------------------------------
(* Rows nothing offset: a new group.                                       *)

Create(p, j, g) ==
    /\ NextJob(p, j) /\ j.kind = "create"
    /\ FreeGroup(g)
    /\ UpsertTradeGroup(g, [NoRow EXCEPT !.status  = "open",
                                         !.premium = Once(j.rows),
                                         !.fees    = Once(j.rows)])
    /\ todo' = [todo EXCEPT ![p] = @ \ {j}]
    /\ job' = [job EXCEPT ![p] = [j EXCEPT !.group = g]]
    /\ pc' = [pc EXCEPT ![p] = "createAttach"]
    /\ UNCHANGED <<phase, cand, intended, loading, list, book, cluster, rest, newGroup,
                   pending, seen, applied, created, quiet, lone, settled, aborts>>

CreateAttach(p) ==
    /\ pc[p] = "createAttach"
    /\ AttachTransactions(job[p].rows, job[p].group)
    /\ pc' = [pc EXCEPT ![p] = "createOrders"]
    /\ UNCHANGED <<phase, cand, intended, loading, list, book, cluster, rest, newGroup,
                   todo, job, pending, seen, applied, created, quiet, lone, settled, aborts>>

\* The orders of the rows, when they are known, now belong to the group.
CreateOrders(p) ==
    /\ pc[p] = "createOrders"
    /\ UpsertOrders({o \in orders : \E t \in job[p].rows : Row[t].order = o},
                    job[p].group)
    /\ pc' = [pc EXCEPT ![p] = "createEntry"]
    /\ UNCHANGED <<phase, cand, intended, loading, list, book, cluster, rest, newGroup,
                   todo, job, pending, seen, applied, created, quiet, lone, settled, aborts>>

CreateEntry(p) ==
    /\ pc[p] = "createEntry"
    /\ \E g \in Group :
        /\ g = job[p].group
        /\ AddEntryEvent(g)
        /\ newGroup' = [newGroup EXCEPT ![p] = g]
        /\ book' = [book EXCEPT ![p][g] = Once(job[p].rows)]
        /\ list' = [list EXCEPT ![p] = Append(@, g)]
        /\ created' = [created EXCEPT ![p] =
                Append(@, [group |-> g, rows |-> job[p].rows])]
    /\ job' = [job EXCEPT ![p] = NoJob]
    /\ pc' = [pc EXCEPT ![p] = "work"]
    /\ UNCHANGED <<phase, cand, intended, loading, cluster, rest, todo, pending, seen,
                   applied, quiet, lone, settled, aborts>>

-----------------------------------------------------------------------------
(* _apply_exit: closing rows leave through the group they offset.          *)

RolledTo(p, closes) ==
    IF newGroup[p] # NoGroup /\ SameUnderlying(closes, rest[p]) THEN newGroup[p]
    ELSE NoGroup

DeliveredTo(p, closes) ==
    IF newGroup[p] # NoGroup /\ DeliversUnderlying(closes, rest[p]) THEN newGroup[p]
    ELSE NoGroup

\* One event for the trades, one per kind of settlement, one for the roll.
ExitEvents(p, j, S) ==
    LET trade   == {t \in S : ~IsNontradeClose(t) /\
                              (Row[t].act \in ClosingActions \/ IsBare(t))}
        of(st)  == {t \in S : IsNontradeClose(t) /\ SettlementStatus[Row[t].sub] = st}
        settled_as == {st \in {"expired", "assigned", "exercised"} : of(st) # {}}
    IN  {[key |-> First(of(st)), rows |-> of(st),
          to  |-> IF st = "expired" THEN NoGroup ELSE DeliveredTo(p, j.rows)] :
              st \in settled_as}
        \cup (IF trade # {} THEN {[key |-> 0, rows |-> trade, to |-> NoGroup]} ELSE {})
        \cup (IF RolledTo(p, j.rows) # NoGroup
              THEN {[key |-> Len(Row) + 1, rows |-> {}, to |-> RolledTo(p, j.rows)]}
              ELSE {})

\* Rows the in-memory book already holds are attached but not applied again.
ExitAttach(p, j) ==
    /\ NextJob(p, j) /\ j.kind = "exit"
    /\ j.group \in Listed(p)
    /\ AttachTransactions(j.rows, j.group)
    /\ todo' = [todo EXCEPT ![p] = @ \ {j}]
    /\ LET count == book[p][j.group]
           new   == {t \in j.rows : count[t] = 0}
       IN  IF new = {}
           THEN /\ list' = [list EXCEPT ![p] = IF FullyClosed(Support(count))
                                               THEN Without(@, j.group) ELSE @]
                /\ UNCHANGED <<pc, book, job, pending>>
           ELSE /\ book' = [book EXCEPT ![p][j.group] = ExtendUnique(@, new)]
                /\ job' = [job EXCEPT ![p] = [j EXCEPT !.rows = new,
                                                           !.to   = RolledTo(p, j.rows)]]
                /\ pending' = [pending EXCEPT ![p] = ExitEvents(p, j, new)]
                /\ pc' = [pc EXCEPT ![p] = "event"]
                /\ UNCHANGED list
    /\ UNCHANGED <<phase, cand, intended, loading, cluster, rest, newGroup, seen,
                   applied, created, quiet, lone, settled, aborts>>

\* The roll post-pass is told of routed exits only, not of pre-attributed ones.
AddExit(p) ==
    IF phase[p] = "intent" THEN applied[p]
    ELSE Append(applied[p], [group |-> job[p].group, rows |-> job[p].rows,
                             rolled |-> job[p].to # NoGroup])

\* After its last event an exit that left the group open is over; otherwise
\* the row to stamp is read.
EmitEvent(p, e) ==
    /\ pc[p] = "event"
    /\ e \in pending[p] /\ \A f \in pending[p] : e.key <= f.key
    /\ \E g \in Group :
        /\ g = job[p].group
        /\ AddExitEvent(g, e.rows, e.to)
        /\ IF pending[p] # {e}
           THEN UNCHANGED <<pc, job, seen, applied>>
           ELSE IF FullyClosed(Support(book[p][g]))
           THEN /\ seen' = [seen EXCEPT ![p] = groupRow[g]]
                /\ pc' = [pc EXCEPT ![p] = "stamp"]
                /\ UNCHANGED <<job, applied>>
           ELSE /\ applied' = [applied EXCEPT ![p] = AddExit(p)]
                /\ job' = [job EXCEPT ![p] = NoJob]
                /\ pc' = [pc EXCEPT ![p] = "work"]
                /\ UNCHANGED seen
    /\ pending' = [pending EXCEPT ![p] = @ \ {e}]
    /\ UNCHANGED <<phase, cand, intended, loading, list, book, cluster, rest, newGroup,
                   todo, created, quiet, lone, settled, aborts>>

\* Mutation: the fees stay those of the opening rows (the code before fees were
\* made complete at the close).
StampedWithoutFees(row, count) ==
    [row EXCEPT !.status   = TerminalStatus(Support(count)),
                !.stamped  = TRUE,
                !.realized = count]

\* Status, realised profit and fees of a group whose book is flat.
Stamped(row, count) ==
    [row EXCEPT !.status   = TerminalStatus(Support(count)),
                !.stamped  = TRUE,
                !.realized = count,
                !.fees     = count]

Stamp(p) ==
    /\ pc[p] = "stamp"
    /\ \E g \in Group :
        /\ g = job[p].group
        /\ UpsertTradeGroup(g, Stamped(seen[p], book[p][g]))
        /\ list' = [list EXCEPT ![p] = Without(@, g)]
        /\ applied' = [applied EXCEPT ![p] = AddExit(p)]
    /\ seen' = [seen EXCEPT ![p] = NoRow]
    /\ job' = [job EXCEPT ![p] = NoJob]
    /\ pc' = [pc EXCEPT ![p] = "work"]
    /\ UNCHANGED <<phase, cand, intended, loading, book, cluster, rest, newGroup, todo,
                   pending, created, quiet, lone, settled, aborts>>

-----------------------------------------------------------------------------
(* After the last cluster: rolls legged in as two orders, then the heal.   *)

EndClusters(p) ==
    /\ pc[p] = "work" /\ phase[p] = "routed" /\ todo[p] = {}
    /\ cand[p] = {}
    /\ pc' = [pc EXCEPT ![p] = "rolls"]
    /\ rest' = [rest EXCEPT ![p] = {}]
    /\ newGroup' = [newGroup EXCEPT ![p] = NoGroup]
    /\ UNCHANGED <<tables, phase, cand, intended, loading, list, book, cluster, todo,
                   job, pending, seen, applied, created, quiet, lone, settled, aborts>>

RollTargets(p, exit) ==
    {k \in 1 .. Len(created[p]) :
        ~exit.rolled /\ LegsOfOneRoll(exit.rows, created[p][k].rows)}

\* The first created group that matches the exit continues it.
LinkRoll(p) ==
    /\ pc[p] = "rolls" /\ applied[p] # <<>>
    /\ LET exit    == Head(applied[p])
           targets == RollTargets(p, exit)
       IN  IF targets # {}
           THEN AddExitEvent(exit.group, {}, created[p][First(targets)].group)
           ELSE UNCHANGED tables
    /\ applied' = [applied EXCEPT ![p] = Tail(@)]
    /\ UNCHANGED <<pc, phase, cand, intended, loading, list, book, cluster, rest,
                   newGroup, todo, job, pending, seen, created, quiet, lone, settled, aborts>>

StartHeal(p) ==
    /\ pc[p] = "rolls" /\ applied[p] = <<>>
    /\ pc' = [pc EXCEPT ![p] = "list"]
    /\ phase' = [phase EXCEPT ![p] = "heal"]
    /\ UNCHANGED <<tables, cand, intended, loading, list, book, cluster, rest, newGroup,
                   todo, job, pending, seen, applied, created, quiet, lone, settled, aborts>>

\* Mutation: the heal looks at no group.
HealNothing(p) ==
    /\ pc[p] = "heal" /\ list[p] # <<>>
    /\ list' = [list EXCEPT ![p] = Tail(@)]
    /\ UNCHANGED <<tables, pc, phase, cand, intended, loading, book, cluster, rest,
                   newGroup, todo, job, pending, seen, applied, created, quiet, lone, settled,
                   aborts>>

HealRead(p) ==
    /\ pc[p] = "heal" /\ list[p] # <<>>
    /\ \E g \in Group :
        /\ g = Head(list[p])
        /\ IF FullyClosed(Support(book[p][g]))
           THEN /\ seen' = [seen EXCEPT ![p] = groupRow[g]]
                /\ pc' = [pc EXCEPT ![p] = "healWrite"]
                /\ UNCHANGED list
           ELSE /\ list' = [list EXCEPT ![p] = Tail(@)]
                /\ UNCHANGED <<seen, pc>>
    /\ UNCHANGED <<tables, phase, cand, intended, loading, book, cluster, rest, newGroup,
                   todo, job, pending, applied, created, quiet, lone, settled, aborts>>

HealWrite(p) ==
    /\ pc[p] = "healWrite" /\ list[p] # <<>>
    /\ \E g \in Group :
        /\ g = Head(list[p])
        /\ UpsertTradeGroup(g, Stamped(seen[p], book[p][g]))
    /\ list' = [list EXCEPT ![p] = Tail(@)]
    /\ seen' = [seen EXCEPT ![p] = NoRow]
    /\ pc' = [pc EXCEPT ![p] = "heal"]
    /\ UNCHANGED <<phase, cand, intended, loading, book, cluster, rest, newGroup, todo,
                   job, pending, applied, created, quiet, lone, settled, aborts>>

-----------------------------------------------------------------------------
(* The end of a pass.                                                      *)

\* A coroutine's locals are gone once it returns or dies.
Forget(p) ==
    /\ pc' = [pc EXCEPT ![p] = "idle"]
    /\ phase' = [phase EXCEPT ![p] = "routed"]
    /\ cand' = [cand EXCEPT ![p] = {}]
    /\ intended' = [intended EXCEPT ![p] = [t \in Txn |-> NoGroup]]
    /\ loading' = [loading EXCEPT ![p] = {}]
    /\ list' = [list EXCEPT ![p] = <<>>]
    /\ book' = [book EXCEPT ![p] = [g \in Group |-> None]]
    /\ cluster' = [cluster EXCEPT ![p] = {}]
    /\ rest' = [rest EXCEPT ![p] = {}]
    /\ newGroup' = [newGroup EXCEPT ![p] = NoGroup]
    /\ todo' = [todo EXCEPT ![p] = {}]
    /\ job' = [job EXCEPT ![p] = NoJob]
    /\ pending' = [pending EXCEPT ![p] = {}]
    /\ seen' = [seen EXCEPT ![p] = NoRow]
    /\ applied' = [applied EXCEPT ![p] = <<>>]
    /\ created' = [created EXCEPT ![p] = <<>>]

EndPass(p) ==
    /\ pc[p] = "heal" /\ list[p] = <<>>
    /\ Forget(p)
    /\ settled' = (settled \/ quiet[p])
    /\ quiet' = [quiet EXCEPT ![p] = FALSE]
    /\ lone' = [lone EXCEPT ![p] = FALSE]
    /\ UNCHANGED <<tables, aborts>>

\* A store call raises, or the process dies: the rest of the pass never runs.
AbortPass(p) ==
    /\ pc[p] # "idle"
    /\ aborts < MaxAborts
    /\ aborts' = aborts + 1
    /\ Forget(p)
    /\ quiet' = [quiet EXCEPT ![p] = FALSE]
    /\ lone' = [lone EXCEPT ![p] = FALSE]
    /\ UNCHANGED <<tables, settled>>

-----------------------------------------------------------------------------
(* The feed, at any moment.                                                *)

Disturbs ==
    IF UNCHANGED tables THEN UNCHANGED <<quiet, settled>>
    ELSE quiet' = [p \in Pass |-> FALSE] /\ settled' = FALSE

FeedTransaction(t) ==
    /\ SyncTransaction(t)
    /\ Disturbs
    /\ UNCHANGED <<locals, lone, aborts>>

FeedOrder(o) ==
    /\ SyncOrder(o)
    /\ Disturbs
    /\ UNCHANGED <<locals, lone, aborts>>

FeedTradeGroup(i, g) ==
    /\ OpenTradeGroup(i, g)
    /\ Disturbs
    /\ UNCHANGED <<locals, lone, aborts>>

FeedRecordOrder(o) ==
    /\ RecordOrder(o)
    /\ Disturbs
    /\ UNCHANGED <<locals, lone, aborts>>

Feed ==
    \/ \E t \in Txn : FeedTransaction(t)
    \/ \E o \in Order : FeedOrder(o)
    \/ \E i \in Intent, g \in Group : FeedTradeGroup(i, g)
    \/ \E o \in Order : FeedRecordOrder(o)

Load(p) ==
    \/ BeginPass(p)
    \/ LinkOrders(p)
    \/ Snapshot(p)
    \/ ListOpen(p)
    \/ \E g \in Group : LoadRows(p, g)

Attribute(p) ==
    \/ TakeCluster(p)
    \/ Route(p)
    \/ \E j \in todo[p] :
        \/ FindGroup(p, j)
        \/ AttachFills(p, j)
        \/ ExitAttach(p, j)
        \/ \E g \in Group : Create(p, j, g)
    \/ RefreshRead(p)
    \/ RefreshWrite(p)
    \/ CreateAttach(p)
    \/ CreateOrders(p)
    \/ CreateEntry(p)
    \/ \E e \in pending[p] : EmitEvent(p, e)
    \/ Stamp(p)

Finish(p) ==
    \/ EndClusters(p)
    \/ LinkRoll(p)
    \/ StartHeal(p)
    \/ HealRead(p)
    \/ HealWrite(p)
    \/ EndPass(p)

Step(p) == Load(p) \/ Attribute(p) \/ Finish(p)

Next == Feed \/ \E p \in Pass : Step(p) \/ AbortPass(p)

Spec == Init /\ [][Next]_vars

\* Fairness: a pass, once it runs, ends or dies; and passes keep being started, one after
\* every sync.
PassesRunOn == \A p \in Pass : []<>(pc[p] # "idle") /\ []<>(pc[p] = "idle")
-----------------------------------------------------------------------------
(* Correctness.                                                            *)

Closed(g) == groupRow[g].status \notin {"none", "open"}

(* No amount counts a row twice: neither a pass's in-memory member list nor *)
(* any premium, fee or profit total ever written includes a transaction     *)
(* more than once, even when two passes load, attach and re-apply the same  *)
(* row (_OpenGroup.extend_unique).                                          *)
AtMostOnce(count) == \A t \in Txn : count[t] <= 1

SumsOnce(row) ==
    AtMostOnce(row.premium) /\ AtMostOnce(row.fees) /\ AtMostOnce(row.realized)

BooksOnce  == \A p \in Pass, g \in Group : AtMostOnce(book[p][g])
SeenOnce   == \A p \in Pass : SumsOnce(seen[p])
GroupsOnce == \A g \in Group : SumsOnce(groupRow[g])

NoDoubleCount == BooksOnce /\ SeenOnce /\ GroupsOnce

(* Nothing keeps two passes apart, and while two are in flight either may   *)
(* act on what the other has changed.  Three properties are about a pass    *)
(* that no other pass overlaps, whatever passes that overlapped or died     *)
(* have left in the tables before.                                          *)
NoneOverlapped == \A p \in Pass : pc[p] # "idle" => lone[p]

(* A transaction that belongs to a group stays in that group: re-synced     *)
(* rows keep their linkage and no pass but an overlapping one takes the row *)
(* elsewhere (the module's "never becomes a candidate again").              *)
ClaimIsFinal ==
    [][NoneOverlapped =>
        \A t \in Txn : txnGroup[t] # NoGroup => txnGroup'[t] = txnGroup[t]]_vars

(* A row that an exit event covers, in whichever group, is not covered by   *)
(* another one: a pass that resumes what others left half done does not     *)
(* exit a row again (_apply_exit).                                          *)
Exited(t) == \E g \in Group : exits[g][t] > 0

ExitOnce ==
    [][NoneOverlapped =>
        \A t \in Txn : Exited(t) => \A g \in Group : exits'[g][t] = exits[g][t]]_vars

(* A pass that nothing disturbed leaves no work behind: every linkable row  *)
(* has a group and no group whose rows all net out is still open            *)
(* (heal_fully_closed_groups).                                              *)
SettledBooks ==
    settled => /\ Candidates = {}
               /\ \A g \in OpenGroups : ~FullyClosed(GroupTransactions(g))

(* Idempotence: once a pass has settled the account, further passes, even   *)
(* overlapping ones, change no attribution, no group and no event.          *)
SettledIsStable ==
    [][settled /\ settled' =>
        UNCHANGED <<txnGroup, groupRow, entries, exits, edges>>]_vars

(* A closed group whose rows net out is stamped with the profit and the     *)
(* fees of exactly those rows, and with the status their causes call for    *)
(* (_apply_exit, heal_fully_closed_groups).                                 *)
ClosedIsStamped ==
    settled => \A g \in Group :
        LET rows == GroupTransactions(g)
        IN  Closed(g) /\ FullyClosed(rows) =>
                /\ groupRow[g].stamped
                /\ groupRow[g].realized = Once(rows)
                /\ groupRow[g].fees = Once(rows)
                /\ groupRow[g].status = TerminalStatus(rows)

(* A group and its ENTRY event are written by different calls.  A pass that *)
(* dies between them leaves at most the one group it was making without its *)
(* event, however many passes run beside it and after it, and none gets a   *)
(* second event (_create_trade_group).                                      *)
InTheMaking(g) ==
    \E p \in Pass : /\ pc[p] \in {"createAttach", "createOrders", "createEntry"}
                    /\ job[p].group = g

Unannounced ==
    {g \in Group : groupRow[g].status # "none" /\ entries[g] # 1 /\ ~InTheMaking(g)}

OneLossPerDeath == Cardinality(Unannounced) <= aborts

(* The stamp that closes a group covers exactly the rows the group has in   *)
(* the store at that moment, which net out, and carries the status they     *)
(* call for: the pass's own member list has not drifted from the table.     *)
StampIsComplete ==
    [][NoneOverlapped => \A g \in Group :
        groupRow[g].status = "open" /\ Closed(g)' =>
            LET rows == GroupTransactions(g)
            IN  /\ FullyClosed(rows)
                /\ groupRow'[g].realized = Once(rows)
                /\ groupRow'[g].fees = Once(rows)
                /\ groupRow'[g].status = TerminalStatus(rows)]_vars

(* Continuations lead forward: the group that continues another was opened  *)
(* after it, so no chain of rolls and deliveries ever returns to a group    *)
(* (_link_cross_cluster_rolls).                                             *)
RollsGoForward == \A e \in edges : e[1] < e[2]

(* A row whose order is known, or that needs none, is in some group in the  *)
(* end, whichever of the two was synced first (link_transactions_to_orders, *)
(* then the routing of reconcile).                                          *)
Linkable(t) ==
    t \in txns /\ (Row[t].order \in orders \/ IsNontradeClose(t) \/ IsDelivery(t))

EveryRowGrouped ==
    \A t \in Txn : Linkable(t) ~> txnGroup[t] # NoGroup

(* An open group whose rows net out is closed in the end, even when the     *)
(* pass that attached its last close died before it could write the status  *)
(* (heal_fully_closed_groups).                                              *)
FlatGroupsClose ==
    \A g \in Group : FullyClosed(GroupTransactions(g)) ~> ~(g \in OpenGroups)
=============================================================================
