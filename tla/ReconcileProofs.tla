-------------------------- MODULE ReconcileProofs --------------------------
(***************************************************************************)
(* What reconcile keeps true for every account, every set of groups and    *)
(* any number of passes.  Tables and locals are well typed and no amount   *)
(* counts a row twice.  When passes do not overlap: a claim is final; a    *)
(* pass works on books that agree with the table, and so a stamp is        *)
(* complete, no group is reopened, no row exits twice, and no group is     *)
(* left without rows.  Continuations lead to later groups; and once a pass *)
(* has gone through undisturbed, no further pass changes the books.        *)
(***************************************************************************)
EXTENDS Reconcile, BookProofs, SequenceTheorems

-----------------------------------------------------------------------------
(* The routing.                                                            *)

\* The draw-down names a listed group, or none.
LEMMA DrawDownGroup ==
    ASSUME NEW groups, Len(groups) \in Nat, NEW remaining, NEW t
    PROVE  DrawDown(groups, remaining, t).first
                \in {groups[k] : k \in 1 .. Len(groups)} \cup {NoGroup}
<1> DEFINE N == Len(groups)
           R == {groups[k] : k \in 1 .. N} \cup {NoGroup}
           s == Row[t].sec
           start == [remaining |-> remaining, left |-> Row[t].qty, first |-> NoGroup]
           Draw(d, k) ==
               LET g    == groups[k]
                   net  == d.remaining[g][s]
                   take == Lower(d.left, Abs(net))
               IN  IF d.left > 0 /\ Offsets(net, t)
                   THEN [remaining |-> [d.remaining EXCEPT ![g][s] = TowardZero(net, take)],
                         left      |-> d.left - take,
                         first     |-> IF d.first = NoGroup THEN g ELSE d.first]
                   ELSE d
           IsWalk(f, n) == f = [k \in 0 .. n |-> IF k = 0 THEN start ELSE Draw(f[k - 1], k)]
           draw == CHOOSE f : IsWalk(f, N)
<1>1. DrawDown(groups, remaining, t) = draw[N]
  BY DEF DrawDown
<1> HIDE DEF IsWalk
<1>2. start.first \in R
  OBVIOUS
<1>3. ASSUME NEW d, d.first \in R, NEW k \in 1 .. N
      PROVE  Draw(d, k).first \in R
  BY <1>3
<1> HIDE DEF start, Draw
<1>4. \E f : IsWalk(f, N)
  <2> DEFINE S == {n \in 0 .. N : \E f : IsWalk(f, n)}
  <2>1. 0 \in S
    <3>1. IsWalk([k \in 0 .. 0 |-> start], 0)
      BY DEF IsWalk
    <3> QED
      BY <3>1
  <2>2. ASSUME NEW n \in 0 .. N, n # 0, n - 1 \in S
        PROVE  n \in S
    <3>1. PICK f : IsWalk(f, n - 1)
      BY <2>2
    <3> DEFINE f1 == [k \in 0 .. n |-> IF k < n THEN f[k] ELSE Draw(f[n - 1], n)]
    <3>2. /\ f[0] = start
          /\ \A k \in 1 .. n - 1 : f[k] = Draw(f[k - 1], k)
      BY <2>2, <3>1 DEF IsWalk
    <3>3. ASSUME NEW k \in 0 .. n
          PROVE  f1[k] = IF k = 0 THEN start ELSE Draw(f1[k - 1], k)
      BY <2>2, <3>2
    <3>4. IsWalk(f1, n)
      BY <3>3 DEF IsWalk
    <3> QED
      BY <3>4
  <2>3. \A n \in 0 .. N : n \in S
    <3> HIDE DEF S
    <3> QED
      BY <2>1, <2>2, UpTo
  <2> QED
    BY <2>3
<1>5. IsWalk(draw, N)
  BY <1>4
<1> HIDE DEF draw
<1>6. /\ draw[0] = start
      /\ \A k \in 1 .. N : draw[k] = Draw(draw[k - 1], k)
  BY <1>5 DEF IsWalk
<1> HIDE DEF R
<1>7. \A n \in 0 .. N : n \in {k \in 0 .. N : draw[k].first \in R}
  <2> DEFINE S == {k \in 0 .. N : draw[k].first \in R}
  <2>1. 0 \in S
    BY <1>2, <1>6
  <2>2. ASSUME NEW n \in 0 .. N, n # 0, n - 1 \in S
        PROVE  n \in S
    BY <1>3, <1>6, <2>2
  <2> HIDE DEF S
  <2>3. \A n \in 0 .. N : n \in S
    BY <2>1, <2>2, UpTo
  <2> QED
    BY <2>3 DEF S
<1> QED
  BY <1>1, <1>7 DEF R

\* A member of a listed group leads to that group.
LEMMA MemberOfGroup ==
    ASSUME NEW groups, Len(groups) \in Nat, NEW members, NEW t
    PROVE  MemberOf(groups, members, t) \in {groups[k] : k \in 1 .. Len(groups)} \cup {NoGroup}
<1> DEFINE holds == {k \in 1 .. Len(groups) :
                        \E u \in members[groups[k]] : Row[u].sec = Row[t].sec}
<1>1. holds \in SUBSET Nat
  OBVIOUS
<1>2. holds # {} => First(holds) \in holds
  <2> HIDE DEF holds
  <2> QED
    BY <1>1, FirstOfNats
<1> QED
  BY <1>2 DEF MemberOf

\* The routing sends every row of the cluster to a listed group, or to none.
LEMMA RouteClusterGroup ==
    ASSUME NEW groups, Len(groups) \in Nat, NEW members, NEW rows
    PROVE  \A t \in Txn : RouteCluster(groups, members, rows).to[t]
                \in {groups[k] : k \in 1 .. Len(groups)} \cup {NoGroup}
<1> DEFINE N == Len(Row)
           R == {groups[k] : k \in 1 .. Len(groups)} \cup {NoGroup}
           start == [remaining |-> [g \in Group |-> NetQuantities(members[g])],
                     to        |-> [t \in Txn |-> NoGroup]]
           Routed(d, i) == IF i \in rows THEN RouteRow(groups, members, d, i) ELSE d
           IsWalk(f, n) == f = [i \in 0 .. n |-> IF i = 0 THEN start
                                                ELSE Routed(f[i - 1], i)]
           route == CHOOSE f : IsWalk(f, N)
           To == [Txn -> R]
<1>0. N \in Nat
  BY RowAssumption, LenProperties
<1>1. RouteCluster(groups, members, rows) = route[N]
  BY DEF RouteCluster
<1> HIDE DEF IsWalk
<1>2. start.to \in To
  OBVIOUS
<1>3. ASSUME NEW d, d.to \in To, NEW i
      PROVE  Routed(d, i).to \in To
  <2>1. DrawDown(groups, d.remaining, i).first \in R /\ MemberOf(groups, members, i) \in R
    BY DrawDownGroup, MemberOfGroup
  <2> HIDE DEF R
  <2>2. \A r \in R : [d.to EXCEPT ![i] = r] \in To
    BY <1>3
  <2>3. RouteRow(groups, members, d, i).to \in To
    <3> DEFINE drawn == DrawDown(groups, d.remaining, i)
    <3>1. \/ RouteRow(groups, members, d, i).to = [d.to EXCEPT ![i] = drawn.first]
          \/ RouteRow(groups, members, d, i).to =
                [d.to EXCEPT ![i] = MemberOf(groups, members, i)]
          \/ RouteRow(groups, members, d, i) = d
      BY DEF RouteRow
    <3> QED
      BY <1>3, <2>1, <2>2, <3>1
  <2> QED
    BY <1>3, <2>3
<1> HIDE DEF start, Routed, To, N
<1>4. \E f : IsWalk(f, N)
  <2> DEFINE S == {n \in 0 .. N : \E f : IsWalk(f, n)}
  <2>1. 0 \in S
    <3>1. IsWalk([i \in 0 .. 0 |-> start], 0)
      BY DEF IsWalk
    <3> QED
      BY <1>0, <3>1
  <2>2. ASSUME NEW n \in 0 .. N, n # 0, n - 1 \in S
        PROVE  n \in S
    <3>1. PICK f : IsWalk(f, n - 1)
      BY <2>2
    <3> DEFINE f1 == [i \in 0 .. n |-> IF i < n THEN f[i] ELSE Routed(f[n - 1], n)]
    <3>2. /\ f[0] = start
          /\ \A i \in 1 .. n - 1 : f[i] = Routed(f[i - 1], i)
      BY <1>0, <2>2, <3>1 DEF IsWalk
    <3>3. ASSUME NEW i \in 0 .. n
          PROVE  f1[i] = IF i = 0 THEN start ELSE Routed(f1[i - 1], i)
      BY <1>0, <2>2, <3>2
    <3>4. IsWalk(f1, n)
      BY <3>3 DEF IsWalk
    <3> QED
      BY <3>4
  <2>3. \A n \in 0 .. N : n \in S
    <3> HIDE DEF S
    <3> QED
      BY <1>0, <2>1, <2>2, UpTo
  <2> QED
    BY <1>0, <2>3
<1>5. IsWalk(route, N)
  BY <1>4
<1> HIDE DEF route
<1>6. /\ route[0] = start
      /\ \A i \in 1 .. N : route[i] = Routed(route[i - 1], i)
  BY <1>0, <1>5 DEF IsWalk
<1>7. \A n \in 0 .. N : n \in {i \in 0 .. N : route[i].to \in To}
  <2> DEFINE S == {i \in 0 .. N : route[i].to \in To}
  <2>1. 0 \in S
    BY <1>0, <1>2, <1>6
  <2>2. ASSUME NEW n \in 0 .. N, n # 0, n - 1 \in S
        PROVE  n \in S
    BY <1>0, <1>3, <1>6, <2>2
  <2> HIDE DEF S
  <2>3. \A n \in 0 .. N : n \in S
    BY <1>0, <2>1, <2>2, UpTo
  <2> QED
    BY <2>3 DEF S
<1>8. RouteCluster(groups, members, rows).to \in To
  BY <1>0, <1>1, <1>7
<1> QED
  BY <1>8 DEF To

-----------------------------------------------------------------------------
(* Row counts and trade_groups rows.                                       *)

\* A sum that takes every row of a set once is a count, and so is none.
LEMMA OnceType ==
    /\ None \in Count
    /\ \A S : Once(S) \in Count
  BY DEF None, Once, Count

\* A terminal status is one of the statuses a group row may have.
LEMMA TerminalStatusType ==
    ASSUME NEW S \in SUBSET Txn
    PROVE  TerminalStatus(S) \in Statuses \ {"none", "open", "unfilled"}
<1>1. CloseCauses(S) \subseteq {"closed", "expired", "assigned", "exercised"}
  BY DEF CloseCauses, SettlementStatus, IsNontradeClose
<1>2. CASE \E c \in CloseCauses(S) : CloseCauses(S) = {c}
  BY <1>1, <1>2 DEF TerminalStatus, Statuses
<1>3. CASE ~ \E c \in CloseCauses(S) : CloseCauses(S) = {c}
  BY <1>3 DEF TerminalStatus, Statuses
<1> QED
  BY <1>2, <1>3

\* A row that is not there yet is a well-typed row.
LEMMA NoRowType == NoRow \in GroupRowType
  BY OnceType DEF NoRow, GroupRowType, Statuses, Reviews

-----------------------------------------------------------------------------
(* Every store call keeps the tables well typed.                           *)

\* upsert_transactions keeps the tables' types.
LEMMA UpsertTransactionType ==
    ASSUME TablesType, NEW t \in Txn, NEW g \in Group \cup {NoGroup},
           UpsertTransaction(t, g)
    PROVE  TablesType'
  BY DEF TablesType, UpsertTransaction, Coalesce

\* So does upsert_orders.
LEMMA UpsertOrdersType ==
    ASSUME TablesType, NEW S \in SUBSET Order, NEW g \in Group \cup {NoGroup},
           UpsertOrders(S, g)
    PROVE  TablesType'
  BY DEF TablesType, UpsertOrders, Coalesce

\* Setting order_id on rows whose order is known.
LEMMA LinkTransactionsToOrdersType ==
    ASSUME TablesType, LinkTransactionsToOrders
    PROVE  TablesType'
  BY DEF TablesType, LinkTransactionsToOrders

\* Giving an order the one group its rows are in: the choice names a group.
LEMMA LinkOrdersToGroupsType ==
    ASSUME TablesType, LinkOrdersToGroups
    PROVE  TablesType'
<1>1. \A o \in Order : orderGroup'[o] \in Group \cup {NoGroup}
  <2> SUFFICES ASSUME NEW o \in Order
               PROVE  orderGroup'[o] \in Group \cup {NoGroup}
    OBVIOUS
  <2>1. CASE /\ o \in orders
             /\ orderGroup[o] = NoGroup
             /\ \E g \in Group : GroupsOfOrder(o) = {g}
    <3>1. orderGroup'[o] = CHOOSE g \in Group : g \in GroupsOfOrder(o)
      BY <2>1 DEF LinkOrdersToGroups
    <3>2. \E g \in Group : g \in GroupsOfOrder(o)
      BY <2>1
    <3> QED
      BY <3>1, <3>2
  <2>2. CASE ~ (/\ o \in orders
                /\ orderGroup[o] = NoGroup
                /\ \E g \in Group : GroupsOfOrder(o) = {g})
    BY <2>2 DEF LinkOrdersToGroups, TablesType
  <2> QED
    BY <2>1, <2>2
<1>2. orderGroup' \in [Order -> Group \cup {NoGroup}]
  BY <1>1 DEF LinkOrdersToGroups
<1> QED
  BY <1>2 DEF TablesType, LinkOrdersToGroups

\* Attaching rows to a group, or to none.
LEMMA AttachTransactionsType ==
    ASSUME TablesType, NEW S, NEW g \in Group \cup {NoGroup},
           AttachTransactions(S, g)
    PROVE  TablesType'
  BY DEF TablesType, AttachTransactions

\* Writing a whole trade_groups row.
LEMMA UpsertTradeGroupType ==
    ASSUME TablesType, NEW g \in Group, NEW row \in GroupRowType,
           UpsertTradeGroup(g, row)
    PROVE  TablesType'
  BY DEF TablesType, UpsertTradeGroup

\* Adding an ENTRY event.
LEMMA AddEntryEventType ==
    ASSUME TablesType, NEW g \in Group, AddEntryEvent(g)
    PROVE  TablesType'
  BY DEF TablesType, AddEntryEvent

\* Adding an exit, with or without a continuation.
LEMMA AddExitEventType ==
    ASSUME TablesType, NEW g \in Group, NEW S, NEW to \in Group \cup {NoGroup},
           AddExitEvent(g, S, to)
    PROVE  TablesType'
<1>1. exits' \in [Group -> Count]
  BY DEF TablesType, AddExitEvent, Count
<1>2. edges' \in SUBSET (Group \X Group)
  BY DEF TablesType, AddExitEvent
<1> QED
  BY <1>1, <1>2 DEF TablesType, AddExitEvent

\* The host opens a group at submit time.
LEMMA OpenTradeGroupType ==
    ASSUME TablesType, NEW i \in Intent, NEW g \in Group, OpenTradeGroup(i, g)
    PROVE  TablesType'
<1>1. [NoRow EXCEPT !.status = "open", !.manual = TRUE, !.review = "confirmed"]
        \in GroupRowType
  BY NoRowType DEF GroupRowType, Statuses, Reviews
<1> QED
  BY <1>1 DEF TablesType, OpenTradeGroup

\* The host records an order, with its group when it has opened one.
LEMMA RecordOrderType ==
    ASSUME TablesType, NEW o \in Order, RecordOrder(o)
    PROVE  TablesType'
<1>1. opened[IntentOf[o]] \in Group \cup {NoGroup}
  BY IntentAssumption DEF RecordOrder, TablesType
<1> QED
  BY <1>1, UpsertOrdersType DEF RecordOrder

-----------------------------------------------------------------------------
(* Local operators.                                                        *)

\* A pre-attributed row has a group; only the routing asks for a new one.
JobsNameGroups ==
    \A p \in Pass : \A j \in todo[p] :
        /\ j.kind # "create" => j.group \in Group
        /\ phase[p] = "intent" => j.kind # "create"

TypeInv == TypeOK /\ JobsNameGroups

\* A member list extended by rows is a member list.
LEMMA ExtendUniqueType ==
    ASSUME NEW count \in Count, NEW S
    PROVE  ExtendUnique(count, S) \in Count
  BY DEF ExtendUnique, Count

\* A stamped row is a trade_groups row.
LEMMA StampedType ==
    ASSUME NEW row \in GroupRowType, NEW count \in Count
    PROVE  Stamped(row, count) \in GroupRowType
<1>1. TerminalStatus(Support(count)) \in Statuses
  BY TerminalStatusType DEF Support
<1> QED
  BY <1>1 DEF Stamped, GroupRowType

\* Striking one group off a list leaves a list of groups.
LEMMA WithoutType ==
    ASSUME NEW seq \in Seq(Group), NEW g
    PROVE  Without(seq, g) \in Seq(Group)
<1>1. CASE \E k \in 1 .. Len(seq) : seq[k] = g
  <2>1. PICK k \in 1 .. Len(seq) :
            Without(seq, g) = SubSeq(seq, 1, k - 1) \o SubSeq(seq, k + 1, Len(seq))
    BY <1>1 DEF Without
  <2>2. Len(seq) \in Nat
    BY LenProperties
  <2>3. SubSeq(seq, 1, k - 1) \in Seq(Group)
    BY <2>2, SubSeqProperties
  <2>4. SubSeq(seq, k + 1, Len(seq)) \in Seq(Group)
    BY <2>2, SubSeqProperties
  <2> QED
    BY <2>1, <2>3, <2>4, ConcatProperties
<1>2. CASE ~ \E k \in 1 .. Len(seq) : seq[k] = g
  BY <1>2 DEF Without
<1> QED
  BY <1>1, <1>2

\* The jobs of a cluster are jobs, the exits and fills among them with a group.
LEMMA IntentJobsType ==
    ASSUME TypeInv, NEW p \in Pass, NEW S \in SUBSET Txn
    PROVE  \A j \in IntentJobs(p, S) :
                j \in Job /\ j.group \in Group /\ j.kind \in {"fill", "exit"}
<1> DEFINE of(g) == {t \in S : intended[p][t] = g}
<1>1. ASSUME NEW j \in IntentJobs(p, S)
      PROVE  \E g \in Group :
                /\ of(g) # {}
                /\ \/ j = NewJob("fill", First(of(g)), g, {t \in of(g) : ~IsClosing(t)})
                   \/ j = NewJob("exit", First(of(g)), g, {t \in of(g) : IsClosing(t)})
  BY <1>1 DEF IntentJobs
<1>2. ASSUME NEW g
      PROVE  /\ of(g) \in SUBSET Txn
             /\ {t \in of(g) : ~IsClosing(t)} \in SUBSET Txn
             /\ {t \in of(g) : IsClosing(t)} \in SUBSET Txn
  OBVIOUS
<1>3. ASSUME NEW g \in Group, of(g) # {}
      PROVE  First(of(g)) \in Nat
  BY <1>2, <1>3, FirstIsNat
<1> HIDE DEF of
<1>4. ASSUME NEW j \in IntentJobs(p, S)
      PROVE  \E g \in Group, k \in Nat, R \in SUBSET Txn :
                j = NewJob("fill", k, g, R) \/ j = NewJob("exit", k, g, R)
  <2>1. PICK g \in Group :
            /\ of(g) # {}
            /\ \/ j = NewJob("fill", First(of(g)), g, {t \in of(g) : ~IsClosing(t)})
               \/ j = NewJob("exit", First(of(g)), g, {t \in of(g) : IsClosing(t)})
    BY <1>1, <1>4
  <2>2. First(of(g)) \in Nat
    BY <1>3, <2>1
  <2> QED
    BY <1>2, <2>1, <2>2
<1> QED
  BY <1>4 DEF NewJob, Job

\* What the routing asks for is jobs, every one but a create with a group.
LEMMA RoutedJobsType ==
    ASSUME TypeInv, NEW p \in Pass, NEW routed
    PROVE  \A j \in RoutedJobs(p, routed) :
                j \in Job /\ (j.kind # "create" => j.group \in Group)
<1> DEFINE bucket(g) == {t \in cluster[p] : routed.to[t] = g}
<1>0. cluster[p] \subseteq Txn
  BY DEF TypeInv, TypeOK
<1>1. ASSUME NEW j \in RoutedJobs(p, routed)
      PROVE  \/ j = NewJob("create", 0, NoGroup, bucket(NoGroup))
             \/ \E g \in Group : /\ bucket(g) # {}
                                 /\ j = NewJob("exit", First(bucket(g)), g, bucket(g))
  BY <1>1 DEF RoutedJobs
<1>2. ASSUME NEW g
      PROVE  bucket(g) \in SUBSET Txn
  BY <1>0
<1>3. ASSUME NEW g \in Group, bucket(g) # {}
      PROVE  First(bucket(g)) \in Nat
  BY <1>2, <1>3, FirstIsNat
<1> HIDE DEF bucket
<1>4. ASSUME NEW j \in RoutedJobs(p, routed)
      PROVE  \/ \E R \in SUBSET Txn : j = NewJob("create", 0, NoGroup, R)
             \/ \E g \in Group, k \in Nat, R \in SUBSET Txn : j = NewJob("exit", k, g, R)
  BY <1>1, <1>2, <1>3, <1>4
<1> QED
  BY <1>4 DEF NewJob, Job

\* A roll or delivery target is a group, or none.
LEMMA RolledToType ==
    ASSUME TypeInv, NEW p \in Pass, NEW S
    PROVE  RolledTo(p, S) \in Group \cup {NoGroup} /\ DeliveredTo(p, S) \in Group \cup {NoGroup}
  BY DEF TypeInv, TypeOK, RolledTo, DeliveredTo

\* The events of an exit are events.
LEMMA ExitEventsType ==
    ASSUME TypeInv, NEW p \in Pass, NEW j, NEW S \in SUBSET Txn
    PROVE  ExitEvents(p, j, S) \in SUBSET Event
<1> DEFINE of(st) == {t \in S : IsNontradeClose(t) /\ SettlementStatus[Row[t].sub] = st}
<1>1. ASSUME NEW e \in ExitEvents(p, j, S)
      PROVE  e \in Event
  <2>1. \/ \E st \in {"expired", "assigned", "exercised"} :
              /\ of(st) # {}
              /\ e = [key |-> First(of(st)), rows |-> of(st),
                      to |-> IF st = "expired" THEN NoGroup ELSE DeliveredTo(p, j.rows)]
        \/ \E R \in SUBSET Txn : e = [key |-> 0, rows |-> R, to |-> NoGroup]
        \/ e = [key |-> Len(Row) + 1, rows |-> {}, to |-> RolledTo(p, j.rows)]
    BY <1>1 DEF ExitEvents
  <2>2. \A st : of(st) # {} => First(of(st)) \in Nat
    BY FirstIsNat
  <2>3. Len(Row) + 1 \in Nat
    BY RowAssumption
  <2>4. \A st : of(st) \in SUBSET Txn
    OBVIOUS
  <2> HIDE DEF of
  <2>5. CASE \E st \in {"expired", "assigned", "exercised"} :
              /\ of(st) # {}
              /\ e = [key |-> First(of(st)), rows |-> of(st),
                      to |-> IF st = "expired" THEN NoGroup ELSE DeliveredTo(p, j.rows)]
    <3>1. PICK st : /\ of(st) # {}
                    /\ e = [key |-> First(of(st)), rows |-> of(st),
                            to |-> IF st = "expired" THEN NoGroup
                                   ELSE DeliveredTo(p, j.rows)]
      BY <2>5
    <3>2. DeliveredTo(p, j.rows) \in Group \cup {NoGroup}
      BY RolledToType
    <3> QED
      BY <2>2, <2>4, <3>1, <3>2 DEF Event
  <2>6. CASE \E R \in SUBSET Txn : e = [key |-> 0, rows |-> R, to |-> NoGroup]
    BY <2>6 DEF Event
  <2>7. CASE e = [key |-> Len(Row) + 1, rows |-> {}, to |-> RolledTo(p, j.rows)]
    BY <2>3, <2>7, RolledToType DEF Event
  <2> QED
    BY <2>1, <2>5, <2>6, <2>7
<1> QED
  BY <1>1
-----------------------------------------------------------------------------
(* Every step keeps the types: linking and loading.                        *)

\* A step of the pass alone leaves the tables' types.
LEMMA UnchangedTablesType ==
    ASSUME TablesType, UNCHANGED tables
    PROVE  TablesType'
  BY DEF TablesType, tables

\* BeginPass keeps the invariant.
LEMMA BeginPassType ==
    ASSUME TypeInv, NEW p \in Pass, BeginPass(p)
    PROVE  TypeInv'
<1>1. TablesType'
  BY LinkTransactionsToOrdersType DEF TypeInv, TypeOK, BeginPass
<1> QED
  BY <1>1 DEF TypeInv, TypeOK, JobsNameGroups, BeginPass, PcValues

\* LinkOrders keeps the invariant.
LEMMA LinkOrdersType ==
    ASSUME TypeInv, NEW p \in Pass, LinkOrders(p)
    PROVE  TypeInv'
<1>1. TablesType'
  BY LinkOrdersToGroupsType DEF TypeInv, TypeOK, LinkOrders
<1> QED
  BY <1>1 DEF TypeInv, TypeOK, JobsNameGroups, LinkOrders, PcValues

\* Snapshot keeps the invariant.
LEMMA SnapshotType ==
    ASSUME TypeInv, NEW p \in Pass, Snapshot(p)
    PROVE  TypeInv'
<1>1. TablesType'
  BY UnchangedTablesType DEF TypeInv, TypeOK, Snapshot
<1>2. Candidates \in SUBSET Txn
  BY DEF TypeInv, TypeOK, TablesType, Candidates
<1>3. \A t \in Candidates : OrderTradeGroup(t) \in Group \cup {NoGroup}
  BY <1>2 DEF TypeInv, TypeOK, TablesType, OrderTradeGroup
<1> QED
  BY <1>1, <1>2, <1>3 DEF TypeInv, TypeOK, JobsNameGroups, Snapshot, PcValues

\* ListOpen keeps the invariant.
LEMMA ListOpenType ==
    ASSUME TypeInv, NEW p \in Pass, ListOpen(p)
    PROVE  TypeInv'
<1>1. TablesType'
  BY UnchangedTablesType DEF TypeInv, TypeOK, ListOpen
<1>2. OpenGroups \in SUBSET Group
  BY DEF OpenGroups
<1>3. [g \in Group |-> None] \in [Group -> Count]
  BY OnceType
<1>4. pc' \in [Pass -> PcValues]
  BY DEF TypeInv, TypeOK, ListOpen, PcValues
<1>5. book' \in [Pass -> [Group -> Count]]
  BY <1>3 DEF TypeInv, TypeOK, ListOpen
<1>6. list' \in [Pass -> Seq(Group)] /\ loading' \in [Pass -> SUBSET Group]
  BY <1>2 DEF TypeInv, TypeOK, ListOpen
<1>7. TypeOK'
  BY <1>1, <1>4, <1>5, <1>6 DEF TypeInv, TypeOK, ListOpen
<1>8. JobsNameGroups'
  BY DEF TypeInv, JobsNameGroups, ListOpen
<1> QED
  BY <1>7, <1>8 DEF TypeInv

\* LoadRows keeps the invariant.
LEMMA LoadRowsType ==
    ASSUME TypeInv, NEW p \in Pass, NEW g \in Group, LoadRows(p, g)
    PROVE  TypeInv'
<1>1. TablesType'
  BY UnchangedTablesType DEF TypeInv, TypeOK, LoadRows
<1>2. Once(GroupTransactions(g)) \in Count
  BY OnceType
<1>3. Append(list[p], g) \in Seq(Group)
  BY AppendProperties DEF TypeInv, TypeOK
<1> QED
  BY <1>1, <1>2, <1>3 DEF TypeInv, TypeOK, JobsNameGroups, LoadRows, PcValues
-----------------------------------------------------------------------------
(* Clusters and pre-attributed fills.                                      *)

\* TakeCluster keeps the invariant.
LEMMA TakeClusterType ==
    ASSUME TypeInv, NEW p \in Pass, TakeCluster(p)
    PROVE  TypeInv'
<1> DEFINE c == FirstCluster(cand[p])
<1>1. TablesType'
  BY UnchangedTablesType DEF TypeInv, TypeOK, TakeCluster
<1>2. c \in SUBSET Txn
  BY DEF TypeInv, TypeOK, FirstCluster
<1> HIDE DEF c
<1>3. \A j \in IntentJobs(p, c) : j \in Job /\ j.group \in Group /\ j.kind \in {"fill", "exit"}
  BY <1>2, IntentJobsType
<1>4. /\ cand' = [cand EXCEPT ![p] = @ \ c]
      /\ cluster' = [cluster EXCEPT ![p] = {t \in c : intended[p][t] = NoGroup}]
      /\ todo' = [todo EXCEPT ![p] = IntentJobs(p, c)]
  BY DEF TakeCluster, c
<1>5. todo' \in [Pass -> SUBSET Job]
  BY <1>3, <1>4 DEF TypeInv, TypeOK
<1>6. cand' \in [Pass -> SUBSET Txn] /\ cluster' \in [Pass -> SUBSET Txn]
  BY <1>2, <1>4 DEF TypeInv, TypeOK
<1>7. TypeOK'
  BY <1>1, <1>5, <1>6 DEF TypeInv, TypeOK, TakeCluster
<1>8. todo'[p] = IntentJobs(p, c)
  BY <1>4 DEF TypeInv, TypeOK
<1>9. phase' = [phase EXCEPT ![p] = "intent"]
  BY DEF TakeCluster
<1>10. \A q \in Pass : q # p => todo'[q] = todo[q] /\ phase'[q] = phase[q]
  BY <1>4, <1>9 DEF TypeInv, TypeOK
<1>11. JobsNameGroups'
  BY <1>3, <1>8, <1>10 DEF TypeInv, JobsNameGroups
<1> QED
  BY <1>7, <1>11 DEF TypeInv

\* FindGroup keeps the invariant.
LEMMA FindGroupType ==
    ASSUME TypeInv, NEW p \in Pass, NEW j \in todo[p], FindGroup(p, j)
    PROVE  TypeInv'
<1>1. TablesType'
  BY UnchangedTablesType DEF TypeInv, TypeOK, FindGroup
<1>2. j.group \in Group
  BY DEF TypeInv, JobsNameGroups, FindGroup
<1>3. Once(GroupTransactions(j.group)) \in Count
  BY OnceType
<1>4. Append(list[p], j.group) \in Seq(Group)
  BY <1>2, AppendProperties DEF TypeInv, TypeOK
<1>5. TypeOK'
  BY <1>1, <1>3, <1>4 DEF TypeInv, TypeOK, FindGroup
<1>6. JobsNameGroups'
  BY DEF TypeInv, JobsNameGroups, FindGroup
<1> QED
  BY <1>5, <1>6 DEF TypeInv

\* Route keeps the invariant.
LEMMA RouteType ==
    ASSUME TypeInv, NEW p \in Pass, Route(p)
    PROVE  TypeInv'
<1>1. TablesType'
  BY UnchangedTablesType DEF TypeInv, TypeOK, Route
<1> DEFINE routed == RouteCluster(list[p], Members(p), cluster[p])
<1>2. \A j \in RoutedJobs(p, routed) : j \in Job /\ (j.kind # "create" => j.group \in Group)
  BY RoutedJobsType
<1>3. /\ todo' = [todo EXCEPT ![p] = RoutedJobs(p, routed)]
      /\ rest' = [rest EXCEPT ![p] = {t \in cluster[p] : routed.to[t] = NoGroup}]
  BY DEF Route
<1> HIDE DEF routed
<1>4. todo' \in [Pass -> SUBSET Job]
  BY <1>2, <1>3 DEF TypeInv, TypeOK
<1>5. rest' \in [Pass -> SUBSET Txn]
  BY <1>3 DEF TypeInv, TypeOK
<1>6. TypeOK'
  BY <1>1, <1>4, <1>5 DEF TypeInv, TypeOK, Route
<1>7. JobsNameGroups'
  BY <1>2, <1>3 DEF TypeInv, TypeOK, JobsNameGroups, Route
<1> QED
  BY <1>6, <1>7 DEF TypeInv

\* The job a pass turns to is well typed.
LEMMA NextJobType ==
    ASSUME TypeInv, NEW p \in Pass, NEW j \in todo[p]
    PROVE  /\ j \in Job
           /\ j.rows \in SUBSET Txn
           /\ j.group \in Group \cup {NoGroup}
           /\ j.kind # "create" => j.group \in Group
  BY DEF TypeInv, TypeOK, JobsNameGroups, Job

\* AttachFills keeps the invariant.
LEMMA AttachFillsType ==
    ASSUME TypeInv, NEW p \in Pass, NEW j \in todo[p], AttachFills(p, j)
    PROVE  TypeInv'
<1>1. TablesType'
  BY AttachTransactionsType, NextJobType DEF TypeInv, TypeOK, AttachFills
<1>2. j.group \in Group
  BY NextJobType DEF AttachFills
<1>3. ExtendUnique(book[p][j.group], j.rows) \in Count
  BY <1>2, ExtendUniqueType DEF TypeInv, TypeOK
<1>4. TypeOK'
  BY <1>1, <1>3, NextJobType DEF TypeInv, TypeOK, AttachFills, PcValues
<1>5. JobsNameGroups'
  BY DEF TypeInv, TypeOK, JobsNameGroups, AttachFills
<1> QED
  BY <1>4, <1>5 DEF TypeInv

\* RefreshRead keeps the invariant.
LEMMA RefreshReadType ==
    ASSUME TypeInv, NEW p \in Pass, RefreshRead(p)
    PROVE  TypeInv'
<1>1. TablesType'
  BY UnchangedTablesType DEF TypeInv, TypeOK, RefreshRead
<1>2. \A g \in Group : groupRow[g] \in GroupRowType
  BY DEF TypeInv, TypeOK, TablesType
<1>3. pc' \in [Pass -> PcValues] /\ seen' \in [Pass -> GroupRowType]
  BY <1>2 DEF TypeInv, TypeOK, RefreshRead, PcValues
<1>4. TypeOK'
  BY <1>1, <1>3 DEF TypeInv, TypeOK, RefreshRead
<1>5. JobsNameGroups'
  BY DEF TypeInv, JobsNameGroups, RefreshRead
<1> QED
  BY <1>4, <1>5 DEF TypeInv

\* RefreshWrite keeps the invariant.
LEMMA RefreshWriteType ==
    ASSUME TypeInv, NEW p \in Pass, RefreshWrite(p)
    PROVE  TypeInv'
<1>1. PICK g \in Group :
        UpsertTradeGroup(g, [seen[p] EXCEPT !.premium = book[p][g], !.fees = book[p][g]])
  BY DEF RefreshWrite
<1>2. [seen[p] EXCEPT !.premium = book[p][g], !.fees = book[p][g]] \in GroupRowType
  <2>1. book[p][g] \in Count /\ seen[p] \in GroupRowType
    BY DEF TypeInv, TypeOK
  <2> QED
    BY <2>1 DEF GroupRowType
<1>3. TablesType'
  BY <1>1, <1>2, UpsertTradeGroupType DEF TypeInv, TypeOK
<1>4. NoJob \in Job
  BY DEF NoJob, Job
<1>5. TypeOK'
  BY <1>3, <1>4, NoRowType DEF TypeInv, TypeOK, RefreshWrite, PcValues
<1>6. JobsNameGroups'
  BY DEF TypeInv, JobsNameGroups, RefreshWrite
<1> QED
  BY <1>5, <1>6 DEF TypeInv

-----------------------------------------------------------------------------
(* New groups.                                                             *)

\* Create keeps the invariant.
LEMMA CreateType ==
    ASSUME TypeInv, NEW p \in Pass, NEW j \in todo[p], NEW g \in Group, Create(p, j, g)
    PROVE  TypeInv'
<1> DEFINE row == [NoRow EXCEPT !.status = "open", !.premium = Once(j.rows),
                                !.fees = Once(j.rows)]
<1>1. row \in GroupRowType
  BY NoRowType, OnceType DEF GroupRowType, Statuses
<1>2. UpsertTradeGroup(g, row)
  BY DEF Create
<1> HIDE DEF row
<1>3. TablesType'
  BY <1>1, <1>2, UpsertTradeGroupType DEF TypeInv, TypeOK
<1>4. [j EXCEPT !.group = g] \in Job
  BY NextJobType DEF Job
<1>5. TypeOK'
  BY <1>3, <1>4, NextJobType DEF TypeInv, TypeOK, Create, PcValues
<1>6. JobsNameGroups'
  BY DEF TypeInv, TypeOK, JobsNameGroups, Create
<1> QED
  BY <1>5, <1>6 DEF TypeInv

\* CreateAttach keeps the invariant.
LEMMA CreateAttachType ==
    ASSUME TypeInv, NEW p \in Pass, CreateAttach(p)
    PROVE  TypeInv'
<1>1. job[p].group \in Group \cup {NoGroup}
  BY DEF TypeInv, TypeOK, Job
<1>2. TablesType'
  BY <1>1, AttachTransactionsType DEF TypeInv, TypeOK, CreateAttach
<1>3. TypeOK'
  BY <1>2 DEF TypeInv, TypeOK, CreateAttach, PcValues
<1>4. JobsNameGroups'
  BY DEF TypeInv, JobsNameGroups, CreateAttach
<1> QED
  BY <1>3, <1>4 DEF TypeInv

\* CreateOrders keeps the invariant.
LEMMA CreateOrdersType ==
    ASSUME TypeInv, NEW p \in Pass, CreateOrders(p)
    PROVE  TypeInv'
<1>1. job[p].group \in Group \cup {NoGroup}
  BY DEF TypeInv, TypeOK, Job
<1>2. {o \in orders : \E t \in job[p].rows : Row[t].order = o} \in SUBSET Order
  BY DEF TypeInv, TypeOK, TablesType
<1>3. TablesType'
  BY <1>1, <1>2, UpsertOrdersType DEF TypeInv, TypeOK, CreateOrders
<1>4. TypeOK'
  BY <1>3 DEF TypeInv, TypeOK, CreateOrders, PcValues
<1>5. JobsNameGroups'
  BY DEF TypeInv, JobsNameGroups, CreateOrders
<1> QED
  BY <1>4, <1>5 DEF TypeInv

\* CreateEntry keeps the invariant.
LEMMA CreateEntryType ==
    ASSUME TypeInv, NEW p \in Pass, CreateEntry(p)
    PROVE  TypeInv'
<1>1. PICK g \in Group :
        /\ AddEntryEvent(g)
        /\ newGroup' = [newGroup EXCEPT ![p] = g]
        /\ book' = [book EXCEPT ![p][g] = Once(job[p].rows)]
        /\ list' = [list EXCEPT ![p] = Append(@, g)]
        /\ created' = [created EXCEPT ![p] =
                Append(@, [group |-> g, rows |-> job[p].rows])]
  BY DEF CreateEntry
<1>2. TablesType'
  BY <1>1, AddEntryEventType DEF TypeInv, TypeOK
<1>3. Append(list[p], g) \in Seq(Group)
  BY AppendProperties DEF TypeInv, TypeOK
<1>4. Append(created[p], [group |-> g, rows |-> job[p].rows])
        \in Seq(CreatedGroup)
  BY AppendProperties DEF TypeInv, TypeOK, Job, CreatedGroup
<1>5. NoJob \in Job
  BY DEF NoJob, Job
<1>6. book' \in [Pass -> [Group -> Count]]
  BY <1>1, OnceType DEF TypeInv, TypeOK
<1>7. TypeOK'
  BY <1>1, <1>2, <1>3, <1>4, <1>5, <1>6 DEF TypeInv, TypeOK, CreateEntry, PcValues
<1>8. JobsNameGroups'
  BY DEF TypeInv, JobsNameGroups, CreateEntry
<1> QED
  BY <1>7, <1>8 DEF TypeInv

-----------------------------------------------------------------------------
(* Exits.                                                                  *)

\* ExitAttach keeps the invariant.
LEMMA ExitAttachType ==
    ASSUME TypeInv, NEW p \in Pass, NEW j \in todo[p], ExitAttach(p, j)
    PROVE  TypeInv'
<1> DEFINE count == book[p][j.group]
           new   == {t \in j.rows : count[t] = 0}
           to    == RolledTo(p, j.rows)
           events == ExitEvents(p, j, new)
<1>1. TablesType'
  BY AttachTransactionsType, NextJobType DEF TypeInv, TypeOK, ExitAttach
<1>2. j.group \in Group /\ j \in Job /\ j.rows \in SUBSET Txn
  BY NextJobType DEF ExitAttach
<1>3. ExtendUnique(count, new) \in Count
  BY <1>2, ExtendUniqueType DEF TypeInv, TypeOK
<1>4. to \in Group \cup {NoGroup}
  BY RolledToType
<1>5. new \in SUBSET Txn
  BY <1>2
<1>6. events \in SUBSET Event
  BY <1>5, ExitEventsType
<1>7. Without(list[p], j.group) \in Seq(Group)
  BY WithoutType DEF TypeInv, TypeOK
<1>8. /\ todo' = [todo EXCEPT ![p] = @ \ {j}]
      /\ UNCHANGED <<phase, cand, intended, loading, cluster, rest, newGroup, seen,
                     applied, created, quiet, lone, settled, aborts>>
  BY DEF ExitAttach
<1>T. todo' \in [Pass -> SUBSET Job]
  BY <1>8 DEF TypeInv, TypeOK
<1>J. JobsNameGroups'
  BY <1>8 DEF TypeInv, TypeOK, JobsNameGroups
<1>9. CASE new = {}
  <2>1. /\ list' = [list EXCEPT ![p] = IF FullyClosed(Support(count))
                                       THEN Without(@, j.group) ELSE @]
        /\ UNCHANGED <<pc, book, job, pending>>
    BY <1>9 DEF ExitAttach
  <2>2. list' \in [Pass -> Seq(Group)]
    BY <1>7, <2>1 DEF TypeInv, TypeOK
  <2> HIDE DEF new, to, events
  <2>3. TypeOK'
    BY <1>1, <1>8, <1>T, <2>1, <2>2 DEF TypeInv, TypeOK
  <2> QED
    BY <1>J, <2>3 DEF TypeInv
<1>10. CASE new # {}
  <2>1. /\ book' = [book EXCEPT ![p][j.group] = ExtendUnique(@, new)]
        /\ job' = [job EXCEPT ![p] = [j EXCEPT !.rows = new, !.to = to]]
        /\ pending' = [pending EXCEPT ![p] = events]
        /\ pc' = [pc EXCEPT ![p] = "event"]
        /\ UNCHANGED list
    BY <1>10 DEF ExitAttach
  <2> HIDE DEF new, to, events
  <2>2. [j EXCEPT !.rows = new, !.to = to] \in Job
    BY <1>2, <1>4, <1>5 DEF Job
  <2>3. book' \in [Pass -> [Group -> Count]]
    BY <1>2, <1>3, <2>1 DEF TypeInv, TypeOK
  <2>4. /\ job' \in [Pass -> Job]
        /\ pending' \in [Pass -> SUBSET Event]
        /\ pc' \in [Pass -> PcValues]
    BY <1>6, <2>1, <2>2 DEF TypeInv, TypeOK, PcValues
  <2>5. TypeOK'
    BY <1>1, <1>8, <1>T, <2>1, <2>3, <2>4 DEF TypeInv, TypeOK
  <2> QED
    BY <1>J, <2>5 DEF TypeInv
<1> QED
  BY <1>9, <1>10

\* What the roll post-pass is told of an exit is well typed.
LEMMA AddExitType ==
    ASSUME TypeInv, NEW p \in Pass, job[p].group \in Group
    PROVE  AddExit(p) \in Seq(AppliedExit)
<1> DEFINE exit == [group |-> job[p].group, rows |-> job[p].rows,
                    rolled |-> job[p].to # NoGroup]
<1>1. exit \in AppliedExit
  BY DEF TypeInv, TypeOK, Job, AppliedExit
<1>2. applied[p] \in Seq(AppliedExit)
  BY DEF TypeInv, TypeOK
<1>3. AddExit(p) = applied[p] \/ AddExit(p) = Append(applied[p], exit)
  BY DEF AddExit
<1> HIDE DEF exit
<1> QED
  BY <1>1, <1>2, <1>3, AppendProperties

\* EmitEvent keeps the invariant.
LEMMA EmitEventType ==
    ASSUME TypeInv, NEW p \in Pass, NEW e \in pending[p], EmitEvent(p, e)
    PROVE  TypeInv'
<1>1. PICK g \in Group :
        /\ g = job[p].group
        /\ AddExitEvent(g, e.rows, e.to)
        /\ IF pending[p] # {e}
           THEN UNCHANGED <<pc, job, seen, applied>>
           ELSE IF FullyClosed(Support(book[p][g]))
           THEN /\ seen' = [seen EXCEPT ![p] = groupRow[g]]
                /\ pc' = [pc EXCEPT ![p] = "stamp"]
                /\ UNCHANGED <<job, applied>>
           ELSE /\ applied' = [applied EXCEPT ![p] = AddExit(p)]
                /\ job' = [job EXCEPT ![p] = NoJob]
                /\ pc' = [pc EXCEPT ![p] = "work"]
                /\ UNCHANGED seen
  BY DEF EmitEvent
<1>2. e.to \in Group \cup {NoGroup}
  BY DEF TypeInv, TypeOK, Event
<1>3. TablesType'
  BY <1>1, <1>2, AddExitEventType DEF TypeInv, TypeOK
<1>4. NoJob \in Job
  BY DEF NoJob, Job
<1>5. groupRow[g] \in GroupRowType
  BY DEF TypeInv, TypeOK, TablesType
<1>6. /\ pc' \in [Pass -> PcValues]
      /\ job' \in [Pass -> Job]
      /\ seen' \in [Pass -> GroupRowType]
  <2>1. /\ pc' = pc \/ \E v \in {"stamp", "work"} : pc' = [pc EXCEPT ![p] = v]
        /\ job' = job \/ job' = [job EXCEPT ![p] = NoJob]
        /\ seen' = seen \/ seen' = [seen EXCEPT ![p] = groupRow[g]]
    BY <1>1
  <2>2. pc' \in [Pass -> PcValues]
    BY <2>1 DEF TypeInv, TypeOK, PcValues
  <2>3. job \in [Pass -> Job] /\ seen \in [Pass -> GroupRowType]
    BY DEF TypeInv, TypeOK
  <2>4. job' \in [Pass -> Job]
    BY <2>1, <2>3, <1>4
  <2>5. seen' \in [Pass -> GroupRowType]
    BY <2>1, <2>3, <1>5
  <2> QED
    BY <2>2, <2>4, <2>5
<1>7. applied' \in [Pass -> Seq(AppliedExit)]
  <2>1. AddExit(p) \in Seq(AppliedExit)
    BY <1>1, AddExitType
  <2>2. applied' = applied \/ applied' = [applied EXCEPT ![p] = AddExit(p)]
    BY <1>1
  <2> QED
    BY <2>1, <2>2 DEF TypeInv, TypeOK
<1>8. TypeOK'
  BY <1>3, <1>6, <1>7 DEF TypeInv, TypeOK, EmitEvent
<1>9. JobsNameGroups'
  BY DEF TypeInv, JobsNameGroups, EmitEvent
<1> QED
  BY <1>8, <1>9 DEF TypeInv

\* Stamp keeps the invariant.
LEMMA StampType ==
    ASSUME TypeInv, NEW p \in Pass, Stamp(p)
    PROVE  TypeInv'
<1>1. PICK g \in Group :
        /\ g = job[p].group
        /\ UpsertTradeGroup(g, Stamped(seen[p], book[p][g]))
        /\ list' = [list EXCEPT ![p] = Without(@, g)]
        /\ applied' = [applied EXCEPT ![p] = AddExit(p)]
  BY DEF Stamp
<1>2. seen[p] \in GroupRowType /\ book[p][g] \in Count
  BY DEF TypeInv, TypeOK
<1>3. Stamped(seen[p], book[p][g]) \in GroupRowType
  BY <1>2, StampedType
<1>4. TablesType'
  BY <1>1, <1>3, UpsertTradeGroupType DEF TypeInv, TypeOK
<1>5. NoJob \in Job
  BY DEF NoJob, Job
<1>6. Without(list[p], g) \in Seq(Group)
  BY WithoutType DEF TypeInv, TypeOK
<1>7. list' \in [Pass -> Seq(Group)]
  BY <1>1, <1>6 DEF TypeInv, TypeOK
<1>8. applied' \in [Pass -> Seq(AppliedExit)]
  BY <1>1, AddExitType DEF TypeInv, TypeOK
<1>9. TypeOK'
  BY <1>4, <1>5, <1>7, <1>8, NoRowType DEF TypeInv, TypeOK, Stamp, PcValues
<1>10. JobsNameGroups'
  BY DEF TypeInv, JobsNameGroups, Stamp
<1> QED
  BY <1>9, <1>10 DEF TypeInv

-----------------------------------------------------------------------------
(* The end of a pass, and the feed.                                        *)

\* EndClusters keeps the invariant.
LEMMA EndClustersType ==
    ASSUME TypeInv, NEW p \in Pass, EndClusters(p)
    PROVE  TypeInv'
<1>1. TablesType'
  BY UnchangedTablesType DEF TypeInv, TypeOK, EndClusters
<1>2. TypeOK'
  BY <1>1 DEF TypeInv, TypeOK, EndClusters, PcValues
<1>3. JobsNameGroups'
  BY DEF TypeInv, JobsNameGroups, EndClusters
<1> QED
  BY <1>2, <1>3 DEF TypeInv

\* LinkRoll keeps the invariant.
LEMMA LinkRollType ==
    ASSUME TypeInv, NEW p \in Pass, LinkRoll(p)
    PROVE  TypeInv'
<1> DEFINE exit    == Head(applied[p])
           targets == RollTargets(p, exit)
<1>1. applied[p] \in Seq(AppliedExit) /\ applied[p] # <<>>
  BY DEF TypeInv, TypeOK, LinkRoll
<1>2. exit \in AppliedExit /\ Tail(applied[p]) \in Seq(AppliedExit)
  BY <1>1, HeadTailProperties
<1>3. applied' = [applied EXCEPT ![p] = Tail(@)]
  BY DEF LinkRoll
<1>4. TablesType'
  <2>1. CASE targets = {}
    BY <2>1, UnchangedTablesType DEF TypeInv, TypeOK, LinkRoll
  <2>2. CASE targets # {}
    <3>1. AddExitEvent(exit.group, {}, created[p][First(targets)].group)
      BY <2>2 DEF LinkRoll
    <3>2. First(targets) \in 1 .. Len(created[p])
      <4>1. Len(created[p]) \in Nat
        BY LenProperties DEF TypeInv, TypeOK
      <4>2. targets \subseteq 1 .. Len(created[p])
        BY DEF RollTargets
      <4> HIDE DEF targets
      <4>3. First(targets) \in targets
        BY <2>2, <4>1, <4>2, FirstOfNats
      <4> QED
        BY <4>2, <4>3
    <3>3. created[p][First(targets)] \in CreatedGroup
      <4>1. created[p] \in Seq(CreatedGroup)
        BY DEF TypeInv, TypeOK
      <4> QED
        BY <3>2, <4>1, ElementOfSeq
    <3>4. created[p][First(targets)].group \in Group \cup {NoGroup}
      BY <3>3 DEF CreatedGroup
    <3>5. exit.group \in Group
      BY <1>2 DEF AppliedExit
    <3> HIDE DEF exit, targets
    <3> QED
      BY <3>1, <3>4, <3>5, AddExitEventType DEF TypeInv, TypeOK
  <2> QED
    BY <2>1, <2>2
<1>5. applied' \in [Pass -> Seq(AppliedExit)]
  BY <1>2, <1>3 DEF TypeInv, TypeOK
<1>6. TypeOK'
  BY <1>4, <1>5 DEF TypeInv, TypeOK, LinkRoll
<1>7. JobsNameGroups'
  BY DEF TypeInv, JobsNameGroups, LinkRoll
<1> QED
  BY <1>6, <1>7 DEF TypeInv

\* StartHeal keeps the invariant.
LEMMA StartHealType ==
    ASSUME TypeInv, NEW p \in Pass, StartHeal(p)
    PROVE  TypeInv'
<1>1. TablesType'
  BY UnchangedTablesType DEF TypeInv, TypeOK, StartHeal
<1>2. TypeOK'
  BY <1>1 DEF TypeInv, TypeOK, StartHeal, PcValues
<1>3. JobsNameGroups'
  BY DEF TypeInv, TypeOK, JobsNameGroups, StartHeal
<1> QED
  BY <1>2, <1>3 DEF TypeInv

\* The rest of a list of groups is a list of groups.
LEMMA TailType ==
    ASSUME TypeInv, NEW p \in Pass, list[p] # <<>>
    PROVE  Head(list[p]) \in Group /\ Tail(list[p]) \in Seq(Group)
<1>1. list[p] \in Seq(Group)
  BY DEF TypeInv, TypeOK
<1> QED
  BY <1>1, HeadTailProperties

\* HealRead keeps the invariant.
LEMMA HealReadType ==
    ASSUME TypeInv, NEW p \in Pass, HealRead(p)
    PROVE  TypeInv'
<1>1. TablesType'
  BY UnchangedTablesType DEF TypeInv, TypeOK, HealRead
<1>2. PICK g \in Group :
        IF FullyClosed(Support(book[p][g]))
        THEN /\ seen' = [seen EXCEPT ![p] = groupRow[g]]
             /\ pc' = [pc EXCEPT ![p] = "healWrite"]
             /\ UNCHANGED list
        ELSE /\ list' = [list EXCEPT ![p] = Tail(@)]
             /\ UNCHANGED <<seen, pc>>
  BY DEF HealRead
<1>3. groupRow[g] \in GroupRowType
  BY DEF TypeInv, TypeOK, TablesType
<1>4. Tail(list[p]) \in Seq(Group)
  BY TailType DEF HealRead
<1>5. /\ seen' \in [Pass -> GroupRowType]
      /\ pc' \in [Pass -> PcValues]
      /\ list' \in [Pass -> Seq(Group)]
  BY <1>2, <1>3, <1>4 DEF TypeInv, TypeOK, PcValues
<1>6. TypeOK'
  BY <1>1, <1>5 DEF TypeInv, TypeOK, HealRead
<1>7. JobsNameGroups'
  BY DEF TypeInv, JobsNameGroups, HealRead
<1> QED
  BY <1>6, <1>7 DEF TypeInv

\* HealWrite keeps the invariant.
LEMMA HealWriteType ==
    ASSUME TypeInv, NEW p \in Pass, HealWrite(p)
    PROVE  TypeInv'
<1>1. PICK g \in Group : UpsertTradeGroup(g, Stamped(seen[p], book[p][g]))
  BY DEF HealWrite
<1>2. seen[p] \in GroupRowType /\ book[p][g] \in Count
  BY DEF TypeInv, TypeOK
<1>3. Stamped(seen[p], book[p][g]) \in GroupRowType
  BY <1>2, StampedType
<1>4. TablesType'
  BY <1>1, <1>3, UpsertTradeGroupType DEF TypeInv, TypeOK
<1>5. list' \in [Pass -> Seq(Group)]
  BY TailType DEF TypeInv, TypeOK, HealWrite
<1>6. TypeOK'
  BY <1>4, <1>5, NoRowType DEF TypeInv, TypeOK, HealWrite, PcValues
<1>7. JobsNameGroups'
  BY DEF TypeInv, JobsNameGroups, HealWrite
<1> QED
  BY <1>6, <1>7 DEF TypeInv

\* A pass back at idle, with its locals empty, keeps the invariant.
LEMMA ForgetType ==
    ASSUME TypeInv, NEW p \in Pass, Forget(p), UNCHANGED tables,
           quiet' = [quiet EXCEPT ![p] = FALSE], lone' = [lone EXCEPT ![p] = FALSE],
           settled' \in BOOLEAN,
           aborts' \in 0 .. MaxAborts
    PROVE  TypeInv'
<1>1. TablesType'
  BY UnchangedTablesType DEF TypeInv, TypeOK
<1>2. NoJob \in Job
  BY DEF NoJob, Job
<1>3. [g \in Group |-> None] \in [Group -> Count]
  BY OnceType
<1>4. /\ book' \in [Pass -> [Group -> Count]]
      /\ job' \in [Pass -> Job]
      /\ seen' \in [Pass -> GroupRowType]
  BY <1>2, <1>3, NoRowType DEF TypeInv, TypeOK, Forget
<1>5. /\ list' \in [Pass -> Seq(Group)]
      /\ applied' \in [Pass -> Seq(AppliedExit)]
      /\ created' \in [Pass -> Seq(CreatedGroup)]
  BY DEF TypeInv, TypeOK, Forget
<1>6. TypeOK'
  BY <1>1, <1>4, <1>5 DEF TypeInv, TypeOK, Forget, PcValues
<1>7. JobsNameGroups'
  BY DEF TypeInv, TypeOK, JobsNameGroups, Forget
<1> QED
  BY <1>6, <1>7 DEF TypeInv

\* EndPass keeps the invariant.
LEMMA EndPassType ==
    ASSUME TypeInv, NEW p \in Pass, EndPass(p)
    PROVE  TypeInv'
<1>1. settled' \in BOOLEAN /\ aborts' \in 0 .. MaxAborts
  BY DEF TypeInv, TypeOK, EndPass
<1> QED
  BY <1>1, ForgetType DEF EndPass

\* AbortPass keeps the invariant.
LEMMA AbortPassType ==
    ASSUME TypeInv, NEW p \in Pass, AbortPass(p)
    PROVE  TypeInv'
<1>1. settled' \in BOOLEAN /\ aborts' \in 0 .. MaxAborts
  BY ReconcileAssumption DEF TypeInv, TypeOK, AbortPass
<1> QED
  BY <1>1, ForgetType DEF AbortPass

\* The feed keeps the invariant.
LEMMA FeedType ==
    ASSUME TypeInv, Feed
    PROVE  TypeInv'
<1>1. TablesType'
  <2>1. ASSUME NEW t \in Txn, FeedTransaction(t)
        PROVE  TablesType'
    BY <2>1, UpsertTransactionType DEF TypeInv, TypeOK, FeedTransaction, SyncTransaction
  <2>2. ASSUME NEW o \in Order, FeedOrder(o)
        PROVE  TablesType'
    BY <2>2, UpsertOrdersType DEF TypeInv, TypeOK, FeedOrder, SyncOrder
  <2>3. ASSUME NEW i \in Intent, NEW g \in Group, FeedTradeGroup(i, g)
        PROVE  TablesType'
    BY <2>3, OpenTradeGroupType DEF TypeInv, TypeOK, FeedTradeGroup
  <2>4. ASSUME NEW o \in Order, FeedRecordOrder(o)
        PROVE  TablesType'
    BY <2>4, RecordOrderType DEF TypeInv, TypeOK, FeedRecordOrder
  <2> QED
    BY <2>1, <2>2, <2>3, <2>4 DEF Feed
<1>2. UNCHANGED <<locals, lone, aborts>> /\ Disturbs
  BY DEF Feed, FeedTransaction, FeedOrder, FeedTradeGroup, FeedRecordOrder
<1>3. quiet' \in [Pass -> BOOLEAN] /\ settled' \in BOOLEAN
  BY <1>2 DEF TypeInv, TypeOK, Disturbs
<1>4. TypeOK'
  BY <1>1, <1>2, <1>3 DEF TypeInv, TypeOK, locals
<1>5. JobsNameGroups'
  BY <1>2 DEF TypeInv, JobsNameGroups, locals
<1> QED
  BY <1>4, <1>5 DEF TypeInv

\* The empty ledger satisfies the invariant.
LEMMA InitType == Init => TypeInv
<1> SUFFICES ASSUME Init PROVE TypeInv
  OBVIOUS
<1>1. TablesType
  BY OnceType, NoRowType DEF Init, TablesInit, TablesType
<1>2. NoJob \in Job
  BY DEF NoJob, Job
<1>3. book \in [Pass -> [Group -> Count]]
  BY OnceType DEF Init
<1>4. aborts \in 0 .. MaxAborts
  BY ReconcileAssumption DEF Init
<1>5. /\ list \in [Pass -> Seq(Group)]
      /\ applied \in [Pass -> Seq(AppliedExit)]
      /\ created \in [Pass -> Seq(CreatedGroup)]
  BY EmptySeq DEF Init
<1>6. /\ job \in [Pass -> Job]
      /\ seen \in [Pass -> GroupRowType]
      /\ intended \in [Pass -> [Txn -> Group \cup {NoGroup}]]
      /\ pc \in [Pass -> PcValues]
  BY <1>2, NoRowType DEF Init, PcValues
<1>7. TypeOK
  BY <1>1, <1>3, <1>4, <1>5, <1>6 DEF Init, TypeOK
<1>8. JobsNameGroups
  BY DEF Init, JobsNameGroups
<1> QED
  BY <1>7, <1>8 DEF TypeInv
\* Every step keeps the types.
LEMMA NextType ==
    ASSUME TypeInv, [Next]_vars
    PROVE  TypeInv'
<1>1. CASE UNCHANGED vars
  <2>1. TablesType'
    BY <1>1, UnchangedTablesType DEF vars, TypeInv, TypeOK
  <2> QED
    BY <1>1, <2>1 DEF vars, locals, TypeInv, TypeOK, JobsNameGroups
<1>2. CASE Feed
  BY <1>2, FeedType
<1>3. ASSUME NEW p \in Pass, Load(p)
      PROVE  TypeInv'
  BY <1>3, BeginPassType, LinkOrdersType, SnapshotType, ListOpenType, LoadRowsType DEF Load
<1>4. ASSUME NEW p \in Pass, Attribute(p)
      PROVE  TypeInv'
  BY <1>4, TakeClusterType, RouteType, FindGroupType, AttachFillsType, ExitAttachType,
     CreateType, RefreshReadType, RefreshWriteType, CreateAttachType, CreateOrdersType,
     CreateEntryType, EmitEventType, StampType DEF Attribute
<1>5. ASSUME NEW p \in Pass, Finish(p)
      PROVE  TypeInv'
  BY <1>5, EndClustersType, LinkRollType, StartHealType, HealReadType, HealWriteType,
     EndPassType DEF Finish
<1>6. ASSUME NEW p \in Pass, AbortPass(p)
      PROVE  TypeInv'
  BY <1>6, AbortPassType
<1> QED
  BY <1>1, <1>2, <1>3, <1>4, <1>5, <1>6 DEF Next, Step

(* The tables and the local variables of every pass keep their types, for    *)
(* every account, any number of groups and any number of passes: no pass     *)
(* looks up a group it does not know, and no sum or event list goes wrong    *)
(* (reconcile and the store calls it makes).                                 *)
THEOREM TypeCorrect == Spec => []TypeOK
<1>1. Init => TypeInv
  BY InitType
<1>2. TypeInv /\ [Next]_vars => TypeInv'
  BY NextType
<1>3. TypeInv => TypeOK
  BY DEF TypeInv
<1> QED
  BY <1>1, <1>2, <1>3, PTL DEF Spec

-----------------------------------------------------------------------------
(* No amount counts a row twice.                                           *)

\* A set summed once, and a book extended by rows it did not hold, count once.
LEMMA CountsOnce ==
    /\ AtMostOnce(None)
    /\ \A S : AtMostOnce(Once(S))
    /\ \A count \in Count : \A S : AtMostOnce(count) => AtMostOnce(ExtendUnique(count, S))
  BY DEF AtMostOnce, None, Once, ExtendUnique, Count

\* Stamping a row with such a book keeps its sums free of repetition.
LEMMA StampedOnce ==
    ASSUME NEW row \in GroupRowType, NEW count \in Count,
           SumsOnce(row), AtMostOnce(count)
    PROVE  SumsOnce(Stamped(row, count))
  BY DEF Stamped, SumsOnce, GroupRowType

\* Writing one row whose sums are free of repetition.
LEMMA UpsertOnce ==
    ASSUME TypeInv, GroupsOnce, NEW g \in Group, NEW row, SumsOnce(row),
           UpsertTradeGroup(g, row)
    PROVE  GroupsOnce'
<1>1. groupRow' = [groupRow EXCEPT ![g] = row]
  BY DEF UpsertTradeGroup
<1>2. groupRow \in [Group -> GroupRowType]
  BY DEF TypeInv, TypeOK, TablesType
<1>3. \A h \in Group : groupRow'[h] = row \/ groupRow'[h] = groupRow[h]
  BY <1>1, <1>2
<1> QED
  BY <1>3 DEF GroupsOnce, SumsOnce, AtMostOnce

\* Giving one pass a new book for one group.
LEMMA ExtendOnce ==
    ASSUME TypeInv, BooksOnce, NEW p \in Pass, NEW g \in Group, NEW count,
           AtMostOnce(count), book' = [book EXCEPT ![p][g] = count]
    PROVE  BooksOnce'
<1>1. book \in [Pass -> [Group -> Count]]
  BY DEF TypeInv, TypeOK
<1>2. \A q \in Pass, h \in Group : book'[q][h] = count \/ book'[q][h] = book[q][h]
  BY <1>1
<1> QED
  BY <1>2 DEF BooksOnce, AtMostOnce

\* A pass remembering a row it just read, or forgetting one.
LEMMA RememberOnce ==
    ASSUME TypeInv, SeenOnce, GroupsOnce, NEW p \in Pass, NEW row,
           seen' = [seen EXCEPT ![p] = row],
           row = NoRow \/ \E g \in Group : row = groupRow[g]
    PROVE  SeenOnce'
<1>1. seen \in [Pass -> GroupRowType]
  BY DEF TypeInv, TypeOK
<1>2. SumsOnce(row)
  BY CountsOnce DEF GroupsOnce, SumsOnce, NoRow
<1>3. \A q \in Pass : seen'[q] = row \/ seen'[q] = seen[q]
  BY <1>1
<1> QED
  BY <1>2, <1>3 DEF SeenOnce, SumsOnce, AtMostOnce
\* Steps that learn or change no sum.
LEMMA IdleOnce ==
    ASSUME NoDoubleCount, UNCHANGED <<book, seen, groupRow>>
    PROVE  NoDoubleCount'
  BY DEF NoDoubleCount, BooksOnce, SeenOnce, GroupsOnce, SumsOnce, AtMostOnce

\* The feed opens groups with empty sums and touches no other.
LEMMA FeedOnce ==
    ASSUME TypeInv, NoDoubleCount, Feed
    PROVE  NoDoubleCount'
<1>1. UNCHANGED <<book, seen>>
  BY DEF Feed, FeedTransaction, FeedOrder, FeedTradeGroup, FeedRecordOrder, locals
<1>2. CASE UNCHANGED groupRow
  BY <1>1, <1>2, IdleOnce
<1>3. ASSUME NEW i \in Intent, NEW g \in Group, OpenTradeGroup(i, g)
      PROVE  GroupsOnce'
  <2> DEFINE row == [NoRow EXCEPT !.status = "open", !.manual = TRUE,
                                  !.review = "confirmed"]
  <2>1. SumsOnce(row)
    BY CountsOnce DEF SumsOnce, NoRow
  <2>2. groupRow' = [groupRow EXCEPT ![g] = row]
    BY <1>3 DEF OpenTradeGroup
  <2> HIDE DEF row
  <2>3. \A h \in Group : groupRow'[h] = row \/ groupRow'[h] = groupRow[h]
    BY <2>2 DEF TypeInv, TypeOK, TablesType
  <2> QED
    BY <2>1, <2>3 DEF NoDoubleCount, GroupsOnce, SumsOnce, AtMostOnce
<1>4. UNCHANGED groupRow \/ GroupsOnce'
  BY <1>3 DEF Feed, FeedTransaction, FeedOrder, FeedTradeGroup, FeedRecordOrder,
     SyncTransaction, SyncOrder, RecordOrder, UpsertTransaction, UpsertOrders
<1>5. BooksOnce' /\ SeenOnce'
  BY <1>1 DEF NoDoubleCount, BooksOnce, SeenOnce, SumsOnce, AtMostOnce
<1> QED
  BY <1>2, <1>4, <1>5 DEF NoDoubleCount

\* A member list loaded from the table holds each row once.
LEMMA LoadOnce ==
    ASSUME TypeInv, NoDoubleCount, NEW p \in Pass, Load(p)
    PROVE  NoDoubleCount'
<1>1. CASE BeginPass(p)
  BY <1>1, IdleOnce DEF BeginPass, LinkTransactionsToOrders
<1>2. CASE LinkOrders(p)
  BY <1>2, IdleOnce DEF LinkOrders, LinkOrdersToGroups
<1>3. CASE Snapshot(p)
  BY <1>3, IdleOnce DEF Snapshot, tables
<1>4. CASE ListOpen(p)
  <2>1. UNCHANGED <<groupRow, seen>>
    BY <1>4 DEF ListOpen, tables
  <2>2. \A q \in Pass, h \in Group : book'[q][h] = None \/ book'[q][h] = book[q][h]
    BY <1>4 DEF ListOpen, TypeInv, TypeOK
  <2>3. BooksOnce'
    BY <2>2, CountsOnce DEF NoDoubleCount, BooksOnce, AtMostOnce
  <2> QED
    BY <2>1, <2>3 DEF NoDoubleCount, SeenOnce, GroupsOnce, SumsOnce, AtMostOnce
<1>5. ASSUME NEW g \in Group, LoadRows(p, g)
      PROVE  NoDoubleCount'
  <2>1. UNCHANGED <<groupRow, seen>>
    BY <1>5 DEF LoadRows, tables
  <2>2. BooksOnce'
    BY <1>5, CountsOnce, ExtendOnce DEF LoadRows, NoDoubleCount
  <2> QED
    BY <2>1, <2>2 DEF NoDoubleCount, SeenOnce, GroupsOnce, SumsOnce, AtMostOnce
<1> QED
  BY <1>1, <1>2, <1>3, <1>4, <1>5 DEF Load

\* Steps of the attribution that only give a pass a new book for one group.
LEMMA BookOnce ==
    ASSUME TypeInv, NoDoubleCount, NEW p \in Pass, UNCHANGED <<seen, groupRow>>,
           NEW g \in Group, NEW count, AtMostOnce(count),
           book' = [book EXCEPT ![p][g] = count]
    PROVE  NoDoubleCount'
<1>1. BooksOnce'
  BY ExtendOnce DEF NoDoubleCount
<1> QED
  BY <1>1 DEF NoDoubleCount, SeenOnce, GroupsOnce, SumsOnce, AtMostOnce

\* Fills and exits extend a member list by rows it does not hold.
LEMMA FillsOnce ==
    ASSUME TypeInv, NoDoubleCount, NEW p \in Pass, NEW j \in todo[p],
           FindGroup(p, j) \/ AttachFills(p, j) \/ ExitAttach(p, j)
    PROVE  NoDoubleCount'
<1>1. j.group \in Group
  BY NextJobType DEF FindGroup, AttachFills, ExitAttach, TypeInv, JobsNameGroups
<1>2. book[p][j.group] \in Count /\ AtMostOnce(book[p][j.group])
  BY <1>1 DEF TypeInv, TypeOK, NoDoubleCount, BooksOnce
<1>3. CASE FindGroup(p, j)
  BY <1>1, <1>3, BookOnce, CountsOnce DEF FindGroup, tables
<1>4. CASE AttachFills(p, j)
  <2>1. UNCHANGED <<seen, groupRow>>
    BY <1>4 DEF AttachFills, AttachTransactions
  <2>2. book' = [book EXCEPT ![p][j.group] = ExtendUnique(book[p][j.group], j.rows)]
    BY <1>4 DEF AttachFills
  <2> QED
    BY <1>1, <1>2, <2>1, <2>2, BookOnce, CountsOnce
<1>5. CASE ExitAttach(p, j)
  <2> DEFINE new == {t \in j.rows : book[p][j.group][t] = 0}
  <2>1. UNCHANGED <<seen, groupRow>>
    BY <1>5 DEF ExitAttach, AttachTransactions
  <2>2. \/ UNCHANGED book
        \/ book' = [book EXCEPT ![p][j.group] = ExtendUnique(book[p][j.group], new)]
    BY <1>5 DEF ExitAttach
  <2> HIDE DEF new
  <2> QED
    BY <1>1, <1>2, <2>1, <2>2, BookOnce, IdleOnce, CountsOnce
<1> QED
  BY <1>3, <1>4, <1>5

\* A new group starts with the rows of its job, once each.
LEMMA CreateOnce ==
    ASSUME TypeInv, NoDoubleCount, NEW p \in Pass,
           \/ \E j \in todo[p], g \in Group : Create(p, j, g)
           \/ CreateAttach(p) \/ CreateOrders(p) \/ CreateEntry(p)
    PROVE  NoDoubleCount'
<1>1. ASSUME NEW j \in todo[p], NEW g \in Group, Create(p, j, g)
      PROVE  NoDoubleCount'
  <2> DEFINE row == [NoRow EXCEPT !.status = "open", !.premium = Once(j.rows),
                                  !.fees = Once(j.rows)]
  <2>1. UpsertTradeGroup(g, row) /\ UNCHANGED <<book, seen>>
    BY <1>1 DEF Create
  <2>2. SumsOnce(row)
    BY CountsOnce DEF SumsOnce, NoRow
  <2> HIDE DEF row
  <2>3. GroupsOnce'
    BY <2>1, <2>2, UpsertOnce DEF NoDoubleCount
  <2> QED
    BY <2>1, <2>3 DEF NoDoubleCount, BooksOnce, SeenOnce, SumsOnce, AtMostOnce
<1>2. CASE CreateAttach(p)
  BY <1>2, IdleOnce DEF CreateAttach, AttachTransactions
<1>3. CASE CreateOrders(p)
  BY <1>3, IdleOnce DEF CreateOrders, UpsertOrders
<1>4. CASE CreateEntry(p)
  <2>1. PICK g \in Group : /\ AddEntryEvent(g)
                           /\ book' = [book EXCEPT ![p][g] = Once(job[p].rows)]
    BY <1>4 DEF CreateEntry
  <2>2. UNCHANGED <<seen, groupRow>>
    BY <1>4, <2>1 DEF CreateEntry, AddEntryEvent
  <2> QED
    BY <2>1, <2>2, BookOnce, CountsOnce
<1> QED
  BY <1>1, <1>2, <1>3, <1>4
\* Steps that only remember a row or forget one.
LEMMA SeenRowOnce ==
    ASSUME TypeInv, NoDoubleCount, NEW p \in Pass, NEW row,
           UNCHANGED <<book, groupRow>>, seen' = [seen EXCEPT ![p] = row],
           row = NoRow \/ \E g \in Group : row = groupRow[g]
    PROVE  NoDoubleCount'
<1>1. SeenOnce'
  BY RememberOnce DEF NoDoubleCount
<1> QED
  BY <1>1 DEF NoDoubleCount, BooksOnce, GroupsOnce, SumsOnce, AtMostOnce

\* Steps that write a row and forget the one they had read.
LEMMA WriteOnce ==
    ASSUME TypeInv, NoDoubleCount, NEW p \in Pass, NEW g \in Group, NEW row,
           UNCHANGED book, UpsertTradeGroup(g, row), SumsOnce(row),
           seen' = [seen EXCEPT ![p] = NoRow]
    PROVE  NoDoubleCount'
<1>1. GroupsOnce'
  BY UpsertOnce DEF NoDoubleCount
<1>2. SeenOnce'
  BY RememberOnce DEF NoDoubleCount
<1>3. BooksOnce'
  BY DEF NoDoubleCount, BooksOnce, AtMostOnce
<1> QED
  BY <1>1, <1>2, <1>3 DEF NoDoubleCount

\* The refresh sums the pass's member list over the row it read.
LEMMA RefreshOnce ==
    ASSUME TypeInv, NoDoubleCount, NEW p \in Pass, RefreshRead(p) \/ RefreshWrite(p)
    PROVE  NoDoubleCount'
<1>1. CASE RefreshRead(p)
  <2>1. PICK g \in Group : seen' = [seen EXCEPT ![p] = groupRow[g]]
    BY <1>1 DEF RefreshRead
  <2>2. UNCHANGED <<book, groupRow>>
    BY <1>1 DEF RefreshRead, tables
  <2> QED
    BY <2>1, <2>2, SeenRowOnce
<1>2. CASE RefreshWrite(p)
  <2>1. PICK g \in Group :
          UpsertTradeGroup(g, [seen[p] EXCEPT !.premium = book[p][g],
                                              !.fees    = book[p][g]])
    BY <1>2 DEF RefreshWrite
  <2> DEFINE row == [seen[p] EXCEPT !.premium = book[p][g], !.fees = book[p][g]]
  <2>2. seen[p] \in GroupRowType /\ SumsOnce(seen[p]) /\ AtMostOnce(book[p][g])
    BY DEF TypeInv, TypeOK, NoDoubleCount, BooksOnce, SeenOnce
  <2>3. SumsOnce(row)
    BY <2>2 DEF SumsOnce, GroupRowType
  <2>4. UNCHANGED book /\ seen' = [seen EXCEPT ![p] = NoRow]
    BY <1>2 DEF RefreshWrite
  <2> HIDE DEF row
  <2>5. UpsertTradeGroup(g, row)
    BY <2>1 DEF row
  <2> QED
    BY <2>3, <2>4, <2>5, WriteOnce
<1> QED
  BY <1>1, <1>2

\* Events carry rows, but no sum of the group.
LEMMA EmitEventOnce ==
    ASSUME TypeInv, NoDoubleCount, NEW p \in Pass, NEW e \in pending[p], EmitEvent(p, e)
    PROVE  NoDoubleCount'
<1>1. PICK g \in Group :
        /\ AddExitEvent(g, e.rows, e.to)
        /\ UNCHANGED seen \/ seen' = [seen EXCEPT ![p] = groupRow[g]]
  BY DEF EmitEvent
<1>2. UNCHANGED <<book, groupRow>>
  BY <1>1 DEF EmitEvent, AddExitEvent
<1> QED
  BY <1>1, <1>2, SeenRowOnce, IdleOnce

\* The row a pass stamps counts once what its book counts once.
LEMMA StampOnce ==
    ASSUME TypeInv, NoDoubleCount, NEW p \in Pass, Stamp(p) \/ HealWrite(p)
    PROVE  NoDoubleCount'
<1>1. PICK g \in Group : UpsertTradeGroup(g, Stamped(seen[p], book[p][g]))
  BY DEF Stamp, HealWrite
<1>2. UNCHANGED book /\ seen' = [seen EXCEPT ![p] = NoRow]
  BY DEF Stamp, HealWrite
<1>3. /\ seen[p] \in GroupRowType /\ SumsOnce(seen[p])
      /\ book[p][g] \in Count /\ AtMostOnce(book[p][g])
  BY DEF TypeInv, TypeOK, NoDoubleCount, BooksOnce, SeenOnce
<1>4. SumsOnce(Stamped(seen[p], book[p][g]))
  BY <1>3, StampedOnce
<1> QED
  BY <1>1, <1>2, <1>4, WriteOnce

\* The heal remembers a row as it stands in the table.
LEMMA HealReadOnce ==
    ASSUME TypeInv, NoDoubleCount, NEW p \in Pass, HealRead(p)
    PROVE  NoDoubleCount'
<1>1. PICK g \in Group : UNCHANGED seen \/ seen' = [seen EXCEPT ![p] = groupRow[g]]
  BY DEF HealRead
<1>2. UNCHANGED <<book, groupRow>>
  BY DEF HealRead, tables
<1> QED
  BY <1>1, <1>2, SeenRowOnce, IdleOnce

\* A pass that ends or dies drops its lists.
LEMMA ForgetOnce ==
    ASSUME TypeInv, NoDoubleCount, NEW p \in Pass, Forget(p), UNCHANGED tables
    PROVE  NoDoubleCount'
<1>1. UNCHANGED groupRow
  BY DEF tables
<1>2. \A q \in Pass, h \in Group : book'[q][h] = None \/ book'[q][h] = book[q][h]
  BY DEF Forget, TypeInv, TypeOK
<1>3. BooksOnce'
  BY <1>2, CountsOnce DEF NoDoubleCount, BooksOnce, AtMostOnce
<1>4. SeenOnce'
  BY RememberOnce DEF NoDoubleCount, Forget
<1> QED
  BY <1>1, <1>3, <1>4 DEF NoDoubleCount, GroupsOnce, SumsOnce, AtMostOnce

\* Every step keeps every sum free of repetition.
LEMMA NextOnce ==
    ASSUME TypeInv, NoDoubleCount, [Next]_vars
    PROVE  NoDoubleCount'
<1>1. CASE UNCHANGED vars
  BY <1>1, IdleOnce DEF vars, locals, tables
<1>2. CASE Feed
  BY <1>2, FeedOnce
<1>3. ASSUME NEW p \in Pass, Load(p)
      PROVE  NoDoubleCount'
  BY <1>3, LoadOnce
<1>4. ASSUME NEW p \in Pass, Attribute(p)
      PROVE  NoDoubleCount'
  <2>1. CASE TakeCluster(p) \/ Route(p)
    BY <2>1, IdleOnce DEF TakeCluster, Route, tables
  <2> QED
    BY <1>4, <2>1, FillsOnce, CreateOnce, RefreshOnce, EmitEventOnce, StampOnce
       DEF Attribute
<1>5. ASSUME NEW p \in Pass, Finish(p)
      PROVE  NoDoubleCount'
  <2>1. CASE EndClusters(p) \/ StartHeal(p)
    BY <2>1, IdleOnce DEF EndClusters, StartHeal, tables
  <2>2. CASE LinkRoll(p)
    <3>1. UNCHANGED groupRow
      BY <2>2 DEF LinkRoll, AddExitEvent, tables
    <3> QED
      BY <2>2, <3>1, IdleOnce DEF LinkRoll
  <2>3. CASE EndPass(p)
    BY <2>3, ForgetOnce DEF EndPass
  <2> QED
    BY <1>5, <2>1, <2>2, <2>3, HealReadOnce, StampOnce DEF Finish
<1>6. ASSUME NEW p \in Pass, AbortPass(p)
      PROVE  NoDoubleCount'
  BY <1>6, ForgetOnce DEF AbortPass
<1> QED
  BY <1>1, <1>2, <1>3, <1>4, <1>5, <1>6 DEF Next, Step

(* No premium, fee or profit total counts a transaction twice, and neither   *)
(* does the member list of any pass: whatever the interleaving of passes and *)
(* feed, however often a row is loaded, attached and applied again           *)
(* (_OpenGroup.extend_unique).                                               *)
THEOREM CountedOnce == Spec => []NoDoubleCount
<1>1. Init => TypeInv /\ NoDoubleCount
  BY InitType, CountsOnce DEF Init, TablesInit, NoRow, NoDoubleCount, BooksOnce,
     SeenOnce, GroupsOnce, SumsOnce
<1>2. TypeInv /\ NoDoubleCount /\ [Next]_vars => TypeInv' /\ NoDoubleCount'
  BY NextType, NextOnce
<1> QED
  BY <1>1, <1>2, PTL DEF Spec

-----------------------------------------------------------------------------
(***************************************************************************)
(* A pass that is alone never takes a row from one group to another.       *)
(* reconcile attaches rows without looking at the group they have          *)
(* (attach_transactions_to_group), so this rests on what a pass still      *)
(* intends to attach: rows nobody has claimed since its snapshot, each     *)
(* waiting in one place only.                                              *)
(***************************************************************************)

\* The rows a new group is waiting to be given.
Held(p) == IF pc[p] = "createAttach" THEN job[p].rows ELSE {}

\* No other pass has been in flight since this one began.
Alone(p) == lone[p]

\* A pass that is alone is the only one in flight.
OnePass == \A p, q \in Pass : Alone(p) /\ pc[p] # "idle" /\ pc[q] # "idle" => p = q

QuietRuns == \A p \in Pass : (quiet[p] => lone[p]) /\ (lone[p] => pc[p] # "idle")

\* Before its snapshot a pass waits for nothing.
NothingYet ==
    \A p \in Pass : pc[p] \in {"idle", "linkOrders", "snapshot"} =>
        cand[p] = {} /\ cluster[p] = {} /\ todo[p] = {}

\* A row waits as a candidate, in the cluster, in one job, or for a new group.
Apart(p) ==
    /\ \A t \in cand[p] : /\ t \notin cluster[p] /\ t \notin Held(p)
                          /\ \A j \in todo[p] : t \notin j.rows
    /\ \A t \in cluster[p] : /\ t \notin Held(p)
                             /\ \A j \in todo[p] : t \notin j.rows
    /\ \A j \in todo[p] : \A t \in j.rows :
            /\ t \notin Held(p)
            /\ \A k \in todo[p] : t \in k.rows => k = j

Waiting(p, t) ==
    t \in cand[p] \/ t \in cluster[p] \/ t \in Held(p) \/ \E j \in todo[p] : t \in j.rows

\* No group has claimed a row for which a pass that is alone waits.
Unclaimed(p) == Alone(p) => \A t \in Txn : Waiting(p, t) => txnGroup[t] = NoGroup

ClaimInv ==
    /\ OnePass
    /\ QuietRuns
    /\ NothingYet
    /\ \A p \in Pass : Apart(p)
    /\ \A p \in Pass : Unclaimed(p)

NoClaimMoves ==
    \A t \in Txn : txnGroup[t] # NoGroup => txnGroup'[t] = txnGroup[t]
-----------------------------------------------------------------------------
(* A step changes the locals of one pass.                                  *)

\* The local variables of one pass are as they were.
Same(q) ==
    /\ pc'[q] = pc[q] /\ phase'[q] = phase[q] /\ cand'[q] = cand[q]
    /\ intended'[q] = intended[q] /\ loading'[q] = loading[q] /\ list'[q] = list[q]
    /\ book'[q] = book[q] /\ cluster'[q] = cluster[q] /\ rest'[q] = rest[q]
    /\ newGroup'[q] = newGroup[q] /\ todo'[q] = todo[q] /\ job'[q] = job[q]
    /\ pending'[q] = pending[q] /\ seen'[q] = seen[q] /\ applied'[q] = applied[q]
    /\ created'[q] = created[q]

\* Linking and loading touch the locals of the pass that does them.
LEMMA LoadFrame ==
    ASSUME TypeInv, NEW p \in Pass, Load(p), NEW q \in Pass, q # p
    PROVE  Same(q)
<1>1. CASE BeginPass(p)
  BY <1>1 DEF BeginPass, Same, TypeInv, TypeOK
<1>2. CASE LinkOrders(p)
  BY <1>2 DEF LinkOrders, Same, TypeInv, TypeOK
<1>3. CASE Snapshot(p)
  BY <1>3 DEF Snapshot, Same, TypeInv, TypeOK
<1>4. CASE ListOpen(p)
  BY <1>4 DEF ListOpen, Same, TypeInv, TypeOK
<1>5. ASSUME NEW g \in Group, LoadRows(p, g)
      PROVE  Same(q)
  BY <1>5 DEF LoadRows, Same, TypeInv, TypeOK
<1> QED
  BY <1>1, <1>2, <1>3, <1>4, <1>5 DEF Load


\* So does the attribution.
LEMMA AttributeFrame ==
    ASSUME TypeInv, NEW p \in Pass, Attribute(p), NEW q \in Pass, q # p
    PROVE  Same(q)
<1>1. CASE TakeCluster(p)
  BY <1>1 DEF TakeCluster, Same, TypeInv, TypeOK
<1>2. CASE Route(p)
  BY <1>2 DEF Route, Same, TypeInv, TypeOK
<1>3. ASSUME NEW j \in todo[p], FindGroup(p, j)
      PROVE  Same(q)
  BY <1>3 DEF FindGroup, Same, TypeInv, TypeOK
<1>4. ASSUME NEW j \in todo[p], AttachFills(p, j)
      PROVE  Same(q)
  BY <1>4 DEF AttachFills, Same, TypeInv, TypeOK
<1>5. ASSUME NEW j \in todo[p], ExitAttach(p, j)
      PROVE  Same(q)
  BY <1>5 DEF ExitAttach, Same, TypeInv, TypeOK
<1>6. ASSUME NEW j \in todo[p], NEW g \in Group, Create(p, j, g)
      PROVE  Same(q)
  BY <1>6 DEF Create, Same, TypeInv, TypeOK
<1>7. CASE RefreshRead(p) \/ RefreshWrite(p)
  BY <1>7 DEF RefreshRead, RefreshWrite, Same, TypeInv, TypeOK
<1>8. CASE CreateAttach(p) \/ CreateOrders(p)
  BY <1>8 DEF CreateAttach, CreateOrders, Same, TypeInv, TypeOK
<1>9. CASE CreateEntry(p)
  BY <1>9 DEF CreateEntry, Same, TypeInv, TypeOK
<1>10. ASSUME NEW e \in pending[p], EmitEvent(p, e)
       PROVE  Same(q)
  BY <1>10 DEF EmitEvent, Same, TypeInv, TypeOK
<1>11. CASE Stamp(p)
  BY <1>11 DEF Stamp, Same, TypeInv, TypeOK
<1> QED
  BY <1>1, <1>2, <1>3, <1>4, <1>5, <1>6, <1>7, <1>8, <1>9, <1>10, <1>11 DEF Attribute

\* So do the end of a pass and its death.
LEMMA FinishFrame ==
    ASSUME TypeInv, NEW p \in Pass, Finish(p) \/ AbortPass(p), NEW q \in Pass, q # p
    PROVE  Same(q)
<1>1. CASE EndClusters(p) \/ LinkRoll(p) \/ StartHeal(p)
  BY <1>1 DEF EndClusters, LinkRoll, StartHeal, Same, TypeInv, TypeOK
<1>2. CASE HealRead(p) \/ HealWrite(p)
  BY <1>2 DEF HealRead, HealWrite, Same, TypeInv, TypeOK
<1>3. CASE EndPass(p) \/ AbortPass(p)
  BY <1>3 DEF EndPass, AbortPass, Forget, Same, TypeInv, TypeOK
<1> QED
  BY <1>1, <1>2, <1>3 DEF Finish

\* A step of one pass leaves the locals of the others, and a pass under way never
\* makes another one quiet or alone.
LEMMA StepFrame ==
    ASSUME TypeInv, NEW p \in Pass, Step(p) \/ AbortPass(p)
    PROVE  /\ \A q \in Pass : q # p => Same(q)
           /\ pc[p] # "idle" => \A q \in Pass : quiet'[q] => quiet[q]
           /\ pc[p] # "idle" => \A q \in Pass : lone'[q] => lone[q]
           /\ (\A q \in Pass : quiet[q] => lone[q]) => \A q \in Pass : quiet'[q] => lone'[q]
<1>1. \A q \in Pass : q # p => Same(q)
  BY LoadFrame, AttributeFrame, FinishFrame DEF Step
<1>2. \/ UNCHANGED <<quiet, lone>>
      \/ quiet' = [quiet EXCEPT ![p] = FALSE] /\ lone' = [lone EXCEPT ![p] = FALSE]
      \/ BeginPass(p)
  BY DEF Step, Load, LinkOrders, Snapshot, ListOpen, LoadRows, Attribute, TakeCluster,
     FindGroup, Route, AttachFills, ExitAttach, RefreshRead, RefreshWrite, Create,
     CreateAttach, CreateOrders, CreateEntry, EmitEvent, Stamp, Finish, EndClusters,
     LinkRoll, StartHeal, HealRead, HealWrite, EndPass, AbortPass
<1>3. BeginPass(p) => pc[p] = "idle" /\ quiet' = lone'
  BY DEF BeginPass, MayBegin
<1> QED
  BY <1>1, <1>2, <1>3 DEF TypeInv, TypeOK

-----------------------------------------------------------------------------
(* Steps that claim nothing.                                               *)

\* While a pass runs, one that is alone is that pass, or is idle and waits for
\* nothing.
LEMMA OthersIdle ==
    ASSUME ClaimInv, NEW p \in Pass, pc[p] # "idle", NEW q \in Pass, q # p, Alone(q)
    PROVE  /\ pc[q] = "idle"
           /\ cand[q] = {} /\ cluster[q] = {} /\ todo[q] = {} /\ Held(q) = {}
<1>1. pc[q] = "idle"
  BY DEF ClaimInv, OnePass
<1> QED
  BY <1>1 DEF ClaimInv, NothingYet, Held

\* A pass that is alone after one of its steps was alone before.
LEMMA StillAlone ==
    ASSUME TypeInv, NEW p \in Pass, Step(p) \/ AbortPass(p), pc[p] # "idle"
    PROVE  Alone(p)' => Alone(p)
  BY StepFrame DEF Alone

\* What must be shown of the pass that takes a step: the others keep what they have.
LEMMA RunningPass ==
    ASSUME TypeInv, ClaimInv, NEW p \in Pass, Step(p) \/ AbortPass(p), pc[p] # "idle",
           pc'[p] = "idle" => ~lone'[p],
           pc'[p] \in {"idle", "linkOrders", "snapshot"} =>
                cand'[p] = {} /\ cluster'[p] = {} /\ todo'[p] = {},
           Apart(p)', Unclaimed(p)'
    PROVE  ClaimInv'
<1>1. ASSUME NEW q \in Pass, q # p
      PROVE  /\ pc'[q] = pc[q] /\ job'[q] = job[q] /\ Held(q)' = Held(q)
             /\ cand'[q] = cand[q] /\ cluster'[q] = cluster[q] /\ todo'[q] = todo[q]
  BY <1>1, StepFrame DEF Same, Held
<1>2. \A q \in Pass : quiet'[q] => lone'[q]
  BY StepFrame DEF ClaimInv, QuietRuns
<1>3. \A q \in Pass : Alone(q)' => Alone(q)
  BY StepFrame DEF Alone
<1>4. OnePass' /\ QuietRuns'
  BY <1>1, <1>2, <1>3 DEF ClaimInv, OnePass, QuietRuns, Alone
<1>5. NothingYet'
  BY <1>1 DEF ClaimInv, NothingYet
<1>6. \A q \in Pass : Apart(q)'
  BY <1>1 DEF ClaimInv, Apart
<1>7. \A q \in Pass : Unclaimed(q)'
  BY <1>1, <1>3, OthersIdle DEF Unclaimed, Waiting
<1> QED
  BY <1>4, <1>5, <1>6, <1>7 DEF ClaimInv

\* The running pass goes on with what it had, and starts no new group.
LEMMA SameClaims ==
    ASSUME TypeInv, ClaimInv, NEW p \in Pass, Step(p), pc[p] # "idle",
           UNCHANGED <<cand, cluster, todo, txnGroup>>,
           pc'[p] # "createAttach",
           pc'[p] \notin {"idle", "linkOrders", "snapshot"}
    PROVE  ClaimInv'
<1>1. Held(p)' = {}
  BY DEF Held
<1>2. Apart(p)'
  BY <1>1 DEF ClaimInv, Apart
<1>3. Unclaimed(p)'
  BY <1>1, StillAlone DEF ClaimInv, Unclaimed, Waiting
<1> QED
  BY <1>2, <1>3, RunningPass

\* A row the feed re-sends keeps its group.
LEMMA FeedClaims ==
    ASSUME TypeInv, ClaimInv, Feed
    PROVE  ClaimInv' /\ UNCHANGED txnGroup
<1>1. UNCHANGED txnGroup
  <2>1. ASSUME NEW t \in Txn, UpsertTransaction(t, NoGroup)
        PROVE  UNCHANGED txnGroup
    <3>1. txnGroup' = [txnGroup EXCEPT ![t] = txnGroup[t]]
      BY <2>1 DEF UpsertTransaction, Coalesce
    <3> QED
      BY <3>1 DEF TypeInv, TypeOK, TablesType
  <2> QED
    BY <2>1 DEF Feed, FeedTransaction, FeedOrder, FeedTradeGroup, FeedRecordOrder,
       SyncTransaction, SyncOrder, RecordOrder, OpenTradeGroup, UpsertOrders
<1>2. UNCHANGED <<pc, cand, cluster, todo, job>>
  BY DEF Feed, FeedTransaction, FeedOrder, FeedTradeGroup, FeedRecordOrder, locals
<1>3. UNCHANGED lone /\ \A q \in Pass : quiet'[q] => quiet[q]
  BY DEF Feed, FeedTransaction, FeedOrder, FeedTradeGroup, FeedRecordOrder, Disturbs
<1>4. ClaimInv'
  BY <1>1, <1>2, <1>3 DEF ClaimInv, OnePass, QuietRuns, NothingYet, Apart, Unclaimed,
     Waiting, Held, Alone
<1> QED
  BY <1>1, <1>4

\* A pass that begins waits for nothing until its snapshot, and is alone only if no
\* other runs.
LEMMA BeginClaims ==
    ASSUME TypeInv, ClaimInv, NEW p \in Pass, BeginPass(p)
    PROVE  ClaimInv' /\ UNCHANGED txnGroup
<1>1. /\ pc[p] = "idle" /\ pc' = [pc EXCEPT ![p] = "linkOrders"]
      /\ UNCHANGED <<cand, cluster, todo, job, txnGroup>>
      /\ quiet' = lone'
      /\ \A q \in Pass : lone'[q] => q = p /\ \A r \in Pass : pc[r] = "idle"
  BY DEF BeginPass, MayBegin, LinkTransactionsToOrders
<1>2. \A q \in Pass : pc'[q] = IF q = p THEN "linkOrders" ELSE pc[q]
  BY <1>1 DEF TypeInv, TypeOK
<1>3. \A q \in Pass : Held(q)' = Held(q)
  BY <1>1, <1>2 DEF Held
<1>4. OnePass' /\ QuietRuns'
  <2>1. \A q \in Pass : Alone(q)' => \A r \in Pass : pc[r] = "idle"
    BY <1>1 DEF Alone
  <2>2. OnePass'
    BY <1>2, <2>1 DEF OnePass
  <2>3. QuietRuns'
    BY <1>1, <1>2 DEF QuietRuns
  <2> QED
    BY <2>2, <2>3
<1>5. NothingYet'
  BY <1>1, <1>2 DEF ClaimInv, NothingYet
<1>6. \A q \in Pass : Apart(q)'
  BY <1>1, <1>3 DEF ClaimInv, Apart
<1>7. \A q \in Pass : Unclaimed(q)'
  <2> SUFFICES ASSUME NEW q \in Pass, Alone(q)'
               PROVE  \A t \in Txn : Waiting(q, t)' => txnGroup'[t] = NoGroup
    BY DEF Unclaimed
  <2>1. \A r \in Pass : pc[r] = "idle"
    BY <1>1 DEF Alone
  <2>2. ~ \E t : Waiting(q, t)'
    BY <1>1, <1>3, <2>1 DEF ClaimInv, NothingYet, Held, Waiting
  <2> QED
    BY <2>2
<1> QED
  BY <1>1, <1>4, <1>5, <1>6, <1>7 DEF ClaimInv

\* Healing the orders' groups claims no row.
LEMMA LinkOrdersClaims ==
    ASSUME TypeInv, ClaimInv, NEW p \in Pass, LinkOrders(p)
    PROVE  ClaimInv' /\ UNCHANGED txnGroup
<1>1. UNCHANGED <<cand, cluster, todo, txnGroup>>
  BY DEF LinkOrders, LinkOrdersToGroups
<1>2. pc[p] = "linkOrders" /\ pc' = [pc EXCEPT ![p] = "snapshot"]
  BY DEF LinkOrders
<1>3. pc'[p] = "snapshot" /\ Step(p)
  BY <1>2 DEF TypeInv, TypeOK, Step, Load
<1>4. cand'[p] = {} /\ cluster'[p] = {} /\ todo'[p] = {} /\ Held(p)' = {}
  BY <1>1, <1>2, <1>3 DEF ClaimInv, NothingYet, Held
<1>5. Apart(p)' /\ Unclaimed(p)'
  BY <1>4 DEF Apart, Unclaimed, Waiting
<1> QED
  BY <1>1, <1>2, <1>3, <1>4, <1>5, RunningPass

\* The snapshot takes rows without a group, and the pass waits for nothing else.
LEMMA SnapshotClaims ==
    ASSUME TypeInv, ClaimInv, NEW p \in Pass, Snapshot(p)
    PROVE  ClaimInv' /\ UNCHANGED txnGroup
<1>1. UNCHANGED <<cluster, todo, txnGroup>>
  BY DEF Snapshot, tables
<1>2. /\ pc[p] = "snapshot" /\ pc' = [pc EXCEPT ![p] = "list"]
      /\ cand' = [cand EXCEPT ![p] = Candidates]
  BY DEF Snapshot
<1>3. pc'[p] = "list" /\ cand'[p] = Candidates /\ Step(p)
  BY <1>2 DEF TypeInv, TypeOK, Step, Load
<1>4. cluster'[p] = {} /\ todo'[p] = {} /\ Held(p)' = {}
  BY <1>1, <1>2, <1>3 DEF ClaimInv, NothingYet, Held
<1>5. Apart(p)'
  BY <1>4 DEF Apart
<1>6. \A t \in Candidates : txnGroup[t] = NoGroup
  BY DEF Candidates
<1>7. Unclaimed(p)'
  BY <1>1, <1>3, <1>4, <1>6 DEF Unclaimed, Waiting
<1> QED
  BY <1>1, <1>2, <1>3, <1>5, <1>7, RunningPass

\* Loading the books, the pre-attributed group and the rows to stamp.
LEMMA BooksClaims ==
    ASSUME TypeInv, ClaimInv, NEW p \in Pass,
           \/ ListOpen(p)
           \/ \E g \in Group : LoadRows(p, g)
           \/ \E j \in todo[p] : FindGroup(p, j)
           \/ RefreshRead(p) \/ RefreshWrite(p)
    PROVE  ClaimInv' /\ UNCHANGED txnGroup
<1>1. UNCHANGED <<cand, cluster, todo, txnGroup>>
  BY DEF ListOpen, LoadRows, FindGroup, RefreshRead, RefreshWrite, UpsertTradeGroup, tables
<1>2. pc[p] \in {"list", "load", "work", "refreshRead", "refreshWrite"}
  BY DEF ListOpen, LoadRows, FindGroup, NextJob, RefreshRead, RefreshWrite
<1>3. \E v \in {"load", "heal", "work", "refreshWrite"} :
        pc' = [pc EXCEPT ![p] = v] \/ (pc[p] = v /\ UNCHANGED pc)
  BY DEF ListOpen, LoadRows, FindGroup, NextJob, RefreshRead, RefreshWrite
<1>4. pc'[p] \in {"load", "heal", "work", "refreshWrite"}
  BY <1>3 DEF TypeInv, TypeOK
<1>5. Step(p)
  BY DEF Step, Load, Attribute
<1> QED
  BY <1>1, <1>2, <1>4, <1>5, SameClaims

\* The orders and the ENTRY event of a new group, the events and the stamp of an
\* exit, the roll post-pass and the heal.
LEMMA TailClaims ==
    ASSUME TypeInv, ClaimInv, NEW p \in Pass,
           \/ CreateOrders(p) \/ CreateEntry(p)
           \/ \E e \in pending[p] : EmitEvent(p, e)
           \/ Stamp(p) \/ EndClusters(p) \/ LinkRoll(p) \/ StartHeal(p)
           \/ HealRead(p) \/ HealWrite(p)
    PROVE  ClaimInv' /\ UNCHANGED txnGroup
<1> DEFINE Later == {"createEntry", "work", "event", "stamp", "rolls", "list", "heal",
                     "healWrite"}
<1>1. UNCHANGED <<cand, cluster, todo>>
  BY DEF CreateOrders, CreateEntry, EmitEvent, Stamp, EndClusters, LinkRoll, StartHeal,
     HealRead, HealWrite
<1>2. UNCHANGED txnGroup
  BY DEF CreateOrders, CreateEntry, EmitEvent, Stamp, EndClusters, LinkRoll, StartHeal,
     HealRead, HealWrite, UpsertOrders, AddEntryEvent, AddExitEvent, UpsertTradeGroup,
     tables
<1>3. pc[p] # "idle"
  BY DEF CreateOrders, CreateEntry, EmitEvent, Stamp, EndClusters, LinkRoll, StartHeal,
     HealRead, HealWrite
<1>4. \E v \in Later : pc' = [pc EXCEPT ![p] = v] \/ (pc[p] = v /\ UNCHANGED pc)
  BY DEF CreateOrders, CreateEntry, EmitEvent, Stamp, EndClusters, LinkRoll, StartHeal,
     HealRead, HealWrite
<1>5. pc'[p] \in Later
  BY <1>4 DEF TypeInv, TypeOK
<1>6. Step(p)
  BY DEF Step, Attribute, Finish
<1> QED
  BY <1>1, <1>2, <1>3, <1>5, <1>6, SameClaims

\* A pass that ends or dies waits for nothing any more.
LEMMA ForgetClaims ==
    ASSUME TypeInv, ClaimInv, NEW p \in Pass, EndPass(p) \/ AbortPass(p)
    PROVE  ClaimInv' /\ UNCHANGED txnGroup
<1>1. /\ UNCHANGED txnGroup
      /\ pc[p] # "idle" /\ Forget(p) /\ lone' = [lone EXCEPT ![p] = FALSE]
  BY DEF EndPass, AbortPass, tables
<1>2. /\ pc'[p] = "idle" /\ cand'[p] = {} /\ cluster'[p] = {} /\ todo'[p] = {}
      /\ ~lone'[p]
  BY <1>1 DEF Forget, TypeInv, TypeOK
<1>3. Apart(p)' /\ Unclaimed(p)'
  BY <1>2 DEF Apart, Unclaimed, Waiting, Held
<1>4. Step(p) \/ AbortPass(p)
  BY DEF Step, Finish
<1> QED
  BY <1>1, <1>2, <1>3, <1>4, RunningPass

-----------------------------------------------------------------------------
(* Rows move from the candidates to the jobs.                              *)

\* The jobs of a cluster share no row, and none with what is left to route.
LEMMA IntentJobsApart ==
    ASSUME NEW p \in Pass, NEW S, NEW j \in IntentJobs(p, S)
    PROVE  \A t \in j.rows :
              /\ t \in S
              /\ intended[p][t] # NoGroup
              /\ \A k \in IntentJobs(p, S) : t \in k.rows => k = j
<1> DEFINE of(g) == {t \in S : intended[p][t] = g}
           fill(g) == NewJob("fill", First(of(g)), g, {t \in of(g) : ~IsClosing(t)})
           exit(g) == NewJob("exit", First(of(g)), g, {t \in of(g) : IsClosing(t)})
<1>1. ASSUME NEW k \in IntentJobs(p, S)
      PROVE  \E g \in Group : k = fill(g) \/ k = exit(g)
  BY <1>1 DEF IntentJobs
<1>2. ASSUME NEW g
      PROVE  /\ fill(g).rows = {t \in of(g) : ~IsClosing(t)}
             /\ exit(g).rows = {t \in of(g) : IsClosing(t)}
  BY DEF NewJob
<1> HIDE DEF fill, exit
<1>3. PICK g \in Group : j = fill(g) \/ j = exit(g)
  BY <1>1
<1>4. ASSUME NEW t \in j.rows
      PROVE  t \in S /\ intended[p][t] = g
  BY <1>2, <1>3, <1>4
<1>5. ASSUME NEW t \in j.rows, NEW k \in IntentJobs(p, S), t \in k.rows
      PROVE  k = j
  <2>1. PICK h \in Group : k = fill(h) \/ k = exit(h)
    BY <1>1, <1>5
  <2>2. intended[p][t] = h
    BY <1>2, <1>5, <2>1
  <2>3. h = g
    BY <1>4, <1>5, <2>2
  <2> QED
    BY <1>2, <1>3, <1>5, <2>1, <2>3
<1> QED
  BY <1>4, <1>5, RoutingAssumption

\* The routing gives each row of the cluster to one job.
LEMMA RoutedJobsApart ==
    ASSUME NEW p \in Pass, NEW routed, NEW j \in RoutedJobs(p, routed)
    PROVE  \A t \in j.rows :
              /\ t \in cluster[p]
              /\ \A k \in RoutedJobs(p, routed) : t \in k.rows => k = j
<1> DEFINE bucket(g) == {t \in cluster[p] : routed.to[t] = g}
           exit(g) == NewJob("exit", First(bucket(g)), g, bucket(g))
           create  == NewJob("create", 0, NoGroup, bucket(NoGroup))
<1>1. ASSUME NEW k \in RoutedJobs(p, routed)
      PROVE  k = create \/ \E g \in Group : k = exit(g)
  BY <1>1 DEF RoutedJobs
<1>2. create.rows = bucket(NoGroup) /\ \A g : exit(g).rows = bucket(g)
  BY DEF NewJob
<1> HIDE DEF exit, create
<1>3. ASSUME NEW k \in RoutedJobs(p, routed)
      PROVE  \E g \in Group \cup {NoGroup} :
                /\ k = IF g = NoGroup THEN create ELSE exit(g)
                /\ \A t \in k.rows : t \in cluster[p] /\ routed.to[t] = g
  <2>1. CASE k = create
    <3>1. \A t \in k.rows : t \in cluster[p] /\ routed.to[t] = NoGroup
      BY <1>2, <2>1
    <3> QED
      BY <2>1, <3>1
  <2>2. ASSUME NEW g \in Group, k = exit(g)
        PROVE  \A t \in k.rows : t \in cluster[p] /\ routed.to[t] = g
    BY <1>2, <2>2
  <2>3. CASE \E g \in Group : k = exit(g)
    BY <2>2, <2>3, RoutingAssumption
  <2> QED
    BY <1>1, <1>3, <2>1, <2>3
<1> QED
  BY <1>3

\* A cluster leaves the candidates for the pre-attributed jobs or the routing.
LEMMA TakeClusterClaims ==
    ASSUME TypeInv, ClaimInv, NEW p \in Pass, TakeCluster(p)
    PROVE  ClaimInv' /\ UNCHANGED txnGroup
<1> DEFINE c == FirstCluster(cand[p])
<1>1. /\ UNCHANGED <<pc, txnGroup, job>>
      /\ pc[p] = "work" /\ todo[p] = {}
      /\ cand' = [cand EXCEPT ![p] = @ \ c]
      /\ cluster' = [cluster EXCEPT ![p] = {t \in c : intended[p][t] = NoGroup}]
      /\ todo' = [todo EXCEPT ![p] = IntentJobs(p, c)]
  BY DEF TakeCluster, tables
<1>2. c \subseteq cand[p]
  BY DEF FirstCluster
<1> HIDE DEF c
<1>3. /\ cand'[p] = cand[p] \ c
      /\ cluster'[p] = {t \in c : intended[p][t] = NoGroup}
      /\ todo'[p] = IntentJobs(p, c)
      /\ Held(p)' = {}
  BY <1>1 DEF TypeInv, TypeOK, Held
<1>4. Apart(p)'
  BY <1>3, IntentJobsApart DEF Apart
<1>5. \A t : Waiting(p, t)' => t \in cand[p]
  BY <1>2, <1>3, IntentJobsApart DEF Waiting
<1>6. Step(p)
  BY DEF Step, Attribute
<1>7. Unclaimed(p)'
  BY <1>1, <1>5, <1>6, StillAlone DEF ClaimInv, Unclaimed, Waiting
<1> QED
  BY <1>1, <1>4, <1>6, <1>7, RunningPass

\* The routing moves the cluster into the jobs.
LEMMA RouteClaims ==
    ASSUME TypeInv, ClaimInv, NEW p \in Pass, Route(p)
    PROVE  ClaimInv' /\ UNCHANGED txnGroup
<1> DEFINE routed == RouteCluster(list[p], Members(p), cluster[p])
<1>1. /\ UNCHANGED <<pc, txnGroup, job, cand>>
      /\ pc[p] = "work" /\ todo[p] = {}
      /\ cluster' = [cluster EXCEPT ![p] = {}]
      /\ todo' = [todo EXCEPT ![p] = RoutedJobs(p, routed)]
  BY DEF Route, tables
<1> HIDE DEF routed
<1>2. cluster'[p] = {} /\ todo'[p] = RoutedJobs(p, routed) /\ Held(p)' = {}
  BY <1>1 DEF TypeInv, TypeOK, Held
<1>3. Apart(p)'
  BY <1>1, <1>2, RoutedJobsApart DEF ClaimInv, Apart
<1>4. \A t : Waiting(p, t)' => t \in cand[p] \/ t \in cluster[p]
  BY <1>1, <1>2, RoutedJobsApart DEF Waiting
<1>5. Step(p)
  BY DEF Step, Attribute
<1>6. Unclaimed(p)'
  BY <1>1, <1>4, <1>5, StillAlone DEF ClaimInv, Unclaimed, Waiting
<1> QED
  BY <1>1, <1>3, <1>5, <1>6, RunningPass

-----------------------------------------------------------------------------
(* Steps that claim rows.                                                  *)

\* A pass starts a new group: the rows of its job are now held for it.
LEMMA CreateClaims ==
    ASSUME TypeInv, ClaimInv, NEW p \in Pass, NEW j \in todo[p], NEW g \in Group,
           Create(p, j, g)
    PROVE  ClaimInv' /\ UNCHANGED txnGroup
<1>1. /\ UNCHANGED <<cand, cluster, txnGroup>>
      /\ pc[p] = "work"
      /\ todo' = [todo EXCEPT ![p] = @ \ {j}]
      /\ job' = [job EXCEPT ![p] = [j EXCEPT !.group = g]]
      /\ pc' = [pc EXCEPT ![p] = "createAttach"]
  BY DEF Create, NextJob, UpsertTradeGroup
<1>2. [j EXCEPT !.group = g].rows = j.rows
  BY NextJobType DEF Job
<1>3. pc'[p] = "createAttach" /\ todo'[p] = todo[p] \ {j} /\ Held(p)' = j.rows
  BY <1>1, <1>2 DEF TypeInv, TypeOK, Held
<1>4. Apart(p)'
  BY <1>1, <1>3 DEF ClaimInv, Apart
<1>5. \A t : Waiting(p, t)' => Waiting(p, t)
  BY <1>1, <1>3 DEF Waiting
<1>6. Step(p)
  BY DEF Step, Attribute
<1>7. Unclaimed(p)'
  BY <1>1, <1>5, <1>6, StillAlone DEF ClaimInv, Unclaimed
<1> QED
  BY <1>1, <1>3, <1>4, <1>6, <1>7, RunningPass

\* The rows held for a new group were unclaimed, and nothing else waits for them.
LEMMA CreateAttachClaims ==
    ASSUME TypeInv, ClaimInv, NEW p \in Pass, CreateAttach(p)
    PROVE  ClaimInv' /\ (Alone(p) => NoClaimMoves)
<1>1. /\ UNCHANGED <<cand, cluster, todo>>
      /\ pc[p] = "createAttach" /\ Held(p) = job[p].rows
      /\ pc' = [pc EXCEPT ![p] = "createOrders"]
      /\ txnGroup' = [t \in Txn |-> IF t \in Held(p) THEN job[p].group ELSE txnGroup[t]]
  BY DEF CreateAttach, AttachTransactions, Held
<1>2. pc'[p] = "createOrders" /\ Held(p)' = {}
  BY <1>1 DEF TypeInv, TypeOK, Held
<1>3. Alone(p) => NoClaimMoves
  BY <1>1 DEF ClaimInv, Unclaimed, Waiting, NoClaimMoves
<1>4. Apart(p)'
  BY <1>1, <1>2 DEF ClaimInv, Apart
<1>5. \A t : Waiting(p, t)' => Waiting(p, t) /\ t \notin Held(p)
  BY <1>1, <1>2 DEF ClaimInv, Apart, Waiting
<1>6. Step(p)
  BY DEF Step, Attribute
<1>7. Unclaimed(p)'
  BY <1>1, <1>5, <1>6, StillAlone DEF ClaimInv, Unclaimed
<1> QED
  BY <1>1, <1>2, <1>3, <1>4, <1>6, <1>7, RunningPass

\* The same for the rows of a pre-attributed or a routed job.
LEMMA AttachClaims ==
    ASSUME TypeInv, ClaimInv, NEW p \in Pass, NEW j \in todo[p],
           AttachFills(p, j) \/ ExitAttach(p, j)
    PROVE  ClaimInv' /\ (Alone(p) => NoClaimMoves)
<1>1. /\ UNCHANGED <<cand, cluster>>
      /\ pc[p] = "work"
      /\ todo' = [todo EXCEPT ![p] = @ \ {j}]
      /\ txnGroup' = [t \in Txn |-> IF t \in j.rows THEN j.group ELSE txnGroup[t]]
  BY DEF AttachFills, ExitAttach, NextJob, AttachTransactions
<1>2. UNCHANGED pc \/ \E v \in {"refreshRead", "event"} : pc' = [pc EXCEPT ![p] = v]
  BY DEF AttachFills, ExitAttach
<1>3. pc'[p] \in {"work", "refreshRead", "event"} /\ Held(p)' = {}
  BY <1>1, <1>2 DEF TypeInv, TypeOK, Held
<1>4. todo'[p] = todo[p] \ {j} /\ Step(p)
  BY <1>1 DEF TypeInv, TypeOK, Step, Attribute
<1>5. Alone(p) => NoClaimMoves
  BY <1>1 DEF ClaimInv, Unclaimed, Waiting, NoClaimMoves
<1>6. Apart(p)'
  BY <1>1, <1>3, <1>4 DEF ClaimInv, Apart
<1>7. \A t : Waiting(p, t)' => Waiting(p, t) /\ t \notin j.rows
  BY <1>1, <1>3, <1>4 DEF ClaimInv, Apart, Waiting
<1>8. Unclaimed(p)'
  BY <1>1, <1>4, <1>7, StillAlone DEF ClaimInv, Unclaimed
<1> QED
  BY <1>1, <1>3, <1>4, <1>5, <1>6, <1>8, RunningPass

-----------------------------------------------------------------------------
\* Every step keeps the invariant, and no pass that is alone moves a claimed row.
LEMMA NextClaims ==
    ASSUME TypeInv, ClaimInv, [Next]_vars
    PROVE  ClaimInv' /\ (NoneOverlapped => NoClaimMoves)
<1>0. /\ UNCHANGED txnGroup => NoClaimMoves
      /\ \A p \in Pass : NoneOverlapped /\ pc[p] # "idle" => Alone(p)
  BY DEF NoClaimMoves, NoneOverlapped, Alone
<1>a. ASSUME NEW p \in Pass,
             CreateAttach(p) \/ \E j \in todo[p] : AttachFills(p, j) \/ ExitAttach(p, j)
      PROVE  pc[p] # "idle"
  BY <1>a DEF CreateAttach, AttachFills, ExitAttach, NextJob
<1>1. CASE UNCHANGED vars
  BY <1>0, <1>1 DEF vars, locals, tables, ClaimInv, OnePass, QuietRuns, NothingYet, Apart,
     Unclaimed, Waiting, Held, Alone
<1>2. CASE Feed
  BY <1>0, <1>2, FeedClaims
<1>3. ASSUME NEW p \in Pass, Load(p)
      PROVE  ClaimInv' /\ (NoneOverlapped => NoClaimMoves)
  BY <1>0, <1>3, BeginClaims, LinkOrdersClaims, SnapshotClaims, BooksClaims DEF Load
<1>4. ASSUME NEW p \in Pass, Attribute(p)
      PROVE  ClaimInv' /\ (NoneOverlapped => NoClaimMoves)
  BY <1>0, <1>a, <1>4, TakeClusterClaims, RouteClaims, BooksClaims, AttachClaims, CreateClaims,
     CreateAttachClaims, TailClaims DEF Attribute
<1>5. ASSUME NEW p \in Pass, Finish(p)
      PROVE  ClaimInv' /\ (NoneOverlapped => NoClaimMoves)
  BY <1>0, <1>5, TailClaims, ForgetClaims DEF Finish
<1>6. ASSUME NEW p \in Pass, AbortPass(p)
      PROVE  ClaimInv' /\ (NoneOverlapped => NoClaimMoves)
  BY <1>0, <1>6, ForgetClaims
<1> QED
  BY <1>1, <1>2, <1>3, <1>4, <1>5, <1>6 DEF Next, Step

\* Nothing waits before the first pass begins.
LEMMA InitClaims ==
    ASSUME Init
    PROVE  ClaimInv
<1>1. \A p \in Pass : /\ pc[p] = "idle" /\ Held(p) = {} /\ ~quiet[p] /\ ~lone[p]
                      /\ cand[p] = {} /\ cluster[p] = {} /\ todo[p] = {}
  BY DEF Init, Held
<1> QED
  BY <1>1 DEF ClaimInv, OnePass, QuietRuns, NothingYet, Apart, Unclaimed, Waiting

(* A transaction that belongs to a group stays in that group while no pass   *)
(* is overlapped by another, whatever the feed delivers in between, wherever *)
(* earlier passes died and whatever passes that did overlap have done: the   *)
(* attach of reconcile, which does not look at the group a row has, only     *)
(* ever meets rows nobody has claimed since the snapshot.                    *)
THEOREM LoneClaims == Spec => ClaimIsFinal
<1>1. Init => TypeInv /\ ClaimInv
  BY InitType, InitClaims
<1>2. TypeInv /\ ClaimInv /\ [Next]_vars =>
        /\ TypeInv' /\ ClaimInv'
        /\ [NoneOverlapped =>
               \A t \in Txn : txnGroup[t] # NoGroup => txnGroup'[t] = txnGroup[t]]_vars
  BY NextType, NextClaims DEF NoClaimMoves
<1> QED
  BY <1>1, <1>2, PTL DEF Spec, ClaimIsFinal

-----------------------------------------------------------------------------
(* Lists.                                                                  *)

Items(seq) == {seq[k] : k \in 1 .. Len(seq)}

\* What a list holds after an element is appended.
LEMMA ItemsAppend ==
    ASSUME NEW S, NEW seq \in Seq(S), NEW x \in S
    PROVE  Items(Append(seq, x)) = Items(seq) \cup {x}
<1>1. /\ Len(seq) \in Nat /\ Len(Append(seq, x)) = Len(seq) + 1
      /\ \A k \in 1 .. Len(seq) : Append(seq, x)[k] = seq[k]
      /\ Append(seq, x)[Len(seq) + 1] = x
  BY AppendProperties, LenProperties
<1>2. \A k \in 1 .. Len(seq) + 1 : k \in 1 .. Len(seq) \/ k = Len(seq) + 1
  BY <1>1
<1>3. \A y \in Items(Append(seq, x)) : y \in Items(seq) \cup {x}
  BY <1>1, <1>2 DEF Items
<1>4. \A k \in 1 .. Len(seq) : k \in 1 .. Len(seq) + 1
  BY <1>1
<1>5. \A y \in Items(seq) : y \in Items(Append(seq, x))
  BY <1>1, <1>4 DEF Items
<1>6. x \in Items(Append(seq, x))
  <2>1. Len(seq) + 1 \in 1 .. Len(seq) + 1
    BY <1>1
  <2> QED
    BY <1>1, <2>1 DEF Items
<1> QED
  BY <1>3, <1>5, <1>6

\* The head and the tail of a list hold all it holds, and nothing else.
LEMMA ItemsTail ==
    ASSUME NEW S, NEW seq \in Seq(S), seq # <<>>
    PROVE  Items(seq) = Items(Tail(seq)) \cup {Head(seq)}
<1>1. /\ Len(seq) \in Nat \ {0} /\ Len(Tail(seq)) = Len(seq) - 1
      /\ \A k \in 1 .. Len(Tail(seq)) : Tail(seq)[k] = seq[k + 1]
      /\ Head(seq) = seq[1]
  BY HeadTailProperties, LenProperties, EmptySeq
<1>2. ASSUME NEW y \in Items(seq)
      PROVE  y \in Items(Tail(seq)) \cup {Head(seq)}
  <2>1. PICK k \in 1 .. Len(seq) : y = seq[k]
    BY DEF Items
  <2>2. k = 1 \/ k - 1 \in 1 .. Len(Tail(seq))
    BY <1>1
  <2>3. CASE k - 1 \in 1 .. Len(Tail(seq))
    <3>1. Tail(seq)[k - 1] = y
      BY <1>1, <2>1, <2>3
    <3> QED
      BY <2>3, <3>1 DEF Items
  <2> QED
    BY <1>1, <2>1, <2>2, <2>3
<1>3. ASSUME NEW y \in Items(Tail(seq))
      PROVE  y \in Items(seq)
  <2>1. PICK k \in 1 .. Len(Tail(seq)) : y = Tail(seq)[k]
    BY DEF Items
  <2>2. k + 1 \in 1 .. Len(seq) /\ y = seq[k + 1]
    BY <1>1, <2>1
  <2> QED
    BY <2>2 DEF Items
<1>4. 1 \in 1 .. Len(seq)
  BY <1>1
<1>5. Head(seq) \in Items(seq)
  BY <1>1, <1>4 DEF Items
<1> QED
  BY <1>2, <1>3, <1>5

\* Striking a group off a list adds nothing to it.
LEMMA ItemsWithout ==
    ASSUME NEW seq \in Seq(Group), NEW g
    PROVE  Items(Without(seq, g)) \subseteq Items(seq)
<1>1. CASE \E k \in 1 .. Len(seq) : seq[k] = g
  <2>1. PICK k \in 1 .. Len(seq) :
            Without(seq, g) = SubSeq(seq, 1, k - 1) \o SubSeq(seq, k + 1, Len(seq))
    BY <1>1 DEF Without
  <2> DEFINE s1 == SubSeq(seq, 1, k - 1)
             s2 == SubSeq(seq, k + 1, Len(seq))
  <2>2. Len(seq) \in Nat
    BY LenProperties
  <2>3. /\ s1 \in Seq(Group) /\ s2 \in Seq(Group)
        /\ Len(s1) = k - 1 /\ \A i \in 1 .. k - 1 : s1[i] = seq[i]
    BY <2>2, SubSeqProperties
  <2>4. Len(s2) = Len(seq) - k /\ \A i \in 1 .. Len(seq) - k : s2[i] = seq[k + i]
    <3>1. \A i \in k + 1 .. Len(seq) : seq[i] \in Group
      BY <2>2
    <3>2. /\ Len(s2) = IF k + 1 <= Len(seq) THEN Len(seq) - (k + 1) + 1 ELSE 0
          /\ \A i \in 1 .. Len(seq) - (k + 1) + 1 : s2[i] = seq[k + 1 + i - 1]
      BY <2>2, <3>1, SubSeqProperties
    <3> HIDE DEF s2
    <3>3. \A i \in 1 .. Len(seq) - k : k + 1 + i - 1 = k + i
      BY <2>2
    <3> QED
      BY <2>2, <3>2, <3>3
  <2> HIDE DEF s1, s2
  <2>5. /\ Len(s1 \o s2) = Len(seq) - 1
        /\ \A i \in 1 .. Len(seq) - 1 :
              (s1 \o s2)[i] = IF i <= k - 1 THEN s1[i] ELSE s2[i - (k - 1)]
    <3>1. /\ Len(s1 \o s2) = Len(s1) + Len(s2)
          /\ \A i \in 1 .. Len(s1) + Len(s2) :
                (s1 \o s2)[i] = IF i <= Len(s1) THEN s1[i] ELSE s2[i - Len(s1)]
      BY <2>3, ConcatProperties
    <3>2. Len(s1) + Len(s2) = Len(seq) - 1
      BY <2>2, <2>3, <2>4
    <3> QED
      BY <2>3, <3>1, <3>2
  <2>6. ASSUME NEW i \in 1 .. Len(seq) - 1
        PROVE  (s1 \o s2)[i] \in Items(seq)
    <3>1. CASE i <= k - 1
      <4>1. (s1 \o s2)[i] = seq[i] /\ i \in 1 .. Len(seq)
        BY <2>2, <2>3, <2>5, <3>1
      <4> QED
        BY <4>1 DEF Items
    <3>2. CASE ~ (i <= k - 1)
      <4>1. i - (k - 1) \in 1 .. Len(seq) - k
        BY <2>2, <3>2
      <4>2. (s1 \o s2)[i] = seq[i + 1] /\ i + 1 \in 1 .. Len(seq)
        BY <2>2, <2>4, <2>5, <3>2, <4>1
      <4> QED
        BY <4>2 DEF Items
    <3> QED
      BY <3>1, <3>2
  <2>7. Without(seq, g) = s1 \o s2
    BY <2>1 DEF s1, s2
  <2> QED
    BY <2>5, <2>6, <2>7 DEF Items
<1>2. CASE ~ \E k \in 1 .. Len(seq) : seq[k] = g
  BY <1>2 DEF Without
<1> QED
  BY <1>1, <1>2
-----------------------------------------------------------------------------
(* Every group anybody refers to has been allocated.                       *)

Allocated == {g \in Group : groupRow[g].status # "none"}

TablesKnown ==
    /\ \A t \in Txn : txnGroup[t] # NoGroup => txnGroup[t] \in Allocated /\ t \in txns
    /\ \A o \in Order : orderGroup[o] # NoGroup => orderGroup[o] \in Allocated
    /\ \A i \in Intent : opened[i] # NoGroup => opened[i] \in Allocated
    /\ \A g \in Allocated, h \in Group : h < g => h \in Allocated

\* What a pass refers to, and the rows it waits for.
PassKnown(p) ==
    /\ \A t \in Txn : intended[p][t] # NoGroup => intended[p][t] \in Allocated
    /\ loading[p] \subseteq Allocated
    /\ Listed(p) \subseteq Allocated
    /\ \A j \in todo[p] : j.group # NoGroup => j.group \in Allocated
    /\ job[p].group # NoGroup => job[p].group \in Allocated
    /\ pc[p] = "refreshWrite" => seen[p].status # "none"
    /\ \A t \in Txn : Waiting(p, t) => t \in txns

\* Nothing is being read, and before the snapshot nothing is listed.
ListsKnown(p) ==
    /\ pc[p] # "load" => loading[p] = {}
    /\ pc[p] \in {"idle", "linkOrders", "snapshot"} => list[p] = <<>>

KnownInv ==
    /\ TablesKnown
    /\ \A p \in Pass : PassKnown(p) /\ ListsKnown(p)

\* The list of a pass, as a set.
LEMMA ListedItems ==
    \A p \in Pass : Listed(p) = Items(list[p]) /\ Listed(p)' = Items(list'[p])
  BY DEF Listed, Items

\* The list after a group has joined it.
LEMMA LongerList ==
    ASSUME TypeInv, NEW p \in Pass, NEW g \in Group, list'[p] = Append(list[p], g)
    PROVE  Listed(p)' = Listed(p) \cup {g}
<1>1. list[p] \in Seq(Group)
  BY DEF TypeInv, TypeOK
<1>2. Items(Append(list[p], g)) = Items(list[p]) \cup {g}
  BY <1>1, ItemsAppend
<1> QED
  BY <1>2, ListedItems

\* The list after one has been struck off, or the first one dealt with.
LEMMA ShorterList ==
    ASSUME TypeInv, NEW p \in Pass,
           \/ UNCHANGED list
           \/ \E h \in Group : list' = [list EXCEPT ![p] = Without(@, h)]
           \/ list[p] # <<>> /\ list' = [list EXCEPT ![p] = Tail(@)]
    PROVE  Listed(p)' \subseteq Listed(p)
<1>1. \/ list'[p] = list[p]
      \/ \E h \in Group : list'[p] = Without(list[p], h)
      \/ list[p] # <<>> /\ list'[p] = Tail(list[p])
  BY DEF TypeInv, TypeOK
<1>2. /\ list[p] # <<>> => Items(Tail(list[p])) \subseteq Items(list[p])
      /\ \A h \in Group : Items(Without(list[p], h)) \subseteq Items(list[p])
  BY ItemsTail, ItemsWithout DEF TypeInv, TypeOK
<1> QED
  BY <1>1, <1>2, ListedItems

\* What a pass refers to stays known while groups and rows are only added.
LEMMA SameKnown ==
    ASSUME NEW q \in Pass, PassKnown(q), ListsKnown(q), Same(q),
           Allocated \subseteq Allocated', txns \subseteq txns'
    PROVE  PassKnown(q)' /\ ListsKnown(q)'
<1>1. Listed(q)' = Listed(q)
  BY DEF Same, Listed
<1>2. \A t : Waiting(q, t)' => Waiting(q, t)
  BY DEF Same, Waiting, Held
<1>3. ListsKnown(q)'
  BY DEF Same, ListsKnown
<1>4. PassKnown(q)'
  BY <1>1, <1>2 DEF Same, PassKnown
<1> QED
  BY <1>3, <1>4

\* A pass whose step refers to nothing new.
LEMMA FewerKnown ==
    ASSUME TypeInv, NEW p \in Pass, PassKnown(p),
           Allocated \subseteq Allocated', txns \subseteq txns',
           intended'[p] \in {intended[p], [t \in Txn |-> NoGroup]}, loading'[p] \subseteq loading[p],
           Listed(p)' \subseteq Listed(p), todo'[p] \subseteq todo[p],
           job'[p] \in {job[p], NoJob},
           pc'[p] = "refreshWrite" => seen'[p].status # "none",
           cand'[p] \subseteq cand[p], cluster'[p] \subseteq cluster[p],
           Held(p)' \subseteq Held(p)
    PROVE  PassKnown(p)'
<1>1. \A t : Waiting(p, t)' => Waiting(p, t)
  BY DEF Waiting
<1>2. NoJob.group = NoGroup
  BY DEF NoJob
<1>3. \A t \in Txn : Waiting(p, t)' => t \in txns'
  BY <1>1 DEF PassKnown
<1> QED
  BY <1>2, <1>3 DEF PassKnown

\* Calls that touch neither rows nor groups leave what the tables refer to.
LEMMA QuietKnown ==
    ASSUME TablesKnown, UNCHANGED <<txns, txnGroup, orderGroup, opened, groupRow>>
    PROVE  TablesKnown' /\ Allocated' = Allocated
<1>1. Allocated' = Allocated
  BY DEF Allocated
<1> QED
  BY <1>1 DEF TablesKnown

\* Writing the row of a group that exists, or of the next free one.
LEMMA UpsertKnown ==
    ASSUME TypeInv, TablesKnown, NEW g \in Group, g \in Allocated \/ FreeGroup(g),
           NEW row, row.status # "none", UpsertTradeGroup(g, row)
    PROVE  /\ TablesKnown' /\ Allocated' = Allocated \cup {g}
           /\ UNCHANGED <<txns, txnGroup>>
<1>1. /\ UNCHANGED <<txns, txnGroup, orderGroup, opened>>
      /\ groupRow' = [groupRow EXCEPT ![g] = row]
  BY DEF UpsertTradeGroup
<1>2. Allocated' = Allocated \cup {g}
  BY <1>1 DEF Allocated, TypeInv, TypeOK, TablesType
<1>3. \A h \in Allocated', k \in Group : k < h => k \in Allocated'
  BY <1>2 DEF TablesKnown, FreeGroup, Allocated
<1> QED
  BY <1>1, <1>2, <1>3 DEF TablesKnown

\* Attaching stored rows to a group that exists.
LEMMA AttachKnown ==
    ASSUME TypeInv, TablesKnown, NEW S, S \cap Txn \subseteq txns,
           NEW g, g # NoGroup => g \in Allocated, AttachTransactions(S, g)
    PROVE  TablesKnown' /\ Allocated' = Allocated /\ UNCHANGED txns
<1>1. /\ UNCHANGED <<txns, orderGroup, opened, groupRow>>
      /\ \A t \in Txn : txnGroup'[t] = IF t \in S THEN g ELSE txnGroup[t]
  BY DEF AttachTransactions
<1>2. Allocated' = Allocated
  BY <1>1 DEF Allocated
<1> QED
  BY <1>1, <1>2 DEF TablesKnown

\* Giving orders a group that exists, or none.
LEMMA OrdersKnown ==
    ASSUME TypeInv, TablesKnown, NEW S, NEW g, g # NoGroup => g \in Allocated,
           UpsertOrders(S, g)
    PROVE  TablesKnown' /\ Allocated' = Allocated /\ UNCHANGED txns
<1>1. /\ UNCHANGED <<txns, txnGroup, opened, groupRow>>
      /\ \A o \in Order : orderGroup'[o] \in {g, orderGroup[o]}
  BY DEF UpsertOrders, Coalesce
<1>2. Allocated' = Allocated
  BY <1>1 DEF Allocated
<1> QED
  BY <1>1, <1>2 DEF TablesKnown

\* An order gets the group of its rows.
LEMMA LinkOrdersKnown ==
    ASSUME TypeInv, TablesKnown, LinkOrdersToGroups
    PROVE  TablesKnown' /\ Allocated' = Allocated /\ UNCHANGED txns
<1>1. UNCHANGED <<txns, txnGroup, opened, groupRow>>
  BY DEF LinkOrdersToGroups
<1>2. Allocated' = Allocated
  BY <1>1 DEF Allocated
<1>3. ASSUME NEW o \in Order
      PROVE  orderGroup'[o] \in Allocated \cup {orderGroup[o]}
  <2>1. CASE \E g \in Group : GroupsOfOrder(o) = {g}
    <3>1. PICK g \in Group : GroupsOfOrder(o) = {g}
      BY <2>1
    <3>2. orderGroup'[o] \in {g, orderGroup[o]}
      BY <3>1 DEF LinkOrdersToGroups
    <3>3. \E t \in txns : g = txnGroup[t] /\ g # NoGroup
      BY <3>1 DEF GroupsOfOrder
    <3>4. g \in Allocated
      BY <3>3 DEF TablesKnown, TypeInv, TypeOK, TablesType
    <3> QED
      BY <3>2, <3>4
  <2>2. CASE ~ \E g \in Group : GroupsOfOrder(o) = {g}
    BY <2>2 DEF LinkOrdersToGroups
  <2> QED
    BY <2>1, <2>2
<1> QED
  BY <1>1, <1>2, <1>3 DEF TablesKnown

\* The feed adds rows, orders and groups, and refers to groups the host opened.
LEMMA FeedKnown ==
    ASSUME TypeInv, KnownInv, Feed
    PROVE  KnownInv' /\ Allocated \subseteq Allocated' /\ txns \subseteq txns'
<1>1. \A q \in Pass : Same(q)
  BY DEF Feed, FeedTransaction, FeedOrder, FeedTradeGroup, FeedRecordOrder, locals, Same
<1>2. ASSUME NEW t \in Txn, FeedTransaction(t)
      PROVE  TablesKnown' /\ Allocated \subseteq Allocated' /\ txns \subseteq txns'
  <2>1. /\ UNCHANGED <<orderGroup, opened, groupRow>> /\ txns \subseteq txns'
        /\ txnGroup' = [txnGroup EXCEPT ![t] = txnGroup[t]]
    BY <1>2 DEF FeedTransaction, SyncTransaction, UpsertTransaction, Coalesce
  <2>2. UNCHANGED txnGroup
    BY <2>1 DEF TypeInv, TypeOK, TablesType
  <2>3. Allocated' = Allocated
    BY <2>1 DEF Allocated
  <2> QED
    BY <2>1, <2>2, <2>3 DEF KnownInv, TablesKnown
<1>3. ASSUME NEW o \in Order, FeedOrder(o) \/ FeedRecordOrder(o)
      PROVE  TablesKnown' /\ Allocated \subseteq Allocated' /\ txns \subseteq txns'
  <2>1. \E g : (g # NoGroup => g \in Allocated) /\ UpsertOrders({o}, g)
    BY <1>3, IntentAssumption DEF FeedOrder, FeedRecordOrder, SyncOrder, RecordOrder,
       KnownInv, TablesKnown
  <2> QED
    BY <2>1, OrdersKnown DEF KnownInv
<1>4. ASSUME NEW i \in Intent, NEW g \in Group, FeedTradeGroup(i, g)
      PROVE  TablesKnown' /\ Allocated \subseteq Allocated' /\ txns \subseteq txns'
  <2> DEFINE row == [NoRow EXCEPT !.status = "open", !.manual = TRUE,
                                  !.review = "confirmed"]
  <2>1. /\ FreeGroup(g) /\ opened' = [opened EXCEPT ![i] = g]
        /\ groupRow' = [groupRow EXCEPT ![g] = row]
        /\ UNCHANGED <<txns, txnGroup, orderGroup>>
    BY <1>4 DEF FeedTradeGroup, OpenTradeGroup
  <2>2. row.status = "open"
    BY DEF NoRow
  <2> HIDE DEF row
  <2>3. Allocated' = Allocated \cup {g}
    BY <2>1, <2>2 DEF Allocated, TypeInv, TypeOK, TablesType
  <2>4. \A h \in Allocated', k \in Group : k < h => k \in Allocated'
    BY <2>1, <2>3 DEF KnownInv, TablesKnown, FreeGroup, Allocated
  <2>5. \A k \in Intent : opened'[k] \in {g, opened[k]}
    BY <2>1 DEF TypeInv, TypeOK, TablesType
  <2> QED
    BY <2>1, <2>3, <2>4, <2>5 DEF KnownInv, TablesKnown
<1>5. TablesKnown' /\ Allocated \subseteq Allocated' /\ txns \subseteq txns'
  BY <1>2, <1>3, <1>4 DEF Feed
<1> QED
  BY <1>1, <1>5, SameKnown DEF KnownInv

-----------------------------------------------------------------------------
(* What the step of a pass refers to.                                      *)

\* What a step of p owes: what p refers to is known afterwards, and so is what the
\* tables refer to.
KeepsKnown(p) ==
    /\ PassKnown(p)' /\ ListsKnown(p)' /\ TablesKnown'
    /\ Allocated \subseteq Allocated' /\ txns \subseteq txns'

\* Linking refers to nothing new.
LEMMA LinkKnown ==
    ASSUME TypeInv, KnownInv, NEW p \in Pass, BeginPass(p) \/ LinkOrders(p)
    PROVE  KeepsKnown(p)
<1>1. /\ pc[p] \in {"idle", "linkOrders"}
      /\ \E v \in {"linkOrders", "snapshot"} : pc' = [pc EXCEPT ![p] = v]
      /\ UNCHANGED <<intended, loading, list, todo, job, seen, cand, cluster>>
  BY DEF BeginPass, MayBegin, LinkOrders
<1>2. pc'[p] \in {"linkOrders", "snapshot"} /\ Held(p)' = {}
  BY <1>1 DEF TypeInv, TypeOK, Held
<1>3. TablesKnown' /\ Allocated' = Allocated /\ UNCHANGED txns
  BY QuietKnown, LinkOrdersKnown DEF KnownInv, BeginPass, LinkTransactionsToOrders,
     LinkOrders
<1>4. Listed(p)' = Listed(p)
  BY <1>1 DEF Listed
<1>5. PassKnown(p)'
  BY <1>1, <1>2, <1>3, <1>4, FewerKnown DEF KnownInv
<1>6. ListsKnown(p)'
  BY <1>1, <1>2 DEF KnownInv, ListsKnown
<1> QED
  BY <1>3, <1>5, <1>6 DEF KeepsKnown

\* The snapshot refers to groups of orders, and takes stored rows.
LEMMA SnapshotKnown ==
    ASSUME TypeInv, KnownInv, ClaimInv, NEW p \in Pass, Snapshot(p)
    PROVE  KeepsKnown(p)
<1>1. /\ pc[p] = "snapshot" /\ pc' = [pc EXCEPT ![p] = "list"]
      /\ cand' = [cand EXCEPT ![p] = Candidates]
      /\ intended' = [intended EXCEPT ![p] =
            [t \in Txn |-> IF t \in Candidates THEN OrderTradeGroup(t) ELSE NoGroup]]
      /\ UNCHANGED <<tables, loading, list, todo, job, seen, cluster>>
  BY DEF Snapshot
<1>2. /\ pc'[p] = "list" /\ cand'[p] = Candidates /\ Held(p)' = {}
      /\ intended'[p] =
            [t \in Txn |-> IF t \in Candidates THEN OrderTradeGroup(t) ELSE NoGroup]
  BY <1>1 DEF TypeInv, TypeOK, Held
<1>3. TablesKnown' /\ Allocated' = Allocated /\ UNCHANGED txns
  BY <1>1, QuietKnown DEF KnownInv, tables
<1>4. cluster'[p] = {} /\ todo'[p] = {} /\ loading'[p] = {} /\ Listed(p)' = Listed(p)
  BY <1>1 DEF ClaimInv, NothingYet, KnownInv, ListsKnown, Listed
<1>5. \A t \in Txn : OrderTradeGroup(t) # NoGroup => OrderTradeGroup(t) \in Allocated
  BY DEF OrderTradeGroup, KnownInv, TablesKnown, TypeInv, TypeOK, TablesType
<1>6. \A t \in Txn : intended'[p][t] # NoGroup => intended'[p][t] \in Allocated
  BY <1>2, <1>5
<1>7. \A t \in Txn : Waiting(p, t)' => t \in txns
  BY <1>2, <1>4 DEF Waiting, Candidates
<1>8. PassKnown(p)'
  BY <1>1, <1>2, <1>3, <1>4, <1>6, <1>7 DEF KnownInv, PassKnown
<1> QED
  BY <1>1, <1>2, <1>3, <1>4, <1>8 DEF KeepsKnown, ListsKnown

\* The open groups are allocated.
LEMMA ListOpenKnown ==
    ASSUME TypeInv, KnownInv, NEW p \in Pass, ListOpen(p)
    PROVE  KeepsKnown(p)
<1>1. /\ pc[p] = "list"
      /\ pc' = [pc EXCEPT ![p] = IF OpenGroups # {} THEN "load"
                                 ELSE IF phase[p] = "heal" THEN "heal" ELSE "work"]
      /\ loading' = [loading EXCEPT ![p] = OpenGroups]
      /\ list' = [list EXCEPT ![p] = <<>>]
      /\ UNCHANGED <<tables, intended, cand, todo, job, seen, cluster>>
  BY DEF ListOpen
<1>2. /\ pc'[p] \in {"load", "heal", "work"}
      /\ pc'[p] # "load" => OpenGroups = {}
      /\ loading'[p] = OpenGroups /\ list'[p] = <<>> /\ Held(p)' = {}
  BY <1>1 DEF TypeInv, TypeOK, Held
<1>3. TablesKnown' /\ Allocated' = Allocated /\ UNCHANGED txns
  BY <1>1, QuietKnown DEF KnownInv, tables
<1>4. loading'[p] \subseteq Allocated
  BY <1>2 DEF OpenGroups, Allocated
<1>5. Listed(p)' = {}
  BY <1>2 DEF Listed
<1>6. \A t \in Txn : Waiting(p, t)' => t \in txns
  BY <1>1, <1>2 DEF Waiting, KnownInv, PassKnown
<1>7. PassKnown(p)'
  BY <1>1, <1>2, <1>3, <1>4, <1>5, <1>6 DEF KnownInv, PassKnown
<1> QED
  BY <1>2, <1>3, <1>7 DEF KeepsKnown, ListsKnown

\* A group joins the list: one being read, one an order names, or the new one.
LEMMA AppendKnown ==
    ASSUME TypeInv, KnownInv, NEW p \in Pass, NEW g \in Allocated,
           pc'[p] \in {"load", "heal", "work"}, list'[p] = Append(list[p], g),
           loading'[p] \subseteq loading[p], pc'[p] # "load" => loading'[p] = {},
           job'[p] \in {job[p], NoJob},
           UNCHANGED <<txns, txnGroup, orderGroup, opened, groupRow>>,
           UNCHANGED <<intended, cand, cluster, todo>>
    PROVE  KeepsKnown(p)
<1>1. Held(p)' = {}
  BY DEF Held
<1>2. TablesKnown' /\ Allocated' = Allocated
  BY QuietKnown DEF KnownInv
<1>3. Listed(p)' \subseteq Allocated
  <2>1. list[p] \in Seq(Group) /\ g \in Group
    BY DEF TypeInv, TypeOK, Allocated
  <2>2. Listed(p)' = Listed(p) \cup {g}
    BY <2>1, LongerList
  <2> QED
    BY <2>2 DEF KnownInv, PassKnown
<1>4. \A t \in Txn : Waiting(p, t)' => t \in txns
  BY <1>1 DEF Waiting, KnownInv, PassKnown
<1>5. PassKnown(p)'
  BY <1>1, <1>2, <1>3, <1>4 DEF KnownInv, PassKnown, NoJob
<1> QED
  BY <1>1, <1>2, <1>5 DEF KeepsKnown, ListsKnown

\* Those three steps.
LEMMA JoinsKnown ==
    ASSUME TypeInv, KnownInv, NEW p \in Pass,
           \/ \E g \in Group : LoadRows(p, g)
           \/ \E j \in todo[p] : FindGroup(p, j)
           \/ CreateEntry(p)
    PROVE  KeepsKnown(p)
<1>1. ASSUME NEW g \in Group, LoadRows(p, g)
      PROVE  KeepsKnown(p)
  <2>1. /\ pc[p] = "load" /\ g \in loading[p]
        /\ pc' = [pc EXCEPT ![p] = IF loading[p] # {g} THEN "load"
                                   ELSE IF phase[p] = "heal" THEN "heal" ELSE "work"]
        /\ list' = [list EXCEPT ![p] = Append(@, g)]
        /\ loading' = [loading EXCEPT ![p] = @ \ {g}]
        /\ UNCHANGED <<txns, txnGroup, orderGroup, opened, groupRow>>
        /\ UNCHANGED <<intended, cand, cluster, todo, job>>
    BY <1>1 DEF LoadRows, tables
  <2>2. /\ loading'[p] = loading[p] \ {g} /\ list'[p] = Append(list[p], g)
        /\ pc'[p] \in {"load", "heal", "work"}
        /\ pc'[p] # "load" => loading[p] = {g}
    BY <2>1 DEF TypeInv, TypeOK
  <2>3. g \in Allocated
    BY <2>1 DEF KnownInv, PassKnown
  <2>4. loading'[p] \subseteq loading[p] /\ (pc'[p] # "load" => loading'[p] = {})
    BY <2>2
  <2> QED
    BY <2>1, <2>2, <2>3, <2>4, AppendKnown
<1>2. ASSUME NEW j \in todo[p], FindGroup(p, j)
      PROVE  KeepsKnown(p)
  <2>1. /\ pc[p] = "work" /\ UNCHANGED pc /\ phase[p] = "intent"
        /\ list' = [list EXCEPT ![p] = Append(@, j.group)]
        /\ UNCHANGED <<txns, txnGroup, orderGroup, opened, groupRow>>
        /\ UNCHANGED <<intended, cand, cluster, todo, job, loading>>
    BY <1>2 DEF FindGroup, NextJob, tables
  <2>2. list'[p] = Append(list[p], j.group)
    BY <2>1 DEF TypeInv, TypeOK
  <2>3. loading[p] = {}
    BY <2>1 DEF KnownInv, ListsKnown
  <2>4. j.group \in Allocated
    BY <2>1, RoutingAssumption DEF KnownInv, PassKnown, TypeInv, JobsNameGroups
  <2> QED
    BY <2>1, <2>2, <2>3, <2>4, AppendKnown
<1>3. CASE CreateEntry(p)
  <2>1. PICK g \in Group : /\ g = job[p].group
                           /\ AddEntryEvent(g)
                           /\ list' = [list EXCEPT ![p] = Append(@, g)]
    BY <1>3 DEF CreateEntry
  <2>2. /\ pc[p] = "createEntry" /\ pc' = [pc EXCEPT ![p] = "work"]
        /\ UNCHANGED <<intended, cand, cluster, todo, loading>>
        /\ job' = [job EXCEPT ![p] = NoJob]
    BY <1>3 DEF CreateEntry
  <2>3. UNCHANGED <<txns, txnGroup, orderGroup, opened, groupRow>>
    BY <2>1 DEF AddEntryEvent
  <2>4. g \in Allocated
    BY <2>1, RoutingAssumption DEF KnownInv, PassKnown
  <2>5. loading[p] = {}
    BY <2>2 DEF KnownInv, ListsKnown
  <2>6. /\ list'[p] = Append(list[p], g) /\ job'[p] = NoJob /\ pc'[p] = "work"
    BY <2>1, <2>2 DEF TypeInv, TypeOK
  <2> QED
    BY <2>2, <2>3, <2>4, <2>5, <2>6, AppendKnown
<1> QED
  BY <1>1, <1>2, <1>3

\* The jobs of a cluster name groups of orders, and take the candidates' rows.
LEMMA TakeClusterKnown ==
    ASSUME TypeInv, KnownInv, NEW p \in Pass, TakeCluster(p)
    PROVE  KeepsKnown(p)
<1> DEFINE c == FirstCluster(cand[p])
<1>1. /\ pc[p] = "work" /\ UNCHANGED <<tables, pc, intended, loading, list, job, seen>>
      /\ cand' = [cand EXCEPT ![p] = @ \ c]
      /\ cluster' = [cluster EXCEPT ![p] = {t \in c : intended[p][t] = NoGroup}]
      /\ todo' = [todo EXCEPT ![p] = IntentJobs(p, c)]
  BY DEF TakeCluster
<1>2. c \subseteq cand[p]
  BY DEF FirstCluster
<1> HIDE DEF c
<1>3. /\ cand'[p] = cand[p] \ c /\ todo'[p] = IntentJobs(p, c) /\ Held(p)' = {}
      /\ cluster'[p] = {t \in c : intended[p][t] = NoGroup}
  BY <1>1 DEF TypeInv, TypeOK, Held
<1>4. TablesKnown' /\ Allocated' = Allocated /\ UNCHANGED txns
  BY <1>1, QuietKnown DEF KnownInv, tables
<1>5. \A t \in Txn : Waiting(p, t)' => t \in cand[p]
  BY <1>2, <1>3, IntentJobsApart DEF Waiting
<1>6. \A j \in todo'[p] : j.group \in Allocated
  <2> DEFINE of(g) == {t \in c : intended[p][t] = g}
             fill(g) == NewJob("fill", First(of(g)), g, {t \in of(g) : ~IsClosing(t)})
             exit(g) == NewJob("exit", First(of(g)), g, {t \in of(g) : IsClosing(t)})
  <2> SUFFICES ASSUME NEW j \in IntentJobs(p, c)
               PROVE  j.group \in Allocated
    BY <1>3
  <2>1. PICK g \in {h \in Group : of(h) # {}} : j = fill(g) \/ j = exit(g)
    BY DEF IntentJobs
  <2>2. fill(g).group = g /\ exit(g).group = g
    BY DEF NewJob
  <2>3. \E t \in c : intended[p][t] = g
    BY <2>1
  <2> HIDE DEF fill, exit
  <2>4. cand[p] \subseteq Txn
    BY DEF TypeInv, TypeOK
  <2>5. g \in Allocated
    BY <1>2, <2>3, <2>4, RoutingAssumption DEF KnownInv, PassKnown
  <2> QED
    BY <2>1, <2>2, <2>5
<1>7. Listed(p)' = Listed(p)
  BY <1>1 DEF Listed
<1>8. \A t \in Txn : Waiting(p, t)' => t \in txns
  BY <1>5 DEF KnownInv, PassKnown, Waiting
<1>9. PassKnown(p)' /\ ListsKnown(p)'
  BY <1>1, <1>4, <1>6, <1>7, <1>8 DEF KnownInv, PassKnown, ListsKnown
<1> QED
  BY <1>4, <1>9 DEF KeepsKnown

\* The routing sends rows to groups on the list.
LEMMA RouteKnown ==
    ASSUME TypeInv, KnownInv, NEW p \in Pass, Route(p)
    PROVE  KeepsKnown(p)
<1> DEFINE routed == RouteCluster(list[p], Members(p), cluster[p])
<1>1. /\ pc[p] = "work"
      /\ UNCHANGED <<tables, pc, intended, loading, list, job, seen, cand>>
      /\ cluster' = [cluster EXCEPT ![p] = {}]
      /\ todo' = [todo EXCEPT ![p] = RoutedJobs(p, routed)]
  BY DEF Route
<1>2. \A t \in Txn : routed.to[t] \in Listed(p) \cup {NoGroup}
  <2>1. Len(list[p]) \in Nat
    BY LenProperties DEF TypeInv, TypeOK
  <2> QED
    BY <2>1, RouteClusterGroup DEF Listed
<1> HIDE DEF routed
<1>3. cluster'[p] = {} /\ todo'[p] = RoutedJobs(p, routed) /\ Held(p)' = {}
  BY <1>1 DEF TypeInv, TypeOK, Held
<1>4. TablesKnown' /\ Allocated' = Allocated /\ UNCHANGED txns
  BY <1>1, QuietKnown DEF KnownInv, tables
<1>5. \A t \in Txn : Waiting(p, t)' => t \in cand[p] \/ t \in cluster[p]
  BY <1>1, <1>3, RoutedJobsApart DEF Waiting
<1>6. \A j \in todo'[p] : j.group # NoGroup => j.group \in Listed(p)
  <2> DEFINE bucket(g) == {t \in cluster[p] : routed.to[t] = g}
             exit(g) == NewJob("exit", First(bucket(g)), g, bucket(g))
             create == NewJob("create", 0, NoGroup, bucket(NoGroup))
  <2> SUFFICES ASSUME NEW j \in RoutedJobs(p, routed), j.group # NoGroup
               PROVE  j.group \in Listed(p)
    BY <1>3
  <2>1. j = create \/ \E g \in {h \in Group : bucket(h) # {}} : j = exit(g)
    BY DEF RoutedJobs
  <2>2. create.group = NoGroup /\ \A g : exit(g).group = g
    BY DEF NewJob
  <2> HIDE DEF exit, create
  <2>3. PICK g \in Group : j = exit(g) /\ bucket(g) # {}
    BY <2>1, <2>2
  <2>4. PICK t \in cluster[p] : routed.to[t] = g
    BY <2>3
  <2>5. t \in Txn
    BY DEF TypeInv, TypeOK
  <2> QED
    BY <1>2, <2>2, <2>3, <2>4, <2>5, RoutingAssumption
<1>7. Listed(p)' = Listed(p)
  BY <1>1 DEF Listed
<1>8. \A t \in Txn : Waiting(p, t)' => t \in txns
  BY <1>5 DEF KnownInv, PassKnown, Waiting
<1>9. PassKnown(p)' /\ ListsKnown(p)'
  BY <1>1, <1>4, <1>6, <1>7, <1>8 DEF KnownInv, PassKnown, ListsKnown
<1> QED
  BY <1>4, <1>9 DEF KeepsKnown

\* Stored rows join a group of the list.
LEMMA JobKnown ==
    ASSUME TypeInv, KnownInv, NEW p \in Pass, NEW j \in todo[p],
           AttachFills(p, j) \/ ExitAttach(p, j)
    PROVE  KeepsKnown(p)
<1>1. /\ pc[p] = "work" /\ j.group \in Listed(p) /\ AttachTransactions(j.rows, j.group)
      /\ UNCHANGED <<intended, loading, seen, cand, cluster>>
      /\ todo' = [todo EXCEPT ![p] = @ \ {j}]
  BY DEF AttachFills, ExitAttach, NextJob
<1>2. \E v \in {"work", "refreshRead", "event"} : pc' = [pc EXCEPT ![p] = v]
  <2>1. pc = [pc EXCEPT ![p] = "work"]
    BY <1>1 DEF TypeInv, TypeOK
  <2> QED
    BY <2>1 DEF AttachFills, ExitAttach
<1>3. /\ pc'[p] \in {"work", "refreshRead", "event"} /\ Held(p)' = {}
      /\ todo'[p] = todo[p] \ {j}
  BY <1>1, <1>2 DEF TypeInv, TypeOK, Held
<1>4. j.group \in Allocated /\ j.rows \cap Txn \subseteq txns
  BY <1>1 DEF KnownInv, PassKnown, Waiting
<1>5. TablesKnown' /\ Allocated' = Allocated /\ UNCHANGED txns
  BY <1>1, <1>4, AttachKnown DEF KnownInv
<1>6. job'[p].group \in {j.group, job[p].group}
  <2>1. \A x : job' = [job EXCEPT ![p] = x] => job'[p] = x
    BY DEF TypeInv, TypeOK
  <2>2. CASE AttachFills(p, j)
    <3>1. job' = [job EXCEPT ![p] = j]
      BY <2>2 DEF AttachFills
    <3> QED
      BY <2>1, <3>1
  <2>3. CASE ExitAttach(p, j)
    <3> DEFINE new == {t \in j.rows : book[p][j.group][t] = 0}
               made == [j EXCEPT !.rows = new, !.to = RolledTo(p, j.rows)]
    <3>1. UNCHANGED job \/ job' = [job EXCEPT ![p] = made]
      BY <2>3, Zenon DEF ExitAttach
    <3>2. made.group = j.group
      BY NextJobType DEF Job
    <3> HIDE DEF made
    <3>3. UNCHANGED job \/ job'[p] = made
      BY <2>1, <3>1
    <3> QED
      BY <3>2, <3>3
  <2> QED
    BY <2>2, <2>3
<1>7. Listed(p)' \subseteq Listed(p)
  <2>1. UNCHANGED list \/ list' = [list EXCEPT ![p] = Without(@, j.group)]
    BY DEF AttachFills, ExitAttach, TypeInv, TypeOK
  <2>2. j.group \in Group
    BY <1>4 DEF Allocated
  <2> QED
    BY <2>1, <2>2, ShorterList
<1>8. \A t \in Txn : Waiting(p, t)' => t \in txns
  BY <1>1, <1>3 DEF KnownInv, PassKnown, Waiting
<1>9. PassKnown(p)' /\ ListsKnown(p)'
  BY <1>1, <1>3, <1>4, <1>5, <1>6, <1>7, <1>8 DEF KnownInv, PassKnown, ListsKnown
<1> QED
  BY <1>5, <1>9 DEF KeepsKnown

\* The row of the group that took fills, read and written back.
LEMMA RefreshKnown ==
    ASSUME TypeInv, KnownInv, NEW p \in Pass, RefreshRead(p) \/ RefreshWrite(p)
    PROVE  KeepsKnown(p)
<1>1. /\ UNCHANGED <<intended, loading, list, todo, cand, cluster>>
      /\ pc[p] \in {"refreshRead", "refreshWrite"}
  BY DEF RefreshRead, RefreshWrite
<1>2. Listed(p)' = Listed(p)
  BY <1>1 DEF Listed
<1>3. CASE RefreshRead(p)
  <2>1. PICK g \in Group : g = job[p].group /\ seen' = [seen EXCEPT ![p] = groupRow[g]]
    BY <1>3 DEF RefreshRead
  <2>2. /\ UNCHANGED <<tables, job>>
        /\ pc' = [pc EXCEPT ![p] = "refreshWrite"]
    BY <1>3 DEF RefreshRead
  <2>3. pc'[p] = "refreshWrite" /\ seen'[p] = groupRow[g] /\ Held(p)' = {}
    BY <2>1, <2>2 DEF TypeInv, TypeOK, Held
  <2>4. groupRow[g].status # "none"
    BY <2>1, RoutingAssumption DEF KnownInv, PassKnown, Allocated
  <2>5. TablesKnown' /\ Allocated' = Allocated /\ UNCHANGED txns
    BY <2>2, QuietKnown DEF KnownInv, tables
  <2>6. PassKnown(p)'
    BY <1>1, <1>2, <2>2, <2>3, <2>4, <2>5, FewerKnown DEF KnownInv
  <2> QED
    BY <1>1, <2>3, <2>5, <2>6 DEF KeepsKnown, KnownInv, ListsKnown
<1>4. CASE RefreshWrite(p)
  <2>1. PICK g \in Group :
            /\ g = job[p].group
            /\ UpsertTradeGroup(g, [seen[p] EXCEPT !.premium = book[p][g],
                                                   !.fees    = book[p][g]])
    BY <1>4 DEF RefreshWrite
  <2> DEFINE row == [seen[p] EXCEPT !.premium = book[p][g], !.fees = book[p][g]]
  <2>2. pc[p] = "refreshWrite" /\ pc' = [pc EXCEPT ![p] = "work"]
        /\ job' = [job EXCEPT ![p] = NoJob]
    BY <1>4 DEF RefreshWrite
  <2>3. pc'[p] = "work" /\ job'[p] = NoJob /\ Held(p)' = {}
    BY <2>2 DEF TypeInv, TypeOK, Held
  <2>4. row.status # "none"
    <3>1. seen[p] \in GroupRowType
      BY DEF TypeInv, TypeOK
    <3>2. row.status = seen[p].status
      BY <3>1 DEF GroupRowType
    <3> QED
      BY <2>2, <3>2 DEF KnownInv, PassKnown
  <2>5. g \in Allocated
    BY <2>1, RoutingAssumption DEF KnownInv, PassKnown
  <2> HIDE DEF row
  <2>6. TablesKnown' /\ Allocated \subseteq Allocated' /\ UNCHANGED txns
    BY <2>1, <2>4, <2>5, UpsertKnown DEF KnownInv, row
  <2>7. PassKnown(p)'
    BY <1>1, <1>2, <2>3, <2>6, FewerKnown DEF KnownInv
  <2> QED
    BY <1>1, <2>2, <2>3, <2>6, <2>7 DEF KeepsKnown, KnownInv, ListsKnown
<1> QED
  BY <1>3, <1>4

\* A new group is the next free one.
LEMMA CreateKnown ==
    ASSUME TypeInv, KnownInv, NEW p \in Pass, NEW j \in todo[p], NEW g \in Group,
           Create(p, j, g)
    PROVE  KeepsKnown(p)
<1> DEFINE row == [NoRow EXCEPT !.status = "open", !.premium = Once(j.rows),
                                !.fees = Once(j.rows)]
<1>1. /\ pc[p] = "work" /\ FreeGroup(g) /\ UpsertTradeGroup(g, row)
      /\ UNCHANGED <<intended, loading, list, cand, cluster>>
      /\ todo' = [todo EXCEPT ![p] = @ \ {j}]
      /\ job' = [job EXCEPT ![p] = [j EXCEPT !.group = g]]
      /\ pc' = [pc EXCEPT ![p] = "createAttach"]
  BY DEF Create, NextJob
<1>2. [j EXCEPT !.group = g].rows = j.rows /\ [j EXCEPT !.group = g].group = g
  BY NextJobType DEF Job
<1>3. /\ pc'[p] = "createAttach" /\ todo'[p] = todo[p] \ {j} /\ Held(p)' = j.rows
      /\ job'[p].group = g
  BY <1>1, <1>2 DEF TypeInv, TypeOK, Held
<1>4. row.status # "none"
  BY DEF NoRow
<1> HIDE DEF row
<1>5. TablesKnown' /\ Allocated' = Allocated \cup {g} /\ UNCHANGED txns
  BY <1>1, <1>4, UpsertKnown DEF KnownInv
<1>6. \A t \in Txn : Waiting(p, t)' => t \in txns
  BY <1>1, <1>3 DEF KnownInv, PassKnown, Waiting
<1>7. Listed(p)' = Listed(p)
  BY <1>1 DEF Listed
<1>8. PassKnown(p)' /\ ListsKnown(p)'
  BY <1>1, <1>3, <1>5, <1>6, <1>7 DEF KnownInv, PassKnown, ListsKnown
<1> QED
  BY <1>5, <1>8 DEF KeepsKnown

\* Its rows and their orders go to a group that is allocated.
LEMMA NewGroupKnown ==
    ASSUME TypeInv, KnownInv, NEW p \in Pass, CreateAttach(p) \/ CreateOrders(p)
    PROVE  KeepsKnown(p)
<1>1. /\ pc[p] \in {"createAttach", "createOrders"}
      /\ UNCHANGED <<intended, loading, list, todo, job, seen, cand, cluster>>
      /\ \E v \in {"createOrders", "createEntry"} : pc' = [pc EXCEPT ![p] = v]
  BY DEF CreateAttach, CreateOrders
<1>2. pc'[p] \in {"createOrders", "createEntry"} /\ Held(p)' = {}
  BY <1>1 DEF TypeInv, TypeOK, Held
<1>3. job[p].group # NoGroup => job[p].group \in Allocated
  BY DEF KnownInv, PassKnown
<1>4. pc[p] = "createAttach" => job[p].rows \cap Txn \subseteq txns
  BY DEF KnownInv, PassKnown, Waiting, Held
<1>5. TablesKnown' /\ Allocated' = Allocated /\ UNCHANGED txns
  BY <1>3, <1>4, AttachKnown, OrdersKnown DEF KnownInv, CreateAttach, CreateOrders
<1>6. Listed(p)' = Listed(p)
  BY <1>1 DEF Listed
<1>7. PassKnown(p)'
  BY <1>1, <1>2, <1>5, <1>6, FewerKnown DEF KnownInv
<1> QED
  BY <1>1, <1>2, <1>5, <1>7 DEF KeepsKnown, KnownInv, ListsKnown

\* Events, and the steps that only move on, refer to nothing new.
LEMMA EventsKnown ==
    ASSUME TypeInv, KnownInv, NEW p \in Pass,
           \/ \E e \in pending[p] : EmitEvent(p, e)
           \/ EndClusters(p) \/ LinkRoll(p) \/ StartHeal(p) \/ HealRead(p)
    PROVE  KeepsKnown(p)
<1>1. UNCHANGED <<intended, loading, todo, cand, cluster, txns, txnGroup, orderGroup,
                  opened, groupRow>>
  BY DEF EmitEvent, EndClusters, LinkRoll, StartHeal, HealRead, AddExitEvent, tables
<1>2. pc[p] \in {"event", "work", "rolls", "heal"}
  BY DEF EmitEvent, EndClusters, LinkRoll, StartHeal, HealRead
<1>3. pc'[p] \in {"event", "stamp", "work", "rolls", "list", "heal", "healWrite"}
  <2>1. \E v \in {"event", "stamp", "work", "rolls", "list", "heal", "healWrite"} :
          pc' = [pc EXCEPT ![p] = v] \/ (pc[p] = v /\ UNCHANGED pc)
    BY DEF EmitEvent, EndClusters, LinkRoll, StartHeal, HealRead
  <2> QED
    BY <2>1 DEF TypeInv, TypeOK
<1>4. job'[p] \in {job[p], NoJob}
  <2>1. UNCHANGED job \/ job' = [job EXCEPT ![p] = NoJob]
    BY DEF EmitEvent, EndClusters, LinkRoll, StartHeal, HealRead
  <2> QED
    BY <2>1 DEF TypeInv, TypeOK
<1>5. Listed(p)' \subseteq Listed(p)
  <2>1. UNCHANGED list \/ (list[p] # <<>> /\ list' = [list EXCEPT ![p] = Tail(@)])
    BY DEF EmitEvent, EndClusters, LinkRoll, StartHeal, HealRead
  <2> QED
    BY <2>1, ShorterList
<1>6. TablesKnown' /\ Allocated' = Allocated
  BY <1>1, QuietKnown DEF KnownInv
<1>7. Held(p)' = {}
  BY <1>3 DEF Held
<1>8. PassKnown(p)'
  BY <1>1, <1>3, <1>4, <1>5, <1>6, <1>7, FewerKnown DEF KnownInv
<1> QED
  BY <1>1, <1>2, <1>3, <1>6, <1>8 DEF KeepsKnown, KnownInv, ListsKnown

\* A stamped row is one of a closed group.
LEMMA StampedStatus ==
    ASSUME NEW row \in GroupRowType, NEW count \in Count
    PROVE  Stamped(row, count).status \notin {"none", "open"}
<1>1. Support(count) \in SUBSET Txn
  BY DEF Support
<1>2. Stamped(row, count).status = TerminalStatus(Support(count))
  BY DEF Stamped, GroupRowType
<1> QED
  BY <1>1, <1>2, TerminalStatusType

\* The group that is stamped is one the pass knows.
LEMMA StampKnown ==
    ASSUME TypeInv, KnownInv, NEW p \in Pass, Stamp(p) \/ HealWrite(p)
    PROVE  KeepsKnown(p)
<1>1. /\ pc[p] \in {"stamp", "healWrite"}
      /\ UNCHANGED <<intended, loading, todo, cand, cluster>>
      /\ \E v \in {"work", "heal"} : pc' = [pc EXCEPT ![p] = v]
  BY DEF Stamp, HealWrite
<1>2. pc'[p] \in {"work", "heal"} /\ Held(p)' = {}
  BY <1>1 DEF TypeInv, TypeOK, Held
<1>3. PICK g \in Group :
        /\ UpsertTradeGroup(g, Stamped(seen[p], book[p][g]))
        /\ \/ g = job[p].group
           \/ list[p] # <<>> /\ g = Head(list[p])
  BY DEF Stamp, HealWrite
<1>4. g \in Allocated
  <2>1. list[p] # <<>> => Head(list[p]) \in Listed(p)
    BY ItemsTail, ListedItems DEF TypeInv, TypeOK
  <2> QED
    BY <1>3, <2>1, RoutingAssumption DEF KnownInv, PassKnown
<1>5. Stamped(seen[p], book[p][g]).status # "none"
  <2>1. seen[p] \in GroupRowType /\ book[p][g] \in Count
    BY DEF TypeInv, TypeOK
  <2> QED
    BY <2>1, StampedStatus
<1>6. TablesKnown' /\ Allocated' = Allocated \cup {g} /\ UNCHANGED txns
  BY <1>3, <1>4, <1>5, UpsertKnown DEF KnownInv
<1>7. Listed(p)' \subseteq Listed(p)
  <2>1. (\E h \in Group : list' = [list EXCEPT ![p] = Without(@, h)])
        \/ (list[p] # <<>> /\ list' = [list EXCEPT ![p] = Tail(@)])
    BY DEF Stamp, HealWrite
  <2> QED
    BY <2>1, ShorterList
<1>8. job'[p] \in {job[p], NoJob}
  BY DEF Stamp, HealWrite, TypeInv, TypeOK
<1>9. PassKnown(p)'
  BY <1>1, <1>2, <1>6, <1>7, <1>8, FewerKnown DEF KnownInv
<1> QED
  BY <1>1, <1>2, <1>6, <1>9 DEF KeepsKnown, KnownInv, ListsKnown

\* A pass that ends or dies refers to nothing.
LEMMA ForgetKnown ==
    ASSUME TypeInv, KnownInv, NEW p \in Pass, EndPass(p) \/ AbortPass(p)
    PROVE  KeepsKnown(p)
<1>1. Forget(p) /\ UNCHANGED tables
  BY DEF EndPass, AbortPass
<1>2. /\ pc'[p] = "idle" /\ cand'[p] = {} /\ cluster'[p] = {} /\ todo'[p] = {}
      /\ loading'[p] = {} /\ list'[p] = <<>> /\ job'[p] = NoJob
      /\ intended'[p] = [t \in Txn |-> NoGroup]
  BY <1>1 DEF Forget, TypeInv, TypeOK
<1>3. Listed(p)' = {} /\ Held(p)' = {}
  BY <1>2 DEF Listed, Held
<1>4. TablesKnown' /\ Allocated' = Allocated /\ UNCHANGED txns
  BY <1>1, QuietKnown DEF KnownInv, tables
<1>5. PassKnown(p)'
  BY <1>2, <1>3, <1>4, FewerKnown DEF KnownInv
<1> QED
  BY <1>2, <1>4, <1>5 DEF KeepsKnown, ListsKnown

\* Every step keeps what is referred to known, and only adds groups and rows.
LEMMA NextKnown ==
    ASSUME TypeInv, KnownInv, ClaimInv, [Next]_vars
    PROVE  KnownInv' /\ Allocated \subseteq Allocated' /\ txns \subseteq txns'
<1>1. CASE UNCHANGED vars
  <2>1. \A q \in Pass : Same(q)
    BY <1>1 DEF vars, locals, Same
  <2>2. TablesKnown' /\ Allocated' = Allocated /\ UNCHANGED txns
    BY <1>1, QuietKnown DEF vars, tables, KnownInv
  <2> QED
    BY <2>1, <2>2, SameKnown DEF KnownInv
<1>2. CASE Feed
  BY <1>2, FeedKnown
<1>3. ASSUME NEW p \in Pass, Step(p) \/ AbortPass(p)
      PROVE  KnownInv' /\ Allocated \subseteq Allocated' /\ txns \subseteq txns'
  <2>1. Load(p) => KeepsKnown(p)
    BY LinkKnown, SnapshotKnown, ListOpenKnown, JoinsKnown DEF Load
  <2>2. Attribute(p) => KeepsKnown(p)
    BY TakeClusterKnown, RouteKnown, JoinsKnown, JobKnown, RefreshKnown, CreateKnown,
       NewGroupKnown, EventsKnown, StampKnown DEF Attribute
  <2>3. Finish(p) \/ AbortPass(p) => KeepsKnown(p)
    BY EventsKnown, StampKnown, ForgetKnown DEF Finish
  <2>4. KeepsKnown(p)
    BY <1>3, <2>1, <2>2, <2>3 DEF Step
  <2>5. \A q \in Pass : q # p => PassKnown(q)' /\ ListsKnown(q)'
    BY <1>3, <2>4, StepFrame, SameKnown DEF KeepsKnown, KnownInv
  <2> QED
    BY <2>4, <2>5 DEF KeepsKnown, KnownInv
<1> QED
  BY <1>1, <1>2, <1>3 DEF Next

\* In the empty ledger nothing is referred to.
LEMMA InitKnown ==
    ASSUME Init
    PROVE  KnownInv
<1>1. /\ \A t \in Txn : txnGroup[t] = NoGroup
      /\ \A o \in Order : orderGroup[o] = NoGroup
      /\ \A i \in Intent : opened[i] = NoGroup
      /\ \A g \in Group : groupRow[g].status = "none"
  BY DEF Init, TablesInit, NoRow
<1>2. Allocated = {}
  BY <1>1 DEF Allocated
<1>3. TablesKnown
  BY <1>1, <1>2 DEF TablesKnown
<1>4. ASSUME NEW p \in Pass
      PROVE  PassKnown(p) /\ ListsKnown(p)
  <2>1. /\ pc[p] = "idle" /\ cand[p] = {} /\ cluster[p] = {} /\ todo[p] = {}
        /\ loading[p] = {} /\ list[p] = <<>> /\ job[p] = NoJob
        /\ intended[p] = [t \in Txn |-> NoGroup]
    BY DEF Init
  <2>2. Listed(p) = {} /\ \A t : ~Waiting(p, t)
    BY <2>1 DEF Listed, Held, Waiting
  <2> QED
    BY <2>1, <2>2 DEF PassKnown, ListsKnown, NoJob
<1> QED
  BY <1>3, <1>4 DEF KnownInv

-----------------------------------------------------------------------------
(* The books of a pass that is alone agree with the table.                 *)

\* A group is being made: allocated, but not yet announced and listed.
Making(p) == pc[p] \in {"createAttach", "createOrders", "createEntry"}

BookAgrees(p) == \A g \in Listed(p) : book[p][g] = Once(GroupTransactions(g))

JobListed(p) ==
    pc[p] \in {"event", "stamp", "refreshRead", "refreshWrite"} =>
        job[p].group \in Listed(p)

\* A group about to be stamped is flat, by the pass's own book.
StampDue(p) ==
    /\ pc[p] = "stamp" => FullyClosed(Support(book[p][job[p].group]))
    /\ pc[p] = "healWrite" => /\ list[p] # <<>>
                              /\ FullyClosed(Support(book[p][Head(list[p])]))

\* The row a pass is about to write back is still the one in the table.
SeenIsCurrent(p) ==
    /\ pc[p] \in {"stamp", "refreshWrite"} => seen[p] = groupRow[job[p].group]
    /\ pc[p] = "healWrite" => seen[p] = groupRow[Head(list[p])]

NewGroupApart(p) ==
    Making(p) => /\ job[p].group \in Group
                 /\ job[p].group \notin Listed(p)
                 /\ GroupTransactions(job[p].group) =
                        IF pc[p] = "createAttach" THEN {} ELSE job[p].rows

Sound(p) ==
    /\ BookAgrees(p) /\ JobListed(p) /\ StampDue(p) /\ SeenIsCurrent(p) /\ NewGroupApart(p)

BooksInv == \A p \in Pass : Alone(p) => Sound(p)

\* The first group of a list that is not empty is on it.
LEMMA HeadListed ==
    ASSUME TypeInv, NEW p \in Pass, list[p] # <<>>
    PROVE  Head(list[p]) \in Listed(p) /\ Head(list[p]) \in Group
<1>1. list[p] \in Seq(Group)
  BY DEF TypeInv, TypeOK
<1>2. Head(list[p]) \in Listed(p)
  BY <1>1, ItemsTail, ListedItems
<1> QED
  BY <1>2, TailType

\* A group has the rows it had while rows keep their groups.
LEMMA SameRows ==
    ASSUME UNCHANGED <<txns, txnGroup>>
    PROVE  \A g : GroupTransactions(g)' = GroupTransactions(g)
  BY DEF GroupTransactions

\* A step into a state where nothing is pending, and the books are those there
\* were or have just been read.
LEMMA PlainBooks ==
    ASSUME NEW p \in Pass, Sound(p), UNCHANGED <<txns, txnGroup>>,
           pc'[p] \notin {"event", "stamp", "refreshRead", "refreshWrite", "healWrite",
                          "createAttach", "createOrders", "createEntry"},
           \A g \in Listed(p)' : \/ g \in Listed(p) /\ book'[p][g] = book[p][g]
                                 \/ book'[p][g] = Once(GroupTransactions(g))
    PROVE  Sound(p)'
<1>1. BookAgrees(p)'
  BY SameRows DEF Sound, BookAgrees
<1> QED
  BY <1>1 DEF Sound, JobListed, StampDue, SeenIsCurrent, NewGroupApart, Making

\* Steps that leave the books alone and end where nothing is pending.
LEMMA PassingBooks ==
    ASSUME TypeInv, KnownInv, NEW p \in Pass, Sound(p),
           \/ BeginPass(p) \/ LinkOrders(p) \/ Snapshot(p)
           \/ TakeCluster(p) \/ Route(p)
           \/ EndClusters(p) \/ LinkRoll(p) \/ StartHeal(p)
    PROVE  Sound(p)'
<1>1. UNCHANGED <<list, book, txns, txnGroup>>
  BY DEF BeginPass, LinkTransactionsToOrders, LinkOrders, LinkOrdersToGroups, Snapshot,
     TakeCluster, Route, EndClusters, LinkRoll, AddExitEvent, StartHeal, tables
<1>2. \E v \in {"linkOrders", "snapshot", "list", "work", "rolls"} :
        pc' = [pc EXCEPT ![p] = v] \/ (pc[p] = v /\ UNCHANGED pc)
  BY DEF BeginPass, LinkOrders, Snapshot, TakeCluster, Route, EndClusters, LinkRoll,
     StartHeal
<1>3. pc'[p] \in {"linkOrders", "snapshot", "list", "work", "rolls"}
  BY <1>2 DEF TypeInv, TypeOK
<1>4. Listed(p)' = Listed(p)
  BY <1>1 DEF Listed
<1> QED
  BY <1>1, <1>3, <1>4, PlainBooks

\* Steps that read or drop books.
LEMMA ReadBooks ==
    ASSUME TypeInv, NEW p \in Pass, Sound(p),
           \/ ListOpen(p) \/ EndPass(p) \/ AbortPass(p)
           \/ \E g \in Group : LoadRows(p, g)
           \/ \E j \in todo[p] : FindGroup(p, j)
    PROVE  Sound(p)'
<1>1. UNCHANGED <<txns, txnGroup>>
  BY DEF ListOpen, EndPass, AbortPass, LoadRows, FindGroup, tables
<1>2. CASE ListOpen(p) \/ EndPass(p) \/ AbortPass(p)
  <2>1. /\ list' = [list EXCEPT ![p] = <<>>]
        /\ \E v \in {"load", "heal", "work", "idle"} : pc' = [pc EXCEPT ![p] = v]
    BY <1>2 DEF ListOpen, EndPass, AbortPass, Forget
  <2>2. list'[p] = <<>> /\ pc'[p] \in {"load", "heal", "work", "idle"}
    BY <2>1 DEF TypeInv, TypeOK
  <2>3. Listed(p)' = {}
    BY <2>2 DEF Listed
  <2> QED
    BY <1>1, <2>2, <2>3, PlainBooks
<1>3. ASSUME NEW g \in Group,
             \/ LoadRows(p, g)
             \/ \E j \in todo[p] : FindGroup(p, j) /\ j.group = g
      PROVE  Sound(p)'
  <2>1. /\ list' = [list EXCEPT ![p] = Append(@, g)]
        /\ book' = [book EXCEPT ![p][g] = Once(GroupTransactions(g))]
        /\ \E v \in {"load", "heal", "work"} :
                pc' = [pc EXCEPT ![p] = v] \/ (pc[p] = v /\ UNCHANGED pc)
    BY <1>3 DEF LoadRows, FindGroup, NextJob
  <2>2. /\ list'[p] = Append(list[p], g) /\ pc'[p] \in {"load", "heal", "work"}
        /\ book'[p] = [book[p] EXCEPT ![g] = Once(GroupTransactions(g))]
        /\ book[p] \in [Group -> Count]
    BY <2>1 DEF TypeInv, TypeOK
  <2>3. Listed(p)' = Listed(p) \cup {g}
    BY <2>2, LongerList
  <2>4. \A h \in Listed(p)' : \/ h \in Listed(p) /\ book'[p][h] = book[p][h]
                              \/ book'[p][h] = Once(GroupTransactions(h))
    <3>1. Listed(p) \subseteq Group
      BY DEF Listed, TypeInv, TypeOK
    <3> QED
      BY <2>2, <2>3, <3>1
  <2> QED
    BY <1>1, <2>2, <2>4, PlainBooks
<1>4. ASSUME NEW j \in todo[p], FindGroup(p, j)
      PROVE  j.group \in Group
  BY <1>4 DEF FindGroup, TypeInv, JobsNameGroups
<1> QED
  BY <1>2, <1>3, <1>4

\* A set of rows summed once.
LEMMA OnceOfSets ==
    /\ \A S \in SUBSET Txn : Support(Once(S)) = S
    /\ \A S, T \in SUBSET Txn : ExtendUnique(Once(S), T) = Once(S \cup T)
    /\ \A S, T \in SUBSET Txn : S \cap T = {} => {t \in T : Once(S)[t] = 0} = T
<1>1. \A S \in SUBSET Txn : \A t \in Txn : Once(S)[t] = IF t \in S THEN 1 ELSE 0
  BY DEF Once
<1>2. \A S, T \in SUBSET Txn : ExtendUnique(Once(S), T) = Once(S \cup T)
  BY DEF Once, ExtendUnique
<1>3. \A S, T \in SUBSET Txn : S \cap T = {} => {t \in T : Once(S)[t] = 0} = T
  BY <1>1
<1> QED
  BY <1>1, <1>2, <1>3 DEF Support

\* A pass that is alone gives its group exactly the rows it waited with.
LEMMA AttachRows ==
    ASSUME TypeInv, KnownInv, ClaimInv, NEW p \in Pass, Alone(p),
           NEW S \in SUBSET Txn, \A t \in S : Waiting(p, t),
           NEW g \in Group, AttachTransactions(S, g)
    PROVE  /\ \A h \in Group : GroupTransactions(h)' =
                    IF h = g THEN GroupTransactions(h) \cup S ELSE GroupTransactions(h)
           /\ S \cap GroupTransactions(g) = {}
<1>1. \A t \in S : txnGroup[t] = NoGroup /\ t \in txns
  BY DEF ClaimInv, Unclaimed, KnownInv, PassKnown
<1>2. /\ UNCHANGED txns
      /\ \A t \in Txn : txnGroup'[t] = IF t \in S THEN g ELSE txnGroup[t]
  BY DEF AttachTransactions
<1>3. txns \subseteq Txn /\ NoGroup \notin Group
  BY RoutingAssumption DEF TypeInv, TypeOK, TablesType
<1>4. S \cap GroupTransactions(g) = {}
  BY <1>1, <1>3 DEF GroupTransactions
<1>5. ASSUME NEW h \in Group
      PROVE  GroupTransactions(h)' =
                IF h = g THEN GroupTransactions(h) \cup S ELSE GroupTransactions(h)
  BY <1>1, <1>2, <1>3 DEF GroupTransactions
<1> QED
  BY <1>4, <1>5

\* Fills and exits of a pass that is alone: the book takes what the table takes.
LEMMA JobBooks ==
    ASSUME TypeInv, KnownInv, ClaimInv, NEW p \in Pass, Alone(p), Sound(p),
           NEW j \in todo[p], AttachFills(p, j) \/ ExitAttach(p, j)
    PROVE  Sound(p)'
<1> DEFINE g == j.group
           new == {t \in j.rows : book[p][g][t] = 0}
<1>1. /\ pc[p] = "work" /\ g \in Listed(p) /\ AttachTransactions(j.rows, g)
  BY DEF AttachFills, ExitAttach, NextJob
<1>2. j.rows \in SUBSET Txn /\ g \in Group /\ Listed(p) \subseteq Group
  BY <1>1, NextJobType DEF Listed, TypeInv, TypeOK
<1>3. book[p][g] = Once(GroupTransactions(g)) /\ GroupTransactions(g) \in SUBSET Txn
  BY <1>1 DEF Sound, BookAgrees, GroupTransactions, TypeInv, TypeOK, TablesType
<1>4. /\ \A h \in Group : GroupTransactions(h)' =
            IF h = g THEN GroupTransactions(h) \cup j.rows ELSE GroupTransactions(h)
      /\ j.rows \cap GroupTransactions(g) = {}
  BY <1>1, <1>2, AttachRows DEF Waiting
<1>5. new = j.rows
  BY <1>2, <1>3, <1>4, OnceOfSets
<1>6. ExtendUnique(book[p][g], j.rows) = Once(GroupTransactions(g) \cup j.rows)
  BY <1>2, <1>3, OnceOfSets
<1>7. \/ /\ book' = [book EXCEPT ![p][g] = ExtendUnique(@, j.rows)]
         /\ UNCHANGED list
         /\ \E v \in {"refreshRead", "event"} : pc' = [pc EXCEPT ![p] = v]
         /\ job' = [job EXCEPT ![p] = j] \/
            \E to : job' = [job EXCEPT ![p] = [j EXCEPT !.rows = j.rows, !.to = to]]
      \/ /\ j.rows = {} /\ UNCHANGED <<pc, book>>
         /\ UNCHANGED list \/ list' = [list EXCEPT ![p] = Without(@, g)]
  <2>1. CASE AttachFills(p, j)
    BY <2>1 DEF AttachFills
  <2>2. CASE ExitAttach(p, j) /\ new = {}
    <3>1. /\ list' = [list EXCEPT ![p] = IF FullyClosed(Support(book[p][g]))
                                         THEN Without(@, g) ELSE @]
          /\ UNCHANGED <<pc, book>>
      BY <2>2 DEF ExitAttach
    <3>2. list = [list EXCEPT ![p] = list[p]]
      BY DEF TypeInv, TypeOK
    <3> QED
      BY <1>5, <2>2, <3>1, <3>2
  <2>3. CASE ExitAttach(p, j) /\ new # {}
    <3>1. /\ book' = [book EXCEPT ![p][g] = ExtendUnique(@, new)]
          /\ UNCHANGED list /\ pc' = [pc EXCEPT ![p] = "event"]
          /\ job' = [job EXCEPT ![p] = [j EXCEPT !.rows = new, !.to = RolledTo(p, j.rows)]]
      BY <2>3 DEF ExitAttach
    <3> QED
      BY <1>5, <3>1
  <2> QED
    BY <2>1, <2>2, <2>3
<1> HIDE DEF g, new
<1>8. CASE /\ book' = [book EXCEPT ![p][g] = ExtendUnique(@, j.rows)]
           /\ UNCHANGED list
           /\ \E v \in {"refreshRead", "event"} : pc' = [pc EXCEPT ![p] = v]
           /\ job' = [job EXCEPT ![p] = j] \/
              \E to : job' = [job EXCEPT ![p] = [j EXCEPT !.rows = j.rows, !.to = to]]
  <2>1. Listed(p)' = Listed(p)
    BY <1>8 DEF Listed
  <2>2. /\ pc'[p] \in {"refreshRead", "event"}
        /\ book'[p] = [book[p] EXCEPT ![g] = ExtendUnique(book[p][g], j.rows)]
        /\ book[p] \in [Group -> Count]
    BY <1>8 DEF TypeInv, TypeOK
  <2>3. job'[p].group = g
    <3>1. \A x : job' = [job EXCEPT ![p] = x] => job'[p] = x
      BY DEF TypeInv, TypeOK
    <3>2. \A to : [j EXCEPT !.rows = j.rows, !.to = to].group = g
      BY NextJobType DEF Job, g
    <3> QED
      BY <1>8, <3>1, <3>2 DEF g
  <2>4. BookAgrees(p)'
    <3>1. ASSUME NEW h \in Listed(p)
          PROVE  book'[p][h] = Once(GroupTransactions(h)')
      BY <1>2, <1>3, <1>4, <1>6, <2>2 DEF Sound, BookAgrees
    <3> QED
      BY <2>1, <3>1 DEF BookAgrees
  <2>5. JobListed(p)'
    BY <1>1, <2>1, <2>3 DEF JobListed
  <2> QED
    BY <2>2, <2>4, <2>5 DEF Sound, StampDue, SeenIsCurrent, NewGroupApart, Making
<1>9. CASE /\ j.rows = {} /\ UNCHANGED <<pc, book>>
           /\ UNCHANGED list \/ list' = [list EXCEPT ![p] = Without(@, g)]
  <2>1. Listed(p)' \subseteq Listed(p)
    BY <1>2, <1>9, ShorterList
  <2>2. \A h \in Group : GroupTransactions(h)' = GroupTransactions(h)
    BY <1>4, <1>9
  <2>3. BookAgrees(p)'
    BY <1>2, <1>9, <2>1, <2>2 DEF Sound, BookAgrees
  <2>4. pc'[p] = "work"
    BY <1>1, <1>9
  <2> QED
    BY <2>3, <2>4 DEF Sound, JobListed, StampDue, SeenIsCurrent, NewGroupApart, Making
<1> QED
  BY <1>7, <1>8, <1>9

\* The row of the group that took the fills is read, and the group refreshed.
LEMMA RefreshBooks ==
    ASSUME TypeInv, NEW p \in Pass, Sound(p), RefreshRead(p) \/ RefreshWrite(p)
    PROVE  Sound(p)'
<1>1. UNCHANGED <<list, book, txns, txnGroup>>
  BY DEF RefreshRead, RefreshWrite, UpsertTradeGroup, tables
<1>2. Listed(p)' = Listed(p)
  BY <1>1 DEF Listed
<1>3. CASE RefreshRead(p)
  <2>1. /\ pc[p] = "refreshRead" /\ pc' = [pc EXCEPT ![p] = "refreshWrite"]
        /\ seen' = [seen EXCEPT ![p] = groupRow[job[p].group]]
        /\ UNCHANGED <<job, groupRow>>
    BY <1>3 DEF RefreshRead, tables
  <2>2. pc'[p] = "refreshWrite" /\ seen'[p] = groupRow[job[p].group]
    BY <2>1 DEF TypeInv, TypeOK
  <2>3. BookAgrees(p)'
    BY <1>1, <1>2, SameRows DEF Sound, BookAgrees
  <2>4. JobListed(p)'
    BY <1>2, <2>1 DEF Sound, JobListed
  <2> QED
    BY <2>1, <2>2, <2>3, <2>4 DEF Sound, StampDue, SeenIsCurrent, NewGroupApart, Making
<1>4. CASE RefreshWrite(p)
  <2>1. pc' = [pc EXCEPT ![p] = "work"]
    BY <1>4 DEF RefreshWrite
  <2>2. pc'[p] = "work"
    BY <2>1 DEF TypeInv, TypeOK
  <2> QED
    BY <1>1, <1>2, <2>2, PlainBooks
<1> QED
  BY <1>3, <1>4

\* A new group has no rows, then those of its job, and then it is listed.
LEMMA NewGroupBooks ==
    ASSUME TypeInv, KnownInv, ClaimInv, NEW p \in Pass, Alone(p), Sound(p),
           \/ \E j \in todo[p], g \in Group : Create(p, j, g)
           \/ CreateAttach(p) \/ CreateOrders(p) \/ CreateEntry(p)
    PROVE  Sound(p)'
<1>1. ASSUME NEW j \in todo[p], NEW g \in Group, Create(p, j, g)
      PROVE  Sound(p)'
  <2>1. /\ FreeGroup(g) /\ UNCHANGED <<txns, txnGroup, list, book>>
        /\ job' = [job EXCEPT ![p] = [j EXCEPT !.group = g]]
        /\ pc' = [pc EXCEPT ![p] = "createAttach"]
    BY <1>1 DEF Create, UpsertTradeGroup
  <2>2. pc'[p] = "createAttach" /\ job'[p].group = g
    <3>1. [j EXCEPT !.group = g].group = g
      BY NextJobType DEF Job
    <3> QED
      BY <2>1, <3>1 DEF TypeInv, TypeOK
  <2>3. Listed(p)' = Listed(p)
    BY <2>1 DEF Listed
  <2>4. g \notin Allocated
    BY <2>1 DEF FreeGroup, Allocated
  <2>5. g \notin Listed(p)
    BY <2>4 DEF KnownInv, PassKnown
  <2>6. GroupTransactions(g) = {}
    BY <2>4, RoutingAssumption DEF GroupTransactions, KnownInv, TablesKnown, TypeInv, TypeOK,
       TablesType
  <2>7. BookAgrees(p)'
    BY <2>1, <2>3, SameRows DEF Sound, BookAgrees
  <2>8. NewGroupApart(p)'
    BY <2>1, <2>2, <2>3, <2>5, <2>6, SameRows DEF NewGroupApart
  <2> QED
    BY <2>2, <2>7, <2>8 DEF Sound, JobListed, StampDue, SeenIsCurrent
<1>2. CASE CreateAttach(p)
  <2> DEFINE g == job[p].group
  <2>1. /\ pc[p] = "createAttach" /\ AttachTransactions(job[p].rows, g)
        /\ UNCHANGED <<list, book, job>>
        /\ pc' = [pc EXCEPT ![p] = "createOrders"]
    BY <1>2 DEF CreateAttach
  <2>2. pc'[p] = "createOrders"
    BY <2>1 DEF TypeInv, TypeOK
  <2>3. g \in Group /\ g \notin Listed(p) /\ GroupTransactions(g) = {}
    BY <2>1 DEF Sound, NewGroupApart, Making
  <2>4. job[p].rows \in SUBSET Txn /\ Listed(p) \subseteq Group
    BY DEF TypeInv, TypeOK, Job, Listed
  <2>5. \A t \in job[p].rows : Waiting(p, t)
    BY <2>1 DEF Waiting, Held
  <2> HIDE DEF g
  <2>6. \A h \in Group : GroupTransactions(h)' =
            IF h = g THEN GroupTransactions(h) \cup job[p].rows ELSE GroupTransactions(h)
    BY <2>1, <2>3, <2>4, <2>5, AttachRows
  <2>7. Listed(p)' = Listed(p)
    BY <2>1 DEF Listed
  <2>8. BookAgrees(p)'
    BY <2>1, <2>3, <2>4, <2>6, <2>7 DEF Sound, BookAgrees
  <2>9. NewGroupApart(p)'
    BY <2>1, <2>2, <2>3, <2>6, <2>7 DEF NewGroupApart, g
  <2> QED
    BY <2>2, <2>8, <2>9 DEF Sound, JobListed, StampDue, SeenIsCurrent
<1>3. CASE CreateOrders(p)
  <2>1. /\ pc[p] = "createOrders" /\ UNCHANGED <<list, book, job, txns, txnGroup>>
        /\ pc' = [pc EXCEPT ![p] = "createEntry"]
    BY <1>3 DEF CreateOrders, UpsertOrders
  <2>2. pc'[p] = "createEntry"
    BY <2>1 DEF TypeInv, TypeOK
  <2>3. Listed(p)' = Listed(p)
    BY <2>1 DEF Listed
  <2>4. BookAgrees(p)'
    BY <2>1, <2>3, SameRows DEF Sound, BookAgrees
  <2>5. NewGroupApart(p)'
    BY <2>1, <2>2, <2>3, SameRows DEF Sound, NewGroupApart, Making
  <2> QED
    BY <2>2, <2>4, <2>5 DEF Sound, JobListed, StampDue, SeenIsCurrent
<1>4. CASE CreateEntry(p)
  <2>1. PICK g \in Group :
            /\ g = job[p].group /\ AddEntryEvent(g)
            /\ book' = [book EXCEPT ![p][g] = Once(job[p].rows)]
            /\ list' = [list EXCEPT ![p] = Append(@, g)]
    BY <1>4 DEF CreateEntry
  <2>2. pc[p] = "createEntry" /\ pc' = [pc EXCEPT ![p] = "work"]
    BY <1>4 DEF CreateEntry
  <2>3. /\ pc'[p] = "work" /\ list'[p] = Append(list[p], g)
        /\ book'[p] = [book[p] EXCEPT ![g] = Once(job[p].rows)]
        /\ book[p] \in [Group -> Count] /\ Listed(p) \subseteq Group
    BY <2>1, <2>2 DEF TypeInv, TypeOK, Listed
  <2>4. GroupTransactions(g) = job[p].rows
    BY <2>1, <2>2 DEF Sound, NewGroupApart, Making
  <2>5. Listed(p)' = Listed(p) \cup {g}
    BY <2>3, LongerList
  <2>6. UNCHANGED <<txns, txnGroup>>
    BY <2>1 DEF AddEntryEvent
  <2>7. \A h \in Listed(p)' : \/ h \in Listed(p) /\ book'[p][h] = book[p][h]
                              \/ book'[p][h] = Once(GroupTransactions(h))
    BY <2>3, <2>4, <2>5
  <2> QED
    BY <2>3, <2>6, <2>7, PlainBooks
<1> QED
  BY <1>1, <1>2, <1>3, <1>4

\* After its last event a flat group is stamped; the stamped group leaves the list.
LEMMA ExitBooks ==
    ASSUME TypeInv, NEW p \in Pass, Sound(p),
           (\E e \in pending[p] : EmitEvent(p, e)) \/ Stamp(p)
    PROVE  Sound(p)'
<1>1. ASSUME NEW e \in pending[p], EmitEvent(p, e)
      PROVE  Sound(p)'
  <2>1. PICK g \in Group :
            /\ g = job[p].group /\ AddExitEvent(g, e.rows, e.to)
            /\ \/ UNCHANGED <<pc, job>>
               \/ /\ FullyClosed(Support(book[p][g])) /\ UNCHANGED job
                  /\ seen' = [seen EXCEPT ![p] = groupRow[g]]
                  /\ pc' = [pc EXCEPT ![p] = "stamp"]
               \/ pc' = [pc EXCEPT ![p] = "work"]
    BY <1>1 DEF EmitEvent
  <2>2. /\ pc[p] = "event" /\ UNCHANGED <<list, book, txns, txnGroup, groupRow>>
    BY <1>1, <2>1 DEF EmitEvent, AddExitEvent
  <2>3. \/ pc'[p] = "event" /\ UNCHANGED job
        \/ /\ FullyClosed(Support(book[p][g])) /\ UNCHANGED job
           /\ seen'[p] = groupRow[g] /\ pc'[p] = "stamp"
        \/ pc'[p] = "work"
    BY <2>1, <2>2 DEF TypeInv, TypeOK
  <2>4. Listed(p)' = Listed(p)
    BY <2>2 DEF Listed
  <2>5. BookAgrees(p)'
    BY <2>2, <2>4, SameRows DEF Sound, BookAgrees
  <2>6. JobListed(p)'
    BY <2>2, <2>3, <2>4 DEF Sound, JobListed
  <2>7. StampDue(p)' /\ SeenIsCurrent(p)' /\ NewGroupApart(p)'
    BY <2>1, <2>2, <2>3 DEF StampDue, SeenIsCurrent, NewGroupApart, Making
  <2> QED
    BY <2>5, <2>6, <2>7 DEF Sound
<1>2. CASE Stamp(p)
  <2>1. PICK g \in Group : /\ UpsertTradeGroup(g, Stamped(seen[p], book[p][g]))
                           /\ list' = [list EXCEPT ![p] = Without(@, g)]
    BY <1>2 DEF Stamp
  <2>2. UNCHANGED <<book, txns, txnGroup>> /\ pc' = [pc EXCEPT ![p] = "work"]
    BY <1>2, <2>1 DEF Stamp, UpsertTradeGroup
  <2>3. pc'[p] = "work"
    BY <2>2 DEF TypeInv, TypeOK
  <2>4. Listed(p)' \subseteq Listed(p)
    BY <2>1, ShorterList
  <2> QED
    BY <2>2, <2>3, <2>4, PlainBooks
<1> QED
  BY <1>1, <1>2

\* The heal looks at one group after another.
LEMMA HealBooks ==
    ASSUME TypeInv, NEW p \in Pass, Sound(p), HealRead(p) \/ HealWrite(p)
    PROVE  Sound(p)'
<1>1. UNCHANGED <<book, txns, txnGroup>>
  BY DEF HealRead, HealWrite, UpsertTradeGroup, tables
<1>2. CASE HealRead(p)
  <2>1. PICK g \in Group :
            /\ g = Head(list[p]) /\ UNCHANGED groupRow
            /\ \/ /\ FullyClosed(Support(book[p][g]))
                  /\ seen' = [seen EXCEPT ![p] = groupRow[g]]
                  /\ pc' = [pc EXCEPT ![p] = "healWrite"]
                  /\ UNCHANGED list
               \/ /\ list' = [list EXCEPT ![p] = Tail(@)]
                  /\ UNCHANGED pc
    BY <1>2 DEF HealRead, tables
  <2>2. pc[p] = "heal" /\ list[p] # <<>>
    BY <1>2 DEF HealRead
  <2>3. Listed(p)' \subseteq Listed(p)
    BY <2>1, <2>2, ShorterList
  <2>4. CASE UNCHANGED pc
    <3>1. pc'[p] = "heal"
      BY <2>2, <2>4
    <3> QED
      BY <1>1, <2>3, <3>1, PlainBooks
  <2>5. CASE /\ FullyClosed(Support(book[p][g]))
             /\ seen' = [seen EXCEPT ![p] = groupRow[g]]
             /\ pc' = [pc EXCEPT ![p] = "healWrite"]
             /\ UNCHANGED list
    <3>1. pc'[p] = "healWrite" /\ seen'[p] = groupRow[g]
      BY <2>5 DEF TypeInv, TypeOK
    <3>2. BookAgrees(p)'
      BY <1>1, <2>3, SameRows DEF Sound, BookAgrees
    <3>3. StampDue(p)' /\ SeenIsCurrent(p)'
      BY <1>1, <2>1, <2>2, <2>5, <3>1 DEF StampDue, SeenIsCurrent
    <3> QED
      BY <3>1, <3>2, <3>3 DEF Sound, JobListed, NewGroupApart, Making
  <2> QED
    BY <2>1, <2>4, <2>5
<1>3. CASE HealWrite(p)
  <2>1. /\ list[p] # <<>> /\ list' = [list EXCEPT ![p] = Tail(@)]
        /\ pc' = [pc EXCEPT ![p] = "heal"]
    BY <1>3 DEF HealWrite
  <2>2. pc'[p] = "heal"
    BY <2>1 DEF TypeInv, TypeOK
  <2>3. Listed(p)' \subseteq Listed(p)
    BY <2>1, ShorterList
  <2> QED
    BY <1>1, <2>2, <2>3, PlainBooks
<1> QED
  BY <1>2, <1>3

\* An idle pass has no books.
LEMMA IdleSound ==
    ASSUME NEW q \in Pass
    PROVE  /\ KnownInv /\ pc[q] = "idle" => Sound(q)
           /\ KnownInv' /\ pc'[q] = "idle" => Sound(q)'
<1>1. KnownInv /\ pc[q] = "idle" => Listed(q) = {}
  BY DEF KnownInv, ListsKnown, Listed
<1>2. KnownInv' /\ pc'[q] = "idle" => Listed(q)' = {}
  BY DEF KnownInv, ListsKnown, Listed
<1>3. KnownInv /\ pc[q] = "idle" => Sound(q)
  BY <1>1 DEF Sound, BookAgrees, JobListed, StampDue, SeenIsCurrent, NewGroupApart, Making
<1>4. KnownInv' /\ pc'[q] = "idle" => Sound(q)'
  BY <1>2 DEF Sound, BookAgrees, JobListed, StampDue, SeenIsCurrent, NewGroupApart, Making
<1> QED
  BY <1>3, <1>4

\* An idle pass can only begin.
LEMMA IdleBegins ==
    ASSUME NEW p \in Pass, Step(p) \/ AbortPass(p), pc[p] = "idle"
    PROVE  BeginPass(p)
  BY DEF Step, Load, LinkOrders, Snapshot, ListOpen, LoadRows, Attribute, TakeCluster,
     FindGroup, NextJob, Route, AttachFills, ExitAttach, RefreshRead, RefreshWrite, Create,
     CreateAttach, CreateOrders, CreateEntry, EmitEvent, Stamp, Finish, EndClusters,
     LinkRoll, StartHeal, HealRead, HealWrite, EndPass, AbortPass

\* While one pass takes a step, another that is alone is idle.
LEMMA OthersAreIdle ==
    ASSUME TypeInv, ClaimInv, NEW p \in Pass, Step(p) \/ AbortPass(p),
           NEW q \in Pass, q # p, Alone(q)'
    PROVE  pc'[q] = "idle"
<1>1. CASE pc[p] = "idle"
  <2>1. BeginPass(p)
    BY <1>1, IdleBegins
  <2>2. ~lone'[q]
    BY <2>1 DEF BeginPass
  <2> QED
    BY <2>2 DEF Alone
<1>2. CASE pc[p] # "idle"
  <2>1. Alone(q)
    BY <1>2, StepFrame DEF Alone
  <2> QED
    BY <1>2, <2>1, OthersIdle, StepFrame DEF Same
<1> QED
  BY <1>1, <1>2

\* What the feed leaves alone: the rows of every group and the rows of groups that
\* exist, the locals of every pass, and who is not alone.
LEMMA FeedLeaves ==
    ASSUME TypeInv, KnownInv, ClaimInv, Feed
    PROVE  /\ \A g \in Group : GroupTransactions(g)' = GroupTransactions(g)
           /\ \A g \in Allocated : groupRow'[g] = groupRow[g]
           /\ \A q \in Pass : Same(q) /\ lone'[q] = lone[q]
<1>1. UNCHANGED txnGroup
  BY FeedClaims
<1>2. UNCHANGED txns \/ \E t \in Txn : txns' = txns \cup {t}
  BY DEF Feed, FeedTransaction, FeedOrder, FeedTradeGroup, FeedRecordOrder,
     SyncTransaction, UpsertTransaction, SyncOrder, RecordOrder, UpsertOrders,
     OpenTradeGroup
<1>3. \A g \in Group : GroupTransactions(g)' = GroupTransactions(g)
  BY <1>1, <1>2, RoutingAssumption DEF GroupTransactions, KnownInv, TablesKnown
<1>4. \A g \in Allocated : groupRow'[g] = groupRow[g]
  BY DEF Feed, FeedTransaction, FeedOrder, FeedTradeGroup, FeedRecordOrder,
     SyncTransaction, UpsertTransaction, SyncOrder, RecordOrder, UpsertOrders,
     OpenTradeGroup, FreeGroup, Allocated, TypeInv, TypeOK, TablesType
<1>5. \A q \in Pass : Same(q)
  BY DEF Feed, FeedTransaction, FeedOrder, FeedTradeGroup, FeedRecordOrder, locals, Same
<1>6. UNCHANGED lone
  BY DEF Feed, FeedTransaction, FeedOrder, FeedTradeGroup, FeedRecordOrder
<1> QED
  BY <1>3, <1>4, <1>5, <1>6

\* So the books still agree.
LEMMA FeedBooks ==
    ASSUME TypeInv, KnownInv, ClaimInv, BooksInv, Feed
    PROVE  BooksInv'
<1> SUFFICES ASSUME NEW q \in Pass, Alone(q)'
             PROVE  Sound(q)'
  BY DEF BooksInv
<1>1. Same(q) /\ Sound(q)
  BY FeedLeaves DEF Alone, BooksInv
<1>2. Listed(q)' = Listed(q) /\ Listed(q) \subseteq Group
  BY <1>1 DEF Same, Listed, TypeInv, TypeOK
<1>3. BookAgrees(q)'
  BY <1>1, <1>2, FeedLeaves DEF Same, Sound, BookAgrees
<1>4. JobListed(q)' /\ StampDue(q)'
  BY <1>1, <1>2 DEF Same, Sound, JobListed, StampDue
<1>5. SeenIsCurrent(q)'
  <2>1. pc[q] \in {"stamp", "refreshWrite"} => job[q].group \in Allocated
    BY <1>1 DEF Sound, JobListed, KnownInv, PassKnown
  <2>2. pc[q] = "healWrite" => Head(list[q]) \in Allocated
    BY <1>1, HeadListed DEF Sound, StampDue, KnownInv, PassKnown
  <2> QED
    BY <1>1, <2>1, <2>2, FeedLeaves DEF Same, Sound, SeenIsCurrent
<1>6. NewGroupApart(q)'
  BY <1>1, <1>2, FeedLeaves DEF Same, Sound, NewGroupApart, Making
<1> QED
  BY <1>3, <1>4, <1>5, <1>6 DEF Sound

\* Every step keeps the books of a pass that is alone in agreement with the table.
LEMMA NextBooks ==
    ASSUME TypeInv, KnownInv, KnownInv', ClaimInv, BooksInv, [Next]_vars
    PROVE  BooksInv'
<1>1. CASE UNCHANGED vars
  <2>1. \A q \in Pass : Sound(q)' = Sound(q) /\ Alone(q)' = Alone(q)
    BY <1>1 DEF vars, locals, tables, Sound, BookAgrees, JobListed, StampDue,
       SeenIsCurrent, NewGroupApart, Making, Listed, GroupTransactions, Alone
  <2> QED
    BY <2>1 DEF BooksInv
<1>2. CASE Feed
  BY <1>2, FeedBooks
<1>3. ASSUME NEW p \in Pass, Step(p) \/ AbortPass(p)
      PROVE  BooksInv'
  <2>1. \A q \in Pass : q # p /\ Alone(q)' => Sound(q)'
    BY <1>3, OthersAreIdle, IdleSound
  <2>2. ASSUME Alone(p)'
        PROVE  Sound(p)'
    <3>1. CASE pc[p] = "idle"
      BY <1>3, <3>1, IdleBegins, IdleSound, PassingBooks
    <3>2. CASE pc[p] # "idle"
      <4>1. Alone(p) /\ Sound(p)
        BY <1>3, <2>2, <3>2, StillAlone DEF BooksInv
      <4>2. Load(p) => Sound(p)'
        BY <4>1, PassingBooks, ReadBooks DEF Load
      <4>3. Attribute(p) => Sound(p)'
        BY <4>1, PassingBooks, ReadBooks, JobBooks, NewGroupBooks, RefreshBooks, ExitBooks
           DEF Attribute
      <4>4. Finish(p) \/ AbortPass(p) => Sound(p)'
        BY <4>1, PassingBooks, ReadBooks, HealBooks DEF Finish
      <4> QED
        BY <1>3, <4>2, <4>3, <4>4 DEF Step
    <3> QED
      BY <3>1, <3>2
  <2> QED
    BY <2>1, <2>2 DEF BooksInv
<1> QED
  BY <1>1, <1>2, <1>3 DEF Next

-----------------------------------------------------------------------------
(* What happens to a group's row.                                          *)

\* A group is created, by a pass or by the host.
Born(g) ==
    \/ \E p \in Pass : \E j \in todo[p] : Create(p, j, g)
    \/ \E i \in Intent : FeedTradeGroup(i, g)

\* The row of a group is left alone, created, refreshed with the status it has, or
\* stamped with the rows the group has, which net out.
RowMove(g) ==
    \/ groupRow'[g] = groupRow[g]
    \/ groupRow[g].status = "none" /\ Born(g)
    \/ /\ groupRow'[g].status = groupRow[g].status
       /\ groupRow'[g].manual = groupRow[g].manual
    \/ /\ groupRow[g].status # "none"
       /\ FullyClosed(GroupTransactions(g))
       /\ groupRow'[g] = Stamped(groupRow[g], Once(GroupTransactions(g)))

\* That holds of every step while the pass that takes it is alone.
LEMMA RowMoves ==
    ASSUME TypeInv, KnownInv, ClaimInv, BooksInv, [Next]_vars,
           NEW g \in Group
    PROVE  RowMove(g) \/ \E p \in Pass : ~Alone(p) /\ Step(p)
<1>1. UNCHANGED groupRow => RowMove(g)
  BY DEF RowMove
<1>2. ASSUME Feed
      PROVE  RowMove(g)
  <2>1. \/ UNCHANGED groupRow
        \/ \E i \in Intent, h \in Group : FeedTradeGroup(i, h)
    BY <1>2 DEF Feed, FeedTransaction, FeedOrder, FeedRecordOrder, SyncTransaction,
       UpsertTransaction, SyncOrder, RecordOrder, UpsertOrders
  <2>2. ASSUME NEW i \in Intent, NEW h \in Group, FeedTradeGroup(i, h)
        PROVE  RowMove(g)
    <3>1. FreeGroup(h) /\ \E row : groupRow' = [groupRow EXCEPT ![h] = row]
      BY <2>2 DEF FeedTradeGroup, OpenTradeGroup
    <3> QED
      BY <2>2, <3>1 DEF RowMove, Born, FreeGroup, TypeInv, TypeOK, TablesType
  <2> QED
    BY <1>1, <2>1, <2>2
<1>3. ASSUME NEW p \in Pass, NEW j \in todo[p], NEW h \in Group, Create(p, j, h)
      PROVE  RowMove(g)
  <2>1. FreeGroup(h) /\ \E row : groupRow' = [groupRow EXCEPT ![h] = row]
    BY <1>3 DEF Create, UpsertTradeGroup
  <2> QED
    BY <1>3, <2>1 DEF RowMove, Born, FreeGroup, TypeInv, TypeOK, TablesType
<1>4. ASSUME NEW p \in Pass, Alone(p), RefreshWrite(p)
      PROVE  RowMove(g)
  <2>1. PICK h \in Group :
            /\ h = job[p].group
            /\ UpsertTradeGroup(h, [seen[p] EXCEPT !.premium = book[p][h],
                                                   !.fees    = book[p][h]])
    BY <1>4 DEF RefreshWrite
  <2> DEFINE row == [seen[p] EXCEPT !.premium = book[p][h], !.fees = book[p][h]]
  <2>2. row.status = seen[p].status /\ row.manual = seen[p].manual
    <3>1. seen[p] \in GroupRowType
      BY DEF TypeInv, TypeOK
    <3> QED
      BY <3>1 DEF GroupRowType
  <2>3. seen[p] = groupRow[h]
    BY <1>4, <2>1 DEF BooksInv, Sound, SeenIsCurrent, RefreshWrite
  <2>4. groupRow' = [groupRow EXCEPT ![h] = row]
    BY <2>1 DEF UpsertTradeGroup
  <2> HIDE DEF row
  <2> QED
    BY <2>2, <2>3, <2>4 DEF RowMove, TypeInv, TypeOK, TablesType
<1>5. ASSUME NEW p \in Pass, Alone(p), Stamp(p) \/ HealWrite(p)
      PROVE  RowMove(g)
  <2>1. Sound(p)
    BY <1>5 DEF BooksInv
  <2>2. PICK h \in Group :
            /\ UpsertTradeGroup(h, Stamped(seen[p], book[p][h]))
            /\ \/ pc[p] = "stamp" /\ h = job[p].group
               \/ pc[p] = "healWrite" /\ list[p] # <<>> /\ h = Head(list[p])
    BY <1>5 DEF Stamp, HealWrite
  <2>3. h \in Listed(p)
    BY <2>1, <2>2, HeadListed DEF Sound, JobListed
  <2>4. book[p][h] = Once(GroupTransactions(h)) /\ seen[p] = groupRow[h]
    BY <2>1, <2>2, <2>3 DEF Sound, BookAgrees, SeenIsCurrent
  <2>5. FullyClosed(Support(book[p][h]))
    BY <2>1, <2>2 DEF Sound, StampDue
  <2>6. Support(book[p][h]) = GroupTransactions(h)
    <3>1. GroupTransactions(h) \in SUBSET Txn
      BY DEF GroupTransactions, TypeInv, TypeOK, TablesType
    <3> QED
      BY <2>4, <3>1, OnceOfSets
  <2>7. groupRow' = [groupRow EXCEPT ![h] = Stamped(groupRow[h], Once(GroupTransactions(h)))]
    BY <2>2, <2>4 DEF UpsertTradeGroup
  <2>8. groupRow[h].status # "none"
    BY <2>3 DEF KnownInv, PassKnown, Allocated
  <2> QED
    BY <2>5, <2>6, <2>7, <2>8 DEF RowMove, TypeInv, TypeOK, TablesType
<1>6. ASSUME NEW p \in Pass, Load(p) \/ Finish(p)
      PROVE  UNCHANGED groupRow \/ HealWrite(p)
  BY <1>6 DEF Load, BeginPass, LinkTransactionsToOrders, LinkOrders, LinkOrdersToGroups,
     Snapshot, ListOpen, LoadRows, Finish, EndClusters, LinkRoll, AddExitEvent, StartHeal,
     HealRead, EndPass, tables
<1>7. ASSUME NEW p \in Pass, Attribute(p)
      PROVE  UNCHANGED groupRow \/ RefreshWrite(p) \/ Stamp(p)
             \/ \E j \in todo[p], h \in Group : Create(p, j, h)
  BY <1>7 DEF Attribute, TakeCluster, Route, FindGroup, AttachFills, ExitAttach,
     AttachTransactions, RefreshRead, CreateAttach, CreateOrders, UpsertOrders,
     CreateEntry, AddEntryEvent, EmitEvent, AddExitEvent, tables
<1>8. UNCHANGED vars => UNCHANGED groupRow
  BY DEF vars, tables
<1>9. ASSUME NEW p \in Pass, Step(p) \/ AbortPass(p)
      PROVE  RowMove(g) \/ (~Alone(p) /\ Step(p))
  <2>1. CASE AbortPass(p)
    BY <1>1, <2>1 DEF AbortPass, tables
  <2>2. CASE Step(p) /\ Alone(p)
    <3>1. \/ UNCHANGED groupRow \/ HealWrite(p) \/ RefreshWrite(p) \/ Stamp(p)
          \/ \E j \in todo[p], h \in Group : Create(p, j, h)
      BY <1>6, <1>7, <2>2 DEF Step
    <3> QED
      BY <1>1, <1>3, <1>4, <1>5, <2>2, <3>1
  <2> QED
    BY <1>9, <2>1, <2>2
<1> QED
  BY <1>1, <1>2, <1>8, <1>9 DEF Next

-----------------------------------------------------------------------------
(* Passes that nobody overlaps.                                            *)

GroupInv == TypeInv /\ ClaimInv /\ KnownInv /\ BooksInv

\* The empty ledger satisfies all of it.
LEMMA InitGroups ==
    ASSUME Init
    PROVE  GroupInv
<1>1. \A p \in Pass : pc[p] = "idle"
  BY DEF Init
<1> QED
  BY <1>1, InitType, InitClaims, InitKnown, IdleSound DEF GroupInv, BooksInv

\* Every step keeps it.
LEMMA NextGroups ==
    ASSUME GroupInv, [Next]_vars
    PROVE  GroupInv'
<1>1. TypeInv' /\ ClaimInv' /\ KnownInv'
  BY NextType, NextClaims, NextKnown DEF GroupInv
<1> QED
  BY <1>1, NextBooks DEF GroupInv

\* While no pass is overlapped, every row moves as it should.
LEMMA LoneRowMoves ==
    ASSUME NoneOverlapped, GroupInv, [Next]_vars, NEW g \in Group
    PROVE  RowMove(g)
<1>1. ASSUME NEW p \in Pass, ~Alone(p), Step(p)
      PROVE  RowMove(g)
  <2>1. BeginPass(p)
    BY <1>1, IdleBegins DEF NoneOverlapped, Alone
  <2> QED
    BY <2>1 DEF BeginPass, LinkTransactionsToOrders, RowMove
<1> QED
  BY <1>1, RowMoves DEF GroupInv

(* While no pass is overlapped by another, the stamp that closes a group     *)
(* covers exactly the rows the group has in the store at that moment, which  *)
(* net out, and carries the status they call for: however long ago the pass  *)
(* loaded its member list, the feed and its own attaches have not made it    *)
(* drift from the table, and what passes that overlapped or died left behind *)
(* does not matter (_apply_exit, heal_fully_closed_groups).                  *)
THEOREM LoneStampIsComplete == Spec => StampIsComplete
<1> DEFINE Complete(g) ==
            LET rows == GroupTransactions(g)
            IN  /\ FullyClosed(rows)
                /\ groupRow'[g].realized = Once(rows)
                /\ groupRow'[g].fees = Once(rows)
                /\ groupRow'[g].status = TerminalStatus(rows)
<1>1. GroupInv /\ [Next]_vars =>
        [NoneOverlapped =>
            \A g \in Group : groupRow[g].status = "open" /\ Closed(g)' => Complete(g)]_vars
  <2> SUFFICES ASSUME GroupInv, [Next]_vars, NoneOverlapped, NEW g \in Group,
                      groupRow[g].status = "open", Closed(g)'
               PROVE  Complete(g)
    OBVIOUS
  <2> DEFINE rows == GroupTransactions(g)
  <2>1. groupRow[g] \in GroupRowType /\ rows \in SUBSET Txn
    BY DEF GroupInv, TypeInv, TypeOK, TablesType, GroupTransactions
  <2>2. Support(Once(rows)) = rows
    BY <2>1, OnceOfSets
  <2>3. FullyClosed(rows) /\ groupRow'[g] = Stamped(groupRow[g], Once(rows))
    BY LoneRowMoves DEF RowMove, Closed
  <2> HIDE DEF rows
  <2>4. /\ groupRow'[g].realized = Once(rows)
        /\ groupRow'[g].fees = Once(rows)
        /\ groupRow'[g].status = TerminalStatus(rows)
    BY <2>1, <2>2, <2>3 DEF Stamped, GroupRowType
  <2> QED
    BY <2>3, <2>4 DEF rows
<1> QED
  BY <1>1, InitGroups, NextGroups, PTL DEF Spec, StampIsComplete

-----------------------------------------------------------------------------
(* Every loss of an ENTRY event is one pass that died.                     *)

\* The group that is being made has no event yet, and nobody else makes it.
Owes(p) ==
    Making(p) => /\ job[p].group \in Allocated
                 /\ entries[job[p].group] = 0

MakesAlone == \A p, q \in Pass : Making(p) /\ Making(q) /\ job[p].group = job[q].group => p = q

MakeInv ==
    /\ \A g \in Group : groupRow[g].status = "none" => entries[g] = 0
    /\ \A p \in Pass : Owes(p)
    /\ MakesAlone
    /\ IsFiniteSet(Unannounced) /\ OneLossPerDeath

\* The groups without their one event that nobody is making, in other words.
LEMMA UnannouncedGroups ==
    /\ Unannounced = {g \in Allocated : /\ entries[g] # 1
                                        /\ \A p \in Pass : Making(p) => job[p].group # g}
    /\ Unannounced' = {g \in Allocated' :
                            /\ entries'[g] # 1
                            /\ \A p \in Pass : Making(p)' => job'[p].group # g}
  BY DEF Unannounced, InTheMaking, Making, Allocated

\* The calls that neither make a group nor announce one.
Calm(p) ==
    \/ Load(p) \/ Finish(p) \/ TakeCluster(p) \/ Route(p)
    \/ \E j \in todo[p] : FindGroup(p, j) \/ AttachFills(p, j) \/ ExitAttach(p, j)
    \/ RefreshRead(p) \/ RefreshWrite(p) \/ Stamp(p)
    \/ \E e \in pending[p] : EmitEvent(p, e)

\* They find and leave no group half made.
LEMMA CalmJobs ==
    ASSUME TypeInv, NEW p \in Pass, Calm(p)
    PROVE  UNCHANGED <<entries, aborts>> /\ ~Making(p) /\ ~Making(p)'
<1>1. UNCHANGED <<entries, aborts>>
  BY DEF Calm, Load, BeginPass, LinkTransactionsToOrders, LinkOrders, LinkOrdersToGroups,
     Snapshot, ListOpen, LoadRows, Finish, EndClusters, LinkRoll, AddExitEvent, StartHeal,
     HealRead, HealWrite, UpsertTradeGroup, EndPass, TakeCluster, Route, FindGroup,
     AttachFills, ExitAttach, AttachTransactions, RefreshRead, RefreshWrite, Stamp,
     EmitEvent, tables
<1>2. ~Making(p)
  BY DEF Making, Calm, Load, BeginPass, MayBegin, LinkOrders, Snapshot, ListOpen, LoadRows,
     Finish, EndClusters, LinkRoll, StartHeal, HealRead, HealWrite, EndPass, TakeCluster,
     Route, FindGroup, AttachFills, ExitAttach, NextJob, RefreshRead, RefreshWrite, Stamp,
     EmitEvent
<1>3. UNCHANGED pc
      \/ \E v \in PcValues \ {"createAttach", "createOrders", "createEntry"} :
             pc' = [pc EXCEPT ![p] = v]
  BY DEF PcValues, Calm, Load, BeginPass, LinkOrders, Snapshot, ListOpen, LoadRows,
     Finish, EndClusters, LinkRoll, StartHeal, HealRead, HealWrite, EndPass, Forget,
     TakeCluster, Route, FindGroup, AttachFills, ExitAttach, RefreshRead, RefreshWrite,
     Stamp, EmitEvent
<1> QED
  BY <1>1, <1>2, <1>3 DEF Making, TypeInv, TypeOK

\* They write the row of no group but one there is.
LEMMA CalmKeys ==
    ASSUME TypeInv, KnownInv, NEW p \in Pass, Calm(p)
    PROVE  Allocated' \subseteq Allocated
<1>1. UNCHANGED groupRow => Allocated' = Allocated
  BY DEF Allocated
<1>2. ASSUME NEW g \in Allocated, NEW row, UpsertTradeGroup(g, row)
      PROVE  Allocated' \subseteq Allocated
  BY <1>2 DEF UpsertTradeGroup, Allocated, TypeInv, TypeOK, TablesType
<1>3. CASE RefreshWrite(p) \/ Stamp(p)
  <2>1. \E g \in Group : g = job[p].group /\ \E row : UpsertTradeGroup(g, row)
    BY <1>3 DEF RefreshWrite, Stamp
  <2>2. job[p].group \in Group => job[p].group \in Allocated
    BY RoutingAssumption DEF KnownInv, PassKnown
  <2> QED
    BY <1>2, <2>1, <2>2
<1>4. CASE HealWrite(p)
  <2>1. list[p] # <<>> /\ \E g \in Group : g = Head(list[p]) /\ \E row : UpsertTradeGroup(g, row)
    BY <1>4 DEF HealWrite
  <2>2. Head(list[p]) \in Allocated
    BY <2>1, HeadListed DEF KnownInv, PassKnown
  <2> QED
    BY <1>2, <2>1, <2>2
<1>5. RefreshWrite(p) \/ Stamp(p) \/ HealWrite(p) \/ UNCHANGED groupRow
  BY DEF Calm, Load, BeginPass, LinkTransactionsToOrders, LinkOrders, LinkOrdersToGroups,
     Snapshot, ListOpen, LoadRows, Finish, EndClusters, LinkRoll, AddExitEvent, StartHeal,
     HealRead, EndPass, TakeCluster, Route, FindGroup, AttachFills, ExitAttach,
     AttachTransactions, RefreshRead, EmitEvent, tables
<1> QED
  BY <1>1, <1>3, <1>4, <1>5

\* No new group is left without its event.
LEMMA NoMoreLosses ==
    ASSUME TypeInv, MakeInv, aborts' = aborts, Unannounced' \subseteq Unannounced
    PROVE  IsFiniteSet(Unannounced)' /\ OneLossPerDeath'
<1>1. /\ IsFiniteSet(Unannounced') /\ Cardinality(Unannounced') <= Cardinality(Unannounced)
      /\ Cardinality(Unannounced') \in Nat /\ Cardinality(Unannounced) \in Nat
  BY FS_Subset, FS_CardinalityType DEF MakeInv
<1> QED
  BY <1>1 DEF MakeInv, OneLossPerDeath, TypeInv, TypeOK

\* The calls that make no group leave every group as announced as it was.
LEMMA CalmMakes ==
    ASSUME TypeInv, KnownInv, ClaimInv, MakeInv, NEW p \in Pass, Step(p), Calm(p)
    PROVE  MakeInv'
<1>1. /\ UNCHANGED <<entries, aborts>> /\ ~Making(p) /\ ~Making(p)'
      /\ Allocated' = Allocated
  BY CalmJobs, CalmKeys, NextKnown DEF Next
<1>2. \A q \in Pass : q # p => (Making(q)' <=> Making(q)) /\ job'[q] = job[q]
  BY StepFrame DEF Same, Making
<1>3. \A g \in Group : groupRow'[g].status = "none" => entries'[g] = 0
  BY <1>1 DEF MakeInv, Allocated
<1>4. (\A q \in Pass : Owes(q)') /\ MakesAlone'
  BY <1>1, <1>2 DEF MakeInv, Owes, MakesAlone
<1>5. Unannounced' \subseteq Unannounced
  BY <1>1, <1>2, UnannouncedGroups
<1> QED
  BY <1>1, <1>3, <1>4, <1>5, NoMoreLosses DEF MakeInv

\* A new group has a free key: nobody else makes it, and it has no event yet.
LEMMA CreateMakes ==
    ASSUME TypeInv, KnownInv, MakeInv, NEW p \in Pass, NEW j \in todo[p], NEW g \in Group,
           Create(p, j, g)
    PROVE  MakeInv'
<1>1. /\ pc[p] = "work" /\ FreeGroup(g)
      /\ pc' = [pc EXCEPT ![p] = "createAttach"]
      /\ job' = [job EXCEPT ![p] = [j EXCEPT !.group = g]]
      /\ UNCHANGED <<entries, aborts>>
      /\ \E row : row.status = "open" /\ groupRow' = [groupRow EXCEPT ![g] = row]
  <2>1. \A S : [NoRow EXCEPT !.status = "open", !.premium = S, !.fees = S].status = "open"
    BY DEF NoRow
  <2> QED
    BY <2>1 DEF Create, NextJob, UpsertTradeGroup
<1>2. groupRow[g].status = "none" /\ entries[g] = 0 /\ g \notin Allocated
  BY <1>1 DEF FreeGroup, MakeInv, Allocated
<1>3. [j EXCEPT !.group = g].group = g
  BY NextJobType DEF Job
<1>4. ~Making(p) /\ Making(p)' /\ job'[p].group = g
  BY <1>1, <1>3 DEF Making, TypeInv, TypeOK
<1>5. \A q \in Pass : q # p => (Making(q)' <=> Making(q)) /\ job'[q] = job[q]
  BY <1>1 DEF Making, TypeInv, TypeOK
<1>6. Allocated' = Allocated \cup {g}
  BY <1>1 DEF Allocated, TypeInv, TypeOK, TablesType
<1>7. \A h \in Group : groupRow'[h].status = "none" => entries'[h] = 0
  BY <1>1, <1>6 DEF MakeInv, Allocated
<1>8. \A q \in Pass : Owes(q)'
  BY <1>1, <1>2, <1>4, <1>5, <1>6 DEF MakeInv, Owes
<1>9. MakesAlone'
  BY <1>2, <1>4, <1>5 DEF MakeInv, Owes, MakesAlone
<1>10. Unannounced' \subseteq Unannounced
  BY <1>1, <1>4, <1>5, <1>6, UnannouncedGroups
<1> QED
  BY <1>1, <1>7, <1>8, <1>9, <1>10, NoMoreLosses DEF MakeInv

\* It gets its rows and their orders.
LEMMA AttachMakes ==
    ASSUME TypeInv, MakeInv, NEW p \in Pass, CreateAttach(p) \/ CreateOrders(p)
    PROVE  MakeInv'
<1>1. /\ UNCHANGED <<job, entries, aborts, groupRow>>
      /\ pc[p] \in {"createAttach", "createOrders"}
      /\ \E v \in {"createOrders", "createEntry"} : pc' = [pc EXCEPT ![p] = v]
  BY DEF CreateAttach, CreateOrders, AttachTransactions, UpsertOrders
<1>2. \A q \in Pass : Making(q)' <=> Making(q)
  BY <1>1 DEF Making, TypeInv, TypeOK
<1>3. Allocated' = Allocated
  BY <1>1 DEF Allocated
<1>4. (\A q \in Pass : Owes(q)') /\ MakesAlone'
  BY <1>1, <1>2, <1>3 DEF MakeInv, Owes, MakesAlone
<1>5. Unannounced' \subseteq Unannounced
  BY <1>1, <1>2, <1>3, UnannouncedGroups
<1> QED
  BY <1>1, <1>4, <1>5, NoMoreLosses DEF MakeInv

\* Its event is its first, and the pass no longer makes it.
LEMMA EntryMakes ==
    ASSUME TypeInv, MakeInv, NEW p \in Pass, CreateEntry(p)
    PROVE  MakeInv'
<1> DEFINE g == job[p].group
<1>1. /\ g \in Group /\ pc[p] = "createEntry" /\ pc' = [pc EXCEPT ![p] = "work"]
      /\ job' = [job EXCEPT ![p] = NoJob]
      /\ entries' = [entries EXCEPT ![g] = @ + 1]
      /\ UNCHANGED <<aborts, groupRow>>
  BY DEF CreateEntry, AddEntryEvent
<1>2. Making(p) /\ ~Making(p)' /\ g \in Allocated /\ entries[g] = 0
  BY <1>1 DEF Making, MakeInv, Owes, TypeInv, TypeOK
<1>3. entries'[g] = 1 /\ \A h \in Group : h # g => entries'[h] = entries[h]
  BY <1>1, <1>2 DEF TypeInv, TypeOK, TablesType
<1>4. \A q \in Pass : q # p => (Making(q)' <=> Making(q)) /\ job'[q] = job[q]
  BY <1>1 DEF Making, TypeInv, TypeOK
<1>5. Allocated' = Allocated
  BY <1>1 DEF Allocated
<1> HIDE DEF g
<1>6. \A q \in Pass : q # p /\ Making(q) => job[q].group # g
  BY <1>2 DEF MakeInv, MakesAlone, g
<1>7. \A h \in Group : groupRow'[h].status = "none" => entries'[h] = 0
  BY <1>1, <1>2, <1>3 DEF MakeInv, Allocated
<1>8. (\A q \in Pass : Owes(q)') /\ MakesAlone'
  BY <1>2, <1>3, <1>4, <1>5, <1>6 DEF MakeInv, Owes, MakesAlone, Allocated
<1>9. Unannounced' \subseteq Unannounced
  <2>1. \A h \in Allocated : h # g => \A q \in Pass : Making(q) /\ job[q].group = h => q # p
    BY DEF g
  <2>2. Allocated \subseteq Group
    BY DEF Allocated
  <2> QED
    BY <1>2, <1>3, <1>4, <1>5, <2>1, <2>2, UnannouncedGroups
<1> QED
  BY <1>1, <1>7, <1>8, <1>9, NoMoreLosses DEF MakeInv

\* A pass that dies leaves at most the group it was making without its event.
LEMMA AbortMakes ==
    ASSUME TypeInv, MakeInv, NEW p \in Pass, AbortPass(p)
    PROVE  MakeInv'
<1>1. /\ UNCHANGED <<entries, groupRow>> /\ aborts' = aborts + 1
      /\ pc' = [pc EXCEPT ![p] = "idle"] /\ job' = [job EXCEPT ![p] = NoJob]
  BY DEF AbortPass, Forget, tables
<1>2. ~Making(p)' /\ \A q \in Pass : q # p => (Making(q)' <=> Making(q)) /\ job'[q] = job[q]
  BY <1>1 DEF Making, TypeInv, TypeOK
<1>3. Allocated' = Allocated
  BY <1>1 DEF Allocated
<1>4. (\A q \in Pass : Owes(q)') /\ MakesAlone'
  BY <1>1, <1>2, <1>3 DEF MakeInv, Owes, MakesAlone
<1>5. Unannounced' \subseteq Unannounced \cup {job[p].group}
  BY <1>1, <1>2, <1>3, UnannouncedGroups
<1>f. IsFiniteSet(Unannounced) /\ Cardinality(Unannounced) \in Nat
  BY FS_CardinalityType DEF MakeInv
<1>6. /\ IsFiniteSet(Unannounced \cup {job[p].group})
      /\ Cardinality(Unannounced \cup {job[p].group}) <= Cardinality(Unannounced) + 1
      /\ Cardinality(Unannounced) \in Nat
      /\ Cardinality(Unannounced \cup {job[p].group}) \in Nat
  BY <1>f, FS_AddElement
<1>7. /\ IsFiniteSet(Unannounced')
      /\ Cardinality(Unannounced') <= Cardinality(Unannounced \cup {job[p].group})
      /\ Cardinality(Unannounced') \in Nat
  BY <1>5, <1>6, FS_Subset, FS_CardinalityType
<1>8. OneLossPerDeath'
  BY <1>1, <1>6, <1>7 DEF MakeInv, OneLossPerDeath, TypeInv, TypeOK
<1> QED
  BY <1>1, <1>4, <1>7, <1>8 DEF MakeInv

\* The host announces its group as it opens it; other feeds leave groups alone.
LEMMA FeedMakes ==
    ASSUME TypeInv, KnownInv, ClaimInv, MakeInv, Feed
    PROVE  MakeInv'
<1>1. aborts' = aborts /\ \A q \in Pass : (Making(q)' <=> Making(q)) /\ job'[q] = job[q]
  <2>1. aborts' = aborts
    BY DEF Feed, FeedTransaction, FeedOrder, FeedTradeGroup, FeedRecordOrder
  <2> QED
    BY <2>1, FeedLeaves DEF Same, Making
<1>2. CASE UNCHANGED <<entries, groupRow>>
  <2>1. Allocated' = Allocated
    BY <1>2 DEF Allocated
  <2>2. (\A q \in Pass : Owes(q)') /\ MakesAlone' /\ Unannounced' \subseteq Unannounced
    BY <1>1, <1>2, <2>1, UnannouncedGroups DEF MakeInv, Owes, MakesAlone
  <2> QED
    BY <1>1, <1>2, <2>2, NoMoreLosses DEF MakeInv
<1>3. ASSUME NEW i \in Intent, NEW g \in Group, FeedTradeGroup(i, g)
      PROVE  MakeInv'
  <2>1. /\ FreeGroup(g) /\ entries' = [entries EXCEPT ![g] = @ + 1]
        /\ \E row : row.status = "open" /\ groupRow' = [groupRow EXCEPT ![g] = row]
    <3>1. [NoRow EXCEPT !.status = "open", !.manual = TRUE, !.review = "confirmed"].status
              = "open"
      BY DEF NoRow
    <3> QED
      BY <1>3, <3>1 DEF FeedTradeGroup, OpenTradeGroup
  <2>2. entries[g] = 0 /\ g \notin Allocated
    BY <2>1 DEF FreeGroup, MakeInv, Allocated
  <2>3. entries'[g] = 1 /\ \A h \in Group : h # g => entries'[h] = entries[h]
    BY <2>1, <2>2 DEF TypeInv, TypeOK, TablesType
  <2>4. Allocated' = Allocated \cup {g} /\ Allocated \subseteq Group
    BY <2>1 DEF Allocated, TypeInv, TypeOK, TablesType
  <2>5. \A h \in Group : groupRow'[h].status = "none" => entries'[h] = 0
    BY <2>3, <2>4 DEF MakeInv, Allocated
  <2>6. (\A q \in Pass : Owes(q)') /\ MakesAlone'
    BY <1>1, <2>2, <2>3, <2>4 DEF MakeInv, Owes, MakesAlone
  <2>7. Unannounced' \subseteq Unannounced
    BY <1>1, <2>3, <2>4, UnannouncedGroups
  <2> QED
    BY <1>1, <2>5, <2>6, <2>7, NoMoreLosses DEF MakeInv
<1>4. UNCHANGED <<entries, groupRow>> \/ \E i \in Intent, g \in Group : FeedTradeGroup(i, g)
  BY DEF Feed, FeedTransaction, FeedOrder, FeedRecordOrder, SyncTransaction,
     UpsertTransaction, SyncOrder, RecordOrder, UpsertOrders
<1> QED
  BY <1>2, <1>3, <1>4

\* Every step keeps it.
LEMMA NextMakes ==
    ASSUME GroupInv, MakeInv, [Next]_vars
    PROVE  MakeInv'
<1>0. TypeInv /\ KnownInv /\ ClaimInv
  BY DEF GroupInv
<1>1. CASE UNCHANGED vars
  BY <1>1 DEF vars, locals, tables, MakeInv, Owes, MakesAlone, Making, Allocated,
     Unannounced, InTheMaking, OneLossPerDeath
<1>2. ASSUME NEW p \in Pass, Step(p)
      PROVE  MakeInv'
  <2>1. \/ Calm(p) \/ CreateAttach(p) \/ CreateOrders(p) \/ CreateEntry(p)
        \/ \E j \in todo[p], g \in Group : Create(p, j, g)
    BY <1>2 DEF Step, Attribute, Calm
  <2> QED
    BY <1>0, <1>2, <2>1, CalmMakes, CreateMakes, AttachMakes, EntryMakes
<1> QED
  BY <1>0, <1>1, <1>2, FeedMakes, AbortMakes DEF Next

\* There is no group yet.
LEMMA InitMakes ==
    ASSUME Init
    PROVE  MakeInv
<1>1. \A g \in Group : groupRow[g].status = "none" /\ entries[g] = 0
  BY DEF Init, TablesInit, NoRow
<1>2. aborts = 0 /\ \A p \in Pass : pc[p] = "idle"
  BY DEF Init
<1>3. Unannounced = {}
  BY <1>1 DEF Unannounced
<1> QED
  BY <1>1, <1>2, <1>3, FS_EmptySet DEF MakeInv, Owes, MakesAlone, Making, OneLossPerDeath

(* A group and its ENTRY event are written by two calls, and passes may      *)
(* overlap and die between any two: still no group gets a second event, and  *)
(* each pass that dies leaves at most one group without its event, the one   *)
(* it was making (_create_trade_group, open_trade_group).                    *)
THEOREM EveryLossIsADeath == Spec => []OneLossPerDeath
<1>1. Init => GroupInv /\ MakeInv
  BY InitGroups, InitMakes
<1>2. GroupInv /\ MakeInv /\ [Next]_vars => GroupInv' /\ MakeInv'
  BY NextGroups, NextMakes
<1>3. MakeInv => OneLossPerDeath
  BY DEF MakeInv
<1> QED
  BY <1>1, <1>2, <1>3, PTL DEF Spec

-----------------------------------------------------------------------------
(* Rows leave once.                                                        *)

\* A row that an exit event covers has a group.
ExitedRowsHeld == \A g \in Group, t \in Txn : exits[g][t] > 0 => txnGroup[t] # NoGroup

\* Events still to be written cover rows that have a group; no event covers a row for
\* which a pass that is alone still has one to write.
Due(p) ==
    \A e \in pending[p] :
        /\ pc[p] = "event"
        /\ \A t \in e.rows :
              /\ txnGroup[t] # NoGroup
              /\ \A f \in pending[p] : t \in f.rows => f = e
              /\ Alone(p) => \A g \in Group : exits[g][t] = 0

ExitInv == ExitedRowsHeld /\ \A p \in Pass : Due(p)

\* No step of the feed or of a pass takes a row out of its group and leaves it in none.
LEMMA RowsStayHeld ==
    ASSUME GroupInv, MakeInv, [Next]_vars
    PROVE  \A t \in Txn : txnGroup[t] # NoGroup => txnGroup'[t] # NoGroup
<1>0. TypeInv /\ ClaimInv /\ NoGroup \notin Group
  BY RoutingAssumption DEF GroupInv
<1>1. ASSUME NEW S, NEW g \in Group, AttachTransactions(S, g)
      PROVE  \A t \in Txn : txnGroup[t] # NoGroup => txnGroup'[t] # NoGroup
  BY <1>0, <1>1 DEF AttachTransactions
<1>2. ASSUME NEW p \in Pass, CreateAttach(p)
      PROVE  job[p].group \in Group /\ AttachTransactions(job[p].rows, job[p].group)
  BY <1>2 DEF CreateAttach, MakeInv, Owes, Making, Allocated
<1>3. ASSUME NEW p \in Pass, NEW j \in todo[p], AttachFills(p, j) \/ ExitAttach(p, j)
      PROVE  j.group \in Group /\ AttachTransactions(j.rows, j.group)
  BY <1>0, <1>3, NextJobType DEF AttachFills, ExitAttach
<1>4. UNCHANGED vars \/ Feed => UNCHANGED txnGroup
  BY <1>0, FeedClaims DEF vars, tables
<1>5. ASSUME NEW p \in Pass, Load(p) \/ Finish(p) \/ AbortPass(p)
      PROVE  UNCHANGED txnGroup
  BY <1>0, <1>5, BeginClaims, LinkOrdersClaims, SnapshotClaims, BooksClaims, TailClaims,
     ForgetClaims DEF Load, Finish
<1>6. ASSUME NEW p \in Pass, Attribute(p)
      PROVE  \/ UNCHANGED txnGroup \/ CreateAttach(p)
             \/ \E j \in todo[p] : AttachFills(p, j) \/ ExitAttach(p, j)
  BY <1>0, <1>6, TakeClusterClaims, RouteClaims, BooksClaims, CreateClaims, TailClaims
     DEF Attribute
<1>7. ASSUME NEW p \in Pass, Attribute(p)
      PROVE  \A t \in Txn : txnGroup[t] # NoGroup => txnGroup'[t] # NoGroup
  BY <1>1, <1>2, <1>3, <1>6, <1>7
<1> QED
  BY <1>4, <1>5, <1>7 DEF Next, Step

\* The events of an exit split its rows.
LEMMA ExitEventsApart ==
    ASSUME NEW p, NEW j, NEW S, NEW e \in ExitEvents(p, j, S), NEW t \in e.rows
    PROVE  t \in S /\ \A f \in ExitEvents(p, j, S) : t \in f.rows => f = e
<1> DEFINE trade == {u \in S : ~IsNontradeClose(u) /\
                               (Row[u].act \in ClosingActions \/ IsBare(u))}
           of(st) == {u \in S : IsNontradeClose(u) /\ SettlementStatus[Row[u].sub] = st}
           to(st) == IF st = "expired" THEN NoGroup ELSE DeliveredTo(p, j.rows)
           settle(st) == [key |-> First(of(st)), rows |-> of(st), to |-> to(st)]
           leave == [key |-> 0, rows |-> trade, to |-> NoGroup]
           roll == [key |-> Len(Row) + 1, rows |-> {}, to |-> RolledTo(p, j.rows)]
<1>1. ASSUME NEW f \in ExitEvents(p, j, S)
      PROVE  f = leave \/ f = roll \/ \E st : f = settle(st)
  BY <1>1 DEF ExitEvents
<1>2. leave.rows = trade /\ roll.rows = {} /\ \A st : settle(st).rows = of(st)
  OBVIOUS
<1> HIDE DEF settle, leave, roll
<1>3. CASE e = leave
  <2>1. t \in S /\ ~IsNontradeClose(t)
    BY <1>2, <1>3
  <2> QED
    BY <1>1, <1>2, <1>3, <2>1
<1>4. ASSUME NEW st, e = settle(st)
      PROVE  t \in S /\ \A f \in ExitEvents(p, j, S) : t \in f.rows => f = e
  <2>1. t \in S /\ IsNontradeClose(t) /\ SettlementStatus[Row[t].sub] = st
    BY <1>2, <1>4
  <2>2. \A rt : t \in of(rt) => rt = st
    BY <2>1
  <2> HIDE DEF of
  <2> QED
    BY <1>1, <1>2, <1>4, <2>1, <2>2
<1> QED
  BY <1>1, <1>2, <1>3, <1>4

\* A pass that does not take the step still owes what it owed.
LEMMA OthersDue ==
    ASSUME GroupInv, MakeInv, ExitInv, [Next]_vars, NEW p \in Pass, Step(p) \/ AbortPass(p),
           NEW q \in Pass, q # p
    PROVE  Due(q)'
<1>1. Same(q)
  BY StepFrame DEF GroupInv
<1>2. Alone(q)' => pending'[q] = {}
  BY <1>1, OthersAreIdle DEF GroupInv, Same, ExitInv, Due
<1> QED
  BY <1>1, <1>2, RowsStayHeld DEF Due, Same, ExitInv, GroupInv, TypeInv, TypeOK, Event

\* Steps that write no event and start no exit.
LEMMA CalmExits ==
    ASSUME GroupInv, MakeInv, ExitInv, [Next]_vars, NEW p \in Pass,
           Step(p) \/ AbortPass(p), UNCHANGED exits, pending'[p] = {}
    PROVE  ExitInv'
<1>1. ExitedRowsHeld'
  BY RowsStayHeld DEF ExitInv, ExitedRowsHeld
<1>2. Due(p)'
  BY DEF Due
<1> QED
  BY <1>1, <1>2, OthersDue DEF ExitInv

\* Rows that a pass that is alone gives a group were in none, so no event covers them.
LEMMA ExitAttachOnce ==
    ASSUME GroupInv, MakeInv, ExitInv, [Next]_vars, NEW p \in Pass, NEW j \in todo[p],
           ExitAttach(p, j)
    PROVE  ExitInv'
<1> DEFINE new == {t \in j.rows : book[p][j.group][t] = 0}
<1>1. Step(p) /\ pc[p] = "work"
  BY DEF Step, Attribute, ExitAttach, NextJob
<1>2. /\ UNCHANGED <<exits, lone>>
      /\ txnGroup' = [t \in Txn |-> IF t \in j.rows THEN j.group ELSE txnGroup[t]]
  BY DEF ExitAttach, AttachTransactions
<1>3. pending[p] = {}
  BY <1>1 DEF ExitInv, Due
<1>4. CASE new = {}
  <2>1. UNCHANGED pending
    BY <1>4 DEF ExitAttach
  <2> QED
    BY <1>1, <1>2, <1>3, <2>1, CalmExits
<1>5. CASE new # {}
  <2>1. /\ pc' = [pc EXCEPT ![p] = "event"]
        /\ pending' = [pending EXCEPT ![p] = ExitEvents(p, j, new)]
    BY <1>5 DEF ExitAttach
  <2>2. j.rows \in SUBSET Txn /\ j.group \in Group
    BY NextJobType DEF GroupInv, ExitAttach
  <2>3. Alone(p) => \A t \in j.rows : txnGroup[t] = NoGroup
    BY <2>2 DEF GroupInv, ClaimInv, Unclaimed, Waiting
  <2>4. pc'[p] = "event" /\ pending'[p] = ExitEvents(p, j, new)
    BY <2>1 DEF GroupInv, TypeInv, TypeOK
  <2>5. ExitedRowsHeld'
    BY <1>2, RowsStayHeld DEF ExitInv, ExitedRowsHeld
  <2>6. ASSUME NEW e \in ExitEvents(p, j, new), NEW t \in e.rows
        PROVE  /\ txnGroup'[t] # NoGroup
               /\ \A f \in ExitEvents(p, j, new) : t \in f.rows => f = e
               /\ Alone(p)' => \A g \in Group : exits'[g][t] = 0
    <3>1. t \in new /\ \A f \in ExitEvents(p, j, new) : t \in f.rows => f = e
      BY <2>6, ExitEventsApart
    <3>2. t \in j.rows /\ t \in Txn
      BY <2>2, <3>1
    <3>3. \A g \in Group : exits[g][t] \in Nat
      BY <3>2 DEF GroupInv, TypeInv, TypeOK, TablesType, Count
    <3>4. Alone(p) => \A g \in Group : exits[g][t] = 0
      BY <2>3, <3>2, <3>3 DEF ExitInv, ExitedRowsHeld
    <3> QED
      BY <1>2, <2>2, <3>1, <3>2, <3>4, RoutingAssumption DEF Alone
  <2>7. Due(p)'
    BY <2>4, <2>6 DEF Due
  <2> QED
    BY <1>1, <2>5, <2>7, OthersDue DEF ExitInv
<1> QED
  BY <1>4, <1>5

\* Writing one event covers its rows, and leaves the other events as they were.
LEMMA EmitExitOnce ==
    ASSUME GroupInv, MakeInv, ExitInv, [Next]_vars, NEW p \in Pass, NEW e \in pending[p],
           EmitEvent(p, e)
    PROVE  /\ ExitInv'
           /\ Alone(p) => \A t \in Txn : Exited(t) => \A g \in Group : exits'[g][t] = exits[g][t]
<1>1. PICK g \in Group : g = job[p].group /\ AddExitEvent(g, e.rows, e.to)
  BY DEF EmitEvent
<1>2. /\ Step(p) /\ pc[p] = "event" /\ pending' = [pending EXCEPT ![p] = @ \ {e}]
      /\ UNCHANGED lone
      /\ pending[p] # {e} => UNCHANGED pc
  BY DEF Step, Attribute, EmitEvent
<1>3. pending'[p] = pending[p] \ {e}
  BY <1>2 DEF GroupInv, TypeInv, TypeOK
<1>4. /\ UNCHANGED txnGroup
      /\ exits' = [exits EXCEPT ![g] = [t \in Txn |-> IF t \in e.rows THEN @[t] + 1 ELSE @[t]]]
  BY <1>1 DEF AddExitEvent
<1>5. \A h \in Group, t \in Txn :
        exits'[h][t] = IF h = g /\ t \in e.rows THEN exits[h][t] + 1 ELSE exits[h][t]
  BY <1>4 DEF GroupInv, TypeInv, TypeOK, TablesType, Count
<1>6. /\ \A t \in e.rows : txnGroup[t] # NoGroup
      /\ Alone(p) => \A t \in e.rows : \A h \in Group : exits[h][t] = 0
  BY DEF ExitInv, Due
<1>7. ExitedRowsHeld'
  BY <1>4, <1>5, <1>6 DEF ExitInv, ExitedRowsHeld
<1>8. Due(p)'
  <2> SUFFICES ASSUME NEW f \in pending[p], f # e
               PROVE  /\ pc'[p] = "event"
                      /\ \A t \in f.rows :
                            /\ txnGroup'[t] # NoGroup
                            /\ \A k \in pending'[p] : t \in k.rows => k = f
                            /\ Alone(p)' => \A h \in Group : exits'[h][t] = 0
    BY <1>3 DEF Due
  <2>1. f.rows \subseteq Txn
    BY DEF GroupInv, TypeInv, TypeOK, Event
  <2>2. \A t \in f.rows : t \notin e.rows
    BY DEF ExitInv, Due
  <2> QED
    BY <1>2, <1>3, <1>4, <1>5, <2>1, <2>2 DEF ExitInv, Due, Alone
<1>9. Alone(p) => \A t \in Txn : Exited(t) => \A h \in Group : exits'[h][t] = exits[h][t]
  BY <1>5, <1>6 DEF Exited
<1> QED
  BY <1>2, <1>7, <1>8, <1>9, OthersDue DEF ExitInv

\* Every step keeps the exits in order, and a pass that is alone exits no row again.
LEMMA NextExits ==
    ASSUME GroupInv, MakeInv, ExitInv, [Next]_vars
    PROVE  /\ ExitInv'
           /\ NoneOverlapped => \A t \in Txn : Exited(t) =>
                                   \A g \in Group : exits'[g][t] = exits[g][t]
<1>1. CASE UNCHANGED vars
  BY <1>1 DEF vars, locals, tables, ExitInv, ExitedRowsHeld, Due, Alone
<1>2. CASE Feed
  <2>1. UNCHANGED exits
    BY <1>2 DEF Feed, FeedTransaction, FeedOrder, FeedTradeGroup, FeedRecordOrder,
       SyncTransaction, UpsertTransaction, SyncOrder, RecordOrder, UpsertOrders,
       OpenTradeGroup
  <2>2. UNCHANGED txnGroup
    BY <1>2, FeedClaims DEF GroupInv
  <2>3. \A q \in Pass : Same(q)
    BY <1>2, FeedLeaves DEF GroupInv
  <2>4. ExitedRowsHeld'
    BY <2>1, <2>2 DEF ExitInv, ExitedRowsHeld
  <2>5. \A q \in Pass : Due(q)'
    BY <1>2, <2>1, <2>2, <2>3, FeedLeaves DEF ExitInv, Due, Same, Alone, GroupInv
  <2> QED
    BY <2>1, <2>4, <2>5 DEF ExitInv
<1>3. ASSUME NEW p \in Pass, Step(p) \/ AbortPass(p)
      PROVE  /\ ExitInv'
             /\ UNCHANGED exits \/ \E e \in pending[p] : EmitEvent(p, e)
  <2>1. CASE \E e \in pending[p] : EmitEvent(p, e)
    BY <2>1, EmitExitOnce
  <2>2. CASE \E j \in todo[p] : ExitAttach(p, j)
    BY <2>2, ExitAttachOnce DEF ExitAttach, AttachTransactions
  <2>3. CASE EndPass(p) \/ AbortPass(p)
    <3>1. UNCHANGED exits /\ pending' = [pending EXCEPT ![p] = {}]
      BY <2>3 DEF EndPass, AbortPass, Forget, tables
    <3>2. pending'[p] = {}
      BY <3>1 DEF GroupInv, TypeInv, TypeOK
    <3> QED
      BY <1>3, <3>1, <3>2, CalmExits
  <2>4. CASE LinkRoll(p)
    <3>1. pc[p] = "rolls" /\ UNCHANGED pending
      BY <2>4 DEF LinkRoll
    <3>2. UNCHANGED exits
      <4>1. ASSUME NEW g, NEW to, AddExitEvent(g, {}, to)
            PROVE  UNCHANGED exits
        BY <4>1 DEF AddExitEvent, GroupInv, TypeInv, TypeOK, TablesType, Count
      <4>2. UNCHANGED tables => UNCHANGED exits
        BY DEF tables
      <4> QED
        BY <2>4, <4>1, <4>2 DEF LinkRoll
    <3>3. pending'[p] = {}
      BY <3>1 DEF ExitInv, Due
    <3> QED
      BY <1>3, <3>2, <3>3, CalmExits
  <2>5. CASE \/ Load(p) \/ TakeCluster(p) \/ Route(p)
             \/ \E j \in todo[p] : \/ FindGroup(p, j) \/ AttachFills(p, j)
                                   \/ \E g \in Group : Create(p, j, g)
             \/ RefreshRead(p) \/ RefreshWrite(p)
             \/ CreateAttach(p) \/ CreateOrders(p) \/ CreateEntry(p) \/ Stamp(p)
             \/ EndClusters(p) \/ StartHeal(p) \/ HealRead(p) \/ HealWrite(p)
    <3>1. UNCHANGED <<exits, pending>> /\ pc[p] # "event"
      BY <2>5 DEF Load, BeginPass, MayBegin, LinkTransactionsToOrders, LinkOrders,
         LinkOrdersToGroups, Snapshot, ListOpen, LoadRows, TakeCluster, Route, FindGroup,
         NextJob, AttachFills, AttachTransactions, Create, UpsertTradeGroup, RefreshRead,
         RefreshWrite, CreateAttach, CreateOrders, UpsertOrders, CreateEntry,
         AddEntryEvent, Stamp, EndClusters, StartHeal, HealRead, HealWrite, tables
    <3>2. pending'[p] = {}
      BY <3>1 DEF ExitInv, Due
    <3> QED
      BY <1>3, <3>1, <3>2, CalmExits
  <2> QED
    BY <1>3, <2>1, <2>2, <2>3, <2>4, <2>5 DEF Step, Attribute, Finish
<1>4. ExitInv'
  BY <1>1, <1>2, <1>3 DEF Next
<1>5. UNCHANGED exits \/ \E p \in Pass : \E e \in pending[p] : EmitEvent(p, e)
  <2>1. Feed \/ UNCHANGED vars => UNCHANGED exits
    BY DEF Feed, FeedTransaction, FeedOrder, FeedTradeGroup, FeedRecordOrder,
       SyncTransaction, UpsertTransaction, SyncOrder, RecordOrder, UpsertOrders,
       OpenTradeGroup, vars, tables
  <2> QED
    BY <1>3, <2>1 DEF Next
<1>6. ASSUME NoneOverlapped, NEW p \in Pass, NEW e \in pending[p], EmitEvent(p, e)
      PROVE  Alone(p)
  BY <1>6 DEF EmitEvent, NoneOverlapped, Alone
<1> QED
  BY <1>4, <1>5, <1>6, EmitExitOnce

(* While no pass is overlapped by another, a row that an exit event covers   *)
(* is not covered by a second one, in the same group or another, even when   *)
(* passes died between the attach and the event, or overlapped, before and   *)
(* the same rows are gone over again (_apply_exit).                          *)
THEOREM LoneExitOnce == Spec => ExitOnce
<1>1. Init => GroupInv /\ MakeInv /\ ExitInv
  <2> SUFFICES ASSUME Init
               PROVE  GroupInv /\ MakeInv /\ ExitInv
    OBVIOUS
  <2>1. \A g \in Group, t \in Txn : exits[g][t] = 0
    BY DEF Init, TablesInit, None
  <2>2. \A p \in Pass : pending[p] = {}
    BY DEF Init
  <2> QED
    BY <2>1, <2>2, InitGroups, InitMakes DEF ExitInv, ExitedRowsHeld, Due
<1>2. GroupInv /\ MakeInv /\ ExitInv /\ [Next]_vars =>
        /\ GroupInv' /\ MakeInv' /\ ExitInv'
        /\ [NoneOverlapped => \A t \in Txn : Exited(t) =>
               \A g \in Group : exits'[g][t] = exits[g][t]]_vars
  BY NextGroups, NextMakes, NextExits
<1> QED
  BY <1>1, <1>2, PTL DEF Spec, ExitOnce

-----------------------------------------------------------------------------
(* Continuations lead forward.                                             *)

\* One set of rows lies before another in time.
Earlier(S, T) == \A s \in S, t \in T : Row[s].at < Row[t].at

\* A pass has made, or is making, a group for some rows.
Makes(p, g, S) ==
    \/ \E m \in Items(created[p]) : m.group = g /\ m.rows = S
    \/ Making(p) /\ job[p].group = g /\ job[p].rows = S

\* Rows leave, or are about to leave, through a group.
Leaves(p, g, S) ==
    \/ \E x \in Items(applied[p]) : x.group = g /\ x.rows = S
    \/ pc[p] \in {"event", "stamp"} /\ job[p].group = g /\ job[p].rows = S
    \/ \E j \in todo[p] : j.kind # "create" /\ j.group = g /\ j.rows = S

\* A new group is later than one through which rows leave, or its own rows are
\* earlier than those: no roll leads from the new group's rows to an older group.
MadeForward(p) ==
    \A g \in Group, S \in SUBSET Txn : Makes(p, g, S) =>
        /\ S # {} /\ Earlier(S, cand[p] \cup cluster[p])
        /\ \A h \in Group, T \in SUBSET Txn : Leaves(p, h, T) => h < g \/ Earlier(S, T)

LeavesKnown(p) ==
    \A g \in Group, S \in SUBSET Txn : Leaves(p, g, S) => g \in Allocated /\ S # {}

\* Clusters are taken in time order, one at a time, and open at most one group each.
InOrder(p) ==
    /\ Earlier(cluster[p], cand[p])
    /\ phase[p] # "intent" \/ pc[p] = "rolls" => cluster[p] = {}
    /\ \A j \in todo[p] : j.rows # {} /\ Earlier(j.rows, cand[p])
    /\ \A j, k \in todo[p] : j.kind = "create" /\ k.kind = "create" => j = k

\* The group a cluster opened is later than those its closes leave through.
NewGroupLast(p) ==
    /\ phase[p] = "intent" => newGroup[p] = NoGroup
    /\ Making(p) => /\ phase[p] # "intent"
                    /\ \A j \in todo[p] : j.kind # "create" /\ j.group < job[p].group
    /\ newGroup[p] # NoGroup => \A j \in todo[p] : j.kind # "create" /\ j.group < newGroup[p]
    /\ pc[p] = "event" /\ newGroup[p] # NoGroup => job[p].group < newGroup[p]
    /\ \A e \in pending[p] : pc[p] = "event" /\ e.to \in {NoGroup, newGroup[p]}

\* Before its snapshot a pass has done nothing.
NothingDone(p) ==
    pc[p] \in {"idle", "linkOrders", "snapshot"} => applied[p] = <<>> /\ created[p] = <<>>

RollInv(p) ==
    /\ MadeForward(p) /\ LeavesKnown(p) /\ InOrder(p) /\ NewGroupLast(p) /\ NothingDone(p)


\* The earliest cluster lies before the rows it leaves for later.
LEMMA FirstClusterEarlier ==
    ASSUME NEW S \in SUBSET Txn
    PROVE  Earlier(FirstCluster(S), S \ FirstCluster(S))
<1>1. /\ \A t \in Txn : Row[t].at \in Nat
      /\ \A t, u \in Txn : t < u => Row[t].at <= Row[u].at
      /\ Txn \subseteq Nat
  <2>1. \A t \in Txn : Row[t] \in RowType
    BY RowAssumption DEF Txn
  <2>2. \A t \in Txn : Row[t].at \in Nat
    BY <2>1 DEF RowType
  <2> QED
    BY <2>2, RowAssumption DEF Txn
<1> SUFFICES ASSUME NEW t \in FirstCluster(S), NEW v \in S, v \notin FirstCluster(S)
             PROVE  Row[t].at < Row[v].at
  BY DEF Earlier
<1>2. PICK u \in S : /\ u < v
                     /\ \A w \in S : u < w /\ w <= v => Row[w].at - Row[u].at > GroupTolerance
  <2>1. PICK u \in S :
            /\ u < v
            /\ ~\E w \in S : u < w /\ w <= v /\ Row[w].at - Row[u].at <= GroupTolerance
    BY DEF FirstCluster
  <2>2. ASSUME NEW w \in S, u < w, w <= v
        PROVE  Row[w].at - Row[u].at > GroupTolerance
    <3>1. ~(Row[w].at - Row[u].at <= GroupTolerance)
      BY <2>1, <2>2
    <3>2. Row[w].at \in Nat /\ Row[u].at \in Nat
      BY <1>1
    <3> QED
      BY <3>1, <3>2, RoutingAssumption
  <2> QED
    BY <2>1, <2>2
<1>3. t \in S /\ t \in Nat /\ u \in Nat /\ v \in Nat
  BY <1>1 DEF FirstCluster
<1>4. t <= u
  <2> SUFFICES ASSUME u < t
               PROVE  FALSE
    BY <1>3
  <2>1. PICK w \in S : u < w /\ w <= t /\ Row[w].at - Row[u].at <= GroupTolerance
    BY DEF FirstCluster
  <2>2. w \in Nat
    BY <1>1
  <2>3. v < w
    BY <1>1, <1>2, <1>3, <2>1, <2>2, RoutingAssumption
  <2>4. Row[v].at <= Row[w].at
    BY <1>1, <2>3
  <2>5. Row[v].at - Row[u].at > GroupTolerance
    BY <1>2, <1>3
  <2> QED
    BY <1>1, <2>1, <2>4, <2>5, RoutingAssumption
<1>5. Row[t].at <= Row[u].at
  <2>1. t = u \/ t < u
    BY <1>3, <1>4
  <2>2. Row[u].at \in Nat
    BY <1>1
  <2> QED
    BY <1>1, <1>3, <2>1, <2>2
<1>6. Row[v].at - Row[u].at > GroupTolerance
  BY <1>2, <1>3
<1> QED
  BY <1>1, <1>3, <1>5, <1>6, RoutingAssumption

\* Fewer rows lie in between.
LEMMA FewerEarlier ==
    ASSUME NEW S, NEW T, Earlier(S, T), NEW U, NEW V, U \subseteq S, V \subseteq T
    PROVE  Earlier(U, V)
  BY DEF Earlier

\* The two legs of one roll are in order: the new legs are not before the closes.
LEMMA RollInOrder ==
    ASSUME NEW S \in SUBSET Txn, S # {}, NEW T \in SUBSET Txn, T # {}, LegsOfOneRoll(T, S)
    PROVE  ~ Earlier(S, T)
<1>1. First(S) \in S /\ Last(T) \in T
  BY FirstInSet, LastInSet
<1>2. Row[First(S)].at \in Nat /\ Row[Last(T)].at \in Nat
  <2>1. \A t \in Txn : Row[t] \in RowType
    BY RowAssumption DEF Txn
  <2> QED
    BY <1>1, <2>1 DEF RowType
<1>3. Row[First(S)].at - Row[Last(T)].at \in 0 .. RollTolerance
  BY DEF LegsOfOneRoll
<1> QED
  BY <1>1, <1>2, <1>3, RoutingAssumption DEF Earlier

\* A pass that goes on with what it had keeps it in order.
LEMMA SameRolls ==
    ASSUME NEW p \in Pass, RollInv(p), Allocated \subseteq Allocated',
           \A g, S : Makes(p, g, S)' => Makes(p, g, S),
           \A g, S : Leaves(p, g, S)' => Leaves(p, g, S),
           cand'[p] \subseteq cand[p], cluster'[p] \subseteq cluster[p],
           todo'[p] \subseteq todo[p],
           phase'[p] = phase[p] \/ (phase'[p] # "intent" /\ cluster'[p] = {}),
           pc'[p] = "rolls" => pc[p] = "rolls" \/ cluster'[p] = {},
           newGroup'[p] \in {newGroup[p], NoGroup},
           Making(p)' => Making(p) /\ job'[p] = job[p],
           pc'[p] = "event" => pc[p] = "event" /\ job'[p] = job[p],
           pending'[p] # {} => /\ pc'[p] = "event" /\ pending'[p] \subseteq pending[p]
                               /\ newGroup'[p] = newGroup[p],
           NothingDone(p)'
    PROVE  RollInv(p)'
<1>1. MadeForward(p)'
  <2> SUFFICES ASSUME NEW g \in Group, NEW S \in SUBSET Txn, Makes(p, g, S)'
               PROVE  /\ S # {} /\ Earlier(S, cand'[p] \cup cluster'[p])
                      /\ \A h \in Group, T \in SUBSET Txn :
                            Leaves(p, h, T)' => h < g \/ Earlier(S, T)
    BY DEF MadeForward, Earlier
  <2>1. Makes(p, g, S)
    OBVIOUS
  <2>2. /\ S # {} /\ Earlier(S, cand[p] \cup cluster[p])
        /\ \A h \in Group, T \in SUBSET Txn : Leaves(p, h, T) => h < g \/ Earlier(S, T)
    BY <2>1 DEF RollInv, MadeForward
  <2>3. Earlier(S, cand'[p] \cup cluster'[p])
    BY <2>2, FewerEarlier
  <2> QED
    BY <2>2, <2>3
<1>2. LeavesKnown(p)'
  BY DEF RollInv, LeavesKnown
<1>3. InOrder(p)'
  BY DEF RollInv, InOrder, Earlier
<1>4. NewGroupLast(p)'
  BY DEF RollInv, NewGroupLast
<1> QED
  BY <1>1, <1>2, <1>3, <1>4 DEF RollInv

\* What a pass has made and what has left through it, seen from its locals.
LEMMA MakesFrom ==
    ASSUME NEW p \in Pass, created'[p] = created[p],
           Making(p)' => Making(p) /\ job'[p] = job[p]
    PROVE  \A g, S : Makes(p, g, S)' => Makes(p, g, S)
  BY DEF Makes

\* The calls that read, write a group's row or move on.
LEMMA ReadRolls ==
    ASSUME TypeInv, NEW p \in Pass, RollInv(p), Allocated \subseteq Allocated',
           \/ BeginPass(p) \/ LinkOrders(p) \/ ListOpen(p) \/ (\E g \in Group : LoadRows(p, g))
           \/ (\E j \in todo[p] : FindGroup(p, j) \/ AttachFills(p, j))
           \/ RefreshRead(p) \/ RefreshWrite(p) \/ CreateAttach(p) \/ CreateOrders(p)
           \/ EndClusters(p) \/ StartHeal(p) \/ HealRead(p) \/ HealWrite(p)
    PROVE  RollInv(p)'
<1>1. UNCHANGED <<cand, cluster, applied, created, pending>>
  BY DEF BeginPass, LinkOrders, ListOpen, LoadRows, FindGroup, AttachFills, RefreshRead,
     RefreshWrite, CreateAttach, CreateOrders, EndClusters, StartHeal, HealRead, HealWrite
<1>2. todo'[p] \subseteq todo[p]
  <2>1. UNCHANGED todo \/ \E j : todo' = [todo EXCEPT ![p] = todo[p] \ {j}]
    BY DEF BeginPass, LinkOrders, ListOpen, LoadRows, FindGroup, AttachFills, RefreshRead,
       RefreshWrite, CreateAttach, CreateOrders, EndClusters, StartHeal, HealRead, HealWrite
  <2> QED
    BY <2>1 DEF TypeInv, TypeOK
<1>3. newGroup'[p] \in {newGroup[p], NoGroup}
  <2>1. UNCHANGED newGroup \/ newGroup' = [newGroup EXCEPT ![p] = NoGroup]
    BY DEF BeginPass, LinkOrders, ListOpen, LoadRows, FindGroup, AttachFills, RefreshRead,
       RefreshWrite, CreateAttach, CreateOrders, EndClusters, StartHeal, HealRead, HealWrite
  <2> QED
    BY <2>1 DEF TypeInv, TypeOK
<1>4. /\ pc[p] \notin {"event", "stamp"} /\ pc'[p] \notin {"event", "stamp"}
      /\ pc'[p] = "idle" => pc[p] = "idle"
      /\ pc'[p] \in {"linkOrders", "snapshot"} => pc[p] \in {"idle", "linkOrders", "snapshot"}
      /\ Making(p)' => Making(p)
      /\ pc'[p] = "rolls" => EndClusters(p)
  <2>1. ASSUME BeginPass(p) \/ LinkOrders(p)
        PROVE  /\ pc[p] \in {"idle", "linkOrders"}
               /\ \E v \in {"linkOrders", "snapshot"} : pc' = [pc EXCEPT ![p] = v]
    BY <2>1 DEF BeginPass, MayBegin, LinkOrders
  <2>2. ASSUME \/ ListOpen(p) \/ (\E g \in Group : LoadRows(p, g))
               \/ (\E j \in todo[p] : FindGroup(p, j) \/ AttachFills(p, j))
               \/ RefreshRead(p) \/ RefreshWrite(p) \/ StartHeal(p) \/ HealRead(p) \/ HealWrite(p)
        PROVE  /\ pc[p] \in {"list", "load", "work", "refreshRead", "refreshWrite", "rolls",
                             "heal", "healWrite"}
               /\ \/ \E v \in {"load", "heal", "work", "refreshRead", "refreshWrite", "list",
                               "healWrite"} : pc' = [pc EXCEPT ![p] = v]
                  \/ UNCHANGED pc /\ pc[p] # "rolls"
    BY <2>2 DEF ListOpen, LoadRows, FindGroup, AttachFills, NextJob, RefreshRead,
       RefreshWrite, StartHeal, HealRead, HealWrite
  <2>3. ASSUME CreateAttach(p) \/ CreateOrders(p)
        PROVE  /\ pc[p] \in {"createAttach", "createOrders"}
               /\ \E v \in {"createOrders", "createEntry"} : pc' = [pc EXCEPT ![p] = v]
    BY <2>3 DEF CreateAttach, CreateOrders
  <2>4. ASSUME EndClusters(p)
        PROVE  pc[p] = "work" /\ pc' = [pc EXCEPT ![p] = "rolls"]
    BY <2>4 DEF EndClusters
  <2> QED
    BY <2>1, <2>2, <2>3, <2>4 DEF TypeInv, TypeOK, Making
<1>5. Making(p)' => job'[p] = job[p]
  <2>1. Making(p) => CreateAttach(p) \/ CreateOrders(p)
    BY DEF Making, BeginPass, MayBegin, LinkOrders, ListOpen, LoadRows, FindGroup,
       AttachFills, NextJob, RefreshRead, RefreshWrite, EndClusters, StartHeal, HealRead,
       HealWrite
  <2>2. CreateAttach(p) \/ CreateOrders(p) => UNCHANGED job
    BY DEF CreateAttach, CreateOrders
  <2> QED
    BY <1>4, <2>1, <2>2
<1>6. \/ phase'[p] = phase[p]
      \/ phase'[p] # "intent" /\ cluster'[p] = {}
  <2>1. UNCHANGED phase \/ (phase' = [phase EXCEPT ![p] = "heal"] /\ pc[p] = "rolls")
    BY DEF BeginPass, LinkOrders, ListOpen, LoadRows, FindGroup, AttachFills, RefreshRead,
       RefreshWrite, CreateAttach, CreateOrders, EndClusters, StartHeal, HealRead, HealWrite
  <2> QED
    BY <1>1, <2>1 DEF RollInv, InOrder, TypeInv, TypeOK
<1>7. EndClusters(p) => cluster'[p] = {}
  BY <1>1 DEF EndClusters, RollInv, InOrder
<1>8. pending'[p] = {}
  BY <1>1, <1>4 DEF RollInv, NewGroupLast
<1>9. \A g, S : Makes(p, g, S)' => Makes(p, g, S)
  BY <1>1, <1>4, <1>5, MakesFrom
<1>10. \A g, S : Leaves(p, g, S)' => Leaves(p, g, S)
  BY <1>1, <1>2, <1>4 DEF Leaves
<1>11. NothingDone(p)'
  BY <1>1, <1>4 DEF RollInv, NothingDone
<1> QED
  BY <1>1, <1>2, <1>3, <1>4, <1>5, <1>6, <1>7, <1>8, <1>9, <1>10, <1>11, SameRolls

\* What has left through a pass, after an exit has been carried out.
LEMMA AddExitLeaves ==
    ASSUME TypeInv, NEW p \in Pass, pc[p] \in {"event", "stamp"}, job[p].group \in Group,
           applied'[p] = AddExit(p), todo'[p] = todo[p], pc'[p] = "work"
    PROVE  \A g, S : Leaves(p, g, S)' => Leaves(p, g, S)
<1> DEFINE x == [group |-> job[p].group, rows |-> job[p].rows, rolled |-> job[p].to # NoGroup]
<1>1. applied'[p] = applied[p] \/ applied'[p] = Append(applied[p], x)
  BY DEF AddExit
<1>2. x.group = job[p].group /\ x.rows = job[p].rows
  OBVIOUS
<1>3. applied[p] \in Seq(AppliedExit) /\ x \in AppliedExit
  BY DEF TypeInv, TypeOK, AppliedExit, Job
<1> HIDE DEF x
<1>4. Items(applied'[p]) \subseteq Items(applied[p]) \cup {x}
  <2>1. Items(Append(applied[p], x)) = Items(applied[p]) \cup {x}
    BY <1>3, ItemsAppend
  <2> QED
    BY <1>1, <2>1
<1>5. \A y \in Items(applied[p])' : y \in Items(applied[p]) \/ y = x
  BY <1>4 DEF Items
<1> QED
  BY <1>2, <1>5 DEF Leaves

\* The calls that write an event or the stamp.
LEMMA EventRolls ==
    ASSUME TypeInv, NEW p \in Pass, RollInv(p), Allocated \subseteq Allocated',
           (\E e \in pending[p] : EmitEvent(p, e)) \/ Stamp(p)
    PROVE  RollInv(p)'
<1>1. UNCHANGED <<cand, cluster, created, phase, newGroup, todo>>
  BY DEF EmitEvent, Stamp
<1>2. pc[p] \in {"event", "stamp"} /\ pc'[p] \in {"event", "stamp", "work"}
  <2>1. pc[p] \in {"event", "stamp"}
        /\ (UNCHANGED pc \/ \E v \in {"stamp", "work"} : pc' = [pc EXCEPT ![p] = v])
    BY DEF EmitEvent, Stamp
  <2> QED
    BY <2>1 DEF TypeInv, TypeOK
<1>3. \/ pc'[p] = pc[p] /\ pc[p] = "event" /\ UNCHANGED <<job, applied>>
      \/ pc'[p] = "stamp" /\ UNCHANGED <<job, applied>>
      \/ pc'[p] = "work" /\ applied'[p] = AddExit(p) /\ job[p].group \in Group
  BY DEF EmitEvent, Stamp, TypeInv, TypeOK
<1>4. pending'[p] \subseteq pending[p] /\ (pending'[p] # {} => UNCHANGED <<pc, job>> /\ pc[p] = "event")
  <2>1. CASE Stamp(p)
    <3>1. UNCHANGED pending /\ pc[p] = "stamp"
      BY <2>1 DEF Stamp
    <3> QED
      BY <3>1 DEF RollInv, NewGroupLast
  <2>2. ASSUME NEW e \in pending[p], EmitEvent(p, e)
        PROVE  pending'[p] \subseteq pending[p] /\ (pending'[p] # {} => UNCHANGED <<pc, job>> /\ pc[p] = "event")
    <3>1. /\ pending' = [pending EXCEPT ![p] = @ \ {e}] /\ pc[p] = "event"
          /\ pending[p] # {e} => UNCHANGED <<pc, job>>
      BY <2>2 DEF EmitEvent
    <3>2. pending'[p] = pending[p] \ {e}
      BY <3>1 DEF TypeInv, TypeOK
    <3> QED
      BY <3>1, <3>2
  <2> QED
    BY <2>1, <2>2
<1>5. \A g, S : Leaves(p, g, S)' => Leaves(p, g, S)
  <2>1. UNCHANGED <<job, applied>> => \A g, S : Leaves(p, g, S)' => Leaves(p, g, S)
    BY <1>1, <1>2 DEF Leaves, Items
  <2> QED
    BY <1>1, <1>2, <1>3, <2>1, AddExitLeaves
<1>6. ~Making(p)' /\ pc'[p] \notin {"idle", "linkOrders", "snapshot", "rolls"}
  BY <1>2 DEF Making
<1>7. \A g, S : Makes(p, g, S)' => Makes(p, g, S)
  BY <1>1, <1>6, MakesFrom
<1>8. NothingDone(p)'
  BY <1>6 DEF NothingDone
<1>9. pc'[p] = "event" => job'[p] = job[p] /\ pc[p] = "event"
  BY <1>2, <1>3
<1> QED
  BY <1>1, <1>4, <1>5, <1>6, <1>7, <1>8, <1>9, SameRolls

\* The roll post-pass takes the exits one by one.
LEMMA LinkRolls ==
    ASSUME TypeInv, NEW p \in Pass, RollInv(p), Allocated \subseteq Allocated', LinkRoll(p)
    PROVE  RollInv(p)'
<1>1. /\ UNCHANGED <<pc, phase, cand, cluster, created, newGroup, todo, job, pending>>
      /\ pc[p] = "rolls" /\ applied[p] # <<>> /\ applied' = [applied EXCEPT ![p] = Tail(@)]
  BY DEF LinkRoll
<1>2. applied[p] \in Seq(AppliedExit) /\ applied'[p] = Tail(applied[p])
  BY <1>1 DEF TypeInv, TypeOK
<1>3. Items(applied'[p]) \subseteq Items(applied[p])
  BY <1>1, <1>2, ItemsTail
<1>4. \A y \in Items(applied[p])' : y \in Items(applied[p])
  BY <1>3 DEF Items
<1>5. \A g, S : Leaves(p, g, S)' => Leaves(p, g, S)
  BY <1>1, <1>4 DEF Leaves
<1>6. \A g, S : Makes(p, g, S)' => Makes(p, g, S)
  BY <1>1, MakesFrom DEF Making
<1>7. NothingDone(p)'
  BY <1>1 DEF NothingDone
<1>8. pending'[p] = {} /\ ~Making(p)' /\ pc'[p] = "rolls"
  BY <1>1 DEF RollInv, NewGroupLast, Making
<1> QED
  BY <1>1, <1>5, <1>6, <1>7, <1>8, SameRolls

\* A pass that ends or dies keeps nothing.
LEMMA ForgetRolls ==
    ASSUME TypeInv, NEW p \in Pass, RollInv(p), Allocated \subseteq Allocated',
           EndPass(p) \/ AbortPass(p)
    PROVE  RollInv(p)'
<1>1. Forget(p)
  BY DEF EndPass, AbortPass
<1>2. /\ pc'[p] = "idle" /\ phase'[p] = "routed" /\ cand'[p] = {} /\ cluster'[p] = {}
      /\ newGroup'[p] = NoGroup /\ todo'[p] = {} /\ pending'[p] = {}
      /\ applied'[p] = <<>> /\ created'[p] = <<>>
  BY <1>1 DEF Forget, TypeInv, TypeOK
<1>3. ~Making(p)' /\ Items(applied[p])' = {} /\ Items(created[p])' = {}
  BY <1>2 DEF Making, Items
<1>4. \A g, S : ~Makes(p, g, S)' /\ ~Leaves(p, g, S)'
  BY <1>2, <1>3 DEF Makes, Leaves
<1>5. MadeForward(p)' /\ LeavesKnown(p)'
  BY <1>4 DEF MadeForward, LeavesKnown
<1>6. InOrder(p)' /\ NewGroupLast(p)' /\ NothingDone(p)'
  BY <1>2, <1>3 DEF InOrder, NewGroupLast, NothingDone, Earlier
<1> QED
  BY <1>5, <1>6 DEF RollInv

\* The snapshot fixes the rows of a pass that has done nothing.
LEMMA SnapshotRolls ==
    ASSUME TypeInv, ClaimInv, NEW p \in Pass, RollInv(p), Snapshot(p)
    PROVE  RollInv(p)'
<1>1. /\ pc[p] = "snapshot" /\ pc' = [pc EXCEPT ![p] = "list"]
      /\ UNCHANGED <<cluster, todo, applied, created, pending, phase, newGroup>>
  BY DEF Snapshot
<1>2. /\ pc'[p] = "list" /\ cluster'[p] = {} /\ todo'[p] = {} /\ pending'[p] = {}
      /\ applied'[p] = <<>> /\ created'[p] = <<>>
  BY <1>1 DEF TypeInv, TypeOK, ClaimInv, NothingYet, RollInv, NothingDone, NewGroupLast
<1>3. ~Making(p)' /\ Items(applied[p])' = {} /\ Items(created[p])' = {}
  BY <1>2 DEF Making, Items
<1>4. \A g, S : ~Makes(p, g, S)' /\ ~Leaves(p, g, S)'
  BY <1>2, <1>3 DEF Makes, Leaves
<1>5. MadeForward(p)' /\ LeavesKnown(p)'
  BY <1>4 DEF MadeForward, LeavesKnown
<1>6. InOrder(p)' /\ NewGroupLast(p)' /\ NothingDone(p)'
  BY <1>1, <1>2, <1>3 DEF InOrder, NewGroupLast, NothingDone, Earlier, RollInv
<1> QED
  BY <1>5, <1>6 DEF RollInv

\* The rows of a cluster that are pre-attributed leave or join before the rows kept
\* for later, and after those of every group made so far.
LEMMA TakeClusterRolls ==
    ASSUME TypeInv, KnownInv', NEW p \in Pass, RollInv(p), TakeCluster(p)
    PROVE  RollInv(p)'
<1> DEFINE c == FirstCluster(cand[p])
<1>1. /\ pc[p] = "work" /\ phase[p] = "routed"
      /\ UNCHANGED <<pc, job, pending, applied, created, tables>>
      /\ cand' = [cand EXCEPT ![p] = cand[p] \ c]
      /\ cluster' = [cluster EXCEPT ![p] = {t \in c : intended[p][t] = NoGroup}]
      /\ todo' = [todo EXCEPT ![p] = IntentJobs(p, c)]
      /\ phase' = [phase EXCEPT ![p] = "intent"]
      /\ newGroup' = [newGroup EXCEPT ![p] = NoGroup]
  BY DEF TakeCluster
<1>2. cand[p] \in SUBSET Txn
  BY DEF TypeInv, TypeOK
<1>3. c \subseteq cand[p] /\ Earlier(c, cand[p] \ c)
  BY <1>2, FirstClusterEarlier DEF FirstCluster
<1> HIDE DEF c
<1>4. /\ cand'[p] = cand[p] \ c /\ cluster'[p] \subseteq c /\ todo'[p] = IntentJobs(p, c)
      /\ phase'[p] = "intent" /\ newGroup'[p] = NoGroup
  BY <1>1 DEF TypeInv, TypeOK
<1>5. \A j \in todo'[p] : /\ j.rows \subseteq c /\ j.rows # {} /\ j.kind # "create"
                          /\ j.group \in Allocated'
  <2>1. c \in SUBSET Txn
    BY <1>2, <1>3
  <2>2. \A j \in IntentJobs(p, c) : j.group \in Group /\ j.kind # "create"
    BY <2>1, IntentJobsType
  <2>3. \A j \in IntentJobs(p, c) : j.rows \subseteq c /\ j.rows # {}
    <3>1. \A j \in IntentJobs(p, c) : j.rows # {}
      BY DEF IntentJobs
    <3> QED
      BY <3>1, IntentJobsApart
  <2> QED
    BY <1>4, <2>2, <2>3, RoutingAssumption DEF KnownInv, PassKnown
<1>6. \A g, S : Makes(p, g, S)' <=> Makes(p, g, S)
  BY <1>1 DEF Makes, Making
<1>7. \A h, T : Leaves(p, h, T)' =>
          Leaves(p, h, T) \/ (h \in Allocated' /\ T \subseteq c /\ T # {})
  BY <1>1, <1>5 DEF Leaves
<1>8. MadeForward(p)'
  <2> SUFFICES ASSUME NEW g \in Group, NEW S \in SUBSET Txn, Makes(p, g, S)
               PROVE  /\ S # {} /\ Earlier(S, cand'[p] \cup cluster'[p])
                      /\ \A h \in Group, T \in SUBSET Txn :
                            Leaves(p, h, T)' => h < g \/ Earlier(S, T)
    BY <1>6 DEF MadeForward, Earlier
  <2>1. /\ S # {} /\ Earlier(S, cand[p] \cup cluster[p])
        /\ \A h \in Group, T \in SUBSET Txn : Leaves(p, h, T) => h < g \/ Earlier(S, T)
    BY DEF RollInv, MadeForward
  <2>2. Earlier(S, cand'[p] \cup cluster'[p])
    BY <1>3, <1>4, <2>1, FewerEarlier
  <2>3. \A T : T \subseteq c => Earlier(S, T)
    BY <1>3, <2>1, FewerEarlier
  <2> QED
    BY <1>7, <2>1, <2>2, <2>3
<1>9. LeavesKnown(p)'
  BY <1>1, <1>7 DEF RollInv, LeavesKnown, Allocated, tables
<1>10. InOrder(p)'
  <2>1. Earlier(cluster'[p], cand'[p]) /\ \A j \in todo'[p] : Earlier(j.rows, cand'[p])
    BY <1>3, <1>4, <1>5, FewerEarlier
  <2> QED
    BY <1>1, <1>4, <1>5, <2>1 DEF InOrder, Earlier
<1>11. NewGroupLast(p)'
  BY <1>1, <1>4 DEF RollInv, NewGroupLast, Making
<1>12. NothingDone(p)'
  BY <1>1 DEF NothingDone
<1> QED
  BY <1>8, <1>9, <1>10, <1>11, <1>12 DEF RollInv

\* So do the rows that are routed; what is left over opens one group.
LEMMA RouteRolls ==
    ASSUME TypeInv, KnownInv', NEW p \in Pass, RollInv(p), Route(p)
    PROVE  RollInv(p)'
<1>1. PICK routed :
        /\ pc[p] = "work" /\ phase[p] = "intent"
        /\ UNCHANGED <<pc, job, pending, applied, created, tables, cand, newGroup>>
        /\ cluster' = [cluster EXCEPT ![p] = {}]
        /\ todo' = [todo EXCEPT ![p] = RoutedJobs(p, routed)]
        /\ phase' = [phase EXCEPT ![p] = "routed"]
  BY DEF Route
<1>2. /\ cluster'[p] = {} /\ todo'[p] = RoutedJobs(p, routed) /\ phase'[p] = "routed"
      /\ newGroup'[p] = NoGroup
  BY <1>1 DEF TypeInv, TypeOK, RollInv, NewGroupLast
<1>3. \A j \in todo'[p] : /\ j.rows \subseteq cluster[p] /\ j.rows # {}
                          /\ j.kind # "create" => j.group \in Allocated'
  <2>1. \A j \in RoutedJobs(p, routed) : j.kind # "create" => j.group \in Group
    BY RoutedJobsType
  <2>2. \A j \in RoutedJobs(p, routed) : j.rows \subseteq cluster[p]
    BY RoutedJobsApart
  <2>3. \A j \in RoutedJobs(p, routed) : j.rows # {}
    <3> DEFINE bucket(g) == {t \in cluster[p] : routed.to[t] = g}
    <3>1. \A kind, key, g, S : NewJob(kind, key, g, S).rows = S
      BY DEF NewJob
    <3>2. ASSUME NEW j \in RoutedJobs(p, routed)
          PROVE  \/ bucket(NoGroup) # {} /\ j = NewJob("create", 0, NoGroup, bucket(NoGroup))
                 \/ \E g \in Group : /\ bucket(g) # {}
                                     /\ j = NewJob("exit", First(bucket(g)), g, bucket(g))
      BY DEF RoutedJobs
    <3> HIDE DEF bucket
    <3> QED
      BY <3>1, <3>2
  <2> QED
    BY <1>2, <2>1, <2>2, <2>3, RoutingAssumption DEF KnownInv, PassKnown
<1>4. \A j, k \in todo'[p] : j.kind = "create" /\ k.kind = "create" => j = k
  <2> DEFINE opens == {t \in cluster[p] : routed.to[t] = NoGroup}
  <2>1. \A kind, key, g, S : NewJob(kind, key, g, S).kind = kind
    BY DEF NewJob
  <2>2. \A j \in RoutedJobs(p, routed) :
            \/ \E key, g, S : j = NewJob("exit", key, g, S)
            \/ j = NewJob("create", 0, NoGroup, opens)
    BY DEF RoutedJobs
  <2> HIDE DEF opens
  <2>3. \A j \in RoutedJobs(p, routed) :
            j.kind = "create" => j = NewJob("create", 0, NoGroup, opens)
    BY <2>1, <2>2
  <2> QED
    BY <1>2, <2>3
<1>5. \A g, S : Makes(p, g, S)' <=> Makes(p, g, S)
  BY <1>1 DEF Makes, Making
<1>6. \A h, T : Leaves(p, h, T)' =>
          Leaves(p, h, T) \/ (h \in Allocated' /\ T \subseteq cluster[p] /\ T # {})
  BY <1>1, <1>3 DEF Leaves
<1>7. MadeForward(p)'
  <2> SUFFICES ASSUME NEW g \in Group, NEW S \in SUBSET Txn, Makes(p, g, S)
               PROVE  /\ S # {} /\ Earlier(S, cand'[p] \cup cluster'[p])
                      /\ \A h \in Group, T \in SUBSET Txn :
                            Leaves(p, h, T)' => h < g \/ Earlier(S, T)
    BY <1>5 DEF MadeForward, Earlier
  <2>1. /\ S # {} /\ Earlier(S, cand[p] \cup cluster[p])
        /\ \A h \in Group, T \in SUBSET Txn : Leaves(p, h, T) => h < g \/ Earlier(S, T)
    BY DEF RollInv, MadeForward
  <2>2. Earlier(S, cand'[p] \cup cluster'[p])
    BY <1>1, <1>2, <2>1, FewerEarlier
  <2>3. \A T : T \subseteq cluster[p] => Earlier(S, T)
    BY <2>1, FewerEarlier
  <2> QED
    BY <1>6, <2>1, <2>2, <2>3
<1>8. LeavesKnown(p)'
  BY <1>1, <1>6 DEF RollInv, LeavesKnown, Allocated, tables
<1>9. InOrder(p)'
  <2>1. \A j \in todo'[p] : Earlier(j.rows, cand'[p])
    BY <1>1, <1>3, FewerEarlier DEF RollInv, InOrder
  <2> QED
    BY <1>2, <1>3, <1>4, <2>1 DEF InOrder, Earlier
<1>10. NewGroupLast(p)'
  BY <1>1, <1>2 DEF RollInv, NewGroupLast, Making
<1>11. NothingDone(p)'
  BY <1>1 DEF NothingDone
<1> QED
  BY <1>7, <1>8, <1>9, <1>10, <1>11 DEF RollInv

\* A new group is later than every group rows leave through so far.
LEMMA CreateRolls ==
    ASSUME TypeInv, KnownInv, Allocated \subseteq Allocated', NEW p \in Pass, RollInv(p),
           NEW j \in todo[p], NEW g \in Group, Create(p, j, g)
    PROVE  RollInv(p)'
<1>1. /\ pc[p] = "work" /\ j.kind = "create" /\ FreeGroup(g)
      /\ UNCHANGED <<cand, cluster, applied, created, pending, phase, newGroup>>
      /\ todo' = [todo EXCEPT ![p] = todo[p] \ {j}]
      /\ job' = [job EXCEPT ![p] = [j EXCEPT !.group = g]]
      /\ pc' = [pc EXCEPT ![p] = "createAttach"]
  BY DEF Create, NextJob
<1>2. /\ pc'[p] = "createAttach" /\ todo'[p] = todo[p] \ {j} /\ j.rows \in SUBSET Txn
      /\ job'[p].group = g /\ job'[p].rows = j.rows
  <2>1. LET k == [j EXCEPT !.group = g] IN k.group = g /\ k.rows = j.rows
    BY NextJobType DEF Job
  <2> QED
    BY <1>1, <2>1, NextJobType DEF TypeInv, TypeOK
<1>3. \A h \in Allocated : h < g
  <2> SUFFICES ASSUME NEW h \in Allocated
               PROVE  h < g
    OBVIOUS
  <2>1. h \in Nat /\ g \in Nat /\ h # g /\ g \notin Allocated
    BY <1>1, RoutingAssumption DEF Allocated, FreeGroup
  <2>2. ~ (g < h)
    BY <2>1 DEF KnownInv, TablesKnown
  <2> QED
    BY <2>1, <2>2
<1>4. phase[p] # "intent" /\ cluster[p] = {}
  BY <1>1 DEF TypeInv, JobsNameGroups, RollInv, InOrder
<1>5. j.rows # {} /\ Earlier(j.rows, cand[p] \cup cluster[p])
  BY <1>4 DEF RollInv, InOrder, Earlier
<1>6. \A h, T : Leaves(p, h, T)' => Leaves(p, h, T)
  BY <1>1, <1>2 DEF Leaves
<1>7. \A h, S : Makes(p, h, S)' => Makes(p, h, S) \/ (h = g /\ S = j.rows)
  BY <1>1, <1>2 DEF Makes
<1>8. MadeForward(p)'
  <2> SUFFICES ASSUME NEW h \in Group, NEW S \in SUBSET Txn, Makes(p, h, S)'
               PROVE  /\ S # {} /\ Earlier(S, cand[p] \cup cluster[p])
                      /\ \A k \in Group, T \in SUBSET Txn :
                            Leaves(p, k, T) => k < h \/ Earlier(S, T)
    BY <1>1, <1>6 DEF MadeForward, Earlier
  <2>1. CASE Makes(p, h, S)
    BY <2>1 DEF RollInv, MadeForward
  <2>2. CASE h = g /\ S = j.rows
    BY <1>3, <1>5, <2>2 DEF RollInv, LeavesKnown
  <2> QED
    BY <1>7, <2>1, <2>2
<1>9. LeavesKnown(p)'
  BY <1>6 DEF RollInv, LeavesKnown
<1>10. InOrder(p)'
  BY <1>1, <1>2, <1>4 DEF RollInv, InOrder, Earlier
<1>11. NewGroupLast(p)'
  <2>1. ASSUME NEW k \in todo'[p]
        PROVE  k.kind # "create" /\ k.group < g
    <3>1. k \in todo[p] /\ k # j
      BY <1>2, <2>1
    <3>2. k.kind # "create"
      BY <1>1, <3>1 DEF RollInv, InOrder
    <3>3. Leaves(p, k.group, k.rows)
      BY <3>1, <3>2 DEF Leaves
    <3>4. k.group \in Allocated
      BY <3>1, <3>2, <3>3, NextJobType DEF RollInv, LeavesKnown
    <3> QED
      BY <1>3, <3>2, <3>4
  <2>2. newGroup[p] = NoGroup
    BY <1>1 DEF RollInv, NewGroupLast
  <2>3. pending'[p] = {}
    BY <1>1 DEF RollInv, NewGroupLast
  <2> QED
    BY <1>1, <1>2, <1>4, <2>1, <2>2, <2>3 DEF NewGroupLast
<1>12. NothingDone(p)'
  BY <1>2 DEF NothingDone
<1> QED
  BY <1>8, <1>9, <1>10, <1>11, <1>12 DEF RollInv

\* Once it is announced, it is the group the closes of its cluster may roll to.
LEMMA EntryRolls ==
    ASSUME TypeInv, Allocated \subseteq Allocated', NEW p \in Pass, RollInv(p), CreateEntry(p)
    PROVE  RollInv(p)'
<1>1. PICK g \in Group :
        /\ g = job[p].group
        /\ newGroup' = [newGroup EXCEPT ![p] = g]
        /\ created' = [created EXCEPT ![p] =
                Append(created[p], [group |-> g, rows |-> job[p].rows])]
  BY DEF CreateEntry
<1>2. /\ pc[p] = "createEntry" /\ pc' = [pc EXCEPT ![p] = "work"]
      /\ UNCHANGED <<cand, cluster, applied, pending, phase, todo>>
  BY DEF CreateEntry
<1> DEFINE m == [group |-> g, rows |-> job[p].rows]
<1>3. /\ pc'[p] = "work" /\ newGroup'[p] = g /\ created'[p] = Append(created[p], m)
      /\ created[p] \in Seq(CreatedGroup) /\ m \in CreatedGroup
  BY <1>1, <1>2 DEF TypeInv, TypeOK, CreatedGroup, Job
<1>4. m.group = g /\ m.rows = job[p].rows
  OBVIOUS
<1> HIDE DEF m
<1>5. Items(created[p])' = Items(created[p]) \cup {m}
  <2>1. Items(created'[p]) = Items(created[p]) \cup {m}
    BY <1>3, ItemsAppend
  <2> QED
    BY <2>1 DEF Items
<1>6. Making(p) /\ ~Making(p)' /\ pending[p] = {}
  BY <1>2, <1>3 DEF Making, RollInv, NewGroupLast
<1>7. \A h, S : Makes(p, h, S)' => Makes(p, h, S)
  BY <1>1, <1>4, <1>5, <1>6 DEF Makes
<1>8. \A h, T : Leaves(p, h, T)' => Leaves(p, h, T)
  BY <1>2, <1>3 DEF Leaves
<1>9. MadeForward(p)'
  BY <1>2, <1>7, <1>8 DEF RollInv, MadeForward, Earlier
<1>10. LeavesKnown(p)'
  BY <1>8 DEF RollInv, LeavesKnown
<1>11. InOrder(p)'
  BY <1>2, <1>3 DEF RollInv, InOrder, Earlier
<1>12. NewGroupLast(p)'
  BY <1>1, <1>2, <1>3, <1>6 DEF RollInv, NewGroupLast
<1>13. NothingDone(p)'
  BY <1>3 DEF NothingDone
<1> QED
  BY <1>9, <1>10, <1>11, <1>12, <1>13 DEF RollInv

\* An exit continues nowhere but in the group its cluster opened.
LEMMA ExitEventsLead ==
    ASSUME NEW p \in Pass, NEW j, NEW S
    PROVE  \A e \in ExitEvents(p, j, S) : e.to \in {NoGroup, newGroup[p]}
<1>1. \A T : RolledTo(p, T) \in {NoGroup, newGroup[p]} /\ DeliveredTo(p, T) \in {NoGroup, newGroup[p]}
  BY DEF RolledTo, DeliveredTo
<1>2. ASSUME NEW e \in ExitEvents(p, j, S)
      PROVE  \E k, R, to : /\ e = [key |-> k, rows |-> R, to |-> to]
                           /\ to \in {NoGroup, RolledTo(p, j.rows), DeliveredTo(p, j.rows)}
  BY DEF ExitEvents
<1> QED
  BY <1>1, <1>2

\* The rows of an exit are on their way out.
LEMMA ExitRolls ==
    ASSUME TypeInv, Allocated \subseteq Allocated', NEW p \in Pass, RollInv(p),
           NEW j \in todo[p], ExitAttach(p, j)
    PROVE  RollInv(p)'
<1> DEFINE new == {t \in j.rows : book[p][j.group][t] = 0}
<1>1. /\ pc[p] = "work" /\ j.kind = "exit"
      /\ UNCHANGED <<cand, cluster, applied, created, phase, newGroup>>
      /\ todo' = [todo EXCEPT ![p] = todo[p] \ {j}]
  BY DEF ExitAttach, NextJob
<1>2. todo'[p] = todo[p] \ {j} /\ pending[p] = {}
  BY <1>1 DEF TypeInv, TypeOK, RollInv, NewGroupLast
<1>3. CASE new = {}
  <2>1. UNCHANGED <<pc, job, pending>>
    BY <1>3 DEF ExitAttach
  <2>2. \A g, S : Leaves(p, g, S)' => Leaves(p, g, S)
    BY <1>1, <1>2, <2>1 DEF Leaves
  <2>3. \A g, S : Makes(p, g, S)' => Makes(p, g, S)
    BY <1>1, <2>1 DEF Makes, Making
  <2>4. NothingDone(p)'
    BY <1>1, <2>1 DEF NothingDone
  <2>5. ~Making(p)' /\ pc'[p] = "work" /\ pending'[p] = {}
    BY <1>1, <1>2, <2>1 DEF Making
  <2> QED
    BY <1>1, <1>2, <2>2, <2>3, <2>4, <2>5, SameRolls
<1>4. CASE new # {}
  <2>1. /\ pc' = [pc EXCEPT ![p] = "event"]
        /\ pending' = [pending EXCEPT ![p] = ExitEvents(p, j, new)]
        /\ job' = [job EXCEPT ![p] = [j EXCEPT !.rows = new, !.to = RolledTo(p, j.rows)]]
    BY <1>4 DEF ExitAttach
  <2>2. new \subseteq j.rows
    OBVIOUS
  <2> HIDE DEF new
  <2>3. /\ pc'[p] = "event" /\ pending'[p] = ExitEvents(p, j, new)
        /\ job'[p].group = j.group /\ job'[p].rows = new
    <3>1. \A S, to : LET k == [j EXCEPT !.rows = S, !.to = to] IN k.group = j.group /\ k.rows = S
      BY NextJobType DEF Job
    <3> QED
      BY <2>1, <3>1 DEF TypeInv, TypeOK
  <2>4. Leaves(p, j.group, j.rows) /\ j.group \in Group /\ j.rows \in SUBSET Txn
    BY <1>1, NextJobType DEF Leaves
  <2>5. \A h, T : Leaves(p, h, T)' => Leaves(p, h, T) \/ (h = j.group /\ T = new)
    BY <1>1, <1>2, <2>3 DEF Leaves
  <2>6. ~Making(p)'
    BY <2>3 DEF Making
  <2>7. \A g, S : Makes(p, g, S)' => Makes(p, g, S)
    BY <1>1, <2>6, MakesFrom
  <2>8. MadeForward(p)'
    <3> SUFFICES ASSUME NEW g \in Group, NEW S \in SUBSET Txn, Makes(p, g, S)
                 PROVE  /\ S # {} /\ Earlier(S, cand[p] \cup cluster[p])
                        /\ \A h \in Group, T \in SUBSET Txn :
                              Leaves(p, h, T)' => h < g \/ Earlier(S, T)
      BY <1>1, <2>7 DEF MadeForward, Earlier
    <3>1. /\ S # {} /\ Earlier(S, cand[p] \cup cluster[p])
          /\ \A h \in Group, T \in SUBSET Txn : Leaves(p, h, T) => h < g \/ Earlier(S, T)
      BY DEF RollInv, MadeForward
    <3>2. j.group < g \/ Earlier(S, new)
      BY <2>2, <2>4, <3>1 DEF Earlier
    <3> QED
      BY <2>5, <3>1, <3>2
  <2>9. LeavesKnown(p)'
    BY <1>4, <2>4, <2>5 DEF RollInv, LeavesKnown
  <2>10. InOrder(p)'
    BY <1>1, <1>2, <2>3 DEF RollInv, InOrder, Earlier
  <2>11. NewGroupLast(p)'
    BY <1>1, <1>2, <2>3, <2>6, ExitEventsLead DEF RollInv, NewGroupLast
  <2>12. NothingDone(p)'
    BY <2>3 DEF NothingDone
  <2> QED
    BY <2>8, <2>9, <2>10, <2>11, <2>12 DEF RollInv
<1> QED
  BY <1>3, <1>4

Rolls == \A p \in Pass : RollInv(p)

\* Every step keeps the rolls of every pass in order.
LEMMA NextRolls ==
    ASSUME GroupInv, Rolls, [Next]_vars
    PROVE  Rolls'
<1>1. KnownInv' /\ Allocated \subseteq Allocated' /\ TypeInv
  BY NextKnown DEF GroupInv
<1>2. \A q \in Pass : Same(q) => RollInv(q)'
  <2> SUFFICES ASSUME NEW q \in Pass, Same(q)
               PROVE  RollInv(q)'
    OBVIOUS
  <2>1. /\ \A g, S : Makes(q, g, S)' <=> Makes(q, g, S)
        /\ \A g, S : Leaves(q, g, S)' <=> Leaves(q, g, S)
    BY DEF Same, Makes, Leaves, Making, Items
  <2>2. NothingDone(q)' /\ (pending'[q] # {} => pc'[q] = "event")
    BY DEF Same, Rolls, RollInv, NothingDone, NewGroupLast
  <2>3. RollInv(q)
    BY DEF Rolls
  <2>4. /\ cand'[q] = cand[q] /\ cluster'[q] = cluster[q] /\ todo'[q] = todo[q]
        /\ phase'[q] = phase[q] /\ newGroup'[q] = newGroup[q] /\ pc'[q] = pc[q]
        /\ job'[q] = job[q] /\ pending'[q] = pending[q] /\ (Making(q)' => Making(q))
    BY DEF Same, Making
  <2> QED
    BY <1>1, <2>1, <2>2, <2>3, <2>4, SameRolls
<1>3. CASE UNCHANGED vars
  <2>1. \A q \in Pass : Same(q)
    BY <1>3 DEF vars, locals, Same
  <2> QED
    BY <1>2, <2>1 DEF Rolls
<1>4. CASE Feed
  BY <1>2, <1>4, FeedLeaves DEF Rolls, GroupInv
<1>5. ASSUME NEW p \in Pass, Step(p) \/ AbortPass(p)
      PROVE  Rolls'
  <2>1. RollInv(p)
    BY DEF Rolls
  <2>2. Load(p) => RollInv(p)'
    BY <1>1, <2>1, ReadRolls, SnapshotRolls DEF Load, GroupInv
  <2>3. Attribute(p) => RollInv(p)'
    BY <1>1, <2>1, ReadRolls, TakeClusterRolls, RouteRolls, CreateRolls, EntryRolls, ExitRolls,
       EventRolls DEF Attribute, GroupInv
  <2>4. Finish(p) \/ AbortPass(p) => RollInv(p)'
    BY <1>1, <2>1, ReadRolls, LinkRolls, ForgetRolls DEF Finish
  <2>5. \A q \in Pass : q # p => Same(q)
    BY <1>1, <1>5, StepFrame
  <2> QED
    BY <1>2, <1>5, <2>2, <2>3, <2>4, <2>5 DEF Step, Rolls
<1> QED
  BY <1>3, <1>4, <1>5 DEF Next

\* A continuation is only ever written to a later group.
LEMMA NextEdges ==
    ASSUME GroupInv, Rolls, RollsGoForward, [Next]_vars
    PROVE  RollsGoForward'
<1>1. UNCHANGED edges => RollsGoForward'
  BY DEF RollsGoForward
<1>2. ASSUME NEW p \in Pass, NEW e \in pending[p], EmitEvent(p, e)
      PROVE  RollsGoForward'
  <2>1. PICK g \in Group : g = job[p].group /\ AddExitEvent(g, e.rows, e.to)
    BY <1>2 DEF EmitEvent
  <2>2. pc[p] = "event" /\ e.to \in {NoGroup, newGroup[p]}
    BY <1>2 DEF Rolls, RollInv, NewGroupLast
  <2>3. e.to # NoGroup => g < e.to
    BY <2>1, <2>2 DEF Rolls, RollInv, NewGroupLast
  <2>4. edges' = edges \/ (e.to # NoGroup /\ edges' = edges \cup {<<g, e.to>>})
    BY <2>1 DEF AddExitEvent
  <2> QED
    BY <2>3, <2>4 DEF RollsGoForward
<1>3. ASSUME NEW p \in Pass, LinkRoll(p)
      PROVE  RollsGoForward'
  <2> DEFINE exit == Head(applied[p])
             targets == RollTargets(p, exit)
             k == First(targets)
  <2>1. /\ pc[p] = "rolls" /\ applied[p] # <<>>
        /\ IF targets # {} THEN AddExitEvent(exit.group, {}, created[p][k].group)
                           ELSE UNCHANGED tables
    BY <1>3 DEF LinkRoll
  <2>2. CASE targets = {}
    BY <1>1, <2>1, <2>2 DEF tables
  <2>3. CASE targets # {}
    <3>1. applied[p] \in Seq(AppliedExit) /\ created[p] \in Seq(CreatedGroup)
      BY DEF GroupInv, TypeInv, TypeOK
    <3>2. targets \in SUBSET (1 .. Len(created[p])) /\ targets \in SUBSET Nat
      <4>1. Len(created[p]) \in Nat
        BY <3>1, LenProperties
      <4> QED
        BY <4>1 DEF RollTargets
    <3>3. k \in targets
      BY <2>3, <3>2, FirstOfNats
    <3>4. LegsOfOneRoll(exit.rows, created[p][k].rows)
      BY <3>3 DEF RollTargets
    <3>5. exit \in Items(applied[p]) /\ exit \in AppliedExit
      <4>1. exit \in Items(applied[p])
        BY <2>1, <3>1, ItemsTail
      <4>2. \A x \in Items(applied[p]) : x \in AppliedExit
        BY <3>1 DEF Items
      <4> QED
        BY <4>1, <4>2
    <3>6. created[p][k] \in Items(created[p]) /\ created[p][k] \in CreatedGroup
      BY <3>1, <3>2, <3>3 DEF Items
    <3> DEFINE m == created[p][k]
    <3> HIDE DEF exit, targets, k, m
    <3>7. /\ exit.group \in Group /\ exit.rows \in SUBSET Txn
          /\ m.group \in Group /\ m.rows \in SUBSET Txn
      BY <3>5, <3>6 DEF AppliedExit, CreatedGroup, m
    <3>8. Leaves(p, exit.group, exit.rows) /\ Makes(p, m.group, m.rows)
      BY <3>5, <3>6 DEF Leaves, Makes, m
    <3>9. /\ exit.rows # {} /\ m.rows # {}
          /\ exit.group < m.group \/ Earlier(m.rows, exit.rows)
      BY <3>7, <3>8 DEF Rolls, RollInv, MadeForward, LeavesKnown
    <3>10. exit.group < m.group
      BY <3>4, <3>7, <3>9, RollInOrder DEF m
    <3>11. edges' = edges \cup {<<exit.group, m.group>>}
      BY <2>1, <2>3, <3>7, RoutingAssumption DEF AddExitEvent, m
    <3> QED
      BY <3>10, <3>11 DEF RollsGoForward
  <2> QED
    BY <2>2, <2>3
<1>4. ASSUME NEW p \in Pass, Load(p) \/ Attribute(p)
      PROVE  UNCHANGED edges \/ \E e \in pending[p] : EmitEvent(p, e)
  BY <1>4 DEF Load, BeginPass, LinkTransactionsToOrders, LinkOrders, LinkOrdersToGroups,
     Snapshot, ListOpen, LoadRows, Attribute, TakeCluster, Route, FindGroup, AttachFills,
     ExitAttach, AttachTransactions, RefreshRead, RefreshWrite, Create, UpsertTradeGroup,
     CreateAttach, CreateOrders, UpsertOrders, CreateEntry, AddEntryEvent, Stamp, tables
<1>5. ASSUME NEW p \in Pass, Finish(p) \/ AbortPass(p)
      PROVE  UNCHANGED edges \/ LinkRoll(p)
  BY <1>5 DEF Finish, EndClusters, StartHeal, HealRead, HealWrite, UpsertTradeGroup,
     EndPass, AbortPass, tables
<1>6. Feed \/ UNCHANGED vars => UNCHANGED edges
  BY DEF Feed, FeedTransaction, FeedOrder, FeedTradeGroup, FeedRecordOrder,
     SyncTransaction, UpsertTransaction, SyncOrder, RecordOrder, UpsertOrders,
     OpenTradeGroup, vars, tables
<1> QED
  BY <1>1, <1>2, <1>3, <1>4, <1>5, <1>6 DEF Next, Step

(* Continuations lead forward, whatever overlaps, fails or dies: a group that *)
(* continues another was opened after it, so no chain of rolls and deliveries *)
(* returns to a group. Both kinds of link rest on the order in which a pass   *)
(* works: the clusters in time order, and in each the new group before the    *)
(* closes (_apply_exit, _link_cross_cluster_rolls).                           *)
THEOREM ForwardRolls == Spec => []RollsGoForward
<1>1. Init => GroupInv /\ Rolls /\ RollsGoForward
  <2> SUFFICES ASSUME Init
               PROVE  GroupInv /\ Rolls /\ RollsGoForward
    OBVIOUS
  <2>1. ASSUME NEW p \in Pass
        PROVE  RollInv(p)
    <3>1. /\ pc[p] = "idle" /\ phase[p] = "routed" /\ cand[p] = {} /\ cluster[p] = {}
          /\ newGroup[p] = NoGroup /\ todo[p] = {} /\ pending[p] = {}
          /\ applied[p] = <<>> /\ created[p] = <<>>
      BY DEF Init
    <3>2. ~Making(p) /\ Items(applied[p]) = {} /\ Items(created[p]) = {}
      BY <3>1 DEF Making, Items
    <3>3. \A g, S : ~Makes(p, g, S) /\ ~Leaves(p, g, S)
      BY <3>1, <3>2 DEF Makes, Leaves
    <3> QED
      BY <3>1, <3>2, <3>3 DEF RollInv, MadeForward, LeavesKnown, InOrder, NewGroupLast,
         NothingDone, Earlier
  <2>2. edges = {}
    BY DEF Init, TablesInit
  <2> QED
    BY <2>1, <2>2, InitGroups DEF Rolls, RollsGoForward
<1>2. GroupInv /\ Rolls /\ RollsGoForward /\ [Next]_vars =>
        GroupInv' /\ Rolls' /\ RollsGoForward'
  BY NextGroups, NextRolls, NextEdges
<1> QED
  BY <1>1, <1>2, PTL DEF Spec

-----------------------------------------------------------------------------
(* A pass nothing disturbed settles the account.                           *)

\* Rows that can be linked to their order.
Linkables == {t \in txns : Row[t].order \in orders}

\* Nothing is left to do: no row to group or link, no flat group to close.
AllDone ==
    /\ Candidates = {}
    /\ Linkables \subseteq linked
    /\ \A g \in OpenGroups : ~FullyClosed(GroupTransactions(g))

\* The heal comes last, when nothing is left to route.
PhasesInOrder(p) ==
    /\ pc[p] = "idle" => phase[p] = "routed"
    /\ pc[p] \in {"heal", "healWrite"} => phase[p] = "heal"
    /\ phase[p] = "heal" => pc[p] \in {"list", "load", "heal", "healWrite"}
    /\ pc[p] = "rolls" \/ phase[p] = "heal" => cand[p] = {} /\ cluster[p] = {} /\ todo[p] = {}

\* Every candidate waits in the pass.
AllWait(p) == \A t \in Candidates : Waiting(p, t)

\* Every open group whose rows net out is still to be looked at.
FlatInHand(p) ==
    \A g \in OpenGroups :
        FullyClosed(GroupTransactions(g)) => g \in loading[p] \cup Listed(p)

\* What a pass that nothing has disturbed still has in hand: every candidate from
\* its snapshot on, every flat group from its second listing on.
InHand(p) ==
    /\ Linkables \subseteq linked
    /\ pc[p] \notin {"linkOrders", "snapshot"} => AllWait(p)
    /\ phase[p] = "heal" /\ pc[p] # "list" => FlatInHand(p)

\* A pass over settled books finds nothing to route, to link or to close.
Resting(p) ==
    /\ cand[p] = {} /\ cluster[p] = {} /\ todo[p] = {} /\ applied[p] = <<>>
    /\ pc[p] \in {"idle", "linkOrders", "snapshot", "list", "load", "work", "rolls", "heal"}
    /\ phase[p] # "intent"
    /\ loading[p] \subseteq OpenGroups /\ Listed(p) \subseteq OpenGroups
    /\ BookAgrees(p)

SettleInv ==
    /\ \A p \in Pass : PhasesInOrder(p)
    /\ \A p \in Pass : quiet[p] => InHand(p)
    /\ settled => AllDone /\ \A p \in Pass : Resting(p)


\* A pass's steps sync nothing; only its first one links rows.
LEMMA StepRows ==
    ASSUME NEW p \in Pass, Step(p) \/ AbortPass(p)
    PROVE  /\ UNCHANGED <<txns, orders>>
           /\ UNCHANGED linked \/ (BeginPass(p) /\ linked' = linked \cup Linkables)
<1>1. ASSUME Load(p)
      PROVE  /\ UNCHANGED <<txns, orders>>
             /\ UNCHANGED linked \/ (BeginPass(p) /\ linked' = linked \cup Linkables)
  BY <1>1 DEF Load, BeginPass, LinkTransactionsToOrders, LinkOrders, LinkOrdersToGroups,
     Snapshot, ListOpen, LoadRows, tables, Linkables
<1>2. ASSUME Attribute(p)
      PROVE  UNCHANGED <<txns, orders, linked>>
  <2>1. CASE CreateOrders(p)
    <3>1. \E S \in SUBSET orders : orders' = orders \cup S /\ UNCHANGED <<txns, linked>>
      BY <2>1 DEF CreateOrders, UpsertOrders
    <3> QED
      BY <3>1
  <2>2. CASE ~CreateOrders(p)
    BY <1>2, <2>2 DEF Attribute, TakeCluster, Route, FindGroup, AttachFills, ExitAttach,
       AttachTransactions, RefreshRead, RefreshWrite, Create, UpsertTradeGroup, CreateAttach,
       CreateEntry, AddEntryEvent, EmitEvent, AddExitEvent, Stamp, tables
  <2> QED
    BY <2>1, <2>2
<1>3. ASSUME Finish(p) \/ AbortPass(p)
      PROVE  UNCHANGED <<txns, orders, linked>>
  BY <1>3 DEF Finish, EndClusters, LinkRoll, AddExitEvent, StartHeal, HealRead, HealWrite,
     UpsertTradeGroup, EndPass, AbortPass, tables
<1> QED
  BY <1>1, <1>2, <1>3 DEF Step

\* Routing is over before the heal begins.
LEMMA StepPhases ==
    ASSUME TypeInv, NEW p \in Pass, InOrder(p), PhasesInOrder(p), Step(p) \/ AbortPass(p)
    PROVE  PhasesInOrder(p)'
<1>1. CASE BeginPass(p) \/ LinkOrders(p) \/ Snapshot(p)
  <2>1. /\ pc[p] \in {"idle", "linkOrders", "snapshot"} /\ UNCHANGED phase
        /\ \E v \in {"linkOrders", "snapshot", "list"} : pc' = [pc EXCEPT ![p] = v]
    BY <1>1 DEF BeginPass, MayBegin, LinkOrders, Snapshot
  <2>2. pc'[p] \in {"linkOrders", "snapshot", "list"}
    BY <2>1 DEF TypeInv, TypeOK
  <2> QED
    BY <2>1, <2>2 DEF PhasesInOrder
<1>2. CASE ListOpen(p) \/ \E g \in Group : LoadRows(p, g)
  <2>1. /\ UNCHANGED <<phase, cand, cluster, todo>>
        /\ \/ pc' = [pc EXCEPT ![p] = "load"]
           \/ pc' = [pc EXCEPT ![p] = "work"] /\ phase[p] # "heal"
           \/ pc' = [pc EXCEPT ![p] = "heal"] /\ phase[p] = "heal"
    BY <1>2 DEF ListOpen, LoadRows
  <2>2. \/ pc'[p] = "load"
        \/ pc'[p] = "work" /\ phase[p] # "heal"
        \/ pc'[p] = "heal" /\ phase[p] = "heal"
    BY <2>1 DEF TypeInv, TypeOK
  <2> QED
    BY <2>1, <2>2 DEF PhasesInOrder
<1>3. CASE Attribute(p)
  <2>1. pc[p] \notin {"idle", "list", "load", "heal", "healWrite"}
    <3>1. CASE \/ TakeCluster(p) \/ Route(p)
               \/ \E j \in todo[p] : \/ FindGroup(p, j) \/ AttachFills(p, j)
                                     \/ ExitAttach(p, j)
                                     \/ \E g \in Group : Create(p, j, g)
      <4>1. pc[p] = "work"
        BY <3>1 DEF TakeCluster, Route, FindGroup, AttachFills, ExitAttach, Create, NextJob
      <4> QED
        BY <4>1
    <3>2. CASE \/ RefreshRead(p) \/ RefreshWrite(p) \/ CreateAttach(p) \/ CreateOrders(p)
               \/ CreateEntry(p) \/ (\E e \in pending[p] : EmitEvent(p, e)) \/ Stamp(p)
      <4>1. pc[p] \in {"refreshRead", "refreshWrite", "createAttach", "createOrders",
                       "createEntry", "event", "stamp"}
        BY <3>2 DEF RefreshRead, RefreshWrite, CreateAttach, CreateOrders, CreateEntry,
           EmitEvent, Stamp
      <4> QED
        BY <4>1
    <3> QED
      BY <1>3, <3>1, <3>2 DEF Attribute
  <2>2. \/ UNCHANGED pc /\ pc[p] \in {"work", "event"}
        \/ \E v \in {"work", "refreshRead", "refreshWrite", "createAttach", "createOrders",
                     "createEntry", "event", "stamp"} : pc' = [pc EXCEPT ![p] = v]
    BY <1>3 DEF Attribute, TakeCluster, Route, FindGroup, NextJob, AttachFills, ExitAttach,
       RefreshRead, RefreshWrite, Create, CreateAttach, CreateOrders, CreateEntry, EmitEvent,
       Stamp
  <2>3. pc'[p] \notin {"idle", "rolls", "heal", "healWrite"}
    BY <2>2 DEF TypeInv, TypeOK
  <2>4. UNCHANGED phase \/ \E v \in {"intent", "routed"} : phase' = [phase EXCEPT ![p] = v]
    BY <1>3 DEF Attribute, TakeCluster, Route, FindGroup, NextJob, AttachFills, ExitAttach,
       RefreshRead, RefreshWrite, Create, CreateAttach, CreateOrders, CreateEntry, EmitEvent,
       Stamp
  <2>5. phase'[p] # "heal"
    BY <2>1, <2>4 DEF PhasesInOrder, TypeInv, TypeOK
  <2> QED
    BY <2>3, <2>5 DEF PhasesInOrder
<1>4. CASE EndClusters(p)
  <2>1. /\ pc' = [pc EXCEPT ![p] = "rolls"] /\ phase[p] = "routed"
        /\ UNCHANGED <<phase, cand, cluster, todo>> /\ cand[p] = {} /\ todo[p] = {}
    BY <1>4 DEF EndClusters
  <2>2. pc'[p] = "rolls" /\ cluster[p] = {}
    BY <2>1 DEF TypeInv, TypeOK, InOrder
  <2> QED
    BY <2>1, <2>2 DEF PhasesInOrder
<1>5. CASE LinkRoll(p) \/ StartHeal(p)
  <2>1. /\ pc[p] = "rolls" /\ UNCHANGED <<cand, cluster, todo>>
        /\ \/ UNCHANGED <<pc, phase>>
           \/ /\ pc' = [pc EXCEPT ![p] = "list"]
              /\ phase' = [phase EXCEPT ![p] = "heal"]
    BY <1>5 DEF LinkRoll, StartHeal
  <2>2. \/ pc'[p] = "rolls" /\ phase'[p] = phase[p]
        \/ pc'[p] = "list" /\ phase'[p] = "heal"
    BY <2>1 DEF TypeInv, TypeOK
  <2> QED
    BY <2>1, <2>2 DEF PhasesInOrder
<1>6. CASE HealRead(p) \/ HealWrite(p)
  <2>1. /\ pc[p] \in {"heal", "healWrite"} /\ UNCHANGED <<phase, cand, cluster, todo>>
        /\ UNCHANGED pc \/ \E v \in {"heal", "healWrite"} : pc' = [pc EXCEPT ![p] = v]
    BY <1>6 DEF HealRead, HealWrite
  <2>2. pc'[p] \in {"heal", "healWrite"}
    BY <2>1 DEF TypeInv, TypeOK
  <2> QED
    BY <2>1, <2>2 DEF PhasesInOrder
<1>7. CASE EndPass(p) \/ AbortPass(p)
  <2>1. Forget(p)
    BY <1>7 DEF EndPass, AbortPass
  <2>2. pc'[p] = "idle" /\ phase'[p] = "routed"
    BY <2>1 DEF Forget, TypeInv, TypeOK
  <2> QED
    BY <2>2 DEF PhasesInOrder
<1> QED
  BY <1>1, <1>2, <1>3, <1>4, <1>5, <1>6, <1>7 DEF Step, Load, Finish


\* Every row of a cluster whose order names a group is in a job.
LEMMA IntentJobsAll ==
    ASSUME NEW p \in Pass, NEW S, NEW t \in S, intended[p][t] \in Group
    PROVE  \E j \in IntentJobs(p, S) : t \in j.rows
<1> DEFINE g == intended[p][t]
           of == {u \in S : intended[p][u] = g}
           fill == NewJob("fill", First(of), g, {u \in of : ~IsClosing(u)})
           exit == NewJob("exit", First(of), g, {u \in of : IsClosing(u)})
<1>1. /\ fill.rows = {u \in of : ~IsClosing(u)}
      /\ exit.rows = {u \in of : IsClosing(u)}
  BY DEF NewJob
<1>2. fill.rows # {} => fill \in IntentJobs(p, S)
  BY DEF IntentJobs
<1>3. exit.rows # {} => exit \in IntentJobs(p, S)
  BY DEF IntentJobs
<1> HIDE DEF fill, exit
<1> QED
  BY <1>1, <1>2, <1>3

\* Every row that is routed is in a job.
LEMMA RoutedJobsAll ==
    ASSUME NEW p \in Pass, NEW routed, NEW t \in cluster[p],
           routed.to[t] \in Group \cup {NoGroup}
    PROVE  \E j \in RoutedJobs(p, routed) : t \in j.rows
<1> DEFINE bucket(g) == {u \in cluster[p] : routed.to[u] = g}
           exit(g) == NewJob("exit", First(bucket(g)), g, bucket(g))
           create == NewJob("create", 0, NoGroup, bucket(NoGroup))
<1>1. create.rows = bucket(NoGroup) /\ \A g : exit(g).rows = bucket(g)
  BY DEF NewJob
<1>2. bucket(NoGroup) # {} => create \in RoutedJobs(p, routed)
  BY DEF RoutedJobs
<1>3. \A g \in Group : bucket(g) # {} => exit(g) \in RoutedJobs(p, routed)
  BY DEF RoutedJobs
<1>4. t \in bucket(routed.to[t])
  OBVIOUS
<1> HIDE DEF exit, create
<1> QED
  BY <1>1, <1>2, <1>3, <1>4

\* A row goes on to wait, or it is given to a group.
LEMMA StillWait ==
    ASSUME NEW p \in Pass, AllWait(p), UNCHANGED <<txns, linked>>,
           \A t \in Txn : txnGroup'[t] = NoGroup =>
                txnGroup[t] = NoGroup /\ (Waiting(p, t) => Waiting(p, t)'),
           TypeInv
    PROVE  AllWait(p)'
  BY DEF AllWait, Candidates, TypeInv, TypeOK, TablesType

\* A cluster moves on to the jobs and the routing.
LEMMA TakeClusterWaits ==
    ASSUME TypeInv, NEW p \in Pass, AllWait(p), InOrder(p), TakeCluster(p)
    PROVE  AllWait(p)'
<1> DEFINE c == FirstCluster(cand[p])
<1>1. /\ UNCHANGED tables /\ UNCHANGED <<pc, job>>
      /\ pc[p] = "work" /\ phase[p] = "routed" /\ todo[p] = {}
      /\ cand' = [cand EXCEPT ![p] = cand[p] \ c]
      /\ cluster' = [cluster EXCEPT ![p] = {t \in c : intended[p][t] = NoGroup}]
      /\ todo' = [todo EXCEPT ![p] = IntentJobs(p, c)]
  BY DEF TakeCluster
<1>2. c \subseteq cand[p]
  BY DEF FirstCluster
<1> HIDE DEF c
<1>3. /\ cand'[p] = cand[p] \ c /\ todo'[p] = IntentJobs(p, c)
      /\ cluster'[p] = {t \in c : intended[p][t] = NoGroup}
  BY <1>1 DEF TypeInv, TypeOK
<1>4. Held(p) = {} /\ cluster[p] = {}
  BY <1>1 DEF Held, InOrder
<1>5. ASSUME NEW t \in Txn, Waiting(p, t)
      PROVE  Waiting(p, t)'
  <2>1. t \in cand[p]
    BY <1>1, <1>4, <1>5 DEF Waiting
  <2>2. CASE t \notin c
    BY <1>3, <2>1, <2>2 DEF Waiting
  <2>3. CASE t \in c
    <3>1. intended[p][t] \in Group \cup {NoGroup}
      BY DEF TypeInv, TypeOK
    <3>2. intended[p][t] \in Group => \E j \in IntentJobs(p, c) : t \in j.rows
      BY <2>3, IntentJobsAll
    <3> QED
      BY <1>3, <2>3, <3>1, <3>2 DEF Waiting
  <2> QED
    BY <2>2, <2>3
<1>6. UNCHANGED <<txns, linked, txnGroup>>
  BY <1>1 DEF tables
<1> QED
  BY <1>5, <1>6, StillWait

\* The routing gives every row of the cluster a job.
LEMMA RouteWaits ==
    ASSUME TypeInv, NEW p \in Pass, AllWait(p), Route(p)
    PROVE  AllWait(p)'
<1> DEFINE routed == RouteCluster(list[p], Members(p), cluster[p])
<1>1. /\ UNCHANGED tables /\ UNCHANGED <<pc, job, cand>>
      /\ pc[p] = "work" /\ todo[p] = {}
      /\ todo' = [todo EXCEPT ![p] = RoutedJobs(p, routed)]
  BY DEF Route
<1>2. \A t \in Txn : routed.to[t] \in Group \cup {NoGroup}
  <2>1. Len(list[p]) \in Nat /\ Listed(p) \subseteq Group
    BY LenProperties DEF TypeInv, TypeOK, Listed
  <2> QED
    BY <2>1, RouteClusterGroup DEF Listed
<1> HIDE DEF routed
<1>3. todo'[p] = RoutedJobs(p, routed) /\ Held(p) = {}
  BY <1>1 DEF TypeInv, TypeOK, Held
<1>4. ASSUME NEW t \in Txn, Waiting(p, t)
      PROVE  Waiting(p, t)'
  <2>1. t \in cand[p] \/ t \in cluster[p]
    BY <1>1, <1>3, <1>4 DEF Waiting
  <2>2. t \in cluster[p] => \E j \in RoutedJobs(p, routed) : t \in j.rows
    BY <1>2, RoutedJobsAll
  <2> QED
    BY <1>1, <1>3, <2>1, <2>2 DEF Waiting
<1>5. UNCHANGED <<txns, linked, txnGroup>>
  BY <1>1 DEF tables
<1> QED
  BY <1>4, <1>5, StillWait

\* Rows that are attached wait no longer; the others of the job's pass do.
LEMMA AttachWaits ==
    ASSUME TypeInv, NEW p \in Pass, AllWait(p), NEW j \in todo[p],
           AttachFills(p, j) \/ ExitAttach(p, j)
    PROVE  AllWait(p)'
<1>1. /\ pc[p] = "work" /\ j.kind # "create" /\ AttachTransactions(j.rows, j.group)
      /\ UNCHANGED <<cand, cluster>>
      /\ todo' = [todo EXCEPT ![p] = todo[p] \ {j}]
  BY DEF AttachFills, ExitAttach, NextJob
<1>2. todo'[p] = todo[p] \ {j} /\ Held(p) = {} /\ j.group # NoGroup
  BY <1>1, NextJobType, RoutingAssumption DEF TypeInv, TypeOK, Held
<1>3. UNCHANGED <<txns, linked>>
  BY <1>1 DEF AttachTransactions
<1>4. \A t \in Txn : txnGroup'[t] = IF t \in j.rows THEN j.group ELSE txnGroup[t]
  BY <1>1 DEF AttachTransactions
<1>5. \A t : Waiting(p, t) /\ t \notin j.rows => Waiting(p, t)'
  BY <1>1, <1>2 DEF Waiting
<1> QED
  BY <1>2, <1>3, <1>4, <1>5, StillWait

\* The rows of a new group wait until they are attached.
LEMMA CreateWaits ==
    ASSUME TypeInv, NEW p \in Pass, AllWait(p), NEW j \in todo[p], NEW g \in Group,
           Create(p, j, g)
    PROVE  AllWait(p)'
<1>1. /\ pc[p] = "work" /\ UNCHANGED <<cand, cluster, txns, linked, txnGroup>>
      /\ todo' = [todo EXCEPT ![p] = todo[p] \ {j}]
      /\ job' = [job EXCEPT ![p] = [j EXCEPT !.group = g]]
      /\ pc' = [pc EXCEPT ![p] = "createAttach"]
  BY DEF Create, NextJob, UpsertTradeGroup
<1>2. /\ pc'[p] = "createAttach" /\ todo'[p] = todo[p] \ {j} /\ job'[p].rows = j.rows
  <2>1. [j EXCEPT !.group = g].rows = j.rows
    BY NextJobType DEF Job
  <2> QED
    BY <1>1, <2>1 DEF TypeInv, TypeOK
<1>3. Held(p) = {} /\ Held(p)' = j.rows
  BY <1>1, <1>2 DEF Held
<1>4. \A t : Waiting(p, t) => Waiting(p, t)'
  BY <1>1, <1>2, <1>3 DEF Waiting
<1> QED
  BY <1>1, <1>4, StillWait

\* They are then.
LEMMA CreateAttachWaits ==
    ASSUME TypeInv, NEW p \in Pass, AllWait(p), NewGroupApart(p), CreateAttach(p)
    PROVE  AllWait(p)'
<1>1. /\ pc[p] = "createAttach" /\ AttachTransactions(job[p].rows, job[p].group)
      /\ UNCHANGED <<cand, cluster, todo>>
  BY DEF CreateAttach
<1>2. job[p].group # NoGroup /\ Held(p) = job[p].rows
  BY <1>1, RoutingAssumption DEF NewGroupApart, Making, Held
<1>3. UNCHANGED <<txns, linked>>
  BY <1>1 DEF AttachTransactions
<1>4. \A t \in Txn : txnGroup'[t] = IF t \in job[p].rows THEN job[p].group ELSE txnGroup[t]
  BY <1>1 DEF AttachTransactions
<1>5. \A t : Waiting(p, t) /\ t \notin job[p].rows => Waiting(p, t)'
  BY <1>1, <1>2 DEF Waiting
<1> QED
  BY <1>2, <1>3, <1>4, <1>5, StillWait

\* The other calls leave the rows that wait where they are.
LEMMA OtherWaits ==
    ASSUME TypeInv, NEW p \in Pass, AllWait(p),
           \/ ListOpen(p) \/ (\E g \in Group : LoadRows(p, g))
           \/ (\E j \in todo[p] : FindGroup(p, j))
           \/ RefreshRead(p) \/ RefreshWrite(p) \/ CreateOrders(p) \/ CreateEntry(p)
           \/ (\E e \in pending[p] : EmitEvent(p, e)) \/ Stamp(p)
           \/ EndClusters(p) \/ LinkRoll(p) \/ StartHeal(p) \/ HealRead(p) \/ HealWrite(p)
    PROVE  AllWait(p)'
<1>1. UNCHANGED <<cand, cluster, todo, txns, linked, txnGroup>>
  BY DEF ListOpen, LoadRows, FindGroup, RefreshRead, RefreshWrite, CreateOrders,
     UpsertOrders, CreateEntry, AddEntryEvent, EmitEvent, AddExitEvent, Stamp,
     UpsertTradeGroup, EndClusters, LinkRoll, StartHeal, HealRead, HealWrite, tables
<1>2. pc[p] # "createAttach"
  BY DEF ListOpen, LoadRows, FindGroup, NextJob, RefreshRead, RefreshWrite, CreateOrders,
     CreateEntry, EmitEvent, Stamp, EndClusters, LinkRoll, StartHeal, HealRead, HealWrite
<1>3. \A t : Waiting(p, t) => Waiting(p, t)'
  BY <1>1, <1>2 DEF Waiting, Held
<1> QED
  BY <1>1, <1>3, StillWait


\* The heal lists every open group, and drops one only when it is not flat or has
\* just been closed.
LEMMA StepFlat ==
    ASSUME TypeInv, KnownInv, NEW p \in Pass, Sound(p),
           \/ ListOpen(p)
           \/ FlatInHand(p) /\ \/ \E g \in Group : LoadRows(p, g)
                               \/ HealRead(p) \/ HealWrite(p)
    PROVE  FlatInHand(p)'
<1>1. UNCHANGED <<txns, txnGroup>>
  BY DEF ListOpen, LoadRows, HealRead, HealWrite, UpsertTradeGroup, tables
<1>2. \A g : GroupTransactions(g)' = GroupTransactions(g)
  BY <1>1, SameRows
<1>3. CASE ListOpen(p)
  <2>1. loading' = [loading EXCEPT ![p] = OpenGroups] /\ UNCHANGED groupRow
    BY <1>3 DEF ListOpen, tables
  <2>2. loading'[p] = OpenGroups'
    BY <2>1 DEF OpenGroups, TypeInv, TypeOK
  <2> QED
    BY <2>2 DEF FlatInHand
<1>4. ASSUME NEW g \in Group, LoadRows(p, g), FlatInHand(p)
      PROVE  FlatInHand(p)'
  <2>1. /\ loading' = [loading EXCEPT ![p] = @ \ {g}]
        /\ list' = [list EXCEPT ![p] = Append(@, g)] /\ UNCHANGED groupRow
    BY <1>4 DEF LoadRows, tables
  <2>2. loading'[p] = loading[p] \ {g} /\ list'[p] = Append(list[p], g)
    BY <2>1 DEF TypeInv, TypeOK
  <2>3. Listed(p)' = Listed(p) \cup {g} /\ OpenGroups' = OpenGroups
    BY <2>1, <2>2, LongerList DEF OpenGroups
  <2> QED
    BY <1>2, <1>4, <2>2, <2>3 DEF FlatInHand
<1>5. ASSUME HealRead(p) \/ HealWrite(p), FlatInHand(p),
             NEW h \in OpenGroups', FullyClosed(GroupTransactions(h))'
      PROVE  h \in loading'[p] \cup Listed(p)'
  <2> DEFINE g == Head(list[p])
  <2>1. list[p] # <<>> /\ UNCHANGED loading
    BY <1>5 DEF HealRead, HealWrite
  <2>2. g \in Listed(p) /\ g \in Group /\ h \in Group
    BY <2>1, HeadListed DEF OpenGroups
  <2>3. FullyClosed(GroupTransactions(h))
    BY <1>2, <1>5 DEF FullyClosed
  <2>4. \/ /\ UNCHANGED <<list, groupRow>>
        \/ /\ list' = [list EXCEPT ![p] = Tail(@)]
           /\ \/ ~FullyClosed(Support(book[p][g])) /\ UNCHANGED groupRow
              \/ groupRow' = [groupRow EXCEPT ![g] = Stamped(seen[p], book[p][g])]
    BY <1>5 DEF HealRead, HealWrite, UpsertTradeGroup, tables
  <2> HIDE DEF g
  <2>5. CASE UNCHANGED <<list, groupRow>>
    BY <1>5, <2>1, <2>3, <2>5 DEF FlatInHand, OpenGroups, Listed
  <2>6. CASE /\ list' = [list EXCEPT ![p] = Tail(@)]
             /\ \/ ~FullyClosed(Support(book[p][g])) /\ UNCHANGED groupRow
                \/ groupRow' = [groupRow EXCEPT ![g] = Stamped(seen[p], book[p][g])]
    <3>1. list'[p] = Tail(list[p])
      BY <2>6 DEF TypeInv, TypeOK
    <3>2. Listed(p) = Listed(p)' \cup {g}
      BY <2>1, <3>1, ListedItems, ItemsTail DEF TypeInv, TypeOK, g
    <3>3. h \in OpenGroups /\ h # g
      <4>1. CASE ~FullyClosed(Support(book[p][g])) /\ UNCHANGED groupRow
        <5>1. book[p][g] = Once(GroupTransactions(g))
          BY <2>2 DEF Sound, BookAgrees
        <5>2. GroupTransactions(g) \in SUBSET Txn
          BY DEF GroupTransactions, TypeInv, TypeOK, TablesType
        <5>3. Support(book[p][g]) = GroupTransactions(g)
          BY <5>1, <5>2, OnceOfSets
        <5>4. h # g
          BY <2>3, <4>1, <5>3
        <5> QED
          BY <1>5, <4>1, <5>4 DEF OpenGroups
      <4>2. CASE groupRow' = [groupRow EXCEPT ![g] = Stamped(seen[p], book[p][g])]
        <5>1. Stamped(seen[p], book[p][g]).status # "open"
          BY <2>2, StampedStatus DEF TypeInv, TypeOK
        <5> QED
          BY <1>5, <2>2, <4>2, <5>1 DEF OpenGroups, TypeInv, TypeOK, TablesType
      <4> QED
        BY <2>6, <4>1, <4>2
    <3>4. h \in loading[p] \cup Listed(p)
      BY <1>5, <2>3, <3>3 DEF FlatInHand
    <3> QED
      BY <2>1, <3>2, <3>3, <3>4
  <2> QED
    BY <2>4, <2>5, <2>6
<1> QED
  BY <1>3, <1>4, <1>5 DEF FlatInHand


\* A pass that nothing has disturbed keeps hold of all there is to do.
LEMMA StepInHand ==
    ASSUME GroupInv, NEW p \in Pass, InOrder(p), PhasesInOrder(p), PhasesInOrder(p)',
           quiet[p] => InHand(p), Step(p), quiet'[p]
    PROVE  InHand(p)'
<1>1. UNCHANGED <<txns, orders>>
      /\ (UNCHANGED linked \/ (BeginPass(p) /\ linked' = linked \cup Linkables))
  BY StepRows
<1>2. CASE BeginPass(p)
  <2>1. /\ LinkTransactionsToOrders /\ pc' = [pc EXCEPT ![p] = "linkOrders"]
    BY <1>2 DEF BeginPass
  <2>2. pc'[p] = "linkOrders" /\ phase'[p] # "heal"
    BY <2>1 DEF GroupInv, TypeInv, TypeOK, PhasesInOrder
  <2>3. linked' = linked \cup Linkables /\ Linkables' = Linkables
    BY <2>1 DEF LinkTransactionsToOrders, Linkables
  <2> QED
    BY <2>2, <2>3 DEF InHand
<1>3. CASE ~BeginPass(p)
  <2>1. pc[p] # "idle"
    BY <1>3, IdleBegins
  <2>2. quiet[p] /\ Alone(p) /\ Sound(p) /\ InHand(p)
    BY <2>1, StepFrame DEF GroupInv, ClaimInv, QuietRuns, Alone, BooksInv
  <2>3. ~EndPass(p)
    BY DEF EndPass, GroupInv, TypeInv, TypeOK
  <2>4. (Linkables \subseteq linked)'
    BY <1>1, <1>3, <2>2 DEF InHand, Linkables
  <2>5. CASE LinkOrders(p) \/ Snapshot(p)
    <3>1. \/ pc' = [pc EXCEPT ![p] = "snapshot"]
          \/ /\ pc' = [pc EXCEPT ![p] = "list"] /\ UNCHANGED tables
             /\ cand' = [cand EXCEPT ![p] = Candidates]
      BY <2>5 DEF LinkOrders, Snapshot
    <3>2. \/ pc'[p] = "snapshot"
          \/ pc'[p] = "list" /\ cand'[p] = Candidates /\ UNCHANGED tables
      BY <3>1 DEF GroupInv, TypeInv, TypeOK
    <3>3. phase'[p] = "heal" => pc'[p] = "list"
      BY <3>2 DEF PhasesInOrder
    <3>4. pc'[p] = "list" => AllWait(p)'
      BY <3>2 DEF AllWait, Waiting, Candidates, tables
    <3> QED
      BY <2>4, <3>2, <3>3, <3>4 DEF InHand
  <2>6. CASE ~(LinkOrders(p) \/ Snapshot(p))
    <3>1. pc[p] \notin {"linkOrders", "snapshot"}
      BY <1>3, <2>6 DEF Step, Load, ListOpen, LoadRows, Attribute, TakeCluster, Route,
         FindGroup, NextJob, AttachFills, ExitAttach, RefreshRead, RefreshWrite, Create,
         CreateAttach, CreateOrders, CreateEntry, EmitEvent, Stamp, Finish, EndClusters,
         LinkRoll, StartHeal, HealRead, HealWrite, EndPass
    <3>2. AllWait(p) /\ NewGroupApart(p)
      BY <2>2, <3>1 DEF InHand, Sound
    <3>3. AllWait(p)'
      BY <1>3, <2>3, <2>6, <3>2, TakeClusterWaits, RouteWaits, AttachWaits, CreateWaits,
         CreateAttachWaits, OtherWaits DEF GroupInv, Step, Load, Attribute, Finish
    <3>4. CASE ListOpen(p) \/ (\E g \in Group : LoadRows(p, g)) \/ HealRead(p) \/ HealWrite(p)
      <4>1. phase[p] = "heal" /\ ~ListOpen(p) => FlatInHand(p)
        BY <2>2, <3>4 DEF InHand, LoadRows, HealRead, HealWrite
      <4>2. phase'[p] = phase[p]
        BY <3>4 DEF ListOpen, LoadRows, HealRead, HealWrite
      <4>3. phase'[p] = "heal" => FlatInHand(p)'
        BY <2>2, <3>4, <4>1, <4>2, StepFlat DEF GroupInv
      <4> QED
        BY <2>4, <3>3, <4>3 DEF InHand
    <3>5. CASE ~(ListOpen(p) \/ (\E g \in Group : LoadRows(p, g))
                 \/ HealRead(p) \/ HealWrite(p))
      <4>1. Attribute(p) \/ EndClusters(p) \/ LinkRoll(p) \/ StartHeal(p)
        BY <1>3, <2>3, <2>6, <3>5 DEF Step, Load, Finish
      <4>2. \/ UNCHANGED pc /\ pc[p] \in {"work", "event", "rolls"}
            \/ \E v \in {"work", "refreshRead", "refreshWrite", "createAttach",
                         "createOrders", "createEntry", "event", "stamp", "rolls",
                         "list"} : pc' = [pc EXCEPT ![p] = v]
        BY <4>1 DEF Attribute, TakeCluster, Route, FindGroup, NextJob, AttachFills,
           ExitAttach, RefreshRead, RefreshWrite, Create, CreateAttach, CreateOrders,
           CreateEntry, EmitEvent, Stamp, EndClusters, LinkRoll, StartHeal
      <4>3. pc'[p] \notin {"load", "heal", "healWrite"}
        BY <4>2 DEF GroupInv, TypeInv, TypeOK
      <4>4. phase'[p] = "heal" => pc'[p] = "list"
        BY <4>3 DEF PhasesInOrder
      <4> QED
        BY <2>4, <3>3, <4>4 DEF InHand
    <3> QED
      BY <3>4, <3>5
  <2> QED
    BY <2>5, <2>6
<1> QED
  BY <1>2, <1>3


\* All that a pass over settled books can do.
LEMMA RestingMoves ==
    ASSUME GroupInv, AllDone, NEW p \in Pass, Resting(p), Step(p) \/ AbortPass(p)
    PROVE  \/ BeginPass(p) \/ LinkOrders(p) \/ Snapshot(p) \/ ListOpen(p)
           \/ \E g \in Group : LoadRows(p, g)
           \/ EndClusters(p) \/ StartHeal(p) \/ EndPass(p) \/ AbortPass(p)
           \/ /\ list[p] # <<>> /\ list' = [list EXCEPT ![p] = Tail(@)]
              /\ UNCHANGED <<tables, pc, phase, cand, loading, book, cluster, todo,
                             applied, settled>>
<1>1. ~Attribute(p)
  BY DEF Resting, Attribute, TakeCluster, Route, RefreshRead, RefreshWrite, CreateAttach,
     CreateOrders, CreateEntry, EmitEvent, Stamp
<1>2. ~LinkRoll(p) /\ ~HealWrite(p)
  BY DEF Resting, LinkRoll, HealWrite
<1>3. ASSUME HealRead(p)
      PROVE  /\ list[p] # <<>> /\ list' = [list EXCEPT ![p] = Tail(@)]
             /\ UNCHANGED <<tables, pc, phase, cand, loading, book, cluster, todo,
                            applied, settled>>
  <2> DEFINE g == Head(list[p])
  <2>1. list[p] # <<>>
    BY <1>3 DEF HealRead
  <2>2. g \in Listed(p) /\ g \in Group
    BY <2>1, HeadListed DEF GroupInv
  <2>3. ~FullyClosed(GroupTransactions(g)) /\ book[p][g] = Once(GroupTransactions(g))
    BY <2>2 DEF Resting, AllDone, BookAgrees
  <2>4. GroupTransactions(g) \in SUBSET Txn
    BY DEF GroupTransactions, GroupInv, TypeInv, TypeOK, TablesType
  <2>5. Support(book[p][g]) = GroupTransactions(g)
    BY <2>3, <2>4, OnceOfSets
  <2>6. ~FullyClosed(Support(book[p][g]))
    BY <2>3, <2>5
  <2> QED
    BY <1>3, <2>1, <2>6 DEF HealRead
<1> QED
  BY <1>1, <1>2, <1>3 DEF Step, Load, Finish

\* It changes no attribution, no group and no event.
LEMMA RestingTables ==
    ASSUME GroupInv, AllDone, NEW p \in Pass, Resting(p), Step(p) \/ AbortPass(p)
    PROVE  UNCHANGED <<txns, linked, txnGroup, orders, groupRow, entries, exits, edges>>
<1>1. linked \cup Linkables = linked
  BY DEF AllDone
<1>2. CASE BeginPass(p)
  BY <1>1, <1>2 DEF BeginPass, LinkTransactionsToOrders, Linkables
<1>3. CASE LinkOrders(p)
  BY <1>3 DEF LinkOrders, LinkOrdersToGroups
<1>4. CASE ~BeginPass(p) /\ ~LinkOrders(p)
  BY <1>4, RestingMoves DEF Snapshot, ListOpen, LoadRows, EndClusters, StartHeal, EndPass,
     AbortPass, tables
<1> QED
  BY <1>2, <1>3, <1>4

\* The same, for what is left to do.
LEMMA StaysDone ==
    ASSUME AllDone, UNCHANGED <<txns, linked, txnGroup, orders, groupRow>>
    PROVE  AllDone'
<1>1. Candidates' = Candidates /\ Linkables' = Linkables /\ OpenGroups' = OpenGroups
  BY DEF Candidates, Linkables, OpenGroups
<1>2. \A g : GroupTransactions(g)' = GroupTransactions(g)
  BY SameRows
<1> QED
  BY <1>1, <1>2 DEF AllDone

\* A pass whose list only loses groups goes on resting.
LEMMA StillResting ==
    ASSUME NEW p \in Pass, Resting(p), UNCHANGED <<txns, txnGroup, groupRow>>,
           cand'[p] = {}, cluster'[p] = {}, todo'[p] = {}, applied'[p] = <<>>,
           phase'[p] # "intent",
           pc'[p] \in {"idle", "linkOrders", "snapshot", "list", "load", "work", "rolls",
                       "heal"},
           loading'[p] \subseteq OpenGroups,
           \A g \in Listed(p)' : g \in OpenGroups /\ book'[p][g] = Once(GroupTransactions(g))
    PROVE  Resting(p)'
<1>1. OpenGroups' = OpenGroups /\ \A g : GroupTransactions(g)' = GroupTransactions(g)
  BY SameRows DEF OpenGroups
<1> QED
  BY <1>1 DEF Resting, BookAgrees

\* A pass over settled books goes on finding nothing.
LEMMA RestingStep ==
    ASSUME GroupInv, AllDone, NEW p \in Pass, Resting(p), Step(p) \/ AbortPass(p)
    PROVE  Resting(p)'
<1>1. UNCHANGED <<txns, txnGroup, groupRow>>
  BY RestingTables
<1>2. /\ cand[p] = {} /\ cluster[p] = {} /\ todo[p] = {} /\ applied[p] = <<>>
      /\ phase[p] # "intent" /\ loading[p] \subseteq OpenGroups
      /\ \A g \in Listed(p) : g \in OpenGroups /\ book[p][g] = Once(GroupTransactions(g))
  BY DEF Resting, BookAgrees
<1>3. CASE \/ BeginPass(p) \/ LinkOrders(p) \/ EndClusters(p) \/ StartHeal(p)
           \/ /\ list[p] # <<>> /\ list' = [list EXCEPT ![p] = Tail(@)]
              /\ UNCHANGED <<tables, pc, phase, cand, loading, book, cluster, todo,
                             applied, settled>>
  <2>1. /\ UNCHANGED <<cand, cluster, todo, applied, loading, book>>
        /\ UNCHANGED list \/ (list[p] # <<>> /\ list' = [list EXCEPT ![p] = Tail(@)])
        /\ UNCHANGED pc \/ \E v \in {"linkOrders", "snapshot", "rolls", "list"} :
                               pc' = [pc EXCEPT ![p] = v]
        /\ UNCHANGED phase \/ phase' = [phase EXCEPT ![p] = "heal"]
    BY <1>3 DEF BeginPass, LinkOrders, EndClusters, StartHeal
  <2>2. /\ pc'[p] \in {pc[p], "linkOrders", "snapshot", "rolls", "list"}
        /\ phase'[p] \in {phase[p], "heal"}
    BY <2>1 DEF GroupInv, TypeInv, TypeOK
  <2>3. Listed(p)' \subseteq Listed(p)
    BY <2>1, ShorterList DEF GroupInv
  <2>4. pc'[p] \in {"idle", "linkOrders", "snapshot", "list", "load", "work", "rolls",
                    "heal"}
    BY <2>2 DEF Resting
  <2>5. phase'[p] # "intent"
    BY <1>2, <2>2
  <2> QED
    BY <1>1, <1>2, <2>1, <2>3, <2>4, <2>5, StillResting
<1>4. CASE Snapshot(p)
  <2>1. /\ UNCHANGED <<phase, cluster, todo, applied, loading, book, list>>
        /\ cand' = [cand EXCEPT ![p] = Candidates]
        /\ pc' = [pc EXCEPT ![p] = "list"]
    BY <1>4 DEF Snapshot
  <2>2. cand'[p] = {} /\ pc'[p] = "list" /\ Listed(p)' = Listed(p)
    BY <2>1 DEF GroupInv, TypeInv, TypeOK, AllDone, Listed
  <2> QED
    BY <1>1, <1>2, <2>1, <2>2, StillResting
<1>5. CASE ListOpen(p)
  <2>1. /\ UNCHANGED <<phase, cand, cluster, todo, applied>>
        /\ loading' = [loading EXCEPT ![p] = OpenGroups]
        /\ list' = [list EXCEPT ![p] = <<>>]
        /\ \E v \in {"load", "heal", "work"} : pc' = [pc EXCEPT ![p] = v]
    BY <1>5 DEF ListOpen
  <2>2. loading'[p] = OpenGroups /\ list'[p] = <<>> /\ pc'[p] \in {"load", "heal", "work"}
    BY <2>1 DEF GroupInv, TypeInv, TypeOK
  <2>3. Listed(p)' = {}
    BY <2>2 DEF Listed
  <2> QED
    BY <1>1, <1>2, <2>1, <2>2, <2>3, StillResting
<1>6. ASSUME NEW g \in Group, LoadRows(p, g)
      PROVE  Resting(p)'
  <2>1. /\ UNCHANGED <<phase, cand, cluster, todo, applied>>
        /\ g \in loading[p]
        /\ loading' = [loading EXCEPT ![p] = @ \ {g}]
        /\ list' = [list EXCEPT ![p] = Append(@, g)]
        /\ book' = [book EXCEPT ![p][g] = Once(GroupTransactions(g))]
        /\ \E v \in {"load", "heal", "work"} : pc' = [pc EXCEPT ![p] = v]
    BY <1>6 DEF LoadRows
  <2>2. /\ loading'[p] = loading[p] \ {g} /\ list'[p] = Append(list[p], g)
        /\ pc'[p] \in {"load", "heal", "work"}
    BY <2>1 DEF GroupInv, TypeInv, TypeOK
  <2>3. \A h \in Group : book'[p][h] = IF h = g THEN Once(GroupTransactions(g)) ELSE book[p][h]
    BY <2>1 DEF GroupInv, TypeInv, TypeOK
  <2>4. Listed(p)' = Listed(p) \cup {g} /\ g \in OpenGroups
    BY <1>2, <2>1, <2>2, LongerList DEF GroupInv
  <2>5. \A h \in Listed(p)' : h \in OpenGroups /\ book'[p][h] = Once(GroupTransactions(h))
    BY <1>2, <2>3, <2>4 DEF OpenGroups
  <2> QED
    BY <1>1, <1>2, <2>1, <2>2, <2>5, StillResting
<1>7. CASE EndPass(p) \/ AbortPass(p)
  <2>1. Forget(p)
    BY <1>7 DEF EndPass, AbortPass
  <2>2. /\ pc'[p] = "idle" /\ phase'[p] = "routed" /\ cand'[p] = {} /\ cluster'[p] = {}
        /\ todo'[p] = {} /\ applied'[p] = <<>> /\ loading'[p] = {} /\ list'[p] = <<>>
    BY <2>1 DEF Forget, GroupInv, TypeInv, TypeOK
  <2>3. Listed(p)' = {}
    BY <2>2 DEF Listed
  <2> QED
    BY <1>1, <2>2, <2>3, StillResting
<1> QED
  BY <1>3, <1>4, <1>5, <1>6, <1>7, RestingMoves


\* A pass that is not under way rests.
LEMMA IdleRests ==
    ASSUME NEW q \in Pass, pc[q] = "idle", NothingYet, ListsKnown(q), PhasesInOrder(q),
           NothingDone(q)
    PROVE  Resting(q)
<1>1. Listed(q) = {} /\ loading[q] = {}
  BY DEF ListsKnown, Listed
<1> QED
  BY <1>1 DEF Resting, NothingYet, PhasesInOrder, NothingDone, BookAgrees

\* When a pass that nothing has disturbed ends, all is done.
LEMMA EndSettles ==
    ASSUME GroupInv, GroupInv', Rolls', SettleInv, NEW p \in Pass, quiet[p], EndPass(p),
           \A q \in Pass : PhasesInOrder(q)'
    PROVE  AllDone' /\ \A q \in Pass : Resting(q)'
<1>1. pc[p] = "heal" /\ list[p] = <<>> /\ Forget(p) /\ UNCHANGED tables
  BY DEF EndPass
<1>2. /\ phase[p] = "heal" /\ cand[p] = {} /\ cluster[p] = {} /\ todo[p] = {}
      /\ Held(p) = {} /\ loading[p] = {} /\ Listed(p) = {}
  BY <1>1 DEF SettleInv, PhasesInOrder, Held, GroupInv, KnownInv, ListsKnown, Listed
<1>3. InHand(p)
  BY DEF SettleInv
<1>4. Candidates = {}
  BY <1>1, <1>2, <1>3 DEF InHand, AllWait, Waiting
<1>5. \A g \in OpenGroups : ~FullyClosed(GroupTransactions(g))
  BY <1>1, <1>2, <1>3 DEF InHand, FlatInHand
<1>6. AllDone
  BY <1>3, <1>4, <1>5 DEF AllDone, InHand
<1>7. AllDone'
  BY <1>1, <1>6, StaysDone DEF tables
<1>8. ASSUME NEW q \in Pass
      PROVE  Resting(q)'
  <2>1. pc'[q] = "idle"
    <3>1. CASE q = p
      BY <1>1, <3>1 DEF Forget, GroupInv, TypeInv, TypeOK
    <3>2. CASE q # p
      <4>1. pc[q] = "idle"
        BY <1>1, <3>2 DEF GroupInv, ClaimInv, OnePass, QuietRuns, Alone
      <4> QED
        BY <1>1, <4>1, <3>2 DEF Forget, GroupInv, TypeInv, TypeOK
    <3> QED
      BY <3>1, <3>2
  <2>2. /\ cand'[q] = {} /\ cluster'[q] = {} /\ todo'[q] = {}
        /\ applied'[q] = <<>> /\ loading'[q] = {} /\ list'[q] = <<>> /\ phase'[q] = "routed"
    BY <2>1 DEF GroupInv, ClaimInv, NothingYet, KnownInv, ListsKnown, Rolls, RollInv,
       NothingDone, PhasesInOrder
  <2>3. Listed(q)' = {}
    BY <2>2 DEF Listed
  <2> QED
    BY <2>1, <2>2, <2>3 DEF Resting, BookAgrees
<1> QED
  BY <1>7, <1>8

\* The feed leaves settled books alone, or they are no longer called settled.
LEMMA FeedSettle ==
    ASSUME GroupInv, SettleInv, Feed
    PROVE  /\ SettleInv'
           /\ settled /\ settled' =>
                  UNCHANGED <<txnGroup, groupRow, entries, exits, edges>>
<1>1. UNCHANGED locals /\ Disturbs
  BY DEF Feed, FeedTransaction, FeedOrder, FeedTradeGroup, FeedRecordOrder
<1>2. \A q \in Pass : PhasesInOrder(q)'
  BY <1>1 DEF SettleInv, PhasesInOrder, locals
<1>3. CASE UNCHANGED tables
  <2>1. UNCHANGED <<quiet, settled>>
    BY <1>1, <1>3 DEF Disturbs
  <2>2. \A q \in Pass : InHand(q)' = InHand(q) /\ Resting(q)' = Resting(q)
    BY <1>1, <1>3 DEF InHand, Linkables, AllWait, Candidates, Waiting, Held, FlatInHand,
       OpenGroups, GroupTransactions, Listed, Resting, BookAgrees, FullyClosed, locals, tables
  <2>3. AllDone => AllDone'
    BY <1>3, StaysDone DEF tables
  <2> QED
    BY <1>2, <1>3, <2>1, <2>2, <2>3 DEF SettleInv, tables
<1>4. CASE ~UNCHANGED tables
  <2>1. ~settled' /\ \A q \in Pass : ~quiet'[q]
    BY <1>1, <1>4 DEF Disturbs
  <2> QED
    BY <1>2, <2>1 DEF SettleInv
<1> QED
  BY <1>3, <1>4

\* A step of a pass.
LEMMA StepSettle ==
    ASSUME GroupInv, GroupInv', Rolls, Rolls', SettleInv, NEW p \in Pass,
           Step(p) \/ AbortPass(p)
    PROVE  /\ SettleInv'
           /\ settled /\ settled' =>
                  UNCHANGED <<txnGroup, groupRow, entries, exits, edges>>
<1>1. \A q \in Pass : q # p => Same(q)
  BY StepFrame DEF GroupInv
<1>2. ASSUME NEW q \in Pass
      PROVE  PhasesInOrder(q)'
  <2>1. CASE q = p
    BY <2>1, StepPhases DEF GroupInv, Rolls, RollInv, SettleInv
  <2>2. CASE q # p
    BY <1>1, <2>2 DEF Same, PhasesInOrder, SettleInv
  <2> QED
    BY <2>1, <2>2
<1>3. ASSUME NEW q \in Pass, quiet'[q]
      PROVE  InHand(q)'
  <2>1. q = p
    <3>1. pc'[q] # "idle"
      BY <1>3 DEF GroupInv, ClaimInv, QuietRuns
    <3>2. Alone(q)'
      BY <1>3 DEF GroupInv, ClaimInv, QuietRuns, Alone
    <3> QED
      BY <3>1, <3>2, OthersAreIdle DEF GroupInv
  <2>2. ~AbortPass(p)
    BY <1>3, <2>1 DEF AbortPass, GroupInv, TypeInv, TypeOK
  <2> QED
    BY <1>2, <1>3, <2>1, <2>2, StepInHand DEF Rolls, RollInv, SettleInv
<1>4. CASE settled
  <2>1. AllDone /\ \A q \in Pass : Resting(q)
    BY <1>4 DEF SettleInv
  <2>2. UNCHANGED <<txns, linked, txnGroup, orders, groupRow, entries, exits, edges>>
    BY <2>1, RestingTables
  <2>3. AllDone'
    BY <2>1, <2>2, StaysDone
  <2>4. ASSUME NEW q \in Pass
        PROVE  Resting(q)'
    <3>1. CASE q = p
      BY <2>1, <3>1, RestingStep
    <3>2. CASE q # p
      <4>1. Same(q) /\ Resting(q)
        BY <1>1, <2>1, <3>2
      <4>2. OpenGroups' = OpenGroups /\ \A g : GroupTransactions(g)' = GroupTransactions(g)
        BY <2>2, SameRows DEF OpenGroups
      <4> QED
        BY <4>1, <4>2 DEF Same, Resting, BookAgrees, Listed
    <3> QED
      BY <3>1, <3>2
  <2> QED
    BY <1>2, <1>3, <2>2, <2>3, <2>4 DEF SettleInv
<1>5. CASE ~settled
  <2>1. settled' => EndPass(p) /\ quiet[p]
    BY <1>5 DEF Step, Load, BeginPass, LinkOrders, Snapshot, ListOpen, LoadRows, Attribute,
       TakeCluster, FindGroup, Route, AttachFills, ExitAttach, RefreshRead, RefreshWrite,
       Create, CreateAttach, CreateOrders, CreateEntry, EmitEvent, Stamp, Finish,
       EndClusters, LinkRoll, StartHeal, HealRead, HealWrite, EndPass, AbortPass
  <2>2. settled' => AllDone' /\ \A q \in Pass : Resting(q)'
    BY <1>2, <2>1, EndSettles
  <2> QED
    BY <1>2, <1>3, <1>5, <2>2 DEF SettleInv
<1> QED
  BY <1>4, <1>5

\* Every step.
LEMMA NextSettle ==
    ASSUME GroupInv, GroupInv', Rolls, Rolls', SettleInv, [Next]_vars
    PROVE  /\ SettleInv'
           /\ settled /\ settled' =>
                  UNCHANGED <<txnGroup, groupRow, entries, exits, edges>>
<1>1. CASE UNCHANGED vars
  <2>1. UNCHANGED <<tables, locals, quiet, settled>>
    BY <1>1 DEF vars
  <2>2. \A q \in Pass : /\ InHand(q)' = InHand(q) /\ Resting(q)' = Resting(q)
                        /\ PhasesInOrder(q)' = PhasesInOrder(q)
    BY <2>1 DEF InHand, Linkables, AllWait, Candidates, Waiting, Held, FlatInHand, PhasesInOrder,
       OpenGroups, GroupTransactions, Listed, Resting, BookAgrees, FullyClosed, locals, tables
  <2>3. AllDone => AllDone'
    BY <2>1, StaysDone DEF tables
  <2> QED
    BY <2>1, <2>2, <2>3 DEF SettleInv, tables
<1> QED
  BY <1>1, FeedSettle, StepSettle DEF Next

\* The empty ledger is not called settled yet.
LEMMA InitSettle ==
    ASSUME Init
    PROVE  GroupInv /\ Rolls /\ SettleInv
<1>1. ASSUME NEW p \in Pass
      PROVE  RollInv(p) /\ PhasesInOrder(p) /\ ~quiet[p]
  <2>1. /\ pc[p] = "idle" /\ phase[p] = "routed" /\ cand[p] = {} /\ cluster[p] = {}
        /\ newGroup[p] = NoGroup /\ todo[p] = {} /\ pending[p] = {}
        /\ applied[p] = <<>> /\ created[p] = <<>> /\ ~quiet[p]
    BY DEF Init
  <2>2. ~Making(p) /\ Items(applied[p]) = {} /\ Items(created[p]) = {}
    BY <2>1 DEF Making, Items
  <2>3. \A g, S : ~Makes(p, g, S) /\ ~Leaves(p, g, S)
    BY <2>1, <2>2 DEF Makes, Leaves
  <2> QED
    BY <2>1, <2>2, <2>3 DEF RollInv, MadeForward, LeavesKnown, InOrder, NewGroupLast,
       NothingDone, Earlier, PhasesInOrder
<1>2. ~settled
  BY DEF Init
<1> QED
  BY <1>1, <1>2, InitGroups DEF Rolls, SettleInv

(* A pass that nothing has disturbed, from its first call to its last,       *)
(* leaves no work behind: every row that has an order or needs none is in a  *)
(* group, and no group whose rows net out is open.  Overlapping passes and   *)
(* passes that die change nothing about it (reconcile,                       *)
(* heal_fully_closed_groups).                                                *)
THEOREM QuietPassSettles == Spec => []SettledBooks
<1>1. Init => GroupInv /\ Rolls /\ SettleInv
  BY InitSettle
<1>2. GroupInv /\ Rolls /\ SettleInv /\ [Next]_vars => GroupInv' /\ Rolls' /\ SettleInv'
  BY NextGroups, NextRolls, NextSettle
<1>3. SettleInv => SettledBooks
  BY DEF SettleInv, AllDone, SettledBooks
<1> QED
  BY <1>1, <1>2, <1>3, PTL DEF Spec

(* Once settled, the books stay as they are until the feed adds something:   *)
(* further passes, however many overlap and wherever they die, change no     *)
(* attribution, no group and no event (the idempotence of reconcile).        *)
THEOREM SettledStaysSettled == Spec => SettledIsStable
<1>1. Init => GroupInv /\ Rolls /\ SettleInv
  BY InitSettle
<1>2. GroupInv /\ Rolls /\ SettleInv /\ [Next]_vars =>
        /\ GroupInv' /\ Rolls' /\ SettleInv'
        /\ [settled /\ settled' =>
                UNCHANGED <<txnGroup, groupRow, entries, exits, edges>>]_vars
  BY NextGroups, NextRolls, NextSettle
<1> QED
  BY <1>1, <1>2, PTL DEF Spec, SettledIsStable
=============================================================================
