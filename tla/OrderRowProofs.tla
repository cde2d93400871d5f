--------------------------- MODULE OrderRowProofs ---------------------------
(***************************************************************************)
(* OrderRow's type correctness and LinkageKept, for any number of syncs,   *)
(* versions, messages, commands and deaths.                                *)
(***************************************************************************)
EXTENDS OrderRow, TLAPS

USE OrderRowAssumption, NoneIsNoRow

(* What each writer holds between its read and its write.                   *)
Held ==
    /\ \A w \in {"push", "operator"} : task[w].at # "idle" => task[w].saw \in Row
    /\ task["pass"].at = "write" => task["pass"].saw \in Row
    /\ task["pass"].at = "attach" /\ task["pass"].saw # None =>
        task["pass"].saw \in Row /\ task["pass"].saw.group # None

TypeInv == TypeOK /\ Held

(* A row written over another is a row again, whatever upsert_orders is     *)
(* given, and has every linkage column one of the two has.                  *)
LEMMA UpsertedRow ==
    ASSUME NEW old \in Row \cup {None}, NEW new \in Row
    PROVE  /\ Upserted(old, new) \in Row
           /\ old # None =>
                /\ old.tag # None => Upserted(old, new).tag # None
                /\ old.strategy # None => Upserted(old, new).strategy # None
                /\ old.group # None => Upserted(old, new).group # None
BY DEF Upserted, Coalesce, Row

(* The row a sync builds from what it read is a row (_build_order_row).     *)
LEMMA BuiltIsRow ==
    ASSUME NEW existing \in Row \cup {None}, NEW v \in 0 .. Versions
    PROVE  BuiltRow(existing, v) \in Row
BY DEF BuiltRow, Row

(* The writers are different from each other.                               *)
LEMMA Writers ==
    /\ {"host", "push", "pass", "operator"} \subseteq Writer
    /\ \A s \in Syncer : s \in Writer /\ s \notin {"host", "push", "pass", "operator"}
BY DEF Writer

(* What the columns hold, the tasks aside.                                  *)
Others ==
    /\ version \in 1 .. Versions
    /\ row \in Row \cup {None}
    /\ legs \in 0 .. Versions
    /\ joined \in {None, "own", "linked", "auto"}
    /\ sent \in 0 .. Deliveries
    /\ edits \in 0 .. MaxEdits
    /\ aborts \in 0 .. MaxAborts

Task == [at : Step, got : 0 .. Versions, saw : Row \cup {None}]

\* What writer w may hold at a step.
MayHold(w, step, r) ==
    /\ w \in {"push", "operator"} /\ step # "idle" => r \in Row
    /\ w = "pass" /\ step = "write" => r \in Row
    /\ w = "pass" /\ step = "attach" /\ r # None => r \in Row /\ r.group # None

(* A writer's step to another place keeps the invariant, if it takes along  *)
(* only what it may hold there.                                             *)
LEMMA Moves ==
    ASSUME TypeInv, NEW w \in Writer, NEW step \in Step, NEW v \in 0 .. Versions,
           NEW r \in Row \cup {None}, GoTo(w, step, v, r), MayHold(w, step, r), Others'
    PROVE  TypeInv'
<1>1. task \in [Writer -> Task]
    BY DEF TypeInv, TypeOK, Task
<1>2. [at |-> step, got |-> v, saw |-> r] \in Task
    BY DEF Task
<1>3. /\ task' \in [Writer -> Task]
      /\ task'[w] = [at |-> step, got |-> v, saw |-> r]
      /\ \A u \in Writer \ {w} : task'[u] = task[u]
    BY <1>1, <1>2 DEF GoTo, At
<1>4. TypeOK'
    BY <1>3 DEF Others, Task, TypeOK
<1>5. \A u \in Writer : MayHold(u, task[u].at, task[u].saw)
    BY DEF MayHold, TypeInv, Held
<1>6. \A u \in Writer : MayHold(u, task'[u].at, task'[u].saw)
    BY <1>3, <1>5
<1>7. Held'
    BY <1>6, Writers DEF Held, MayHold
<1> QED BY <1>4, <1>7 DEF TypeInv

(* Initially every writer is idle, or about to record the order.            *)
LEMMA InitTypes == Init => TypeInv
<1>1. ASSUME Init PROVE TypeOK
    BY <1>1 DEF Init, TypeOK, At, Step, Row
<1>2. ASSUME Init PROVE Held
    BY <1>2, Writers DEF Init, Held, At
<1> QED BY <1>1, <1>2 DEF TypeInv

(* Every step keeps the types and what the writers hold.                    *)
LEMMA StepTypes == TypeInv /\ [Next]_vars => TypeInv'
<1> SUFFICES ASSUME TypeInv, [Next]_vars PROVE TypeInv'
    OBVIOUS
<1> USE DEF TypeInv
<1>1. CASE UNCHANGED vars
    BY <1>1 DEF TypeOK, Held, vars
<1>2. CASE Progress
    BY <1>2 DEF Progress, TypeOK, Held
<1>3. CASE RecordOrder
    <2>1. PICK own \in {None, "own"} :
            row' = Upserted(row, [origin |-> "zts", tag |-> "tag", strategy |-> "host",
                                  group |-> own, facts |-> 0])
        BY <1>3 DEF RecordOrder
    <2>2. row' \in Row
        BY <2>1, UpsertedRow DEF TypeOK, Row
    <2>3. GoTo("host", "legs", 0, None)
        BY <1>3 DEF RecordOrder
    <2>4. Others'
        BY <1>3, <2>2, <2>3 DEF RecordOrder, TypeOK, Others
    <2> QED BY <2>2, <2>3, <2>4, Moves, Writers DEF MayHold, Step, TypeOK
<1>4. CASE RecordLegs
    <2>1. GoTo("host", "idle", 0, None)
        BY <1>4 DEF RecordLegs, Finish
    <2>2. Others'
        BY <1>4, <2>1 DEF RecordLegs, TypeOK, Others
    <2> QED BY <2>1, <2>2, Moves, Writers DEF MayHold, Step, TypeOK
<1>5. ASSUME NEW s \in Syncer, Fetch(s) PROVE TypeInv'
    <2>1. GoTo(s, "read", version, None) /\ version \in 0 .. Versions
        BY <1>5 DEF Fetch, TypeOK
    <2>2. Others'
        BY <1>5, <2>1 DEF Fetch, TypeOK, Others
    <2> QED BY <2>1, <2>2, Moves, Writers DEF MayHold, Step, TypeOK
<1>6. ASSUME NEW s \in Syncer, SyncReads(s) PROVE TypeInv'
    <2>1. GoTo(s, "write", task[s].got, row) /\ task[s].got \in 0 .. Versions
        BY <1>6, Writers DEF SyncReads, TypeOK
    <2>2. Others'
        BY <1>6, <2>1 DEF SyncReads, TypeOK, Others
    <2> QED BY <2>1, <2>2, Moves, Writers DEF MayHold, Step, TypeOK
<1>7. ASSUME NEW s \in Syncer, SyncWrites(s) PROVE TypeInv'
    <2>1. task[s].got \in 0 .. Versions /\ task[s].saw \in Row \cup {None}
        BY Writers DEF TypeOK
    <2>2. row' \in Row
        BY <1>7, <2>1, BuiltIsRow, UpsertedRow DEF SyncWrites, TypeOK
    <2>3. GoTo(s, "legs", task[s].got, None)
        BY <1>7 DEF SyncWrites
    <2>4. Others'
        BY <1>7, <2>1, <2>2, <2>3 DEF SyncWrites, TypeOK, Others
    <2> QED BY <2>1, <2>2, <2>3, <2>4, Moves, Writers DEF MayHold, Step, TypeOK
<1>8. ASSUME NEW s \in Syncer, SyncWritesLegs(s) PROVE TypeInv'
    <2>1. GoTo(s, "idle", 0, None) /\ legs' \in 0 .. Versions
        BY <1>8, Writers DEF SyncWritesLegs, Finish, TypeOK
    <2>2. Others'
        BY <1>8, <2>1 DEF SyncWritesLegs, TypeOK, Others
    <2> QED BY <2>1, <2>2, Moves, Writers DEF MayHold, Step, TypeOK
<1>9. CASE PushReads
    <2>1. CASE row = None
        BY <1>9, <2>1 DEF PushReads, TypeOK, Held
    <2>2. CASE row # None
        <3>1. PICK v \in 1 .. version : GoTo("push", "write", v, row)
            BY <1>9, <2>2 DEF PushReads
        <3>2. v \in 0 .. Versions
            BY DEF TypeOK
        <3>3. Others'
            BY <1>9, <2>2, <3>1, <3>2 DEF PushReads, TypeOK, Others
        <3> QED BY <2>2, <3>1, <3>2, <3>3, Moves, Writers DEF MayHold, Step, TypeOK
    <2> QED BY <2>1, <2>2
<1>10. CASE PushWrites
    <2>1. task["push"].saw \in Row /\ task["push"].got \in 0 .. Versions
        BY <1>10, Writers DEF PushWrites, IsAt, TypeOK, Held
    <2>2. [task["push"].saw EXCEPT !.facts = task["push"].got] \in Row
        BY <2>1 DEF Row
    <2>3. row' \in Row
        BY <1>10, <2>2, UpsertedRow DEF PushWrites, TypeOK
    <2>4. GoTo("push", "idle", 0, None)
        BY <1>10 DEF PushWrites, Finish
    <2>5. Others'
        BY <1>10, <2>3, <2>4 DEF PushWrites, TypeOK, Others
    <2> QED BY <2>3, <2>4, <2>5, Moves, Writers DEF MayHold, Step, TypeOK
<1>11. CASE PassLoads
    <2> DEFINE seen == IF Unlinked THEN None ELSE row
    <2>1. seen \in Row \cup {None} /\ (seen # None => seen \in Row /\ seen.group # None)
        BY DEF Unlinked, TypeOK
    <2>2. GoTo("pass", "attach", 0, seen)
        BY <1>11 DEF PassLoads
    <2> HIDE DEF seen
    <2>3. Others'
        BY <1>11, <2>1, <2>2 DEF PassLoads, TypeOK, Others
    <2> QED BY <2>1, <2>2, <2>3, Moves, Writers DEF MayHold, Step, TypeOK
<1>12. CASE PassAttaches
    <2>1. joined' \in {None, "own", "linked", "auto"}
        BY <1>12 DEF PassAttaches, IsAt, Held, Row
    <2>2. GoTo("pass", "stamp", 0, None) \/ GoTo("pass", "idle", 0, None)
        BY <1>12 DEF PassAttaches, Finish
    <2>3. Others'
        BY <1>12, <2>1, <2>2 DEF PassAttaches, TypeOK, Others
    <2> QED BY <2>1, <2>2, <2>3, Moves, Writers DEF MayHold, Step, TypeOK
<1>13. CASE PassReads
    <2>1. GoTo("pass", "idle", 0, None) \/ (row # None /\ GoTo("pass", "write", 0, row))
        BY <1>13 DEF PassReads, Finish
    <2>2. Others'
        BY <1>13, <2>1 DEF PassReads, TypeOK, Others
    <2> QED BY <2>1, <2>2, Moves, Writers DEF MayHold, Step, TypeOK
<1>14. CASE PassStamps
    <2>1. [task["pass"].saw EXCEPT !.group = "auto"] \in Row
        BY <1>14 DEF PassStamps, IsAt, Held, Row
    <2>2. row' \in Row
        BY <1>14, <2>1, UpsertedRow DEF PassStamps, TypeOK
    <2>3. GoTo("pass", "idle", 0, None)
        BY <1>14 DEF PassStamps, Finish
    <2>4. Others'
        BY <1>14, <2>2, <2>3 DEF PassStamps, TypeOK, Others
    <2> QED BY <2>2, <2>3, <2>4, Moves, Writers DEF MayHold, Step, TypeOK
<1>15. CASE LinkOrders
    <2>1. row' \in Row
        BY <1>15 DEF LinkOrders, TypeOK, Row
    <2> QED BY <1>15, <2>1 DEF LinkOrders, TypeOK, Held
<1>16. CASE PassDies
    <2>1. GoTo("pass", "idle", 0, None)
        BY <1>16 DEF PassDies, Finish
    <2>2. Others'
        BY <1>16, <2>1 DEF PassDies, TypeOK, Others
    <2> QED BY <2>1, <2>2, Moves, Writers DEF MayHold, Step, TypeOK
<1>17. CASE LinkReads \/ RemapReads
    <2>1. row # None /\ edits' \in 0 .. MaxEdits
        BY <1>17 DEF LinkReads, RemapReads, TypeOK
    <2>2. GoTo("operator", "link", 0, row) \/ GoTo("operator", "remap", 0, row)
        BY <1>17 DEF LinkReads, RemapReads
    <2>3. Others'
        BY <1>17, <2>1, <2>2 DEF LinkReads, RemapReads, TypeOK, Others
    <2> QED BY <2>1, <2>2, <2>3, Moves, Writers DEF MayHold, Step, TypeOK
<1>18. CASE LinkWrites \/ RemapWrites
    <2>1. task["operator"].saw \in Row
        BY <1>18 DEF LinkWrites, RemapWrites, IsAt, Held
    <2>2. /\ [task["operator"].saw EXCEPT !.group = "linked"] \in Row
          /\ [task["operator"].saw EXCEPT !.strategy = "chosen"] \in Row
        BY <2>1 DEF Row
    <2>3. row' \in Row
        BY <1>18, <2>2, UpsertedRow DEF LinkWrites, RemapWrites, TypeOK
    <2>4. GoTo("operator", "idle", 0, None)
        BY <1>18 DEF LinkWrites, RemapWrites, Finish
    <2>5. Others'
        BY <1>18, <2>3, <2>4 DEF LinkWrites, RemapWrites, TypeOK, Others
    <2> QED BY <2>3, <2>4, <2>5, Moves, Writers DEF MayHold, Step, TypeOK
<1> QED
    BY <1>1, <1>2, <1>3, <1>4, <1>5, <1>6, <1>7, <1>8, <1>9, <1>10, <1>11, <1>12, <1>13,
       <1>14, <1>15, <1>16, <1>17, <1>18
    DEF Next, Host, Sync, Push, Pass, Operator

(* The only writes of the row are upserts of rows, and link_orders_to_groups. *)
LEMMA RowWrites ==
    ASSUME TypeInv, [Next]_vars
    PROVE  row' = row \/ LinkOrders \/ \E r \in Row : row' = Upserted(row, r)
<1> USE DEF TypeInv
<1>1. CASE UNCHANGED vars
    BY <1>1 DEF vars
<1>2. CASE RecordOrder
    BY <1>2 DEF RecordOrder, Row
<1>3. ASSUME NEW s \in Syncer, SyncWrites(s) PROVE \E r \in Row : row' = Upserted(row, r)
    <2>1. BuiltRow(task[s].saw, task[s].got) \in Row
        BY BuiltIsRow, Writers DEF TypeOK
    <2> QED BY <1>3, <2>1 DEF SyncWrites
<1>4. CASE PushWrites
    <2>1. task["push"].saw \in Row /\ task["push"].got \in 0 .. Versions
        BY <1>4, Writers DEF PushWrites, IsAt, TypeOK, Held
    <2>2. [task["push"].saw EXCEPT !.facts = task["push"].got] \in Row
        BY <2>1 DEF Row
    <2> QED BY <1>4, <2>2 DEF PushWrites
<1>5. CASE PassStamps
    <2>1. [task["pass"].saw EXCEPT !.group = "auto"] \in Row
        BY <1>5 DEF PassStamps, IsAt, Held, Row
    <2> QED BY <1>5, <2>1 DEF PassStamps
<1>6. CASE LinkWrites \/ RemapWrites
    <2>1. task["operator"].saw \in Row
        BY <1>6 DEF LinkWrites, RemapWrites, IsAt, Held
    <2>2. /\ [task["operator"].saw EXCEPT !.group = "linked"] \in Row
          /\ [task["operator"].saw EXCEPT !.strategy = "chosen"] \in Row
        BY <2>1 DEF Row
    <2> QED BY <1>6, <2>2 DEF LinkWrites, RemapWrites
<1>7. CASE Progress \/ RecordLegs \/ PushReads \/ PassLoads \/ PassAttaches \/ PassReads
        \/ PassDies \/ LinkReads \/ RemapReads
    BY <1>7 DEF Progress, RecordLegs, PushReads, PassLoads, PassAttaches, PassReads,
        PassDies, LinkReads, RemapReads
<1>8. ASSUME NEW s \in Syncer, Fetch(s) \/ SyncReads(s) \/ SyncWritesLegs(s) PROVE row' = row
    BY <1>8 DEF Fetch, SyncReads, SyncWritesLegs
<1> QED
    BY <1>1, <1>2, <1>3, <1>4, <1>5, <1>6, <1>7, <1>8
    DEF Next, Host, Sync, Push, Pass, Operator

(* In every reachable state the row, what the writers hold of it and all    *)
(* else have their types, however the writers interleave.                   *)
THEOREM RowTypes == Spec => []TypeOK
<1>1. TypeInv => TypeOK
    BY DEF TypeInv
<1> QED BY <1>1, InitTypes, StepTypes, PTL DEF Spec

(* No writer, however old the row it writes back, ever wipes a link of the  *)
(* order: the preserve-if-null columns of upsert_orders are enough.         *)
THEOREM LinksStay == Spec => LinkageKept
<1> DEFINE Kept == row # None =>
        /\ row' # None
        /\ row.tag # None => row'.tag # None
        /\ row.strategy # None => row'.strategy # None
        /\ row.group # None => row'.group # None
<1>1. ASSUME TypeInv, [Next]_vars PROVE Kept
    <2>1. row \in Row \cup {None}
        BY <1>1 DEF TypeInv, TypeOK
    <2>2. CASE row' = row
        BY <2>2
    <2>3. CASE LinkOrders
        <3>1. /\ row \in Row /\ joined # None /\ joined \in {None, "own", "linked", "auto"}
              /\ row' = [row EXCEPT !.group = joined]
            BY <1>1, <2>1, <2>3 DEF LinkOrders, TypeInv, TypeOK
        <3>2. /\ row' \in Row /\ row'.group = joined
              /\ row'.tag = row.tag /\ row'.strategy = row.strategy
            BY <3>1 DEF Row
        <3> QED BY <3>1, <3>2
    <2>4. CASE \E r \in Row : row' = Upserted(row, r)
        <3>1. PICK r \in Row : row' = Upserted(row, r)
            BY <2>4
        <3> QED BY <2>1, <3>1, UpsertedRow
    <2> QED BY <1>1, <2>2, <2>3, <2>4, RowWrites
<1>2. TypeInv /\ [Next]_vars => [Kept]_vars
    BY <1>1
<1> QED BY <1>2, InitTypes, StepTypes, PTL DEF Spec, LinkageKept
=============================================================================
