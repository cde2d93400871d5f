--------------------------- MODULE OperatorProofs ---------------------------
(***************************************************************************)
(* Theorems about the operator's commands and the lapses of a pass: that   *)
(* both keep the tables and the passes well typed, that a regroup nobody   *)
(* interferes with leaves every group it touched settled, and that an      *)
(* undisturbed pass leaves no lot past its time in an open group.          *)
(***************************************************************************)
EXTENDS Operator, ReconcileProofs

-----------------------------------------------------------------------------
(* Types.                                                                  *)

\* Between its steps a command knows what it is about.
CallNames ==
    /\ call.step \notin {"none", "target", "group"} => call.target \in Group
    /\ call.step = "link" => call.order \in Order

DeskInv == TypeInv /\ LapseType /\ call \in Call /\ given \in 0 .. MaxCommands /\ CallNames

\* What a command leaves to the passes is well typed when the tables are.
LEMMA CommandingType ==
    ASSUME TypeInv, LapseType, Commanding, TablesType'
    PROVE  TypeInv' /\ LapseType'
<1>1. quiet' \in [Pass -> BOOLEAN] /\ settled' \in BOOLEAN
  BY DEF Commanding, Disturbs, TypeInv, TypeOK
<1>2. UNCHANGED locals /\ UNCHANGED lone /\ UNCHANGED aborts /\ UNCHANGED lapseVars
  BY DEF Commanding
<1>3. TypeOK'
  BY <1>1, <1>2 DEF TypeInv, TypeOK, locals
<1>4. JobsNameGroups'
  BY <1>2 DEF TypeInv, JobsNameGroups, locals
<1>5. LapseType'
  BY <1>2 DEF LapseType, lapseVars
<1> QED
  BY <1>3, <1>4, <1>5 DEF TypeInv

\* No command, or one that has just been given.
LEMMA NoCallType ==
    NoCall \in Call
BY NoRowType DEF NoCall, Call

\* The feed alone, and a price that becomes known.
LEMMA WorldType ==
    ASSUME TypeInv, LapseType, BrokerFeed \/ \E s \in Priced : PriceArrives(s)
    PROVE  TypeInv' /\ LapseType'
<1>1. CASE BrokerFeed
  <2>1. Feed
    BY <1>1 DEF BrokerFeed, Feed
  <2>2. TypeInv'
    BY <2>1, FeedType
  <2>3. LapseType'
    BY <1>1 DEF BrokerFeed, LapseType, lapseVars
  <2> QED
    BY <2>2, <2>3
<1>2. ASSUME NEW s \in Priced, PriceArrives(s)
      PROVE  TypeInv' /\ LapseType'
  <2>1. TablesType'
    BY <1>2, UnchangedTablesType DEF TypeInv, TypeOK, PriceArrives
  <2>2. quiet' \in [Pass -> BOOLEAN] /\ settled' \in BOOLEAN
    BY <1>2 DEF PriceArrives
  <2>3. UNCHANGED locals /\ UNCHANGED lone /\ UNCHANGED aborts
    BY <1>2 DEF PriceArrives
  <2>4. TypeOK'
    BY <2>1, <2>2, <2>3 DEF TypeInv, TypeOK, locals
  <2>5. JobsNameGroups'
    BY <2>3 DEF TypeInv, JobsNameGroups, locals
  <2>6. LapseType'
    BY <1>2 DEF PriceArrives, LapseType
  <2> QED
    BY <2>4, <2>5, <2>6 DEF TypeInv
<1> QED
  BY <1>1, <1>2

\* The jobs of the lapses are exits of listed groups.
LEMMA LapseJobsType ==
    ASSUME TypeInv, NEW p \in Pass, NEW S \in SUBSET Txn, NEW j \in LapseJobs(p, S)
    PROVE  /\ j \in Job /\ j.group \in Group /\ j.kind = "exit"
           /\ j.rows = {t \in S : SettledGroup[t] = j.group}
<1>1. PICK k \in 1 .. Len(list[p]) :
          j = NewJob("exit", k, list[p][k], {t \in S : SettledGroup[t] = list[p][k]})
  BY DEF LapseJobs
<1>2. list[p] \in Seq(Group)
  BY DEF TypeInv, TypeOK
<1>3. k \in Nat /\ list[p][k] \in Group
  BY <1>2
<1>4. {t \in S : SettledGroup[t] = list[p][k]} \in SUBSET Txn
  OBVIOUS
<1> QED
  BY <1>1, <1>3, <1>4 DEF NewJob, Job

\* What is written for a lapsed lot is a synthetic row.
LEMMA LapsedRows ==
    ASSUME NEW p \in Pass
    PROVE  Lapsed(p) \in SUBSET Synthetic /\ Synthetic \in SUBSET Txn
BY DEF Lapsed, LapseRow, Synthetic

\* The account's latest activity is a time.
LEMMA LastActivityType ==
    ASSUME TablesType
    PROVE  LastActivity \in Nat
<1>1. CASE txns = {}
  BY <1>1 DEF LastActivity
<1>2. CASE txns # {}
  <2>1. Last(txns) \in Txn
    BY <1>2, LastInSet DEF TablesType
  <2> QED
    BY <1>2, <2>1, RowTypes DEF LastActivity
<1> QED
  BY <1>1, <1>2

\* ReadClock keeps the types.
LEMMA ReadClockType ==
    ASSUME TypeInv, LapseType, NEW p \in Pass, ReadClock(p)
    PROVE  TypeInv' /\ LapseType'
<1>1. TablesType'
  BY UnchangedTablesType DEF TypeInv, TypeOK, ReadClock
<1>2. pc' \in [Pass -> PcValues]
  <2>1. pc' = pc \/ pc' = [pc EXCEPT ![p] = "list"]
    BY DEF ReadClock
  <2> QED
    BY <2>1 DEF TypeInv, TypeOK, PcValues
<1>3. TypeOK'
  BY <1>1, <1>2 DEF TypeInv, TypeOK, ReadClock
<1>4. JobsNameGroups'
  BY DEF TypeInv, JobsNameGroups, ReadClock
<1>5. LastActivity \in Nat
  BY LastActivityType DEF TypeInv, TypeOK
<1>6. LapseType'
  BY <1>5 DEF LapseType, ReadClock, Stages
<1> QED
  BY <1>3, <1>4, <1>6 DEF TypeInv

\* Synthesise keeps the types.
LEMMA SynthesiseType ==
    ASSUME TypeInv, LapseType, NEW p \in Pass, Synthesise(p)
    PROVE  TypeInv' /\ LapseType'
<1> DEFINE S == Lapsed(p)
<1>1. S \in SUBSET Synthetic /\ Synthetic \in SUBSET Txn
  BY LapsedRows
<1>2. /\ txns' = txns \cup S
      /\ txnGroup' = [t \in Txn |-> IF t \in S THEN SettledGroup[t] ELSE txnGroup[t]]
      /\ todo' = [todo EXCEPT ![p] = LapseJobs(p, S)]
  BY DEF Synthesise
<1> HIDE DEF S
<1>3. \A j \in LapseJobs(p, S) : j \in Job /\ j.group \in Group /\ j.kind = "exit"
  BY <1>1, LapseJobsType
<1>4. todo' \in [Pass -> SUBSET Job]
  BY <1>2, <1>3 DEF TypeInv, TypeOK
<1>5. TablesType'
  <2>1. txns' \in SUBSET Txn
    BY <1>1, <1>2 DEF TypeInv, TypeOK, TablesType
  <2>2. txnGroup' \in [Txn -> Group \cup {NoGroup}]
    BY <1>2, LapseAssumption DEF TypeInv, TypeOK, TablesType
  <2> QED
    BY <2>1, <2>2 DEF TypeInv, TypeOK, TablesType, Synthesise
<1>6. TypeOK'
  BY <1>4, <1>5 DEF TypeInv, TypeOK, Synthesise
<1>7. JobsNameGroups'
  BY <1>2, <1>3 DEF TypeInv, TypeOK, JobsNameGroups, Synthesise
<1>8. LapseType'
  BY DEF LapseType, Synthesise, Stages
<1> QED
  BY <1>6, <1>7, <1>8 DEF TypeInv

\* EndLapse keeps the types.
LEMMA EndLapseType ==
    ASSUME TypeInv, LapseType, NEW p \in Pass, EndLapse(p)
    PROVE  TypeInv' /\ LapseType'
<1>1. TablesType'
  BY UnchangedTablesType DEF TypeInv, TypeOK, EndLapse
<1>2. [g \in Group |-> None] \in [Group -> Count]
  BY OnceType
<1>3. book' \in [Pass -> [Group -> Count]]
  BY <1>2 DEF TypeInv, TypeOK, EndLapse
<1>4. list' \in [Pass -> Seq(Group)] /\ applied' \in [Pass -> Seq(AppliedExit)]
  BY DEF TypeInv, TypeOK, EndLapse
<1>5. TypeOK'
  BY <1>1, <1>3, <1>4 DEF TypeInv, TypeOK, EndLapse, PcValues
<1>6. JobsNameGroups'
  BY DEF TypeInv, JobsNameGroups, EndLapse
<1>7. LapseType'
  BY DEF LapseType, EndLapse, Stages
<1> QED
  BY <1>5, <1>6, <1>7 DEF TypeInv

\* Every step of a pass keeps the types, and so does its death.
LEMMA PassStepType ==
    ASSUME TypeInv, LapseType, NEW p \in Pass, PassStep(p) \/ Die(p)
    PROVE  TypeInv' /\ LapseType'
<1>1. CASE RunOn(p)
  <2>1. TypeInv'
    BY <1>1, NextType DEF RunOn, Next
  <2> QED
    BY <1>1, <2>1 DEF RunOn, LapseType, Stages
<1>2. CASE Die(p)
  <2>1. TypeInv'
    BY <1>2, NextType DEF Die, Next
  <2> QED
    BY <1>2, <2>1 DEF Die, LapseType, Stages
<1> QED
  BY <1>1, <1>2, ReadClockType, SynthesiseType, EndLapseType DEF PassStep
-----------------------------------------------------------------------------
(* Types: the commands.                                                    *)

\* Reading something, and dying, leaves the tables as they are.
LEMMA CallType ==
    ASSUME DeskInv, Commanding, TablesType', call' \in Call, given' \in 0 .. MaxCommands,
           CallNames'
    PROVE  DeskInv'
<1>1. TypeInv' /\ LapseType'
  BY CommandingType DEF DeskInv
<1> QED
  BY <1>1 DEF DeskInv

\* A command that has just been given.
LEMMA GiveType ==
    ASSUME DeskInv, NEW command, NEW first \in Call, Give(command, first),
           first.step \notin {"none", "target", "group"} => first.target \in Group,
           first.step # "link"
    PROVE  DeskInv'
<1>1. TablesType'
  BY UnchangedTablesType DEF DeskInv, TypeInv, TypeOK, Give
<1>2. call' \in Call /\ CallNames'
  BY DEF Give, CallNames
<1>3. given' \in 0 .. MaxCommands
  BY OperatorAssumption DEF Give, DeskInv
<1>4. Commanding
  BY DEF Give
<1> QED
  BY <1>1, <1>2, <1>3, <1>4, CallType

\* The operator gives a command.
LEMMA CommandsType ==
    ASSUME DeskInv, Commands
    PROVE  DeskInv'
<1>1. ASSUME NEW r \in Regrouping, Regroup(r[1], r[2])
      PROVE  DeskInv'
  <2> DEFINE left == {txnGroup[t] : t \in r[1]} \ {NoGroup}
             first == [NoCall EXCEPT !.step = "target", !.rows = r[1], !.target = r[2],
                                     !.left = left, !.alone = TRUE]
  <2>1. r[1] \in SUBSET Txn /\ r[2] \in Group \cup {NoGroup}
    BY OperatorAssumption
  <2>2. left \in SUBSET Group
    BY <2>1 DEF DeskInv, TypeInv, TypeOK, TablesType
  <2>3. Give("regroup", first)
    BY <1>1 DEF Regroup
  <2> HIDE DEF left
  <2>4. first \in Call /\ first.step = "target"
    BY <2>1, <2>2, NoCallType DEF NoCall, Call
  <2> HIDE DEF first
  <2> QED
    BY <2>3, <2>4, GiveType
<1>2. ASSUME NEW o \in Order, NEW g \in Group \cup {NoGroup}, LinkOrder(o, g)
      PROVE  DeskInv'
  <2> DEFINE first == [NoCall EXCEPT !.step = "target", !.order = o, !.target = g]
  <2>1. Give("link", first)
    BY <1>2 DEF LinkOrder
  <2>2. first \in Call /\ first.step = "target"
    BY NoCallType DEF NoCall, Call
  <2> HIDE DEF first
  <2> QED
    BY <2>1, <2>2, GiveType
<1>3. ASSUME NEW g \in Group, Remap(g) \/ Dismiss(g) \/ MarkUnfilled(g)
      PROVE  DeskInv'
  <2> DEFINE first(step) == [NoCall EXCEPT !.step = step, !.target = g, !.saw = groupRow[g]]
  <2>1. \/ Give("remap", first("remap")) \/ Give("dismiss", first("dismiss"))
        \/ Give("unfilled", first("check"))
    BY <1>3 DEF Remap, Dismiss, MarkUnfilled
  <2>2. groupRow[g] \in GroupRowType
    BY DEF DeskInv, TypeInv, TypeOK, TablesType
  <2>3. \A step \in {"remap", "dismiss", "check"} :
            first(step) \in Call /\ first(step).step # "link" /\ first(step).target \in Group
    BY <2>2, NoCallType DEF NoCall, Call
  <2> HIDE DEF first
  <2> QED
    BY <2>1, <2>3, GiveType
<1> QED
  BY <1>1, <1>2, <1>3 DEF Commands

\* The command as it goes on once its group is there.
LEMMA HasTargetType ==
    ASSUME DeskInv, NEW g \in Group
    PROVE  /\ HasTarget(g) \in Call /\ HasTarget(g).target = g
           /\ HasTarget(g).step = IF call.order = NoOrder THEN "move" ELSE "link"
           /\ HasTarget(g).order = call.order
           /\ HasTarget(g).step = "link" => HasTarget(g).order \in Order
BY NoRowType DEF DeskInv, HasTarget, Call

\* A new group of the operator's is a row of the table.
LEMMA OpenedRowType ==
    [NoRow EXCEPT !.status = "open", !.manual = TRUE] \in GroupRowType
BY NoRowType DEF NoRow, GroupRowType, Statuses

\* A row recomputed from a set of rows is a row of the table.
LEMMA RecomputedType ==
    ASSUME NEW row \in GroupRowType, NEW S \in SUBSET Txn
    PROVE  Recomputed(row, S) \in GroupRowType
<1> DEFINE fields == [row EXCEPT !.premium = Once(S), !.fees = Once(S)]
<1>1. fields \in GroupRowType
  BY OnceType DEF GroupRowType
<1>2. [fields EXCEPT !.review = "ignored", !.stamped = FALSE, !.realized = None] \in GroupRowType
  BY <1>1, OnceType DEF GroupRowType, Reviews
<1>3. Once(S) \in Count
  BY OnceType
<1>4. Stamped(fields, Once(S)) \in GroupRowType
  BY <1>1, <1>3, StampedType
<1> QED
  BY <1>1, <1>2, <1>4 DEF Recomputed

\* The group of a regroup or of an order is read or created.
LEMMA TargetType ==
    ASSUME DeskInv, ReadTarget \/ WriteTarget
    PROVE  DeskInv'
<1>1. TablesType
  BY DEF DeskInv, TypeInv, TypeOK
<1>2. Commanding /\ UNCHANGED given
  BY DEF ReadTarget, WriteTarget, Goes
<1>3. ASSUME NEW g \in Group, call' = HasTarget(g), TablesType'
      PROVE  DeskInv'
  <2>1. call' \in Call /\ CallNames'
    BY <1>3, HasTargetType DEF CallNames
  <2> QED
    BY <1>2, <1>3, <2>1, CallType DEF DeskInv
<1>4. CASE ReadTarget /\ call.target = NoGroup
  <2>1. PICK g \in Group :
            /\ UpsertTradeGroup(g, [NoRow EXCEPT !.status = "open", !.manual = TRUE])
            /\ call' = HasTarget(g)
    BY <1>4 DEF ReadTarget
  <2>2. TablesType'
    BY <1>1, <2>1, OpenedRowType, UpsertTradeGroupType
  <2> QED
    BY <1>3, <2>1, <2>2
<1>5. CASE ReadTarget /\ call.target # NoGroup
  <2>1. call' = [call EXCEPT !.step = "targetWrite", !.saw = groupRow[call.target]]
        /\ UNCHANGED tables
    BY <1>5 DEF ReadTarget
  <2>2. call.target \in Group
    BY <1>5 DEF DeskInv, Call
  <2>3. groupRow[call.target] \in GroupRowType
    BY <1>1, <2>2 DEF TablesType
  <2>4. call' \in Call /\ CallNames'
    BY <2>1, <2>2, <2>3 DEF DeskInv, Call, CallNames
  <2> QED
    BY <1>1, <1>2, <2>1, <2>4, CallType, UnchangedTablesType DEF DeskInv
<1>6. CASE WriteTarget
  <2>1. call.target \in Group /\ call.saw \in GroupRowType
    BY <1>6 DEF DeskInv, CallNames, Call, WriteTarget, Goes
  <2>2. [call.saw EXCEPT !.manual = TRUE] \in GroupRowType
    BY <2>1 DEF GroupRowType
  <2>3. TablesType'
    BY <1>1, <1>6, <2>1, <2>2, UpsertTradeGroupType DEF WriteTarget
  <2> QED
    BY <1>3, <1>6, <2>1, <2>3 DEF WriteTarget
<1> QED
  BY <1>4, <1>5, <1>6

\* The rows are moved, and the groups recomputed.
LEMMA RegroupType ==
    ASSUME DeskInv, \/ RegroupMove \/ RegroupReadActivity \/ RegroupWriteGroup
                    \/ \E g \in Group : RegroupReadGroup(g)
    PROVE  DeskInv'
<1>1. TablesType
  BY DEF DeskInv, TypeInv, TypeOK
<1>2. Commanding /\ UNCHANGED given
  BY DEF RegroupMove, RegroupReadActivity, RegroupWriteGroup, RegroupReadGroup, Goes
<1>3. CASE RegroupMove
  <2>1. call.target \in Group /\ call.rows \in SUBSET Txn
    BY <1>3 DEF DeskInv, CallNames, Call, RegroupMove, Goes
  <2>2. TablesType'
    BY <1>1, <1>3, <2>1, AttachTransactionsType DEF RegroupMove
  <2>3. call' \in Call /\ CallNames'
    BY <1>3 DEF RegroupMove, DeskInv, Call, CallNames
  <2> QED
    BY <1>2, <2>2, <2>3, CallType DEF DeskInv
<1>4. ASSUME NEW g \in Group, RegroupReadGroup(g)
      PROVE  DeskInv'
  <2>1. TablesType'
    BY <1>1, <1>4, UnchangedTablesType DEF RegroupReadGroup
  <2>2. groupRow[g] \in GroupRowType
    BY <1>1 DEF TablesType
  <2>3. call' \in Call /\ CallNames'
    BY <1>4, <2>2 DEF RegroupReadGroup, DeskInv, Call, CallNames
  <2> QED
    BY <1>2, <2>1, <2>3, CallType DEF DeskInv
<1>5. CASE RegroupReadActivity
  <2>1. TablesType'
    BY <1>1, <1>5, UnchangedTablesType DEF RegroupReadActivity
  <2>2. GroupTransactions(call.target) \in SUBSET Txn
    BY <1>1 DEF TablesType, GroupTransactions
  <2>3. call.target \in Group
    BY <1>5 DEF RegroupReadActivity, Goes, DeskInv, CallNames
  <2>4. call' \in Call /\ CallNames'
    BY <1>5, <2>2, <2>3 DEF RegroupReadActivity, DeskInv, Call, CallNames
  <2> QED
    BY <1>2, <2>1, <2>4, CallType DEF DeskInv
<1>6. CASE RegroupWriteGroup
  <2>1. /\ call.target \in Group /\ call.saw \in GroupRowType /\ call.members \in SUBSET Txn
    BY <1>6 DEF DeskInv, CallNames, Call, RegroupWriteGroup, Goes
  <2>2. Recomputed(call.saw, call.members) \in GroupRowType
    BY <2>1, RecomputedType
  <2>3. TablesType'
    BY <1>1, <1>6, <2>1, <2>2, UpsertTradeGroupType DEF RegroupWriteGroup
  <2>4. call' = NoCall \/ call' = [call EXCEPT !.step = "group", !.saw = NoRow, !.members = {}]
    BY <1>6 DEF RegroupWriteGroup
  <2>5. call' \in Call /\ CallNames'
    BY <2>4, NoCallType, NoRowType DEF DeskInv, Call, CallNames, NoCall
  <2> QED
    BY <1>2, <2>3, <2>5, CallType DEF DeskInv
<1> QED
  BY <1>3, <1>4, <1>5, <1>6

\* The commands on one group, and the link of an order.
LEMMA OneGroupType ==
    ASSUME DeskInv, RemapWrite \/ DismissWrite \/ CheckEmpty \/ MarkWrite \/ LinkWrite
    PROVE  DeskInv'
<1>1. TablesType
  BY DEF DeskInv, TypeInv, TypeOK
<1>2. Commanding /\ UNCHANGED given
  BY DEF RemapWrite, DismissWrite, CheckEmpty, MarkWrite, LinkWrite, Goes
<1>3. call.target \in Group /\ call.saw \in GroupRowType
  BY DEF DeskInv, CallNames, Call, RemapWrite, DismissWrite, CheckEmpty, MarkWrite, LinkWrite,
     Goes
<1>4. NoCall \in Call /\ (call' = NoCall => CallNames')
  BY NoCallType DEF CallNames, NoCall
<1>5. CASE CheckEmpty
  <2>1. call' = NoCall \/ call' = [call EXCEPT !.step = "mark"]
    BY <1>5 DEF CheckEmpty
  <2>2. call' \in Call /\ CallNames'
    BY <1>3, <1>4, <2>1 DEF DeskInv, Call, CallNames
  <2>3. TablesType'
    BY <1>1, <1>5, UnchangedTablesType DEF CheckEmpty
  <2> QED
    BY <1>2, <2>2, <2>3, CallType DEF DeskInv
<1>6. CASE RemapWrite \/ DismissWrite \/ MarkWrite
  <2>1. PICK row \in {[call.saw EXCEPT !.manual = TRUE, !.review = "confirmed"],
                      [call.saw EXCEPT !.review = "ignored"],
                      [call.saw EXCEPT !.status = "unfilled"]} :
            UpsertTradeGroup(call.target, row)
    BY <1>6 DEF RemapWrite, DismissWrite, MarkWrite
  <2>2. row \in GroupRowType
    BY <1>3, <2>1 DEF GroupRowType, Reviews, Statuses
  <2>3. TablesType'
    BY <1>1, <1>3, <2>1, <2>2, UpsertTradeGroupType
  <2>4. call' = NoCall
    BY <1>6 DEF RemapWrite, DismissWrite, MarkWrite
  <2> QED
    BY <1>2, <1>4, <2>3, <2>4, CallType DEF DeskInv
<1>7. CASE LinkWrite
  <2>1. call.order \in Order
    BY <1>7 DEF DeskInv, CallNames, LinkWrite, Goes
  <2>2. TablesType'
    BY <1>1, <1>3, <1>7, <2>1, UpsertOrdersType DEF LinkWrite
  <2>3. call' = NoCall
    BY <1>7 DEF LinkWrite
  <2> QED
    BY <1>2, <1>4, <2>2, <2>3, CallType DEF DeskInv
<1> QED
  BY <1>5, <1>6, <1>7

\* A command dies.
LEMMA CommandDiesType ==
    ASSUME DeskInv, CommandDies
    PROVE  DeskInv'
<1>1. TablesType'
  BY UnchangedTablesType DEF DeskInv, TypeInv, TypeOK, CommandDies
<1>2. aborts' \in 0 .. MaxAborts
  BY ReconcileAssumption DEF DeskInv, TypeInv, TypeOK, CommandDies
<1>3. UNCHANGED locals /\ UNCHANGED <<quiet, lone, settled>>
  BY DEF CommandDies
<1>4. TypeOK'
  BY <1>1, <1>2, <1>3 DEF DeskInv, TypeInv, TypeOK, locals
<1>5. JobsNameGroups'
  BY <1>3 DEF DeskInv, TypeInv, JobsNameGroups, locals
<1>6. LapseType' /\ given' \in 0 .. MaxCommands
  BY DEF DeskInv, LapseType, CommandDies, lapseVars
<1>7. call' \in Call /\ CallNames'
  BY NoCallType DEF CommandDies, CallNames, NoCall
<1> QED
  BY <1>4, <1>5, <1>6, <1>7 DEF DeskInv, TypeInv

\* The passes and the world go on beside a command.
LEMMA OthersType ==
    ASSUME DeskInv, Others
    PROVE  DeskInv'
<1>1. TypeInv' /\ LapseType'
  <2>1. \/ \E p \in Pass : PassStep(p) \/ Die(p)
        \/ BrokerFeed
        \/ \E s \in Priced : PriceArrives(s)
    BY DEF Others
  <2> QED
    BY <2>1, PassStepType, WorldType DEF DeskInv
<1>2. call' \in Call /\ CallNames'
  <2>1. call' = [call EXCEPT !.alone = call.alone /\ UNCHANGED tables]
    BY DEF Others
  <2>2. (call.alone /\ UNCHANGED tables) \in BOOLEAN
    OBVIOUS
  <2> QED
    BY <2>1, <2>2 DEF DeskInv, Call, CallNames
<1>3. given' \in 0 .. MaxCommands
  BY DEF DeskInv, Others
<1> QED
  BY <1>1, <1>2, <1>3 DEF DeskInv

\* Every step keeps the types.
LEMMA DeskNextType ==
    ASSUME DeskInv, [DeskNext]_deskVars
    PROVE  DeskInv'
<1>1. CASE UNCHANGED deskVars
  <2>1. UNCHANGED vars /\ UNCHANGED lapseVars /\ UNCHANGED <<call, given>>
    BY <1>1 DEF deskVars
  <2>2. TypeInv'
    BY <2>1, NextType DEF DeskInv
  <2> QED
    BY <2>1, <2>2 DEF DeskInv, LapseType, lapseVars, CallNames
<1>2. CASE Carries
  BY <1>2, TargetType, RegroupType, OneGroupType DEF Carries
<1> QED
  BY <1>1, <1>2, CommandsType, CommandDiesType, OthersType DEF DeskNext

\* Before anything has happened the types hold.
LEMMA DeskInitType ==
    ASSUME DeskInit
    PROVE  DeskInv
<1>1. TypeInv
  BY InitType DEF DeskInit
<1>2. LapseType
  BY DEF DeskInit, LapseInit, LapseType, Stages
<1>3. call \in Call /\ CallNames
  BY NoCallType DEF DeskInit, CallNames, NoCall
<1>4. given \in 0 .. MaxCommands
  BY OperatorAssumption DEF DeskInit
<1> QED
  BY <1>1, <1>2, <1>3, <1>4 DEF DeskInv

(* Every variable of the account, of the passes with their lapses and of    *)
(* the operator's command keeps its type, and a command that goes on knows  *)
(* the group it is about (remap.py, synthesize_lapsed_settlements).         *)
THEOREM DeskTyped == DeskSpec => []DeskType
<1>1. DeskInit => DeskInv
  BY DeskInitType
<1>2. DeskInv /\ [DeskNext]_deskVars => DeskInv'
  BY DeskNextType
<1>3. DeskInv => DeskType
  BY DEF DeskInv, DeskType, TypeInv
<1> QED
  BY <1>1, <1>2, <1>3, PTL DEF DeskSpec
-----------------------------------------------------------------------------
(* A regroup nobody interferes with.                                       *)

\* The row says of the rows what they are: their sums, and their end if they have come
\* to one.
Settles(row, rows) ==
    /\ row.premium = Once(rows) /\ row.fees = Once(rows)
    /\ rows = {} => row.review = "ignored" /\ ~row.stamped
    /\ FullyClosed(rows) => /\ row.status = TerminalStatus(rows)
                           /\ row.realized = Once(rows)

UpToDate(g) == Settles(groupRow[g], GroupTransactions(g))

\* Up to the move no group is touched; from then on, those not left are up to date, but
\* for the one being recomputed, whose rows are read as they are.
RegroupInv ==
    call.alone =>
        /\ call.step \in {"target", "targetWrite", "move", "group", "activity", "groupWrite"}
        /\ call.step \in {"target", "targetWrite", "move"} =>
                call.order = NoOrder /\ call.touched = {}
        /\ call.step = "group" =>
                \A g \in call.touched \ call.left : UpToDate(g)
        /\ call.step \in {"activity", "groupWrite"} =>
                \A g \in call.touched \ (call.left \cup {call.target}) : UpToDate(g)
        /\ call.step = "groupWrite" => call.members = GroupTransactions(call.target)

\* A group recomputed from its rows is up to date, whatever its row said.
LEMMA RecomputedSettles ==
    ASSUME NEW row \in GroupRowType, NEW S \in SUBSET Txn
    PROVE  Settles(Recomputed(row, S), S)
<1> DEFINE fields == [row EXCEPT !.premium = Once(S), !.fees = Once(S)]
<1>1. /\ fields.premium = Once(S) /\ fields.fees = Once(S)
      /\ fields \in GroupRowType
  BY OnceType DEF GroupRowType
<1> HIDE DEF fields
<1>2. CASE S = {}
  <2>1. Recomputed(row, S) =
            [fields EXCEPT !.review = "ignored", !.stamped = FALSE, !.realized = None]
    BY <1>2 DEF Recomputed, fields
  <2>2. ~FullyClosed(S)
    BY <1>2 DEF FullyClosed
  <2> QED
    BY <1>1, <2>1, <2>2 DEF Settles, GroupRowType
<1>3. CASE S # {} /\ FullyClosed(S)
  <2>1. Recomputed(row, S) = Stamped(fields, Once(S))
    BY <1>3 DEF Recomputed, fields
  <2>2. Recomputed(row, S) = [fields EXCEPT !.status = TerminalStatus(S), !.stamped = TRUE,
                                            !.realized = Once(S), !.fees = Once(S)]
    BY <2>1, OnceOfSets DEF Stamped
  <2> QED
    BY <1>1, <1>3, <2>2 DEF Settles, GroupRowType
<1>4. CASE S # {} /\ ~FullyClosed(S)
  <2>1. Recomputed(row, S) = fields
    BY <1>4 DEF Recomputed, fields
  <2> QED
    BY <1>1, <1>4, <2>1 DEF Settles
<1> QED
  BY <1>2, <1>3, <1>4

\* Steps that write no table leave a group as up to date as it is.
LEMMA SameUpToDate ==
    ASSUME UNCHANGED tables
    PROVE  \A g : UpToDate(g)' = UpToDate(g)
BY DEF UpToDate, GroupTransactions, tables

\* A command just given, one that is over, and a step of the others.
LEMMA OtherRegroup ==
    ASSUME DeskInv, RegroupInv, Commands \/ CommandDies \/ Others \/ UNCHANGED deskVars
    PROVE  RegroupInv'
<1>1. CASE Commands
  <2>1. ASSUME NEW r \in Regrouping, Regroup(r[1], r[2])
        PROVE  RegroupInv'
    <3>1. call'.step = "target" /\ call'.order = NoOrder /\ call'.touched = {}
      BY <2>1 DEF Regroup, Give, NoCall
    <3> QED
      BY <3>1 DEF RegroupInv
  <2>2. ASSUME NEW o \in Order, NEW g \in Group \cup {NoGroup}, LinkOrder(o, g)
        PROVE  RegroupInv'
    BY <2>2 DEF LinkOrder, Give, NoCall, RegroupInv
  <2>3. ASSUME NEW g \in Group, Remap(g) \/ Dismiss(g) \/ MarkUnfilled(g)
        PROVE  RegroupInv'
    BY <2>3 DEF Remap, Dismiss, MarkUnfilled, Give, NoCall, RegroupInv
  <2> QED
    BY <1>1, <2>1, <2>2, <2>3 DEF Commands
<1>2. CASE CommandDies
  BY <1>2 DEF CommandDies, NoCall, RegroupInv
<1>3. CASE Others
  <2>1. call' = [call EXCEPT !.alone = call.alone /\ UNCHANGED tables]
    BY <1>3 DEF Others
  <2>2. call \in Call
    BY DEF DeskInv
  <2>3. /\ call'.step = call.step /\ call'.order = call.order /\ call'.left = call.left
        /\ call'.touched = call.touched /\ call'.target = call.target
        /\ call'.members = call.members
        /\ call'.alone => call.alone /\ UNCHANGED tables
    BY <2>1, <2>2 DEF Call
  <2>4. CASE UNCHANGED tables
    <3>1. UNCHANGED <<txns, txnGroup>>
      BY <2>4 DEF tables
    <3> QED
      BY <2>3, <2>4, <3>1, SameUpToDate DEF RegroupInv, GroupTransactions
  <2> QED
    BY <2>3, <2>4 DEF RegroupInv
<1>4. CASE UNCHANGED deskVars
  <2>1. UNCHANGED tables /\ UNCHANGED call
    BY <1>4 DEF deskVars, vars
  <2>2. UNCHANGED <<txns, txnGroup>>
    BY <2>1 DEF tables
  <2> QED
    BY <2>1, <2>2, SameUpToDate DEF RegroupInv, GroupTransactions
<1> QED
  BY <1>1, <1>2, <1>3, <1>4

\* The other commands are never alone, and the target is there before a group is touched.
LEMMA TargetRegroup ==
    ASSUME DeskInv, RegroupInv,
           \/ ReadTarget \/ WriteTarget
           \/ RemapWrite \/ DismissWrite \/ CheckEmpty \/ MarkWrite \/ LinkWrite
    PROVE  RegroupInv'
<1>1. call \in Call
  BY DEF DeskInv
<1>2. CASE RemapWrite \/ DismissWrite \/ MarkWrite \/ LinkWrite
  BY <1>2 DEF RemapWrite, DismissWrite, MarkWrite, LinkWrite, NoCall, RegroupInv
<1>3. CASE CheckEmpty
  <2>1. ~call.alone
    BY <1>3 DEF CheckEmpty, Goes, RegroupInv
  <2>2. ~call'.alone
    BY <1>1, <1>3, <2>1 DEF CheckEmpty, NoCall, Call
  <2> QED
    BY <2>2 DEF RegroupInv
<1>4. ASSUME NEW g \in Group, call' = HasTarget(g), call.step \in {"target", "targetWrite"}
      PROVE  RegroupInv'
  <2>1. /\ call'.alone = call.alone /\ call'.order = call.order
        /\ call'.touched = call.touched
        /\ call.order = NoOrder => call'.step = "move"
    BY <1>1, <1>4 DEF HasTarget, Call
  <2> QED
    BY <1>4, <2>1 DEF RegroupInv
<1>5. CASE ReadTarget /\ call.target = NoGroup
  BY <1>4, <1>5 DEF ReadTarget, Goes
<1>6. CASE ReadTarget /\ call.target # NoGroup
  <2>1. call' = [call EXCEPT !.step = "targetWrite", !.saw = groupRow[call.target]]
    BY <1>6 DEF ReadTarget
  <2>2. /\ call'.alone = call.alone /\ call'.order = call.order
        /\ call'.touched = call.touched /\ call'.step = "targetWrite"
    BY <1>1, <2>1 DEF Call
  <2> QED
    BY <1>6, <2>2 DEF RegroupInv, ReadTarget, Goes
<1>7. CASE WriteTarget
  <2>1. call.target \in Group
    BY <1>7 DEF WriteTarget, Goes, DeskInv, CallNames
  <2> QED
    BY <1>4, <1>7, <2>1 DEF WriteTarget, Goes
<1> QED
  BY <1>2, <1>3, <1>5, <1>6, <1>7

\* Every group the regroup has dealt with is up to date once its row is written.
LEMMA WrittenUpToDate ==
    ASSUME DeskInv, RegroupInv, call.alone, RegroupWriteGroup
    PROVE  \A g \in call.touched \ call.left :
               g \in Group /\ UpToDate(g)' /\ Settles(groupRow'[g], GroupTransactions(g))
<1>1. call \in Call /\ call.step = "groupWrite" /\ call.target \in Group
  BY DEF DeskInv, CallNames, RegroupWriteGroup, Goes
<1>2. /\ call.members = GroupTransactions(call.target)
      /\ \A g \in call.touched \ (call.left \cup {call.target}) : UpToDate(g)
  BY <1>1 DEF RegroupInv
<1>3. call.saw \in GroupRowType /\ call.members \in SUBSET Txn /\ call.touched \in SUBSET Group
  BY <1>1 DEF Call
<1>4. groupRow' = [groupRow EXCEPT ![call.target] = Recomputed(call.saw, call.members)]
      /\ UNCHANGED <<txns, txnGroup>>
  BY DEF RegroupWriteGroup, UpsertTradeGroup
<1>5. groupRow \in [Group -> GroupRowType]
  BY DEF DeskInv, TypeInv, TypeOK, TablesType
<1>6. \A g : GroupTransactions(g)' = GroupTransactions(g)
  BY <1>4 DEF GroupTransactions
<1>7. Settles(Recomputed(call.saw, call.members), call.members)
  BY <1>3, RecomputedSettles
<1> TAKE g \in call.touched \ call.left
<1>8. g \in Group
  BY <1>3
<1>9. Settles(groupRow'[g], GroupTransactions(g))
  <2>1. CASE g = call.target
    BY <1>1, <1>2, <1>4, <1>5, <1>7, <2>1
  <2>2. CASE g # call.target
    BY <1>2, <1>4, <1>5, <1>8, <2>2 DEF UpToDate
  <2> QED
    BY <2>1, <2>2
<1> QED
  BY <1>6, <1>8, <1>9 DEF UpToDate

\* Group by group.
LEMMA StepsRegroup ==
    ASSUME DeskInv, RegroupInv,
           \/ RegroupMove \/ RegroupReadActivity \/ RegroupWriteGroup
           \/ \E g \in Group : RegroupReadGroup(g)
    PROVE  RegroupInv'
<1>1. call \in Call
  BY DEF DeskInv
<1>2. CASE RegroupMove
  <2>1. /\ call'.step = "group" /\ call'.alone = call.alone /\ call'.left = call.left
        /\ call'.touched = call.touched \cup call.left
    BY <1>1, <1>2 DEF RegroupMove, Call
  <2>2. call.alone => call.touched = {}
    BY <1>2 DEF RegroupInv, RegroupMove, Goes
  <2> QED
    BY <2>1, <2>2 DEF RegroupInv
<1>3. ASSUME NEW g \in Group, RegroupReadGroup(g)
      PROVE  RegroupInv'
  <2>1. /\ call'.step = "activity" /\ call'.alone = call.alone /\ call'.left = call.left \ {g}
        /\ call'.touched = call.touched /\ call'.target = g
    BY <1>1, <1>3 DEF RegroupReadGroup, Call
  <2>2. call.alone => \A h \in call.touched \ call.left : UpToDate(h)
    BY <1>3 DEF RegroupInv, RegroupReadGroup, Goes
  <2>3. \A h : UpToDate(h)' = UpToDate(h)
    BY <1>3, SameUpToDate DEF RegroupReadGroup
  <2> QED
    BY <2>1, <2>2, <2>3 DEF RegroupInv
<1>4. CASE RegroupReadActivity
  <2>1. /\ call'.step = "groupWrite" /\ call'.alone = call.alone /\ call'.left = call.left
        /\ call'.touched = call.touched /\ call'.target = call.target
        /\ call'.members = GroupTransactions(call.target)
    BY <1>1, <1>4 DEF RegroupReadActivity, Call
  <2>2. call.alone =>
            \A h \in call.touched \ (call.left \cup {call.target}) : UpToDate(h)
    BY <1>4 DEF RegroupInv, RegroupReadActivity, Goes
  <2>3. \A h : UpToDate(h)' = UpToDate(h)
    BY <1>4, SameUpToDate DEF RegroupReadActivity
  <2>4. call'.members = GroupTransactions(call.target)'
    BY <1>4, <2>1 DEF RegroupReadActivity, tables, GroupTransactions
  <2> QED
    BY <2>1, <2>2, <2>3, <2>4 DEF RegroupInv
<1>5. CASE RegroupWriteGroup
  <2>1. CASE call.left = {}
    BY <1>5, <2>1 DEF RegroupWriteGroup, NoCall, RegroupInv
  <2>2. CASE call.left # {}
    <3>1. /\ call'.step = "group" /\ call'.alone = call.alone /\ call'.left = call.left
          /\ call'.touched = call.touched
      BY <1>1, <1>5, <2>2 DEF RegroupWriteGroup, Call
    <3>2. call.alone => \A g \in call.touched \ call.left : UpToDate(g)'
      BY <1>5, WrittenUpToDate
    <3> QED
      BY <3>1, <3>2 DEF RegroupInv
  <2> QED
    BY <2>1, <2>2
<1> QED
  BY <1>2, <1>3, <1>4, <1>5

\* Every step keeps what the regroup under way relies on.
LEMMA NextRegroup ==
    ASSUME DeskInv, RegroupInv, [DeskNext]_deskVars
    PROVE  RegroupInv'
<1>1. CASE Carries
  BY <1>1, TargetRegroup, StepsRegroup DEF Carries
<1> QED
  BY <1>1, OtherRegroup DEF DeskNext

(* A regroup that nobody interferes with, whatever rows it moves and        *)
(* whatever was done before, leaves every group it touched stamped with     *)
(* exactly the rows it holds: an emptied one ignored, a flat one closed     *)
(* (_recompute_group).                                                      *)
THEOREM RegroupSettlesAlways == DeskSpec => RegroupSettles
<1>1. DeskInit => DeskInv /\ RegroupInv
  BY DeskInitType DEF DeskInit, NoCall, RegroupInv
<1>2. DeskInv /\ RegroupInv /\ [DeskNext]_deskVars => (DeskInv /\ RegroupInv)'
  BY DeskNextType, NextRegroup
<1>3. DeskInv /\ RegroupInv /\ [DeskNext]_deskVars =>
        [RegroupWriteGroup /\ call.left = {} /\ call.alone =>
            \A g \in call.touched :
                LET rows == GroupTransactions(g)
                    row  == groupRow'[g]
                IN  /\ row.premium = Once(rows) /\ row.fees = Once(rows)
                    /\ rows = {} => row.review = "ignored" /\ ~row.stamped
                    /\ FullyClosed(rows) => /\ row.status = TerminalStatus(rows)
                                           /\ row.realized = Once(rows)]_deskVars
  BY WrittenUpToDate DEF Settles
<1> QED
  BY <1>1, <1>2, <1>3, PTL DEF DeskSpec, RegroupSettles
-----------------------------------------------------------------------------
(* A lot and its settlement.                                               *)

\* Rows are numbered, up to the length of the list.
LEMMA RowNumbers ==
    /\ Len(Row) \in Nat
    /\ \A i : i \in Nat /\ 0 < i /\ i <= Len(Row) => i \in Txn
    /\ \A u \in Txn : u \in Nat /\ 0 < u /\ u <= Len(Row) /\ Row[u].qty \in Nat
BY RowTypes

\* Two settlements take a net to the same place in either order, and one of the net's
\* own size takes it to nothing.
LEMMA TowardZeroTwice ==
    ASSUME NEW n \in Int, NEW q \in Nat, NEW r \in Nat
    PROVE  /\ TowardZero(n, q) \in Int
           /\ TowardZero(TowardZero(n, q), r) = TowardZero(TowardZero(n, r), q)
           /\ TowardZero(0, q) = 0
           /\ TowardZero(n, Abs(n)) = 0
<1>0. TowardZero(n, q) \in Int
  BY DEF TowardZero, Lower
<1>1. TowardZero(0, q) = 0
  <2>1. \A z \in Int : ~(0 < z) /\ ~(z < 0) => TowardZero(z, q) = 0
    BY DEF TowardZero, Lower
  <2> QED
    BY <2>1
<1>2. TowardZero(TowardZero(n, q), r) = TowardZero(TowardZero(n, r), q)
  <2>1. CASE n > 0
    BY <2>1 DEF TowardZero, Lower
  <2>2. CASE ~(n > 0)
    BY <2>2 DEF TowardZero, Lower
  <2> QED
    BY <2>1, <2>2
<1>3. TowardZero(n, Abs(n)) = 0
  BY DEF TowardZero, Lower, Abs
<1> QED
  BY <1>0, <1>1, <1>2, <1>3

\* What a settlement, and what a money movement, makes of a net.
LEMMA SettlingStep ==
    ASSUME NEW n \in Int, NEW u \in Txn
    PROVE  /\ IsNontradeClose(u) => Stepped(n, u) = TowardZero(n, Row[u].qty)
           /\ Row[u].type = "Money Movement" => Stepped(n, u) = n
<1>1. Row[u].qty \in Nat
  BY RowTypes
<1>2. ASSUME IsNontradeClose(u)
      PROVE  Stepped(n, u) = TowardZero(n, Row[u].qty)
  <2>1. Closes(n, u) /\ Row[u].type # "Money Movement"
    BY <1>2 DEF Closes, IsClosing, IsNontradeClose
  <2>2. TowardZero(0, Row[u].qty) = 0
    BY <1>1, TowardZeroTwice
  <2> QED
    BY <1>2, <2>1, <2>2 DEF Stepped, Moves, NetAfter
<1>3. Row[u].type = "Money Movement" => Stepped(n, u) = n
  BY DEF Stepped, Moves
<1> QED
  BY <1>2, <1>3

\* A settlement of a security, which only settlements of that security follow.
SettlesLast(t, s) ==
    /\ IsNontradeClose(t) /\ Row[t].sec = s
    /\ \A u \in Txn : t < u /\ Row[u].sec = s =>
            IsNontradeClose(u) \/ Row[u].type = "Money Movement"

\* The settlement has the size of what the other rows of the set amount to.
SettlesAll(S, t, s) == Row[t].qty = Abs(NetQuantities(S \ {t})[s])

\* A lot with the settlement of its size is gone.
LEMMA SettledNets ==
    ASSUME NEW S \in SUBSET Txn, NEW t \in S, NEW s \in Sec, SettlesLast(t, s),
           SettlesAll(S, t, s)
    PROVE  NetQuantities(S)[s] = 0
<1> DEFINE N == Len(Row)
           A == S \ {t}
           q == Row[t].qty
           a(i) == NetAt(A, s, i)
           b(i) == NetAt(S, s, i)
           E == {i \in 0 .. N : t <= i => b(i) = TowardZero(a(i), q)}
<1>0. t \in Txn /\ A \in SUBSET Txn
  OBVIOUS
<1> HIDE DEF A
<1>1. /\ N \in Nat /\ t \in Txn /\ t \in Nat /\ 0 < t /\ t <= N
      /\ A \in SUBSET Txn
      /\ \A u \in Txn : u \in Nat /\ Row[u].qty \in Nat
  BY <1>0, RowNumbers
<1>2. /\ a(N) = NetQuantities(A)[s]
      /\ \A i : a(i) \in Int
      /\ \A i \in Txn : a(i) = IF i \in A /\ Row[i].sec = s THEN Stepped(a(i - 1), i) ELSE a(i - 1)
  BY <1>1, NetWalk DEF N
<1>3. /\ b(N) = NetQuantities(S)[s]
      /\ \A i \in Txn : b(i) = IF i \in S /\ Row[i].sec = s THEN Stepped(b(i - 1), i) ELSE b(i - 1)
  BY NetWalk DEF N
<1>4. a(t - 1) = b(t - 1)
  <2>1. Prefix(A, t - 1) = Prefix(S, t - 1)
    <3>1. ~(t <= t - 1)
      BY <1>1
    <3> QED
      BY <3>1 DEF Prefix, A
  <2> QED
    BY <2>1 DEF NetAt
<1> HIDE DEF a, b
<1>5. b(t) = TowardZero(a(t), q)
  <2>1. b(t) = Stepped(b(t - 1), t)
    BY <1>1, <1>3 DEF SettlesLast
  <2>2. a(t) = a(t - 1) /\ a(t - 1) \in Int
    BY <1>1, <1>2 DEF A
  <2>3. Stepped(a(t - 1), t) = TowardZero(a(t - 1), q)
    BY <1>1, <2>2, SettlingStep DEF SettlesLast
  <2> QED
    BY <1>4, <2>1, <2>2, <2>3
<1>6. 0 \in E
  BY <1>1
<1>7. ASSUME NEW i \in 0 .. N, i # 0, i - 1 \in E, t <= i
      PROVE  b(i) = TowardZero(a(i), q)
  <2>1. CASE i = t
    BY <1>5, <2>1
  <2>2. CASE i # t
    <3>1. t <= i - 1 /\ t < i /\ i \in Txn
      <4>1. i \in Nat /\ i <= N /\ t \in Nat /\ N \in Nat
        BY <1>1
      <4>2. i \in Nat /\ 0 < i /\ i <= Len(Row)
        BY <1>7, <4>1 DEF N
      <4>3. t <= i /\ t # i
        BY <1>7, <2>2
      <4>4. t <= i - 1 /\ t < i
        BY <4>1, <4>3
      <4> QED
        BY <4>2, <4>4, RowNumbers
    <3>2. b(i - 1) = TowardZero(a(i - 1), q)
      BY <1>7, <3>1
    <3>3. i \in A <=> i \in S
      BY <2>2 DEF A
    <3>4. CASE i \in S /\ Row[i].sec = s
      <4>1. a(i) = Stepped(a(i - 1), i) /\ b(i) = Stepped(b(i - 1), i)
        BY <1>2, <1>3, <3>1, <3>3, <3>4
      <4>2. a(i - 1) \in Int /\ q \in Nat /\ Row[i].qty \in Nat
        BY <1>1, <1>2, <3>1
      <4>3. b(i - 1) \in Int
        BY <3>2, <4>2, TowardZeroTwice
      <4>4. CASE IsNontradeClose(i)
        <5>1. /\ a(i) = TowardZero(a(i - 1), Row[i].qty)
              /\ b(i) = TowardZero(b(i - 1), Row[i].qty)
          BY <3>1, <4>1, <4>2, <4>3, <4>4, SettlingStep
        <5>2. TowardZero(TowardZero(a(i - 1), q), Row[i].qty) =
                  TowardZero(TowardZero(a(i - 1), Row[i].qty), q)
          BY <4>2, TowardZeroTwice
        <5> QED
          BY <3>2, <5>1, <5>2
      <4>5. CASE Row[i].type = "Money Movement"
        BY <3>1, <3>2, <4>1, <4>2, <4>3, <4>5, SettlingStep
      <4> QED
        BY <3>1, <3>4, <4>4, <4>5 DEF SettlesLast
    <3>5. CASE ~(i \in S /\ Row[i].sec = s)
      BY <1>2, <1>3, <3>1, <3>2, <3>3, <3>5
    <3> QED
      BY <3>4, <3>5
  <2> QED
    BY <2>1, <2>2
<1>8. \A i \in 0 .. N : i # 0 /\ i - 1 \in E => i \in E
  BY <1>7
<1> HIDE DEF E
<1>9. \A i \in 0 .. N : i \in E
  BY <1>1, <1>6, <1>8, UpTo
<1>10. N \in E /\ t <= N
  BY <1>1, <1>9
<1>11. b(N) = TowardZero(a(N), q)
  BY <1>10 DEF E
<1>12. a(N) \in Int /\ q = Abs(a(N))
  BY <1>2 DEF A, SettlesAll
<1>13. TowardZero(a(N), Abs(a(N))) = 0
  BY <1>12, TowardZeroTwice
<1> QED
  BY <1>3, <1>11, <1>12, <1>13
-----------------------------------------------------------------------------
(* Where a pass is with its lapses.                                        *)

\* The stage goes with the next store call.  Before the lapses are done nothing is in
\* hand but their own jobs, which are exits.
Placed(p) ==
    /\ stage[p] = "due" => pc[p] \in {"idle", "linkOrders", "snapshot"}
    /\ stage[p] = "reading" => pc[p] \in {"list", "load", "work"}
    /\ stage[p] \in {"due", "reading"} => todo[p] = {}
    /\ stage[p] = "applying" => /\ pc[p] \in {"work", "event", "stamp"}
                                /\ \A j \in todo[p] : j.kind = "exit"
    /\ stage[p] = "done" => pc[p] \notin {"idle", "linkOrders"}
    /\ stage[p] # "done" => phase[p] = "routed"

\* The next store call tells which step is taken.
LEMMA StepAt ==
    ASSUME NEW p \in Pass, Step(p)
    PROVE  /\ pc[p] = "idle" => BeginPass(p)
           /\ pc[p] = "linkOrders" => LinkOrders(p)
           /\ pc[p] = "list" => ListOpen(p)
           /\ pc[p] = "load" => \E g \in Group : LoadRows(p, g)
           /\ pc[p] = "event" => \E e \in pending[p] : EmitEvent(p, e)
           /\ pc[p] = "stamp" => Stamp(p)
           /\ pc[p] = "work" /\ phase[p] = "routed" /\ todo[p] # {} =>
                \E j \in todo[p] : \/ AttachFills(p, j) \/ ExitAttach(p, j)
                                   \/ \E g \in Group : Create(p, j, g)
<1>1. CASE Load(p)
  BY <1>1 DEF Load, BeginPass, MayBegin, LinkOrders, Snapshot, ListOpen, LoadRows
<1>2. CASE Finish(p)
  BY <1>2 DEF Finish, EndClusters, LinkRoll, StartHeal, HealRead, HealWrite, EndPass
<1>3. CASE Attribute(p)
  <2>1. \/ TakeCluster(p) \/ Route(p) \/ RefreshRead(p) \/ RefreshWrite(p)
        \/ CreateAttach(p) \/ CreateOrders(p) \/ CreateEntry(p) \/ Stamp(p)
        \/ \E j \in todo[p] : FindGroup(p, j)
        \/ \E j \in todo[p] : AttachFills(p, j) \/ ExitAttach(p, j)
                              \/ \E g \in Group : Create(p, j, g)
        \/ \E e \in pending[p] : EmitEvent(p, e)
    BY <1>3 DEF Attribute
  <2>2. CASE TakeCluster(p) \/ Route(p)
    BY <2>2 DEF TakeCluster, Route
  <2>3. CASE RefreshRead(p) \/ RefreshWrite(p) \/ CreateAttach(p) \/ CreateOrders(p)
             \/ CreateEntry(p) \/ Stamp(p)
    BY <2>3 DEF RefreshRead, RefreshWrite, CreateAttach, CreateOrders, CreateEntry, Stamp
  <2>4. CASE \E j \in todo[p] : FindGroup(p, j)
    BY <2>4 DEF FindGroup, NextJob
  <2>5. CASE \E j \in todo[p] : AttachFills(p, j) \/ ExitAttach(p, j)
                                \/ \E g \in Group : Create(p, j, g)
    BY <2>5 DEF AttachFills, ExitAttach, Create, NextJob
  <2>6. CASE \E e \in pending[p] : EmitEvent(p, e)
    BY <2>6 DEF EmitEvent
  <2> QED
    BY <2>1, <2>2, <2>3, <2>4, <2>5, <2>6
<1> QED
  BY <1>1, <1>2, <1>3 DEF Step

\* Where a step may lead: to an end only by ending, to the snapshot only from the links,
\* and to the rows of a new group only by creating it.
Leads(p) ==
    /\ pc'[p] = "idle" => EndPass(p)
    /\ pc'[p] = "linkOrders" => pc[p] = "idle"
    /\ pc'[p] = "snapshot" => pc[p] = "linkOrders"
    /\ pc'[p] = "createAttach" => \E j \in todo[p], g \in Group : Create(p, j, g)

\* Every step of a pass leads where it may.
LEMMA StepLeads ==
    ASSUME TypeInv, NEW p \in Pass, Step(p)
    PROVE  Leads(p)
<1>0. pc \in [Pass -> PcValues]
  BY DEF TypeInv, TypeOK
<1>1. CASE Load(p)
  <2>1. CASE BeginPass(p) \/ LinkOrders(p) \/ Snapshot(p)
    BY <1>0, <2>1 DEF BeginPass, MayBegin, LinkOrders, Snapshot, Leads
  <2>2. CASE ListOpen(p)
    BY <1>0, <2>2 DEF ListOpen, Leads
  <2>3. ASSUME NEW g \in Group, LoadRows(p, g)
        PROVE  Leads(p)
    BY <1>0, <2>3 DEF LoadRows, Leads
  <2> QED
    BY <1>1, <2>1, <2>2, <2>3 DEF Load
<1>2. CASE Finish(p)
  <2>1. CASE EndClusters(p) \/ LinkRoll(p) \/ StartHeal(p)
    BY <1>0, <2>1 DEF EndClusters, LinkRoll, StartHeal, Leads
  <2>2. CASE HealRead(p) \/ HealWrite(p)
    BY <1>0, <2>2 DEF HealRead, HealWrite, Leads
  <2>3. CASE EndPass(p)
    BY <1>0, <2>3 DEF EndPass, Forget, Leads
  <2> QED
    BY <1>2, <2>1, <2>2, <2>3 DEF Finish
<1>3. CASE Attribute(p)
  <2>1. CASE TakeCluster(p) \/ Route(p)
    BY <1>0, <2>1 DEF TakeCluster, Route, Leads
  <2>2. CASE RefreshRead(p) \/ RefreshWrite(p) \/ CreateAttach(p) \/ CreateOrders(p)
             \/ CreateEntry(p) \/ Stamp(p)
    BY <1>0, <2>2 DEF RefreshRead, RefreshWrite, CreateAttach, CreateOrders, CreateEntry, Stamp,
       Leads
  <2>3. ASSUME NEW j \in todo[p], FindGroup(p, j) \/ AttachFills(p, j)
        PROVE  Leads(p)
    BY <1>0, <2>3 DEF FindGroup, AttachFills, NextJob, Leads
  <2>4. ASSUME NEW j \in todo[p], ExitAttach(p, j)
        PROVE  Leads(p)
    <3>1. pc' = pc \/ pc' = [pc EXCEPT ![p] = "event"]
      BY <2>4 DEF ExitAttach
    <3>2. pc[p] = "work"
      BY <2>4 DEF ExitAttach, NextJob
    <3> QED
      BY <1>0, <3>1, <3>2 DEF Leads
  <2>5. ASSUME NEW j \in todo[p], NEW g \in Group, Create(p, j, g)
        PROVE  Leads(p)
    <3>1. pc'[p] = "createAttach"
      BY <1>0, <2>5 DEF Create
    <3> QED
      BY <2>5, <3>1 DEF Leads
  <2>6. ASSUME NEW e \in pending[p], EmitEvent(p, e)
        PROVE  Leads(p)
    <3>1. \/ pc' = pc \/ pc' = [pc EXCEPT ![p] = "stamp"] \/ pc' = [pc EXCEPT ![p] = "work"]
      BY <2>6 DEF EmitEvent
    <3>2. pc[p] = "event"
      BY <2>6 DEF EmitEvent
    <3> QED
      BY <1>0, <3>1, <3>2 DEF Leads
  <2> QED
    BY <1>3, <2>1, <2>2, <2>3, <2>4, <2>5, <2>6 DEF Attribute
<1> QED
  BY <1>1, <1>2, <1>3 DEF Step

\* The steps of the lapses keep the stage with the store call.
LEMMA LapsePlaced ==
    ASSUME TypeInv, LapseType, NEW p \in Pass, Placed(p),
           ReadClock(p) \/ Synthesise(p) \/ EndLapse(p)
    PROVE  Placed(p)'
<1>0. pc \in [Pass -> PcValues] /\ stage \in [Pass -> Stages]
  BY DEF TypeInv, TypeOK, LapseType
<1>1. CASE ReadClock(p)
  <2>1. CASE txns = {}
    <3>1. stage'[p] = "done" /\ pc'[p] = "snapshot"
      BY <1>0, <1>1, <2>1 DEF ReadClock
    <3> QED
      BY <3>1 DEF Placed
  <2>2. CASE txns # {}
    <3>1. stage'[p] = "reading" /\ pc'[p] = "list" /\ todo' = todo /\ phase' = phase
      BY <1>0, <1>1, <2>2 DEF ReadClock
    <3> QED
      BY <1>1, <3>1 DEF Placed, ReadClock
  <2> QED
    BY <2>1, <2>2
<1>2. CASE Synthesise(p)
  <2>1. /\ stage'[p] = "applying" /\ pc'[p] = "work" /\ phase'[p] = "routed"
        /\ todo'[p] = LapseJobs(p, Lapsed(p))
    BY <1>0, <1>2 DEF Synthesise, TypeInv, TypeOK, Placed
  <2>2. Lapsed(p) \in SUBSET Txn
    BY LapsedRows
  <2>3. \A j \in LapseJobs(p, Lapsed(p)) : j.kind = "exit"
    BY <2>2, LapseJobsType
  <2> QED
    BY <2>1, <2>3 DEF Placed
<1>3. CASE EndLapse(p)
  <2>1. stage'[p] = "done" /\ pc'[p] = "snapshot"
    BY <1>0, <1>3 DEF EndLapse
  <2> QED
    BY <2>1 DEF Placed
<1> QED
  BY <1>1, <1>2, <1>3

\* So do the steps of the pass in between.
LEMMA RunPlaced ==
    ASSUME TypeInv, LapseType, NEW p \in Pass, Placed(p), RunOn(p)
    PROVE  Placed(p)'
<1>0. pc \in [Pass -> PcValues] /\ stage \in [Pass -> Stages]
  BY DEF TypeInv, TypeOK, LapseType
<1>1. /\ Step(p)
      /\ pc[p] = "snapshot" \/ (pc[p] = "work" /\ todo[p] = {}) => stage[p] = "done"
      /\ stage'[p] = IF pc'[p] = "idle" THEN "due" ELSE stage[p]
  BY <1>0 DEF RunOn
<1>2. Leads(p)
  BY <1>1, StepLeads
<1>3. CASE stage[p] = "due"
  <2>1. CASE pc[p] = "idle"
    <3>1. BeginPass(p)
      BY <1>1, <2>1, StepAt
    <3>2. pc'[p] = "linkOrders" /\ phase' = phase /\ todo' = todo
      BY <1>0, <3>1 DEF BeginPass
    <3> QED
      BY <1>1, <1>3, <3>2 DEF Placed
  <2>2. CASE pc[p] = "linkOrders"
    <3>1. LinkOrders(p)
      BY <1>1, <2>2, StepAt
    <3>2. pc'[p] = "snapshot" /\ phase' = phase /\ todo' = todo
      BY <1>0, <3>1 DEF LinkOrders
    <3> QED
      BY <1>1, <1>3, <3>2 DEF Placed
  <2> QED
    BY <1>1, <1>3, <2>1, <2>2 DEF Placed
<1>4. CASE stage[p] = "reading"
  <2>1. CASE pc[p] = "list"
    <3>1. ListOpen(p)
      BY <1>1, <2>1, StepAt
    <3>2. pc'[p] \in {"load", "work"} /\ phase'[p] = phase[p] /\ todo' = todo
      BY <1>0, <1>4, <3>1 DEF ListOpen, Placed
    <3> QED
      BY <1>1, <1>4, <3>2 DEF Placed
  <2>2. CASE pc[p] = "load"
    <3>1. PICK g \in Group : LoadRows(p, g)
      BY <1>1, <2>2, StepAt
    <3>2. pc'[p] \in {"load", "work"} /\ phase'[p] = phase[p] /\ todo' = todo
      BY <1>0, <1>4, <3>1 DEF LoadRows, Placed
    <3> QED
      BY <1>1, <1>4, <3>2 DEF Placed
  <2> QED
    BY <1>1, <1>4, <2>1, <2>2 DEF Placed
<1>5. CASE stage[p] = "applying"
  <2>1. CASE pc[p] = "work"
    <3>1. PICK j \in todo[p] : \/ AttachFills(p, j) \/ ExitAttach(p, j)
                               \/ \E g \in Group : Create(p, j, g)
      BY <1>1, <1>5, <2>1, StepAt DEF Placed
    <3>2. j.kind = "exit"
      BY <1>5 DEF Placed
    <3>3. ExitAttach(p, j)
      BY <3>1, <3>2 DEF AttachFills, Create
    <3>4. pc' = pc \/ pc' = [pc EXCEPT ![p] = "event"]
      BY <3>3 DEF ExitAttach
    <3>5. pc'[p] \in {"work", "event"}
      BY <1>0, <2>1, <3>4
    <3>6. todo'[p] \subseteq todo[p] /\ phase'[p] = phase[p]
      BY <3>3 DEF ExitAttach, TypeInv, TypeOK
    <3> QED
      BY <1>1, <1>5, <3>5, <3>6 DEF Placed
  <2>2. CASE pc[p] = "event"
    <3>1. PICK e \in pending[p] : EmitEvent(p, e)
      BY <1>1, <2>2, StepAt
    <3>2. \/ pc' = pc \/ pc' = [pc EXCEPT ![p] = "stamp"] \/ pc' = [pc EXCEPT ![p] = "work"]
      BY <3>1 DEF EmitEvent
    <3>3. pc'[p] \in {"event", "stamp", "work"}
      BY <1>0, <2>2, <3>2
    <3>4. todo' = todo /\ phase' = phase
      BY <3>1 DEF EmitEvent
    <3> QED
      BY <1>1, <1>5, <3>3, <3>4 DEF Placed
  <2>3. CASE pc[p] = "stamp"
    <3>1. Stamp(p)
      BY <1>1, <2>3, StepAt
    <3>2. pc'[p] = "work" /\ todo' = todo /\ phase' = phase
      BY <1>0, <3>1 DEF Stamp
    <3> QED
      BY <1>1, <1>5, <3>2 DEF Placed
  <2> QED
    BY <1>5, <2>1, <2>2, <2>3 DEF Placed
<1>6. CASE stage[p] = "done"
  <2>1. CASE pc'[p] = "idle"
    <3>1. EndPass(p)
      BY <1>2, <2>1 DEF Leads
    <3>2. phase'[p] = "routed" /\ todo'[p] = {}
      BY <3>1 DEF EndPass, Forget, TypeInv, TypeOK
    <3> QED
      BY <1>1, <2>1, <3>2 DEF Placed
  <2>2. CASE pc'[p] # "idle"
    <3>1. pc'[p] # "linkOrders"
      BY <1>2, <1>6 DEF Leads, Placed
    <3> QED
      BY <1>1, <1>6, <2>2, <3>1 DEF Placed
  <2> QED
    BY <2>1, <2>2
<1> QED
  BY <1>0, <1>3, <1>4, <1>5, <1>6 DEF Stages
-----------------------------------------------------------------------------
(* Settlements stay in the groups they were written for.                   *)

SettledStay == \A t \in txns \cap Synthetic : txnGroup[t] = SettledGroup[t]

\* A pass waits for a settlement only to attach it to the group it was written for.
InPlace(p) ==
    /\ \A t \in Synthetic : t \notin cand[p] /\ t \notin cluster[p] /\ t \notin Held(p)
    /\ \A j \in todo[p] : \A t \in j.rows :
            t \in Synthetic => j.kind # "create" /\ SettledGroup[t] = j.group

\* A pass that goes on with what it had, and starts no new group.
LEMMA SameInPlace ==
    ASSUME NEW p \in Pass, InPlace(p), cand'[p] \subseteq cand[p],
           cluster'[p] \subseteq cluster[p], todo'[p] \subseteq todo[p],
           pc'[p] # "createAttach"
    PROVE  InPlace(p)'
BY DEF InPlace, Held

\* Nobody's rows, nobody's groups.
LEMMA SameStay ==
    ASSUME SettledStay, UNCHANGED <<txns, txnGroup>>
    PROVE  SettledStay'
BY DEF SettledStay

\* Rows are attached, the settlements among them to their own groups.
LEMMA AttachStay ==
    ASSUME SettledStay, NEW S, NEW g, AttachTransactions(S, g),
           \A t \in S : t \in Synthetic => SettledGroup[t] = g
    PROVE  SettledStay'
BY DEF SettledStay, AttachTransactions, Synthetic

\* Linking and loading, and the candidates: a settlement has its group already.
LEMMA LoadInPlace ==
    ASSUME TypeInv, SettledStay, NEW p \in Pass, InPlace(p), Load(p)
    PROVE  SettledStay' /\ InPlace(p)'
<1>1. Leads(p)
  BY StepLeads DEF Step
<1>2. UNCHANGED <<txns, txnGroup>>
  BY DEF Load, BeginPass, LinkTransactionsToOrders, LinkOrders, LinkOrdersToGroups, Snapshot,
     ListOpen, LoadRows, tables
<1>3. SettledStay'
  BY <1>2, SameStay
<1>4. pc'[p] # "createAttach"
  BY DEF Load, BeginPass, LinkOrders, Snapshot, ListOpen, LoadRows, TypeInv, TypeOK
<1>5. CASE Snapshot(p)
  <2>1. cand'[p] = Candidates /\ cluster'[p] = cluster[p] /\ todo'[p] = todo[p]
    BY <1>5 DEF Snapshot, TypeInv, TypeOK
  <2>2. \A t \in Synthetic : t \notin Candidates
    BY RoutingAssumption DEF SettledStay, Candidates, Synthetic
  <2> QED
    BY <1>3, <1>4, <2>1, <2>2 DEF InPlace, Held
<1>6. CASE ~Snapshot(p)
  <2>1. UNCHANGED <<cand, cluster, todo>>
    BY <1>6 DEF Load, BeginPass, LinkOrders, ListOpen, LoadRows
  <2> QED
    BY <1>3, <1>4, <2>1, SameInPlace
<1> QED
  BY <1>3, <1>5, <1>6

\* The rows of a cluster go from the candidates to the jobs.
LEMMA ClusterInPlace ==
    ASSUME TypeInv, SettledStay, NEW p \in Pass, InPlace(p), TakeCluster(p) \/ Route(p)
    PROVE  SettledStay' /\ InPlace(p)'
<1>1. UNCHANGED <<txns, txnGroup>> /\ pc[p] = "work" /\ pc' = pc
  BY DEF TakeCluster, Route, tables
<1>2. SettledStay'
  BY <1>1, SameStay
<1>3. CASE TakeCluster(p)
  <2> DEFINE c == FirstCluster(cand[p])
  <2>1. /\ cand'[p] \subseteq cand[p]
        /\ cluster'[p] \subseteq c
        /\ todo'[p] = IntentJobs(p, c)
        /\ c \subseteq cand[p]
    BY <1>3 DEF TakeCluster, TypeInv, TypeOK, FirstCluster
  <2> HIDE DEF c
  <2>2. \A t \in Synthetic : t \notin c
    BY <2>1 DEF InPlace
  <2>3. ASSUME NEW j \in todo'[p], NEW t \in j.rows
        PROVE  t \notin Synthetic
    <3>1. j \in IntentJobs(p, c)
      BY <2>1, <2>3
    <3>2. t \in c
      BY <3>1, <2>3, IntentJobsApart
    <3> QED
      BY <2>2, <3>2
  <2> QED
    BY <1>1, <1>2, <2>1, <2>2, <2>3 DEF InPlace, Held
<1>4. CASE Route(p)
  <2> DEFINE routed == RouteCluster(list[p], Members(p), cluster[p])
  <2>1. /\ cand'[p] = cand[p]
        /\ cluster'[p] = {}
        /\ todo'[p] = RoutedJobs(p, routed)
    BY <1>4 DEF Route, TypeInv, TypeOK
  <2> HIDE DEF routed
  <2>2. ASSUME NEW j \in todo'[p], NEW t \in j.rows
        PROVE  t \notin Synthetic
    <3>1. j \in RoutedJobs(p, routed)
      BY <2>1, <2>2
    <3>2. t \in cluster[p]
      BY <3>1, <2>2, RoutedJobsApart
    <3> QED
      BY <3>2 DEF InPlace
  <2> QED
    BY <1>1, <1>2, <2>1, <2>2 DEF InPlace, Held
<1> QED
  BY <1>3, <1>4

\* The jobs: rows are attached to the group of the job, or held for a new one.
LEMMA JobInPlace ==
    ASSUME TypeInv, SettledStay, NEW p \in Pass, InPlace(p), NEW j \in todo[p],
           \/ AttachFills(p, j) \/ ExitAttach(p, j)
           \/ \E g \in Group : Create(p, j, g)
    PROVE  SettledStay' /\ InPlace(p)'
<1>1. /\ cand' = cand /\ cluster' = cluster
      /\ todo'[p] \subseteq todo[p]
      /\ pc[p] = "work"
  BY DEF AttachFills, ExitAttach, Create, NextJob, TypeInv, TypeOK
<1>2. CASE AttachFills(p, j) \/ ExitAttach(p, j)
  <2>1. AttachTransactions(j.rows, j.group)
    BY <1>2 DEF AttachFills, ExitAttach
  <2>2. \A t \in j.rows : t \in Synthetic => SettledGroup[t] = j.group
    BY DEF InPlace
  <2>3. SettledStay'
    BY <2>1, <2>2, AttachStay
  <2>4. pc'[p] # "createAttach"
    <3>1. \/ pc' = pc \/ pc' = [pc EXCEPT ![p] = "event"]
          \/ pc' = [pc EXCEPT ![p] = "refreshRead"]
      BY <1>2 DEF AttachFills, ExitAttach
    <3> QED
      BY <1>1, <3>1 DEF TypeInv, TypeOK
  <2> QED
    BY <1>1, <2>3, <2>4, SameInPlace
<1>3. ASSUME NEW g \in Group, Create(p, j, g)
      PROVE  SettledStay' /\ InPlace(p)'
  <2>1. /\ UNCHANGED <<txns, txnGroup>>
        /\ j.kind = "create"
        /\ job'[p].rows = j.rows
    BY <1>3, NextJobType DEF Create, UpsertTradeGroup, TypeInv, TypeOK, Job
  <2>2. \A t \in j.rows : t \notin Synthetic
    BY <2>1 DEF InPlace
  <2>3. Held(p)' \subseteq j.rows
    BY <2>1 DEF Held
  <2>4. InPlace(p)'
    BY <1>1, <2>2, <2>3 DEF InPlace
  <2> QED
    BY <2>1, <2>4, SameStay
<1> QED
  BY <1>2, <1>3

\* The rows of a new group are attached to it.
LEMMA CreateAttachInPlace ==
    ASSUME TypeInv, SettledStay, NEW p \in Pass, InPlace(p), CreateAttach(p)
    PROVE  SettledStay' /\ InPlace(p)'
<1>1. /\ pc[p] = "createAttach" /\ pc'[p] = "createOrders"
      /\ AttachTransactions(job[p].rows, job[p].group)
      /\ UNCHANGED <<cand, cluster, todo>>
  BY DEF CreateAttach, TypeInv, TypeOK
<1>2. \A t \in job[p].rows : t \notin Synthetic
  BY <1>1 DEF InPlace, Held
<1>3. SettledStay'
  BY <1>1, <1>2, AttachStay
<1> QED
  BY <1>1, <1>3, SameInPlace

\* The other steps move no row, and wait for nothing new.
LEMMA RestInPlace ==
    ASSUME TypeInv, SettledStay, NEW p \in Pass, InPlace(p),
           \/ \E j \in todo[p] : FindGroup(p, j)
           \/ RefreshRead(p) \/ RefreshWrite(p) \/ CreateOrders(p) \/ CreateEntry(p)
           \/ \E e \in pending[p] : EmitEvent(p, e)
           \/ Stamp(p)
           \/ EndClusters(p) \/ LinkRoll(p) \/ StartHeal(p) \/ HealRead(p) \/ HealWrite(p)
    PROVE  SettledStay' /\ InPlace(p)'
<1>1. UNCHANGED <<cand, cluster, todo>>
  BY DEF FindGroup, RefreshRead, RefreshWrite, CreateOrders, CreateEntry, EmitEvent, Stamp,
     EndClusters, LinkRoll, StartHeal, HealRead, HealWrite
<1>2. UNCHANGED <<txns, txnGroup>>
  <2>1. CASE \/ \E j \in todo[p] : FindGroup(p, j)
             \/ RefreshRead(p) \/ EndClusters(p) \/ StartHeal(p) \/ HealRead(p)
    BY <2>1 DEF FindGroup, RefreshRead, EndClusters, StartHeal, HealRead, tables
  <2>2. CASE RefreshWrite(p) \/ Stamp(p) \/ HealWrite(p)
    BY <2>2 DEF RefreshWrite, Stamp, HealWrite, UpsertTradeGroup
  <2>3. CASE CreateOrders(p) \/ CreateEntry(p)
    BY <2>3 DEF CreateOrders, CreateEntry, UpsertOrders, AddEntryEvent
  <2>4. CASE LinkRoll(p) \/ \E e \in pending[p] : EmitEvent(p, e)
    BY <2>4 DEF LinkRoll, EmitEvent, AddExitEvent, tables
  <2> QED
    BY <2>1, <2>2, <2>3, <2>4
<1>3. pc'[p] # "createAttach"
  <2>1. pc \in [Pass -> PcValues]
    BY DEF TypeInv, TypeOK
  <2>2. CASE \/ RefreshRead(p) \/ RefreshWrite(p) \/ CreateOrders(p) \/ CreateEntry(p) \/ Stamp(p)
             \/ EndClusters(p) \/ LinkRoll(p) \/ StartHeal(p) \/ HealRead(p) \/ HealWrite(p)
    BY <2>1, <2>2 DEF RefreshRead, RefreshWrite, CreateOrders, CreateEntry, Stamp, EndClusters,
       LinkRoll, StartHeal, HealRead, HealWrite
  <2>3. CASE \E j \in todo[p] : FindGroup(p, j)
    BY <2>3 DEF FindGroup, NextJob
  <2>4. ASSUME NEW e \in pending[p], EmitEvent(p, e)
        PROVE  pc'[p] # "createAttach"
    <3>1. /\ \/ pc' = pc \/ pc' = [pc EXCEPT ![p] = "stamp"] \/ pc' = [pc EXCEPT ![p] = "work"]
          /\ pc[p] = "event"
      BY <2>4 DEF EmitEvent
    <3> QED
      BY <2>1, <3>1
  <2> QED
    BY <2>2, <2>3, <2>4
<1> QED
  BY <1>1, <1>2, <1>3, SameStay, SameInPlace

\* A pass that ends or dies waits for nothing.
LEMMA ForgetInPlace ==
    ASSUME TypeInv, SettledStay, NEW p \in Pass, EndPass(p) \/ AbortPass(p)
    PROVE  SettledStay' /\ InPlace(p)'
<1>1. /\ Forget(p) /\ UNCHANGED <<txns, txnGroup>>
  BY DEF EndPass, AbortPass, tables
<1>2. cand'[p] = {} /\ cluster'[p] = {} /\ todo'[p] = {} /\ pc'[p] = "idle"
  BY <1>1 DEF Forget, TypeInv, TypeOK
<1>3. InPlace(p)'
  BY <1>2 DEF InPlace, Held
<1> QED
  BY <1>1, <1>3, SameStay

\* Every step of a pass leaves the settlements where they are.
LEMMA StepInPlace ==
    ASSUME TypeInv, SettledStay, NEW p \in Pass, InPlace(p), Step(p) \/ AbortPass(p)
    PROVE  SettledStay' /\ InPlace(p)'
<1>1. CASE Attribute(p)
  BY <1>1, ClusterInPlace, JobInPlace, CreateAttachInPlace, RestInPlace DEF Attribute
<1>2. CASE Finish(p)
  BY <1>2, RestInPlace, ForgetInPlace DEF Finish
<1> QED
  BY <1>1, <1>2, LoadInPlace, ForgetInPlace DEF Step

\* The lapses write settlements into their own groups, and the jobs that follow.
LEMMA LapseInPlace ==
    ASSUME TypeInv, SettledStay, NEW p \in Pass, InPlace(p), Placed(p),
           ReadClock(p) \/ Synthesise(p) \/ EndLapse(p)
    PROVE  SettledStay' /\ InPlace(p)'
<1>1. CASE ReadClock(p) \/ EndLapse(p)
  <2>1. UNCHANGED <<txns, txnGroup>> /\ UNCHANGED <<cand, cluster, todo>>
    BY <1>1 DEF ReadClock, EndLapse, tables
  <2>2. pc[p] # "createAttach"
        /\ (pc' = pc \/ pc' = [pc EXCEPT ![p] = "list"] \/ pc' = [pc EXCEPT ![p] = "snapshot"])
    BY <1>1 DEF ReadClock, EndLapse
  <2>3. pc'[p] # "createAttach"
    BY <2>2 DEF TypeInv, TypeOK
  <2> QED
    BY <2>1, <2>3, SameStay, SameInPlace
<1>2. CASE Synthesise(p)
  <2> DEFINE S == Lapsed(p)
  <2>1. /\ txns' = txns \cup S
        /\ txnGroup' = [t \in Txn |-> IF t \in S THEN SettledGroup[t] ELSE txnGroup[t]]
        /\ todo'[p] = LapseJobs(p, S)
        /\ cand' = cand /\ cluster' = cluster /\ pc'[p] = "work"
    BY <1>2 DEF Synthesise, TypeInv, TypeOK
  <2>2. S \in SUBSET Txn /\ Synthetic \in SUBSET Txn
    BY LapsedRows
  <2> HIDE DEF S
  <2>3. SettledStay'
    BY <2>1, <2>2 DEF SettledStay
  <2>4. ASSUME NEW j \in todo'[p], NEW t \in j.rows
        PROVE  j.kind # "create" /\ SettledGroup[t] = j.group
    BY <2>1, <2>2, <2>4, LapseJobsType
  <2> QED
    BY <2>1, <2>3, <2>4 DEF InPlace, Held
<1> QED
  BY <1>1, <1>2
-----------------------------------------------------------------------------
(* A pass nobody disturbs.                                                 *)

\* It is the only one under way.
QuietAlone ==
    \A p \in Pass : quiet[p] =>
        /\ pc[p] # "idle"
        /\ \A q \in Pass : q # p => pc[q] = "idle"

\* What it has read is what the tables hold.
Loaded(p) ==
    /\ txns # {} /\ clock[p] = LastActivity
    /\ pc[p] = "load" => Listed(p) \cup loading[p] = OpenGroups
    /\ pc[p] = "work" => Listed(p) = OpenGroups
    /\ pc[p] # "list" => \A g \in Listed(p) : book[p][g] = Once(GroupTransactions(g))

NoneOverdue == \A g \in Group, s \in Expiring : ~Overdue(g, s)

\* Once its settlements are written no lot is past its time, and what is left of the lapses
\* is to attach rows that are in their groups already.
LapsesCalm(p) ==
    quiet[p] =>
        /\ stage[p] = "reading" => Loaded(p)
        /\ stage[p] = "applying" =>
                NoneOverdue /\ \A j \in todo[p] : j.rows \subseteq Synthetic \cap txns
        /\ stage[p] = "done" /\ pc[p] = "snapshot" => NoneOverdue

\* The account's latest activity after rows were added: the same, or that of one of them.
LEMMA LaterActivity ==
    ASSUME TablesType, txns # {}, NEW S \in SUBSET Txn, txns' = txns \cup S
    PROVE  LastActivity' = LastActivity \/ \E u \in S : LastActivity' = Row[u].at
<1> DEFINE l == Last(txns')
<1>1. txns \in SUBSET Txn /\ txns' \in SUBSET Txn /\ txns' # {}
  BY DEF TablesType
<1>2. l \in txns' /\ \A u \in txns' : u <= l
  BY <1>1, LastInSet
<1>3. Last(txns) \in txns /\ \A u \in txns : u <= Last(txns)
  BY <1>1, LastInSet
<1>4. LastActivity' = Row[l].at /\ LastActivity = Row[Last(txns)].at
  BY <1>1 DEF LastActivity
<1> HIDE DEF l
<1>5. CASE l \in txns
  <2>1. l <= Last(txns) /\ Last(txns) <= l
    BY <1>2, <1>3, <1>5
  <2>2. l \in Nat /\ Last(txns) \in Nat
    BY <1>1, <1>3, <1>5, RowNumbers
  <2>3. l = Last(txns)
    BY <2>1, <2>2
  <2> QED
    BY <1>4, <2>3
<1>6. CASE l \in S
  BY <1>4, <1>6
<1> QED
  BY <1>2, <1>5, <1>6

\* What the lapses look for depends on the rows, the groups and the prices known.
LEMMA NoneOverdueKept ==
    ASSUME NoneOverdue, UNCHANGED <<txns, txnGroup, known>>, OpenGroups' \subseteq OpenGroups
    PROVE  NoneOverdue'
<1>1. \A g : GroupTransactions(g)' = GroupTransactions(g)
  BY DEF GroupTransactions
<1>2. LastActivity' = LastActivity
  BY DEF LastActivity
<1>3. ASSUME NEW g \in Group, NEW s \in Expiring, Overdue(g, s)'
      PROVE  Overdue(g, s)
  BY <1>1, <1>2, <1>3 DEF Overdue, Settleable
<1> QED
  BY <1>3 DEF NoneOverdue

\* A pass stays calm while it stands still and the tables do.
LEMMA LapsesCalmKept ==
    ASSUME NEW p \in Pass, LapsesCalm(p), quiet'[p] => quiet[p], UNCHANGED tables, UNCHANGED known,
           Same(p), stage'[p] = stage[p], clock'[p] = clock[p]
    PROVE  LapsesCalm(p)'
<1>1. UNCHANGED <<txns, txnGroup, groupRow>>
  BY DEF tables
<1>2. OpenGroups' = OpenGroups
  BY <1>1 DEF OpenGroups
<1>3. NoneOverdue => NoneOverdue'
  BY <1>1, <1>2, NoneOverdueKept
<1>4. /\ LastActivity' = LastActivity
      /\ \A g : GroupTransactions(g)' = GroupTransactions(g)
  BY <1>1 DEF LastActivity, GroupTransactions
<1>5. Listed(p)' = Listed(p)
  BY DEF Same, Listed
<1>6. Loaded(p) => Loaded(p)'
  BY <1>1, <1>2, <1>4, <1>5 DEF Loaded, Same
<1> QED
  BY <1>1, <1>3, <1>6 DEF LapsesCalm, Same

\* Writing the settlements leaves no lot past its time: a group that has the row holds
\* nothing of the lot, and one that lacks it had nothing to settle.
LEMMA SynthesiseSettles ==
    ASSUME TypeInv, SettledStay, SettledStay', NEW p \in Pass, Synthesise(p), Loaded(p)
    PROVE  NoneOverdue'
<1> DEFINE S == Lapsed(p)
<1>1. /\ txns' = txns \cup S
      /\ txnGroup' = [t \in Txn |-> IF t \in S THEN SettledGroup[t] ELSE txnGroup[t]]
      /\ UNCHANGED <<groupRow, known>> /\ pc[p] = "work"
  BY DEF Synthesise
<1>2. S \in SUBSET Synthetic /\ Synthetic \in SUBSET Txn
  BY LapsedRows
<1>3. \A u \in S : \E h \in Sec : Row[u].sec = h /\ Settleable(h, clock[p])
  BY DEF Lapsed, LapseRow
<1>4. ASSUME NEW g \in Listed(p), NEW s \in Sec, Settleable(s, clock[p]),
             NetQuantities(Support(book[p][g]))[s] # 0
      PROVE  LapseRow(g, s, NetQuantities(Support(book[p][g]))[s]) \subseteq S
  BY <1>4 DEF Lapsed
<1> HIDE DEF S
<1> SUFFICES ASSUME NEW g \in Group, NEW s \in Expiring, Overdue(g, s)'
             PROVE  FALSE
  BY DEF NoneOverdue
<1> DEFINE rows == {t \in txns' : txnGroup'[t] = g}
           old  == {t \in txns : txnGroup[t] = g}
           base == rows \ Synthetic
<1>5. /\ g \in OpenGroups
      /\ NetQuantities(rows)[s] # 0
      /\ Settleable(s, LastActivity)'
      /\ LapseRow(g, s, NetQuantities(base)[s]) # {}
  BY <1>1 DEF Overdue, GroupTransactions, OpenGroups
<1>6. PICK t \in Synthetic : /\ SettledGroup[t] = g /\ Row[t].sec = s
                             /\ Row[t].qty = Abs(NetQuantities(base)[s])
  BY <1>5 DEF LapseRow
<1>7. /\ txns \in SUBSET Txn /\ txns' \in SUBSET Txn /\ s \in Sec
      /\ rows \in SUBSET Txn /\ old \in SUBSET Txn /\ base \in SUBSET Txn
  BY <1>1, <1>2, LapseAssumption DEF TypeInv, TypeOK, TablesType
<1>8. Settleable(s, clock[p])
  <2>1. s \in Priced => s \in known
    BY <1>1, <1>5 DEF Settleable
  <2>2. LastActivity' >= LapsesAt[s] /\ LapsesAt[s] \in Nat
    BY <1>5, LapseAssumption DEF Settleable
  <2>3. clock[p] = LastActivity /\ txns # {}
    BY DEF Loaded
  <2>4. clock[p] >= LapsesAt[s]
    <3>1. CASE LastActivity' = LastActivity
      BY <2>2, <2>3, <3>1
    <3>2. ASSUME NEW u \in S, LastActivity' = Row[u].at
          PROVE  clock[p] >= LapsesAt[s]
      <4>1. u \in Synthetic /\ u \in Txn /\ Row[u].sec \in Expiring /\ Row[u].at \in Nat
        BY <1>2, LapseAssumption, RowTypes
      <4>2. LapsesAt[s] <= Row[u].at
        BY <2>2, <3>2, <4>1
      <4>3. LapsesAt[s] <= LapsesAt[Row[u].sec]
        BY <4>1, <4>2, SettlementAssumption
      <4>4. clock[p] >= LapsesAt[Row[u].sec]
        BY <1>3 DEF Settleable
      <4>5. LapsesAt[Row[u].sec] \in Nat /\ clock[p] \in Nat
        BY <2>3, <4>1, LapseAssumption, LastActivityType DEF TypeInv, TypeOK
      <4> QED
        BY <2>2, <4>3, <4>4, <4>5
    <3>3. LastActivity' = LastActivity \/ \E u \in S : LastActivity' = Row[u].at
      BY <1>1, <1>2, <2>3, LaterActivity DEF TypeInv, TypeOK
    <3> QED
      BY <3>1, <3>2, <3>3
  <2> QED
    BY <2>1, <2>4 DEF Settleable
<1>9. \A u \in rows : u \in Synthetic /\ Row[u].sec = s => u = t
  <2>1. \A u \in rows : u \in Synthetic => SettledGroup[u] = g
    BY DEF SettledStay
  <2> QED
    BY <1>6, <2>1, SettlementAssumption
<1>10. CASE t \in txns'
  <2>1. t \in rows
    BY <1>6, <1>10 DEF SettledStay
  <2>2. \A u \in Txn : Row[u].sec = s => (u \in rows \ {t} <=> u \in base)
    BY <1>6, <1>9
  <2> HIDE DEF rows, base
  <2>3. NetQuantities(rows \ {t})[s] = NetQuantities(base)[s]
    BY <1>7, <2>2, OwnRows
  <2>4. SettlesAll(rows, t, s)
    BY <1>6, <2>3 DEF SettlesAll
  <2>5. SettlesLast(t, s)
    BY <1>6, LapseAssumption, SettlementAssumption DEF SettlesLast
  <2>6. NetQuantities(rows)[s] = 0
    BY <1>7, <2>1, <2>4, <2>5, SettledNets
  <2> QED
    BY <1>5, <2>6
<1>11. CASE t \notin txns'
  <2>1. \A u \in Txn : Row[u].sec = s => (u \in rows <=> u \in base)
    BY <1>9, <1>11
  <2>2. \A u \in Txn : Row[u].sec = s => (u \in old <=> u \in base)
    <3>1. \A u \in old : u \in Synthetic => SettledGroup[u] = g
      BY DEF SettledStay
    <3>2. \A u \in old : u \in Synthetic /\ Row[u].sec = s => u = t
      BY <1>6, <3>1, SettlementAssumption
    <3>3. t \notin old
      BY <1>1, <1>11
    <3>4. \A u \in Txn : u \notin Synthetic => (u \in old <=> u \in rows)
      BY <1>1, <1>2
    <3> QED
      BY <3>2, <3>3, <3>4
  <2>3. old = GroupTransactions(g)
    BY DEF GroupTransactions
  <2> HIDE DEF rows, base, old
  <2>4. NetQuantities(old)[s] = NetQuantities(base)[s]
    BY <1>7, <2>2, OwnRows
  <2>5. NetQuantities(rows)[s] = NetQuantities(base)[s]
    BY <1>7, <2>1, OwnRows
  <2>6. g \in Listed(p) /\ Support(book[p][g]) = old
    <3>1. g \in Listed(p) /\ book[p][g] = Once(old)
      BY <1>1, <1>5, <2>3 DEF Loaded
    <3> QED
      BY <1>7, <3>1, OnceOfSets
  <2>7. t \in LapseRow(g, s, NetQuantities(old)[s])
    BY <1>6, <2>4 DEF LapseRow
  <2>8. t \in S
    BY <1>4, <1>5, <1>7, <1>8, <2>4, <2>5, <2>6, <2>7
  <2> QED
    BY <1>1, <1>11, <2>8
<1> QED
  BY <1>10, <1>11
\* The lists of the lapses are read.
LEMMA ListOpenLoaded ==
    ASSUME TypeInv, NEW p \in Pass, Loaded(p), ListOpen(p), UNCHANGED clock,
           phase[p] = "routed"
    PROVE  Loaded(p)'
<1>1. UNCHANGED <<txns, txnGroup, groupRow>>
  BY DEF ListOpen, tables
<1>2. OpenGroups' = OpenGroups /\ LastActivity' = LastActivity
  BY <1>1 DEF OpenGroups, LastActivity
<1>3. list'[p] = <<>> /\ loading'[p] = OpenGroups
  BY DEF ListOpen, TypeInv, TypeOK
<1>4. Listed(p)' = {}
  BY <1>3 DEF Listed
<1>5. pc'[p] = IF OpenGroups # {} THEN "load" ELSE "work"
  BY DEF ListOpen, TypeInv, TypeOK
<1> QED
  BY <1>1, <1>2, <1>3, <1>4, <1>5 DEF Loaded

\* One group after another.
LEMMA LoadRowsLoaded ==
    ASSUME TypeInv, NEW p \in Pass, Loaded(p), NEW g \in Group, LoadRows(p, g), UNCHANGED clock,
           phase[p] = "routed"
    PROVE  Loaded(p)'
<1>1. UNCHANGED <<txns, txnGroup, groupRow>> /\ pc[p] = "load" /\ g \in loading[p]
  BY DEF LoadRows, tables
<1>2. OpenGroups' = OpenGroups /\ LastActivity' = LastActivity
  BY <1>1 DEF OpenGroups, LastActivity
<1>3. \A h : GroupTransactions(h)' = GroupTransactions(h)
  BY <1>1 DEF GroupTransactions
<1>4. list'[p] = Append(list[p], g) /\ loading'[p] = loading[p] \ {g}
  BY DEF LoadRows, TypeInv, TypeOK
<1>5. Listed(p)' = Listed(p) \cup {g}
  BY <1>4, LongerList
<1>6. \A h \in Group : book'[p][h] = IF h = g THEN Once(GroupTransactions(g)) ELSE book[p][h]
  BY DEF LoadRows, TypeInv, TypeOK
<1>7. Listed(p) \subseteq Group
  BY DEF Listed, TypeInv, TypeOK
<1>8. \A h \in Listed(p)' : book'[p][h] = Once(GroupTransactions(h))
  BY <1>1, <1>5, <1>6, <1>7 DEF Loaded
<1>9. pc'[p] = IF loading[p] # {g} THEN "load" ELSE "work"
  BY DEF LoadRows, TypeInv, TypeOK
<1>10. Listed(p)' \cup loading'[p] = OpenGroups
  BY <1>1, <1>4, <1>5 DEF Loaded
<1>11. pc'[p] = "work" => loading'[p] = {}
  BY <1>4, <1>9
<1> QED
  BY <1>1, <1>2, <1>3, <1>8, <1>9, <1>10, <1>11 DEF Loaded

\* A group that is closed is no longer open.
LEMMA StampCloses ==
    ASSUME TypeInv, NEW p \in Pass, Stamp(p)
    PROVE  OpenGroups' \subseteq OpenGroups
<1>1. PICK g \in Group : UpsertTradeGroup(g, Stamped(seen[p], book[p][g]))
  BY DEF Stamp
<1>2. Stamped(seen[p], book[p][g]).status = TerminalStatus(Support(book[p][g]))
  BY DEF TypeInv, TypeOK, Stamped, GroupRowType
<1>3. TerminalStatus(Support(book[p][g])) # "open"
  BY TerminalStatusType DEF Support
<1>4. groupRow' = [groupRow EXCEPT ![g] = Stamped(seen[p], book[p][g])]
  BY <1>1 DEF UpsertTradeGroup
<1> QED
  BY <1>2, <1>3, <1>4 DEF OpenGroups, TypeInv, TypeOK, TablesType

\* The exits of the lapses attach rows that are there, and write events and closed groups.
LEMMA ApplyCalm ==
    ASSUME TypeInv, SettledStay, NEW p \in Pass, InPlace(p), LapsesCalm(p), quiet[p],
           stage[p] = "applying", UNCHANGED known,
           \/ \E j \in todo[p] : ExitAttach(p, j)
           \/ \E e \in pending[p] : EmitEvent(p, e)
           \/ Stamp(p)
    PROVE  NoneOverdue' /\ \A j \in todo'[p] : j.rows \subseteq Synthetic \cap txns'
<1>1. NoneOverdue /\ \A j \in todo[p] : j.rows \subseteq Synthetic \cap txns
  BY DEF LapsesCalm
<1>2. ASSUME NEW j \in todo[p], ExitAttach(p, j)
      PROVE  NoneOverdue' /\ \A k \in todo'[p] : k.rows \subseteq Synthetic \cap txns'
  <2>1. /\ AttachTransactions(j.rows, j.group)
        /\ todo'[p] \subseteq todo[p]
    BY <1>2 DEF ExitAttach, TypeInv, TypeOK
  <2>2. \A t \in j.rows : t \in Txn /\ txnGroup[t] = j.group
    BY <1>1 DEF InPlace, SettledStay, Synthetic
  <2>3. UNCHANGED <<txns, txnGroup, groupRow>>
    BY <2>1, <2>2 DEF AttachTransactions, TypeInv, TypeOK, TablesType
  <2>4. OpenGroups' \subseteq OpenGroups
    BY <2>3 DEF OpenGroups
  <2>5. NoneOverdue'
    BY <1>1, <2>3, <2>4, NoneOverdueKept
  <2> QED
    BY <1>1, <2>1, <2>3, <2>5
<1>3. ASSUME NEW e \in pending[p], EmitEvent(p, e)
      PROVE  NoneOverdue' /\ \A k \in todo'[p] : k.rows \subseteq Synthetic \cap txns'
  <2>1. UNCHANGED <<txns, txnGroup, groupRow>> /\ UNCHANGED todo
    BY <1>3 DEF EmitEvent, AddExitEvent
  <2>2. OpenGroups' \subseteq OpenGroups
    BY <2>1 DEF OpenGroups
  <2> QED
    BY <1>1, <2>1, <2>2, NoneOverdueKept
<1>4. CASE Stamp(p)
  <2>1. UNCHANGED <<txns, txnGroup>> /\ UNCHANGED todo
    BY <1>4 DEF Stamp, UpsertTradeGroup
  <2> QED
    BY <1>1, <1>4, <2>1, StampCloses, NoneOverdueKept
<1> QED
  BY <1>2, <1>3, <1>4

\* A calm pass that goes on stays calm.
LEMMA RunCalm ==
    ASSUME TypeInv, LapseType, SettledStay, NEW p \in Pass, Placed(p), InPlace(p), LapsesCalm(p),
           RunOn(p)
    PROVE  LapsesCalm(p)'
<1>1. /\ Step(p)
      /\ pc[p] = "snapshot" \/ (pc[p] = "work" /\ todo[p] = {}) => stage[p] = "done"
      /\ stage'[p] = IF pc'[p] = "idle" THEN "due" ELSE stage[p]
      /\ UNCHANGED clock /\ UNCHANGED known
  BY DEF RunOn, LapseType
<1>2. Leads(p)
  BY <1>1, StepLeads
<1>3. stage[p] = "due" \/ (stage[p] = "done" /\ pc'[p] = "idle") => LapsesCalm(p)'
  BY <1>1 DEF LapsesCalm
<1>4. CASE stage[p] = "done" /\ pc'[p] # "idle"
  <2>1. pc'[p] # "snapshot"
    BY <1>2, <1>4 DEF Leads, Placed
  <2> QED
    BY <1>1, <1>4, <2>1 DEF LapsesCalm
<1>5. ASSUME stage[p] \in {"reading", "applying"}, quiet'[p]
      PROVE  LapsesCalm(p)'
  <2>1. pc[p] # "idle" /\ phase[p] = "routed"
    BY <1>5 DEF Placed
  <2>2. quiet[p]
    BY <1>1, <1>5, <2>1, StepFrame
  <2>3. CASE stage[p] = "reading"
    <3>1. Loaded(p)
      BY <2>2, <2>3 DEF LapsesCalm
    <3>2. Loaded(p)'
      <4>1. CASE pc[p] = "list"
        BY <1>1, <2>1, <3>1, <4>1, StepAt, ListOpenLoaded
      <4>2. CASE pc[p] = "load"
        BY <1>1, <2>1, <3>1, <4>2, StepAt, LoadRowsLoaded
      <4> QED
        BY <1>1, <2>3, <4>1, <4>2 DEF Placed
    <3>3. stage'[p] \in {"due", "reading"}
      BY <1>1, <2>3
    <3> QED
      BY <3>2, <3>3 DEF LapsesCalm
  <2>4. CASE stage[p] = "applying"
    <3>1. \/ \E j \in todo[p] : ExitAttach(p, j)
          \/ \E e \in pending[p] : EmitEvent(p, e)
          \/ Stamp(p)
      <4>1. CASE pc[p] = "work"
        <5>1. PICK j \in todo[p] : \/ AttachFills(p, j) \/ ExitAttach(p, j)
                                   \/ \E g \in Group : Create(p, j, g)
          BY <1>1, <2>1, <2>4, <4>1, StepAt
        <5>2. j.kind = "exit"
          BY <2>4 DEF Placed
        <5> QED
          BY <5>1, <5>2 DEF AttachFills, Create
      <4>2. CASE pc[p] \in {"event", "stamp"}
        BY <1>1, <4>2, StepAt
      <4> QED
        BY <2>4, <4>1, <4>2 DEF Placed
    <3>2. NoneOverdue' /\ \A j \in todo'[p] : j.rows \subseteq Synthetic \cap txns'
      BY <1>1, <2>2, <2>4, <3>1, ApplyCalm
    <3>3. stage'[p] \in {"due", "applying"}
      BY <1>1, <2>4
    <3> QED
      BY <3>2, <3>3 DEF LapsesCalm
  <2> QED
    BY <1>5, <2>3, <2>4
<1>6. ~quiet'[p] => LapsesCalm(p)'
  BY DEF LapsesCalm
<1> QED
  BY <1>3, <1>4, <1>5, <1>6 DEF LapseType, Stages

\* No account, no lot.
LEMMA NothingOverdue ==
    ASSUME txns = {}
    PROVE  NoneOverdue
<1>1. \A g : GroupTransactions(g) = {}
  BY DEF GroupTransactions
<1>2. \A s \in Sec : NetQuantities({})[s] = 0
  BY BookOfNone DEF NetQuantities, FlatBook
<1> QED
  BY <1>1, <1>2, LapseAssumption DEF NoneOverdue, Overdue

\* So does one that goes through its lapses.
LEMMA LapseCalm ==
    ASSUME TypeInv, LapseType, SettledStay, SettledStay', NEW p \in Pass, Placed(p), InPlace(p),
           LapsesCalm(p), ReadClock(p) \/ Synthesise(p) \/ EndLapse(p)
    PROVE  LapsesCalm(p)'
<1>0. stage \in [Pass -> Stages] /\ clock \in [Pass -> Nat]
  BY DEF LapseType
<1>1. CASE ReadClock(p)
  <2>1. UNCHANGED <<txns, txnGroup, groupRow, known, todo>>
    BY <1>1 DEF ReadClock, tables
  <2>2. CASE txns = {}
    <3>1. stage'[p] = "done"
      BY <1>0, <1>1, <2>2 DEF ReadClock
    <3>2. NoneOverdue
      BY <2>2, NothingOverdue
    <3>3. NoneOverdue'
      BY <2>1, <3>2, NoneOverdueKept DEF OpenGroups
    <3> QED
      BY <3>1, <3>3 DEF LapsesCalm
  <2>3. CASE txns # {}
    <3>1. stage'[p] = "reading" /\ clock'[p] = LastActivity /\ pc'[p] = "list"
      BY <1>0, <1>1, <2>3 DEF ReadClock, TypeInv, TypeOK
    <3>2. LastActivity' = LastActivity
      BY <2>1 DEF LastActivity
    <3>3. Loaded(p)'
      BY <2>1, <2>3, <3>1, <3>2 DEF Loaded
    <3> QED
      BY <3>1, <3>3 DEF LapsesCalm
  <2> QED
    BY <2>2, <2>3
<1>2. CASE Synthesise(p)
  <2>1. /\ stage'[p] = "applying" /\ quiet' = quiet /\ stage[p] = "reading"
        /\ todo'[p] = LapseJobs(p, Lapsed(p)) /\ txns' = txns \cup Lapsed(p)
    BY <1>0, <1>2 DEF Synthesise, TypeInv, TypeOK
  <2>2. Lapsed(p) \in SUBSET Synthetic /\ Synthetic \in SUBSET Txn
    BY LapsedRows
  <2>3. \A j \in LapseJobs(p, Lapsed(p)) : j.rows \subseteq Lapsed(p)
    BY <2>2, LapseJobsType
  <2>4. quiet[p] => NoneOverdue'
    BY <1>2, <2>1, SynthesiseSettles DEF LapsesCalm
  <2> QED
    BY <2>1, <2>2, <2>3, <2>4 DEF LapsesCalm
<1>3. CASE EndLapse(p)
  <2>1. /\ stage'[p] = "done" /\ quiet' = quiet /\ stage[p] = "applying"
        /\ UNCHANGED <<txns, txnGroup, groupRow, known>>
    BY <1>0, <1>3 DEF EndLapse, tables
  <2>2. NoneOverdue => NoneOverdue'
    BY <2>1, NoneOverdueKept DEF OpenGroups
  <2> QED
    BY <2>1, <2>2 DEF LapsesCalm
<1> QED
  BY <1>1, <1>2, <1>3
-----------------------------------------------------------------------------
(* No lot overdue: every step.                                             *)

\* No command is about to move a synthesised settlement.
RowsStay == \A t \in call.rows : t \notin Synthetic

DeskLapses ==
    /\ SettledStay /\ RowsStay /\ QuietAlone
    /\ \A p \in Pass : Placed(p) /\ InPlace(p) /\ LapsesCalm(p)

\* Who stays undisturbed sees neither a table nor a price change.
Unseen(p) == quiet'[p] => quiet[p] /\ UNCHANGED tables /\ UNCHANGED known

\* The passes stand still while somebody else acts.
LEMMA PassesWait ==
    ASSUME DeskLapses, UNCHANGED locals, UNCHANGED <<stage, clock>>, \A p \in Pass : Unseen(p)
    PROVE  QuietAlone' /\ \A p \in Pass : Placed(p)' /\ InPlace(p)' /\ LapsesCalm(p)'
<1>1. QuietAlone'
  BY DEF DeskLapses, QuietAlone, Unseen, locals
<1>2. ASSUME NEW p \in Pass
      PROVE  Placed(p)' /\ InPlace(p)' /\ LapsesCalm(p)'
  <2>1. Placed(p)'
    BY DEF DeskLapses, Placed, locals
  <2>2. InPlace(p)'
    BY DEF DeskLapses, InPlace, Held, locals
  <2>3. CASE quiet'[p]
    <3>1. Same(p) /\ LapsesCalm(p)
      BY DEF Same, locals, DeskLapses
    <3>2. quiet[p] /\ UNCHANGED tables /\ UNCHANGED known
      BY <2>3 DEF Unseen
    <3> QED
      BY <2>1, <2>2, <3>1, <3>2, LapsesCalmKept
  <2>4. CASE ~quiet'[p]
    BY <2>1, <2>2, <2>4 DEF LapsesCalm
  <2> QED
    BY <2>3, <2>4
<1> QED
  BY <1>1, <1>2

\* A step of a command, and of the feed, disturbs whom it concerns.
LEMMA DisturbsUnseen ==
    ASSUME Disturbs, UNCHANGED known
    PROVE  \A p \in Pass : Unseen(p)
BY DEF Disturbs, Unseen

\* Which rows a step of a command moves, and which it means to move.
LEMMA CommandsStay ==
    ASSUME DeskInv, DeskLapses, SettlementsStay, Commands \/ Carries
    PROVE  SettledStay' /\ RowsStay' /\ Commanding
<1>0. RowsStay /\ SettledStay
  BY DEF DeskLapses
<1>1. ASSUME NEW r \in Regrouping, Regroup(r[1], r[2])
      PROVE  SettledStay' /\ RowsStay' /\ Commanding
  <2>1. /\ UNCHANGED <<txns, txnGroup>> /\ Commanding
        /\ call'.rows = r[1]
    BY <1>1 DEF Regroup, Give, tables, NoCall
  <2>2. r[1] \cap Synthetic = {}
    BY DEF SettlementsStay
  <2> QED
    BY <1>0, <2>1, <2>2, SameStay DEF RowsStay
<1>2. ASSUME NEW o \in Order, NEW g \in Group \cup {NoGroup}, LinkOrder(o, g)
      PROVE  SettledStay' /\ RowsStay' /\ Commanding
  <2>1. /\ UNCHANGED <<txns, txnGroup>> /\ Commanding
        /\ call'.rows = {}
    BY <1>2 DEF LinkOrder, Give, tables, NoCall
  <2> QED
    BY <1>0, <2>1, SameStay DEF RowsStay
<1>3. ASSUME NEW g \in Group, Remap(g) \/ Dismiss(g) \/ MarkUnfilled(g)
      PROVE  SettledStay' /\ RowsStay' /\ Commanding
  <2>1. /\ UNCHANGED <<txns, txnGroup>> /\ Commanding
        /\ call'.rows = {}
    BY <1>3 DEF Remap, Dismiss, MarkUnfilled, Give, tables, NoCall
  <2> QED
    BY <1>0, <2>1, SameStay DEF RowsStay
<1>4. CASE RegroupMove
  <2>1. AttachTransactions(call.rows, call.target) /\ Commanding /\ call'.rows = call.rows
    BY <1>4 DEF RegroupMove
  <2>2. SettledStay'
    BY <1>0, <2>1, AttachStay DEF RowsStay
  <2> QED
    BY <1>0, <2>1, <2>2 DEF RowsStay
<1>5. CASE ReadTarget \/ WriteTarget
  <2>1. UNCHANGED <<txns, txnGroup>> /\ Commanding
    BY <1>5 DEF ReadTarget, WriteTarget, UpsertTradeGroup, tables
  <2>2. call'.rows = call.rows
    BY <1>5 DEF ReadTarget, WriteTarget, HasTarget, DeskInv, Call
  <2> QED
    BY <1>0, <2>1, <2>2, SameStay DEF RowsStay
<1>6. CASE \/ RegroupReadActivity \/ RegroupWriteGroup
           \/ \E g \in Group : RegroupReadGroup(g)
  <2>1. UNCHANGED <<txns, txnGroup>> /\ Commanding
    BY <1>6 DEF RegroupReadActivity, RegroupWriteGroup, RegroupReadGroup, UpsertTradeGroup, tables
  <2>2. call'.rows = call.rows \/ call'.rows = {}
    <3>1. CASE RegroupWriteGroup
      <4>1. \/ call' = NoCall
            \/ call' = [call EXCEPT !.step = "group", !.saw = NoRow, !.members = {}]
        BY <3>1 DEF RegroupWriteGroup
      <4>2. NoCall.rows = {}
        BY DEF NoCall
      <4>3. call \in Call
        BY DEF DeskInv
      <4>4. [call EXCEPT !.step = "group", !.saw = NoRow, !.members = {}].rows = call.rows
        BY <4>3 DEF Call
      <4> QED
        BY <4>1, <4>2, <4>4
    <3> QED
      BY <1>6, <3>1 DEF RegroupReadActivity, RegroupReadGroup, DeskInv, Call
  <2> QED
    BY <1>0, <2>1, <2>2, SameStay DEF RowsStay
<1>7. CASE RemapWrite \/ DismissWrite \/ CheckEmpty \/ MarkWrite \/ LinkWrite
  <2>1. UNCHANGED <<txns, txnGroup>> /\ Commanding
    BY <1>7 DEF RemapWrite, DismissWrite, CheckEmpty, MarkWrite, LinkWrite, UpsertTradeGroup,
       UpsertOrders, tables
  <2>2. call'.rows = call.rows \/ call'.rows = {}
    BY <1>7 DEF RemapWrite, DismissWrite, CheckEmpty, MarkWrite, LinkWrite, NoCall, DeskInv, Call
  <2> QED
    BY <1>0, <2>1, <2>2, SameStay DEF RowsStay
<1> QED
  BY <1>1, <1>2, <1>3, <1>4, <1>5, <1>6, <1>7 DEF Commands, Carries

\* The operator's commands, and the death of one.
LEMMA CommandsLapses ==
    ASSUME DeskInv, DeskLapses, SettlementsStay, Commands \/ Carries \/ CommandDies
    PROVE  DeskLapses'
<1>1. CASE Commands \/ Carries
  <2>1. SettledStay' /\ RowsStay' /\ Commanding
    BY <1>1, CommandsStay
  <2>2. UNCHANGED locals /\ UNCHANGED <<stage, clock>> /\ UNCHANGED known /\ Disturbs
    BY <2>1 DEF Commanding, lapseVars
  <2> QED
    BY <2>1, <2>2, DisturbsUnseen, PassesWait DEF DeskLapses
<1>2. CASE CommandDies
  <2>1. UNCHANGED tables /\ UNCHANGED locals /\ UNCHANGED quiet /\ UNCHANGED <<stage, clock>>
        /\ UNCHANGED known /\ call' = NoCall
    BY <1>2 DEF CommandDies, lapseVars
  <2>2. SettledStay' /\ RowsStay'
    BY <2>1, SameStay DEF RowsStay, NoCall, DeskLapses, tables
  <2>3. \A p \in Pass : Unseen(p)
    BY <2>1 DEF Unseen
  <2> QED
    BY <2>1, <2>2, <2>3, PassesWait DEF DeskLapses
<1> QED
  BY <1>1, <1>2

\* What the broker and the host bring.
LEMMA WorldLapses ==
    ASSUME DeskLapses, RowsStay', BrokerFeed \/ \E s \in Priced : PriceArrives(s)
    PROVE  DeskLapses'
<1>1. CASE BrokerFeed
  <2>1. UNCHANGED locals /\ UNCHANGED <<stage, clock>> /\ UNCHANGED known /\ Disturbs
    BY <1>1 DEF BrokerFeed, FeedTransaction, FeedOrder, FeedTradeGroup, FeedRecordOrder, lapseVars
  <2>2. SettledStay'
    <3>1. CASE \E t \in Txn \ Synthetic : FeedTransaction(t)
      <4>1. PICK t \in Txn \ Synthetic :
                txns' = txns \cup {t} /\ txnGroup' = [txnGroup EXCEPT ![t] = Coalesce(NoGroup, @)]
        BY <3>1 DEF FeedTransaction, SyncTransaction, UpsertTransaction
      <4>2. \A u \in Synthetic : txnGroup'[u] = txnGroup[u]
        BY <4>1
      <4> QED
        BY <4>1, <4>2 DEF DeskLapses, SettledStay
    <3>2. CASE ~\E t \in Txn \ Synthetic : FeedTransaction(t)
      <4>1. UNCHANGED <<txns, txnGroup>>
        BY <1>1, <3>2 DEF BrokerFeed, FeedOrder, FeedTradeGroup, FeedRecordOrder, SyncOrder,
           OpenTradeGroup, RecordOrder, UpsertOrders
      <4> QED
        BY <4>1, SameStay DEF DeskLapses
    <3> QED
      BY <3>1, <3>2
  <2> QED
    BY <2>1, <2>2, DisturbsUnseen, PassesWait DEF DeskLapses
<1>2. ASSUME NEW s \in Priced, PriceArrives(s)
      PROVE  DeskLapses'
  <2>1. UNCHANGED tables /\ UNCHANGED locals /\ UNCHANGED <<stage, clock>>
        /\ quiet' = [p \in Pass |-> FALSE]
    BY <1>2 DEF PriceArrives
  <2>2. \A p \in Pass : Unseen(p)
    BY <2>1 DEF Unseen
  <2>3. SettledStay'
    BY <2>1, SameStay DEF DeskLapses, tables
  <2> QED
    BY <2>1, <2>2, <2>3, PassesWait DEF DeskLapses
<1> QED
  BY <1>1, <1>2

\* A step of one pass leaves the locals and the stages of the others, and none of them
\* goes on undisturbed.
LEMMA PassStepApart ==
    ASSUME TypeInv, LapseType, QuietAlone, NEW q \in Pass, PassStep(q) \/ Die(q),
           NEW p \in Pass, p # q
    PROVE  /\ Same(p) /\ stage'[p] = stage[p] /\ clock'[p] = clock[p]
           /\ ~quiet'[p]
<1>1. CASE RunOn(q) \/ Die(q)
  <2>1. Step(q) \/ AbortPass(q)
    BY <1>1 DEF RunOn, Die
  <2>2. Same(p) /\ (pc[q] # "idle" => (quiet'[p] => quiet[p]))
    BY <2>1, StepFrame
  <2>3. stage'[p] = stage[p] /\ clock'[p] = clock[p]
    BY <1>1 DEF RunOn, Die, LapseType
  <2>4. CASE pc[q] = "idle"
    <3>1. BeginPass(q)
      BY <2>1, <2>4, StepAt DEF AbortPass
    <3>2. quiet' = [r \in Pass |-> r = q /\ \A s \in Pass : pc[s] = "idle"]
      BY <3>1 DEF BeginPass
    <3> QED
      BY <2>2, <2>3, <3>2
  <2>5. CASE pc[q] # "idle"
    BY <2>2, <2>3, <2>5 DEF QuietAlone
  <2> QED
    BY <2>4, <2>5
<1>2. CASE ReadClock(q) \/ Synthesise(q) \/ EndLapse(q)
  <2>1. pc[q] # "idle" /\ quiet' = quiet
    BY <1>2 DEF ReadClock, Synthesise, EndLapse
  <2>2. /\ phase' = phase /\ cand' = cand /\ intended' = intended /\ loading' = loading
        /\ cluster' = cluster /\ rest' = rest /\ newGroup' = newGroup /\ job' = job
        /\ pending' = pending /\ seen' = seen /\ created' = created
    BY <1>2 DEF ReadClock, Synthesise, EndLapse
  <2>3. CASE ReadClock(q)
    <3>1. /\ pc' = pc \/ pc' = [pc EXCEPT ![q] = "list"]
          /\ stage' = [stage EXCEPT ![q] = "done"] \/ stage' = [stage EXCEPT ![q] = "reading"]
          /\ clock' = clock \/ clock' = [clock EXCEPT ![q] = LastActivity]
          /\ list' = list /\ book' = book /\ todo' = todo /\ applied' = applied
      BY <2>3 DEF ReadClock
    <3> QED
      BY <2>1, <2>2, <3>1 DEF Same, TypeInv, TypeOK, LapseType, QuietAlone
  <2>4. CASE Synthesise(q)
    <3>1. /\ pc' = pc /\ todo' = [todo EXCEPT ![q] = LapseJobs(q, Lapsed(q))]
          /\ stage' = [stage EXCEPT ![q] = "applying"] /\ clock' = [clock EXCEPT ![q] = 0]
          /\ list' = list /\ book' = book /\ applied' = applied
      BY <2>4 DEF Synthesise
    <3> QED
      BY <2>1, <2>2, <3>1 DEF Same, TypeInv, TypeOK, LapseType, QuietAlone
  <2>5. CASE EndLapse(q)
    <3>1. /\ pc' = [pc EXCEPT ![q] = "snapshot"] /\ todo' = todo
          /\ stage' = [stage EXCEPT ![q] = "done"] /\ clock' = clock
          /\ list' = [list EXCEPT ![q] = <<>>]
          /\ book' = [book EXCEPT ![q] = [g \in Group |-> None]]
          /\ applied' = [applied EXCEPT ![q] = <<>>]
      BY <2>5 DEF EndLapse
    <3> QED
      BY <2>1, <2>2, <3>1 DEF Same, TypeInv, TypeOK, LapseType, QuietAlone
  <2> QED
    BY <1>2, <2>3, <2>4, <2>5
<1> QED
  BY <1>1, <1>2 DEF PassStep

\* Another pass stands where it stood, and is no longer undisturbed.
LEMMA OtherPassKept ==
    ASSUME NEW p \in Pass, Placed(p), InPlace(p), Same(p), stage'[p] = stage[p], ~quiet'[p]
    PROVE  Placed(p)' /\ InPlace(p)' /\ LapsesCalm(p)'
<1>1. Placed(p)'
  BY DEF Placed, Same
<1>2. InPlace(p)'
  BY DEF InPlace, Held, Same
<1>3. LapsesCalm(p)'
  BY DEF LapsesCalm
<1> QED
  BY <1>1, <1>2, <1>3

\* A pass that is undisturbed was so before, or begins with nobody else under way; and it
\* goes on, for one that ends is not.
LEMMA StaysAlone ==
    ASSUME TypeInv, LapseType, QuietAlone, NEW q \in Pass, PassStep(q) \/ Die(q), quiet'[q]
    PROVE  pc'[q] # "idle" /\ \A p \in Pass : p # q => pc[p] = "idle"
<1>0. pc \in [Pass -> PcValues] /\ quiet \in [Pass -> BOOLEAN]
  BY DEF TypeInv, TypeOK
<1>1. ~Die(q)
  BY <1>0 DEF Die, AbortPass
<1>2. CASE RunOn(q)
  <2>1. Leads(q) /\ Step(q)
    BY <1>2, StepLeads DEF RunOn
  <2>2. ~EndPass(q)
    BY <1>0 DEF EndPass
  <2>3. pc'[q] # "idle"
    BY <2>1, <2>2 DEF Leads
  <2>4. CASE pc[q] = "idle"
    <3>1. BeginPass(q)
      BY <2>1, <2>4, StepAt
    <3>2. \A r \in Pass : pc[r] = "idle"
      BY <3>1 DEF BeginPass
    <3> QED
      BY <2>3, <3>2
  <2>5. CASE pc[q] # "idle"
    <3>1. quiet[q]
      BY <2>1, <2>5, StepFrame
    <3> QED
      BY <2>3, <3>1 DEF QuietAlone
  <2> QED
    BY <2>4, <2>5
<1>3. CASE ReadClock(q) \/ Synthesise(q) \/ EndLapse(q)
  <2>1. quiet' = quiet /\ pc[q] # "idle"
    BY <1>3 DEF ReadClock, Synthesise, EndLapse
  <2>2. pc' = pc \/ pc' = [pc EXCEPT ![q] = "list"] \/ pc' = [pc EXCEPT ![q] = "snapshot"]
    BY <1>3 DEF ReadClock, Synthesise, EndLapse
  <2> QED
    BY <1>0, <2>1, <2>2 DEF QuietAlone
<1> QED
  BY <1>1, <1>2, <1>3 DEF PassStep

\* A pass that dies has nothing in hand.
LEMMA DieLapses ==
    ASSUME TypeInv, LapseType, NEW q \in Pass, Die(q)
    PROVE  Placed(q)' /\ LapsesCalm(q)'
<1>1. /\ pc'[q] = "idle" /\ phase'[q] = "routed" /\ todo'[q] = {} /\ ~quiet'[q]
  BY DEF Die, AbortPass, Forget, TypeInv, TypeOK
<1>2. stage'[q] = "due"
  BY DEF Die, LapseType
<1> QED
  BY <1>1, <1>2 DEF Placed, LapsesCalm

\* Every step of a pass, and its death.
LEMMA PassLapses ==
    ASSUME TypeInv, LapseType, DeskLapses, RowsStay', NEW q \in Pass, PassStep(q) \/ Die(q)
    PROVE  DeskLapses'
<1>0. SettledStay /\ QuietAlone /\ \A p \in Pass : Placed(p) /\ InPlace(p) /\ LapsesCalm(p)
  BY DEF DeskLapses
<1>1. SettledStay' /\ Placed(q)' /\ InPlace(q)' /\ LapsesCalm(q)'
  <2>1. CASE RunOn(q)
    <3>1. SettledStay' /\ InPlace(q)'
      BY <1>0, <2>1, StepInPlace DEF RunOn
    <3> QED
      BY <1>0, <2>1, <3>1, RunPlaced, RunCalm
  <2>2. CASE ReadClock(q) \/ Synthesise(q) \/ EndLapse(q)
    <3>1. SettledStay' /\ InPlace(q)'
      BY <1>0, <2>2, LapseInPlace
    <3> QED
      BY <1>0, <2>2, <3>1, LapsePlaced, LapseCalm
  <2>3. CASE Die(q)
    <3>1. SettledStay' /\ InPlace(q)'
      BY <1>0, <2>3, StepInPlace DEF Die
    <3> QED
      BY <2>3, <3>1, DieLapses
  <2> QED
    BY <2>1, <2>2, <2>3 DEF PassStep
<1>2. ASSUME NEW p \in Pass, p # q
      PROVE  Same(p) /\ ~quiet'[p] /\ Placed(p)' /\ InPlace(p)' /\ LapsesCalm(p)'
  BY <1>0, <1>2, PassStepApart, OtherPassKept
<1>3. QuietAlone'
  <2> SUFFICES ASSUME NEW p \in Pass, quiet'[p]
               PROVE  pc'[p] # "idle" /\ \A r \in Pass : r # p => pc'[r] = "idle"
    BY DEF QuietAlone
  <2>1. p = q
    BY <1>2
  <2>2. pc'[q] # "idle" /\ \A r \in Pass : r # q => pc[r] = "idle"
    BY <1>0, <2>1, StaysAlone
  <2>3. \A r \in Pass : r # q => pc'[r] = pc[r]
    BY <1>2 DEF Same
  <2> QED
    BY <2>1, <2>2, <2>3
<1> QED
  BY <1>1, <1>2, <1>3 DEF DeskLapses

\* Every step keeps the invariant.
LEMMA DeskLapsesNext ==
    ASSUME SettlementsStay, DeskInv, DeskLapses, [DeskNext]_deskVars
    PROVE  DeskLapses'
<1>1. CASE UNCHANGED deskVars
  <2>1. UNCHANGED vars /\ UNCHANGED lapseVars /\ UNCHANGED <<call, given>>
    BY <1>1 DEF deskVars
  <2>2. UNCHANGED tables /\ UNCHANGED locals /\ UNCHANGED quiet /\ UNCHANGED <<stage, clock>>
        /\ UNCHANGED known /\ UNCHANGED call
    BY <2>1 DEF vars, lapseVars
  <2>3. SettledStay' /\ RowsStay'
    BY <2>2, SameStay DEF RowsStay, DeskLapses, tables
  <2>4. \A p \in Pass : Unseen(p)
    BY <2>2 DEF Unseen
  <2> QED
    BY <2>2, <2>3, <2>4, PassesWait DEF DeskLapses
<1>2. CASE Others
  <2>1. call'.rows = call.rows
    BY <1>2 DEF Others
  <2>2. RowsStay'
    BY <2>1 DEF RowsStay, DeskLapses
  <2>3. \/ \E p \in Pass : PassStep(p) \/ Die(p)
        \/ BrokerFeed
        \/ \E s \in Priced : PriceArrives(s)
    BY <1>2 DEF Others
  <2> QED
    BY <2>2, <2>3, PassLapses, WorldLapses DEF DeskInv
<1> QED
  BY <1>1, <1>2, CommandsLapses DEF DeskNext

\* Before anything has happened no settlement is written and no pass is under way.
LEMMA DeskLapsesInit ==
    ASSUME DeskInit
    PROVE  DeskLapses
<1>1. /\ txns = {} /\ call.rows = {}
      /\ \A p \in Pass : /\ pc[p] = "idle" /\ phase[p] = "routed" /\ todo[p] = {}
                         /\ cand[p] = {} /\ cluster[p] = {} /\ stage[p] = "due"
                         /\ ~quiet[p]
  BY DEF DeskInit, Init, LapseInit, NoCall, TablesInit
<1> QED
  BY <1>1 DEF DeskLapses, SettledStay, RowsStay, QuietAlone, Placed, InPlace, Held, LapsesCalm

(* When the operator moves no settlement that was synthesised, an           *)
(* undisturbed pass that has gone through its lapses leaves no lot past its *)
(* time in any open group, in whichever direction each group holds it and   *)
(* whatever passes, feeds and commands came before                          *)
(* (synthesize_lapsed_settlements).                                         *)
THEOREM NoLotOverdueAlways == SettlementsStay /\ DeskSpec => []NoLotOverdue
<1> SUFFICES ASSUME SettlementsStay
             PROVE  DeskSpec => []NoLotOverdue
  OBVIOUS
<1>1. DeskInit => DeskInv /\ DeskLapses
  BY DeskInitType, DeskLapsesInit
<1>2. DeskInv /\ DeskLapses /\ [DeskNext]_deskVars => (DeskInv /\ DeskLapses)'
  BY DeskNextType, DeskLapsesNext
<1>3. DeskLapses => NoLotOverdue
  BY DEF DeskLapses, LapsesCalm, NoneOverdue, NoLotOverdue
<1> QED
  BY <1>1, <1>2, <1>3, PTL DEF DeskSpec
=============================================================================
