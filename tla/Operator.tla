------------------------------ MODULE Operator ------------------------------
(***************************************************************************)
(* The operator's commands on trade groups (src/tt_ledger/ingest/remap.py) *)
(* beside the reconcile passes, with their lapses, and the feed.           *)
(*                                                                         *)
(* A command is a coroutine too: it reads a trade_groups row in one store  *)
(* call and writes the whole row in a later one, and a regroup does so for *)
(* one group after another.  An adjustment event is not recorded (nobody   *)
(* reads it), nor are the attribution columns a remap sets: manual and     *)
(* review stand for them.  The orders and the position a remap also writes *)
(* are those of OrderRow and PositionBook.                                 *)
(***************************************************************************)
EXTENDS Lapse

CONSTANTS
    Command,     \* the commands the operator may give; with "claim", a regroup may also
                 \* take rows that have no group yet
    Regrouping,  \* what the operator may regroup: sets of rows and where they are to go
    MaxCommands  \* bound: commands given

ASSUME OperatorAssumption ==
    /\ Command \subseteq {"regroup", "claim", "remap", "link", "unfilled", "dismiss"}
    /\ Regrouping \subseteq ((SUBSET Txn) \ {{}}) \X (Group \cup {NoGroup})
    /\ MaxCommands \in Nat

\* The operator moves no settlement that was synthesised: the next pass that finds the lot
\* it settled would put it back.
SettlementsStay == \A r \in Regrouping : r[1] \cap Synthetic = {}

VARIABLES
    call,    \* the command being carried out
    given    \* commands given so far

\* step:   the next store call
\* rows:   the transactions to move; order: the order to link
\* target: the group the command is about (NoGroup: one to be created)
\* left:   groups a regroup has still to recompute, touched: all of them
\* saw:    the trade_groups row read
\* members: the rows of the group being recomputed, as read
\* alone:  nobody else has written since the command began
Call ==
    [step    : {"none", "target", "targetWrite", "move", "group", "activity",
                "groupWrite", "check", "mark", "remap", "dismiss", "link"},
     rows    : SUBSET Txn,
     order   : Order \cup {NoOrder},
     target  : Group \cup {NoGroup},
     left    : SUBSET Group,
     touched : SUBSET Group,
     saw     : GroupRowType,
     members : SUBSET Txn,
     alone   : BOOLEAN]

NoCall == [step |-> "none", rows |-> {}, order |-> NoOrder, target |-> NoGroup,
           left |-> {}, touched |-> {}, saw |-> NoRow, members |-> {}, alone |-> FALSE]

deskVars == <<vars, lapseVars, call, given>>

DeskType ==
    /\ TypeOK
    /\ LapseType
    /\ call \in Call
    /\ given \in 0 .. MaxCommands

DeskInit ==
    /\ Init
    /\ LapseInit
    /\ call = NoCall
    /\ given = 0

\* What every step of a command leaves alone, and what its writes do to passes under way.
Commanding ==
    /\ Disturbs
    /\ UNCHANGED <<locals, lone, aborts, lapseVars>>

Existing(g) == groupRow[g].status # "none"

Give(command, first) ==
    /\ command \in Command
    /\ call = NoCall
    /\ given < MaxCommands
    /\ given' = given + 1
    /\ call' = first
    /\ UNCHANGED tables
    /\ Commanding

\* A later step of the command under way.
Goes(step) == call.step = step /\ UNCHANGED given

-----------------------------------------------------------------------------
(* The group rows or an order are to go to.                                *)

HasTarget(g) ==
    [call EXCEPT !.step = IF call.order = NoOrder THEN "move" ELSE "link",
                 !.target = g, !.saw = NoRow, !.left = @ \cup {g}]

\* A new group is created as it is, an existing one is read and then written whole.
ReadTarget ==
    /\ Goes("target")
    /\ IF call.target = NoGroup
       THEN \E g \in Group :
                /\ FreeGroup(g)
                /\ UpsertTradeGroup(g, [NoRow EXCEPT !.status = "open", !.manual = TRUE])
                /\ call' = HasTarget(g)
       ELSE /\ call' = [call EXCEPT !.step = "targetWrite", !.saw = groupRow[call.target]]
            /\ UNCHANGED tables
    /\ Commanding

WriteTarget ==
    /\ Goes("targetWrite")
    /\ UpsertTradeGroup(call.target, [call.saw EXCEPT !.manual = TRUE])
    /\ call' = HasTarget(call.target)
    /\ Commanding

-----------------------------------------------------------------------------
(* regroup_transactions.                                                   *)

\* get_transactions_by_id: the rows and the groups they are in now.
Regroup(S, g) ==
    /\ S \subseteq txns
    /\ g # NoGroup => Existing(g)
    /\ "claim" \in Command \/ \A t \in S : txnGroup[t] # NoGroup
    /\ Give("regroup", [NoCall EXCEPT !.step = "target", !.rows = S, !.target = g,
                                      !.left = {txnGroup[t] : t \in S} \ {NoGroup},
                                      !.alone = TRUE])

\* move_transactions_to_group: all rows in one statement, whatever group they are in.
RegroupMove ==
    /\ Goes("move")
    /\ AttachTransactions(call.rows, call.target)
    /\ call' = [call EXCEPT !.step = "group", !.touched = @ \cup call.left]
    /\ Commanding

\* Then group by group: its row is read, its activity, and the row is written.
RegroupReadGroup(g) ==
    /\ Goes("group")
    /\ g \in call.left
    /\ call' = [call EXCEPT !.step = "activity", !.target = g, !.saw = groupRow[g],
                            !.left = @ \ {g}]
    /\ UNCHANGED tables
    /\ Commanding

RegroupReadActivity ==
    /\ Goes("activity")
    /\ call' = [call EXCEPT !.step = "groupWrite", !.members = GroupTransactions(call.target)]
    /\ UNCHANGED tables
    /\ Commanding

\* Mutation: the lifecycle of a group is not derived again (the code before it was).
RecomputedWithoutLifecycle(row, S) == [row EXCEPT !.premium = Once(S), !.fees = Once(S)]

\* _recompute_group: an emptied group is ignored, a flat one is closed, any other keeps
\* its status and its profit.
Recomputed(row, S) ==
    LET fields == [row EXCEPT !.premium = Once(S), !.fees = Once(S)]
    IN  CASE S = {} -> [fields EXCEPT !.review = "ignored", !.stamped = FALSE,
                                      !.realized = None]
          [] S # {} /\ FullyClosed(S) -> Stamped(fields, Once(S))
          [] OTHER -> fields

RegroupWriteGroup ==
    /\ Goes("groupWrite")
    /\ UpsertTradeGroup(call.target, Recomputed(call.saw, call.members))
    /\ call' = IF call.left = {} THEN NoCall
               ELSE [call EXCEPT !.step = "group", !.saw = NoRow, !.members = {}]
    /\ Commanding

-----------------------------------------------------------------------------
(* The commands on one group.                                              *)

Remap(g) ==
    /\ Existing(g)
    /\ Give("remap", [NoCall EXCEPT !.step = "remap", !.target = g, !.saw = groupRow[g]])

RemapWrite ==
    /\ Goes("remap")
    /\ UpsertTradeGroup(call.target, [call.saw EXCEPT !.manual = TRUE, !.review = "confirmed"])
    /\ call' = NoCall
    /\ Commanding

Dismiss(g) ==
    /\ Existing(g)
    /\ Give("dismiss", [NoCall EXCEPT !.step = "dismiss", !.target = g, !.saw = groupRow[g]])

DismissWrite ==
    /\ Goes("dismiss")
    /\ UpsertTradeGroup(call.target, [call.saw EXCEPT !.review = "ignored"])
    /\ call' = NoCall
    /\ Commanding

MarkUnfilled(g) ==
    /\ Existing(g)
    /\ Give("unfilled", [NoCall EXCEPT !.step = "check", !.target = g, !.saw = groupRow[g]])

\* A group that traded is refused.
CheckEmpty ==
    /\ Goes("check")
    /\ call' = IF GroupTransactions(call.target) # {} THEN NoCall
               ELSE [call EXCEPT !.step = "mark"]
    /\ UNCHANGED tables
    /\ Commanding

MarkWrite ==
    /\ Goes("mark")
    /\ UpsertTradeGroup(call.target, [call.saw EXCEPT !.status = "unfilled"])
    /\ call' = NoCall
    /\ Commanding

-----------------------------------------------------------------------------
(* link_order_to_group.  The pass it ends with is one of the passes.       *)

LinkOrder(o, g) ==
    /\ o \in orders /\ orderGroup[o] = NoGroup
    /\ g # NoGroup => Existing(g)
    /\ Give("link", [NoCall EXCEPT !.step = "target", !.order = o, !.target = g])

LinkWrite ==
    /\ Goes("link")
    /\ UpsertOrders({call.order}, call.target)
    /\ call' = NoCall
    /\ Commanding

-----------------------------------------------------------------------------
(* A command dies between two of its store calls.                          *)

CommandDies ==
    /\ call # NoCall
    /\ aborts < MaxAborts
    /\ aborts' = aborts + 1
    /\ call' = NoCall
    /\ UNCHANGED <<tables, locals, quiet, lone, settled, lapseVars, given>>

-----------------------------------------------------------------------------
Commands ==
    \/ \E r \in Regrouping : Regroup(r[1], r[2])
    \/ \E o \in Order, g \in Group \cup {NoGroup} : LinkOrder(o, g)
    \/ \E g \in Group : Remap(g) \/ Dismiss(g) \/ MarkUnfilled(g)

Carries ==
    \/ ReadTarget \/ WriteTarget
    \/ RegroupMove \/ RegroupReadActivity \/ RegroupWriteGroup
    \/ \E g \in Group : RegroupReadGroup(g)
    \/ RemapWrite \/ DismissWrite \/ CheckEmpty \/ MarkWrite \/ LinkWrite

\* A regroup is alone until somebody else writes.
Others ==
    /\ \/ \E p \in Pass : PassStep(p) \/ Die(p)
       \/ BrokerFeed
       \/ \E s \in Priced : PriceArrives(s)
    /\ call' = [call EXCEPT !.alone = @ /\ UNCHANGED tables]
    /\ UNCHANGED given

DeskNext == Commands \/ Carries \/ CommandDies \/ Others

\* A command that was started is carried through, unless it dies.
Fairness ==
    /\ PassesRunOn
    /\ WF_deskVars(Carries)

DeskSpec == DeskInit /\ [][DeskNext]_deskVars

FairDeskSpec == DeskSpec /\ Fairness

-----------------------------------------------------------------------------
(* Correctness.                                                            *)

(* A regroup nobody interferes with leaves every group it touched stamped   *)
(* with exactly the rows it holds by then: an emptied one ignored and       *)
(* without a profit, a flat one closed for its causes (_recompute_group).   *)
RegroupSettles ==
    [][RegroupWriteGroup /\ call.left = {} /\ call.alone =>
        \A g \in call.touched :
            LET rows == GroupTransactions(g)
                row  == groupRow'[g]
            IN  /\ row.premium = Once(rows) /\ row.fees = Once(rows)
                /\ rows = {} => row.review = "ignored" /\ ~row.stamped
                /\ FullyClosed(rows) => /\ row.status = TerminalStatus(rows)
                                       /\ row.realized = Once(rows)]_deskVars

(* Only a regroup takes a row out of the group it is in: a pass that read   *)
(* the row before does not put it back (remap.py: "once remap/regroup       *)
(* claims one, it's permanently excluded from automatic re-grouping").      *)
OnlyRegroupMoves ==
    [][\A t \in Txn : txnGroup[t] # NoGroup /\ txnGroup'[t] # txnGroup[t] =>
        call.step = "move" /\ t \in call.rows]_deskVars
=============================================================================
