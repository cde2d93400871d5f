---------------------------- MODULE PositionBook ----------------------------
(***************************************************************************)
(* The positions and closed_positions rows of one contract of one account, *)
(* and everybody who writes them: rebuild_positions_from_transactions      *)
(* (src/tt_ledger/ingest/replay.py), sync_positions and the stream's       *)
(* position messages (src/tt_ledger/repositories/__init__.py), an operator *)
(* who attributes the position (src/tt_ledger/ingest/remap.py), and the    *)
(* pass that gives closed positions their trade group                      *)
(* (src/tt_ledger/store/sql.py).                                           *)
(*                                                                         *)
(* Each of them reads the position row in one store call and writes the    *)
(* whole row in a later one.  The rebuild goes on to write one closed row  *)
(* per completed lifecycle, each by a select followed by an insert or an   *)
(* update, and to link the rows, and may die between any two calls.        *)
(*                                                                         *)
(* Rows are numbered in replay's order; they are executed in that order,   *)
(* but some may reach the ledger after later ones.  What a rebuild makes   *)
(* of a set of rows is data here (module Rebuild computes it), and so is   *)
(* what the broker reports.  Prices and market values are left out.        *)
(***************************************************************************)
EXTENDS Integers, Sequences, FiniteSets

CONSTANTS
    Activity,     \* the account's rows, 1 .. N in replay's order
    Ours,         \* those of the contract
    Delayed,      \* those that may be synced after later ones
    Attributed,   \* those whose order carries a trade group
    Replay,       \* what a rebuild makes of each set of rows
    Holding,      \* what the broker holds once n rows are executed
    Rebuilder,    \* rebuilds that may be in flight
    Writer,       \* syncs, streams and operators that may be writing the position
    MaxLag,       \* bound: rows executed and not yet synced
    MaxFaults,    \* bound: stream messages, attributions and failed rebuilds
    None          \* no position row

N == Cardinality(Activity)

Lot == [net : Int, since : Activity \cup {0}]

Life == [from : Nat, to : Nat, by : Activity \cup {0}, realised : Nat,
         fees : SUBSET Activity]

Result == [lot : Lot, plan : Seq(Life), marks : SUBSET Activity]

ASSUME PositionAssumption ==
    /\ N \in Nat /\ Activity = 1 .. N
    /\ Ours \subseteq Activity
    /\ Delayed \subseteq Activity
    /\ Attributed \subseteq Activity
    /\ Replay \in [SUBSET Activity -> Result]
    /\ Holding \in [0 .. N -> Int]
    /\ MaxLag \in Nat \ {0}
    /\ MaxFaults \in Nat

VARIABLES
    executed,   \* how many rows the broker has executed
    known,      \* the rows in transactions
    position,   \* the positions row
    closed,     \* the closed_positions rows, in order of their ids
    links,      \* position_id and closed_position_id of each transaction
    rebuild,    \* what each rebuild remembers
    write,      \* what each other writer remembers
    faults,     \* stream messages, attributions and failed rebuilds so far
    \* History, which only the properties read:
    late,       \* a row has been synced after a later one
    lone,       \* rebuilds during which no other rebuild has been in flight
    calm,       \* rebuilds during which nobody else wrote
    fresh       \* such a rebuild has ended and nobody has written since

stored == <<position, closed, links>>
vars == <<executed, known, stored, rebuild, write, faults, late, lone, calm, fresh>>

Position == [net : Int, since : Activity \cup {0}, owned : BOOLEAN]

\* group is the row whose order gave closed_positions.trade_group_id, 0 for null.
ClosedRow == [life : Life, group : Activity \cup {0}]

\* closed is the id of a closed_positions row, 0 for null.
Link == [open : BOOLEAN, closed : Nat]

\* book is the replay of the rows read; i is the next lifecycle of its plan,
\* found the id selected for it and ids those of the lifecycles before it.
Rebuilding == [pc : {"idle", "existing", "position", "look", "put", "link"},
               rows : SUBSET Activity, book : Result, owned : BOOLEAN, i : Nat,
               found : Nat, ids : Seq(Nat)]

Nothing == [lot |-> [net |-> 0, since |-> 0], plan |-> <<>>, marks |-> {}]

NotRebuilding == [pc |-> "idle", rows |-> {}, book |-> Nothing, owned |-> FALSE,
                  i |-> 1, found |-> 0, ids |-> <<>>]

\* A sync writes the quantity it was told; an operator the row it read.
Writing == [pc : {"idle", "read", "write"}, net : Int, row : Position]

NoPosition == [net |-> 0, since |-> 0, owned |-> FALSE]

NotWriting == [pc |-> "idle", net |-> 0, row |-> NoPosition]

TypeOK ==
    /\ executed \in 0 .. N
    /\ known \in SUBSET Activity
    /\ position \in Position \cup {None}
    /\ closed \in Seq(ClosedRow)
    /\ links \in [Activity -> Link]
    /\ rebuild \in [Rebuilder -> Rebuilding]
    /\ write \in [Writer -> Writing]
    /\ faults \in 0 .. MaxFaults
    /\ late \in BOOLEAN
    /\ lone \in [Rebuilder -> BOOLEAN]
    /\ calm \in [Rebuilder -> BOOLEAN]
    /\ fresh \in BOOLEAN

Init ==
    /\ executed = 0
    /\ known = {}
    /\ position = None
    /\ closed = <<>>
    /\ links = [t \in Activity |-> [open |-> FALSE, closed |-> 0]]
    /\ rebuild = [r \in Rebuilder |-> NotRebuilding]
    /\ write = [w \in Writer |-> NotWriting]
    /\ faults = 0
    /\ late = FALSE
    /\ lone = [r \in Rebuilder |-> FALSE]
    /\ calm = [r \in Rebuilder |-> FALSE]
    /\ fresh = FALSE

\* The rest of the world has moved: no rebuild under way is calm any more.
Disturbs ==
    /\ calm' = [r \in Rebuilder |-> FALSE]
    /\ fresh' = FALSE

-----------------------------------------------------------------------------
(* The broker, and the rows it delivers.                                   *)

Execute ==
    /\ executed < N
    /\ executed - Cardinality(known) < MaxLag
    /\ executed' = executed + 1
    /\ UNCHANGED <<known, stored, rebuild, write, faults, late, lone, calm, fresh>>

SyncRow(t) ==
    /\ t <= executed
    /\ t \notin known
    /\ \A u \in Activity : u < t => u \in known \cup Delayed
    /\ known' = known \cup {t}
    /\ late' = (late \/ \E u \in known : u > t)
    /\ Disturbs
    /\ UNCHANGED <<executed, stored, rebuild, write, faults, lone>>

-----------------------------------------------------------------------------
(* Writers of the position row: what they were told, then the row they     *)
(* read, then the whole row they write.                                    *)

\* sync_positions: the broker lists only what it holds.
FetchPosition(w) ==
    /\ write[w].pc = "idle"
    /\ Holding[executed] # 0
    /\ write' = [write EXCEPT ![w].pc = "read", ![w].net = Holding[executed]]
    /\ UNCHANGED <<executed, known, stored, rebuild, faults, late, lone, calm, fresh>>

\* A message of the stream, about any moment up to now.
ReceivePosition(w, n) ==
    /\ write[w].pc = "idle"
    /\ faults < MaxFaults
    /\ n \in Ours /\ n <= executed
    /\ faults' = faults + 1
    /\ write' = [write EXCEPT ![w].pc = "read", ![w].net = Holding[n]]
    /\ UNCHANGED <<executed, known, stored, rebuild, late, lone, calm, fresh>>

\* The attribution and the opening of the row, if there is one, are kept.
ReadPosition(w) ==
    /\ write[w].pc = "read"
    /\ LET existing == IF position = None THEN NoPosition ELSE position
       IN  write' = [write EXCEPT ![w].pc = "write",
                                  ![w].row = [existing EXCEPT !.net = write[w].net]]
    /\ UNCHANGED <<executed, known, stored, rebuild, faults, late, lone, calm, fresh>>

\* remap_trade_group: only a position that is there is attributed.
RemapReads(w) ==
    /\ write[w].pc = "idle"
    /\ faults < MaxFaults
    /\ position # None
    /\ faults' = faults + 1
    /\ write' = [write EXCEPT ![w].pc = "write", ![w].row = [position EXCEPT !.owned = TRUE]]
    /\ UNCHANGED <<executed, known, stored, rebuild, late, lone, calm, fresh>>

WritePosition(w) ==
    /\ write[w].pc = "write"
    /\ position' = write[w].row
    /\ write' = [write EXCEPT ![w] = NotWriting]
    /\ Disturbs
    /\ UNCHANGED <<executed, known, closed, links, rebuild, faults, late, lone>>

Write(w) ==
    \/ FetchPosition(w)
    \/ \E n \in Activity : ReceivePosition(w, n)
    \/ ReadPosition(w)
    \/ RemapReads(w)
    \/ WritePosition(w)

-----------------------------------------------------------------------------
(* The rebuild.                                                            *)

Planned(r) == rebuild[r].book

\* A contract without rows is not rebuilt.
StartRebuild(r) ==
    /\ rebuild[r].pc = "idle"
    /\ known \cap Ours # {}
    /\ rebuild' = [rebuild EXCEPT ![r] =
            [NotRebuilding EXCEPT !.pc = "existing", !.rows = known]]
    /\ lone' = [q \in Rebuilder |-> q = r /\ \A o \in Rebuilder : rebuild[o].pc = "idle"]
    /\ calm' = [calm EXCEPT ![r] = lone'[r]]
    /\ UNCHANGED <<executed, known, stored, write, faults, late, fresh>>

ReadExisting(r) ==
    /\ rebuild[r].pc = "existing"
    /\ rebuild' = [rebuild EXCEPT ![r] =
            [rebuild[r] EXCEPT !.pc    = "position",
                               !.book  = Replay[rebuild[r].rows],
                               !.owned = position # None /\ position.owned]]
    /\ UNCHANGED <<executed, known, stored, write, faults, late, lone, calm, fresh>>

Onward(r, i) == IF i > Len(Planned(r).plan) THEN "link" ELSE "look"

\* Other rebuilds under way see a row they did not write.
Others(r) ==
    /\ calm' = [q \in Rebuilder |-> q = r /\ calm[r]]
    /\ fresh' = (fresh /\ calm[r])

\* Mutation: a flat lot is not written.
RebuildOpenPosition(r) ==
    /\ rebuild[r].pc = "position"
    /\ position' = IF Planned(r).lot.net = 0 THEN position
                   ELSE [net |-> Planned(r).lot.net, since |-> Planned(r).lot.since,
                         owned |-> rebuild[r].owned]
    /\ rebuild' = [rebuild EXCEPT ![r].pc = Onward(r, 1)]
    /\ Others(r)
    /\ UNCHANGED <<executed, known, closed, links, write, faults, late, lone>>

RebuildPosition(r) ==
    /\ rebuild[r].pc = "position"
    /\ position' = [net |-> Planned(r).lot.net, since |-> Planned(r).lot.since,
                    owned |-> rebuild[r].owned]
    /\ rebuild' = [rebuild EXCEPT ![r].pc = Onward(r, 1)]
    /\ Others(r)
    /\ UNCHANGED <<executed, known, closed, links, write, faults, late, lone>>

Key(life) == <<life.from, life.to>>

\* Mutation: the selection compares the whole row.
SameRow(life) == {k \in DOMAIN closed : closed[k].life = life}

SameKey(life) == {k \in DOMAIN closed : Key(closed[k].life) = Key(life)}

LookUp(r) ==
    /\ rebuild[r].pc = "look"
    /\ LET same == SameKey(Planned(r).plan[rebuild[r].i])
       IN  \E k \in 0 .. Len(closed) :
            /\ IF same = {} THEN k = 0 ELSE k \in same
            /\ rebuild' = [rebuild EXCEPT ![r] = [rebuild[r] EXCEPT !.pc = "put", !.found = k]]
    /\ UNCHANGED <<executed, known, stored, write, faults, late, lone, calm, fresh>>

\* The next lifecycle is looked up, the id of this one is remembered.
Done(r) ==
    LET i == rebuild[r].i
        k == rebuild[r].found
    IN  [rebuild[r] EXCEPT !.pc = Onward(r, i + 1), !.i = i + 1, !.found = 0,
                           !.ids = Append(@, IF k = 0 THEN Len(closed) + 1 ELSE k)]

\* Mutation: an update leaves the trade group of the row as it is.
PutKeepsGroup(r) ==
    /\ rebuild[r].pc = "put"
    /\ LET k    == rebuild[r].found
           life == Planned(r).plan[rebuild[r].i]
       IN  /\ closed' = IF k = 0 THEN Append(closed, [life |-> life, group |-> 0])
                        ELSE [closed EXCEPT ![k].life = life]
           /\ rebuild' = [rebuild EXCEPT ![r] = Done(r)]
    /\ Others(r)
    /\ UNCHANGED <<executed, known, position, links, write, faults, late, lone>>

\* Mutation: an update adds the profit to that of the row found.
PutAddsUp(r) ==
    /\ rebuild[r].pc = "put"
    /\ LET k   == rebuild[r].found
           row == [life |-> Planned(r).plan[rebuild[r].i], group |-> 0]
       IN  /\ closed' = IF k = 0 THEN Append(closed, row)
                        ELSE [closed EXCEPT ![k] =
                                [row EXCEPT !.life.realised = @ + closed[k].life.realised]]
           /\ rebuild' = [rebuild EXCEPT ![r] = Done(r)]
    /\ Others(r)
    /\ UNCHANGED <<executed, known, position, links, write, faults, late, lone>>

\* The whole row is written, its trade group reset to null.
Put(r) ==
    /\ rebuild[r].pc = "put"
    /\ LET k   == rebuild[r].found
           row == [life |-> Planned(r).plan[rebuild[r].i], group |-> 0]
       IN  /\ closed' = IF k = 0 THEN Append(closed, row) ELSE [closed EXCEPT ![k] = row]
           /\ rebuild' = [rebuild EXCEPT ![r] = Done(r)]
    /\ Others(r)
    /\ UNCHANGED <<executed, known, position, links, write, faults, late, lone>>

\* Mutation: rows that no longer mark anything keep their links.
LinkMarkedOnly(r) ==
    /\ rebuild[r].pc = "link"
    /\ links' = [t \in Activity |->
            IF t \in Planned(r).marks
            THEN [open |-> TRUE, closed |-> IF \E i \in DOMAIN Planned(r).plan : Planned(r).plan[i].by = t
                                            THEN rebuild[r].ids[CHOOSE i \in DOMAIN Planned(r).plan :
                                                                    Planned(r).plan[i].by = t]
                                            ELSE 0]
            ELSE links[t]]
    /\ rebuild' = [rebuild EXCEPT ![r] = NotRebuilding]
    /\ lone' = [lone EXCEPT ![r] = FALSE]
    /\ calm' = [q \in Rebuilder |-> FALSE]
    /\ fresh' = calm[r]
    /\ UNCHANGED <<executed, known, position, closed, write, faults, late>>

\* The id of the closed row of the lifecycle that t closed.
ClosedId(r, t) ==
    LET plan == Planned(r).plan
    IN  IF \E i \in DOMAIN plan : plan[i].by = t
        THEN rebuild[r].ids[CHOOSE i \in DOMAIN plan : plan[i].by = t]
        ELSE 0

\* All rows of the contract are linked, or unlinked, in one statement.
LinkRows(r) ==
    /\ rebuild[r].pc = "link"
    /\ links' = [t \in Activity |->
            IF t \in rebuild[r].rows \cap Ours
            THEN [open |-> t \in Planned(r).marks, closed |-> ClosedId(r, t)]
            ELSE links[t]]
    /\ rebuild' = [rebuild EXCEPT ![r] = NotRebuilding]
    /\ lone' = [lone EXCEPT ![r] = FALSE]
    /\ calm' = [q \in Rebuilder |-> FALSE]
    /\ fresh' = calm[r]
    /\ UNCHANGED <<executed, known, position, closed, write, faults, late>>

\* One account's failure is caught; what was written stays written.
RebuildDies(r) ==
    /\ rebuild[r].pc # "idle"
    /\ faults < MaxFaults
    /\ faults' = faults + 1
    /\ rebuild' = [rebuild EXCEPT ![r] = NotRebuilding]
    /\ lone' = [lone EXCEPT ![r] = FALSE]
    /\ calm' = [calm EXCEPT ![r] = FALSE]
    /\ UNCHANGED <<executed, known, stored, write, late, fresh>>

RebuildStep(r) ==
    \/ StartRebuild(r)
    \/ ReadExisting(r)
    \/ RebuildPosition(r)
    \/ LookUp(r)
    \/ Put(r)
    \/ LinkRows(r)

-----------------------------------------------------------------------------
(* A reconcile pass gives closed positions the group of their closing order *)
(* where they have none.                                                   *)

LinkClosedPositions ==
    /\ closed' = [k \in DOMAIN closed |->
            IF closed[k].group = 0 /\ closed[k].life.by \in Attributed
            THEN [closed[k] EXCEPT !.group = closed[k].life.by]
            ELSE closed[k]]
    /\ UNCHANGED <<executed, known, position, links, rebuild, write, faults, late, lone, calm, fresh>>

-----------------------------------------------------------------------------

Next ==
    \/ Execute
    \/ \E t \in Activity : SyncRow(t)
    \/ \E w \in Writer : Write(w)
    \/ \E r \in Rebuilder : RebuildStep(r) \/ RebuildDies(r)
    \/ LinkClosedPositions

Spec == Init /\ [][Next]_vars

\* Everything executed is synced in the end; syncs recur; the host calls the
\* rebuild again and again, and every call returns.
Fairness ==
    /\ WF_vars(Execute)
    /\ \A t \in Activity : WF_vars(SyncRow(t))
    /\ \A w \in Writer : WF_vars(Write(w))
    /\ \A r \in Rebuilder : []<>(rebuild[r].pc # "idle") /\ []<>(rebuild[r].pc = "idle")

FairSpec == Spec /\ Fairness

-----------------------------------------------------------------------------
(* Correctness.                                                            *)

Lifecycles == {closed[k].life : k \in DOMAIN closed}

(* No constraint in the database keeps the closed_positions rows of one     *)
(* lifecycle apart, only a select before each insert.  A rebuild that no    *)
(* other rebuild overlaps inserts no lifecycle that is there, whatever      *)
(* rebuilds that overlapped, died half way or read fewer rows have left     *)
(* (upsert_closed_position: "re-running never duplicates it").              *)
ClosedOnce ==
    [][(\A r \in Rebuilder : rebuild[r].pc # "idle" => lone[r]) =>
        \A k \in DOMAIN closed' \ DOMAIN closed, l \in DOMAIN closed :
            Key(closed'[k].life) # Key(closed[l].life)]_vars

\* The stored book of the contract is the one a replay makes.
Agrees(book) ==
    /\ position.net = book.lot.net
    /\ position.since = book.lot.since
    /\ \A i \in DOMAIN book.plan : book.plan[i] \in Lifecycles
    /\ \A t \in Ours \cap known :
        /\ links[t].open <=> t \in book.marks
        /\ links[t].closed # 0 <=> \E i \in DOMAIN book.plan : book.plan[i].by = t
        /\ links[t].closed # 0 => closed[links[t].closed].life.by = t

(* Two assumptions about the rows.  closed_positions is keyed by the two    *)
(* instants of a lifecycle, so a replay in which two lifecycles share both  *)
(* keeps the later one only.                                                *)
KeysApart ==
    \A S \in SUBSET Activity :
        \A i, j \in DOMAIN Replay[S].plan :
            Key(Replay[S].plan[i]) = Key(Replay[S].plan[j]) => i = j

(* A completed lifecycle is part of every replay that reads further.        *)
ReplayGrows ==
    \A S, T \in SUBSET Activity :
        S \subseteq T /\ (\A s \in S, t \in T \ S : s < t) =>
            \A i \in DOMAIN Replay[S].plan :
                \E j \in DOMAIN Replay[T].plan : Replay[T].plan[j] = Replay[S].plan[i]

(* After a rebuild during which nobody else wrote, the stored book is the   *)
(* replay of the rows: quantity and opening of the position, a closed row   *)
(* for each lifecycle, and each row linked to the lifecycle it closed, even *)
(* when an earlier rebuild died half way or read fewer rows.                *)
FreshBook == fresh => Agrees(Replay[known])

(* As long as rows come in order, a closed row once written stays true:     *)
(* it is a lifecycle of every later replay too, however many rebuilds die   *)
(* half way and however often the lot is opened, flipped and lapsed ("a     *)
(* completed lifecycle always recomputes to the same key").                 *)
ClosedStaysTrue ==
    ~late => \A life \in Lifecycles :
                \E i \in DOMAIN Replay[known].plan : Replay[known].plan[i] = life

(* The group of a closed position is that of the order that closed it, also *)
(* when a late row makes another row of the same instant the closing one    *)
(* (link_closed_positions_to_groups, which only fills nulls).               *)
GroupOfCloser ==
    \A k \in DOMAIN closed : closed[k].group \in {0, closed[k].life.by}

(* Once the broker has executed everything, the position settles on what    *)
(* the broker holds, although syncs never report a position that is gone    *)
(* and late messages and attributions write old quantities back.            *)
Quantity == IF position = None THEN 0 ELSE position.net

Settles == <>[](Quantity = Holding[N])
=============================================================================
