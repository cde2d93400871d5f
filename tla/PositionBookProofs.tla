------------------------- MODULE PositionBookProofs -------------------------
(***************************************************************************)
(* What the closed_positions rows keep, whatever the account's rows are,   *)
(* whatever a rebuild makes of them and however many others write the      *)
(* position meanwhile.  Rebuilds may overlap everywhere; that a lifecycle  *)
(* gets no second row is proved of those that no other overlaps.           *)
(***************************************************************************)
EXTENDS PositionBook, TLAPS

-----------------------------------------------------------------------------
(* Types of the closed rows and of what a rebuild remembers.               *)

BookTypes ==
    /\ known \in SUBSET Activity
    /\ closed \in Seq(ClosedRow)
    /\ rebuild \in [Rebuilder -> Rebuilding]

\* What a rebuild looks up and puts is a lifecycle of its plan.
InPlan ==
    \A r \in Rebuilder :
        /\ rebuild[r].pc \in {"existing", "position"} => rebuild[r].i = 1
        /\ rebuild[r].pc \in {"look", "put"} => rebuild[r].i \in DOMAIN Planned(r).plan

LEMMA OnwardIsStep ==
    ASSUME NEW r, NEW i
    PROVE  Onward(r, i) \in {"look", "link"}
  BY DEF Onward

LEMMA OnwardInPlan ==
    ASSUME BookTypes, NEW r \in Rebuilder, NEW i \in Nat \ {0}, Onward(r, i) = "look"
    PROVE  i \in DOMAIN Planned(r).plan
<1>1. Planned(r).plan \in Seq(Life)
  <2>1. rebuild[r].book \in Result
    BY DEF BookTypes, Rebuilding
  <2> QED
    BY <2>1 DEF Planned, Result
<1> QED
  BY <1>1 DEF Onward

LEMMA IdleTyped == NotRebuilding \in Rebuilding
<1>1. Nothing \in Result
  BY DEF Nothing, Result, Lot
<1> QED
  BY <1>1 DEF NotRebuilding, Rebuilding

LEMMA StartTyped ==
    ASSUME BookTypes, NEW r \in Rebuilder, StartRebuild(r)
    PROVE  rebuild' \in [Rebuilder -> Rebuilding]
<1> DEFINE new == [NotRebuilding EXCEPT !.pc = "existing", !.rows = known]
<1>1. new \in Rebuilding
  BY IdleTyped DEF BookTypes, Rebuilding
<1>2. rebuild' = [rebuild EXCEPT ![r] = new]
  BY DEF StartRebuild
<1> HIDE DEF new
<1> QED
  BY <1>1, <1>2 DEF BookTypes

LEMMA ReadTyped ==
    ASSUME BookTypes, NEW r \in Rebuilder, ReadExisting(r)
    PROVE  rebuild' \in [Rebuilder -> Rebuilding]
<1> DEFINE owned == position # None /\ position.owned
           new == [rebuild[r] EXCEPT !.pc = "position", !.book = Replay[rebuild[r].rows],
                                     !.owned = owned]
<1>1. rebuild[r] \in Rebuilding /\ rebuild[r].rows \in SUBSET Activity
  BY DEF BookTypes, Rebuilding
<1>2. Replay[rebuild[r].rows] \in Result
  BY <1>1, PositionAssumption
<1>3. owned \in BOOLEAN
  OBVIOUS
<1>4. rebuild' = [rebuild EXCEPT ![r] = new]
  BY DEF ReadExisting
<1> HIDE DEF owned
<1>5. new \in Rebuilding
  BY <1>1, <1>2, <1>3 DEF Rebuilding
<1> HIDE DEF new
<1> QED
  BY <1>4, <1>5 DEF BookTypes

LEMMA PositionTyped ==
    ASSUME BookTypes, NEW r \in Rebuilder, RebuildPosition(r)
    PROVE  rebuild' \in [Rebuilder -> Rebuilding]
  BY OnwardIsStep DEF BookTypes, RebuildPosition, Rebuilding

LEMMA LookTyped ==
    ASSUME BookTypes, NEW r \in Rebuilder, NEW k \in 0 .. Len(closed),
           rebuild' = [rebuild EXCEPT ![r] = [rebuild[r] EXCEPT !.pc = "put", !.found = k]]
    PROVE  rebuild' \in [Rebuilder -> Rebuilding]
<1> DEFINE new == [rebuild[r] EXCEPT !.pc = "put", !.found = k]
<1>1. rebuild[r] \in Rebuilding /\ k \in Nat
  BY DEF BookTypes
<1>2. new \in Rebuilding
  BY <1>1 DEF Rebuilding
<1> HIDE DEF new
<1> QED
  BY <1>2 DEF BookTypes, new

LEMMA PutTyped ==
    ASSUME BookTypes, NEW r \in Rebuilder, rebuild' = [rebuild EXCEPT ![r] = Done(r)]
    PROVE  rebuild' \in [Rebuilder -> Rebuilding]
<1> DEFINE b == rebuild[r]
           pc == Onward(r, b.i + 1)
           id == IF b.found = 0 THEN Len(closed) + 1 ELSE b.found
           ids == Append(b.ids, id)
<1>1. b \in Rebuilding /\ b.i \in Nat /\ b.found \in Nat /\ b.ids \in Seq(Nat)
      /\ Len(closed) \in Nat
  BY DEF BookTypes, Rebuilding
<1>2. ids \in Seq(Nat)
  BY <1>1
<1>3. pc \in {"look", "link"}
  BY OnwardIsStep
<1>4. b.i + 1 \in Nat
  BY <1>1
<1> HIDE DEF pc, id, ids
<1> DEFINE new == [b EXCEPT !.pc = pc, !.i = b.i + 1, !.found = 0, !.ids = ids]
<1>5. Done(r) = new
  BY DEF Done, pc, id, ids
<1> HIDE DEF b
<1>6. new \in Rebuilding
  BY <1>1, <1>2, <1>3, <1>4 DEF Rebuilding
<1> HIDE DEF new
<1> QED
  BY <1>5, <1>6 DEF BookTypes

LEMMA PlannedLife ==
    ASSUME BookTypes, InPlan, NEW r \in Rebuilder, rebuild[r].pc \in {"look", "put"}
    PROVE  Planned(r).plan[rebuild[r].i] \in Life
<1>1. rebuild[r].book \in Result
  BY DEF BookTypes, Rebuilding
<1>2. Planned(r).plan \in Seq(Life)
  BY <1>1 DEF Planned, Result
<1> QED
  BY <1>2 DEF InPlan

\* Put leaves a closed row for the lifecycle, and the others as they are.
LEMMA PutCloses ==
    ASSUME BookTypes, InPlan, NEW r \in Rebuilder, Put(r),
           rebuild[r].found = 0 \/ rebuild[r].found \in DOMAIN closed
    PROVE  LET life == Planned(r).plan[rebuild[r].i]
               row  == [life |-> life, group |-> 0]
               k    == IF rebuild[r].found = 0 THEN Len(closed) + 1 ELSE rebuild[r].found
           IN  /\ closed' \in Seq(ClosedRow)
               /\ DOMAIN closed' = DOMAIN closed \cup {k}
               /\ closed'[k] = row
               /\ \A l \in DOMAIN closed \ {k} : closed'[l] = closed[l]
<1> DEFINE life == Planned(r).plan[rebuild[r].i]
           row == [life |-> life, group |-> 0]
           found == rebuild[r].found
<1>1. life \in Life
  BY PlannedLife DEF Put
<1>2. row \in ClosedRow
  BY <1>1 DEF ClosedRow
<1>3. closed \in Seq(ClosedRow) /\ Len(closed) \in Nat /\ DOMAIN closed = 1 .. Len(closed)
  BY DEF BookTypes
<1>4. closed' = IF found = 0 THEN Append(closed, row) ELSE [closed EXCEPT ![found] = row]
  BY DEF Put
<1> HIDE DEF life, row
<1>5. CASE found = 0
  BY <1>2, <1>3, <1>4, <1>5 DEF row, life
<1>6. CASE found # 0
  BY <1>2, <1>3, <1>4, <1>6 DEF row, life
<1> QED
  BY <1>5, <1>6

\* Linking gives groups and touches nothing else.
LEMMA LinkKeepsLives ==
    ASSUME BookTypes, LinkClosedPositions
    PROVE  /\ closed' \in Seq(ClosedRow) /\ DOMAIN closed' = DOMAIN closed
           /\ \A k \in DOMAIN closed : /\ closed'[k].life = closed[k].life
                                       /\ closed'[k].group \in {closed[k].group, closed[k].life.by}
<1>1. closed \in Seq(ClosedRow) /\ Len(closed) \in Nat /\ DOMAIN closed = 1 .. Len(closed)
  BY DEF BookTypes
<1> DEFINE new(k) == IF closed[k].group = 0 /\ closed[k].life.by \in Attributed
                     THEN [closed[k] EXCEPT !.group = closed[k].life.by]
                     ELSE closed[k]
<1>2. ASSUME NEW k \in DOMAIN closed
      PROVE  /\ new(k) \in ClosedRow /\ new(k).life = closed[k].life
             /\ new(k).group \in {closed[k].group, closed[k].life.by}
  <2>1. closed[k] \in ClosedRow
    BY <1>1, <1>2
  <2>2. closed[k].life.by \in Activity \cup {0}
    BY <2>1 DEF ClosedRow, Life
  <2> QED
    BY <2>1, <2>2 DEF ClosedRow
<1>3. closed' = [k \in DOMAIN closed |-> new(k)]
  BY DEF LinkClosedPositions
<1> HIDE DEF new
<1>4. closed' \in [1 .. Len(closed) -> ClosedRow]
  BY <1>1, <1>2, <1>3
<1>5. closed' \in Seq(ClosedRow)
  BY <1>1, <1>4
<1> QED
  BY <1>2, <1>3, <1>5

\* No id is looked up and lost: closed rows are never deleted.
FoundIsThere ==
    \A r \in Rebuilder : rebuild[r].pc = "put" =>
        rebuild[r].found = 0 \/ rebuild[r].found \in DOMAIN closed

TypeInv == BookTypes /\ InPlan /\ FoundIsThere

\* The id a rebuild has found is that of a row of its lifecycle; none was found
\* only if there is none.
FoundByKey(r) ==
    LET life  == Planned(r).plan[rebuild[r].i]
        found == rebuild[r].found
    IN  /\ found = 0 => \A k \in DOMAIN closed : Key(closed[k].life) # Key(life)
        /\ found # 0 => found \in DOMAIN closed /\ Key(closed[found].life) = Key(life)

\* Steps that leave the closed rows and the rebuilds alone.
Elsewhere ==
    \/ Execute
    \/ \E t \in Activity : SyncRow(t)
    \/ \E w \in Writer : Write(w)
    \/ UNCHANGED vars

LEMMA ElsewhereLeaves ==
    ASSUME TypeInv, Elsewhere
    PROVE  closed' = closed /\ rebuild' = rebuild /\ known' \in SUBSET Activity
<1>1. CASE Execute
  BY <1>1 DEF Execute, TypeInv, BookTypes, stored
<1>2. CASE \E t \in Activity : SyncRow(t)
  BY <1>2 DEF SyncRow, TypeInv, BookTypes, stored
<1>3. CASE \E w \in Writer : Write(w)
  BY <1>3 DEF Write, FetchPosition, ReceivePosition, ReadPosition, RemapReads, WritePosition,
              TypeInv, BookTypes, stored
<1>4. CASE UNCHANGED vars
  BY <1>4 DEF vars, stored, TypeInv, BookTypes
<1> QED
  BY <1>1, <1>2, <1>3, <1>4 DEF Elsewhere

\* A rebuild goes on: the others stay where they are.
LEMMA RebuildStays ==
    ASSUME TypeInv, NEW r \in Rebuilder, NEW new, rebuild' = [rebuild EXCEPT ![r] = new]
    PROVE  /\ rebuild'[r] = new
           /\ \A q \in Rebuilder : q # r => rebuild'[q] = rebuild[q]
  BY DEF TypeInv, BookTypes

\* Where a rebuild is in its plan.
LEMMA InPlanStep ==
    ASSUME TypeInv, NEW r \in Rebuilder, NEW new, rebuild' = [rebuild EXCEPT ![r] = new],
           new.pc \in {"existing", "position"} => new.i = 1,
           new.pc \in {"look", "put"} => new.i \in DOMAIN new.book.plan
    PROVE  InPlan'
  BY RebuildStays DEF TypeInv, InPlan, Planned

LEMMA FoundStep ==
    ASSUME TypeInv, NEW r \in Rebuilder, NEW new, rebuild' = [rebuild EXCEPT ![r] = new],
           DOMAIN closed \subseteq DOMAIN closed',
           new.pc = "put" => new.found \in DOMAIN closed \cup {0}
    PROVE  FoundIsThere'
<1> SUFFICES ASSUME NEW q \in Rebuilder, rebuild'[q].pc = "put"
             PROVE  rebuild'[q].found = 0 \/ rebuild'[q].found \in DOMAIN closed'
  BY DEF FoundIsThere
<1> QED
  BY RebuildStays DEF TypeInv, FoundIsThere

\* Steps of a rebuild that do not put a row, and its death.
LEMMA QuietStep ==
    ASSUME TypeInv, NEW r \in Rebuilder,
           \/ StartRebuild(r) \/ ReadExisting(r) \/ RebuildPosition(r)
           \/ LinkRows(r) \/ RebuildDies(r)
    PROVE  /\ TypeInv' /\ closed' = closed /\ known' = known
           /\ \E new : rebuild' = [rebuild EXCEPT ![r] = new] /\ new.pc # "put"
<1>1. CASE StartRebuild(r)
  <2> DEFINE new == [NotRebuilding EXCEPT !.pc = "existing", !.rows = known]
  <2>1. rebuild' = [rebuild EXCEPT ![r] = new] /\ closed' = closed /\ known' = known
    BY <1>1 DEF StartRebuild, stored
  <2>2. new.pc = "existing" /\ new.i = 1
    BY DEF NotRebuilding
  <2> HIDE DEF new
  <2>3. InPlan' /\ FoundIsThere'
    BY <2>1, <2>2, InPlanStep, FoundStep
  <2> QED
    BY <1>1, <2>1, <2>2, <2>3, StartTyped DEF TypeInv, BookTypes
<1>2. CASE ReadExisting(r)
  <2> DEFINE owned == position # None /\ position.owned
             new == [rebuild[r] EXCEPT !.pc = "position", !.book = Replay[rebuild[r].rows],
                                       !.owned = owned]
  <2>1. rebuild' = [rebuild EXCEPT ![r] = new] /\ closed' = closed /\ known' = known
    BY <1>2 DEF ReadExisting, stored
  <2>2. new.pc = "position" /\ new.i = rebuild[r].i /\ rebuild[r].i = 1
    BY <1>2 DEF TypeInv, BookTypes, Rebuilding, InPlan, ReadExisting
  <2> HIDE DEF new
  <2>3. InPlan' /\ FoundIsThere'
    BY <2>1, <2>2, InPlanStep, FoundStep
  <2> QED
    BY <1>2, <2>1, <2>2, <2>3, ReadTyped DEF TypeInv, BookTypes
<1>3. CASE RebuildPosition(r)
  <2> DEFINE new == [rebuild[r] EXCEPT !.pc = Onward(r, 1)]
  <2>1. closed' = closed /\ known' = known
    BY <1>3 DEF RebuildPosition
  <2>2. rebuild' = [rebuild EXCEPT ![r] = new]
    BY <1>3 DEF RebuildPosition, TypeInv, BookTypes
  <2>3. new.pc = Onward(r, 1) /\ new.book = Planned(r) /\ new.i = 1
    BY <1>3 DEF TypeInv, BookTypes, Rebuilding, Planned, InPlan, RebuildPosition
  <2> HIDE DEF new
  <2>4. new.pc \in {"look", "link"}
    BY <2>3, OnwardIsStep
  <2>5. new.pc = "look" => new.i \in DOMAIN new.book.plan
    BY <2>3, OnwardInPlan DEF TypeInv
  <2>6. InPlan' /\ FoundIsThere'
    BY <2>1, <2>2, <2>4, <2>5, InPlanStep, FoundStep
  <2> QED
    BY <1>3, <2>1, <2>2, <2>4, <2>6, PositionTyped DEF TypeInv, BookTypes
<1>4. CASE LinkRows(r) \/ RebuildDies(r)
  <2>1. rebuild' = [rebuild EXCEPT ![r] = NotRebuilding] /\ closed' = closed /\ known' = known
    BY <1>4 DEF LinkRows, RebuildDies, stored
  <2>2. NotRebuilding.pc = "idle"
    BY DEF NotRebuilding
  <2>3. InPlan' /\ FoundIsThere'
    BY <2>1, <2>2, InPlanStep, FoundStep
  <2>4. rebuild' \in [Rebuilder -> Rebuilding]
    BY <2>1, IdleTyped DEF TypeInv, BookTypes
  <2> QED
    BY <2>1, <2>2, <2>3, <2>4 DEF TypeInv, BookTypes
<1> QED
  BY <1>1, <1>2, <1>3, <1>4

\* The look-up of a row that has the key of the lifecycle, if there is one.
LEMMA LookStep ==
    ASSUME TypeInv, NEW r \in Rebuilder, LookUp(r)
    PROVE  /\ TypeInv' /\ closed' = closed
           /\ rebuild'[r].pc = "put" /\ rebuild'[r].book = rebuild[r].book
           /\ rebuild'[r].i = rebuild[r].i
           /\ LET life == Planned(r).plan[rebuild[r].i]
              IN  IF SameKey(life) = {} THEN rebuild'[r].found = 0
                  ELSE rebuild'[r].found \in SameKey(life)
           /\ \A q \in Rebuilder : q # r => rebuild'[q] = rebuild[q]
<1> DEFINE same == SameKey(Planned(r).plan[rebuild[r].i])
<1>1. PICK k \in 0 .. Len(closed) :
        /\ IF same = {} THEN k = 0 ELSE k \in same
        /\ rebuild' = [rebuild EXCEPT ![r] = [rebuild[r] EXCEPT !.pc = "put", !.found = k]]
  BY DEF LookUp
<1>2. closed' = closed /\ known' = known
  BY DEF LookUp, stored
<1> DEFINE new == [rebuild[r] EXCEPT !.pc = "put", !.found = k]
<1>3. rebuild[r] \in Rebuilding
  BY DEF TypeInv, BookTypes
<1>4. new.pc = "put" /\ new.found = k /\ new.book = rebuild[r].book /\ new.i = rebuild[r].i
  BY <1>3 DEF Rebuilding
<1>5. rebuild' \in [Rebuilder -> Rebuilding]
  BY <1>1, LookTyped DEF TypeInv
<1>6. rebuild[r].i \in DOMAIN rebuild[r].book.plan
  BY DEF LookUp, TypeInv, InPlan, Planned
<1> HIDE DEF new
<1>7. rebuild' = [rebuild EXCEPT ![r] = new]
  BY <1>1 DEF new
<1>8. InPlan'
  BY <1>4, <1>6, <1>7, InPlanStep
<1>9. k \in DOMAIN closed \cup {0}
  BY <1>1 DEF SameKey
<1>10. FoundIsThere'
  BY <1>2, <1>4, <1>7, <1>9, FoundStep
<1>11. TypeInv'
  BY <1>2, <1>5, <1>8, <1>10 DEF TypeInv, BookTypes
<1> QED
  BY <1>1, <1>2, <1>4, <1>7, <1>11, RebuildStays

LEMMA PutStep ==
    ASSUME TypeInv, NEW r \in Rebuilder, Put(r)
    PROVE  /\ TypeInv' /\ rebuild'[r].pc # "put"
           /\ \A q \in Rebuilder : q # r => rebuild'[q] = rebuild[q]
<1> DEFINE b == rebuild[r]
           new == Done(r)
<1>1. b \in Rebuilding /\ b.i \in DOMAIN b.book.plan /\ b.i \in Nat
      /\ (b.found = 0 \/ b.found \in DOMAIN closed)
  BY DEF TypeInv, BookTypes, InPlan, FoundIsThere, Put, Planned, Rebuilding
<1>2. rebuild' = [rebuild EXCEPT ![r] = new] /\ known' = known
  BY DEF Put
<1>3. new.pc = Onward(r, b.i + 1) /\ new.i = b.i + 1 /\ new.book = b.book
  BY <1>1 DEF Done, Rebuilding
<1>4. new.pc \in {"look", "link"}
  BY <1>3, OnwardIsStep
<1>5. new.pc = "look" => new.i \in DOMAIN new.book.plan
  <2>1. b.i + 1 \in Nat \ {0}
    BY <1>1
  <2> QED
    BY <1>3, <2>1, OnwardInPlan DEF TypeInv, Planned
<1>6. closed' \in Seq(ClosedRow) /\ DOMAIN closed \subseteq DOMAIN closed'
  BY <1>1, PutCloses DEF TypeInv
<1>7. rebuild' \in [Rebuilder -> Rebuilding]
  BY <1>2, PutTyped DEF TypeInv
<1> HIDE DEF new, b
<1>8. InPlan' /\ FoundIsThere'
  BY <1>2, <1>4, <1>5, <1>6, InPlanStep, FoundStep
<1>9. TypeInv'
  BY <1>2, <1>6, <1>7, <1>8 DEF TypeInv, BookTypes
<1> QED
  BY <1>2, <1>4, <1>9, RebuildStays

LEMMA LinkStep ==
    ASSUME TypeInv, LinkClosedPositions
    PROVE  TypeInv' /\ rebuild' = rebuild
<1>1. rebuild' = rebuild /\ known' = known
  BY DEF LinkClosedPositions
<1>2. closed' \in Seq(ClosedRow) /\ DOMAIN closed' = DOMAIN closed
  BY LinkKeepsLives DEF TypeInv
<1> QED
  BY <1>1, <1>2 DEF TypeInv, BookTypes, InPlan, FoundIsThere, Planned

LEMMA ElsewhereStep ==
    ASSUME TypeInv, Elsewhere
    PROVE  TypeInv'
  BY ElsewhereLeaves DEF TypeInv, BookTypes, InPlan, FoundIsThere, Planned

\* A step of the specification is one of these.
LEMMA StepKinds ==
    ASSUME [Next]_vars
    PROVE  \/ Elsewhere \/ LinkClosedPositions
           \/ \E r \in Rebuilder :
                \/ StartRebuild(r) \/ ReadExisting(r) \/ RebuildPosition(r)
                \/ LinkRows(r) \/ RebuildDies(r)
                \/ LookUp(r) \/ Put(r)
  BY DEF Next, Elsewhere, RebuildStep

LEMMA InitInv == Init => TypeInv
<1> SUFFICES ASSUME Init
             PROVE  TypeInv
  OBVIOUS
<1>1. rebuild \in [Rebuilder -> Rebuilding]
  BY IdleTyped DEF Init
<1>2. \A r \in Rebuilder : rebuild[r].pc = "idle"
  BY DEF Init, NotRebuilding
<1>3. known \in SUBSET Activity /\ closed \in Seq(ClosedRow)
  BY DEF Init
<1> QED
  BY <1>1, <1>2, <1>3 DEF TypeInv, BookTypes, InPlan, FoundIsThere

LEMMA StepInv == TypeInv /\ [Next]_vars => TypeInv'
  BY StepKinds, ElsewhereStep, LinkStep, QuietStep, LookStep, PutStep

-----------------------------------------------------------------------------
(* The trade group of a closed position.                                   *)

LEMMA GroupStep ==
    ASSUME TypeInv, GroupOfCloser, [Next]_vars
    PROVE  GroupOfCloser'
<1>1. CASE closed' = closed
  BY <1>1 DEF GroupOfCloser
<1>2. CASE LinkClosedPositions
  BY <1>2, LinkKeepsLives DEF GroupOfCloser, TypeInv
<1>3. ASSUME NEW r \in Rebuilder, Put(r)
      PROVE  GroupOfCloser'
  <2> DEFINE life == Planned(r).plan[rebuild[r].i]
             row == [life |-> life, group |-> 0]
             k == IF rebuild[r].found = 0 THEN Len(closed) + 1 ELSE rebuild[r].found
  <2>1. rebuild[r].found = 0 \/ rebuild[r].found \in DOMAIN closed
    BY <1>3 DEF TypeInv, FoundIsThere, Put
  <2>2. /\ DOMAIN closed' = DOMAIN closed \cup {k} /\ closed'[k] = row
        /\ \A l \in DOMAIN closed \ {k} : closed'[l] = closed[l]
    BY <1>3, <2>1, PutCloses DEF TypeInv
  <2>3. row.group = 0
    OBVIOUS
  <2> HIDE DEF k, row
  <2> QED
    BY <2>2, <2>3 DEF GroupOfCloser
<1> QED
  BY <1>1, <1>2, <1>3, StepKinds, ElsewhereLeaves, QuietStep, LookStep

\* A closed position never carries the group of an order that did not close it,
\* however many rebuilds overlap and whichever rows come late.
THEOREM GroupIsOfCloser == Spec => []GroupOfCloser
<1>1. Init => GroupOfCloser
  BY DEF Init, GroupOfCloser
<1> QED
  BY <1>1, InitInv, StepInv, GroupStep, PTL DEF Spec

-----------------------------------------------------------------------------
(* No lifecycle is inserted twice.  A rebuild during which no other has     *)
(* been in flight is the only one there is, so that what it has looked up   *)
(* still holds when it puts; the rows of others it finds as they left them. *)

LoneInv ==
    /\ lone \in [Rebuilder -> BOOLEAN]
    /\ \A r \in Rebuilder : lone[r] =>
        /\ \A q \in Rebuilder \ {r} : rebuild[q].pc = "idle"
        /\ rebuild[r].pc = "put" => FoundByKey(r)

\* A step that a rebuild takes leaves no other one lone.
LEMMA OwnStepLone ==
    ASSUME TypeInv, LoneInv, NEW r \in Rebuilder, rebuild[r].pc # "idle",
           NEW new, rebuild' = [rebuild EXCEPT ![r] = new],
           lone' \in [Rebuilder -> BOOLEAN], \A q \in Rebuilder : lone'[q] => lone[q],
           lone'[r] /\ new.pc = "put" => FoundByKey(r)'
    PROVE  LoneInv'
<1> SUFFICES ASSUME NEW q \in Rebuilder, lone'[q]
             PROVE  /\ \A o \in Rebuilder \ {q} : rebuild'[o].pc = "idle"
                    /\ rebuild'[q].pc = "put" => FoundByKey(q)'
  BY DEF LoneInv
<1>1. q = r
  BY DEF LoneInv
<1>2. \A o \in Rebuilder \ {r} : rebuild'[o].pc = "idle"
  BY <1>1, RebuildStays DEF LoneInv
<1>3. rebuild'[r] = new
  BY RebuildStays
<1> QED
  BY <1>1, <1>2, <1>3

\* Where the keys of the closed rows stay and the rebuilds too.
LEMMA KeysStay ==
    ASSUME LoneInv, lone' = lone, rebuild' = rebuild, DOMAIN closed' = DOMAIN closed,
           \A k \in DOMAIN closed : closed'[k].life = closed[k].life
    PROVE  LoneInv'
<1>1. \A r \in Rebuilder : FoundByKey(r) => FoundByKey(r)'
  BY DEF FoundByKey, Planned, Key
<1> QED
  BY <1>1 DEF LoneInv

LEMMA LookLone ==
    ASSUME TypeInv, LoneInv, NEW r \in Rebuilder, LookUp(r)
    PROVE  LoneInv'
<1> DEFINE life == Planned(r).plan[rebuild[r].i]
<1>1. closed' = closed /\ Planned(r)'.plan[rebuild'[r].i] = life
  BY LookStep DEF Planned
<1>2. IF SameKey(life) = {} THEN rebuild'[r].found = 0 ELSE rebuild'[r].found \in SameKey(life)
  BY LookStep
<1>3. 0 \notin DOMAIN closed
  BY DEF TypeInv, BookTypes
<1>4. rebuild[r].pc = "look" /\ lone' = lone
  BY DEF LookUp
<1>5. PICK new : rebuild' = [rebuild EXCEPT ![r] = new]
  BY DEF LookUp
<1> HIDE DEF life
<1>6. FoundByKey(r)'
  BY <1>1, <1>2, <1>3 DEF FoundByKey, SameKey, Key
<1>7. lone' \in [Rebuilder -> BOOLEAN] /\ \A q \in Rebuilder : lone'[q] => lone[q]
  BY <1>4 DEF LoneInv
<1> QED
  BY <1>4, <1>5, <1>6, <1>7, OwnStepLone

LEMMA StartLone ==
    ASSUME TypeInv, LoneInv, NEW r \in Rebuilder, StartRebuild(r)
    PROVE  LoneInv'
<1> DEFINE new == [NotRebuilding EXCEPT !.pc = "existing", !.rows = known]
<1>1. /\ rebuild' = [rebuild EXCEPT ![r] = new]
      /\ lone' = [q \in Rebuilder |-> q = r /\ \A o \in Rebuilder : rebuild[o].pc = "idle"]
  BY DEF StartRebuild
<1>2. new.pc = "existing"
  BY DEF NotRebuilding
<1> HIDE DEF new
<1>3. rebuild'[r] = new /\ \A q \in Rebuilder : q # r => rebuild'[q] = rebuild[q]
  BY <1>1, RebuildStays
<1>4. lone' \in [Rebuilder -> BOOLEAN]
  BY <1>1
<1>5. ASSUME NEW q \in Rebuilder, lone'[q]
      PROVE  q = r /\ \A o \in Rebuilder : rebuild[o].pc = "idle"
  BY <1>1, <1>5
<1> QED
  BY <1>2, <1>3, <1>4, <1>5 DEF LoneInv

LEMMA GoOnLone ==
    ASSUME TypeInv, LoneInv, NEW r \in Rebuilder,
           ReadExisting(r) \/ RebuildPosition(r) \/ LinkRows(r) \/ RebuildDies(r)
    PROVE  LoneInv'
<1>1. PICK new : rebuild' = [rebuild EXCEPT ![r] = new] /\ new.pc # "put"
  BY QuietStep
<1>2. rebuild[r].pc # "idle" /\ (lone' = lone \/ lone' = [lone EXCEPT ![r] = FALSE])
  BY DEF ReadExisting, RebuildPosition, LinkRows, RebuildDies
<1>3. lone' \in [Rebuilder -> BOOLEAN] /\ \A q \in Rebuilder : lone'[q] => lone[q]
  BY <1>2 DEF LoneInv
<1> QED
  BY <1>1, <1>2, <1>3, OwnStepLone

LEMMA PutLone ==
    ASSUME TypeInv, LoneInv, NEW r \in Rebuilder, Put(r)
    PROVE  LoneInv'
<1>1. rebuild[r].pc = "put" /\ lone' = lone /\ rebuild' = [rebuild EXCEPT ![r] = Done(r)]
  BY DEF Put
<1>2. Done(r).pc # "put"
  BY <1>1, PutStep, RebuildStays
<1>3. lone' \in [Rebuilder -> BOOLEAN] /\ \A q \in Rebuilder : lone'[q] => lone[q]
  BY <1>1 DEF LoneInv
<1> QED
  BY <1>1, <1>2, <1>3, OwnStepLone

LEMMA LoneStep ==
    ASSUME TypeInv, LoneInv, [Next]_vars
    PROVE  LoneInv'
<1>1. CASE Elsewhere
  <2>1. lone' = lone
    BY <1>1 DEF Elsewhere, Execute, SyncRow, Write, FetchPosition, ReceivePosition,
                ReadPosition, RemapReads, WritePosition, vars
  <2> QED
    BY <1>1, <2>1, ElsewhereLeaves, KeysStay
<1>2. CASE LinkClosedPositions
  <2>1. lone' = lone
    BY <1>2 DEF LinkClosedPositions
  <2> QED
    BY <1>2, <2>1, LinkStep, LinkKeepsLives, KeysStay DEF TypeInv
<1> QED
  BY <1>1, <1>2, LookLone, StartLone, GoOnLone, PutLone, StepKinds

\* A new row of a rebuild that no other has overlapped is of a new lifecycle.
LEMMA InsertedIsNew ==
    ASSUME TypeInv, LoneInv, [Next]_vars,
           \A r \in Rebuilder : rebuild[r].pc # "idle" => lone[r],
           NEW k \in DOMAIN closed' \ DOMAIN closed, NEW l \in DOMAIN closed
    PROVE  Key(closed'[k].life) # Key(closed[l].life)
<1>1. PICK r \in Rebuilder : Put(r)
  <2>1. CASE LinkClosedPositions
    BY <2>1, LinkKeepsLives DEF TypeInv
  <2> QED
    BY <2>1, StepKinds, ElsewhereLeaves, QuietStep, LookStep
<1> DEFINE life == Planned(r).plan[rebuild[r].i]
           row == [life |-> life, group |-> 0]
<1>2. rebuild[r].pc = "put"
  BY <1>1 DEF Put
<1>3. FoundByKey(r)
  BY <1>2 DEF LoneInv
<1>4. rebuild[r].found = 0 \/ rebuild[r].found \in DOMAIN closed
  BY <1>2 DEF TypeInv, FoundIsThere
<1> DEFINE put == IF rebuild[r].found = 0 THEN Len(closed) + 1 ELSE rebuild[r].found
<1>5. DOMAIN closed' = DOMAIN closed \cup {put} /\ closed'[put] = row
  BY <1>1, <1>4, PutCloses DEF TypeInv
<1>6. rebuild[r].found = 0 /\ closed'[k] = row
  <2> HIDE DEF row
  <2> QED
    BY <1>4, <1>5
<1>7. row.life = life
  OBVIOUS
<1> HIDE DEF row
<1> QED
  BY <1>3, <1>6, <1>7 DEF FoundByKey

\* Whatever overlapping rebuilds, dead ones and rows that came late have left: while
\* no rebuilds overlap, no lifecycle that has a closed row is given another one.
THEOREM LifecycleClosedOnce == Spec => ClosedOnce
<1>1. Init => LoneInv
  BY DEF Init, LoneInv
<1>2. TypeInv /\ LoneInv /\ [Next]_vars => LoneInv'
  BY LoneStep
<1>3. TypeInv /\ LoneInv /\ [Next]_vars =>
        [(\A r \in Rebuilder : rebuild[r].pc # "idle" => lone[r]) =>
            \A k \in DOMAIN closed' \ DOMAIN closed, l \in DOMAIN closed :
                Key(closed'[k].life) # Key(closed[l].life)]_vars
  BY InsertedIsNew
<1> QED
  BY <1>1, <1>2, <1>3, InitInv, StepInv, PTL DEF Spec, ClosedOnce

-----------------------------------------------------------------------------
(* A rebuild that nobody disturbs leaves the replay of the rows behind.  A *)
(* calm rebuild has read every row there is; what it has written so far    *)
(* stays as it wrote it, and what it overwrites is either a row of another *)
(* replay or the very lifecycle it writes.                                 *)

HeldAs(book) == position.net = book.lot.net /\ position.since = book.lot.since

\* The closed row k is that of the lifecycle.
Shows(k, life) == k \in DOMAIN closed /\ closed[k].life = life

\* The first n lifecycles have been put where the rebuild remembers them.
PutSoFar(r, n) ==
    /\ Len(rebuild[r].ids) = n
    /\ \A m \in 1 .. n : Shows(rebuild[r].ids[m], Planned(r).plan[m])

CalmRebuild(r) ==
    LET b == rebuild[r] IN
    /\ b.rows = known
    /\ b.pc \in {"existing", "position"} => b.ids = <<>>
    /\ b.pc # "existing" => b.book = Replay[known]
    /\ b.pc \in {"look", "put", "link"} =>
        /\ HeldAs(Replay[known])
        /\ b.i \in 1 .. Len(Replay[known].plan) + 1
        /\ PutSoFar(r, b.i - 1)
    /\ b.pc = "put" /\ b.found # 0 =>
        Key(closed[b.found].life) = Key(Replay[known].plan[b.i])
    /\ b.pc = "link" => b.i = Len(Replay[known].plan) + 1

\* What a row of the contract is linked to.
Linked(t) ==
    LET plan == Replay[known].plan IN
    /\ links[t].open <=> t \in Replay[known].marks
    /\ links[t].closed # 0 <=> \E i \in DOMAIN plan : plan[i].by = t
    /\ links[t].closed # 0 =>
        \E i \in DOMAIN plan : plan[i].by = t /\ Shows(links[t].closed, plan[i])

FreshRows ==
    /\ HeldAs(Replay[known])
    /\ \A i \in DOMAIN Replay[known].plan :
        \E k \in DOMAIN closed : Shows(k, Replay[known].plan[i])
    /\ \A t \in Ours \cap known : Linked(t)

CalmInv ==
    /\ calm \in [Rebuilder -> BOOLEAN]
    /\ \A r \in Rebuilder : calm[r] /\ rebuild[r].pc # "idle" => CalmRebuild(r)
    /\ fresh => FreshRows


\* Somebody else has written.
LEMMA DisturbedCalm ==
    ASSUME Disturbs
    PROVE  CalmInv'
  BY DEF Disturbs, CalmInv

\* What a calm rebuild relies on is left alone, the lives of the closed rows included.
LEMMA CalmRebuildStays ==
    ASSUME CalmInv, NEW r \in Rebuilder, calm[r], rebuild[r].pc # "idle",
           known' = known, position' = position, rebuild'[r] = rebuild[r],
           DOMAIN closed' = DOMAIN closed,
           \A k \in DOMAIN closed : closed'[k].life = closed[k].life,
           rebuild[r].pc = "put" => rebuild[r].found \in DOMAIN closed \cup {0}
    PROVE  CalmRebuild(r)'
<1>1. CalmRebuild(r)
  BY DEF CalmInv
<1>2. \A k, life : Shows(k, life) => Shows(k, life)'
  BY DEF Shows
<1>3. \A n : PutSoFar(r, n) => PutSoFar(r, n)'
  BY <1>2 DEF PutSoFar, Planned, Shows
<1> QED
  BY <1>1, <1>3 DEF CalmRebuild, HeldAs, Key

LEMMA FreshRowsStay ==
    ASSUME FreshRows, known' = known, position' = position, links' = links,
           DOMAIN closed' = DOMAIN closed,
           \A k \in DOMAIN closed : closed'[k].life = closed[k].life
    PROVE  FreshRows'
<1>1. \A k, life : Shows(k, life)' <=> Shows(k, life)
  BY DEF Shows
<1> QED
  BY <1>1 DEF FreshRows, Linked, HeldAs, Shows


\* A step of one rebuild that writes nothing.
LEMMA OwnStepCalm ==
    ASSUME TypeInv, CalmInv, NEW r \in Rebuilder,
           known' = known, position' = position, closed' = closed, links' = links,
           fresh' = fresh, calm' \in [Rebuilder -> BOOLEAN],
           \A q \in Rebuilder : q # r => calm'[q] = calm[q] /\ rebuild'[q] = rebuild[q],
           calm'[r] /\ rebuild'[r].pc # "idle" => CalmRebuild(r)'
    PROVE  CalmInv'
<1>1. \A q \in Rebuilder : calm'[q] /\ rebuild'[q].pc # "idle" => CalmRebuild(q)'
  <2> SUFFICES ASSUME NEW q \in Rebuilder, calm'[q], rebuild'[q].pc # "idle"
               PROVE  CalmRebuild(q)'
    OBVIOUS
  <2>1. CASE q = r
    BY <2>1
  <2>2. CASE q # r
    <3>1. rebuild[q].pc = "put" => rebuild[q].found \in DOMAIN closed \cup {0}
      BY DEF TypeInv, FoundIsThere
    <3> QED
      BY <2>2, <3>1, CalmRebuildStays
  <2> QED
    BY <2>1, <2>2
<1>2. fresh' => FreshRows'
  BY FreshRowsStay DEF CalmInv
<1> QED
  BY <1>1, <1>2 DEF CalmInv

\* A step of one rebuild that writes: the others are calm no longer.
LEMMA WriteStepCalm ==
    ASSUME CalmInv, NEW r \in Rebuilder, Others(r),
           calm[r] => CalmRebuild(r)',
           fresh /\ calm[r] => FreshRows'
    PROVE  CalmInv'
  BY DEF Others, CalmInv

LEMMA StartCalm ==
    ASSUME TypeInv, CalmInv, NEW r \in Rebuilder, StartRebuild(r)
    PROVE  CalmInv'
<1> DEFINE new == [NotRebuilding EXCEPT !.pc = "existing", !.rows = known]
<1>1. /\ known' = known /\ position' = position /\ closed' = closed /\ links' = links
      /\ fresh' = fresh /\ rebuild' = [rebuild EXCEPT ![r] = new]
  BY DEF StartRebuild, stored
<1>2. new.pc = "existing" /\ new.rows = known /\ new.ids = <<>>
  BY DEF NotRebuilding
<1> HIDE DEF new
<1>3. rebuild'[r] = new /\ \A q \in Rebuilder : q # r => rebuild'[q] = rebuild[q]
  BY <1>1, RebuildStays
<1>4. /\ calm' \in [Rebuilder -> BOOLEAN]
      /\ \A q \in Rebuilder : q # r => calm'[q] = calm[q]
  BY DEF StartRebuild, CalmInv
<1>5. CalmRebuild(r)'
  BY <1>1, <1>2, <1>3 DEF CalmRebuild
<1> QED
  BY <1>1, <1>3, <1>4, <1>5, OwnStepCalm

LEMMA ReadCalm ==
    ASSUME TypeInv, CalmInv, NEW r \in Rebuilder, ReadExisting(r)
    PROVE  CalmInv'
<1> DEFINE owned == position # None /\ position.owned
           new == [rebuild[r] EXCEPT !.pc = "position", !.book = Replay[rebuild[r].rows],
                                     !.owned = owned]
<1>1. /\ known' = known /\ position' = position /\ closed' = closed /\ links' = links
      /\ fresh' = fresh /\ calm' = calm /\ rebuild' = [rebuild EXCEPT ![r] = new]
      /\ rebuild[r].pc = "existing"
  BY DEF ReadExisting, stored
<1>2. /\ new.pc = "position" /\ new.rows = rebuild[r].rows /\ new.ids = rebuild[r].ids
      /\ new.book = Replay[rebuild[r].rows]
  BY DEF TypeInv, BookTypes, Rebuilding
<1> HIDE DEF new
<1>3. rebuild'[r] = new /\ \A q \in Rebuilder : q # r => rebuild'[q] = rebuild[q]
  BY <1>1, RebuildStays
<1>4. ASSUME calm[r]
      PROVE  CalmRebuild(r)'
  BY <1>1, <1>2, <1>3, <1>4 DEF CalmInv, CalmRebuild
<1> QED
  BY <1>1, <1>3, <1>4, OwnStepCalm DEF CalmInv

LEMMA LookCalm ==
    ASSUME TypeInv, CalmInv, NEW r \in Rebuilder, LookUp(r)
    PROVE  CalmInv'
<1>1. PICK k \in 0 .. Len(closed) :
        /\ IF SameKey(Planned(r).plan[rebuild[r].i]) = {} THEN k = 0
           ELSE k \in SameKey(Planned(r).plan[rebuild[r].i])
        /\ rebuild' = [rebuild EXCEPT ![r] = [rebuild[r] EXCEPT !.pc = "put", !.found = k]]
  BY DEF LookUp
<1> DEFINE new == [rebuild[r] EXCEPT !.pc = "put", !.found = k]
<1>2. /\ known' = known /\ position' = position /\ closed' = closed /\ links' = links
      /\ fresh' = fresh /\ calm' = calm /\ rebuild' = [rebuild EXCEPT ![r] = new]
      /\ rebuild[r].pc = "look"
  BY <1>1 DEF LookUp, stored
<1>3. /\ new.pc = "put" /\ new.rows = rebuild[r].rows /\ new.ids = rebuild[r].ids
      /\ new.book = rebuild[r].book /\ new.i = rebuild[r].i /\ new.found = k
  BY DEF TypeInv, BookTypes, Rebuilding
<1> HIDE DEF new
<1>4. rebuild'[r] = new /\ \A q \in Rebuilder : q # r => rebuild'[q] = rebuild[q]
  BY <1>2, RebuildStays
<1>5. ASSUME calm[r]
      PROVE  CalmRebuild(r)'
  <2>1. CalmRebuild(r) /\ Planned(r) = Replay[known]
    BY <1>2, <1>5 DEF CalmInv, CalmRebuild, Planned
  <2>2. k # 0 => Key(closed[k].life) = Key(Replay[known].plan[rebuild[r].i])
    BY <1>1, <2>1 DEF SameKey
  <2>3. /\ rebuild'[r].ids = rebuild[r].ids /\ rebuild'[r].book = rebuild[r].book
        /\ rebuild'[r].i = rebuild[r].i /\ rebuild'[r].rows = rebuild[r].rows
        /\ rebuild'[r].pc = "put" /\ rebuild'[r].found = k
    BY <1>3, <1>4
  <2>4. PutSoFar(r, rebuild[r].i - 1)
    BY <1>2, <2>1 DEF CalmRebuild
  <2>5. PutSoFar(r, rebuild[r].i - 1)'
    BY <1>2, <2>3, <2>4 DEF PutSoFar, Planned, Shows
  <2>6. rebuild[r].i \in 1 .. Len(Replay[known].plan) + 1 /\ HeldAs(Replay[known])
        /\ rebuild[r].rows = known /\ rebuild[r].book = Replay[known]
    BY <1>2, <2>1 DEF CalmRebuild
  <2>7. HeldAs(Replay[known])'
    BY <1>2, <2>6 DEF HeldAs
  <2> QED
    BY <1>2, <2>2, <2>3, <2>5, <2>6, <2>7 DEF CalmRebuild, Key
<1> QED
  BY <1>2, <1>4, <1>5, OwnStepCalm DEF CalmInv

LEMMA DeadCalm ==
    ASSUME TypeInv, CalmInv, NEW r \in Rebuilder, RebuildDies(r)
    PROVE  CalmInv'
<1>1. /\ known' = known /\ position' = position /\ closed' = closed /\ links' = links
      /\ fresh' = fresh /\ rebuild' = [rebuild EXCEPT ![r] = NotRebuilding]
      /\ calm' = [calm EXCEPT ![r] = FALSE]
  BY DEF RebuildDies, stored
<1>2. \A q \in Rebuilder : q # r => rebuild'[q] = rebuild[q]
  BY <1>1, RebuildStays
<1>3. /\ calm' \in [Rebuilder -> BOOLEAN] /\ ~calm'[r]
      /\ \A q \in Rebuilder : q # r => calm'[q] = calm[q]
  BY <1>1 DEF CalmInv
<1> QED
  BY <1>1, <1>2, <1>3, OwnStepCalm


\* The position row is written as the replay has it.
LEMMA PositionCalm ==
    ASSUME TypeInv, CalmInv, NEW r \in Rebuilder, RebuildPosition(r)
    PROVE  CalmInv'
<1> DEFINE new == [rebuild[r] EXCEPT !.pc = Onward(r, 1)]
<1>1. /\ known' = known /\ closed' = closed /\ links' = links /\ Others(r)
      /\ rebuild[r].pc = "position" /\ rebuild[r].i = 1
      /\ position'.net = Planned(r).lot.net /\ position'.since = Planned(r).lot.since
  BY DEF RebuildPosition, TypeInv, InPlan
<1>2. rebuild'[r] = new
  BY DEF RebuildPosition, TypeInv, BookTypes
<1>3. /\ new.pc = Onward(r, 1) /\ new.rows = rebuild[r].rows /\ new.ids = rebuild[r].ids
      /\ new.book = rebuild[r].book /\ new.i = 1
  BY <1>1 DEF TypeInv, BookTypes, Rebuilding
<1> HIDE DEF new
<1>4. ASSUME calm[r]
      PROVE  CalmRebuild(r) /\ Planned(r) = Replay[known] /\ HeldAs(Replay[known])'
  <2>1. CalmRebuild(r)
    BY <1>1, <1>4 DEF CalmInv
  <2>2. Planned(r) = Replay[known]
    BY <1>1, <2>1 DEF CalmRebuild, Planned
  <2> QED
    BY <1>1, <2>1, <2>2 DEF HeldAs
<1>5. ASSUME calm[r]
      PROVE  CalmRebuild(r)'
  <2>1. rebuild[r].ids = <<>> /\ rebuild[r].rows = known /\ rebuild[r].book = Replay[known]
    BY <1>1, <1>4, <1>5 DEF CalmRebuild
  <2>2. /\ rebuild'[r].ids = <<>> /\ rebuild'[r].rows = known' /\ rebuild'[r].book = Replay[known']
        /\ rebuild'[r].i = 1 /\ rebuild'[r].pc = Onward(r, 1)
    BY <1>1, <1>2, <1>3, <2>1
  <2>3. Len(Replay[known].plan) \in Nat
    BY PositionAssumption DEF TypeInv, BookTypes, Result
  <2>4. \/ Onward(r, 1) = "look"
        \/ Onward(r, 1) = "link" /\ Len(Replay[known].plan) = 0
    BY <1>4, <1>5, <2>3 DEF Onward
  <2>5. PutSoFar(r, rebuild[r].i - 1)'
    BY <2>2 DEF PutSoFar
  <2>6. HeldAs(Replay[known])'
    BY <1>4, <1>5
  <2>7. rebuild'[r].i \in 1 .. Len(Replay[known'].plan) + 1
    BY <1>1, <2>2, <2>3
  <2> QED
    BY <1>1, <2>2, <2>4, <2>5, <2>6, <2>7 DEF CalmRebuild
<1>6. ASSUME fresh, calm[r]
      PROVE  FreshRows'
  <2>1. FreshRows
    BY <1>6 DEF CalmInv
  <2>2. \A k, life : Shows(k, life)' <=> Shows(k, life)
    BY <1>1 DEF Shows
  <2> QED
    BY <1>1, <1>4, <1>6, <2>1, <2>2 DEF FreshRows, Linked, Shows
<1> QED
  BY <1>1, <1>5, <1>6, WriteStepCalm


\* A calm rebuild overwrites nothing that the replay of the rows holds.
LEMMA PutKeepsReplay ==
    ASSUME KeysApart, TypeInv, CalmInv, NEW r \in Rebuilder, Put(r), calm[r]
    PROVE  LET plan == Replay[known].plan
               k    == IF rebuild[r].found = 0 THEN Len(closed) + 1 ELSE rebuild[r].found
           IN  /\ k \in DOMAIN closed' /\ closed'[k].life = plan[rebuild[r].i]
               /\ \A j \in DOMAIN plan, l \in DOMAIN closed :
                    closed[l].life = plan[j] => l \in DOMAIN closed' /\ closed'[l].life = plan[j]
<1> DEFINE plan == Replay[known].plan
           life == plan[rebuild[r].i]
           row == [life |-> life, group |-> 0]
           found == rebuild[r].found
           k == IF found = 0 THEN Len(closed) + 1 ELSE found
<1>1. rebuild[r].pc = "put" /\ known' = known
  BY DEF Put
<1>2. CalmRebuild(r) /\ Planned(r) = Replay[known]
  BY <1>1 DEF CalmInv, CalmRebuild, Planned
<1>3. found # 0 => Key(closed[found].life) = Key(life)
  BY <1>1, <1>2 DEF CalmRebuild
<1>4. found = 0 \/ found \in DOMAIN closed
  BY <1>1 DEF TypeInv, FoundIsThere
<1>5. /\ DOMAIN closed' = DOMAIN closed \cup {k} /\ closed'[k] = row
      /\ \A l \in DOMAIN closed \ {k} : closed'[l] = closed[l]
  BY <1>2, <1>4, PutCloses DEF TypeInv
<1>6. row.life = life
  OBVIOUS
<1>7. rebuild[r].i \in DOMAIN plan
  BY <1>1, <1>2 DEF TypeInv, InPlan
<1>8. known \in SUBSET Activity /\ DOMAIN closed = 1 .. Len(closed) /\ Len(closed) \in Nat
  BY DEF TypeInv, BookTypes
<1>9. \A j \in DOMAIN plan : Key(plan[j]) = Key(life) => plan[j] = life
  BY <1>7, <1>8 DEF KeysApart
<1>10. k \in DOMAIN closed => k = found /\ found # 0
  BY <1>8
<1> HIDE DEF plan, life, row, found, k
<1>11. DOMAIN closed' = DOMAIN closed \cup {k} /\ closed'[k].life = life
  BY <1>5, <1>6
<1>12. ASSUME NEW j \in DOMAIN plan, NEW l \in DOMAIN closed, closed[l].life = plan[j]
       PROVE  closed'[l].life = plan[j]
  <2>1. CASE l = k
    <3>1. Key(plan[j]) = Key(life)
      BY <1>3, <1>10, <1>12, <2>1
    <3> QED
      BY <1>9, <1>11, <2>1, <3>1
  <2>2. CASE l # k
    BY <1>5, <1>12, <2>2
  <2> QED
    BY <2>1, <2>2
<1> QED
  BY <1>11, <1>12 DEF plan, life, k, found


\* The lifecycle that was put is remembered, and those before it still show.
LEMMA PutSoFarGrows ==
    ASSUME KeysApart, TypeInv, CalmInv, NEW r \in Rebuilder, Put(r), calm[r]
    PROVE  /\ rebuild'[r].i = rebuild[r].i + 1 /\ rebuild'[r].pc = Onward(r, rebuild[r].i + 1)
           /\ rebuild'[r].rows = known /\ rebuild'[r].book = Replay[known]
           /\ Len(rebuild'[r].ids) = rebuild[r].i
           /\ \A m \in 1 .. rebuild[r].i :
                Shows(rebuild[r].ids[m], Planned(r).plan[m])'
<1> DEFINE b == rebuild[r]
           plan == Replay[known].plan
           k == IF b.found = 0 THEN Len(closed) + 1 ELSE b.found
<1>1. b.pc = "put" /\ known' = known /\ rebuild' = [rebuild EXCEPT ![r] = Done(r)]
  BY DEF Put
<1>2. CalmRebuild(r)
  BY <1>1 DEF CalmInv
<1>3. b.rows = known /\ b.book = Replay[known] /\ PutSoFar(r, b.i - 1) /\ Planned(r) = Replay[known]
  BY <1>1, <1>2 DEF CalmRebuild, Planned
<1>4. b \in Rebuilding /\ b.i \in Nat /\ b.i \in DOMAIN plan /\ b.ids \in Seq(Nat)
  BY <1>1, <1>3 DEF TypeInv, BookTypes, InPlan, Rebuilding
<1>5. rebuild'[r] = Done(r)
  BY <1>1, RebuildStays
<1>6. /\ Done(r).i = b.i + 1 /\ Done(r).pc = Onward(r, b.i + 1) /\ Done(r).rows = b.rows
      /\ Done(r).book = b.book /\ Done(r).ids = Append(b.ids, k)
  BY <1>4 DEF Done, Rebuilding
<1>7. /\ k \in DOMAIN closed' /\ closed'[k].life = plan[b.i]
      /\ \A j \in DOMAIN plan, l \in DOMAIN closed :
            closed[l].life = plan[j] => l \in DOMAIN closed' /\ closed'[l].life = plan[j]
  BY PutKeepsReplay
<1>8. /\ Len(b.ids) = b.i - 1
      /\ \A m \in 1 .. b.i - 1 : b.ids[m] \in DOMAIN closed /\ closed[b.ids[m]].life = plan[m]
  BY <1>3 DEF PutSoFar, Shows
<1>9. plan \in Seq(Life)
  BY PositionAssumption DEF TypeInv, BookTypes, Result
<1>10. Len(plan) \in Nat /\ DOMAIN plan = 1 .. Len(plan)
  BY <1>9
<1>11. k \in Nat
  BY <1>4 DEF Rebuilding, TypeInv, BookTypes
<1>12. rebuild'[r].ids = Append(b.ids, k) /\ rebuild'[r].book = Replay[known]
       /\ rebuild'[r].i = b.i + 1 /\ rebuild'[r].pc = Onward(r, b.i + 1)
       /\ rebuild'[r].rows = known
  BY <1>3, <1>5, <1>6
<1> HIDE DEF b, plan, k
<1>13. /\ Len(Append(b.ids, k)) = b.i
       /\ \A m \in 1 .. b.i : Append(b.ids, k)[m] = IF m = b.i THEN k ELSE b.ids[m]
  BY <1>4, <1>8, <1>11
<1>14. ASSUME NEW m \in 1 .. b.i
       PROVE  Append(b.ids, k)[m] \in DOMAIN closed' /\ closed'[Append(b.ids, k)[m]].life = plan[m]
  <2>1. CASE m = b.i
    BY <1>7, <1>13, <2>1
  <2>2. CASE m # b.i
    <3>1. m \in 1 .. b.i - 1 /\ m \in DOMAIN plan
      BY <1>4, <1>10, <2>2
    <3>2. Append(b.ids, k)[m] = b.ids[m]
      BY <1>13, <2>2
    <3>3. b.ids[m] \in DOMAIN closed /\ closed[b.ids[m]].life = plan[m]
      BY <1>8, <3>1
    <3> QED
      BY <1>7, <3>1, <3>2, <3>3
  <2> QED
    BY <2>1, <2>2
<1>15. Planned(r)'.plan = plan
  BY <1>12 DEF Planned, plan
<1> QED
  BY <1>12, <1>13, <1>14, <1>15 DEF Shows, b

\* A lifecycle is put.
LEMMA PutCalm ==
    ASSUME KeysApart, TypeInv, CalmInv, NEW r \in Rebuilder, Put(r)
    PROVE  CalmInv'
<1> DEFINE plan == Replay[known].plan
           i == rebuild[r].i
<1>1. /\ rebuild[r].pc = "put" /\ known' = known /\ position' = position /\ links' = links
      /\ Others(r)
  BY DEF Put
<1>2. plan \in Seq(Life)
  BY PositionAssumption DEF TypeInv, BookTypes, Result
<1>3. Len(plan) \in Nat /\ DOMAIN plan = 1 .. Len(plan)
  BY <1>2
<1>4. ASSUME calm[r]
      PROVE  CalmRebuild(r)'
  <2>1. /\ rebuild'[r].i = i + 1 /\ rebuild'[r].pc = Onward(r, i + 1)
        /\ rebuild'[r].rows = known /\ rebuild'[r].book = Replay[known]
        /\ Len(rebuild'[r].ids) = i
        /\ \A m \in 1 .. i : Shows(rebuild[r].ids[m], Planned(r).plan[m])'
    BY <1>4, PutSoFarGrows
  <2>2. CalmRebuild(r)
    BY <1>1, <1>4 DEF CalmInv
  <2>3. HeldAs(Replay[known])' /\ Planned(r) = Replay[known]
    BY <1>1, <2>2 DEF CalmRebuild, HeldAs, Planned
  <2>4. i \in 1 .. Len(plan)
    BY <1>1, <1>3, <2>3 DEF TypeInv, InPlan
  <2>5. (rebuild[r].i - 1)' = i
    BY <2>1, <2>4
  <2>6. PutSoFar(r, rebuild[r].i - 1)'
    BY <2>1, <2>5 DEF PutSoFar
  <2>7. \/ Onward(r, i + 1) = "look"
        \/ Onward(r, i + 1) = "link" /\ i + 1 = Len(plan) + 1
    BY <1>3, <2>3, <2>4 DEF Onward
  <2>8. rebuild'[r].i \in 1 .. Len(Replay[known'].plan) + 1
    BY <1>1, <1>3, <2>1, <2>4
  <2> QED
    BY <1>1, <2>1, <2>3, <2>6, <2>7, <2>8 DEF CalmRebuild
<1>5. ASSUME fresh, calm[r]
      PROVE  FreshRows'
  <2>1. FreshRows
    BY <1>5 DEF CalmInv
  <2>2. \A j \in DOMAIN plan, l \in DOMAIN closed :
            closed[l].life = plan[j] => l \in DOMAIN closed' /\ closed'[l].life = plan[j]
    BY <1>5, PutKeepsReplay
  <2>3. HeldAs(Replay[known])'
    BY <1>1, <2>1 DEF FreshRows, HeldAs
  <2>4. \A j \in DOMAIN plan : \E l \in DOMAIN closed' : closed'[l].life = plan[j]
    BY <2>1, <2>2 DEF FreshRows, Shows
  <2>5. ASSUME NEW t \in Ours \cap known
        PROVE  Linked(t)'
    BY <1>1, <2>1, <2>2, <2>5 DEF FreshRows, Linked, Shows
  <2> QED
    BY <1>1, <2>3, <2>4, <2>5 DEF FreshRows, Shows
<1> QED
  BY <1>1, <1>4, <1>5, WriteStepCalm

\* The rows are linked: the rebuild has put its whole plan.
LEMMA LinkCalm ==
    ASSUME TypeInv, CalmInv, NEW r \in Rebuilder, LinkRows(r)
    PROVE  CalmInv'
<1> DEFINE plan == Replay[known].plan
           marks == Replay[known].marks
<1>1. /\ known' = known /\ position' = position /\ closed' = closed
      /\ calm' = [q \in Rebuilder |-> FALSE] /\ fresh' = calm[r]
      /\ rebuild[r].pc = "link"
  BY DEF LinkRows
<1>2. ASSUME calm[r]
      PROVE  FreshRows'
  <2>1. CalmRebuild(r)
    BY <1>1, <1>2 DEF CalmInv
  <2>2. /\ rebuild[r].rows = known /\ Planned(r) = Replay[known] /\ HeldAs(Replay[known])
        /\ PutSoFar(r, rebuild[r].i - 1) /\ rebuild[r].i = Len(plan) + 1
    BY <1>1, <2>1 DEF CalmRebuild, Planned
  <2>3. plan \in Seq(Life)
    BY PositionAssumption DEF TypeInv, BookTypes, Result
  <2>4. Len(plan) \in Nat /\ DOMAIN plan = 1 .. Len(plan)
    BY <2>3
  <2>5. rebuild[r].i - 1 = Len(plan)
    BY <2>2, <2>4
  <2>6. \A m \in DOMAIN plan : Shows(rebuild[r].ids[m], plan[m])
    BY <2>2, <2>4, <2>5 DEF PutSoFar
  <2>7. \A m \in DOMAIN plan : rebuild[r].ids[m] # 0
    BY <2>6 DEF Shows, TypeInv, BookTypes
  <2>8. ASSUME NEW t \in Ours \cap known
        PROVE  Linked(t)'
    <3> DEFINE closers == {m \in DOMAIN plan : plan[m].by = t}
    <3>1. t \in Activity
      BY <2>8 DEF TypeInv, BookTypes
    <3> DEFINE marked == t \in marks
               id == ClosedId(r, t)
    <3>2. links'[t] = [open |-> marked, closed |-> id]
      BY <2>2, <2>8, <3>1 DEF LinkRows
    <3> HIDE DEF marked, id
    <3>3. links'[t].open = marked /\ links'[t].closed = id
      BY <3>2
    <3>4. links'[t].open <=> t \in marks
      BY <3>3 DEF marked
    <3>5. CASE closers = {}
      <4>1. id = 0
        BY <2>2, <3>5 DEF ClosedId, id
      <4> QED
        BY <1>1, <3>5, <3>3, <3>4, <4>1 DEF Linked
    <3>6. CASE closers # {}
      <4> DEFINE m == CHOOSE j \in DOMAIN plan : plan[j].by = t
      <4>1. m \in DOMAIN plan /\ plan[m].by = t
        BY <3>6
      <4>2. id = rebuild[r].ids[m]
        BY <2>2, <3>6 DEF ClosedId, id
      <4> HIDE DEF m
      <4>3. links'[t].closed # 0 /\ Shows(links'[t].closed, plan[m])
        BY <2>6, <2>7, <3>3, <4>1, <4>2
      <4> QED
        BY <1>1, <3>4, <4>1, <4>3 DEF Linked, Shows
    <3> QED
      BY <3>5, <3>6
  <2>9. \A j \in DOMAIN plan : \E k \in DOMAIN closed : Shows(k, plan[j])
    BY <2>6 DEF Shows
  <2> QED
    BY <1>1, <2>2, <2>8, <2>9 DEF FreshRows, HeldAs, Shows
<1> QED
  BY <1>1, <1>2 DEF CalmInv


\* Rows that arrive and other writers: they either write nothing or disturb.
LEMMA ElsewhereCalm ==
    ASSUME TypeInv, CalmInv, Elsewhere
    PROVE  CalmInv'
<1>1. CASE Disturbs
  BY <1>1, DisturbedCalm
<1>2. CASE /\ known' = known /\ position' = position /\ closed' = closed /\ links' = links
           /\ rebuild' = rebuild /\ calm' = calm /\ fresh' = fresh
  <2>1. \A r \in Rebuilder : calm'[r] /\ rebuild'[r].pc # "idle" => CalmRebuild(r)'
    <3> SUFFICES ASSUME NEW r \in Rebuilder, calm'[r], rebuild'[r].pc # "idle"
                 PROVE  CalmRebuild(r)'
      OBVIOUS
    <3>1. rebuild[r].pc = "put" => rebuild[r].found \in DOMAIN closed \cup {0}
      BY DEF TypeInv, FoundIsThere
    <3> QED
      BY <1>2, <3>1, CalmRebuildStays
  <2>2. fresh' => FreshRows'
    BY <1>2, FreshRowsStay DEF CalmInv
  <2> QED
    BY <1>2, <2>1, <2>2 DEF CalmInv
<1>3. \/ Disturbs
      \/ /\ known' = known /\ position' = position /\ closed' = closed /\ links' = links
         /\ rebuild' = rebuild /\ calm' = calm /\ fresh' = fresh
  <2>1. CASE Execute
    BY <2>1 DEF Execute, stored
  <2>2. CASE \E t \in Activity : SyncRow(t)
    BY <2>2 DEF SyncRow
  <2>3. CASE \E w \in Writer : Write(w)
    BY <2>3 DEF Write, FetchPosition, ReceivePosition, ReadPosition, RemapReads,
                WritePosition, stored
  <2>4. CASE UNCHANGED vars
    BY <2>4 DEF vars, stored
  <2> QED
    BY <2>1, <2>2, <2>3, <2>4 DEF Elsewhere
<1> QED
  BY <1>1, <1>2, <1>3

\* The reconcile pass gives groups; no rebuild notices.
LEMMA GroupsCalm ==
    ASSUME TypeInv, CalmInv, LinkClosedPositions
    PROVE  CalmInv'
<1>1. /\ known' = known /\ position' = position /\ links' = links
      /\ rebuild' = rebuild /\ calm' = calm /\ fresh' = fresh
  BY DEF LinkClosedPositions
<1>2. /\ DOMAIN closed' = DOMAIN closed
      /\ \A k \in DOMAIN closed : closed'[k].life = closed[k].life
  BY LinkKeepsLives DEF TypeInv
<1>3. \A r \in Rebuilder : calm'[r] /\ rebuild'[r].pc # "idle" => CalmRebuild(r)'
  <2> SUFFICES ASSUME NEW r \in Rebuilder, calm'[r], rebuild'[r].pc # "idle"
               PROVE  CalmRebuild(r)'
    OBVIOUS
  <2>1. rebuild[r].pc = "put" => rebuild[r].found \in DOMAIN closed \cup {0}
    BY DEF TypeInv, FoundIsThere
  <2> QED
    BY <1>1, <1>2, <2>1, CalmRebuildStays
<1>4. fresh' => FreshRows'
  BY <1>1, <1>2, FreshRowsStay DEF CalmInv
<1> QED
  BY <1>1, <1>3, <1>4 DEF CalmInv

LEMMA CalmStep ==
    ASSUME KeysApart, TypeInv, CalmInv, [Next]_vars
    PROVE  CalmInv'
  BY StepKinds, ElsewhereCalm, GroupsCalm, StartCalm, ReadCalm, PositionCalm, LookCalm,
     PutCalm, LinkCalm, DeadCalm

\* After a rebuild during which nobody else wrote, the stored book is the replay
\* of the rows, whatever earlier rebuilds that died, overlapped or read fewer rows
\* have left behind.  Only lifecycles that share both instants are assumed away:
\* the second one of them takes the closed row of the first.
THEOREM CalmRebuildIsReplay ==
    ASSUME KeysApart
    PROVE  Spec => []FreshBook
<1>1. Init => CalmInv
  BY DEF Init, CalmInv
<1>2. TypeInv /\ CalmInv /\ [Next]_vars => CalmInv'
  BY CalmStep
<1>3. CalmInv => FreshBook
  <2> SUFFICES ASSUME FreshRows
               PROVE  Agrees(Replay[known])
    BY DEF CalmInv, FreshBook
  <2>1. \A i \in DOMAIN Replay[known].plan : Replay[known].plan[i] \in Lifecycles
    BY DEF FreshRows, Shows, Lifecycles
  <2> QED
    BY <2>1 DEF FreshRows, Agrees, HeldAs, Linked, Shows
<1> QED
  BY <1>1, <1>2, <1>3, InitInv, StepInv, PTL DEF Spec


-----------------------------------------------------------------------------
(* Closed rows stay true while rows come in order: what any rebuild has    *)
(* read, however long ago, is an initial part of what is known, and so a   *)
(* lifecycle it puts belongs to the replay of all of it.                   *)

ReadsOn(S, T) == S \subseteq T /\ \A s \in S, t \in T \ S : s < t

InReplay(life, S) == \E i \in DOMAIN Replay[S].plan : Replay[S].plan[i] = life

ReadInOrder(r) ==
    /\ ReadsOn(rebuild[r].rows, known)
    /\ rebuild[r].pc # "existing" => rebuild[r].book = Replay[rebuild[r].rows]

TrueInv ==
    ~late =>
        /\ \A k \in DOMAIN closed : InReplay(closed[k].life, known)
        /\ \A r \in Rebuilder : rebuild[r].pc # "idle" => ReadInOrder(r)

LEMMA ReplayReadsOn ==
    ASSUME ReplayGrows, NEW S \in SUBSET Activity, NEW T \in SUBSET Activity, ReadsOn(S, T),
           NEW life, InReplay(life, S)
    PROVE  InReplay(life, T)
<1>1. S \subseteq T /\ \A s \in S, t \in T \ S : s < t
  BY DEF ReadsOn
<1>2. \A i \in DOMAIN Replay[S].plan :
        \E j \in DOMAIN Replay[T].plan : Replay[T].plan[j] = Replay[S].plan[i]
  BY <1>1 DEF ReplayGrows
<1> QED
  BY <1>2 DEF InReplay

\* Nothing new is known and no life has changed; a rebuild may have moved on.
LEMMA MoveTrue ==
    ASSUME TrueInv, known' = known, late' = late, DOMAIN closed' = DOMAIN closed,
           \A k \in DOMAIN closed : closed'[k].life = closed[k].life,
           \A r \in Rebuilder :
                \/ rebuild'[r].pc = "idle" \/ ReadInOrder(r)'
                \/ rebuild'[r] = rebuild[r]
    PROVE  TrueInv'
<1> SUFFICES ASSUME ~late
             PROVE  /\ \A k \in DOMAIN closed' : InReplay(closed'[k].life, known)
                    /\ \A r \in Rebuilder : rebuild'[r].pc # "idle" => ReadInOrder(r)'
  BY DEF TrueInv, InReplay
<1>1. \A r \in Rebuilder :
        rebuild'[r] = rebuild[r] /\ rebuild[r].pc # "idle" => ReadInOrder(r)'
  BY DEF TrueInv, ReadInOrder, ReadsOn
<1> QED
  BY <1>1 DEF TrueInv

\* The next row in order has come.
LEMMA SyncTrue ==
    ASSUME ReplayGrows, TypeInv, TrueInv, NEW t \in Activity, SyncRow(t)
    PROVE  TrueInv'
<1> SUFFICES ASSUME ~late'
             PROVE  /\ \A k \in DOMAIN closed' : InReplay(closed'[k].life, known')
                    /\ \A r \in Rebuilder : rebuild'[r].pc # "idle" => ReadInOrder(r)'
  BY DEF TrueInv, InReplay
<1>1. /\ t \notin known /\ known' = known \cup {t} /\ closed' = closed /\ rebuild' = rebuild
      /\ ~late /\ \A u \in known : ~(u > t)
  BY DEF SyncRow, stored
<1>2. Activity \subseteq Nat /\ known \in SUBSET Activity /\ known' \in SUBSET Activity
  BY <1>1, PositionAssumption DEF TypeInv, BookTypes
<1>3. \A u \in known : u < t
  BY <1>1, <1>2
<1>4. ReadsOn(known, known')
  BY <1>1, <1>3 DEF ReadsOn
<1>5. \A k \in DOMAIN closed' : InReplay(closed'[k].life, known')
  BY <1>1, <1>2, <1>4, ReplayReadsOn DEF TrueInv
<1>6. ASSUME NEW r \in Rebuilder, rebuild'[r].pc # "idle"
      PROVE  ReadInOrder(r)'
  <2>1. ReadInOrder(r)
    BY <1>1, <1>6 DEF TrueInv
  <2>2. rebuild[r].rows \subseteq known /\ \A s \in rebuild[r].rows, u \in known \ rebuild[r].rows : s < u
    BY <2>1 DEF ReadInOrder, ReadsOn
  <2>3. ReadsOn(rebuild[r].rows, known')
    BY <1>1, <1>3, <2>2 DEF ReadsOn
  <2> QED
    BY <1>1, <2>1, <2>3 DEF ReadInOrder, ReadsOn
<1> QED
  BY <1>5, <1>6

\* A lifecycle is put, perhaps by a rebuild that started long ago.
LEMMA PutTrue ==
    ASSUME ReplayGrows, TypeInv, TrueInv, NEW r \in Rebuilder, Put(r)
    PROVE  TrueInv'
<1> SUFFICES ASSUME ~late
             PROVE  /\ \A k \in DOMAIN closed' : InReplay(closed'[k].life, known)
                    /\ \A q \in Rebuilder : rebuild'[q].pc # "idle" => ReadInOrder(q)'
  BY DEF TrueInv, InReplay, Put
<1> DEFINE b == rebuild[r]
           life == b.book.plan[b.i]
           row == [life |-> life, group |-> 0]
           k == IF b.found = 0 THEN Len(closed) + 1 ELSE b.found
<1>1. /\ b.pc = "put" /\ known' = known /\ rebuild' = [rebuild EXCEPT ![r] = Done(r)]
      /\ (b.found = 0 \/ b.found \in DOMAIN closed)
  BY DEF Put, TypeInv, FoundIsThere
<1>2. ReadInOrder(r) /\ b.i \in DOMAIN b.book.plan /\ b \in Rebuilding
  BY <1>1 DEF TrueInv, TypeInv, InPlan, Planned, BookTypes
<1>3. b.book = Replay[b.rows] /\ ReadsOn(b.rows, known)
  BY <1>1, <1>2 DEF ReadInOrder
<1>4. b.rows \in SUBSET Activity /\ known \in SUBSET Activity
  BY <1>2 DEF Rebuilding, TypeInv, BookTypes
<1>5. InReplay(life, b.rows)
  BY <1>2, <1>3 DEF InReplay
<1>6. InReplay(life, known)
  <2> HIDE DEF life, b
  <2> QED
    BY <1>3, <1>4, <1>5, ReplayReadsOn
<1>7. /\ DOMAIN closed' = DOMAIN closed \cup {k} /\ closed'[k] = row
      /\ \A l \in DOMAIN closed \ {k} : closed'[l] = closed[l]
  BY <1>1, PutCloses DEF TypeInv, Planned
<1>8. row.life = life
  OBVIOUS
<1>9. Done(r).rows = b.rows /\ Done(r).book = b.book
  BY <1>2 DEF Done, Rebuilding
<1>10. rebuild'[r] = Done(r) /\ \A q \in Rebuilder : q # r => rebuild'[q] = rebuild[q]
  BY <1>1, RebuildStays
<1> HIDE DEF life, row, k
<1>11. \A l \in DOMAIN closed' : InReplay(closed'[l].life, known)
  BY <1>6, <1>7, <1>8 DEF TrueInv
<1>12. \A q \in Rebuilder : rebuild'[q].pc # "idle" => ReadInOrder(q)'
  <2>1. ReadInOrder(r)'
    BY <1>1, <1>3, <1>9, <1>10 DEF ReadInOrder, ReadsOn
  <2>2. ASSUME NEW q \in Rebuilder, q # r, rebuild[q].pc # "idle"
        PROVE  ReadInOrder(q)'
    BY <1>1, <1>10, <2>2 DEF TrueInv, ReadInOrder, ReadsOn
  <2> QED
    BY <1>10, <2>1, <2>2
<1> QED
  BY <1>11, <1>12


\* A rebuild that goes on with the rows and the book it has.
LEMMA GoesOnTrue ==
    ASSUME TypeInv, TrueInv, NEW r \in Rebuilder, NEW new,
           rebuild' = [rebuild EXCEPT ![r] = new],
           rebuild[r].pc # "idle", new.rows = rebuild[r].rows,
           new.book = Replay[rebuild[r].rows] \/ (new.book = rebuild[r].book /\ rebuild[r].pc # "existing"),
           known' = known, late' = late, closed' = closed
    PROVE  TrueInv'
<1>1. rebuild'[r] = new /\ \A q \in Rebuilder : q # r => rebuild'[q] = rebuild[q]
  BY RebuildStays
<1>2. CASE late
  BY <1>2 DEF TrueInv
<1>3. CASE ~late
  <2>1. ReadInOrder(r)
    BY <1>3 DEF TrueInv
  <2>2. ReadInOrder(r)'
    BY <1>1, <2>1 DEF ReadInOrder, ReadsOn
  <2> QED
    BY <1>1, <2>2, MoveTrue
<1> QED
  BY <1>2, <1>3

LEMMA RebuildTrue ==
    ASSUME TypeInv, TrueInv, NEW r \in Rebuilder,
           \/ StartRebuild(r) \/ ReadExisting(r) \/ RebuildPosition(r)
           \/ LinkRows(r) \/ RebuildDies(r) \/ LookUp(r)
    PROVE  TrueInv'
<1>1. known' = known /\ late' = late /\ closed' = closed
  BY DEF StartRebuild, ReadExisting, RebuildPosition, LinkRows, RebuildDies, LookUp, stored
<1>2. rebuild[r] \in Rebuilding
  BY DEF TypeInv, BookTypes
<1>3. CASE StartRebuild(r)
  <2> DEFINE new == [NotRebuilding EXCEPT !.pc = "existing", !.rows = known]
  <2>1. rebuild' = [rebuild EXCEPT ![r] = new]
    BY <1>3 DEF StartRebuild
  <2>2. new.pc = "existing" /\ new.rows = known
    BY DEF NotRebuilding
  <2> HIDE DEF new
  <2>3. rebuild'[r] = new /\ \A q \in Rebuilder : q # r => rebuild'[q] = rebuild[q]
    BY <2>1, RebuildStays
  <2>4. ReadInOrder(r)'
    BY <1>1, <2>2, <2>3 DEF ReadInOrder, ReadsOn
  <2> QED
    BY <1>1, <2>3, <2>4, MoveTrue
<1>4. CASE ReadExisting(r)
  <2> DEFINE owned == position # None /\ position.owned
             new == [rebuild[r] EXCEPT !.pc = "position", !.book = Replay[rebuild[r].rows],
                                       !.owned = owned]
  <2>1. rebuild' = [rebuild EXCEPT ![r] = new] /\ rebuild[r].pc = "existing"
    BY <1>4 DEF ReadExisting
  <2>2. new.rows = rebuild[r].rows /\ new.book = Replay[rebuild[r].rows]
    BY <1>2 DEF Rebuilding
  <2> HIDE DEF new
  <2> QED
    BY <1>1, <2>1, <2>2, GoesOnTrue
<1>5. CASE RebuildPosition(r)
  <2> DEFINE new == [rebuild[r] EXCEPT !.pc = Onward(r, 1)]
  <2>1. rebuild' = [rebuild EXCEPT ![r] = new] /\ rebuild[r].pc = "position"
    BY <1>5 DEF RebuildPosition, TypeInv, BookTypes
  <2>2. new.rows = rebuild[r].rows /\ new.book = rebuild[r].book
    BY <1>2 DEF Rebuilding
  <2> HIDE DEF new
  <2> QED
    BY <1>1, <2>1, <2>2, GoesOnTrue
<1>6. CASE LookUp(r)
  <2>1. PICK k : rebuild' = [rebuild EXCEPT ![r] = [rebuild[r] EXCEPT !.pc = "put", !.found = k]]
    BY <1>6 DEF LookUp
  <2> DEFINE new == [rebuild[r] EXCEPT !.pc = "put", !.found = k]
  <2>2. new.rows = rebuild[r].rows /\ new.book = rebuild[r].book
    BY <1>2 DEF Rebuilding
  <2>3. rebuild[r].pc = "look" /\ rebuild' = [rebuild EXCEPT ![r] = new]
    BY <1>6, <2>1 DEF LookUp
  <2> HIDE DEF new
  <2> QED
    BY <1>1, <2>2, <2>3, GoesOnTrue
<1>7. CASE LinkRows(r) \/ RebuildDies(r)
  <2>1. rebuild' = [rebuild EXCEPT ![r] = NotRebuilding] /\ NotRebuilding.pc = "idle"
    BY <1>7 DEF LinkRows, RebuildDies, NotRebuilding
  <2>2. rebuild'[r].pc = "idle" /\ \A q \in Rebuilder : q # r => rebuild'[q] = rebuild[q]
    BY <2>1, RebuildStays
  <2> QED
    BY <1>1, <2>2, MoveTrue
<1> QED
  BY <1>3, <1>4, <1>5, <1>6, <1>7

LEMMA TrueStep ==
    ASSUME ReplayGrows, TypeInv, TrueInv, [Next]_vars
    PROVE  TrueInv'
<1>1. CASE Elsewhere
  <2>1. CASE \E t \in Activity : SyncRow(t)
    BY <2>1, SyncTrue
  <2>2. CASE Execute
    BY <2>2, MoveTrue DEF Execute, stored
  <2>3. CASE \E w \in Writer : Write(w)
    <3>1. known' = known /\ late' = late /\ closed' = closed /\ rebuild' = rebuild
      BY <2>3 DEF Write, FetchPosition, ReceivePosition, ReadPosition, RemapReads,
                  WritePosition, stored
    <3> QED
      BY <3>1, MoveTrue
  <2>4. CASE UNCHANGED vars
    BY <2>4, MoveTrue DEF vars, stored
  <2> QED
    BY <1>1, <2>1, <2>2, <2>3, <2>4 DEF Elsewhere
<1>2. CASE LinkClosedPositions
  <2>1. known' = known /\ late' = late /\ rebuild' = rebuild
    BY <1>2 DEF LinkClosedPositions
  <2>2. /\ DOMAIN closed' = DOMAIN closed
        /\ \A k \in DOMAIN closed : closed'[k].life = closed[k].life
    BY <1>2, LinkKeepsLives DEF TypeInv
  <2> QED
    BY <2>1, <2>2, MoveTrue
<1> QED
  BY <1>1, <1>2, RebuildTrue, PutTrue, StepKinds

\* As long as rows come in order, every closed row is a lifecycle of the replay of
\* all that is known, by whichever rebuild it was put, however many overlap and
\* wherever they die.  It is assumed that a completed lifecycle is part of every
\* replay that reads further; the store's part of the promise is what is proved.
THEOREM InOrderClosedStaysTrue ==
    ASSUME ReplayGrows
    PROVE  Spec => []ClosedStaysTrue
<1>1. Init => TrueInv
  BY DEF Init, TrueInv, NotRebuilding
<1>2. TypeInv /\ TrueInv /\ [Next]_vars => TrueInv'
  BY TrueStep
<1>3. TrueInv => ClosedStaysTrue
  BY DEF TrueInv, ClosedStaysTrue, InReplay, Lifecycles
<1> QED
  BY <1>1, <1>2, <1>3, InitInv, StepInv, PTL DEF Spec
=============================================================================
