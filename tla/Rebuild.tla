------------------------------ MODULE Rebuild ------------------------------
(***************************************************************************)
(* What a rebuild computes for one contract of an account from the rows it *)
(* has read (src/tt_ledger/ingest/replay.py): the open lot, the lifecycles *)
(* it completed in the order they were closed, and the rows to be marked   *)
(* as members of the position.  A lot that is still open a full day after  *)
(* the contract expired is closed as lapsed; "now" is the latest row of    *)
(* the account, of whatever security.                                      *)
(***************************************************************************)
EXTENDS Lots

CONSTANTS
    Contract,   \* the security whose position is rebuilt
    LapsesAt,   \* 21:15 of its expiry
    LapseDue    \* the start of the second day after it

ASSUME RebuildAssumption ==
    /\ Contract \in Sec
    /\ LapsesAt \in Nat /\ LapseDue \in Nat

\* Nothing is executed in the contract any more when its lapse is due.
ContractOver == \A t \in Txn : Row[t].sec = Contract => Row[t].at < LapseDue

\* The row that closed a lapsed lot.
NoCloser == 0

\* A closed_positions row is keyed by the instants of its opening and closing.
Lifecycle(lot) ==
    [from |-> Row[lot.since].at, to |-> Row[lot.until].at, by |-> lot.until,
     realised |-> lot.realised, fees |-> lot.fees]

\* Only what is left of the lot is realised, and no fee is charged.
Lapsed(lot) ==
    [from |-> Row[lot.since].at, to |-> LapsesAt, by |-> NoCloser,
     realised |-> Abs(lot.net), fees |-> {}]

Lapses(lot, S) == lot.net # 0 /\ \E t \in S : Row[t].at >= LapseDue

Rebuilt(S) ==
    LET book      == ReplaySecurity(S, Contract)
        upTo(lot) == {l \in book.closed : ~ReplayedBefore(lot.until, l.until)}
        completed == [i \in 1 .. Cardinality(book.closed) |->
                        Lifecycle(CHOOSE lot \in book.closed : Cardinality(upTo(lot)) = i)]
        flat      == [net |-> 0, since |-> 0]
        held      == [net |-> book.lot.net, since |-> book.lot.since]
    IN  IF Lapses(book.lot, S)
        THEN [lot |-> flat, plan |-> Append(completed, Lapsed(book.lot)), marks |-> book.marks]
        ELSE [lot |-> held, plan |-> completed, marks |-> book.marks]
=============================================================================
