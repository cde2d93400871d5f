--------------------------- MODULE StreamDelivery ---------------------------
(***************************************************************************)
(* The push path over a durable stream: RedisStreamMessageSource           *)
(* (src/tt_ledger/ingest/redis_stream_source.py) feeding StreamConsumer    *)
(* (src/tt_ledger/ingest/push.py), which writes each message to the        *)
(* ledger.                                                                 *)
(*                                                                         *)
(* The server side (the stream, the consumer group's last-delivered id     *)
(* and its list of pending entries) is external.  An entry is its position *)
(* in the stream.  All entries of interest are updates of one order, so    *)
(* what the ledger shows is the entry that was applied last.  Every        *)
(* consumer of the group is one run of messages() with run() driving it.   *)
(***************************************************************************)
EXTENDS Integers, Sequences, FiniteSets

CONSTANTS
    Consumer,     \* processes that read for this daemon's group
    Nobody,       \* the owner of an entry that is not pending
    Ours,         \* entries that parse and concern this daemon's accounts
    Length,       \* bound: entries the host publishes
    BatchCount,   \* batch_count
    MaxTrim,      \* bound: entries the stream drops at its head
    MaxFaults,    \* bound: deaths, lost connections and lost responses
    MaxFailures   \* bound: messages the ledger fails to write

Entry == 1 .. Length

ASSUME StreamAssumption ==
    /\ Length \in Nat /\ BatchCount \in Nat \ {0}
    /\ MaxTrim \in Nat /\ MaxFaults \in Nat /\ MaxFailures \in Nat
    /\ Ours \subseteq Entry
    /\ Nobody \notin Consumer

VARIABLES
    published,  \* the newest entry
    trim,       \* the newest entry the stream no longer holds
    since,      \* the newest entry when the group was created (-1: no group yet)
    delivered,  \* the group's last-delivered id
    owner,      \* who holds each pending entry
    stale,      \* pending entries idle for min_idle_reclaim_ms
    pc,         \* per consumer: "down", "reclaim", "read", "yield" or "ack"
    batch,      \* per consumer: messages received and not yet acknowledged
    source,     \* per consumer: whether the batch is "new" or "old"
    cursor,     \* per consumer: where the next XAUTOCLAIM starts (0: the beginning)
    applied,    \* entries written to the ledger
    failed,     \* entries whose write raised
    row,        \* the entry the order's row shows
    faults

server == <<published, trim, since, delivered, owner, stale>>
local  == <<pc, batch, source, cursor>>
ledger == <<applied, failed, row>>
vars   == <<server, local, ledger, faults>>

\* An entry and what the parser makes of it: a message for this daemon, or None.
Message == [id : Entry, ours : BOOLEAN]

TypeOK ==
    /\ published \in 0 .. Length /\ trim \in 0 .. published
    /\ since \in -1 .. published /\ delivered \in since .. published
    /\ owner \in [Entry -> Consumer \cup {Nobody}]
    /\ stale \subseteq {e \in Entry : owner[e] # Nobody}
    /\ pc \in [Consumer -> {"down", "reclaim", "read", "yield", "ack"}]
    /\ batch \in [Consumer -> Seq(Message)]
    /\ source \in [Consumer -> {"new", "old"}]
    /\ cursor \in [Consumer -> 0 .. Length]
    /\ applied \subseteq Ours /\ failed \subseteq Ours
    /\ row \in applied \cup {0}
    /\ faults \in 0 .. MaxFaults

Init ==
    /\ published = 0 /\ trim = 0 /\ since = -1 /\ delivered = -1
    /\ owner = [e \in Entry |-> Nobody]
    /\ stale = {}
    /\ pc = [c \in Consumer |-> "down"]
    /\ batch = [c \in Consumer |-> <<>>]
    /\ source = [c \in Consumer |-> "new"]
    /\ cursor = [c \in Consumer |-> 0]
    /\ applied = {} /\ failed = {} /\ row = 0
    /\ faults = 0

-----------------------------------------------------------------------------
(* The stream.                                                             *)

Publish ==
    /\ published < Length
    /\ published' = published + 1
    /\ UNCHANGED <<trim, since, delivered, owner, stale, local, ledger, faults>>

\* The stream is capped and drops its oldest entry, delivered or not.
Trim ==
    /\ trim < MaxTrim /\ trim < published
    /\ trim' = trim + 1
    /\ UNCHANGED <<published, since, delivered, owner, stale, local, ledger, faults>>

\* A pending entry has not moved for min_idle_reclaim_ms.
Age(e) ==
    /\ owner[e] # Nobody
    /\ e \notin stale
    /\ stale' = stale \cup {e}
    /\ UNCHANGED <<published, trim, since, delivered, owner, local, ledger, faults>>

\* The first n of a set of entries, in stream order.
Oldest(S, n) == {e \in S : Cardinality({f \in S : f < e}) < n}

\* Mutation: a batch is handed over newest first.
NewestFirst(S) ==
    CHOOSE s \in [1 .. Cardinality(S) -> S] : \A k, m \in DOMAIN s : k < m => s[k] > s[m]

InOrder(S) ==
    CHOOSE s \in [1 .. Cardinality(S) -> S] : \A k, m \in DOMAIN s : k < m => s[k] < s[m]

\* _parse_entry; an entry without fields gives no message.
Parsed(e, fields) == [id |-> e, ours |-> fields /\ e \in Ours]

\* The messages of a batch; a reclaimed entry the stream has dropped comes back
\* without fields.
Messages(S) == [k \in 1 .. Cardinality(S) |-> Parsed(InOrder(S)[k], InOrder(S)[k] > trim)]

-----------------------------------------------------------------------------
(* The source: connect, reclaim, read.                                     *)

\* _ensure_group: a new group starts at the end of the stream; an existing one
\* is left as it is.  Every (re)connect begins with a reclaim.
Start(c) ==
    /\ pc[c] = "down"
    /\ pc' = [pc EXCEPT ![c] = "reclaim"]
    /\ cursor' = [cursor EXCEPT ![c] = 0]
    /\ since' = IF since = -1 THEN published ELSE since
    /\ delivered' = IF since = -1 THEN published ELSE delivered
    /\ UNCHANGED <<published, trim, owner, stale, batch, source, ledger, faults>>

\* Mutation: entries of other consumers are left alone.
ReclaimOwn(c) ==
    /\ pc[c] = "reclaim"
    /\ pc' = [pc EXCEPT ![c] = "read"]
    /\ UNCHANGED <<server, batch, source, cursor, ledger, faults>>

\* One XAUTOCLAIM of _drain_reclaimed, from the cursor on.  The loop goes on
\* while it gets entries and the server has not reached the end of the list.
Reclaim(c) ==
    /\ pc[c] = "reclaim"
    /\ LET pending == {e \in Entry : owner[e] # Nobody /\ e >= cursor[c]}
           claimed == Oldest(pending \cap stale, BatchCount)
           beyond  == {e \in pending : \A f \in claimed : f < e}
           full    == Cardinality(claimed) = BatchCount /\ beyond # {}
       IN  /\ owner' = [e \in Entry |-> IF e \in claimed THEN c ELSE owner[e]]
           /\ stale' = stale \ claimed
           /\ batch' = [batch EXCEPT ![c] = Messages(claimed)]
           /\ cursor' = [cursor EXCEPT ![c] =
                    IF full THEN CHOOSE e \in beyond : \A f \in beyond : e <= f ELSE 0]
           /\ source' = [source EXCEPT ![c] = "old"]
           /\ pc' = [pc EXCEPT ![c] = IF claimed = {} THEN "read" ELSE "yield"]
    /\ UNCHANGED <<published, trim, since, delivered, ledger, faults>>

\* reclaim_interval_seconds have passed; looked at between batches only.
IntervalPasses(c) ==
    /\ pc[c] = "read"
    /\ stale # {}
    /\ pc' = [pc EXCEPT ![c] = "reclaim"]
    /\ cursor' = [cursor EXCEPT ![c] = 0]
    /\ UNCHANGED <<server, batch, source, ledger, faults>>

\* XREADGROUP with ">": entries no consumer of the group has been sent yet.
Unread == {e \in Entry : e > delivered /\ e > trim /\ e <= published}

Deliver(c) ==
    LET sent == Oldest(Unread, BatchCount)
    IN  /\ pc[c] = "read"
        /\ sent # {}
        /\ owner' = [e \in Entry |-> IF e \in sent THEN c ELSE owner[e]]
        /\ delivered' = CHOOSE e \in sent : \A f \in sent : f <= e
        /\ UNCHANGED <<published, trim, since, stale>>

Read(c) ==
    /\ Deliver(c)
    /\ batch' = [batch EXCEPT ![c] = Messages(Oldest(Unread, BatchCount))]
    /\ source' = [source EXCEPT ![c] = "new"]
    /\ pc' = [pc EXCEPT ![c] = "yield"]
    /\ UNCHANGED <<cursor, ledger, faults>>

\* The entries were delivered, but the client gave up waiting for them: the
\* poll is repeated, or the third time the connection is made anew.
ReadLost(c) ==
    /\ faults < MaxFaults
    /\ Deliver(c)
    /\ \E next \in {"read", "reclaim"} : pc' = [pc EXCEPT ![c] = next]
    /\ cursor' = [cursor EXCEPT ![c] = 0]
    /\ faults' = faults + 1
    /\ UNCHANGED <<batch, source, ledger>>

-----------------------------------------------------------------------------
(* The consumer: each message is written before the iterator is advanced,  *)
(* and advancing it acknowledges the message.                              *)

Apply(c) ==
    /\ pc[c] = "yield" /\ Head(batch[c]).ours
    /\ applied' = applied \cup {Head(batch[c]).id}
    /\ row' = Head(batch[c]).id
    /\ pc' = [pc EXCEPT ![c] = "ack"]
    /\ UNCHANGED <<server, batch, source, cursor, failed, faults>>

\* run() logs the exception and takes the next message.
ApplyFails(c) ==
    /\ pc[c] = "yield" /\ Head(batch[c]).ours
    /\ Cardinality(failed) < MaxFailures
    /\ failed' = failed \cup {Head(batch[c]).id}
    /\ pc' = [pc EXCEPT ![c] = "ack"]
    /\ UNCHANGED <<server, batch, source, cursor, applied, row, faults>>

MayAck(c) ==
    \/ pc[c] = "ack"
    \/ pc[c] = "yield" /\ ~Head(batch[c]).ours

XAck(e) ==
    /\ owner' = [owner EXCEPT ![e] = Nobody]
    /\ stale' = stale \ {e}
    /\ UNCHANGED <<published, trim, since, delivered>>

\* XACK, then the next message of the batch, the next claim or the next read.
Ack(c) ==
    /\ MayAck(c)
    /\ XAck(Head(batch[c]).id)
    /\ batch' = [batch EXCEPT ![c] = Tail(@)]
    /\ pc' = [pc EXCEPT ![c] = IF Len(batch[c]) > 1 THEN "yield"
                               ELSE IF source[c] = "old" /\ cursor[c] # 0 THEN "reclaim"
                               ELSE "read"]
    /\ UNCHANGED <<source, cursor, ledger, faults>>

\* A server call raises: the rest of the batch is dropped and the connection is
\* made anew.  An acknowledgement may have arrived all the same.
ConnectionLost(c) ==
    /\ (pc[c] \in {"reclaim", "read"} \/ MayAck(c))
    /\ faults < MaxFaults
    /\ faults' = faults + 1
    /\ pc' = [pc EXCEPT ![c] = "reclaim"]
    /\ cursor' = [cursor EXCEPT ![c] = 0]
    /\ batch' = [batch EXCEPT ![c] = <<>>]
    /\ \/ UNCHANGED server
       \/ MayAck(c) /\ XAck(Head(batch[c]).id)
    /\ UNCHANGED <<source, ledger>>

\* The process dies, or is told to stop and leaves its message unacknowledged.
Die(c) ==
    /\ pc[c] # "down"
    /\ faults < MaxFaults
    /\ faults' = faults + 1
    /\ pc' = [pc EXCEPT ![c] = "down"]
    /\ batch' = [batch EXCEPT ![c] = <<>>]
    /\ UNCHANGED <<server, source, cursor, ledger>>

Run(c) ==
    \/ Start(c) \/ Reclaim(c) \/ IntervalPasses(c) \/ Read(c)
    \/ Apply(c) \/ Ack(c)

Next ==
    \/ Publish \/ Trim
    \/ \E e \in Entry : Age(e)
    \/ \E c \in Consumer :
        Run(c) \/ ApplyFails(c) \/ ReadLost(c) \/ ConnectionLost(c) \/ Die(c)

\* The daemon is supervised (started again after it dies) and time passes.
Fairness ==
    /\ \A e \in Entry : WF_vars(Age(e))
    /\ \A c \in Consumer : WF_vars(Run(c))

Spec == Init /\ [][Next]_vars /\ Fairness

-----------------------------------------------------------------------------
(* Correctness.                                                            *)

Acked(e) == since # -1 /\ e > since /\ e <= delivered /\ owner[e] = Nobody

Contract == INSTANCE AtLeastOnce WITH
    Entry   <- Ours,
    owed    <- {e \in Ours : since # -1 /\ e > since /\ e <= published /\ ~Acked(e)},
    handled <- applied \cup failed \cup {e \in Ours : e <= trim}

(* The delivery contract: an entry published once the group exists is       *)
(* forgotten only after it was handed to the ledger, whoever dies or loses  *)
(* a response in between, and is handed over in the end                     *)
(* (RedisStreamMessageSource.messages, _drain_reclaimed).                   *)
Delivers == Contract!Spec

(* As long as one consumer has run without a fault, the order's row only    *)
(* moves forward: nothing is written twice or behind a newer entry, however *)
(* slowly the batch is worked off.                                          *)
SteadyOrder ==
    [][(\E c \in Consumer : \A d \in Consumer \ {c} : pc'[d] = "down") /\ faults' = 0
        => row' >= row /\ (applied' # applied \/ UNCHANGED row)]_vars
=============================================================================
