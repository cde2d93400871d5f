---------------------------- MODULE HistorySync ----------------------------
(***************************************************************************)
(* The pull side: sync_all (src/tt_ledger/ingest/pull.py) over the REST    *)
(* client (src/tt_ledger/ingest/tastytrade_client.py).  A sync fetches the *)
(* order history and the transaction history, page by page, from a broker  *)
(* that goes on executing orders, then the positions and the balances, and *)
(* ends with a reconcile pass.  The account streamer                       *)
(* (src/tt_ledger/ingest/tastytrade_stream.py) takes the token of its      *)
(* heartbeats from the same client, and syncs may share it too.            *)
(*                                                                         *)
(* Every execution adds one order and one transaction, and the broker      *)
(* lists the newest first, so that an execution moves every older row one  *)
(* place down.  A whole history is upserted in one transaction, and        *)
(* PostgreSQL refuses a statement that proposes the same key twice.        *)
(*                                                                         *)
(* A token is the epoch it was issued in: the broker accepts those of the  *)
(* current epoch, and a revocation begins a new one.  Between the broker's *)
(* granting a token and the client's taking it others run, so that two     *)
(* grants may be taken in either order.                                    *)
(***************************************************************************)
EXTENDS Integers, FiniteSets

CONSTANTS
    Syncer,     \* syncs that may be running, all through one client
    MaxRows,    \* bound: executions
    PerPage,    \* rows of a page
    MaxEpoch,   \* bound: revocations of the token, plus one
    MaxFaults   \* bound: calls that fail and syncs that die

ASSUME HistoryAssumption ==
    /\ MaxRows \in Nat /\ PerPage \in Nat \ {0}
    /\ MaxEpoch \in Nat \ {0} /\ MaxFaults \in Nat

Fact == 1 .. MaxRows
Paged == {"orders", "transactions"}
Feed == Paged \cup {"positions", "balances"}

VARIABLES
    executed,   \* how many rows the broker has executed
    stored,     \* per feed: the rows in the ledger, or the state the snapshot shows
    grouped,    \* rows a reconcile pass has found with their order
    epoch,      \* the current epoch of tokens
    token,      \* the client's token: its epoch, 0 before the first
    expired,    \* the client takes its token for expired
    beat,       \* a token granted to the heartbeat and not taken yet, 0 for none
    sync,       \* what each sync remembers
    faults

vars == <<executed, stored, grouped, epoch, token, expired, beat, sync, faults>>

tables == <<stored, grouped>>

\* feed:   the step of sync_all; call: where the current request is
\* mine:   the token the request was sent with, 0 before
\* grant:  a token granted to the request and not taken yet
\* refused: the epoch in which the request was first refused, 0 before (history)
\* page:   the next page; got: the rows fetched; twice: some row was fetched twice
\* from:   how much was executed when the feed was begun
\* failed: the feeds whose failure is in SyncResult.errors
Syncing ==
    [feed : Feed \cup {"idle", "reconcile"},
     call : {"none", "token", "granted", "get", "reauth", "retry", "store"},
     mine : 0 .. MaxEpoch, grant : 0 .. MaxEpoch, refused : 0 .. MaxEpoch,
     page : Nat, got : SUBSET (0 .. MaxRows), twice : BOOLEAN,
     from : [Paged -> 0 .. MaxRows], failed : SUBSET Feed]

Idle == [feed |-> "idle", call |-> "none", mine |-> 0, grant |-> 0, refused |-> 0,
         page |-> 0, got |-> {}, twice |-> FALSE, from |-> [f \in Paged |-> 0], failed |-> {}]

\* A request under way carries a token that was granted, to a retry after the refusal.
Sent(r) ==
    /\ r.mine <= epoch /\ r.grant <= epoch /\ r.refused <= epoch
    /\ r.call \in {"get", "reauth", "retry"} => r.mine # 0
    /\ r.call \in {"granted", "retry"} => r.grant # 0
    /\ r.call \in {"reauth", "retry"} => r.refused # 0
    /\ r.call = "granted" /\ r.mine # 0 => r.refused # 0
    /\ r.call \in {"granted", "retry"} => r.refused <= r.grant

TypeOK ==
    /\ executed \in 0 .. MaxRows
    /\ stored \in [Feed -> SUBSET (0 .. MaxRows)]
    /\ grouped \in SUBSET (0 .. MaxRows)
    /\ epoch \in 1 .. MaxEpoch
    /\ token \in 0 .. epoch
    /\ expired \in BOOLEAN
    /\ beat \in 0 .. epoch
    /\ sync \in [Syncer -> Syncing]
    /\ faults \in 0 .. MaxFaults
    /\ \A s \in Syncer : Sent(sync[s])

Init ==
    /\ executed = 0
    /\ stored = [f \in Feed |-> {}]
    /\ grouped = {}
    /\ epoch = 1 /\ token = 0 /\ expired = FALSE /\ beat = 0
    /\ sync = [s \in Syncer |-> Idle]
    /\ faults = 0

-----------------------------------------------------------------------------
(* The broker.                                                             *)

Execute ==
    /\ executed < MaxRows
    /\ executed' = executed + 1
    /\ UNCHANGED <<tables, epoch, token, expired, beat, sync, faults>>

Revoke ==
    /\ epoch < MaxEpoch
    /\ epoch' = epoch + 1
    /\ UNCHANGED <<executed, tables, token, expired, beat, sync, faults>>

\* The client's own clock passes the instant of now_with_margin.
TokenExpires ==
    /\ token # 0
    /\ expired' = TRUE
    /\ UNCHANGED <<executed, tables, epoch, token, beat, sync, faults>>

\* Page k of the list: its rows, and the number of pages there are now.
PageOf(f, k) ==
    IF f \in Paged
    THEN {executed - k * PerPage - j : j \in 0 .. PerPage - 1} \cap Fact
    ELSE {executed}

TotalPages(f) ==
    IF f \in Paged THEN (executed + PerPage - 1) \div PerPage ELSE 1

-----------------------------------------------------------------------------
(* The steps of a sync.                                                    *)

After(f) ==
    CASE f = "orders" -> "transactions"
      [] f = "transactions" -> "positions"
      [] f = "positions" -> "balances"
      [] f = "balances" -> "reconcile"

Begin(record, f) ==
    [feed |-> f, call |-> IF f \in Feed THEN "token" ELSE "none",
     mine |-> 0, grant |-> 0, refused |-> 0, page |-> 0, got |-> {}, twice |-> FALSE,
     from |-> IF f \in Paged THEN [record.from EXCEPT ![f] = executed] ELSE record.from,
     failed |-> record.failed]

\* sync_all notes the failure of a step and goes on with the next.
Failed(record) ==
    [Begin(record, After(record.feed)) EXCEPT !.failed = @ \cup {record.feed}]

IsAt(s, call) == sync[s].feed \in Feed /\ sync[s].call = call

\* The request is at a call, was sent with a token and has been granted another.
Request(r, call, mine, grant) ==
    [feed |-> r.feed, call |-> call, mine |-> mine, grant |-> grant,
     refused |-> r.refused, page |-> r.page, got |-> r.got, twice |-> r.twice,
     from |-> r.from, failed |-> r.failed]

StartSync(s) ==
    /\ sync[s].feed = "idle"
    /\ sync' = [sync EXCEPT ![s] = Begin(Idle, "orders")]
    /\ UNCHANGED <<executed, tables, epoch, token, expired, beat, faults>>

\* Mutation: a token that was never granted is not missed.
ExpiredOnly == expired

\* _ensure_token asks for a token only if the client has none that is good.
NeedsToken == token = 0 \/ expired

Asked(r) ==
    IF NeedsToken THEN Request(r, "granted", 0, epoch) ELSE Request(r, "get", token, 0)

EnsureToken(s) ==
    /\ IsAt(s, "token")
    /\ sync' = [sync EXCEPT ![s] = Asked(sync[s])]
    /\ UNCHANGED <<executed, tables, epoch, token, expired, beat, faults>>

\* The client takes the token; its first request or its retry goes out with it.
Armed(r) ==
    IF r.mine = 0 THEN Request(r, "get", r.grant, 0) ELSE Request(r, "retry", r.mine, r.grant)

TakeToken(s) ==
    /\ IsAt(s, "granted")
    /\ token' = sync[s].grant /\ expired' = FALSE
    /\ sync' = [sync EXCEPT ![s] = Armed(sync[s])]
    /\ UNCHANGED <<executed, tables, epoch, beat, faults>>

\* The heartbeat of the account streamer asks the client for its token.
Heartbeat ==
    /\ beat = 0 /\ NeedsToken
    /\ beat' = epoch
    /\ UNCHANGED <<executed, tables, epoch, token, expired, sync, faults>>

HeartbeatTakes ==
    /\ beat # 0
    /\ token' = beat /\ expired' = FALSE
    /\ beat' = 0
    /\ UNCHANGED <<executed, tables, epoch, sync, faults>>

\* Mutation: the last page is not asked for.
OnePageEarly(r) ==
    LET items == PageOf(r.feed, r.page)
        last == items = {} \/ r.page + 2 >= TotalPages(r.feed)
    IN  [feed |-> r.feed, call |-> IF last THEN "store" ELSE "token",
         mine |-> 0, grant |-> 0, refused |-> 0, page |-> r.page + 1,
         got |-> r.got \cup items, twice |-> (r.twice \/ items \cap r.got # {}),
         from |-> r.from, failed |-> r.failed]

\* _get_all_pages: until a page is empty or is the last one, as it says itself.
TakePage(r) ==
    LET items == PageOf(r.feed, r.page)
        last == items = {} \/ r.page + 1 >= TotalPages(r.feed)
    IN  [feed |-> r.feed, call |-> IF last THEN "store" ELSE "token",
         mine |-> 0, grant |-> 0, refused |-> 0, page |-> r.page + 1,
         got |-> r.got \cup items, twice |-> (r.twice \/ items \cap r.got # {}),
         from |-> r.from, failed |-> r.failed]

\* Mutation: a refused token fails the call at once.
GetOnce(s) ==
    /\ IsAt(s, "get")
    /\ sync' = [sync EXCEPT ![s] =
            IF sync[s].mine = epoch THEN TakePage(sync[s]) ELSE Failed(sync[s])]
    /\ UNCHANGED <<executed, tables, epoch, token, expired, beat, faults>>

Get(s) ==
    /\ IsAt(s, "get")
    /\ sync' = [sync EXCEPT ![s] =
            IF sync[s].mine = epoch THEN TakePage(sync[s])
            ELSE [Request(sync[s], "reauth", sync[s].mine, 0) EXCEPT !.refused = epoch]]
    /\ UNCHANGED <<executed, tables, epoch, token, expired, beat, faults>>

\* The token may have expired or been revoked: a new one, and one retry.
Reauthenticate(s) ==
    /\ IsAt(s, "reauth")
    /\ sync' = [sync EXCEPT ![s] = Request(sync[s], "granted", sync[s].mine, epoch)]
    /\ UNCHANGED <<executed, tables, epoch, token, expired, beat, faults>>

\* Mutation: the retry is sent with what the client holds by then.
ClientToken(s) == token

\* The retry is sent with the token that was just taken.
RetryToken(s) == sync[s].grant

Retry(s) ==
    /\ IsAt(s, "retry")
    /\ sync' = [sync EXCEPT ![s] =
            IF RetryToken(s) = epoch THEN TakePage(sync[s]) ELSE Failed(sync[s])]
    /\ UNCHANGED <<executed, tables, epoch, token, expired, beat, faults>>

\* The tables as they are with the rows of a feed; the positions replace the former.
Upserted(r) ==
    [stored EXCEPT ![r.feed] =
        IF r.feed = "positions" THEN r.got ELSE stored[r.feed] \cup r.got]

\* One transaction writes everything that was fetched, or nothing.  A row fetched twice is
\* refused, unless its copies fall into two chunks of the statement or the store is SQLite.
Store(s) ==
    /\ IsAt(s, "store")
    /\ \/ /\ stored' = Upserted(sync[s])
          /\ sync' = [sync EXCEPT ![s] = Begin(sync[s], After(sync[s].feed))]
       \/ /\ sync[s].twice
          /\ stored' = stored
          /\ sync' = [sync EXCEPT ![s] = Failed(sync[s])]
    /\ UNCHANGED <<executed, grouped, epoch, token, expired, beat, faults>>

\* A pass finds rows whose order is there; it runs whatever failed before it.
Reconcile(s) ==
    /\ sync[s].feed = "reconcile"
    /\ grouped' = grouped \cup (stored["orders"] \cap stored["transactions"])
    /\ sync' = [sync EXCEPT ![s] = Idle]
    /\ UNCHANGED <<executed, stored, epoch, token, expired, beat, faults>>

\* Any call of the feed may raise: the broker answers with an error, or the store does.
CallFails(s) ==
    /\ sync[s].feed \in Feed
    /\ faults < MaxFaults
    /\ faults' = faults + 1
    /\ sync' = [sync EXCEPT ![s] = Failed(sync[s])]
    /\ UNCHANGED <<executed, tables, epoch, token, expired, beat>>

SyncDies(s) ==
    /\ sync[s].feed # "idle"
    /\ faults < MaxFaults
    /\ faults' = faults + 1
    /\ sync' = [sync EXCEPT ![s] = Idle]
    /\ UNCHANGED <<executed, tables, epoch, token, expired, beat>>

-----------------------------------------------------------------------------
Step(s) ==
    \/ StartSync(s)
    \/ EnsureToken(s) \/ TakeToken(s) \/ Get(s) \/ Reauthenticate(s) \/ Retry(s)
    \/ Store(s) \/ Reconcile(s)

Next ==
    \/ Execute \/ Revoke \/ TokenExpires \/ Heartbeat \/ HeartbeatTakes
    \/ \E s \in Syncer : Step(s) \/ CallFails(s) \/ SyncDies(s)

\* A sync is started again and again, and every call returns or raises.
Spec == Init /\ [][Next]_vars /\ \A s \in Syncer : WF_vars(Step(s))

-----------------------------------------------------------------------------
(* Correctness.                                                            *)

(* When a sync comes to its pass, every feed whose failure it has not noted *)
(* has stored all that was executed when the feed was begun, though the     *)
(* list grew while it was read and other feeds failed (sync_all: "a broker  *)
(* hiccup on one feed shouldn't discard the others").                       *)
CompleteUnlessFailed ==
    \A s \in Syncer : sync[s].feed = "reconcile" =>
        \A f \in Paged \ sync[s].failed : 1 .. sync[s].from[f] \subseteq stored[f]

(* A feed is given up for a refused token only when the token was revoked   *)
(* again after the request had been refused: the one retry is good against  *)
(* any number of revocations before that, and against the older tokens a    *)
(* heartbeat or another sync puts back into the client meanwhile ("re-auth  *)
(* and retry once").                                                        *)
GivenUpOnlyIfRevokedAgain ==
    [][\A s \in Syncer :
        faults' = faults /\ sync'[s].failed # sync[s].failed /\ sync'[s].feed # "idle" =>
            \/ sync[s].twice
            \/ sync[s].refused # 0 /\ epoch > sync[s].refused]_vars

(* Every execution is found by a pass with its order and its transaction in *)
(* the end: failed calls, refused tokens, statements refused for a row that *)
(* was fetched twice and dead syncs are made good by the next sync.         *)
EveryFactGrouped == \A n \in Fact : executed >= n ~> n \in grouped
=============================================================================
