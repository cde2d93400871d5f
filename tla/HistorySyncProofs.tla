------------------------- MODULE HistorySyncProofs -------------------------
(***************************************************************************)
(* What a sync of the broker's history keeps, however many syncs share the *)
(* client, however long the history and the pages are, and however often   *)
(* the token is revoked.                                                   *)
(***************************************************************************)
EXTENDS HistorySync, TLAPS

-----------------------------------------------------------------------------
(* Types.                                                                  *)

LEMMA AfterIsStep ==
    ASSUME NEW f \in Feed
    PROVE  After(f) \in Feed \cup {"reconcile"} /\ After(f) # "orders"
  BY DEF After, Feed, Paged

LEMMA IdleTyped == Idle \in Syncing
  BY HistoryAssumption DEF Idle, Syncing, Paged, Feed

LEMMA BeginTyped ==
    ASSUME TypeOK, NEW r \in Syncing, NEW f \in Feed \cup {"reconcile"}
    PROVE  Begin(r, f) \in Syncing /\ Sent(Begin(r, f))
<1> DEFINE from == IF f \in Paged THEN [r.from EXCEPT ![f] = executed] ELSE r.from
           call == IF f \in Feed THEN "token" ELSE "none"
<1>1. executed \in 0 .. MaxRows /\ epoch \in 1 .. MaxEpoch
  BY DEF TypeOK
<1>2. from \in [Paged -> 0 .. MaxRows]
  <2>1. r.from \in [Paged -> 0 .. MaxRows]
    BY DEF Syncing
  <2> QED
    BY <1>1, <2>1
<1>3. call \in {"none", "token", "granted", "get", "reauth", "retry", "store"}
  OBVIOUS
<1>4. f \in Feed \cup {"idle", "reconcile"} /\ 0 \in 0 .. MaxEpoch /\ 0 \in Nat
  BY HistoryAssumption
<1>5. r.failed \in SUBSET Feed
  BY DEF Syncing
<1>6. Begin(r, f) \in Syncing
  BY <1>2, <1>3, <1>4, <1>5 DEF Syncing, Begin
<1> QED
  BY <1>1, <1>6, HistoryAssumption DEF Begin, Sent

LEMMA FailedTyped ==
    ASSUME TypeOK, NEW r \in Syncing, r.feed \in Feed
    PROVE  Failed(r) \in Syncing /\ Sent(Failed(r))
<1>1. Begin(r, After(r.feed)) \in Syncing /\ Sent(Begin(r, After(r.feed)))
  BY BeginTyped, AfterIsStep
<1> QED
  BY <1>1 DEF Failed, Syncing, Sent

LEMMA RequestTyped ==
    ASSUME NEW r \in Syncing, NEW call \in {"granted", "get", "reauth", "retry"},
           NEW mine \in 0 .. MaxEpoch, NEW grant \in 0 .. MaxEpoch,
           mine <= epoch, grant <= epoch,
           r.refused <= epoch,
           call \in {"get", "reauth", "retry"} => mine # 0,
           call \in {"granted", "retry"} => grant # 0,
           call \in {"reauth", "retry"} => r.refused # 0,
           call = "granted" /\ mine # 0 => r.refused # 0,
           call \in {"granted", "retry"} => r.refused <= grant
    PROVE  Request(r, call, mine, grant) \in Syncing /\ Sent(Request(r, call, mine, grant))
<1>1. Request(r, call, mine, grant) \in Syncing
  BY DEF Request, Syncing
<1> QED
  BY <1>1 DEF Request, Sent

\* A refused request remembers the epoch in which it was refused.
LEMMA RefusedTyped ==
    ASSUME TypeOK, NEW r \in Syncing, Sent(r), r.mine # 0
    PROVE  LET new == [Request(r, "reauth", r.mine, 0) EXCEPT !.refused = epoch]
           IN  new \in Syncing /\ Sent(new)
<1> DEFINE new == [Request(r, "reauth", r.mine, 0) EXCEPT !.refused = epoch]
<1>1. /\ epoch \in 0 .. MaxEpoch /\ epoch # 0 /\ epoch <= epoch /\ 0 <= epoch
      /\ 0 \in 0 .. MaxEpoch
  BY HistoryAssumption DEF TypeOK
<1>2. r.mine \in 0 .. MaxEpoch /\ r.mine <= epoch
  BY DEF Syncing, Sent
<1>3. new = [feed |-> r.feed, call |-> "reauth", mine |-> r.mine, grant |-> 0,
             refused |-> epoch, page |-> r.page, got |-> r.got, twice |-> r.twice,
             from |-> r.from, failed |-> r.failed]
  BY DEF Request
<1> HIDE DEF new
<1>4. new \in Syncing
  BY <1>1, <1>2, <1>3 DEF Syncing
<1>5. Sent(new)
  BY <1>1, <1>2, <1>3 DEF Sent
<1> QED
  BY <1>4, <1>5 DEF new

LEMMA AskedTyped ==
    ASSUME TypeOK, NEW r \in Syncing, r.refused <= epoch
    PROVE  Asked(r) \in Syncing /\ Sent(Asked(r))
<1>1. /\ epoch \in 1 .. MaxEpoch /\ epoch \in 0 .. MaxEpoch /\ token \in 0 .. MaxEpoch
      /\ token <= epoch /\ 0 <= epoch /\ 0 \in 0 .. MaxEpoch /\ epoch <= epoch /\ epoch # 0
  BY HistoryAssumption DEF TypeOK
<1>2. Request(r, "granted", 0, epoch) \in Syncing /\ Sent(Request(r, "granted", 0, epoch))
  BY <1>1, RequestTyped
<1>3. ASSUME ~NeedsToken
      PROVE  Request(r, "get", token, 0) \in Syncing /\ Sent(Request(r, "get", token, 0))
  <2>1. token # 0
    BY <1>3 DEF NeedsToken
  <2> QED
    BY <1>1, <2>1, RequestTyped
<1> QED
  BY <1>2, <1>3 DEF Asked

LEMMA ArmedTyped ==
    ASSUME TypeOK, NEW r \in Syncing, Sent(r), r.call = "granted"
    PROVE  Armed(r) \in Syncing /\ Sent(Armed(r))
<1>1. /\ r.mine \in 0 .. MaxEpoch /\ r.grant \in 0 .. MaxEpoch
      /\ r.mine <= epoch /\ r.grant <= epoch /\ r.grant # 0
      /\ r.refused <= epoch /\ r.refused <= r.grant /\ (r.mine # 0 => r.refused # 0)
  BY DEF Syncing, Sent
<1>2. 0 <= epoch /\ 0 \in 0 .. MaxEpoch
  BY HistoryAssumption DEF TypeOK
<1>3. Request(r, "get", r.grant, 0) \in Syncing /\ Sent(Request(r, "get", r.grant, 0))
  BY <1>1, <1>2, RequestTyped
<1>4. ASSUME r.mine # 0
      PROVE  LET new == Request(r, "retry", r.mine, r.grant) IN new \in Syncing /\ Sent(new)
  BY <1>1, <1>4, RequestTyped
<1> QED
  BY <1>3, <1>4 DEF Armed

LEMMA PageOfTyped ==
    ASSUME TypeOK, NEW f \in Feed, NEW k \in Nat
    PROVE  PageOf(f, k) \in SUBSET (0 .. MaxRows)
  BY HistoryAssumption DEF PageOf, Fact, TypeOK

LEMMA TakePageTyped ==
    ASSUME TypeOK, NEW r \in Syncing, r.feed \in Feed
    PROVE  TakePage(r) \in Syncing /\ Sent(TakePage(r))
<1> DEFINE items == PageOf(r.feed, r.page)
           last == items = {} \/ r.page + 1 >= TotalPages(r.feed)
           call == IF last THEN "store" ELSE "token"
           twice == r.twice \/ items \cap r.got # {}
<1>1. r.page \in Nat /\ r.got \in SUBSET (0 .. MaxRows)
  BY DEF Syncing
<1>2. items \in SUBSET (0 .. MaxRows)
  BY <1>1, PageOfTyped
<1>3. call \in {"token", "store"} /\ twice \in BOOLEAN
  BY DEF Syncing
<1>4. r.page + 1 \in Nat /\ r.got \cup items \in SUBSET (0 .. MaxRows) /\ 0 \in 0 .. MaxEpoch
  BY <1>1, <1>2, HistoryAssumption
<1>5. /\ r.feed \in Feed \cup {"idle", "reconcile"} /\ r.from \in [Paged -> 0 .. MaxRows]
      /\ r.failed \in SUBSET Feed
  BY DEF Syncing
<1>6. TakePage(r) = [feed |-> r.feed, call |-> call, mine |-> 0, grant |-> 0, refused |-> 0,
                     page |-> r.page + 1, got |-> r.got \cup items, twice |-> twice,
                     from |-> r.from, failed |-> r.failed]
  BY DEF TakePage
<1> HIDE DEF items, last, call, twice
<1>7. TakePage(r) \in Syncing
  BY <1>3, <1>4, <1>5, <1>6 DEF Syncing
<1>8. epoch \in 1 .. MaxEpoch
  BY DEF TypeOK
<1> QED
  BY <1>3, <1>6, <1>7, <1>8, HistoryAssumption DEF Sent

\* A step of one sync keeps the types if what the sync comes to is typed.
LEMMA OneSyncTyped ==
    ASSUME TypeOK, NEW s \in Syncer, NEW r \in Syncing, Sent(r),
           sync' = [sync EXCEPT ![s] = r],
           UNCHANGED <<executed, epoch, beat>>,
           stored' \in [Feed -> SUBSET (0 .. MaxRows)], grouped' \in SUBSET (0 .. MaxRows),
           token' \in 0 .. epoch, expired' \in BOOLEAN, faults' \in 0 .. MaxFaults
    PROVE  TypeOK'
<1>1. sync' \in [Syncer -> Syncing]
  BY DEF TypeOK
<1>2. ASSUME NEW q \in Syncer
      PROVE  Sent(sync[q])'
  <2>1. Sent(sync'[q])
    BY DEF TypeOK
  <2> QED
    BY <2>1 DEF Sent
<1> QED
  BY <1>1, <1>2 DEF TypeOK

\* Steps that no sync takes keep the types.
LEMMA WorldTyped ==
    ASSUME TypeOK,
           Execute \/ Revoke \/ TokenExpires \/ Heartbeat \/ HeartbeatTakes \/ UNCHANGED vars
    PROVE  TypeOK'
<1>1. epoch' >= epoch /\ epoch' \in 1 .. MaxEpoch /\ sync' = sync
  BY HistoryAssumption DEF TypeOK, Execute, Revoke, TokenExpires, Heartbeat, HeartbeatTakes, vars
<1>2. ASSUME NEW s \in Syncer
      PROVE  Sent(sync[s])'
  <2>1. /\ Sent(sync[s]) /\ sync[s].mine \in Nat /\ sync[s].grant \in Nat
        /\ sync[s].refused \in Nat
    BY HistoryAssumption DEF TypeOK, Syncing
  <2> QED
    BY <1>1, <2>1, HistoryAssumption DEF Sent, TypeOK
<1>3. CASE Execute
  BY <1>1, <1>2, <1>3, HistoryAssumption DEF TypeOK, Execute, tables
<1>4. CASE Revoke
  BY <1>1, <1>2, <1>4, HistoryAssumption DEF TypeOK, Revoke, tables
<1>5. CASE TokenExpires
  BY <1>1, <1>2, <1>5 DEF TypeOK, TokenExpires, tables
<1>6. CASE Heartbeat
  BY <1>1, <1>2, <1>6, HistoryAssumption DEF TypeOK, Heartbeat, tables
<1>7. CASE HeartbeatTakes
  <2>1. token' = beat /\ expired' = FALSE /\ beat' = 0 /\ epoch' = epoch
    BY <1>7 DEF HeartbeatTakes
  <2>2. token' \in 0 .. epoch' /\ beat' \in 0 .. epoch'
    BY <2>1, HistoryAssumption DEF TypeOK
  <2>3. expired' \in BOOLEAN
    BY <2>1
  <2> QED
    BY <1>1, <1>2, <1>7, <2>2, <2>3 DEF TypeOK, HeartbeatTakes, tables
<1>8. CASE UNCHANGED vars
  BY <1>1, <1>2, <1>8 DEF TypeOK, vars
<1> QED
  BY <1>3, <1>4, <1>5, <1>6, <1>7, <1>8

\* Steps of a sync, its failures and its death keep the types.
LEMMA StepTyped ==
    ASSUME TypeOK, NEW s \in Syncer, Step(s) \/ CallFails(s) \/ SyncDies(s)
    PROVE  TypeOK'
<1> DEFINE r == sync[s]
<1>0. r \in Syncing /\ Sent(r)
  BY DEF TypeOK
<1>e. /\ epoch \in 1 .. MaxEpoch /\ MaxEpoch \in Nat /\ MaxFaults \in Nat
      /\ faults \in 0 .. MaxFaults /\ token \in 0 .. epoch /\ expired \in BOOLEAN
      /\ stored \in [Feed -> SUBSET (0 .. MaxRows)] /\ grouped \in SUBSET (0 .. MaxRows)
  BY HistoryAssumption DEF TypeOK
<1>i. Sent(Idle)
  BY <1>e DEF Sent, Idle
<1>1. CASE StartSync(s)
  <2>1. Begin(Idle, "orders") \in Syncing /\ Sent(Begin(Idle, "orders"))
    BY BeginTyped, IdleTyped DEF Feed, Paged
  <2> QED
    BY <1>1, <1>e, <2>1, OneSyncTyped DEF StartSync, tables
<1>2. CASE EnsureToken(s)
  <2>1. Asked(r) \in Syncing /\ Sent(Asked(r))
    BY <1>0, AskedTyped DEF Sent
  <2> QED
    BY <1>2, <1>e, <2>1, OneSyncTyped DEF EnsureToken, tables
<1>3. CASE TakeToken(s)
  <2>1. r.call = "granted" /\ r.grant \in 0 .. MaxEpoch
    BY <1>0, <1>3 DEF TakeToken, IsAt, Syncing
  <2>2. Armed(r) \in Syncing /\ Sent(Armed(r))
    BY <1>0, <2>1, ArmedTyped
  <2>3. token' \in 0 .. epoch /\ expired' \in BOOLEAN
    <3>1. token' = r.grant /\ expired' = FALSE
      BY <1>3 DEF TakeToken
    <3>2. r.grant <= epoch
      BY <1>0 DEF Sent
    <3>3. token' \in 0 .. epoch
      BY <1>e, <2>1, <3>1, <3>2
    <3> QED
      BY <3>1, <3>3
  <2> QED
    BY <1>3, <1>e, <2>2, <2>3, OneSyncTyped DEF TakeToken, tables
<1>4. CASE Get(s)
  <2>1. r.feed \in Feed /\ r.call = "get"
    BY <1>4 DEF Get, IsAt
  <2>2. TakePage(r) \in Syncing /\ Sent(TakePage(r))
    BY <1>0, <2>1, TakePageTyped
  <2>3. LET new == [Request(r, "reauth", r.mine, 0) EXCEPT !.refused = epoch]
        IN  new \in Syncing /\ Sent(new)
    BY <1>0, <2>1, RefusedTyped DEF Sent
  <2> QED
    BY <1>4, <1>e, <2>2, <2>3, OneSyncTyped DEF Get, tables
<1>5. CASE Reauthenticate(s)
  <2>1. /\ r.mine \in 0 .. MaxEpoch /\ r.mine <= epoch
        /\ r.refused <= epoch /\ r.refused # 0
    BY <1>0, <1>5 DEF Syncing, Sent, Reauthenticate, IsAt
  <2>2. epoch \in 0 .. MaxEpoch /\ epoch <= epoch /\ epoch # 0
    BY <1>e
  <2>3. LET new == Request(r, "granted", r.mine, epoch) IN new \in Syncing /\ Sent(new)
    BY <1>0, <2>1, <2>2, RequestTyped
  <2> QED
    BY <1>5, <1>e, <2>3, OneSyncTyped DEF Reauthenticate, tables
<1>6. CASE Retry(s)
  <2>1. r.feed \in Feed
    BY <1>6 DEF Retry, IsAt
  <2>2. TakePage(r) \in Syncing /\ Sent(TakePage(r)) /\ Failed(r) \in Syncing /\ Sent(Failed(r))
    BY <1>0, <2>1, TakePageTyped, FailedTyped
  <2> QED
    BY <1>6, <1>e, <2>2, OneSyncTyped DEF Retry, tables
<1>7. CASE Store(s)
  <2>1. r.feed \in Feed
    BY <1>7 DEF Store, IsAt
  <2>2. Failed(r) \in Syncing /\ Sent(Failed(r))
    BY <1>0, <2>1, FailedTyped
  <2>3. LET new == Begin(r, After(r.feed)) IN new \in Syncing /\ Sent(new)
    BY <1>0, <2>1, BeginTyped, AfterIsStep
  <2>4. stored' \in [Feed -> SUBSET (0 .. MaxRows)]
    <3>1. r.got \in SUBSET (0 .. MaxRows)
      BY <1>0 DEF Syncing
    <3>2. Upserted(r) \in [Feed -> SUBSET (0 .. MaxRows)]
      BY <1>e, <2>1, <3>1 DEF Upserted
    <3> QED
      BY <1>7, <1>e, <3>2 DEF Store
  <2> QED
    BY <1>7, <1>e, <2>2, <2>3, <2>4, OneSyncTyped DEF Store
<1>8. CASE Reconcile(s)
  <2>1. grouped' \in SUBSET (0 .. MaxRows)
    BY <1>8, <1>e DEF Reconcile, Feed, Paged
  <2> QED
    BY <1>8, <1>e, <1>i, <2>1, IdleTyped, OneSyncTyped DEF Reconcile
<1>9. CASE CallFails(s)
  <2>1. Failed(r) \in Syncing /\ Sent(Failed(r))
    BY <1>0, <1>9, FailedTyped DEF CallFails
  <2>2. faults' \in 0 .. MaxFaults
    BY <1>9, <1>e DEF CallFails
  <2> QED
    BY <1>9, <1>e, <2>1, <2>2, OneSyncTyped DEF CallFails, tables
<1>10. CASE SyncDies(s)
  <2>1. faults' \in 0 .. MaxFaults
    BY <1>10, <1>e DEF SyncDies
  <2> QED
    BY <1>10, <1>e, <1>i, <2>1, IdleTyped, OneSyncTyped DEF SyncDies, tables
<1> QED
  BY <1>1, <1>2, <1>3, <1>4, <1>5, <1>6, <1>7, <1>8, <1>9, <1>10 DEF Step

\* Every reachable state is typed: a request under way carries a token the
\* broker granted, and the client never holds one of an epoch to come.
THEOREM TypeCorrect == Spec => []TypeOK
<1>1. Init => TypeOK
  <2> SUFFICES ASSUME Init
               PROVE  TypeOK
    OBVIOUS
  <2>1. \A s \in Syncer : sync[s] = Idle /\ Sent(Idle)
    BY DEF Init, Idle, Sent
  <2>2. sync \in [Syncer -> Syncing]
    BY IdleTyped DEF Init
  <2>3. \A s \in Syncer : Sent(sync[s])
    BY <2>1
  <2>4. expired \in BOOLEAN /\ grouped \in SUBSET (0 .. MaxRows)
    BY DEF Init
  <2>5. stored \in [Feed -> SUBSET (0 .. MaxRows)]
    BY DEF Init
  <2>6. /\ executed \in 0 .. MaxRows /\ epoch \in 1 .. MaxEpoch /\ token \in 0 .. epoch
        /\ beat \in 0 .. epoch /\ faults \in 0 .. MaxFaults
    BY HistoryAssumption DEF Init
  <2> QED
    BY <2>2, <2>3, <2>4, <2>5, <2>6 DEF TypeOK
<1>2. TypeOK /\ [Next]_vars => TypeOK'
  BY WorldTyped, StepTyped DEF Next
<1> QED
  BY <1>1, <1>2, PTL DEF Spec

-----------------------------------------------------------------------------
(* Tokens.  A retry carries a token that was granted after the request was  *)
(* refused (Sent, in TypeOK): if the retry is refused too, the token was    *)
(* revoked in between.  A sync that is not running has failed nothing.      *)

Blank(r) == r.feed = "idle" => r.failed = {}

BlankInv == \A s \in Syncer : Blank(sync[s])

LEMMA OneSyncBlank ==
    ASSUME TypeOK, BlankInv, NEW s \in Syncer, NEW r, Blank(r), sync' = [sync EXCEPT ![s] = r]
    PROVE  BlankInv'
  BY DEF TypeOK, BlankInv

LEMMA BeginBlank ==
    ASSUME NEW r, NEW f \in Feed \cup {"reconcile"}
    PROVE  Blank(Begin(r, f)) /\ Begin(r, f).failed = r.failed
  BY DEF Begin, Blank, Feed, Paged

LEMMA FailedBlank ==
    ASSUME NEW r, r.feed \in Feed
    PROVE  Blank(Failed(r))
<1>1. After(r.feed) \in Feed \cup {"reconcile"}
  BY AfterIsStep
<1>2. Failed(r).feed = After(r.feed)
  BY DEF Failed, Begin
<1> QED
  BY <1>1, <1>2 DEF Blank, Feed, Paged

LEMMA TakePageBlank ==
    ASSUME NEW r, r.feed \in Feed
    PROVE  Blank(TakePage(r)) /\ TakePage(r).failed = r.failed
  BY DEF TakePage, Blank, Feed, Paged

\* The promise of GivenUpOnlyIfRevokedAgain about one sync.
GivesUpRightly(s) ==
    sync'[s].failed # sync[s].failed /\ sync'[s].feed # "idle" =>
        \/ sync[s].twice
        \/ sync[s].refused # 0 /\ epoch > sync[s].refused

\* Whatever a sync does without a fault, it keeps the promise.
LEMMA StepBlank ==
    ASSUME TypeOK, BlankInv, NEW s \in Syncer, Step(s)
    PROVE  BlankInv' /\ GivesUpRightly(s)
<1> DEFINE r == sync[s]
<1>0. r \in Syncing /\ Sent(r) /\ Blank(r)
  BY DEF TypeOK, BlankInv
<1>e. epoch \in Nat /\ r.grant \in Nat /\ r.refused \in Nat
  BY <1>0, HistoryAssumption DEF TypeOK, Syncing
<1>s. ASSUME NEW new, sync' = [sync EXCEPT ![s] = new]
      PROVE  sync'[s] = new
  BY <1>s DEF TypeOK
<1>1. CASE StartSync(s)
  <2>1. Blank(Begin(Idle, "orders")) /\ Begin(Idle, "orders").failed = {}
    BY BeginBlank DEF Feed, Paged, Idle
  <2>2. r.failed = {}
    BY <1>0, <1>1 DEF Blank, StartSync
  <2> QED
    BY <1>1, <1>s, <2>1, <2>2, OneSyncBlank DEF StartSync, GivesUpRightly
<1>2. CASE EnsureToken(s)
  <2>1. r.feed \in Feed
    BY <1>2 DEF EnsureToken, IsAt
  <2>2. Blank(Asked(r)) /\ Asked(r).failed = r.failed
    BY <2>1 DEF Asked, Request, Blank, Feed, Paged
  <2> QED
    BY <1>2, <1>s, <2>2, OneSyncBlank DEF EnsureToken, GivesUpRightly
<1>3. CASE TakeToken(s)
  <2>1. r.feed \in Feed
    BY <1>3 DEF TakeToken, IsAt
  <2>2. Blank(Armed(r)) /\ Armed(r).failed = r.failed
    BY <2>1 DEF Armed, Request, Blank, Feed, Paged
  <2> QED
    BY <1>3, <1>s, <2>2, OneSyncBlank DEF TakeToken, GivesUpRightly
<1>4. CASE Get(s)
  <2>1. r.feed \in Feed
    BY <1>4 DEF Get, IsAt
  <2>2. Blank(TakePage(r)) /\ TakePage(r).failed = r.failed
    BY <2>1, TakePageBlank
  <2>3. LET new == [Request(r, "reauth", r.mine, 0) EXCEPT !.refused = epoch]
        IN  Blank(new) /\ new.failed = r.failed
    BY <2>1 DEF Request, Blank, Feed, Paged
  <2> QED
    BY <1>4, <1>s, <2>2, <2>3, OneSyncBlank DEF Get, GivesUpRightly
<1>5. CASE Reauthenticate(s)
  <2>1. r.feed \in Feed
    BY <1>5 DEF Reauthenticate, IsAt
  <2>2. LET new == Request(r, "granted", r.mine, epoch)
        IN  Blank(new) /\ new.failed = r.failed
    BY <2>1 DEF Request, Blank, Feed, Paged
  <2> QED
    BY <1>5, <1>s, <2>2, OneSyncBlank DEF Reauthenticate, GivesUpRightly
<1>6. CASE Retry(s)
  <2>1. r.feed \in Feed /\ r.call = "retry"
    BY <1>6 DEF Retry, IsAt
  <2>2. Blank(TakePage(r)) /\ TakePage(r).failed = r.failed /\ Blank(Failed(r))
    BY <2>1, TakePageBlank, FailedBlank
  <2>3. CASE r.grant = epoch
    BY <1>6, <1>s, <2>2, <2>3, OneSyncBlank DEF Retry, RetryToken, GivesUpRightly
  <2>4. CASE r.grant # epoch
    <3>1. r.refused # 0 /\ epoch > r.refused
      BY <1>0, <1>e, <2>1, <2>4 DEF Sent
    <3> QED
      BY <1>6, <2>2, <2>4, <3>1, OneSyncBlank DEF Retry, RetryToken, GivesUpRightly
  <2> QED
    BY <2>3, <2>4
<1>7. CASE Store(s)
  <2>1. r.feed \in Feed
    BY <1>7 DEF Store, IsAt
  <2>2. Blank(Failed(r))
    BY <2>1, FailedBlank
  <2>3. LET new == Begin(r, After(r.feed)) IN Blank(new) /\ new.failed = r.failed
    BY <2>1, AfterIsStep, BeginBlank
  <2>4. CASE sync' = [sync EXCEPT ![s] = Begin(r, After(r.feed))]
    BY <1>s, <2>3, <2>4, OneSyncBlank DEF GivesUpRightly
  <2>5. CASE r.twice /\ sync' = [sync EXCEPT ![s] = Failed(r)]
    BY <2>2, <2>5, OneSyncBlank DEF GivesUpRightly
  <2> QED
    BY <1>7, <2>4, <2>5 DEF Store
<1>8. CASE Reconcile(s)
  <2>1. Blank(Idle) /\ Idle.feed = "idle"
    BY DEF Blank, Idle
  <2> QED
    BY <1>8, <1>s, <2>1, OneSyncBlank DEF Reconcile, GivesUpRightly
<1> QED
  BY <1>1, <1>2, <1>3, <1>4, <1>5, <1>6, <1>7, <1>8 DEF Step

\* Faults, and the steps of the rest of the world, which leave the syncs alone.
LEMMA OtherStepsBlank ==
    ASSUME TypeOK, BlankInv
    PROVE  /\ \A s \in Syncer : CallFails(s) \/ SyncDies(s) => BlankInv'
           /\ Execute \/ Revoke \/ TokenExpires \/ Heartbeat \/ HeartbeatTakes
              \/ UNCHANGED vars => BlankInv' /\ sync' = sync
<1>1. ASSUME NEW s \in Syncer, CallFails(s)
      PROVE  BlankInv'
  BY <1>1, FailedBlank, OneSyncBlank DEF CallFails
<1>2. ASSUME NEW s \in Syncer, SyncDies(s)
      PROVE  BlankInv'
  <2>1. Blank(Idle)
    BY DEF Blank, Idle
  <2> QED
    BY <1>2, <2>1, OneSyncBlank DEF SyncDies
<1>3. ASSUME Execute \/ Revoke \/ TokenExpires \/ Heartbeat \/ HeartbeatTakes \/ UNCHANGED vars
      PROVE  BlankInv' /\ sync' = sync
  BY <1>3 DEF BlankInv, Execute, Revoke, TokenExpires, Heartbeat, HeartbeatTakes, vars
<1> QED
  BY <1>1, <1>2, <1>3

\* A feed is given up for a refused token only when the token was revoked again
\* after the request's refusal, however many tokens syncs and heartbeats have put
\* into the client meanwhile, in whatever order.
THEOREM RetryMeetsOneRevocation == Spec => GivenUpOnlyIfRevokedAgain
<1>1. Init => BlankInv
  BY DEF Init, BlankInv, Blank, Idle
<1>2. TypeOK /\ BlankInv /\ [Next]_vars => BlankInv'
  BY StepBlank, OtherStepsBlank DEF Next
<1>3. TypeOK /\ BlankInv /\ [Next]_vars =>
        [\A s \in Syncer :
            faults' = faults /\ sync'[s].failed # sync[s].failed /\ sync'[s].feed # "idle" =>
                \/ sync[s].twice
                \/ sync[s].refused # 0 /\ epoch > sync[s].refused]_vars
  <2> SUFFICES ASSUME TypeOK, BlankInv, Next, NEW s \in Syncer, faults' = faults
               PROVE  GivesUpRightly(s)
    BY DEF GivesUpRightly
  <2>1. ASSUME NEW q \in Syncer, Step(q)
        PROVE  GivesUpRightly(s)
    <3>1. CASE q = s
      BY <2>1, <3>1, StepBlank
    <3>2. CASE q # s
      <4>1. sync'[s] = sync[s]
        BY <2>1, <3>2 DEF TypeOK, Step, StartSync, EnsureToken, TakeToken, Get, Reauthenticate,
                          Retry, Store, Reconcile
      <4> QED
        BY <4>1 DEF GivesUpRightly
    <3> QED
      BY <3>1, <3>2
  <2>2. ASSUME NEW q \in Syncer, CallFails(q) \/ SyncDies(q)
        PROVE  FALSE
    BY <2>2, HistoryAssumption DEF CallFails, SyncDies, TypeOK
  <2>3. ASSUME sync' = sync
        PROVE  GivesUpRightly(s)
    BY <2>3 DEF GivesUpRightly
  <2> QED
    BY <2>1, <2>2, <2>3, OtherStepsBlank DEF Next
<1> QED
  BY <1>1, <1>2, <1>3, TypeCorrect, PTL DEF Spec, GivenUpOnlyIfRevokedAgain

-----------------------------------------------------------------------------
(* Completeness.  The list moves down while it is read, so the rows a sync *)
(* has before page k are, of those the feed was begun with, the ones that  *)
(* are above place k * PerPage of the list as it is now.                   *)

\* Once the sync is at a step, the feed is behind it.
Past(f, feed) ==
    IF f = "orders" THEN feed \in {"transactions", "positions", "balances", "reconcile"}
    ELSE feed \in {"positions", "balances", "reconcile"}

Covered(r, e, S) ==
    /\ \A f \in Paged : r.from[f] <= e
    /\ r.feed \in Paged /\ r.call # "store" =>
            \A n \in 1 .. r.from[r.feed] : n > e - r.page * PerPage => n \in r.got
    /\ r.feed \in Paged /\ r.call = "store" => 1 .. r.from[r.feed] \subseteq r.got
    /\ \A f \in Paged \ r.failed : Past(f, r.feed) => 1 .. r.from[f] \subseteq S[f]

HistoryInv == \A s \in Syncer : Covered(sync[s], executed, stored)

LEMMA PlacesTyped ==
    ASSUME NEW r \in Syncing
    PROVE  r.page * PerPage \in Nat /\ (r.page + 1) * PerPage = r.page * PerPage + PerPage
  BY HistoryAssumption DEF Syncing

\* What is executed and stored meanwhile takes nothing away.
LEMMA CoveredStays ==
    ASSUME NEW r \in Syncing, NEW e \in Nat, NEW d \in Nat, d >= e, NEW S, NEW T,
           \A f \in Paged : S[f] \subseteq T[f], Covered(r, e, S)
    PROVE  Covered(r, d, T)
<1> DEFINE place == r.page * PerPage
<1>1. place \in Nat
  BY PlacesTyped
<1>2. \A f \in Paged : r.from[f] \in Nat
  BY HistoryAssumption DEF Syncing
<1>3. \A n \in Nat : n > d - place => n > e - place
  <2> HIDE DEF place
  <2> QED
    BY <1>1
<1>4. \A f \in Paged : r.from[f] <= d
  BY <1>2 DEF Covered
<1>5. r.feed \in Paged /\ r.call # "store" =>
        \A n \in 1 .. r.from[r.feed] : n > d - place => n \in r.got
  <2> SUFFICES ASSUME r.feed \in Paged, r.call # "store", NEW n \in 1 .. r.from[r.feed],
                      n > d - place
               PROVE  n \in r.got
    OBVIOUS
  <2>1. n \in Nat
    BY <1>2
  <2>2. n > e - place
    BY <1>3, <2>1
  <2> QED
    BY <2>2 DEF Covered
<1> QED
  BY <1>4, <1>5 DEF Covered

\* A page leaves nothing out: what was not above it is on it or below it.
LEMMA PageCovers ==
    ASSUME TypeOK, NEW r \in Syncing, r.feed \in Paged, NEW n \in 1 .. executed,
           n > executed - (r.page + 1) * PerPage
    PROVE  n > executed - r.page * PerPage \/ n \in PageOf(r.feed, r.page)
<1> DEFINE place == r.page * PerPage
           j == executed - place - n
<1>1. place \in Nat /\ (r.page + 1) * PerPage = place + PerPage
  BY PlacesTyped
<1>2. executed \in 0 .. MaxRows /\ PerPage \in Nat /\ MaxRows \in Nat
  BY HistoryAssumption DEF TypeOK
<1> SUFFICES ASSUME ~(n > executed - place)
             PROVE  n \in PageOf(r.feed, r.page)
  OBVIOUS
<1>3. j \in 0 .. PerPage - 1 /\ n = executed - place - j
  <2> HIDE DEF place
  <2> QED
    BY <1>1, <1>2
<1>4. n \in Fact
  BY <1>2 DEF Fact
<1> HIDE DEF j
<1> QED
  BY <1>3, <1>4 DEF PageOf

\* After the last page there is nothing below.
LEMMA LastPageCovers ==
    ASSUME TypeOK, NEW r \in Syncing, r.feed \in Paged, NEW n \in Nat \ {0},
           PageOf(r.feed, r.page) = {} \/ r.page + 1 >= TotalPages(r.feed)
    PROVE  n > executed - (r.page + 1) * PerPage
<1> DEFINE place == r.page * PerPage
           total == (executed + PerPage - 1) \div PerPage
<1>1. place \in Nat /\ (r.page + 1) * PerPage = place + PerPage
  BY PlacesTyped
<1>2. /\ executed \in Nat /\ executed <= MaxRows /\ MaxRows \in Nat
      /\ PerPage \in Nat /\ PerPage >= 1 /\ r.page + 1 \in Nat
  BY HistoryAssumption DEF TypeOK, Syncing
<1>3. CASE PageOf(r.feed, r.page) = {}
  <2>1. executed - place - 0 \notin Fact
    <3>1. 0 \in 0 .. PerPage - 1
      BY <1>2
    <3> QED
      BY <1>3, <3>1 DEF PageOf
  <2> HIDE DEF place
  <2>2. executed - place <= 0
    BY <1>1, <1>2, <2>1 DEF Fact
  <2> QED
    BY <1>1, <1>2, <2>2
<1>4. CASE r.page + 1 >= total
  <2>1. executed + PerPage - 1 < (total + 1) * PerPage /\ total \in Nat
    BY <1>2
  <2>2. (total + 1) * PerPage = total * PerPage + PerPage /\ total * PerPage \in Nat
    BY <1>2, <2>1
  <2>3. (r.page + 1) * PerPage >= total * PerPage
    <3> DEFINE k == r.page + 1
    <3>1. k \in Nat /\ k >= total
      BY <1>2, <1>4
    <3> HIDE DEF k, total
    <3> QED
      BY <1>2, <2>1, <3>1 DEF k
  <2> DEFINE below == (r.page + 1) * PerPage
             above == total * PerPage
  <2>4. below \in Nat
    BY <1>1, <1>2
  <2> HIDE DEF below, above, total
  <2>5. executed <= above
    BY <1>2, <2>1, <2>2 DEF above
  <2> QED
    BY <1>2, <2>2, <2>3, <2>4, <2>5 DEF above, below
<1> QED
  BY <1>3, <1>4 DEF TotalPages

LEMMA TakePageCovered ==
    ASSUME TypeOK, NEW r \in Syncing, r.feed \in Feed, r.call # "store",
           Covered(r, executed, stored)
    PROVE  Covered(TakePage(r), executed, stored)
<1> DEFINE new == TakePage(r)
           items == PageOf(r.feed, r.page)
           last == items = {} \/ r.page + 1 >= TotalPages(r.feed)
<1>1. /\ new.feed = r.feed /\ new.from = r.from /\ new.failed = r.failed
      /\ new.page = r.page + 1 /\ new.got = r.got \cup items
      /\ new.call = IF last THEN "store" ELSE "token"
  BY DEF TakePage
<1>2. \A f \in Paged : r.from[f] \in Nat /\ r.from[f] <= executed
  BY HistoryAssumption DEF Covered, Syncing
<1>3. executed \in Nat
  BY HistoryAssumption DEF TypeOK
<1> HIDE DEF new, items, last
<1>4. ASSUME r.feed \in Paged, NEW n \in 1 .. r.from[r.feed],
             n > executed - (r.page + 1) * PerPage
      PROVE  n \in r.got \cup items
  <2>1. n \in 1 .. executed
    BY <1>2, <1>3, <1>4
  <2>2. n > executed - r.page * PerPage \/ n \in items
    BY <1>4, <2>1, PageCovers DEF items
  <2> QED
    BY <1>4, <2>2 DEF Covered
<1>5. ASSUME r.feed \in Paged, last, NEW n \in 1 .. r.from[r.feed]
      PROVE  n \in r.got \cup items
  <2>1. n \in Nat \ {0}
    BY <1>2, <1>5
  <2>2. n > executed - (r.page + 1) * PerPage
    BY <1>5, <2>1, LastPageCovers DEF last, items
  <2> QED
    BY <1>4, <1>5, <2>2
<1>6. new.feed \in Paged /\ new.call # "store" =>
        \A n \in 1 .. new.from[new.feed] : n > executed - new.page * PerPage => n \in new.got
  BY <1>1, <1>4
<1>7. new.feed \in Paged /\ new.call = "store" => 1 .. new.from[new.feed] \subseteq new.got
  BY <1>1, <1>5
<1>8. \A f \in Paged \ new.failed : Past(f, new.feed) => 1 .. new.from[f] \subseteq stored[f]
  BY <1>1 DEF Covered
<1> QED
  BY <1>1, <1>2, <1>6, <1>7, <1>8 DEF Covered, new

\* The next feed is begun: the one that is left is stored, or noted as failed.
LEMMA NextFeedCovered ==
    ASSUME TypeOK, NEW r \in Syncing, r.feed \in Feed, NEW S, Covered(r, executed, S),
           NEW b,
           b = Begin(r, After(r.feed)) \/ b = Failed(r),
           r.feed \in Paged /\ b # Failed(r) => 1 .. r.from[r.feed] \subseteq S[r.feed]
    PROVE  Covered(b, executed, S)
<1> DEFINE next == After(r.feed)
<1>1. /\ b.feed = next /\ b.call # "store" /\ b.page = 0
      /\ b.from = IF next \in Paged THEN [r.from EXCEPT ![next] = executed] ELSE r.from
  BY DEF Begin, Failed
<1>2. r.failed \subseteq b.failed /\ (b = Failed(r) => r.feed \in b.failed)
  BY DEF Begin, Failed
<1>3. executed \in Nat /\ r.from \in [Paged -> 0 .. MaxRows]
  BY HistoryAssumption DEF TypeOK, Syncing
<1>4. \A f \in Paged : b.from[f] <= executed
  BY <1>1, <1>3 DEF Covered
<1>5. ASSUME b.feed \in Paged, NEW n \in 1 .. b.from[b.feed], n > executed - b.page * PerPage
      PROVE  n \in b.got
  <2>1. b.from[b.feed] = executed
    BY <1>1, <1>3, <1>5
  <2>2. b.page * PerPage = 0
    BY <1>1, HistoryAssumption
  <2> QED
    BY <1>3, <1>5, <2>1, <2>2
<1>6. ASSUME NEW f \in Paged \ b.failed, Past(f, b.feed)
      PROVE  1 .. b.from[f] \subseteq S[f]
  <2>1. f # next
    BY <1>1, <1>6 DEF Past, After, Paged
  <2>2. b.from[f] = r.from[f]
    BY <1>1, <1>3, <2>1
  <2>3. CASE f = r.feed
    BY <1>2, <1>6, <2>2, <2>3
  <2>4. CASE f # r.feed
    <3>1. Past(f, r.feed)
      BY <1>1, <1>6, <2>1, <2>4 DEF Past, After, Feed, Paged
    <3> QED
      BY <1>2, <1>6, <2>2, <3>1 DEF Covered
  <2> QED
    BY <2>3, <2>4
<1> QED
  BY <1>1, <1>4, <1>5, <1>6 DEF Covered

\* A request says nothing of rows.
LEMMA RequestCovered ==
    ASSUME NEW r, NEW call \in {"granted", "get", "reauth", "retry"}, NEW mine, NEW grant,
           r.call # "store", Covered(r, executed, stored)
    PROVE  Covered(Request(r, call, mine, grant), executed, stored)
  BY DEF Request, Covered

\* One sync moves, and the tables only gain rows.
LEMMA OneSyncCovered ==
    ASSUME TypeOK, HistoryInv, NEW s \in Syncer, NEW r,
           sync' = [sync EXCEPT ![s] = r], executed' = executed,
           \A f \in Paged : stored[f] \subseteq stored'[f],
           Covered(r, executed, stored')
    PROVE  HistoryInv'
<1> SUFFICES ASSUME NEW q \in Syncer
             PROVE  Covered(sync'[q], executed', stored')
  BY DEF HistoryInv
<1>1. CASE q = s
  BY <1>1 DEF TypeOK
<1>2. CASE q # s
  <2>1. sync'[q] = sync[q] /\ sync[q] \in Syncing
    BY <1>2 DEF TypeOK
  <2>2. executed \in Nat
    BY HistoryAssumption DEF TypeOK
  <2>3. Covered(sync[q], executed, stored')
    BY <2>1, <2>2, CoveredStays DEF HistoryInv
  <2> QED
    BY <2>1, <2>3
<1> QED
  BY <1>1, <1>2

LEMMA IdleCovered ==
    ASSUME NEW S, NEW e \in Nat
    PROVE  Covered(Idle, e, S)
  BY DEF Covered, Idle, Paged, Past

LEMMA StepCovered ==
    ASSUME TypeOK, HistoryInv, NEW s \in Syncer, Step(s) \/ CallFails(s) \/ SyncDies(s)
    PROVE  HistoryInv'
<1> DEFINE r == sync[s]
<1>0. r \in Syncing /\ Covered(r, executed, stored)
  BY DEF TypeOK, HistoryInv
<1>e. executed \in Nat
  BY HistoryAssumption DEF TypeOK
<1>1. CASE StartSync(s)
  <2> DEFINE new == Begin(Idle, "orders")
  <2>1. /\ new.feed = "orders" /\ new.call = "token" /\ new.page = 0
        /\ new.from = [[f \in Paged |-> 0] EXCEPT !["orders"] = executed]
    BY DEF Begin, Idle, Feed, Paged
  <2> HIDE DEF new
  <2>2. new.from["orders"] = executed /\ \A f \in Paged : new.from[f] <= executed
    BY <1>e, <2>1 DEF Paged
  <2>3. new.page * PerPage = 0
    BY <2>1, HistoryAssumption
  <2>4. \A n \in 1 .. executed : ~(n > executed - 0)
    BY <1>e
  <2>5. \A f \in Paged : ~Past(f, "orders")
    BY DEF Past
  <2>6. Covered(new, executed, stored)
    BY <2>1, <2>2, <2>3, <2>4, <2>5 DEF Covered
  <2> QED
    BY <1>1, <2>6, OneSyncCovered DEF StartSync, tables, new
<1>2. CASE EnsureToken(s)
  <2>1. r.call # "store"
    BY <1>2 DEF EnsureToken, IsAt
  <2>2. Covered(Asked(r), executed, stored)
    BY <1>0, <2>1, RequestCovered DEF Asked
  <2> QED
    BY <1>2, <2>2, OneSyncCovered DEF EnsureToken, tables
<1>3. CASE TakeToken(s)
  <2>1. r.call # "store"
    BY <1>3 DEF TakeToken, IsAt
  <2>2. Covered(Armed(r), executed, stored)
    BY <1>0, <2>1, RequestCovered DEF Armed
  <2> QED
    BY <1>3, <2>2, OneSyncCovered DEF TakeToken, tables
<1>4. CASE Get(s)
  <2>1. r.feed \in Feed /\ r.call # "store"
    BY <1>4 DEF Get, IsAt
  <2>2. Covered(TakePage(r), executed, stored)
    BY <1>0, <2>1, TakePageCovered
  <2>3. Covered([Request(r, "reauth", r.mine, 0) EXCEPT !.refused = epoch], executed, stored)
    <3>1. Covered(Request(r, "reauth", r.mine, 0), executed, stored)
      BY <1>0, <2>1, RequestCovered
    <3> QED
      BY <3>1 DEF Request, Covered
  <2> QED
    BY <1>4, <2>2, <2>3, OneSyncCovered DEF Get, tables
<1>5. CASE Reauthenticate(s)
  <2>1. r.call # "store"
    BY <1>5 DEF Reauthenticate, IsAt
  <2>2. Covered(Request(r, "granted", r.mine, epoch), executed, stored)
    BY <1>0, <2>1, RequestCovered
  <2> QED
    BY <1>5, <2>2, OneSyncCovered DEF Reauthenticate, tables
<1>6. CASE Retry(s)
  <2>1. r.feed \in Feed /\ r.call # "store"
    BY <1>6 DEF Retry, IsAt
  <2>2. Covered(TakePage(r), executed, stored)
    BY <1>0, <2>1, TakePageCovered
  <2>3. Covered(Failed(r), executed, stored)
    BY <1>0, <2>1, NextFeedCovered
  <2> QED
    BY <1>6, <2>2, <2>3, OneSyncCovered DEF Retry, tables
<1>7. CASE Store(s)
  <2>1. r.feed \in Feed /\ r.call = "store"
    BY <1>7 DEF Store, IsAt
  <2>2. CASE stored' = stored /\ sync' = [sync EXCEPT ![s] = Failed(r)]
    <3>1. Covered(Failed(r), executed, stored)
      BY <1>0, <2>1, NextFeedCovered
    <3>2. executed' = executed
      BY <1>7 DEF Store
    <3> QED
      BY <2>2, <3>1, <3>2, OneSyncCovered
  <2>3. CASE stored' = Upserted(r) /\ sync' = [sync EXCEPT ![s] = Begin(r, After(r.feed))]
    <3> DEFINE new == Begin(r, After(r.feed))
    <3>1. stored' = Upserted(r) /\ executed' = executed /\ sync' = [sync EXCEPT ![s] = new]
      BY <1>7, <2>3 DEF Store
    <3>2. \A f \in Paged : stored[f] \subseteq stored'[f]
      BY <3>1 DEF Upserted, Paged, Feed, TypeOK
    <3>3. r.feed \in Paged => 1 .. r.from[r.feed] \subseteq stored'[r.feed]
      <4>1. r.feed \in Paged => r.got \subseteq stored'[r.feed]
        BY <3>1 DEF Upserted, Paged, Feed, TypeOK
      <4> QED
        BY <1>0, <2>1, <4>1 DEF Covered
    <3>4. Covered(r, executed, stored')
      BY <1>0, <1>e, <3>2, CoveredStays
    <3>5. Covered(new, executed, stored')
      BY <1>0, <2>1, <3>3, <3>4, NextFeedCovered
    <3> QED
      BY <3>1, <3>2, <3>5, OneSyncCovered
  <2> QED
    BY <1>7, <2>2, <2>3 DEF Store
<1>8. CASE Reconcile(s)
  <2>1. Covered(Idle, executed, stored')
    BY <1>e, IdleCovered
  <2> QED
    BY <1>8, <2>1, OneSyncCovered DEF Reconcile
<1>9. CASE CallFails(s)
  <2>1. Covered(Failed(r), executed, stored)
    BY <1>0, <1>9, NextFeedCovered DEF CallFails
  <2> QED
    BY <1>9, <2>1, OneSyncCovered DEF CallFails, tables
<1>10. CASE SyncDies(s)
  <2>1. Covered(Idle, executed, stored')
    BY <1>e, IdleCovered
  <2> QED
    BY <1>10, <2>1, OneSyncCovered DEF SyncDies, tables
<1> QED
  BY <1>1, <1>2, <1>3, <1>4, <1>5, <1>6, <1>7, <1>8, <1>9, <1>10 DEF Step

\* The list may only grow.
LEMMA WorldCovered ==
    ASSUME TypeOK, HistoryInv,
           Execute \/ Revoke \/ TokenExpires \/ Heartbeat \/ HeartbeatTakes \/ UNCHANGED vars
    PROVE  HistoryInv'
<1>1. sync' = sync /\ stored' = stored /\ executed \in Nat /\ executed' \in Nat
      /\ executed' >= executed
  BY HistoryAssumption
     DEF TypeOK, Execute, Revoke, TokenExpires, Heartbeat, HeartbeatTakes, vars, tables
<1> SUFFICES ASSUME NEW s \in Syncer
             PROVE  Covered(sync'[s], executed', stored')
  BY DEF HistoryInv
<1>2. sync[s] \in Syncing
  BY DEF TypeOK
<1> QED
  BY <1>1, <1>2, CoveredStays DEF HistoryInv

\* What a sync has not noted as failed is complete when its pass begins.
THEOREM SyncIsComplete == Spec => []CompleteUnlessFailed
<1>1. Init => HistoryInv
  <2> SUFFICES ASSUME Init, NEW s \in Syncer
               PROVE  Covered(sync[s], executed, stored)
    BY DEF HistoryInv
  <2>1. sync[s] = Idle /\ executed \in Nat
    BY DEF Init
  <2> QED
    BY <2>1, IdleCovered
<1>2. TypeOK /\ HistoryInv /\ [Next]_vars => HistoryInv'
  BY StepCovered, WorldCovered DEF Next
<1>3. HistoryInv => CompleteUnlessFailed
  BY DEF HistoryInv, CompleteUnlessFailed, Covered, Past
<1> QED
  BY <1>1, <1>2, <1>3, TypeCorrect, PTL DEF Spec
=============================================================================
