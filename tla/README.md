# A verification development for tt-ledger

tt-ledger keeps a broker account's history in a relational ledger: orders,
transactions, positions, and *trade groups*, the round trips a trader thinks in.
This directory models the parts of it whose correctness depends on order,
interleaving and failure; TLC checks the models on small accounts and TLAPS proves
the central invariants for accounts of any size. Paths such as `reconcile.py:914`
are relative to `src/tt_ledger/ingest/` unless they name another directory.

## 1. Inventory of the system

| Component | State it keeps | Operations | Interacts through | What is hard | What makes it correct |
|---|---|---|---|---|---|
| REST sync (`pull.py`) | none of its own | `sync_orders`, `sync_transactions`, `sync_positions`, `sync_all` | upserts into the store, then a reconcile pass | re-sends rows it sent before; orders and transactions come separately; a window overlaps the last | a re-sent row wipes no link (ClaimIsFinal, LinkageKept) |
| Reconcile pass (`reconcile.py`) | coroutine locals: candidates, member lists of the open groups, rows read and to be written back | link, snapshot, load, route, create, attach, exit, roll links, heal | one awaited store call after another | a pass starts after every sync and every fill, so passes overlap; any call may fail; every local may be stale | NoDoubleCount, ClaimIsFinal, ExitOnce, OneLossPerDeath, SettledBooks, SettledIsStable, StampIsComplete, EveryRowGrouped, FlatGroupsClose |
| Group book (`reconcile.py:604-760`) | pure | net walk, fully closed, causes, terminal status | called by reconcile, the detectors and remap | closes clamp at what the group holds; bare futures trades close or open by context | NetIsLargestExcess, GroupsSumToAccount, LegsMatchBook |
| Routing (`reconcile.py:882-1128, 1292-1340`) | pure | clusters, draw-down, membership fallback, roll and delivery tests | called by reconcile | several closes of one cluster over several groups with the same security | DrawDownConserves, NoLotStranded, RollsGoForward |
| Lapse synthesis (`reconcile.py:100-280`) | none | invents the settlement a broker never sent | writes member rows, then exits | sibling groups that net to zero at the account; the broker may send it later; a crash between its two halves | NoLotOverdue, OverdueLotsSettle, FlatGroupsClose; SettlementHasItsLot and CappedByAccount fail |
| Detectors (`find_misattributed_open_groups`, `find_orphan_settlement_groups`) | none | reports | read-only | one fill closes lots of several groups and is attached to one | StuckGroupIsPaired |
| Classification (`compute_group_fields`, strategy names) | none | labels | read-only | none | not modelled |
| Order repository (`repositories/__init__.py`) | none | `upsert_from_history`, `_build_order_row`, `apply_fill_event` | read a row, await, write the whole row | stale reads between host, syncs, stream, pass and operator | LinkageKept, Converges, CarriesGroup |
| Transaction, position, balance repositories | none | upserts; a position is read, then written whole | store | re-sent rows, late messages about a position, positions the broker no longer lists | ClaimIsFinal, Settles |
| Stream consumer (`push.py`) | balance throttle | apply a message, skip on failure | source iterator, store | a failed message is acknowledged | Delivers |
| Redis stream source (`redis_stream_source.py`) | connection, reclaim clock, batch | group read, claim of stale entries, acknowledge, reconnect | Redis consumer group | death before the XACK, a read that timed out after it was served, trimming, two daemons | Delivers, SteadyOrder |
| Redis pub/sub source, account streamer | connection | iterate messages | transport | lossy by design | none claimed |
| REST client (`tastytrade_client.py`) | token and its expiry, shared by all callers | pages, one retry after a refusal | HTTP; the account streamer's heartbeat takes its token from here | pages by offset over a list that grows at the front; tokens granted to one caller and replaced by another | CompleteUnlessFailed, GivenUpOnlyIfRevokedAgain, EveryFactGrouped |
| Operator actions (`remap.py`) | none | remap, regroup, link order, dismiss, mark unfilled | move rows, recompute groups | race with passes; several groups recomputed one by one | RegroupSettles, FlatGroupsClose; OnlyRegroupMoves fails |
| Replay (`replay.py`) | none | average-cost lots from transactions, rebuild of positions and closed positions, price-based profit of a group | store | ties in time; flips through zero; two grains that must agree; nothing is deleted | GroupsSumToAccount, WalksAgree, ContractsAndFeesOnce, ProfitFollowsBook, ClosedOnce, FreshBook, ClosedStaysTrue, GroupOfCloser |
| Ledger store (`store/`) | every table | one database transaction per call | all of the above | whole-row upserts, preserved linkage columns | in every model |
| Views and folds (`rows.py`), SDK (`sdk.py`) | none | queries, `open_trade_group`, `record_order` | store | the host writes an order and its legs in two calls; a settlement of two rows is one event | Converges, LegsMatchBook |
| Identity, money, schema, configuration, API, CLI | name caches | parse, format, declare | | none | not modelled |

How they work together: the host platform announces a trade
(`open_trade_group`), records the order it submits (`record_order`), and the
broker executes it. The stream delivers status messages about it, at least once;
the timer-driven syncs deliver the authoritative orders, and the transactions.
After each of them a reconcile pass links transactions to orders, groups what is
new, closes what is flat. Operators correct attributions. All of them share the
tables and nothing else: there is no lock and no transaction that spans two calls.

`PROJECT.json` lists the hazards line by line, with the property that would catch
each or the reason there is none yet.

## 2. Modules

```
GroupBook ── Routing ── LedgerTables ── Reconcile ── Lapse ── Operator ── MCOperator
    │           │            │              │
    │           │            │          MCReconcile
    │           │            │          ReconcileProofs ── OperatorProofs
    │           │
    ├── Lots ─── Detectors ┐
    ├── OpenLegs ──────────┴── Netting ── MCNetting
    │                             └────── NettingProofs
    │
    └── Lots ── Rebuild ───┐              (Rebuild ── NettingProofs, too)
                           ├── MCPositions
    PositionBook ──────────┘       PositionBook ── PositionBookProofs

GroupBook ── BookProofs ── ReconcileProofs, NettingProofs
AtLeastOnce ··(implemented by)·· StreamDelivery ── StreamProofs
OrderRow ── OrderRowProofs          HistorySync ── HistorySyncProofs
```

**GroupBook** holds the rows of an account (`Row`, a constant list in execution
order) and the pure functions on a set of them: `_group_net_step` is `Moves` (does
it return a number) and `NetAfter` (which), `_net_quantities` the fold
`NetQuantities`, `_fully_closed` is `FullyClosed`, `_close_causes` is `CloseCauses`.
The fold is a recursive *function* over positions of the list.

**Routing** is `_cluster_by_time` (only the first cluster of what remains is ever
needed), `_route_cluster` with its inner `_draw_down`, and the tests that decide
which group continues another.

**LedgerTables** has one variable per table column that grouping uses, and one
operator per `LedgerStore` call; each call is atomic, as each opens and commits its
own database transaction (`store/sql.py`). A sum stamped on a group (premium, fees,
profit) is represented by *how many times it counts each row*. That is precisely
what distinguishes a correct total from a doubled or incomplete one, and it frees the
model from amounts. `opened` remembers which group the host opened for an intent.

**Reconcile** is `reconcile()`. Each action is one store call with the local work up
to the next call; the locals are variables indexed by pass. `BeginPass`, `LinkOrders`,
`Snapshot`, `ListOpen`, `LoadRows` are lines 796-829; `TakeCluster` and the
`fill`/`exit` jobs of phase "intent" are `_apply_intent_rows`; `Route`, `Create*`,
`ExitAttach`, `EmitEvent`, `Stamp` the body of the cluster loop; `LinkRoll` the roll
post-pass; `HealRead` and `HealWrite` the heal; `AbortPass` the `except` at line 870,
or the death of the process. The jobs of a cluster are done in the order of the
code's dictionaries: by first row, fills before exits, the new group first. The feed
(syncs and the host) may write between any two actions. Four variables are not in
the code, and no action's guard but the bounds reads them: `lone` (no other pass has been
in flight since this one began), `quiet` (nor has anybody else written), `settled` (a
quiet pass has ended, and nobody has written since) and `aborts`.
`Overlap = FALSE` makes passes wait for each other; the code does not, and every theorem
is about a pass that may find others beside it.

**Lapse** is `synthesize_lapsed_settlements`, which runs inside a pass between the
linking and the snapshot. It loads the open groups with the pass's own `ListOpen` and
`LoadRows` (`ReadClock` starts them), writes the synthesised rows as members in one
call (`Synthesise`), and retires the lots with the pass's own exit steps, before the
pass takes its snapshot (`EndLapse`). A synthesised row has an id made of its group
and its security, so the rows that may be synthesised are rows of the account
(`SettledGroup`) that nobody else puts in the table. The clock is the account's latest
activity, read once; `known` are the settlement prices the host can resolve by now.

**Operator** is `remap.py` beside passes, lapses and feed. A command is a coroutine
(`call`); each of its store calls is a step. `ReadTarget`/`WriteTarget` are the group
it creates or claims, `RegroupMove` the one statement that moves the rows,
`RegroupReadGroup`, `RegroupReadActivity`, `RegroupWriteGroup` the loop over the groups
to recompute, `CheckEmpty`/`MarkWrite` the check and the write of `mark_unfilled`.

**OpenLegs** is what hosts are told of a group: `fold_open_group_legs` (`rows.py`),
its SQL counterpart `net_open_by_group`, and `open_position_shares` of the SDK, none
of which walks the rows in order.

**Lots** is the account's own book, `replay.py`: `_effective_delta_price`
(`EffectiveDelta`), replay's order (`_closes_last`, `Replayed`), and the three walks
in that order: `_replay_security` (`ReplaySecurity`: the open lot and the lifecycles
completed), `net_open_quantities` (`NetOpenQuantity`) and `price_realized_gross` as
`_group_realized` calls it (`PriceRealized`). `net_open_quantities` has the rules of
`_effective_delta_price` written out once more (`replay.py:197-211`), and so has the
model (`IsSkipped`, `NetDelta`): WalksAgree compares two texts, as it should. Prices are replaced by the contracts a
lot opened and realised, fees by the rows charged.

**Rebuild** adds what a rebuild makes of a set of rows: the lot, the lifecycles to be
written, the rows to be marked, and `_lapse_expired_lot`.

**PositionBook** is the write side of `rebuild_positions_from_transactions` for one
contract, one store call at a time (`StartRebuild`, `ReadExisting`, `RebuildPosition`,
then `LookUp` and `Put` per lifecycle, `LinkRows`), beside everybody else who writes
the position: syncs and stream messages (`FetchPosition`, `ReceivePosition`,
`ReadPosition`, `WritePosition`), an operator's attribution (`RemapReads`), and the
pass that gives closed positions a group (`LinkClosedPositions`). It takes the replay as a
constant function, so what is proved of it holds for any replay; MCPositions gives it
the one Rebuild computes. Rebuilds may overlap; `lone` remembers which ones have not.

**Detectors** is `_peak_exposures`, `_over_closing_groups` and the two reports with
their `covered_by`.

**Netting** exercises GroupBook, Routing, Lots, OpenLegs and Detectors alone, over every
membership that can arise: rows are attached in any order, then a cluster arrives.

**HistorySync** is `sync_all` over the REST client: feed after feed, token, request,
re-authentication, one retry, page after page, one upsert per feed, then the pass. The
broker goes on executing, which shifts the pages (newest first), and revokes tokens.
The client's token is shared, by syncs and by the heartbeat of the account streamer; a
token is *granted* (the broker answers) and *taken* (the client assigns it) in two
steps, so that two grants may be taken in either order. A token is the number of its
epoch.

**StreamDelivery** is `RedisStreamMessageSource.messages` driving
`StreamConsumer.run`, one per consumer; the server (stream, last-delivered id,
pending entries, idle times, trimming) is external and modelled from the calls
made to it. **AtLeastOnce** is the abstract contract of the module's docstring.

**OrderRow** is one row of `orders` with all who write it. The broker's facts are one
number, the version of the order they describe; the linkage columns are kept apart
as far as the code treats them differently.

## 3. What is checked

| Run | Question | Result |
|---|---|---|
| lifecycle | serial passes over two rolls, an assignment and a delivery; one order late, a pass may die anywhere | types, RollsGoForward, SettledBooks, ClaimIsFinal hold; EveryRowGrouped in the end |
| overlap | two passes in flight over a round trip the host announced or not, every interleaving of their store calls, one death in the middle of a cluster's writes | NoDoubleCount, OneLossPerDeath, SettledBooks and SettledIsStable hold; ExitOnce and StampIsComplete of the passes nobody overlaps |
| netting | all spreads of nine rows over two groups and a cluster | book, draw-down, account, profit, legs and reports agree (proved for every account) |
| operator | sibling groups with an expired contract, one command, a crash | NoLotOverdue, RegroupSettles hold; FlatGroupsClose, OverdueLotsSettle in the end |
| positions | two rebuilds that may overlap and die, a sync or stream, an operator and late rows | ClosedOnce of the rebuilds nobody overlaps, FreshBook, ClosedStaysTrue, GroupOfCloser hold; Settles in the end |
| history | a sync over growing histories, revoked tokens and a heartbeat | CompleteUnlessFailed, GivenUpOnlyIfRevokedAgain hold; EveryFactGrouped in the end |
| stream | two consumers, crashes, lost responses, trimming | implements AtLeastOnce; SteadyOrder holds |
| orders | one order, every writer | LinkageKept holds; Converges, CarriesGroup in the end |
| latefill | ClosedIsStamped with fills that arrive late | **violated** |
| claim | OnlyRegroupMoves when an operator takes a row a pass has as a candidate | **violated** |
| latesettle | SettlementHasItsLot when the broker's settlement comes after a synthesised one | **violated** |
| siblings | CappedByAccount, the rule of `docs/ingestion.md`, over two siblings in opposite directions | **violated** |

### What the violations show

* **latefill**: a fill that arrives after its announced group was closed joins it;
  premium and fees are refreshed, `realized_pnl` is not, and nothing looks at a
  closed group again. StampIsComplete, which holds, says that the stamp was right
  when it was made.
* **claim**: the attach updates rows by id, whatever group they have. A pass that
  took its snapshot before an operator's regroup carries the row off again; no later
  pass can repair that, since the row is no candidate.
* **latesettle**: the synthesised row closes the group. The broker's own row, with an
  id of its own, then finds no open group that holds the contract and becomes a group
  with nothing but a settlement in it, which the orphan report will show. The
  docstring's "late-arriving broker truth still no-op" is true of the synthesis, which
  does not act again, and not of the pass.
* **siblings**: `docs/ingestion.md:57-71` says that a settlement's quantity is the
  group's net *capped by the account-level net*, that lots are found in
  `net_open_quantities` of the account, and that only groups whose direction matches the
  account's take part. The code settles each open group by its own net at its own sign;
  its docstring (`reconcile.py:124-131`) and `tests/test_reconcile_lapse.py:387` ask for
  exactly that. The page, and the docstring of `net_open_quantities`
  (`replay.py:173-183`), describe an earlier rule. NoLotOverdue and OverdueLotsSettle
  follow the code and its test; under the rule of the page both would fail, since the
  siblings net to zero at the account and neither would ever be settled.

### Observed while modelling, and not made a run

* With overlapping passes a closing row may be given a second exit event: pass A
  loads its member lists, pass B attaches and applies a close, A holds it as a
  candidate and applies it again (`reconcile.py:1206` looks at what was a member when
  the pass loaded); two passes may also put one row into two new groups, one after the
  other. `_refresh_group_financials` (`:1012`) may write a row back as open
  that another pass has closed. The overlap run contains all three. What it shows is how
  far they reach: no total counts a row twice, the next pass nobody overlaps closes
  what is flat, and such a pass moves no claim, stamps all the rows there are and exits
  nothing again.
* A pass that dies between the upsert of a new group and the attach leaves an open
  group without rows and without an ENTRY event, for good: nothing looks for it.
  OneLossPerDeath counts them.
* The group an order carries may be a pass's own earlier attribution: when one order
  closes two lots in two fills that are synced apart, the second fill follows the first
  although that group is flat (`:956`), and the other lot stays open. `docs/ingestion.md:74-80`
  says that a close goes to the first group still holding an offsetting net. The lot
  then shows in the misattribution report (StuckGroupIsPaired).
* Two rebuilds in flight at once may both look for a closed row, find none and both insert
  it (`store/sql.py:275`; no constraint guards the key). Nothing in the repository starts
  two, and nothing prevents it; the positions run lets them.
* A sync that found no order writes `origin="broker"` over the row the host has
  recorded meanwhile (`repositories/__init__.py:266`); the links survive.
* Rows grouped by a pass are looked at for lapses by the *next* pass. A group and a
  security have one synthetic id (`:249`): a lot that grows after it was
  settled, or a row moved into a settled group, is written under the same id, and the row
  of the first settlement is replaced by one of another size.
  The model has one settlement of one size for each of them, and `Overdue` asks for lots
  of that size.
* A lapsed lot is written with zero fees and with what is left of it as its profit
  (`replay.py:150`).
* `mark_unfilled` checks for rows and writes later: the group may have rows by then.
* `fold_open_group_legs` takes the largest of *all* settlement rows of a leg
  (`rows.py:304`): two partial settlements at different times leave it too large, and
  a bare futures Buy or Sell counts nothing there. LegsMatchBook is about groups whose
  settlements take all the group holds.
* The heartbeat task ends for good when its token exchange fails
  (`tastytrade_stream.py:120`); the balance throttle is per consumer, so that two
  consumers may both drop a balance (`push.py:115`).

### Where the two grains part

The conditions of the netting properties are not decoration; without them the code's
walks disagree:

* `_ordered_position_rows` keeps table order within one instant, replay applies opens
  first (`_closes_last`, with a test of its own). A delivery whose close is listed
  before its open is flat for the account and open for its group. `OpensListedFirst`
  and `Backed` exclude it.
* `price_realized_gross(clamp_closes=True)` caps a close only while a lot is open. A
  second explicit close opens an opposite lot, which a later open of the group then
  closes. `Tidy` excludes it.
* A settlement takes what the account holds; when two groups hold opposite sides the
  account holds nothing and the groups do. GroupsSumToAccount asks for one side there,
  and that is why the lapses are found in the groups' own nets (NoLotOverdue).
* `_over_closing_groups` does not see a close that preceded the opens of the very group
  that is stuck; StuckGroupIsPaired asks that the stuck group's own closes were in
  order.

### Bounds, and why they suffice

* Accounts have 2 to 9 rows, 2 to 5 groups and 1 to 4 orders. Each scenario is the
  smallest that has the shape its property is about: a roll in two orders *and* a
  roll in one, a settlement with a delivery, two fills of one order, two lots under
  one order. A pass touches a group through its own rows only, so more groups of the
  same shape add copies, not cases; NoDoubleCount and ClaimIsFinal are proved without
  any bound.
* Two passes suffice for the overlaps: what a pass may find changed under it is
  something *one* other pass or the feed wrote.
* `MaxAborts = 1` and `MaxFaults = 1` where passes, commands, rebuilds or syncs may die:
  after one death the tables are in a state someone left half way, which is what the
  next has to cope with.
* Feeds: lifecycle, overlap, operator and claim deliver rows in execution order
  (`InOrder`), an order before its rows; in lifecycle one order may come any time later
  (`LateOrder`), and in overlap the host has opened its trade and recorded its orders before
  the broker lists them (`HostFirst`); latefill leaves that open. operator and claim also deliver between two passes
  only, and latesettle lets one row come late (`OneLate`). latefill, whose question is
  arrival, does not restrict the feed. HistorySync and OrderRow have the late, repeated
  and skipped deliveries.
* overlap: a pass starts when there is a row, and of the points where it may die those in
  the middle of one cluster's writes are tried (`MidCluster`), since elsewhere it leaves
  what a pass that ended leaves; lifecycle lets a pass die anywhere. LoneClaims,
  LoneExitOnce, LoneStampIsComplete and EveryLossIsADeath are proved without these bounds.
* operator: two lots in two groups, one long and one short, whose contract expires, and
  a row that moves the account's clock past it; the five commands, of which one is
  given, *or* one death of a pass inside its lapses (`InOrderNext`);
  the command may die instead.
* positions: a contract opened twice, closed, flipped in one instant, with a row that
  may come late, and settled under another security, so that the lot lapses; one other
  writer, which is in turn a sync, a message or an operator; one fault. The second
  rebuild begins beside the first only once all rows are known and nobody else writes
  (`RaceNext`): what two rebuilds may do to each other does not depend on the third
  party, and what a rebuild of fewer rows leaves behind comes from the first one. The
  theorems have no such bound.
* netting has scale-ins, over-closes, an assignment in a physical and a cash row, a
  close without a price, an open and a close of one instant and bare futures trades in
  one list; every subset and every split over two groups occurs. The proofs are for
  any list and any number of groups.
* history: two executions and pages of one row (the second execution shifts the page
  boundary), two revocations (the second hits the retry), one fault. The proofs are for any
  number of syncs, rows, pages and revocations.
* stream: three entries (one foreign), batches of two, one trimmed entry, two faults
  (deaths, lost connections, lost responses), one failing write.
* orders: one syncing process, two versions, one delivery, one command, one abort.

`CHECK_DEADLOCK FALSE` stands only in netting, where every row ends up attached, and in
stream, whose bounded history ends.

### Fairness

* `PassesRunOn` (lifecycle, operator): a pass that runs goes on, and another one follows.
  The code starts a pass after every sync, on a timer, and `reconcile` catches
  exceptions per account, so passes do come again; a death is bounded by `MaxAborts`,
  not excluded. It is stated over the program counter, as "idle again and again, and not
  idle again and again". Nothing is assumed of the feed, nor that an operator ever acts;
  a command once begun is carried through (`WF(Carries)`) unless it dies.
* PositionBook: executed rows are synced in the end, syncs recur, and the host calls the
  rebuild again and again, each of which ends. Messages, attributions and deaths are
  bounded and have no fairness; Settles is about the time after them.
* HistorySync: each sync goes on (`WF(Step(s))`), since every request has a timeout and
  syncs are on a timer. Executions, revocations, expiry and heartbeats have none.
* StreamDelivery assumes that a supervised daemon is started again and that time passes
  (`Age`); publishing, faults and failures have no fairness.
* OrderRow assumes that syncs and passes come again and that a command or a message once
  begun is carried through; the operator and the stream need never act.

## 4. What is proved

All theorems hold for every value of the constants that meets the named
assumptions (`RowAssumption`, `RoutingAssumption`, `IntentAssumption`,
`ReconcileAssumption`, `LapseAssumption`, `SettlementAssumption`, `OperatorAssumption`,
`LotsAssumption`, `RebuildAssumption`, `NettingAssumption`, `OrderRowAssumption`,
`NoneIsNoRow`, `HistoryAssumption`, `PositionAssumption`, `StreamAssumption`): any list
of rows in time order, any number of groups, orders, intents, passes, syncs, pages,
rebuilds, consumers and entries. A further hypothesis of a theorem is named below.

### The reconcile pass

These theorems are in ReconcileProofs; the invariants build on one another in the
order given here. Passes overlap and die at will in all of them. Section 3 says what
overlapping passes may do to a row's group, to its exit event and to a closed group;
three theorems are therefore about steps taken while no pass is overlapped
(`NoneOverlapped`, in the formula of the property), *from any state that overlapping and
dying passes can have left*.

* `ReconcileProofs!TypeCorrect`: `Spec => []TypeOK`. TypeOK is not inductive by
  itself: that the group of a job is an allocated key is needed where the key is used.
  `JobsNameGroups` says that every waiting job but one that creates a group names a
  group, and that none creates one in phase "intent";
  `TypeInv == TypeOK /\ JobsNameGroups` is the invariant. There is one lemma per
  action. The module also holds the facts about the store calls and the operators
  that all later proofs share: the draw-down sends a row only to a listed group
  or to none (`DrawDownGroup`), and each row a cluster routes goes to a listed
  group or to none (`RouteClusterGroup`).
* `ReconcileProofs!CountedOnce`: `Spec => []NoDoubleCount`, with overlapping passes.
  NoDoubleCount already includes the in-memory lists and the rows read to be written
  back; with TypeInv it is inductive. Each write is a list that counts at most once,
  or fields of a row already in the table.
* `ReconcileProofs!LoneClaims`: `Spec => ClaimIsFinal`. The attach is
  unconditional, so the argument is about what a pass still *intends* to attach:
  `NothingYet` (before its snapshot a pass waits for nothing), `Apart` (a waiting row
  waits in exactly one of: the candidates, the cluster, one job, the group being
  created), and, for a pass that is `Alone` (`lone`), `Unclaimed` (no group has a row it
  waits for). `OnePass` says that such a pass is the only one in flight. With an operator
  the claim run shows the violation.
* `ReconcileProofs!LoneStampIsComplete`: `Spec => StampIsComplete`. `KnownInv` says that
  whatever anybody refers to has been allocated (rows, orders, intents, lists, jobs;
  keys are given out in order); `BooksInv` that the locals of a pass that is alone agree
  with the tables, whoever wrote them: the member lists are the groups' rows
  (`BookAgrees`), the row about to be written back is the row in the table
  (`SeenIsCurrent`), a group about to be stamped is flat (`StampDue`), a group being made
  has exactly its job's rows (`NewGroupApart`). The feed may add rows at any point of
  this; it never gives a row to a group.
* `ReconcileProofs!EveryLossIsADeath`: `Spec => []OneLossPerDeath`, for any number of
  overlapping passes. `MakeInv`: a pass that is making a group owes it exactly its ENTRY
  (`Owes`), no two passes make the same group (`MakesAlone`), and the groups without one
  ENTRY that nobody is making are no more than `aborts`.
* `ReconcileProofs!LoneExitOnce`: `Spec => ExitOnce`. `ExitInv` adds that a row an event
  covers has a group (`ExitedRowsHeld`), so that it is no candidate, and that the events
  a lone pass has still to write are about rows no event covers (`Due`), although the
  tables may be full of events written twice by others.
* `ReconcileProofs!ForwardRolls`: `Spec => []RollsGoForward`, with overlaps and deaths. The
  two kinds of link need different facts: in a cluster the new group's key is above
  those its closes leave through (`NewGroupLast`); across clusters, a pass links groups
  it made itself, and a group made for later rows has the higher key because the
  clusters are taken in time order (`MadeForward`, `InOrder`).
* `ReconcileProofs!QuietPassSettles`: `Spec => []SettledBooks`. `SettleInv` says what an
  undisturbed pass still has in hand: every candidate from its snapshot on
  (`AllWait`), every flat group from its second listing on (`FlatInHand`); it ends with
  empty hands.
* `ReconcileProofs!SettledStaysSettled`: `Spec => SettledIsStable`. Over settled books every
  pass, overlapping ones included, is `Resting`: it has nothing to route, and its member
  lists are those of the table, so its heal finds no flat group.

### The books (NettingProofs)

All nine properties of the netting run hold for every account, every finite set of
groups and every way to spread the rows over them. `NettingInv` is the invariant: a row
is in one group at most (`Distinct`), and a cluster is later than what is attached
(`ClusterIsLater`). The rest is about what the walks compute.

BookProofs has what the passes, the lapses and these theorems share: the rows and their
types, the first and the last of a set of rows (`FirstInSet`, `LastInSet`), induction up
to a number (`UpTo`), that a walk exists (`WalkExists`), and the walk of a group's book
(`BookWalk`, `NetWalk`). NettingProofs has the sums, the other walks and the theorems.

The walks are recursive functions over positions of a list, and the sums are folds over
sets; neither has an induction theorem the provers can use. Both are reached in
the same way: what holds of 0 and passes from each number to the next holds up to N
(`UpTo`, from a set of numbers without a least counterexample), a walk is *the* function
that takes its steps (`WalkExists`, `WalkUnique`), and a sum over a set is a sum over a
list that chooses its members one after another (`SumChosen`), from which follow the laws
of sums (`SumAdd`, `SumJoin`, `SumBounds`, `SumChange`). Each walk of the code then has a
lemma that says it is a walk (`BookWalk`, `NetAtWalk`, `NetOpenWalk`, `RebuildWalk`,
`PriceWalk`, `DrawDownWalk`, `RouteWalk`), and `ReplayVisits` that replay's order visits
every row once; the theorems are invariants of these walks.

* `WalksAgreeAlways`: beside each other the two walks keep equal nets, flips and closes
  at zero included (`QuantityIsRebuilt`).
* `NetIsLargestExcessAlways`: the clamped net is the largest excess of the tails *that end
  at the row reached*, and a close takes from each of them alike (`SideWalk`,
  `LargestExcess`).
* `ProfitFollowsBookAlways`: over rows listed as replay takes them (`ListedAsReplayed`) the
  price walk is where the group's book is, having realised what was opened and is not
  held (`PriceFollowsNet`).
* `LegsMatchBookAlways`: trades that close no more than is held never clamp, so the net
  is what the rows add up to; the settlements take all of it, and the largest of them is
  each of them (`HeldIsOpensLessCloses`, `LegsAreNet`).
* `ContractsAndFeesOnceAlways`: lifecycles of a rebuild charge disjoint sets of rows
  (`LotsApart`), and what is opened and realised is what the charged rows carry
  (`ContractsMatch`); a flip charges the lifecycle it closes and opens the next with none.
* `DrawDownConservesAlways`: going down the list, one row takes what it carries or all
  that is left (`DrawTakes`), whatever the order; then row by row of the cluster
  (`RoutingTakes`), where a row that changed another security's net changes nothing here.
* `NoLotStrandedAlways`: a close of one lot takes it from the first group that has one, which is
  the group it is attached to (`DrawOne`), so that attaching it does to that group's book what
  the draw-down did (`RoutedBooks`).
* `GroupsSumToAccountAlways`: backed rows move a net by all they carry, so a group's net
  is the sum of what its rows move, wherever they stand in the list (`NetIsSum`); the
  account's is that sum in replay's order (`AccountIsSum`), and sums over groups
  add up (`MembersAddUp`). A settlement's direction is that of what it meets, which is why
  settlements need the one side (`AccountOneSided`).
* `StuckGroupIsPairedAlways`: in a flat account one group's rows add up to the opposite of
  the other's (`Opposite`). A group of closes alone leaves the other with more opened than
  closed, which it must hold (`NetBounds`); a group that holds something leaves the other
  with more closed than opened, and no exposure exceeds what was opened
  (`PeakWithinOpens`), so that the other over-closes.
* `RebuildGrows` is about module Rebuild: what a rebuild has completed from the rows it
  read, a rebuild of those rows and any that follow them in replay's order completes as
  well. The two walks are one until the first new row, and no step takes a lifecycle
  back (`CompletedStay`); the plan lists each of them, ranked by the row that closed it,
  which no two share (`ClosersApart`, `LotsRanked`, `PlanIs`). A lapse stays when nothing
  is executed in the contract after it is due (`ContractOver`); a trade or a settlement
  executed later would have found the lot open. With it `ReplayGrows`, the hypothesis of
  `InOrderClosedStaysTrue` below, holds of the code's replay for any account.

### Lapses and the operator (OperatorProofs)

Passes may overlap and die here, the feed and the host may write between any two steps,
and commands of every kind may be carried out beside them.

* `DeskTyped`: `DeskSpec => []DeskType`. `DeskInv` adds the pass's own `TypeInv` and that
  a command past its first step knows what it is about (`CallNames`).
* `RegroupSettlesAlways`: `DeskSpec => RegroupSettles`. `RegroupInv` follows a regroup
  nobody interferes with: a group it touched is still to be recomputed, or is the one at
  hand, or its row says what `_recompute_group` makes of the rows it holds (`UpToDate`);
  what was read of the one at hand is what the tables hold. What a member list is
  written as meets the three demands of the property (`WrittenUpToDate`).
* `NoLotOverdueAlways`: `SettlementsStay /\ DeskSpec => []NoLotOverdue`. There are three
  facts. About the books: a settlement that only settlements of its security follow, of
  the size of what the other rows amount to, takes the lot to nothing, since two
  settlements take a net to the same place in either order (`SettledNets`). About the
  tables: a synthesised row is in the group it was written for (`SettledStay`), because
  no pass waits for it but to attach it there (`InPlace`), the operator does not
  move it and the feed does not bring it. About an undisturbed pass (`LapsesCalm`): it is
  the only one under way (`QuietAlone`), the groups it lists for its lapses are the open
  ones with the rows they have (`Loaded`), so writing the settlements leaves no lot past
  its time (`SynthesiseSettles`), not even by the clock that the new rows move
  (`LaterActivity`); retiring the lots attaches rows that are where they belong and
  closes groups (`ApplyCalm`). `Placed` says which store calls belong to which stage.

`SettlementsStay`, that the operator moves no synthesised settlement, is a real limit: the
identity of the row is that of the group and the security it was written for, so when the
lot it settled is found open again, the next pass writes the same row, into its first
group. Had it been moved to a group that holds such a lot itself, that pass takes it
away from there after having read that the group is settled, and leaves that lot overdue
until the pass after it.

### The other components

* `OrderRowProofs!RowTypes` and `LinksStay`: types, and `Spec => LinkageKept`. The
  invariant `Held` says what each writer holds between its read and its write: a row,
  and for a pass that found one, a row with its group set.
* `HistorySyncProofs!TypeCorrect`, and `RetryMeetsOneRevocation`:
  `Spec => GivenUpOnlyIfRevokedAgain`. The token a request goes out with may be any number of
  revocations old, because a heartbeat or another sync that was granted one earlier may
  put it back into the client later. The first refusal is noted with its epoch (`refused`);
  the retry carries a token granted since then and not what the client holds by then
  (`Sent`, part of TypeOK), so a refusal of the retry takes a revocation after the first
  refusal. `BlankInv` says that an idle sync has failed nothing.
* `HistorySyncProofs!SyncIsComplete`: `Spec => []CompleteUnlessFailed`, for every page
  size. `Covered` (part of `HistoryInv`): of the rows that existed when the feed was begun,
  those above the place the next page starts at are fetched. Executions move the place
  the next page starts at towards newer rows, never past older ones, so a page boundary
  repeats rows and skips none (`PageCovers`); the last page leaves nothing below
  (`LastPageCovers`). A repeated row makes the statement fail, which the feed notes.
* `PositionBookProofs!GroupIsOfCloser`: `Spec => []GroupOfCloser`, with any number of
  overlapping rebuilds: a rewritten row loses its group, and the pass fills nulls.
* `PositionBookProofs!LifecycleClosedOnce`: `Spec => ClosedOnce`, with any number of
  rebuilds. `LoneInv`: a rebuild no other has overlapped is the only one in flight, and
  between its select and its insert it either holds the id of a row with its key or
  knows that there is none (`FoundByKey`), among whatever rows others have left, doubled
  ones included; the key of a written row never changes, and only a rebuild writes such
  rows.
* `PositionBookProofs!CalmRebuildIsReplay`: `ASSUME KeysApart PROVE Spec => []FreshBook`.
  `CalmInv` follows a rebuild nobody disturbs through its calls: the position is
  written, the lifecycles before the one at hand are where it remembers them, and a
  row it found for the next one has that one's key. `KeysApart`, that no two lifecycles
  of one replay share both instants, is a real limit of the code: rows are looked up by
  `(opened_at, closed_at)`, so the second of two such lifecycles takes the first one's
  row.
* `PositionBookProofs!InOrderClosedStaysTrue`: `ASSUME ReplayGrows PROVE
  Spec => []ClosedStaysTrue`, with overlapping and dying rebuilds. `TrueInv`: what any
  rebuild has read is an initial part of what is known. `ReplayGrows` (a replay that
  reads further keeps the lifecycles completed before) is the one fact about the replay
  function that is used. `RebuildGrows` proves it of the replay that Rebuild
  computes; `InstanceAssumption` in MCPositions has TLC evaluate both hypotheses for the
  instance's rows.
* `StreamProofs!StreamTypes`: `Spec => []TypeOK` by `StreamInv`: only delivered entries are
  pending (`ServerInv`), a consumer has messages exactly while it yields or
  acknowledges, each says truly whether it is of this daemon, and the one to be
  acknowledged was applied or has failed (`BatchInv`).
* `StreamProofs!ForgetsOnlyHandled`: `Spec => Contract!Init /\
  [][Contract!Next]_(Contract!vars)`, the safety half of the refinement `Delivers`: one
  lemma per kind of step (publish, trim, start, claim, deliver, write, acknowledge; a
  lost connection with or without the acknowledgement having arrived).
* `StreamProofs!RowOnlyMovesForward`: `Spec => SteadyOrder`. `SteadyInv`: while one consumer has
  run alone and no fault has occurred, every pending entry is in its batch, the batch
  rises, and its entries lie between the row and the last delivered entry. Hence a
  reclaim finds nothing, and a read lists only what lies beyond the row.

### Only model-checked

* Liveness: EveryRowGrouped, FlatGroupsClose, OverdueLotsSettle, Settles,
  EveryFactGrouped, Converges, CarriesGroup, and the liveness half of `Delivers`: ENABLED and
  fairness are out of the prover's reach.
* `KeysApart` is a property of the account's rows, which TLC evaluates for the instance.

## 5. What is left out

* In Reconcile: `dry_run` (writes nothing), rows without an execution time, and the
  `since` argument, which is `None` by default: every row without a group is a
  candidate. With a window (`sync_all` hands on its own) a row older than it waits for a
  pass with a longer one, and EveryRowGrouped is about passes without.
  `_create_trade_group` reads and stamps its orders in one step (`CreateOrders`); a write
  between the two is OrderRow's subject.
  `link_closed_positions_to_groups` is PositionBook's `LinkClosedPositions`.
  The list of open groups comes from a query without an order, so any order is
  allowed. Adjustment notes and the existence test before the heal's write are part
  of the step next to them.
* Amounts: which rows a total sums is modelled, how a row is priced is not (`money.py`,
  premium signs, ratios).
* Operator: adjustment events are not recorded, and the pass `link_order_to_group`
  ends with is one of the passes. The orders and the position a remap writes are
  in OrderRow and PositionBook.
* HistorySync: the `since` window is the whole history; refused logins and payloads
  that do not parse are failing calls. A row fetched twice may fail the statement or be
  taken (`Upserted`, `Store`): copies in two chunks, and SQLite, take it.
* XAUTOCLAIM's scan limit: a claim offers the oldest stale entries.
* Order rows: the fill fields move together, as one version.
* Not modelled: strategy classification, identities (symbols, nicknames), schema and
  migrations, configuration, API and CLI, the display queries of SDK and views. They
  parse, format or label, keep no state another part depends on, and nothing in them
  interleaves. The Redis pub/sub source promises nothing that could be checked: what
  is not received is lost by design.

## 6. Plan

1. **Balances**: the throttle of the stream consumer with several consumers.
2. **Operator beside an overlap**: the operator run has one pass; two passes and a
   command need a smaller account than the present one.
3. **Legs**: partial settlements at different times, once the code says what a host
   should be told of them.
