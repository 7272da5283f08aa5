# A TLA+ development of Backlot

Backlot (`src/app`) is the backend of a contact-centre demo: a FastAPI service
over PostgreSQL that holds a fictional telecom's subscribers, their home
networks, offers and orders, and answers the data actions of a Genesys agent.
An operator stages faults with scenario packs; the agent diagnoses a home, runs
the recommended remedy, offers an upgrade, places the order and confirms it.
These modules model that loop, check it with TLC and prove with TLAPS, for every
value of the constants, all of the safety properties the passing runs check.

## 1. Inventory

| part (`src/app/`) | state | operations | what is hard, and what makes it correct |
|---|---|---|---|
| `modules/network` models, service, config, faults, devices | gateway, access points, radios and devices of each subscriber | `load_topology`, `detect_all`, `build_verdict`, `describe_devices` (reads) | detectors, verdict and spoken summary have their own thresholds and tie-breaks and must agree |
| `modules/network/coverage.py` | none (read of the topology) | `assess_coverage` | is claimed to survive the repair of a fault; its note must be true of the home |
| `modules/network/actions.py`, `gx` device-action | the same rows | band-steer, reboot-extender, reboot-ap | the remedy a verdict names must accept the target and mend it; stale verdicts must be harmless; `fault_cleared` must be right |
| `modules/network/telemetry.py`, `events` | append-only `event` table | `emit_network_telemetry`, `record_event`, the feeds, `last_channel` | emitted once, at staging; the home moves on. Order by the transaction's start time |
| `modules/offers` | none (read) | `is_eligible`, `best_offer` | pack order is priority; an agent must not heal a customer into an offer |
| `modules/orders`, `gx` order-action | `customer_order` rows and confirmation events | place, send-confirmation | idempotence under retries, overlapping requests, crashes and a concurrent reset |
| `scenarios` | network rows, events, orders, `scenario_event` log | `apply`, `reset` | several transactions and statements; some packs reset first and some do not; tenant scope; two takes, or a take and a repair, at once |
| `seed` | spine and network rows | `seed_tenant`, `seed_networks`, pruning | idempotence; order of merges against unique constraints; a pack whose network section comes and goes; seed against a concurrent reset |
| `gx/normalize.py`, `modules/profile` | identity rows (read) | `normalize_identifier`, `resolve_profile`, `check_factor` | recognition rules; a value under two id types |
| `core/tenancy.py`, `auth` | none | header and key checks | tenant scope of every query |
| `admin` | none | apply and reset over `scenarios`, tables of subscribers, events and log entries | its view of a home must agree with the agent's |
| `db.py`, `config.py`, `main.py` | thread pool, connection pool, one Session per request | open a Session, first statement, commit, close | READ COMMITTED, locks, sessions whose objects do not expire on commit; 40 threads on 15 connections |
| `gx/contracts.py`, `ava.py`, `masking.py`, schemas | none | build-time contract files, masking | pure functions over JSON and text |

How the parts meet: every `gx` route resolves tenant and subscriber, then calls
one module on one Session and commits at most once; the admin UI calls only
`scenarios`; `scenarios.apply` calls `reset` (a transaction of its own), updates
rows, calls `emit_network_telemetry` and logs; `reset` calls the seeder. Handlers
are synchronous, so Starlette runs them in a thread pool: requests interleave at
every SQL statement. There are no callbacks and no messages; all shared state is
in PostgreSQL.

## 2. Modules

| module | models | in terms of |
|---|---|---|
| `HomeNetwork` | models, service, config, faults, devices, coverage | operators on a topology record; no state |
| `DeviceActions` | the three verbs and the device-action handler | an outcome record: ok, status, topology, fault_cleared |
| `DeviceActionsProofs` | lemmas about the detectors, the verdict and the verbs on any topology | |
| `Offers` | rules, eligibility, the answer of `/gx/offers` | operators on a catalogue and a topology |
| `Views` | `/gx/net-status`, `/gx/devices`, the operator's table of subscribers | operators on a topology |
| `AnyHome` | one agent that follows the verdict, from any home of a set | `start`, `home`, `steps` |
| `AnyHomeProofs` | theorems about `AnyHome`: verbs, speech, coverage, pages, offers | |
| `SelfHealing` | operator, agent and other callers over the homes of several tenants | `homes`, `feed`, `audit`, `session`, `cleared` |
| `SelfHealingProofs` | theorems about `SelfHealing` | |
| `OrderBook` | the promise of order-action, one order per subscriber and offer | `book` |
| `OrderStore` | place, send-confirmation and reset, statement by statement | committed rows and events, row locks, one program counter per worker |
| `OrderStoreProofs` | theorems about `OrderStore` | |
| `ScenarioTx` | reset, apply and device-action on one home, statement by statement | committed cells and events, row locks; of each worker its step, the cells its Session has loaded, is to flush, has written |
| `ScenarioTxProofs` | theorems about `ScenarioTx`: deadlocks, resets, takes | |
| `ScenarioTxTypes` | theorems about `ScenarioTx`: types, device-actions, what is announced | |
| `RequestPool` | how requests share threads and connections | `pc`, the queue for a thread, `running`, `held` |
| `RequestPoolProofs` | theorems about `RequestPool` | |
| `Identifiers` | `gx/normalize.py` | operators on texts; a number is a lead, digits and whether separators are sprinkled in |
| `Contact` | seeding and reset from an edited pack, resolution, verification, interaction and csat events, `last_channel` | `disk`, `spine`, `homes`, `events`, one step counter per worker, a clock |
| `ContactProofs` | theorems about `Contact`: seeding, spellings, factors, channels, events, homes | |
| `MCAnyHome`, `MCSelfHealing`, `MCOrderStore`, `MCContact`, `MCScenarioTx`, `MCRequestPool` | constants for TLC | |

`AnyHome` and `SelfHealing` extend `DeviceActions` and `Offers`, which extend
`HomeNetwork`; `AnyHome` extends `Views` too, and `ScenarioTx` extends
`DeviceActions`. `Contact` extends `Identifiers`. `OrderStore` instantiates `OrderBook` under a refinement mapping.

### HomeNetwork, DeviceActions, Offers

A topology has the WAN status of the gateway (or none), a function from access
point ids to rows, and one from device ids to rows. Ids are numbers in the order
`load_topology` returns the rows, which is what Python's `min` and `max` break
ties by; `Weakest`, `WorstBackhaul`, `WorstArea` and `SeenBefore` keep those
ties. `Config` is `network_config(tenant)`. `ConfigType` says what a pack must
configure; `ConfigHeals` says what `DEFAULTS` satisfies, a pack may override and
the code never checks (a reboot restores a backhaul above the faulty threshold,
`online` is not a flapping status, every detector has a precedence); `ConfigActs`, in
`DeviceActions`, that a fault's recommended action, when it is a verb, is one for that
kind of row.
`DeviceAction` is the whole handler: registry lookup, empty home, verb, and the
`fault_cleared` comparison of the verdict before with the detectors after.

### SelfHealing

One request is one step (a handler commits once). `Reset` and `Apply` are
`engine.py`'s functions; `apply`'s two transactions are taken together, except
when its identifiers resolve to nobody: then the reset has been committed and
nothing is logged (`ApplyUnresolved`). `Diagnose` and `AgentActs` are two
requests, so anything may happen between them and the agent may act on a stale
verdict. `OtherCall` is any other caller of device-action. `cleared` is a
history variable for `ClearedStaysCleared`. `NorthwindConfig`, the packs and the
demo home are those shipped in `src/app/scenarios/packs` and
`src/app/seed/packs`; `acme` is the tests' second tenant, with a degraded
baseline.

### OrderStore

A worker is a server thread. `find` … `inserted` are `place_order`'s SELECT,
INSERT and the route's COMMIT; `get` … `updated` are send-confirmation's SELECT,
UPDATE and COMMIT; `delete_events` … `lock_row` are reset's two DELETEs. An
INSERT shows at COMMIT only, so `orders` and `events` hold committed rows and a
worker's uncommitted writes are in its program counter. At READ COMMITTED an
UPDATE or DELETE waits for the row's lock and then works on the newest version:
an UPDATE whose row is gone matches nothing (SQLAlchemy's StaleDataError, a
500), a DELETE skips it. DELETE picks its rows when it starts (`DeleteOrders`)
and locks them in an order SQL leaves open (`NextRow`, `LockRow`). `Crash` is
the death of the process or a failing statement; `AbortDeadlock` is PostgreSQL's
deadlock detection. A retry is a request like any other. `arrived` and `prior`
are history variables: the orders committed when a place request came in.

### ScenarioTx

What `SelfHealing` takes as one step is here a sequence of statements. A *cell*
is one column of one row. A worker's Session is three sets of cells: `seen`,
what it has loaded, and since nothing expires at commit (`db.py`) will not load
again; `dirty`, what it is to flush, which is the *difference* between what it
loaded and what it is to store, so that a stale Session may leave alone a cell it
would have to write (`NetChange`); `written`, what its transaction has updated.
A SELECT returns what is committed when it runs, overlaid with the transaction's
own writes (`Loaded`); `db.merge` loads one row at a time, `load_topology` one
table. An UPDATE waits for its row's lock, which is held until COMMIT; the flush
updates rows in the order of `FlushOrder`, a pack's steps in theirs.

`reset` is `Merge` per row, `Flush` per row, `DeleteEvents`, `LockEvents`,
`CommitReset`; `apply` is a reset first or not, `Stage` per step, `LoadStaged`
per table and `CommitApply`, which emits what was loaded, not what is committed
by then; `device-action` is `LoadHome` per table, `Act` or `RefuseAction`,
`Flush`, `CommitAction` and `Answer`, whose second `load_topology` returns the
objects the Session has (`Reread`). `Crash` and `AbortDeadlock` roll back.
`since` is a history variable: the cells others have committed since this request
looked at them (for an apply whose reset is done, any cell). `IsPack` takes packs whose
values the columns accept (`ValuesOf`); an apply of any other fails at its UPDATE and is
rolled back. `Before` is a take
that was applied earlier, so that there is something to restore.

### RequestPool

FastAPI runs each synchronous dependency and the handler as a call of its own in
AnyIO's thread pool, first come, first served. So a request queues three times:
for `get_db`, for `resolve_tenant`, which runs the first SELECT and checks a
connection out, and for the handler. Between the last two it holds a connection
without a thread; in `resolve_tenant` it holds a thread and waits for a connection,
30 seconds at most (`TimeOut`). Enough requests bring both limits to a standstill
that only the time limit ends. device-action and apply commit in the middle, which
returns the connection, and check one out again. The Session is closed outside of
the thread limit, whatever the handler has raised.

### Contact

`Seed` is `seed_tenant`'s transaction: merge by key, flush, prune, the homes,
commit, all from the pack file as it is then (`disk`; `Edit` is an editor's save).
Identity UPDATEs run in primary-key order before the INSERTs and before the prune,
under the unique constraint (`Flushable`); a re-seed that meets it rolls back, so it
is no step. `homes` is which network rows there are, of whom. A seed removes those
the pack no longer assigns, all of them if the pack has no network section any more;
`reset` (`ResetHomes`, then `CommitReset`) lays the rows of the pack on file for the
parties that are in the database, and leaves them alone if the file has no such
section. Inserts and deletes of one row wait for each other, as do the delete of a
party and the insert of a row that refers to it (`Unblocked`). The file is not edited
while a reset is at work on it. `NormalizeIdentifier`, `ResolveProfile`,
`LastChannel`, `CustomerContext` and `Verified` are the reads; a value under two
id types makes `resolve_profile` raise (`Ambiguous`), which is what the generator
does to a pack that seeds both `phone` and `msisdn`. Recording an interaction or a
csat is two steps (`Begin`, `RecordEvent`), because `occurred_at` is `now()`, the
start of the transaction, and the event shows at COMMIT. `IsUsable` states what a
pack must satisfy and nothing checks: values as normalization returns them, and
another one for each party.

## 3. Runs

| run | question | size |
|---|---|---|
| `SelfHealing_heal` | does the demo loop heal, whatever the interleaving? | 24,336 states |
| `AnyHome_verdict` | do verdict, pages, speech, coverage, verbs and offers agree on any home? | 27,161 |
| `Contact_calls` | who is found, verified, last seen where and given which home, while packs are edited and tenants reset? | 64,485 |
| `OrderStore_race` | what survives two workers racing on one key, with crashes, retries and two resets? | 299,838 |
| `OrderStore_book` | does the store implement `OrderBook` when a subscriber has one conversation? | 190,674 |
| `ScenarioTx_race` | what is left of a take, a reset and a repair when they overlap? | 202,180 |
| `RequestPool_crowd` | is everybody answered when requests outnumber threads and connections? | 253,830 |
| `SelfHealing_unlogged`, `AnyHome_coverage`, `OrderStore_double_order`, `OrderStore_orphan`, `ScenarioTx_cleared` | is what the documentation says true? (no; see 5) | counterexamples |

**SelfHealing_heal.** `RecommendedActionWorks`: the verdict's verb accepts the
verdict's target and mends it. `FaultsExplainedByLastTake`: no fault of an
earlier take survives into a later one, although `healthy` does not reset.
`ClearedStaysCleared`, `FaultAnnounced`, `DeviceActionsOnlyHeal` relate the home
to what was reported, to the feed and to its past. `CoverageDurable`: on the
shipped home no verb changes the coverage level, so the upsell survives the
self-heal. `AgentSettlesEveryHome`: a fairly scheduled agent brings every home to
a verdict it cannot act on, unless the operator intervenes for ever. Bound:
three audited operator requests (`MaxAudit`), enough for each pack to follow each
other one after any verbs; device calls are unbounded, with every verb, every
kind of target, an unknown id, and bands present, missing and absent.

**AnyHome_verdict.** About ten thousand initial homes: a hub and two extenders, two devices
on any of them, on either band, eligible or not, with signals on, above and below
every threshold and backhauls on and above theirs; homes without a gateway,
without devices, empty; each WAN status. Two devices and two extenders are enough
for each tie, for a cluster of exactly `min_cluster_size`, and for devices at the
edge of two extenders; a home has at most four faulty rows, and the agent may run
five verbs (`MaxSteps`), so the bound cannot end its work for it. The configuration
is `DEFAULTS` with `single_worst_rssi_dbm` lowered to -70: with the default of -58
every device at the edge (-60 or -68) is also far enough out on its own, so the
cluster rule never decides the level, and `CoverageMatchesItsRule` would check one
rule of two. `EachStepMendsOne` and `EndsMendedOrEscalated` bound and
end the agent's work; `SpeechAgreesWithVerdict` and `CoverageMatchesItsRule` compare
operators written apart in the code. `ViewsAgree` compares the pages: net-status, the
device list and the operator's table, each of which looks for its own worst device and
derives its own summary, say one thing of one home, and a repair that net-diagnostics
asks for shows on the fields net-status is to confirm it with (`FixIsConfirmed`).
`HealingOpensNoOffer` is about the offers after a verb.

**Contact_calls.** Two tenants, one with a country and three versions of its pack
(as shipped; values moved between parties with another factor type and fewer
channels; one party less, another id type), one without a country and with a
foreign number. Two recording requests (`MaxTick`), which may overlap or follow each
other, with resets, re-seeds and crashes in between; two alike workers
(`SYMMETRY`). The texts are every spelling of each number, one of them also with
separators, and numbers of nobody, too short, too long, with a `00` prefix.
`SpellingsFindTheirParty` compares normalization, resolution and seeding with the
README's table; `SpineIsLastSeed` and `OnlyPackFactorsVerify` say a re-seed is
authoritative; `LastChannelIsCurrent` and `RecordsStay` are about the order and the
loss of events. The packs' network sections assign homes to both parties and to one
past `count`, to one only, and are missing; the third version gives its number under
two id types. `HomesFollowPack` says what a seed and a reset leave of them.

**OrderStore_race.** Two workers, one key, three order ids. Two overlapping places
make two live orders; the third id is placed after a reset has removed them. Two
resets can meet two rows in opposite orders, which is a deadlock.
`NoSequentialDuplicate`, `ConfirmedHasEvent`, `ConfirmationSticks`,
`OnlyResetsDeadlock` and `RequestsAnswered` hold.

**OrderStore_book.** Three workers: one for each of two keys, one that only
resets. `KeepsTheBook` maps the store to `OrderBook`: the live order on a key and
the number of its events. Without the restriction to one conversation per
subscriber it does not hold (see 5).

**ScenarioTx_race.** Two workers, both of which serve the operator and one of them
device-action; two admin requests (`MaxTakes`), so a take can race a take, or a
repair, or both in turn; device calls are unbounded. The home is the demo home of
the northwind pack cut down to the rows its scenarios touch, staged beforehand; the
packs are the shipped ones: two that reset first, one that does not and stages the
device before the access point, against the order of the flush, which is a deadlock.
`QuietResetRestores`, `TakeIsWhole`, `TakeIsAnnounced`, `ActionsOnlyHeal` and
`ClearedIsSound` say what holds at a commit or an answer although the request goes by
what it read earlier, up to what others committed meanwhile (`since`). `TypeOK`
includes that what is written is locked. `OnlyOperatorsDeadlock` and
`RequestsAnswered` are about the locks.

**RequestPool_crowd.** Five requests on three threads and two connections: there are
more threads than connections, as in the deployment, and enough requests that all
threads wait for a connection while all connections belong to requests that queue for
a thread. Deadlock is checked in this run: the time limit on a checkout is what
keeps the system going. `NobodyWaitsUnlessCrowded` says no connection leaks, whatever
way a request ends.

Deadlock checking is off in the other runs: the agent of `AnyHome` stops when there is
nothing left to run, and the bounds on ids, ticks and admin requests stop the others.

### Fairness

`OrderStore`: strong fairness of each worker's next statement (a thread keeps
running; PostgreSQL queues lock requests, so a lock that is freed again and again
is granted in the end) and weak fairness of deadlock detection (a timer). None of
`Request` and `Crash`: nobody has to ask, nothing has to fail. `SelfHealing` and
`AnyHome`: weak fairness of the agent, which keeps polling and keeps following the
verdict; none of the operator or of other callers. `ScenarioTx`: as `OrderStore`;
its strong fairness is written out with `Ready`, which is when `Serve` is enabled.
`RequestPool`: weak fairness of `Start`, a free thread takes the next call, and of each
request's next step, since a wait for a connection ends one way or the other.

## 4. Proofs

`OrderStoreProofs` proves, for any set of workers, any set of keys shared in any
way, any resetters and any number of orders, from `StoreAssumption` alone (the
types of the constants; `Free` and `NoKey` are none of them):

| theorem | says |
|---|---|
| `TypeCorrect` | `Spec => []TypeOK`: an UPDATE never lands on a deleted row, an INSERT never on a used id |
| `RetrySafe` | `Spec => []NoSequentialDuplicate` |
| `AuditComplete` | `Spec => []ConfirmedHasEvent` |
| `ConfirmationIsFinal` | `Spec => ConfirmationSticks` |
| `OrderRequestsNeverDeadlock` | `Spec => []OnlyResetsDeadlock` |
| `OneOrder` | `OneConversation` implies `Spec => []AtMostOneLiveOrder` |
| `BookKept` | `OneConversation` implies `Spec => KeepsTheBook`, the refinement of `OrderBook` |

The first five follow from one inductive invariant, `StoreInv`. None of the properties is
inductive alone:

- `TypeOK` needs that the row under a worker in `updated` exists: `LockInv`
  (who holds a row's lock, at which step) and the fact that a reset deletes only
  rows it has locked.
- `NoSequentialDuplicate` needs that a place request past `find` saw no live
  order that had been there when it arrived, and that ids are minted once:
  `LookupInv`, `MintInv`, `Born`, `WorkInv`.
- `ConfirmedHasEvent` needs `ResetInv`: a reset that deletes the event of an order
  deletes that order with it. It holds because reset picks the events first and the
  orders second; the opposite order would break it.
- `OnlyResetsDeadlock` needs `HolderInv`: a worker that holds the lock of a row is
  about to commit, or is a reset; one that waits in `update` holds nothing.

`InitInv` and `StepInv` establish and preserve `StoreInv`, one step per action and
one per conjunct; `FinishType`, `FinishOne`, `FinishQuiet` are the lemmas about the
end of a request, `StepSticks` the one about a single step of `ConfirmationSticks`.

`OneConversation` says that no two workers serve one key. It is a hypothesis, since
without it two overlapping places leave two orders, which is what `OrderStore_double_order`
shows. `BookInv` adds to `StoreInv` that a place request that has found no order still
finds none (`OwnKeyInv`), that an order under confirmation is its worker's and still to
be confirmed (`OwnOrderInv`), and that the one confirmation on record for a live order is
from the worker of its key (`RecordInv`), so that its page of the book reads `Confirmed`
(`PageOfOrder`). Then each commit is a step of the book: of place `Place` (`PlaceBook`), of
send-confirmation `Confirm`, of a reset `Clear` of the keys whose orders it deletes; every
other statement leaves the book alone.

`RequestPoolProofs` proves, for any finite set of requests and any limits, from
`PoolAssumption` alone:

| theorem | says |
|---|---|
| `LimitsKept` | `Spec => []TypeOK`: never more calls than threads or more connections than the pool has; nobody queues twice or while running |
| `PoolSuffices` | `Spec => []NobodyWaitsUnlessCrowded` |

`TypeOK` is inductive as it stands (`InitType`, `StepType`; `Joining`, `Leaving` and
`Counting` are the lemmas about the queue and about cardinalities), and
`NobodyWaitsUnlessCrowded` follows from it: all connections are held by requests in
flight, and the one that waits holds none.

`SelfHealingProofs` proves, for any tenants, homes, packs and callers, from
`SystemType`, `PacksStayInTenant`, `ConfigType`, `ConfigHeals` and `ConfigActs`:

| theorem | says |
|---|---|
| `TablesKept` | `Spec => []TypeOK`, PostgreSQL's integer range for signals and backhauls included |
| `RemediesWork` | `Spec => []RecommendedActionWorks` |
| `CallsOnlyHeal` | `CallsSteerHome` implies `Spec => DeviceActionsOnlyHeal` |
| `ClearedForGood` | `CallsSteerHome` implies `Spec => []ClearedStaysCleared` |
| `FaultsAreAnnounced` | `CallsSteerHome` implies `Spec => []FaultAnnounced` |
| `TakesAreIndependent` | `CallsSteerHome`, `RestoresAreComplete` and `StagesOnlyAdd` imply `Spec => []FaultsExplainedByLastTake` |
| `UpsellSurvives` | `CoverageRests` implies `Spec => CoverageDurable` |

`TypeOK` is inductive (`InitType`, `StepType`), and it is what the others need of a
state: that every home is a topology the tables allow. The rest is in
`DeviceActionsProofs`, about one home. `LeastByKey` is Python's `min` with a key, tie
included: from it the row a verdict names is one its detector found
(`TargetIsFaulty`). `RemedyWorks` follows the verdict into the verb; `SteerHeals`,
`RebootHeals` and `ActionHeals` say that a verb, on any target, leaves no new faulty
row. `FewerFaults` lifts that from rows to fault types, which is why a type once
reported cleared stays away.

`CallsSteerHome` says that callers name no band or the target one, as the agent does.
It is a hypothesis and not an assumption of `SelfHealing`: onto another band,
band-steer may leave a good device stuck.

`FaultAnnounced` is inductive with `TypeOK`: staging announces the verdict's fault
(`StagingAnnounces`), and a verb can only uncover a less urgent one (`ChosenIsUrgent`,
`StillAnnounced`). `FaultsExplainedByLastTake` is not: after a verb or a pack that does
not reset, which faults are left depends on rows the fault types do not show. `StagingInv`
adds `RowsAsSeeded`, that rows no pack of the subscriber sets are no worse than seeded and
columns nothing sets are as seeded. A pack that does not reset then leaves what it would
leave of a fresh home (`RestoreForgets`), if it sets every row any other pack sets:
`RestoresAreComplete`, as `healthy` does. A reset whose own apply fails is not followed by
a take; `StagesOnlyAdd`, packs stage no repairs, covers it. The loader checks neither of
the two. They are true of the shipped packs: `MCSelfHealing` has TLC evaluate them.

`CoverageDurable` is false of homes in general (`AnyHome_coverage`), and true of the
shipped one because of where its devices are. `CoverageRests` says what that takes: a
device far from its extender is at rest (`AtRest`), that is, no pack sets it and every
steer of it is refused or finds it on the band it asks for; or no extender serves a
device. TLC evaluates it in `MCSelfHealing`: the laptop of the demo home is at rest, with
`OtherCall` steering it too, and the home of the other tenant is of the second kind. The
invariant is `HomesRest`, which staging and every verb keep (`StagedRests`,
`ActionRests`); in such a home the level is the seeded one (`LevelRests`).

`ScenarioTxProofs` and `ScenarioTxTypes` prove, for any workers, any home, any packs and
any calls, from `StageAssumption`, `ConfigType` and, for `ActionsHeal` and
`TakesAreAnnounced`, `ConfigHeals`:

| theorem | says |
|---|---|
| `CallsNeverDeadlock` | `Spec => []OnlyOperatorsDeadlock` |
| `ResetsRestore` | `Spec => QuietResetRestores` |
| `TakesAreWhole` | `Spec => TakeIsWhole` |
| `TypesKept` | `Spec => []TypeOK` |
| `ActionsHeal` | `Spec => ActionsOnlyHeal` |
| `TakesAreAnnounced` | `Spec => TakeIsAnnounced` |
| `ClearedUnlessChanged` | `Spec => ClearedIsSound` |

Four invariants, each resting on the one before:

- `TxInv`, about locks: a Session is about cells of the home, nobody holds a lock
  before its first UPDATE or after its COMMIT (`HoldInv`), and a device-action has one
  row to flush and holds nothing until it has (`VerbTouchesOneRow`, `OneRowToFlush`). So
  a device-action never holds and waits, which is all a cycle needs.
- `TakeInv`, about what a reset and an apply know: a cell a reset has loaded is still as
  loaded or is news (in `since`), and one that was not at its baseline is to be flushed
  or is written (`RestoreInv`); an apply has written what the steps whose rows it has
  locked set, and nothing else (`StageInv`). `StepAside` says what a step of one worker
  does to the others, which is to commit under them cells that are then news, and
  none that they have locked; `Bystanders` that their invariants survive it.
- `AllInv` adds the types of cells, and that what a device-action has flushed is the
  difference between what it loaded and what its verb made of it. A commit therefore
  takes each column from the home or from the verb (`CommitIsChange`), and each of the
  mixtures this can make is no worse than the home it is committed over (`CommitHeals`):
  band-steer's band and signal, or one of them, the reboot's status and backhaul,
  or one of them.
- `ReadsInv`, about what a request goes by: a cell a device-action has loaded is as
  committed, or others have committed it since; after its own commit the same holds of
  what its re-read returns, which is what it loaded with its writes over it; and what
  telemetry has loaded of the rows its apply has locked is what the apply commits. A
  fault shows on few rows (`EvidenceIsLocal`), so a fault on a row the pack has set is
  one telemetry has seen, and one that was reported cleared and is there was brought by
  somebody else.

`ContactProofs` proves, for any tenants, packs, workers, texts and channels, from
`ContactAssumption`, `TextType` and `RulesType`:

| theorem | says |
|---|---|
| `ContactTypes` | `Spec => []TypeOK`: foreign keys and unique values, whatever overlaps |
| `SeedIsAuthoritative` | `Spec => []SpineIsLastSeed` |
| `SpellingsResolve` | `RulesApart` and `NumbersFollowPlan` imply `Spec => []SpellingsFindTheirParty` |
| `FactorsAreThePacks` | `Spec => []OnlyPackFactorsVerify` |
| `ChannelIsCurrent` | `Spec => []LastChannelIsCurrent` |
| `RecordsAreKept` | `Spec => RecordsStay` |
| `HomesAreThePacks` | `Spec => HomesFollowPack` |

They follow from `ContactInv`, whose hard part is `ResetInv`. A reset decides what it
adds to the homes and drops from them before it commits, while seeds and other resets go
on. The invariant is that what it has decided *stays* exactly what separates the homes
from the pack on file, and that of two resets of one tenant at once neither has anything
to do: the second would want the rows of the first, and waits for them (`Unblocked`).
`ClockInv` is what `ChannelIsCurrent` needs: an event is younger than those on record
when its request came in. `SeedRows` follows one seed through merge, flush and prune.

`SpellingsResolve` is the correctness of `normalize_identifier` on digits of any value:
`BareDigits` says which numbers `_to_e164` takes to a given E.164 number, and
`SpellingsAreNormal` that they are its spellings. That is false of arbitrary dial rules.
`RulesApart` says that a dial code has three digits at most, and that a trunk prefix is
the dial code or neither starts with the other; `NumbersFollowPlan`, that the national part
of a pack's number starts neither with the trunk prefix nor, if long enough, with the dial
code: else the bare number is taken for another one. The code's table meets the first and
the packs the second, nothing checks either, and TLC evaluates both in `MCContact`, the
first for the four countries of the table.

`AnyHomeProofs` proves, for any set of homes, configuration and catalogue, from
`ConfigType`, `ConfigHeals`, `ConfigActs` and the assumptions of `AnyHome`:

| theorem | says |
|---|---|
| `HomeTypes` | `Spec => []TypeOK` |
| `VerbsAreBounded` | `Spec => []EachStepMendsOne` |
| `SpeechIsTheVerdict` | `Spec => []SpeechAgreesWithVerdict` |
| `CoverageIsItsRule` | `ClustersCount` implies `Spec => []CoverageMatchesItsRule` |
| `EveryViewAgrees` | `DownIsWatched` implies `Spec => []ViewsAgree` |
| `HealingSellsNothing` | `OffersNameBadness` and `SteerMends` imply `Spec => HealingOpensNoOffer` |

The invariant is `HomeInv`, which is `TypeOK` and `EachStepMendsOne`; the rest are facts
about one home or one step. `WorstAreaIsHit` and `FirstOfTheBest` follow the tie-breaks of
coverage; `ListIsSorted` shows that the device list exists and that its head is the device
the other pages call the worst; `VerdictEffect` and `ConfirmedByStatus` that a recommended
repair shows on the fields net-status confirms it with; `SteerOpensNothing` and
`RebootOpensNothing` follow each offer rule through each verb. A least number, or a first
row, is found as the minimal element of a well-founded order on finite sets, since
induction is not available; this is why `IsTopology` says that a home is finite.

The hypotheses are what `DEFAULTS` and the shipped catalogue meet and a pack may override
unchecked: `ClustersCount`, a cluster counts one device at least; `DownIsWatched`, every
status but online is a flapping one (else the verdict is silent of an extender that
net-status reports down); `OffersNameBadness`, offers ask for something bad; `SteerMends`,
the poor signal is below the ceiling of the gain and at the edge of its band. TLC
evaluates them in `MCAnyHome`.

Only model-checked is liveness under fairness (`RequestsAnswered` of three modules,
`AgentSettlesEveryHome`, `EndsMendedOrEscalated`), which the prover does not handle.

## 5. Where the code and what is said of it differ

| run | said | done |
|---|---|---|
| `OrderStore_double_order` | an agent that retries must not end up with two orders (`orders/actions.py:7-8`) | two overlapping places both insert; every later place then raises, a 500, until a reset |
| `OrderStore_orphan` | reset leaves a clean slate (`engine.py:239-240`) | a confirmation between its two deletes leaves the event of a deleted order |
| `SelfHealing_unlogged` | every apply and reset is logged (`README.md:189`) | an apply that resolves nobody has reset the tenant and logs nothing |
| `ScenarioTx_cleared` | `fault_cleared` must reflect committed state (`gx/routes.py:297`) | the re-read returns the Session's own objects; a fault staged again meanwhile is reported cleared |
| `AnyHome_coverage` | coverage is the same after band-steer (`coverage.py:6-7`) | it reads the signal band-steer raises |

Also seen, without a run of its own:

- two overlapping confirmations record two events (`orders/actions.py:151-152`: a
  resend records nothing new);
- the feed of a subscriber whose faults were healed keeps their events, while
  `gx/routes.py:392` says it is empty for a healthy one;
- the coverage note counts the edge devices of all extenders and names one of them,
  while `gx/routes.py:463-464` wants a reason that is true of the customer;
- a reset that races an apply does not "restore the tenant's seeded baseline"
  (`engine.py:237`): cells staged after it looked stay as staged. `QuietResetRestores`
  says what it does restore;
- `reset` "cannot drift from what the pack describes" (`src/README.md:157-159`), but
  from a pack whose network section was removed it leaves the rows in place
  (`HomesFollowPack` holds that case apart);
- `/gx/net-status` calls a home healthy whose hub, not an extender, is offline;
- `src/README.md:362` calls device-action's `params` unused by the current verbs, while
  band-steer reads `params["band"]` (`actions.py:79`, `SteerBand`).

## 6. Not modelled

Contract generation and AVA checks, masking, the schemas, the API key and admin
password, the migrations and the scripts change no state of the running service.
Within the modelled parts: names, labels, prices, MACs and texts; parsing and
validation of packs; offers with an unregistered rule, which raise; `cancelled`, which
nothing sets. In `SelfHealing` two requests never overlap; `ScenarioTx` is for that and
leaves out radio rows and uptime, an explicit band, orders and the audit log. Reset's
DELETE of events takes its locks one by one in `OrderStore`, at once in `ScenarioTx`.
Two seeders at once, and a pack edited while a reset reads it, are left out.

## 7. Plan

Done: the order store with its abstract specification; the demo loop, as whole requests
and statement by statement; the network operators and pages over arbitrary homes; callers,
spine, homes and interactions; threads and connections. Each has a proof module, and every
safety property of a passing run is a theorem.

Left, in this order: requests of `ScenarioTx` that do not overlap as steps of `SelfHealing`;
the orders in which a sequence of seeds passes the unique constraint.
