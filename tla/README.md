# Verification of hy_global_copcu_backend

TLA+ models of the server in `src/` (Express, one Node process, MongoDB), TLC
runs that check them on small instances, and TLAPS proofs of what matters most
for every size.

## Reading guide

| Module | Models | Checked with |
|---|---|---|
| `VersionCounter` | the global version and the write queue of `services/sync/version.service.ts` (a component without a `Next` of its own) | inside `ItemSync`, `SiteStatus`, `AuditTrail` |
| `QueryCache` | `util/queryCache.ts` (a component) | inside `CachedReads`, `ItemSync` |
| `RuleResolution` | `services/items/resolveItemRules.ts`, as operators without state | inside `ItemRules`, proofs in `ItemRulesProofs` |
| `CachedReads` | callers and writers around one `QueryCache` | `MCCachedReads`, `CachedReads.cfg` |
| `ItemSync` | `controllers/items.controller.ts` over `VersionCounter` and `QueryCache`, with clients that hold replicas | `MCItemSync`, `ItemSync*.cfg` |
| `ReplicaFeed` | no code: what synchronisation promises clients, an abstract specification | inside `ItemSync`, which implements it |
| `SiteStatus` | site settings and polling tabs over `VersionCounter` | `MCSiteStatus`, `SiteStatus*.cfg` |
| `Sessions` | refresh sessions: `services/auth/session.service.ts` and its controllers | `MCSessions`, `Sessions*.cfg` |
| `ItemRules` | saving the item rules and applying them: `controllers/itemRules.controller.ts`, the check in `bulkUpdateItems`, `updateAdminPermissions` | `MCItemRules`, `ItemRules.cfg` |
| `AuditTrail` | requests of several admins up to their audit events: `authorize.middleware.ts`, the write handlers' reads and events, `recordLogEvent` | `MCAuditTrail`, `AuditTrail.cfg` |
| `LogPages` | `controllers/logEvents.controller.ts`, while events arrive | `MCLogPages`, `LogPages.cfg` |
| `Deployment` | `deploy/deploy.sh` over two processes of `server.ts`, and the insert script | `MCDeployment`, `Deployment.cfg` |
| `CachedReadsProofs`, `ItemSyncProofs`, `SiteStatusProofs`, `SessionsProofs`, `ItemRulesProofs`, `AuditTrailProofs`, `LogPagesProofs`, `DeploymentProofs` | lemmas and theorems about the module named | TLAPS |

`PROJECT.json` maps every definition to the lines it models, and lists runs,
mutants, findings, hazards and theorems. An operator with the comment "Mutant
of X" is a plausible bug in X. It is not part of the specification: it stands
in for X once, to show that the property named in `PROJECT.json` notices it.

## The system

The server keeps a price list of items. Admins change it, every visitor's tab
reads it. Components, their state and what they do:

| Component | State | Operations |
|---|---|---|
| Version counter and write queue (`version.service.ts`) | in memory `committedVersion`, `maintenance`, `notice`, the promise chain `writeQueue`; in the database `app_state` | `withVersionBump`, `setMaintenance`, `setNotice`, `initVersionState` |
| Cached list (`queryCache.ts`) | `entry`, `inFlight`, `generation` | `get`, `getWithMetadata`, `invalidate` |
| Item handlers (`items.controller.ts`) | the `items` collection: content, `version`, `deletedAt` | list, changes since N, create, update, bulk update, delete, bulk delete |
| Site settings (`site.controller.ts`) | see the counter | status (ETag = version), update maintenance, update notice |
| Refresh sessions (`session.service.ts`) | the `sessions` collection, the browser's cookie | login, refresh (rotate), logout, TTL deletion |
| Access tokens (`verifyJWT.service.ts`, `token.helpers.ts`) | none | verify one request |
| Item rules (`itemRules.controller.ts`, `resolveItemRules.ts`) | one `ItemRuleSet` document with a `revision` | list, save with compare-and-set, resolve, customer price list |
| Audit log (`recordLogEvent.service.ts`, `logEvents.controller.ts`) | the `log_events` collection | record, list by page |
| Admin accounts (`admins.controller.ts`, `authorize.middleware.ts`) | the `users` collection | list, create, set permissions, authorise a request |
| Boot and shutdown (`server.ts`, `config/db.ts`) | `shuttingDown`, the connection promise | start, graceful shutdown, forced exit |
| Deployment (`deploy/deploy.sh`) | which color nginx serves | start the idle color, switch, drain the old one |
| Pipeline (middleware, schemas, routes, errors) | the rate limiter's counters | validate, sanitise, limit, format errors |
| Scripts (`local/`) | none of their own | import, export, insert, delete a log event |

How they interact:

- Every item and settings write goes through `withVersionBump`. It stamps what it
  writes with `committedVersion + 1`, calls `itemsCache.invalidate()`, and the
  counter is saved and advanced afterwards.
- Readers are not queued. `listItems` and `listItemChanges` read
  `committedVersion`, await a query (shared through the cache or their own) and
  label the answer with the number they read before.
- Tabs poll `/site/status`, whose ETag is the version, and then ask for changes.
- Refresh requests of several tabs share one cookie and meet in the database
  only, through a compare-and-set on `currentJti`.
- Rule saves do not use the write queue; they meet in the database through a
  compare-and-set on `revision`. Bulk updates read the rules inside the queue.
- A handler records its audit events when its write has settled. They are not
  queued either.
- Counter, settings and cache are per process. During a deployment, and while a
  script runs, there is more than one process over the database.

Everything hard comes from that: reads that interleave with a write that is
changing rows one by one; a version read before an await; cached results that
arrive after an invalidation; a write, its counter save and its in-memory effect
as three steps that can fail or be cut off separately; answers that are lost or
late. What makes each component correct:

- counter: versions are announced in the order in which they land, none is lost;
- cache: nothing read before an invalidation is served after it;
- items: the version a client holds never hides a change from it;
- settings: a 304 stands for what is in force; a restart changes nothing;
- sessions: one rotation wins, nothing is granted after the end, honest browsers stay signed in;
- rules: no save is lost, permissions cover the change that is made, no bulk edit slips past a rule unseen;
- audit log: an event tells the write it was recorded for, no change goes unlogged, a walk through the pages sees every group;
- deployment: switching colors misleads no client, undoes no setting, cuts off no admin, and ends.

## Modelling decisions

**Granularity.** JavaScript runs to completion between awaits. A step is one
turn of the event loop: the code between two awaits, together with the promise
callbacks the same settled query triggers (microtasks run before the next I/O
event). So `Resolve` of the cache and the handlers that await it are one step,
`ListQueryAnswers`. A database call is separate from its answer wherever
something can happen in between: a query that is sent, evaluated and answered is
three steps. Batches change one row per step. The read of a whole list and the
read of a delta are single steps: MongoDB reads row by row, but the label was
taken before, and a row that changes during the read carries a version above it,
so the argument for a row does not need the others. The trip of a delta response back to the client
is not a step, since only that client can see it; the answer is
applied when the query runs.

**Data.** An item is one of `Values`, `Deleted` or `Absent`, and a row is its
content and version. A setting is a member of `Settings`. Tokens are numbered.
ETag and fingerprint are left out of `listItems`: a 304 is sent for the same
version and the same list, so it does to a client what the full answer does.

**Clients** are outside `src/`. They are modelled by what the API tells them to
do: replace the copy by a full list, merge a delta, remember the version; poll
with one request at a time. Browsers keep the status body and revalidate it with
the ETag, and apply `Set-Cookie` when an answer arrives.

**Faults** are chosen per run by the constants `Faults` and `Failures`:

| Fault | Meaning |
|---|---|
| `crash` | the process dies at any point and boots again; memory, queue, requests are lost |
| `readFails` | a query throws |
| `saveFails` | the counter save throws, applied or not |
| `tornWrite` | a write throws although rows (or the setting) were changed |
| `lost` | a response does not reach the browser |
| `dbFails` | any database call of login, refresh or logout throws, applied or not |

A write that throws before it changed anything (a rule conflict, a validation
error, a missing row) is always possible, and so is an audit event that is not
recorded. `ItemRules` and `Deployment` have their faults built in: database
calls that throw, applied or not; failing health checks, aborted deployments,
calls that never settle, clients that go away.

**Bounds**, each guarded by name: `MaxVersion` (versions handed out),
`MaxWrites` (writes of `CachedReads` and `Deployment`, rows written in
`AuditTrail`), `MaxTime`, `MaxJti`, `MaxLogins` (`Sessions`), `MaxRevision`
(`ItemRules`), `MaxRows`, `PageSize`, `MaxTime` (`LogPages`). They cap behaviours
only. Two more bounds are in `Deployment`: the script starts only while no
deployment is under way, and the run explores nothing that follows a stale write
(`BeforeStaleWrite`, see there).

**Boot** is one step, except in `Deployment`: the server listens only after
`initVersionState` has returned. A database call that was sent before a crash
does not land after the reboot. Only `Deployment` has more than one process.

## Modules and what the runs show

### QueryCache, CachedReads

A fetch is named by the caller that started it. The source's comparison
`startedAt === generation` is kept as a truth value per fetch, which
`Invalidate` clears for all running fetches; this avoids an unbounded counter.
`CachedReads` abstracts the database to the number of writes it holds, so a
read's age is a number. A writer's update and its `invalidate()` are separate
steps.

| Run | Shows |
|---|---|
| `cached_reads` | `FreshAfterInvalidate` (a read after an invalidation holds every earlier write), `OneSharedFetch`, and `GetAnswered` (no caller waits forever). Three callers: one may join a fetch while another's superseded fetch is still out. Two writes: one before and one after an invalidation that a fetch spans. |

### VersionCounter, ItemSync

`phase` is where the head of the queue is: `write` (callback running), `save`
(the `$max` is out), `commit` (acknowledged, not yet in memory), `idle`, or
`down`. `writeQueue` holds the admins waiting; each admin has one request at a
time. `ItemSync` adds rows, the running write as the set of rows it still has to
change, the cached list, and clients with `label` (version held) and `replica`.

| Run | Shows |
|---|---|
| `item_sync` | Restarts at any point, failing reads: `ClientCurrent`, `CacheCurrent`, `EmptyNotRetained`, `IdleAnnounced`, `ImplementsFeed`. Two admins give a queue, two clients give shared and superseded fetches, two items give half-done batches. Two versions suffice for the hazards: a version read before one commit and used after it, and a write in progress on top of a committed one. |
| `item_sync_live` | Counter saves fail, so the same version is handed out twice: `WritesSettle` (every write comes to its end) and `ClientsCatchUp` (a polling client reaches every announced version) under fairness. One client, so no symmetry is needed. That `ClientCurrent` and `CacheCurrent` hold with this fault too is proved. |
| `item_sync_torn` | Violated, see findings. |

`ClientCurrent` is the center: a client labelled `v` holds the current content
of every row last written at `v` or before, hence `version > v` is all it needs.

`ReplicaFeed` says what all of this amounts to for a client, in three steps: a
row changes under the next version (`Change`), the next version is announced
(`Announce`), clients are moved on to an announced version with a copy that is
right up to it (`Answer`). `ImplementsFeed` states that `ItemSync` does nothing
else. The mapping has to name the announced version also while the server is
down: `Announced` is the counter in memory or, after a crash, the version a boot
will restore, so a crash announces what the dying process had written, and a
boot announces nothing. `Published` hides soft deletion. A client's version never goes
back in the feed, so `ImplementsFeed` covers `LabelNeverRegresses` in this run.

### SiteStatus

Settings in memory and in `app_state` over the same counter; item writes only
count as versions. A tab holds the ETag and the body its browser cached.
`announcedBy[k]` is the version under which setting `k` was stored, or `Never`
when its write threw although it was stored.

| Run | Shows |
|---|---|
| `site_status` | Restarts, failing saves and writes that throw, stored or not. `PollerCurrent`: between writes, a tab that will be answered 304 shows every announced setting in force. `SettingsSurviveRestart`: a restart would bring back what is in force. `TabsConverge`: if restarts end, a polling tab keeps coming to show what is in force and announced. Three versions: one setting, another one on top of it, and one that hides a lost announcement. |
| `site_status_crash` | `StatusCurrent`, which is `PollerCurrent` without the word announced; violated, see findings. |

`PollerCurrent` is stated for `phase = "idle"`: while a setter runs, the setting
is in force before its version is announced, and both become visible together to
a poll that follows the commit. What `Announced` excludes is a setting whose
write threw after it was stored, or whose version got lost with a restart or a
failed save, until a later write takes the number.

### Sessions

One browser with several tabs, its cookie jar, and the session documents of its
logins. The first login is over at the start; a tab may log in again at any
time, on top of a live session or after its end. A handler's stage says which
database call it awaits. `stale` and `late` record what the token and the
session were when the handler started, `wins` counts rotations per token. Times
are small integers: `Grace` 1, `Idle` 2, `Absolute` 3 keep the order of the real
ones (30 s, 7 days, 60 days) and let a run pass all three.

| Run | Shows |
|---|---|
| `sessions` | `OneRotationWins`, `NothingGrantedAfterEnd`, `OldTokenEndsSession`, `AbsoluteCap`, `CookieKept`, with lost and late answers and failing calls. Four token ids allow a token that is neither current nor previous, and a rotation after it; two logins allow an answer of the first session to arrive in the second. |
| `sessions_overtaken` | Violated, see findings. |

`CookieKept` has one exception. `Set-Cookie` is applied in the order in which
answers arrive, so the answer to a request that carried an older cookie may clear
a newer one, of a rotation or of a new login. The server cannot tell.

A refresh whose user no longer exists is left out: no code of the server deletes
users. A rotation whose `User.findById` then fails answers 500 with the new
cookie already set, which `DatabaseFails` in stage `user` models.

### RuleResolution, ItemRules

One document with a revision, edited by several admins from pages of any age
(`seen`). `request` says which database call a handler awaits and what it has
read; `history` lists the rules of every revision and is there for the
properties only. A rule has an id, conditions and actions. Every operator of
`matches` is the membership of a present value in a set, or the negation of
that, so a condition is a field, a set and a sign; an action's value is what its
text is converted to. `Resolve` is the loop of `resolveItemRuleDetails` over the
list (`After` holds its state after each rule): a rule is tested against the item
as the rules before it have left it, and sets the fields that none of them has
claimed. The rows themselves are in
`ItemSync`; what `ItemRules` takes from the write queue is that only one bulk
update runs at a time.

| Run | Shows |
|---|---|
| `item_rules` | `NoLostSave`, `PermissionsCoverChange`, `AuditTellsChange`, `ApprovedKnowingly`, `RulesResolve`, `PricesArePublished`, while permissions change and database calls throw, applied or not. Two admins, one without all permissions. Three revisions: the first save creates the document, a second one updates it, and a third lets a request span two saves. The rule lists differ pairwise by additions, removals, edits or order. |

The lists are made of two rules, `P` and `Q`, and a disabled `P`. Both set the
price. `P` applies unless the model is 2, and `Q` sets the model to 2, so the
order decides which of them applies at all, who wins the price, and whether the
batch conflicts. `RulesResolve` compares the loop with `FirstRuleWins`, which
speaks of the set of rules that apply and of the first of them to set a field,
and of no order of evaluation, for all items and all edits over two fields.
`PricesArePublished` compares the public price list, which skips the items if no
enabled rule sets a price, with the same declarative reading.

A page may send an outdated list, an approval for outdated rules, or a list its
admin may not save. `PermissionsCoverChange` speaks of the permissions as read
during the request: a permission withdrawn after `actor()` has returned does not
stop the save, and the code promises no more. `ApprovedKnowingly` speaks of the
rules the batch was checked against; a save that lands between that check and
the `bulkWrite` is as if it came after the batch, since rules are not enforced
on rows that exist.

### AuditTrail

What lies between an admin's request and its events. `history[e]` keeps every
content of an item, or of the settings, with its version and author; a write is
named `<<e, k>>`. `request[a]` goes through the permission check, for a single
update through the lookup before the queue (`find`), the queue, the write and
the recording of its events one by one. Handlers read what they will log at two
places: `updateItem` and the settings before they queue, everybody else inside
the queue. The settings are read from memory (`getMaintenance()`, `getNotice()`):
`inForce` says which content of the settings that is. A write that returns or a
boot brings it up to date; one that throws after it was stored leaves it behind
(`version.service.ts:133-138`). `unlogged` collects the writes whose handler
failed after they were stored, whose event was not recorded, or that a crash cut
off. For the properties only, `since` remembers which content was stored when a
handler read before it queued, and each content keeps the `read` and `since` of
the request that wrote it.

| Run | Shows |
|---|---|
| `audit_trail` | `RevokedAtOnce`: a request past its permission check had the permission at some time since it arrived. `EventsTellWrites`: author, new value and version of an event are those of its write, and the previous value is the replaced one. `ChangesAreLogged`: a change whose request went well has its event. With restarts, failing counter saves and writes that throw half way. Two admins, two items and the settings, two rows written: one batch over both, or a write between another one's read and its turn. |

The exceptions are in the properties. Events of single updates and of settings
may name an older previous value (`items.controller.ts:185`,
`site.controller.ts:83`). And such a request is not logged if it puts back what
its handler had read (`items.controller.ts:214`, `site.controller.ts:93` and `132`)
although others had changed it. `PutsBackWhatItRead` says which writes these are.
Each content in between was stored after the handler had read, while its request
was under way, or before that by a failed request, whose change the settings in
memory did not show. The second case needs no concurrency: a
settings change is stored but its call throws, and the next one asks for what is
still in memory, so the stored settings change back and no event tells of it.
Every other revert has its event: maintenance switched on and off again, or a
batch that puts a price back. The run reaches both cases and logged reverts. It has one
head admin, so settings changes of two of them at once are left to the theorem.

The version in a settings event is exact: `getVersion()`
(`site.controller.ts:99` and `139`) runs in the turn in which the write settles, so no
other write has advanced it. Only the version in the response, read after the
event was recorded (108, 145), may be a later one.

### LogPages

The rows of one bulk request form a group. `events` is the collection, `batch`
the rows on their way, `walk` one admin who turns pages with the same filter
until `totalPages`, `missing` the groups of the start that were not on a page so
far. The page and the number of groups come from two queries, which run in
either order; the sort has no second key, so `Pages` is a set of possible
answers.

| Run | Shows |
|---|---|
| `log_pages` | `WalkSeesAll`: no group that was there at the start is missed although rows arrive and shift the pages. Three requests of up to two rows and one group per page: groups that are behind, on and before the page while another arrives; three instants, for ties and for a row that arrives late. |

Three things do make a walk miss a group: equal age of two groups (the property
says `Untied`), a row that arrives for a group already listed or between the
count and the page, and a deletion by hand. After the last two a walk is not
followed any further (`Disturbed`).

### Deployment

`process[p]` is a container, or the insert script, with its own counter,
settings and cached list: `starting`, `loaded` (state read), `serving` (state
saved, listening), `closing` (SIGTERM), `gone`. `deploy` follows the script's
commands, `file` and `upstream` are the color in nginx's file and the one nginx
uses. Reads are atomic here, and so is what a write does after its database
call; `ItemSync` has the interleavings inside one process. A write is a
`job`, `item` or `setting`, before and after its database call. The audit events
that the insert script adds after its write are left out.

For the properties only: `lastSetting` is the setting stored last; `behind` holds
the processes that loaded a state which others have changed since; `misled` the
clients one of these has answered; `staleWrite` says that one of these has
written, an item under its own next version or, at boot, the saved state over a newer
one.

| Run | Shows |
|---|---|
| `deployment` | `ClientCurrent` and `SettingsKept` across switches; `NoCutoff`: nginx has a color that serves, and a shutdown that reports success has answered every admin who waits; `DeploymentEnds`. Health checks and the nginx test may fail, a run may be aborted anywhere, clients may leave, database calls may never settle. One client and one item suffice: the properties speak of a client and a row. Two writes: one by each of two processes. |

What goes wrong while two processes overlap is excluded by name, and the rest is
checked. The old color serves on while the new one is up, and each counts alone: a client
that a process answers which is behind misses changes, a setting stored by the
old color is not seen by the new one, which has loaded before; a boot's plain
`$set` (`version.service.ts:72-76`) overwrites what was stored between its read
and its save. `version.service.ts:13-14` says that the server assumes a single
process, so this is a documented limit. After a stale write two processes have
handed out the same version for different rows; `ClientCurrent` and
`SettingsKept` say nothing of such states, and the exploration stops there
(`BeforeStaleWrite`), which leaves `NoCutoff` and `DeploymentEnds` unchecked
behind them. The proof of `NoCutoff` has no such bound, and `DeploymentEnds`
does not depend on rows or settings.

Three more things `NoCutoff` leaves out or the actions show. An aborted
run may have written the file without reloading nginx, and the next one then
recreates the color that nginx serves (`deploy.sh:57`). A second SIGTERM
finds the shutdown under way, returns from `gracefulShutdown` and exits with 0
at once (`server.ts:37-40`, `70-71`). An admin who goes away during the shutdown
lets `server.close()` resolve, and the process exits with 0 while the write is
still running (`ClientAborts`).

## Fairness

Only weak fairness is used. The driver settles every database call (it has
timeouts of its own), and Node runs what is ready, so the running write goes on,
a sent query is evaluated and answered or failed. Tabs and clients poll forever;
this is the client's promise. Nothing is assumed of admins, restarts or faults.
`TabsConverge` is conditional on `<>[]Up`: a server that crashes forever settles
nothing. `ItemSync`'s liveness run has no restarts for the same reason.

`Deployment` is stricter: `deploy.sh` goes on by itself, since its waits are
bounded (`HEALTH_TIMEOUT_S`, `DRAIN_S`), and the shutdown timer fires. Of the
database nothing is assumed, so `DeploymentEnds` rests on the timer alone.

## Findings

Each is a run whose property, a sentence of the source, TLC violates.

1. `item_sync_torn`: a write that throws after it changed rows skips
   `itemsCache.invalidate()`, while the version advances. The old list is then
   served under the new version, and a client that took it never asks for the
   missing rows (`items.controller.ts:56`).
2. `site_status_crash`: a restart between a setting's update and the counter
   save puts the new setting under the old ETag (`version.service.ts:129`).
3. `sessions_overtaken`: a slow refresh that two others overtake is taken for a
   replay and ends the session, although nobody copied a token
   (`session.service.ts:31`). A retry after the grace window when the rotated
   response was lost, or when the rotation was stored but its acknowledgement
   failed, ends it as well (`session.service.ts:44`): `HonestBrowserKept` also
   fails with `MaxTime = 3` and `Failures = {"lost"}`.

One more behaviour is not a run of its own. When the counter save throws, the
counter does not advance, and the change is announced only by a later write or a
restart (`version.service.ts:104-106`); `IdleAnnounced` fails as soon as `Faults`
has `saveFails`. A later write takes the same number, which `ClientsAreCurrent`
and `item_sync_live` show to be harmless to clients that ask then.

## Proofs

TLAPS checks every theorem to the last leaf, for arbitrary sets of callers,
admins, items, clients and values and for every bound. The assumptions are the
named ones in the modules: the special values differ from the ordinary ones,
bounds are natural numbers, a session's idle time and absolute cap are not
zero, stored rule lists are lists of rules (`SnapshotsAssumption`), and the
requests that write log events are finitely many (`BatchesAssumption`). Nothing is
assumed about how the times of a session compare.

Hardly any property is inductive as it stands. What has to be added is said below
for each module; TLC checked it on the bounds of the module's run before it was
proved.

`CachedReadsProofs` proves `TypeCorrect`, `NextReadIsFresh` and `ColdReadsShare`.
The invariant adds to the properties that a fetch which may still fill the cache,
and the fetch each caller awaits, will answer with a value at least as new as
what its callers asked for. That fails for the plain property alone, which says
nothing about fetches under way.

`ItemSyncProofs` proves

| Theorem | Property | Assumes |
|---|---|---|
| `TypeCorrect` | `TypeOK` | |
| `LabelsAreMonotone` | `LabelNeverRegresses` | |
| `FeedIsImplemented` | `ImplementsFeed` | `"tornWrite" \notin Faults` |
| `FeedIsFollowed` | `Feed!Followed` and `ClientCurrent`, from `Feed!Spec` alone | |
| `ChangesAreAnnounced` | `IdleAnnounced` | `"saveFails" \notin Faults` |
| `ClientsAreCurrent` | `ClientCurrent` | `"tornWrite" \notin Faults` |
| `CacheIsCurrent` | `CacheCurrent` | `"tornWrite" \notin Faults` |
| `EmptyListsAreDropped` | `EmptyNotRetained` | |

The two assumptions are exactly the faults for which TLC finds a violation. The
inductive invariant has three layers. `TypeInv`: types, the queue never
promises more than `MaxVersion`, the running job only touches rows while
the phase is `write`. `OrderInv`: no row is stamped beyond the version being
written (`StampBound`), the saved counter is never ahead of what recovery would
restore nor behind what was announced (`CounterSaved`), no label or request
is ahead of the saved counter (`LabelBound`, `RequestBound`), and a boot restores
at most the version that was being written (`RecoveryBound`); this is what makes
restarts safe. `ListInv`: the cached list, every fetch that may still be cached
or shared, and every list a client is awaiting agree with the database on the
rows that the holder's version covers (`CacheCurrent`, `SharedFetchUsable`,
`AwaitedFetchCurrent`, `ClientCurrent`). None of the last four is inductive
alone: a client's list comes from a fetch, the fetch from the cache's state when
it started.

`FeedIsImplemented` is the refinement, step by step: `WriteRow` is a `Change`
(`WriteRowChanges`), `Commit` an `Announce`, `Crash` an `Announce` if the version
being written is in the database or saved (`CommitAndCrashAnnounce`), `Boot`
changes nothing (`BootRestores`), and every other step an `Answer`
(`OtherStepsAreQuiet`, `QuietStepsAnswer`, with the invariants above).
`FeedIsFollowed` shows that the three steps of the feed alone are enough for
`ClientCurrent`, so the feed is a specification of what clients may rely on, and
the rest of `ItemSync` is how the server keeps to it.

The lemma `CounterKeeps`, in `ItemSyncProofs`, `SiteStatusProofs` and
`AuditTrailProofs`, says what each step of the counter does to its types and to
`QueueBudget`, by which the queue never promises more versions than the bound.

`SiteStatusProofs` proves `TypeCorrect`, `PollersAreCurrent` (`PollerCurrent`) and
`SettingsSurvive` (`SettingsSurviveRestart`) under every fault. The invariant has
three layers. `TypeInv`: types and `QueueBudget`. `OrderInv`: no tab's ETag is
beyond the saved counter, nor beyond the one in memory while the server is up
(`TabsBehind`, which is why a restart brings no ETag back that a tab already
holds with another body), and a running write that has stored its setting has
stored it under the next version (`JobStores`). `StatusInv`: a tab's body shows
every announced setting of its ETag, for the settings in force or, while the
server is down, for those a boot will load (`BodiesCurrent`), and these are the
saved ones (`SettingsSaved`). `PollerCurrent` alone is not inductive: it is about
idle moments, and says nothing of what a running write or a boot will put in
force.

`ItemRulesProofs` proves the seven properties of its run. `TypeCorrect`,
`NoSaveIsLost`, `PermissionsAreCovered`, `AuditIsTrue` and `ApprovalsAreKnowing`
are about saving. Their invariant rests on one fact, that a
revision identifies its rules (`KnownUnique`): whatever a page or a handler
keeps as a revision with its rules is an entry of `history` (`KnownIn`), so the
code's comparison of revisions is a comparison of rules. `Sound` adds what each
stage of a request has established: from the write on, the base is what was
read and its permissions cover the change; in the audit, the list is the
revision after the base. The properties alone are not inductive: they say
nothing about pages and about requests that have not written yet.

`RulesAreResolved` (`RulesResolve`) and `PricesAreAllPublished`
(`PricesArePublished`) are about what the rules do, for lists of any length, all
items and all edits. Every list an admin can store or hold is a list of rules
(`StoredRules`); the rest is about the operators. `Stands` is the invariant of the
loop: before rule `k` the item is the one that `SeenBy` describes, and a field is
claimed, set and attributed as the first of the rules that fired so far has it
(`StartStands`, `TurnStands`, `LoopStands`). `AppliedFired` shows that the set
which `FirstRuleWins` only describes, the rules that apply to what they see, is
determined, and is the set of rules that fired. Both are inductions along the
list. The library's induction theorems take an operator as a parameter, which the
provers cannot instantiate; `LeastNumber` replaces them: if a statement failed,
there would be a least index at which it does. It follows from the library's
theorem that strict inclusion among finite sets is well founded, which takes
sets only.

`SessionsProofs` proves the six properties of the run `sessions` under lost
answers and failing calls, for any number of tabs and logins and any time limits:
`TypeCorrect`, `RotationIsUnique` (`OneRotationWins`), `EndIsFinal`
(`NothingGrantedAfterEnd`), `ReuseEndsSession` (`OldTokenEndsSession`),
`TermIsCapped` (`AbsoluteCap`) and the action property `CookieIsKept`
(`CookieKept`). The invariant has three layers. `JtiInv`: a token id is given
once, so a session's current token has not been exchanged yet and no other
session has it. `TokenInv`: every token, in the cookie, in a request or on its
way back, belongs to a session there is or was, and does not outlive its
document. `TabInv`: what each stage of a request has established. Access tokens
are granted inside the session's term only (`GrantSound`); a request that came
too late does not get past the look-up (`LateSound`); a stale token stays stale
and its request ends the session or fails (`StaleSound`); a response clears the
cookie after a logout, or when the token that came with the request is worth
nothing any more (`ClearSound`). The last is what `CookieKept` needs, which is
about the moment a response arrives and says nothing of how it came about.

`AuditTrailProofs` proves the run's four properties under every fault, for any
number of admins, items, permissions and writes: `TypeCorrect`,
`RevocationCounts` (`RevokedAtOnce`), `EventsAreTrue` (`EventsTellWrites`) and
`NoChangeUnlogged` (`ChangesAreLogged`). It assumes what the module states: some
admin, head admins are admins (`AdminsAssumption`), and the settings are no item
(`ItemsAssumption`). The properties are about events that are recorded, so the
invariant has to follow each write from its request to its event. `QueueSound`: an
admin is in the queue once, waiting for the write or, at its head, for the
counter of a write that threw. `HistorySound`: something is always stored, and
the settings are never absent. Then, for each admin: a request past its check
held the permission (`HeldSound`); only a request that records, or the head of
the queue after its write, has written (`StageSound`); what is asked fits the
kind of request (`AskedSound`); the previous value it read early is one of the
contents there have been, and what was newer when it read came from failed
requests (`SeenSound`); its writes are stored under its name with the value it
was asked for and with what it had read, which precedes them, directly so unless
it was read early (`WritesSound`); and each of its writes has its event still to
come, recorded or lost, or put back what was read (`RecordSound`). For the
settings, `MemorySound`: only failed requests have stored newer ones than those in
memory. Contents and events only accumulate, so what is true of a
recorded event stays true.

`LogPagesProofs` proves `TypeCorrect` and `WalksSeeEveryGroup` (`WalkSeesAll`) for
any finite number of requests, any page size and clock. The argument counts. While
a walk misses an untied group, at least as many groups are strictly newer than it
as the pages read so far hold (`Passed`), and a total that was counted with or
after the page exceeds that number (`WalkSound`), so the walk has not come to
`totalPages`. A page that does not show the group holds only groups listed before
it. A row that arrives without disturbing the walk is the first of its group, which
takes no newer group away. `WalkSeesAll` alone speaks of the end of a walk and says
nothing about pages still to be read.

`DeploymentProofs` proves `TypeCorrect`, `ClientsAreCurrent` (`ClientCurrent`),
`SettingsAreKept` (`SettingsKept`) and `NobodyIsCutOff` (`NoCutoff`), for any
number of clients, items, versions and writes, and beyond stale writes too. The
invariant has three parts. `ShapeInv`: types, and what a process is in when it
has a job, a cached list or nothing. `DeployInv`: the color in nginx's file
serves whenever nginx uses it or is about to, and `deploy.sh` never recreates or
drains that color, unless an aborted run has left the file ahead of nginx.
`CurrentInv` is the argument for the overlap of two colors. `UpToDate` are the
processes that nobody has left behind; each of them agrees with the database and
with all others: no row, no saved counter, no other counter and no client's label
is beyond the highest version it has given a row (`Reach`), its settings are the
stored ones and its cached list is true of the rows it covers (`ProcessSound`).
A write leaves every other process behind, so only the writer is left to agree;
a boot brings a process back, because every version somebody has announced is
known to the database (`Covered`). `ClientCurrent` alone says nothing of the
processes and is not inductive.

Only model-checked: liveness, which is outside the prover's reach (`GetAnswered`,
`WritesSettle`, `ClientsCatchUp`, `TabsConverge`, `DeploymentEnds`). Every other
property of a passing run is a theorem, for some under the assumption on faults
named above.

## Not modelled, and the plan

What would add most, in this order:

1. `SiteStatus` and `Deployment` as implementations of `ReplicaFeed`, with the
   restarts and stale processes that break it named as steps of the feed.
2. `createAdmin`, one insert that a unique index guards.

Left out for good:

- access tokens: stateless checks of one request; that a token outlives its
  session by up to 15 minutes is intended (`logout.controller.ts`);
- the maintenance gate: a synchronous test of settings that `SiteStatus` models;
- the pipeline (validation, sanitising, routing, error formatting, CORS, rate
  limits): stateless, or the state of a library;
- schemas and routes: declarations;
- the scripts that parse and check the raw price lists (`local/`): text processing
  run by hand, with nothing concurrent; only what `insertPrefixMatches` and
  `hardDeleteRuleLogEvent` do to a running server is modelled;
- the filter of the log by model name, which restricts the rows as the types do;
- Docker files and the image build.
