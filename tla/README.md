# TLA+ models of rmqtt-things

`rmqtt-things` is an IoT backend beside an RMQTT broker. Devices talk MQTT to the broker; the
broker calls the backend through webhooks; administrators and factories use its HTTP API. State
lives in PostgreSQL, some of it also in memory or in Redis, and the administrators' tokens live in
Herald, an external identity service. This directory holds models of the parts where requests,
background tasks, crashes and lost answers meet, the TLC runs that check them on small instances,
and TLAPS proofs for instances of any size.

`PROJECT.json` lists the components, the runs, the source lines of every definition, the hazards
of the code, the finding and the theorems.

## 1. Inventory

| Component | State | Operations | What is hard | What makes it correct | Module |
|---|---|---|---|---|---|
| Command queue (`api/utils.rs`, `rmqtt_client.rs`, `db/database.rs`, handlers) | tables `property_command`, `action_invocation`; the broker's subscriptions | create, cancel, drain (claim, publish, mark failed), reply | several drains of one device at once; lost answers of the broker; requests dropped half-way; a gate checked before the claim | a row is claimed once, cancel is final, copies are bounded, success means delivery, the queue drains | `CommandQueue` |
| Webhook retry (`main.rs`, `rule_engine/actions.rs`, `db/alarm.rs`) | `alarm.webhook_status`, `webhook_retries_left`, `webhook_next_retry_at` | first attempt, poll, retry round, mark success, decrement, mark final | restarts between two updates; several instances; rules edited meanwhile | the budget is used exactly, success means delivery, a settled outcome stays, retries end | `WebhookRetry` |
| Alarm rule engine (`rule_engine/mod.rs`, `rule_engine/cache.rs`, `db/alarm.rs`, `api/alarm_handlers.rs`) | rule cache, dedup and duration windows (memory or Redis), `alarm` rows | evaluate, trigger, clear, acknowledge, enable or disable the rule | evaluations spawned per report overlap; check, clock reading and mark are separate; Redis is late, or its errors are dropped | alarms per window are bounded, duration really sustained, cleared is final, open alarms clear | `AlarmEngine` |
| Rule condition evaluator (`rule_engine/evaluator.rs`) | none | compare a JSON value with a threshold | strings that parse as numbers, NaN, infinities, the epsilon of `==` | opposite operators divide the readings they can compare | `RuleEvaluator` |
| Schema cache and validation templates (`cache.rs`, `api/admin_handlers.rs`, `api/handlers.rs`, `db/database.rs`) | templates with one active row per event, cached schemas | create, edit, activate, delete; look up, fill, remove | overlapping activations; a slow reader fills the cache after the entry was removed | one active template, frozen while active, no gap while switching, a cache that follows the table | `SchemaTemplates` |
| Device shadow and property reports (`api/shadow.rs`, `api/admin_handlers.rs`, `api/handlers.rs`, `db/database.rs`) | `property_desired`, `property_latest`, `property_history` | set desired, compare, enqueue the delta; report | the first two requests have no row to lock; the delta is computed after the commit; reports written out of order | no patch lost, the whole document offered, snapshot and history agree | `DeviceShadow` |
| Device status (`api/handlers.rs`, `db/database.rs`) | `device_status` | connect, disconnect | webhooks lost and out of order | the status is true once the newest call has written | `DeviceUplink` |
| OTA versions (`api/ota_handlers.rs`, `db/ota.rs`) | `ota_versions` with packed versions, `device_versions` | create, edit, delete; report a version, push an update | limits of the packed integer, the ten-minute debounce | the newest upgrade is offered, packing changes neither order nor range; the recorded version catches up | `DeviceUplink` |
| Factory metadata (`api/factory_handlers.rs`, `db/factory_metadata.rs`) | metadata of components and devices, change log, associations | upsert, replace associations, view | advisory lock on one path, row locks on the other; three reads without a transaction | the change log replays, views are complete, transactions end | `FactoryMetadata` |
| Certificates (`api/ca_handlers.rs`, `db/cert_issue.rs`) | `cert_issue` rows | issue, invalidate, revoke | decisions on a status read earlier | the first decision stands | `DeviceAccess` |
| Device admission and ACL (`api/auth_handlers.rs`, `db/device.rs`, `api/utils.rs`) | `devices`, `products.auto_provisioning` | authenticate, self-register, authorise a topic | check and registration are two statements; two readings of one topic | only registered devices get in; reports stay under the device's own names | `DeviceAccess` |
| Admin session (`api/auth_handlers.rs`, `api/middleware/mod.rs`, `frontend/src/lib/refresh.ts`, `header.tsx`) | cookies; token families in Herald | OAuth login, call, refresh after a 401, logout | concurrent 401s, rotation with lost answers, a refresh in flight during logout | no reuse of a rotated token without a loss, logout is final, no call hangs | `AdminSession` |
| Alarm rule CRUD, product registry | rules, products | CRUD | - | only the operations the models above need | partly, section 8 |
| File URLs, queries and charts, configuration, frontend views, demo | - | views, wiring | - | - | not modelled, section 8 |

**How they interact.** `device_connect` and `client_subscribe` webhooks start drains of the command
queue. `property_post`, `event_post`, connect and disconnect look up a schema, write the reported
state and spawn an evaluation of the rule engine; the evaluation inserts an alarm, makes the first
webhook attempt and leaves the rest to the retry loop. Administrators create and cancel commands,
patch the shadow (whose delta becomes a command), acknowledge and clear alarms, edit rules,
templates, firmware and certificates. Components share only database rows, cache entries and, for
the engine's windows, the state store; the models therefore take one database statement (one
transaction, where nothing can come between its statements), one store command or one HTTP call as
the atomic step and let everything else interleave.

## 2. Modules

| Module | What it is |
|---|---|
| `CommandLifecycle` | abstract specification: what the administrator is promised about one command |
| `CommandQueue` | both downlink tables, drains, webhooks, replies; implements `CommandLifecycle` |
| `WebhookRetry` | first attempt and retry loops for the alarms of one rule |
| `AlarmEngine` | `evaluate_and_trigger` for one rule and one device, alarm life cycle |
| `RuleEvaluator` | the condition operators; pure, evaluated by the alarm instances |
| `AlarmRules` | composes `AlarmEngine` with `RuleEvaluator`: readings are JSON values |
| `SchemaTemplates` | template transactions with their row locks and unique index, and the schema cache |
| `DeviceShadow` | Set-Desired transactions, delta, reports with snapshot and history |
| `DeviceUplink` | connection status, firmware rows, version reports |
| `FactoryMetadata` | upserts with the change log, replacement of associations, the merged view |
| `DeviceAccess` | product switch, certificates, admission, ACL, where reports are stored |
| `AdminSession` | login, calls, refresh and logout of the console, with Herald as external service |
| `CommandQueueProofs`, `WebhookRetryProofs`, `AlarmEngineProofs`, `SchemaTemplatesProofs`, `DeviceShadowProofs`, `FactoryMetadataProofs`, `AdminSessionProofs` | theorems about the component of that name (`AlarmEngineProofs`: about `AlarmRules`) |
| `DeviceWebhookProofs` | theorems about `DeviceAccess` and `DeviceUplink`; it extends both, which is why the specification of the second is called `UplinkSpec` |
| `MC...` | instances for TLC: definitions for constants, symmetry sets |

An operator whose comment begins with `mutant:` is not part of a model. It is a wrong form of the
definition that follows it, kept to show that the property it is paired with in `PROJECT.json`
notices the mistake.

### CommandQueue

- `status`, `owner` are the rows of the two tables: a row is a pair (table, serial number), and its
  number stands for `(created_time, id)`. `Deleted` is the cancelled status.
- `subscribed[d]` is one flag per device, although the gates query two topics: the broker's
  automatic subscription is the single wildcard `+/{clientid}/thing/service/+/set`, which matches
  both. `ChangeSubscription` is external.
- `pc`, `trigger`, `dev`, `hand`, `tries` are a request's position and locals. A request is
  `create_property_command`, `create_service_command` or one of the two webhooks; `trigger` decides
  which drains follow the gate and what an error does: the subscribe handler stops at the first
  error, the connect handler goes on with the actions.
- `set_property_desired` ends in the same insert, gate and drain as `create_property_command`, so
  it has no action of its own here; what precedes them is `DeviceShadow`.
- `copies[r]` is a history variable: how often the broker handed `r` to a subscribed device.
- `PublishOk`/`PublishFails` are one HTTP attempt; a failed one may have reached the broker.
  `Abandon` drops a request at any await.
- `ServiceSetReply` covers early, repeated, foreign and wrongly addressed replies; a reply that
  its WHERE clause refuses changes nothing and is not a step.

### WebhookRetry

- `hook`, `left`, `due` are the three columns; `due` abstracts the comparison with `NOW()`.
- `xpc`, `xtodo`, `xfailed` are the evaluation task's `execute_actions`; `wpc`, `batch`, `cur`,
  `wtodo` the retry loop of one backend instance.
- The webhooks of a rule are a set, called in any order: the code calls them in the order of the
  rule's actions, and no property depends on it. Deleting the rule is `EditRule({})`.
- `got` (servers that took the alarm), `rounds` (failed rounds, counted up to `MaxRetries`) and
  `stranded` (rows whose loop stopped, or whose update failed, between using up the last retry and
  `mark_webhook_final_failure`) are history variables.

### AlarmEngine and RuleEvaluator

- Times are ages in whole minutes: the engine only compares elapsed times. An age stops growing at
  the TTL of its key, beyond which nothing depends on it.
- `dedup` and `dur` are the two entries of the state store; `backend` chooses memory or Redis. With
  Redis each command may fail; with memory none does, but a crash drops the entries.
- `check_duration` is two steps in both stores, because the `DashMap` locks its `get` and its
  `insert` separately. `Tick` does not fall between these two in memory, where no await separates
  them. `mark_triggered` is one step in memory (`MarkTriggered`); with Redis the clock is read
  (`DateMark`) and the awaited `SET` comes any number of minutes later (`StoreMark`), over whatever
  mark is there by then. The other clock readings before an awaited Redis command only make a window
  look longer, which is what `CheckDedupError` and `CheckDurationError` do.
- A report that does not contain the rule's property changes nothing and is not a step.
- `cached` stays FALSE: an evaluation works on a clone of `RuleCache`, whose `DashMap` is copied by
  `clone`, so the shared map is never filled. `UpdateRuleStatus` consults it as
  `invalidate_product` does.
- `miss`, `marks` and `unmarked` are history variables; `marks[a]` counts the stored marks that are
  dated at most `a` minutes ago, so that the alarms of a window are one entry and no sum. An alarm is
  dated by the clock reading of its mark, the moment the engine decided on it.
- `RuleEvaluator` has no state. A JSON value is a kind and a content; an f64 is a number of half
  epsilons, `Inf`, `NegInf` or `NaN`, so that two readings can differ by less than `f64::EPSILON`.
  The instance's sets `Triggers` and `Clears` are those on which `Evaluate` holds.
- `AlarmRules` adds that every reading is a JSON value of the evaluator, and states
  `OperatorsPartition` of the readings of the evaluations in progress.

### SchemaTemplates

- `status`, `version` are the committed table: a schema is the number of its edits. `row` holds the
  row locks of `SELECT ... FOR UPDATE` and `UPDATE`.
- An activation is `UpdateStatus`, `StartDemote`, `DemoteRow` per row (each row is waited for and
  looked at again, as READ COMMITTED does), `Promote`, where the partial unique index waits for or
  refuses a second active row, and `CommitStatus`. Edits lock the row and refuse an active one.
- After the commit, `Invalidate` removes the cache entry; `InvalidateFails` is a Redis error or a
  dropped request. `CacheMiss`, `LoadSchema` and `Fill` are the report's lookup: the write into the
  cache is spawned and may come late.
- `raced` is a history variable: the last removal failed, or a fill spawned before it was pending.

### DeviceShadow

- A document maps every key to a value or `Absent`; merges are flat, as the code's are.
- `LockDesired` is the bootstrap `INSERT ... ON CONFLICT DO NOTHING` with the `SELECT ... FOR
  UPDATE`; `CommitDesired` writes the whole document; `CompareReported` reads the snapshot of that
  moment; `EnqueueDelta` inserts the command. `SetDesiredFails` strikes before or after the commit.
- `PropertyPost` stamps a report in the handler, `CommitReport` writes snapshot and history in one
  transaction, in any order of the stamps.
- `expected`, `offered`, `answer`, `overlaps` are history variables.

### DeviceUplink

- `BrokerCall` is a change of the connection, numbered; `calls` are webhooks under way, processed in
  any order or lost. `applied` (the number of the call that wrote last) is a history variable.
- `InRange`, `Encode`, `Decode` are the packed version; `GetOtaUpdate` the query. A firmware row
  keeps, beside its columns, the strings it was made from (`of`), for the property only.
- `age` is the time since `last_updated_at`, up to one beyond the debounce.
- Both subjects are in one module because both are written by webhooks of one device, and reports
  of a version need its connection.

### FactoryMetadata

- A metadata row is represented by its `updated_at`, the time of BEGIN, which is unique per
  transaction. `log` holds the committed change log rows of a serial number by id.
- Upserts take the advisory lock of the serial number (`snLock`), shared by both tables. A
  replacement takes row locks (`rowLock`) one by one, in the order of the rows for the DELETE and of
  the items for the INSERTs; both orders are free in the model.
- `Abort` is a failed statement, a dropped request or the deadlock detector.
- A view is `ReadAssociations`, `ReadExists`, `ReadContent`.

### DeviceAccess

- One product and one of its devices. No handler uses a transaction: each statement is a step.
- `IssueCert` looks at the latest certificate, `CreateCert` and `RegisterManual` are two statements.
  `UpdateCertStatus` reads, `SetCertStatus` writes with `WHERE status = 0`; id 0 is the legacy mode
  that names the device only.
- `Authentic` is the test of a CONNECT: well-formed password, age within the tolerance on both
  sides, the HMAC, a user name. The hash itself is a flag.
- A topic is a number of leading slashes and segments: `acl` drops one slash
  (`Pad`, `Segment`), `extract_product_id_from_topic` drops all.
- `everOpen` and `stored` are history variables.

### AdminSession

- Tokens of one answer are one value, a family and a generation. `RefreshRotates` and
  `RefreshReused` are Herald's rotation and its reaction to a rotated token; they are external, taken
  from the comments at `frontend/src/lib/refresh.ts:26-28` and the handler's use of the answers.
- `call` is a call of the console with the interceptor's states; `inflight` is the shared promise
  `inflightRefresh` of a tab. `Load` aborts what a page was doing.
- `Leave` loads the console, not the login page: `handleLogout` drops the cached configuration before
  it asks it for the login URL (section 7).
- `ServeCall` may serve a token that Herald no longer accepts: the SDK answers from a cache of about
  five minutes (`docs/tutorials/auth-en.md:25`). Whether it is asked or remembers is free.
- `lost`, `reused`, `ended` are history variables.

## 3. Runs

| Run | Instance | Shows |
|---|---|---|
| `commands_safety` | 1 device, 2 requests, 2 property and 1 action rows, `Retries` = 1 | `ClaimExclusive`, `CancelHolds`, `CopiesBounded`, `BatchInOrder`, `SuccessHeard`, and that the queue implements `CommandLifecycle` |
| `commands_liveness` | 1 + 1 rows, `Retries` = 0 | `QueueDrains`: rows of a device that stays subscribed leave the queue; `HandlersFinish`: every request ends |
| `commands_failed_send` | as `commands_safety` | counterexample, see below |
| `webhook_retry` | 1 alarm, 2 URLs, 2 instances, `MaxRetries` = 3 | `FinalAfterAllRetries`, `SuccessIsDelivery`, `SettledStays`, `RetriesConclude` |
| `alarms` | 2 evaluations, 2 readings, `Duration` = 1, `Throttle` = 1, 2 rows, both stores | `BurstBounded`, `ClearedFinal`, `SustainedOnly` |
| `alarms_liveness` | 2 evaluations, 3 readings with NaN, no windows, 1 row | `OperatorsPartition`, `AutoClears` |
| `schema` | 3 templates of 2 events, 2 administrators, 1 report, `MaxEdit` = 1, `MaxFill` = 1 | `OneActive`, `ActiveFrozen`, `SwitchIsAtomic`, `CacheFollows` |
| `shadow` | 2 keys, 2 values, 2 administrators, 2 reports | `NoPatchLost`, `WholeDocumentOffered`, `SnapshotFollowsHistory` |
| `uplink` | 4 versions, 2 ranges, 2 firmware rows, `Debounce` = 1, 3 calls | `StatusFollowsNewest`, `NewestUpgradePushed`, `RecordedCatchesUp` |
| `factory` | 1 serial number in both tables, 2 components, 2 writers, 1 reader, 3 transactions | `LogReplays`, `ViewComplete`, `WritesEnd` |
| `access` | 2 administrators, 2 connections, `Tolerance` = 1, 2 certificates | `AutoNeedsOptIn`, `AllowedIsRegistered`, `StoredUnderOwnNames`, `DecisionStands` |
| `session` | 1 tab, 2 calls, 2 families of 3 generations, 2 logins | `ReuseOnlyAfterLoss`, `LoggedOutStays`, `CallsEnd` |

`commands_failed_send` states what the comments at `api/admin_handlers.rs:641` and `:897` say: a
command whose send failed is delivered at the next connection. The counterexample shows a row that
becomes `Failed` after its last attempt; no drain looks at such a row again.

**Bounds.** `MaxProperty`, `MaxAction`, `MaxAlarm`, `MaxCert`, `MaxReport`, `MaxTx`, `MaxCall`,
`MaxFamily`, `MaxLogin` bound what is ever inserted, sent or begun; `MaxEdit`, `MaxGen` and
`MaxFill` bound edits, rotations and pending writes. All loops in the code run over the rows of one
device, rule or event, so two rows are enough for an order, for a partial batch and for a row that
becomes stale. Two requests are enough for every check-then-act race in the code, since no step
looks at more than one other request's effect; the theorems lift that bound for the properties of
section 5. In particular:

- `Retries` = 1 gives a publish a first and a last attempt. `MaxRetries` = 3 gives two loops that work
  on one row a first, a middle and a last round to interfere in. Rows meet only in the batch of a
  loop, which takes them one after the other, so `webhook_retry` has one row and two loops.
- `Throttle` = 1 makes the TTL of the dedup key longer than the window, and gives ages inside, at and
  beyond it; `Duration` = 1 gives a window that can be interrupted. The bound of `BurstBounded` is
  reached in `alarms`: two alarms in a window in memory, three with Redis.
- A second device adds nothing to `commands_safety`: rows, gates and claims are per device, and a
  reply of a stranger is the sender `NoDevice`.
- `schema` needs a second event, to see an activation that touches the wrong templates, and two
  templates of the first, to see a switch.
- `uplink` has two versions that are neighbours across a carry, 0.99.999 and 1.0.0, the successor
  1.0.1, and 0.100.0, which would be packed like 1.0.0 and is refused. One range ends at the carry
  and the other begins there, so that there are devices with two upgrades, one and none. Three calls
  are a connection, its end and a reconnection.
- `factory` gives a device and a component the same serial number, the case in which the shared lock
  matters, and two replacements over two components, the smallest deadlock. Three transactions are
  a creation and two overlapping overwrites.
- `session` has one tab: `ReuseOnlyAfterLoss` is about one tab (section 7). Three generations are a
  login, a refresh and one more.
- `access` has ages on, inside and beyond both ends of the tolerance, and topics with no, one and two
  leading slashes, all names in both places, allowed and other tails, and one that is too short.

Symmetry of the request slots (and of keys and values in `shadow`) is used only where the run
checks no liveness. Deadlock is checked everywhere.

## 4. Fairness

- `CommandQueue`: a request that is not dropped runs on (weak fairness of its steps; the runtime
  polls every ready task). Strong fairness of the gate and the claims says that the broker's query
  and the database do not fail for ever, and of `DeviceConnect` that the broker keeps reporting
  connections. Nothing is assumed about publishes, replies or requests being dropped.
  `QueueDrains` has the premise that devices stay subscribed from some time on.
- `WebhookRetry`: time passes, the loop runs, the success and decrement updates do not fail for
  ever. Nothing is assumed about the servers. `RetriesConclude` has the premise that the instances
  stop restarting. It excepts `stranded` rows only, which is what a stop or a failed update just
  before `mark_webhook_final_failure` leaves behind (section 7).
- `AlarmEngine`: spawned evaluations run, the device keeps reporting, and the rule query, the clear
  query and the clear update do not fail for ever. The premise of `AutoClears` is the stable
  situation: rule enabled, no more crashes, only values that satisfy the clear condition.
- `FactoryMetadata`: a transaction that can go on goes on, and PostgreSQL's deadlock detector ends
  one of a set of transactions that wait for each other. Nothing is assumed about aborts otherwise.
- `AdminSession`: a refresh that was sent is answered in some way and its answer is handled, and so
  is every call. Which answer it is, is free.
- `DeviceUplink`: time passes, and a connected device reports its version again and again
  (an assumption on the device, not on the backend). The premise of `RecordedCatchesUp` is a device that keeps its version
  and its connection.

## 5. What is proved

Every safety property that a run checks is also a theorem. The theorems hold for every value of the
constants under the named assumptions `QueueAssumption`, `RetryAssumption`, `EngineAssumption`,
`EvaluatorAssumption`, `RulesAssumption`, `TemplatesAssumption`, `ShadowAssumption`,
`FactoryAssumption`, `SessionAssumption`, `AccessAssumption` and `UplinkAssumption`: bounds are
natural numbers, the null values are none of the real ones, strings are totally ordered and parse
to an f64 or not at all, and, where a proof counts them, sets of instances or of evaluations in
flight are finite. Two properties are about one browser tab; their theorems say so in a hypothesis,
given below.

- **CommandQueueProofs**: `TypeCorrect`, `ClaimsExclusive`, `CancelsHold`, `DeliveryBounded`,
  `BatchesInOrder`, `SuccessesHeard`, and `ImplementsLifecycle`, the refinement of
  `CommandLifecycle`. The inductive invariant is `QueueInv`. It adds to the checked invariants that
  rows still queued have no copies (`QueuedUnsent`), that only a publishing request has rows in
  hand, all of one table (`HandShape`), and that the row at hand has at most as many copies as
  attempts were made (`CopiesByTries`); without the last one, `CopiesBounded` does not survive the
  next attempt. One lemma per action shows that it keeps `QueueInv`, and a second one for each
  action that it is a step of `CommandLifecycle` or a stutter.
- **WebhookRetryProofs**: `RetryTypeCorrect`, `GivenUpAfterAllRetries`, `SuccessMeansDelivery`, for
  any number of instances. The core of `RetryInv` is `RoundsCover`: a pending row has seen at least
  as many failed rounds as retries were used, counting also the loops that saw a round fail and
  have not yet written the decrement (`Owing`). `Delivered` says what an attempt in progress has
  delivered so far. `SettledForGood` proves `SettledStays` for any number of instances: no poll takes
  up a row that is not pending, and only a loop that has a row in hand writes it. `ExhaustedAreGivenUp`
  is the safety half of `RetriesConclude`, where retries are configured at all: a pending row without
  retries is in the hands of a loop about to give it up, or is `stranded`.
- **AlarmEngineProofs**: `EngineTypeCorrect`, `ClearedStaysCleared`, `DurationWindowHolds`. The
  invariant `EngineInv` adds `Streak` (in memory, the duration entry is not older than the last
  evaluation that found the condition false) and `StampTaken` (an evaluation about to write an entry
  has read the clock, in memory just now). `BurstsAreBounded`, for any throttle window and any finite
  number *n* of evaluations, however late Redis stores their marks: at most *n* alarms in memory and
  1 + 2 + ... + *n* with Redis. The invariant `WindowInv(a)` is about the last *a* minutes, for every *a* in
  the window. It counts the evaluations that do not hold a mark dated before these minutes
  (`Prompt(a)`, *m* of them). While the entry is young (`Shut(a)`), only those past `check_dedup`
  (`Deciding(a)`) can add an alarm: the alarms seen and these together are at most 1 + ... + *m*. While it
  is not, every prompt evaluation may pass: the alarms seen and *m* are at most 1 + ... + *m*. A late mark
  leads from the first case to the second and makes *m* one larger, which is exactly what the next
  triangular number allows (`BurstGrows`); a minute turns window *a* - 1 into window *a*. `ConditionsPartition`: the lemma `EvaluatorPartitions` shows for any sets of
  numbers and strings that every JSON value is in `Partitioned`, by cases on the kinds and on NaN and
  the infinities.
- **SchemaTemplatesProofs**: `ActiveIsUnique`, `ActiveIsFrozen`, `SwitchesAreAtomic`. The invariant
  `TemplatesInv` says what the locks protect: a transaction holds its target (`HoldsTarget`) and
  what it demoted (`HoldsDemoted`), an edit's target is not active (`EditsInactive`), and an
  activation that passed the index demotes every active rival and has no promoted one
  (`IndexHolds`); from these, `UniqueActive` survives the commit. `CacheIsCurrent`: a schema in the
  cache, or spawned to be written into it, is the active one, or else a removal is still to come or
  raced with it (`EntriesFollow`). Pending fills have to be in the invariant, since one of them is the
  next entry.
- **DeviceShadowProofs**: `PatchesKept`, `DocumentSettled`, `SnapshotIsHistory`, each with an
  invariant of its own. `DesiredInv`: the holder of the row has read its current content.
  `OfferInv`: the request that committed last works on the stored document, and its delta holds every
  desired value not yet offered (`LastCommitter`). `ReportInv`: a report still in progress overlaps
  with all that was sent after it (`StillOverlaps`).
- **FactoryMetadataProofs**: `FactoryTypeCorrect`, `ChangeLogReplays`, `ViewFindsDevice`. `FactoryInv`
  says what the advisory lock protects: a transaction past `lock_metadata_sn` holds the lock of its
  serial number (`HoldsSn`), so its before-snapshot is still the row (`BeforeHolds`) when it commits;
  and a row with a log exists (`LoggedExists`), so a first insert starts an empty log.
  `OverwriteReplays` appends the entry with the greatest id to a log that replays, and `ReplaysKept`
  leaves the row of the same serial number in the other table alone. For the view, what was stored
  when it began still is (`ViewSees`). `ReportsNeverDeadlock` is the safety half of `WritesEnd`: from
  `HoldersRun` (a lock of a serial number is held by an upsert past it, a row by a replacement),
  whoever an upsert waits for waits for nobody, and replacements wait for replacements only.
- **AdminSessionProofs**: `SessionTypes`; `LogoutIsFinal`, for any number of tabs, under the hypothesis
  `LoginAlone` (a login completes while no refresh or logout is in flight). The invariant says that
  every token about is of the newest family (`OneFamily`), that a logout that reached Herald revoked
  that family (`LogoutRevoked`), and that, unless an answer was lost, the current generation is in the
  cookie or on its way there (`Rotation`). `TabStaysLoggedOut` and `TabUsesTokensOnce` need no such
  hypothesis: in one tab (`SingleTab`) both follow from the code, since the interceptor shares its
  refresh and the login page has no calls (`LoginPage`). About reuse nothing is claimed for several
  tabs, which can refresh at once (section 7): the lemma `TokensUsedOnce`, which assumes that they do
  not, only serves the case of one tab. `NoWaiterForgotten` is the safety half of
  `CallsEnd`, for any number of tabs: a call waits only while a refresh of its tab is under way.
- **DeviceWebhookProofs**: `SelfRegistrationNeedsConsent`, `SessionsAreRegistered`,
  `ReportsStayHome`, `FirstDecisionStands`. The invariant `AccessInv` adds `OptedIn`: a connection
  about to register itself found the product open. `AclNamesProduct` shows that the two readings of
  a topic agree wherever `acl` allows it. About `DeviceUplink`: `NewestCallDecides` and
  `NewestIsPushed`, the latter for any versions, ranges and rows: the newest applicable row is an upgrade
  whenever some applicable row is (`NewestIsUpgrade`). `CallsNumbered` says that the newest
  call, while under way, tells what the broker thinks. `OtaInv` says that the columns of a row are the
  packed forms of accepted strings; `EncodeKeepsOrder` and `DecodeEncode` that packing keeps the
  order and is undone by formatting, on the strings that `InRange` accepts; from these,
  `AppliesIsCandidate`: the columns select a row exactly when its strings do. That a greatest version
  exists (`Greatest`) comes from the bound on packed integers, not from a finite number of rows.

## 6. What is only model-checked

Liveness (`QueueDrains`, `HandlersFinish`, `RetriesConclude`, `AutoClears`, `WritesEnd`, `CallsEnd`,
`RecordedCatchesUp`): fairness and ENABLED are beyond the prover. `FailedSendStaysQueued` is the
property that `commands_failed_send` refutes.

## 7. What the models show beyond the checked properties

The models contain, without a property that forbids it, what the code does on these paths. Where a
comment or document says otherwise, it is quoted.

- *Commands.* Rows claimed by a request that is then dropped stay `Sent` and are not sent again. A
  failed `UPDATE` in the property drain leaves the rest of its batch in `Sent`. `db/database.rs:749`
  says that ordering by creation "preserves submission order across mixed service_types"; that holds
  within one drain, but two drains of one device can publish two actions the other way round.
- *Webhooks.* `db/alarm.rs:493` calls success a "terminal state". With two backend instances, which
  `docs/tutorials/configuration.md:132` and `docs/tutorials/architecture.md:70` foresee, a loop that read the row
  while it was pending overwrites the outcome another has recorded, success by final failure or the
  other way round; `SettledStays` says that this ends with the last such loop.
  `docs/prd/core/alarm-rule-engine.md:114` and `:218` say that a row without retries is marked as
  finally failed, and `api/tests/webhook_retry_scenarios.rs:740-743` that it "would be stuck in
  webhook_status=1 forever" otherwise. That is what a stop of the process, or a failed update, between
  the decrement and `mark_webhook_final_failure` (`main.rs:320`) leaves: a pending row with no retries,
  which no poll selects (`stranded`). With `webhook_max_retries` = 0 every row whose first attempt
  fails is in that state.
- *Alarms.* `docs/prd/core/alarm-rule-engine.md:116` and `:127` promise one alarm per rule and device
  within `throttle_minutes`. Two overlapping evaluations both pass `check_dedup`; and with Redis a
  `SET` that was held up since before the window replaces a newer mark by its older date, after which
  `check_dedup` lets alarms pass again. `BurstBounded` is the bound that does hold, and the run
  `alarms` reaches it. A mark that Redis refuses is dropped, and then there is no bound.
  `rule_engine/cache.rs:450` says that invalidation clears the windows of the
  product's rules; the shared rule cache is empty, so nothing is cleared. A failed `INSERT` after
  `mark_triggered` silences the rule for its window. With Redis, the reset of a duration entry can be
  undone by a late `SET`, so `SustainedOnly` is stated for the in-memory store. `==` allows a
  difference below `f64::EPSILON`, so a reading can be both `==` and `>` a threshold: `==` and `>`
  are not opposites, and `OperatorsPartition` pairs only those that are.
- *Schemas.* The comment at `api/admin_handlers.rs:393-400` says that the cached schema must be
  dropped when a template changes. It is, but a fill spawned by an earlier report may follow and put
  the old schema back; `CacheFollows` says that this, and a failed removal, are the only ways.
- *Shadow.* Of two enqueued deltas the older may be enqueued last, and a value that was reverted
  may still be queued when the delta of the reverting request is empty.
- *OTA.* `docs/user-stories/02-iot-device-user-stories.md:171` speaks of firmware newer than the
  current version; `get_ota_update` takes the newest row whose range contains the reported version
  and never compares the two, so ranges decide. Lines 184-186 there, and
  `docs/prd/integration/ota-management.md:79` and `:95`, say that a repeated report within ten
  minutes triggers no detection; the debounce only stops the update of the recorded version. So a
  device may be sent the version it runs, an older one, or the same one again; `NewestUpgradePushed`
  states the cases on which the documents and the code agree.
- *Device status.* No time stamp is compared: a late older webhook overwrites a newer one.
- *Certificates.* `docs/prd/integration/cert-management.md:109` says that issuing is refused when
  the device has a valid certificate; only its latest row is looked at, and two overlapping requests
  both pass.
- *Factory metadata.* `api/factory_handlers.rs:92` promises full replacement; two overlapping
  replacements can leave the union of their lists, since each deletes only what was committed when
  its DELETE began. `db/factory_metadata.rs:190` says that the history "remains ordered"; by id it is,
  but the query orders by `created_at`, the time of BEGIN, which is taken before the lock.
- *Sessions.* `refresh.ts:26-28` says that a second refresh is never issued while one is in flight.
  The promise is one per tab and the cookies are shared by all tabs, so two tabs can.
  `header.tsx:11-12` says that logout "always ends the session locally". `handleLogout` calls
  `resetAuthCheck()` before `getLoginUrl()` (`header.tsx:19-20`, `lib/auth.ts:31-40`), so it goes to `/`
  and not to the login page; if the logout call failed, the cookies are still there and the console
  opens again.

Some places are outside the models and are mentioned for the reader: tasks spawned into one
`JoinSet` are joined at shutdown only (`api/handlers.rs:156`); the retry loop uses the rule's present
webhooks (`main.rs:235`), which `SuccessIsDelivery` takes into account by its premise.

## 8. Not modelled

- File upload and download URLs, telemetry, configuration, the API document: I/O and wiring without
  state of their own. Read-only paginated queries and charts.
- Cryptography: key generation and signing of certificates, the CA files, the HMAC of a CONNECT, the
  signature of factory requests. Their verdicts are inputs.
- Of alarm rules: creation and request validation. Of products: fields other than the
  auto-provisioning switch. Of ingestion: `event_history`, a plain insert. Of the device status: the
  connection history rows. Of sessions: client addresses and permission checks. All are
  single-statement or stateless.
- The frontend except its refresh interceptor and logout: React views over the API. The demo: a test
  harness.
- Payloads, topic strings beyond what `acl` compares, log messages and HTTP status codes are
  abstracted everywhere.

## 9. Plan

What remains, in this order:

1. Type correctness of `DeviceShadow`, `SchemaTemplates` and `DeviceUplink` as theorems of their own; the
   parts their proofs need are proved inside their invariants.
2. Safety halves of the other liveness properties as theorems (`QueueDrains`,
   `RecordedCatchesUp`), as was done for `WritesEnd`, `CallsEnd` and
   `RetriesConclude`, so that only the fairness argument
   is left to TLC.
3. A composition of `DeviceShadow` with `CommandQueue`, to state what a device that keeps applying
   its commands converges to.
