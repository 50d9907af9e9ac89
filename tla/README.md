# Formal models of Smart Home

TLA+ modules, TLC configurations and TLAPS proofs for the server in this
repository (`src/`, Go) and for the dashboard editor of its web client. The models are
translations of the code; every definition that stands for code is listed in
`PROJECT.json` under `map` with the lines it models. Everything else in a module is a property, a lemma, a
deliberately broken variant of a definition (marked `Mutant`, used to show that a
property is sensitive to the code), a history variable (marked `history` where it
is declared), or a bound.

## 1. Inventory

The program is one Go process with a PostgreSQL database and an in-process event
bus (`github.com/e154/bus`, a dependency that is not in the repository). The bus
calls a subscriber's handler asynchronously, one subscriber at a time; almost
every handler in the program starts a new goroutine for the event, so two events
published in order may be *handled* in either order.

| Part | State | Operations | What is hard |
|---|---|---|---|
| Variable storage, `internal/system/storage` | `pool` (sync.Map), `inProcess`, `isStarted`; table `variables` | push, pop, getByName, search, serialize (ticker / Serialize / Shutdown) | load-then-store on the map; two writers of the table; failed upserts |
| Task manager, `internal/system/automation` (task*, action, condition*) | `tasks`, `taskCount`; per task `enabled`, actions, condition group, trigger subscriptions | add, update, unload on commands and model events; Start, Stop; trigger completion | handlers in goroutines, update = unload + query + add |
| Trigger manager, same directory (trigger*) | `triggers`, `triggerCounter`; per trigger `inProcess`, `enabled`, plugin subscription | add, remove, update; Start, Stop; call actions | counter kept apart from the map; check without the lock |
| Plugin manager, `internal/system/supervisor/plugin_manager.go` | `enabledPlugins`, `pluginsWg`, each plugin's `IsStarted` | load, unload, Enable, Disable, Start, Shutdown | concurrent commands, wait group balance |
| Supervisor and actors, `internal/system/supervisor`, `pkg/plugins` | per plugin `Actors`; script subscriptions; actor states | add / update / remove an entity, event handler, SaveState, RestoreState | remove-then-add, reordered events, old/new state |
| Script engine, `internal/system/scripts` | job channel, job count, `IsRun`, watchers | Run, setTimeout, setInterval, clear*, Stop, script updates | rendezvous channels, jobs outliving the loop |
| Cron triggers, `internal/plugins/time`, `internal/system/scheduler` | cron entries, `subscribers` | Subscribe, Unsubscribe, AddFunc, Remove | identity of callbacks |
| State change triggers, `internal/plugins/state_change`, `plugins/triggers` | subscription counter, registry | Subscribe, Unsubscribe | counter gates the bus handler |
| Gate server, `internal/system/gate/server/wsp` | connections (status, idle offers), pools | register, dispatch a request, release, close, clean | offers made twice, stale offers, two closers |
| Gate client, `internal/system/gate/client` | pool of connections, size targets, `inProcess` | connector, serve, Remove, Shutdown, settings change | size computed from a snapshot, dropped settings change |
| Backup, `internal/system/backup` | schemas, files, `inProcess`, `restoreImage` | New, Restore, Apply, Rollback, Upload, Delete | several DDL steps, crash between steps |
| Dashboard editor, `static_source/admin/src/views/Dashboard` | tabs, cards and items of the page; `activeTabIdx`, `activeCard`, `currentCardId`; rows behind the API | create, import, copy, remove, select, sort | what the user does between a request and its answer |
| Local migrations, `internal/system/initial` | migration position | Up, Down | timeout racing the migration |
| Stream, `internal/system/stream` | sessions, subscriptions | Subscribe, Broadcast, DirectMessage | goroutine per message |
| MQTT, zigbee2mqtt, `internal/system/mqtt*`, `zigbee2mqtt` | broker, clients, bridges | start, stop, add bridge | mostly a third-party broker |
| Access control, `internal/system/rbac`, `jwt_manager` | role access lists | check | pure functions of the request |
| Logging, `logging*`; validation; cache; orm; web; terminal | buffers, connections | | I/O |
| Device and messenger plugins, `internal/plugins/*` | per device | vendor protocols | external devices |
| Endpoints, `internal/endpoint`, `internal/api`, adaptors, db | none of their own | SQL CRUD + events | generated code and SQL |

The properties that make the parts correct, and that the modules state:

- storage: a pushed value stays readable and is archived; passes exclude each other;
- task and trigger managers: the object that acts is the one in the map; a loaded
  object is the row's last version; counters never fall below the map; no nil pointer;
- event loop: `Run` neither waits for a job nobody sends nor leaves a timeout behind;
- cron triggers: table and scheduler agree; who is unsubscribed is silent; who is
  subscribed fires;
- gate server: one request per connection; the answer belongs to the request; what is
  closed leaves the pool; a collected pool stays empty;
- gate client: never above the maximum, never dead;
- entities: updates do not lose the actor; the map holds no dead actor; what is loaded
  is fresh; its scripts are watched;
- plugin manager: the wait group counts what is loaded; what is loaded was started;
  `Shutdown` returns;
- backup: no failure and no crash of a restore loses the data; a restore brings what the
  snapshot has; what was announced as a snapshot is one, unless an error was passed over;
- dashboard editor: the form and its buttons are about one card; at rest the page shows
  the rows, and a load makes it right again;
- actor state (not modelled): old and new state follow each other.

## 2. How the modules are built

Each component has a module with its state, actions, specification and properties, an
`MC` module that gives TLC small sets, one `.cfg` per question, and a `Proofs` module with
what is proved for every value of the constants. The grain of an action is
what other goroutines can see: one map operation, one SQL statement, one channel
rendezvous, one critical section. A goroutine that an event handler starts is a *job*;
jobs have no order among them, as in the code. An object that Go would collect is
used again, so a set of objects bounds those alive at a time. Failed queries and
failed constructors are alternatives of the action that makes the call.

`GatePool` holds both ends of the gate's websockets in one module (the server's pool
and the smart-home server's `serve`), because the properties relate them.
`ConnectionLease` is the abstract specification of that pool. No other modules are
composed: the remaining components share no state but the database and the bus, which
each module models as far as it sees them.

Some runs hold several components, whose states they do not relate: `MCPlugins` and
`MCEntities` have a variable `part` that tells which of them a behaviour is about, and the
others stay at their first state. It is a sum of the state
spaces, not a product. `PluginsProofs` and `EntitiesProofs` likewise hold the proofs
of several components, one after the other. Where such a run uses symmetry, model values
of one component stand for values of the other, which permutes no more than it did.

Most safety properties have an exception, kept in a history variable: the code does not
protect, say, two calls for one task that overlap, so `OneLiveObject` cannot speak of them.
An exception is a behaviour of the model, and the property says that it is the only way in
which things go wrong. `PROJECT.json` says at each hazard whether a property covers it
or excepts it.

| Module | Models | Checked by | Proved in |
|---|---|---|---|
| `Storage` | variable storage | `Storage.cfg` | `StorageProofs` |
| `TaskManager` | task manager, life cycle of a task | `TaskManager.cfg` | `TaskManagerProofs` |
| `TriggerManager` | trigger manager, life cycle of a trigger | `TriggerManager.cfg` | `TriggerManagerProofs` |
| `EventLoop` | script event loop | `Plugins.cfg` (`MCPlugins`) | `PluginsProofs` |
| `TimeTrigger` | cron triggers and scheduler entries | `Plugins.cfg` (`MCPlugins`), `TimeTrigger_fires.cfg` | `PluginsProofs` |
| `PluginManager` | plugin manager | `Plugins.cfg` (`MCPlugins`) | `PluginsProofs` |
| `ConnectionLease` | what the gate server's pool promises | as `ImplementsLease` in `GatePool_answers.cfg` | `GatePoolProofs` (`Refinement`) |
| `GatePool` | gate server's pool, relay, and peers | `GatePool.cfg`, `GatePool_answers.cfg`, `GatePool_clean.cfg` | `GatePoolProofs` |
| `GateClientPool` | gate client's pool | `GateClientPool.cfg` | `GateClientPoolProofs` |
| `Entities` | entity, actor and script watch | `Entities.cfg` (`MCEntities`) | `EntitiesProofs` |
| `Dashboard` | dashboard editor and the rows it edits | `Entities.cfg` (`MCEntities`) | `EntitiesProofs` |
| `Backup` | snapshots, restore, crashes and restarts | `Backup.cfg`, `Backup_announced.cfg` | `BackupProofs` |

## 3. The modules

### Storage

*Code.* `pool` and `changed` are the sync.Map of `Storage`, `db` the `variables`
table. `Push` is `push`; `PopStart`, `PopRead`, `PopDelete`, `PopForget` are `pop`,
which calls `getByName`, then deletes the row, then the entry; `SearchStart`,
`SearchDb`, `SearchStore` are `search`; `SerializeStart` to `SerializeEnd` are one pass
of `serialize` with a step for each map operation and the upsert. A pass is started by
the ticker, by `Serialize()` and by `Shutdown`. `ExternalWrite` is the variable endpoint
or the script binding, which write the table behind the pool. `Range` visits what is
there when it starts and may visit what is stored meanwhile.

*Run `storage`.* `UncontendedPushHeld`: a pushed value is what reads return until the
next push or pop, unless the push met a call half way through its name (`contended`).
`CleanMeansPersisted`: an entry without its Changed mark is in the table, or about to
be. `PushArchived`: under fairness it reaches the table. Histories: `last`,
`contended`, `diverged` (the table was written, or missed a write, behind the pool).

*Bounds.* One name: no step relates two names, except a pass or a search that walks
them, one at a time. Two values distinguish an old from a new push. One client and
one `Serialize` caller beside the ticker and `Shutdown`; the safety properties are
proved for any number of each.

*Fairness.* Weak fairness of the ticker's start of a pass, of a pass once started and
of a call once started: goroutines that run keep running, and the ticker ticks. Nothing
is assumed of pushes, nor that a statement succeeds.

*Proofs.* `IInv` adds three facts to the properties. `SinglePass`: the compare-and-swap
makes `inProcess` a lock, also against the pass of `Shutdown`. `CarriedValue`: what a
pass carries is the promised value, until the entry is pushed again. `SearchHarmless`:
a search has left to store only names nobody was promised. Without the first two,
`CleanMeansPersisted` is not inductive: a second pass could carry an older value.
Theorems `TypeCorrect`, `OnePass`, `PushHeld`, `Persisted`.

### TaskManager

*Code.* `Notify` is `eventHandler`: a subscribed manager starts a job for each command
and model event. A job is `unloadTask` (`UnloadLock` to `DeleteUnlock`, with
`Task.Stop` in the steps `Stop`, `StopTriggers`, `StopActions`, `StopGroup` under the
mutex), followed for an update by the query (`Fetch`) and `addTask` (`AddTask`,
`StoreTask`, and `Task.Start` in the steps `Start` to `StartTriggers`, without the
mutex). `Load`, `Subscribe`, `Shutdown`, ... are the manager's own Start and Shutdown,
again and again. `TriggerCompleted` and `CheckAndRun` are the task's event handler. A
nil dereference sets `panicked`, which ends the process, and so does `MapRace`: `unload`
ranges over the map without the mutex under which the jobs write it, which Go's runtime may
notice.

*Run `tasks`.* `OneLiveObject` and `CallsDoNotPanic` say what holds while the calls for
one task do not overlap (`overlapped`): the code protects nothing more. `CountCoversMap`
holds whatever overlaps: the unsigned `taskCount` cannot wrap. `LoadedIsFresh`: when
every event met a subscriber (`missed`), a loaded task at rest has the latest version.

*Bounds.* One task (tasks share only the map, the counter and the mutex), two jobs, so
that two calls of a task overlap with each other and with the main thread; two objects,
the one in the map and the one being made; `MaxVersion` 2, an old and a new version.
The safety run turns deadlock off: with the row at its last version and the process
panicked, nothing happens any more.

*Not modelled.* The actions of a task one by one, the conditions' evaluation, telemetry.

*Proofs.* `CallsOwnObjects`: what each call holds at each of its steps, and that the map
files an object under its own id (`WorkInv`); all the others rest on it.
`TasksAreCounted` from `CountInv`, which adds that the loaded tasks and the calls about to
store are finitely many. `OneTaskRuns` and `GroupInPlace` from `LiveInv`. Neither property
is inductive: that two objects of an id are never live together needs that whoever adds
found the id free and still has it when it stores, and that what is taken out of the map
was switched off before (`Undisturbed`, for as long as no two calls overlapped, which
`Alone` ties to the history `overlapped`); that no call meets a nil group needs that a
live object has its group or a call is about to make it (`Grouped`). `LoadedTasksAreFresh`
from `FreshInv`: the version is right not only at rest but in the list `Start` loads
(`ListFresh`) and in each call that carries it (`CallsFresh`).

### TriggerManager

*Code.* As above with the differences that matter: scripts start jobs too
(`TriggerAdd`, `TriggerUpdate`, `TriggerDelete`, after `bindScripts`), `addTrigger`
looks at the map before it takes the mutex (`CheckExist`, `CheckDisabled`, `CheckNew`,
then `StoreTrigger`), the counter is raised last (`Count`), and a failed `load` still
marks the manager as started. `StartPlugin` may be refused by the plugin, which
`Trigger.Start` ignores, and `StopPlugin` may take other triggers out of the plugin with the
one it stops: the time plugin does (see `TimeTrigger`). The runtime ends the process
(`crashed`) where the map is read without the mutex (`MapRace`) and where a trigger that was
refused is stopped, whose schedule is not there (`NoSchedule`).

*Run `triggers`.* `CounterCoversMap`: the counter lags behind the map by the triggers
being started, at most, whatever overlaps. `OneLiveTrigger` and `InSync`: while calls for
one trigger do not overlap, what is subscribed is the object in the map, and at rest it
is loaded exactly if its row is enabled, in the row's version, and listens on the bus,
provided the last change reached the manager (`synced`). Whether the plugin knows a loaded
trigger is not promised, for the two reasons above; `time_fires` shows the second.

*Bounds.* One trigger, two jobs, two objects, `MaxVersion` 2 as above. `MaxCounter` 2
stops new events: disabled models raise the counter for ever. Deadlock is checked: the
main thread always goes on.

*Proofs.* `CallsOwnTriggers` (`WorkInv`), `TriggersAreCounted` (`CountInv`) and
`OneTriggerFires` (`LiveInv`) along the lines of the tasks; here `Undisturbed` says which
of its two subscriptions the object of a call still has, because a removal gives them up
one by one (and that it is subscribed at the plugin only if `Start` got so far), and
`Rowless` that what was never created is not loaded nor about to be.
`MapFollowsRows` from `SyncInv`: the list `Start` loads, each call at each step, and the
map at rest agree with the row and with its Enabled, as long as the last change of the row
reached the manager.

### EventLoop

*Code.* `SetTimeout`, `SetInterval`, `ClearTimeout`, `ClearInterval` are `addTimeout`,
`addInterval`, `clearTimeout`, `clearInterval`; `Fire`, `Tick`, `TakeTick` are the
goroutines of timers and tickers; `CheckJobs`, `DoTimeout`, `DoInterval`, `CallbackEnd`
are `run`, `doTimeout`, `doInterval`. `jobChan` and an interval's `stopChan` have no
buffer: a send is received in the same step, and `clearInterval` waits until the
interval's goroutine is in its select. `Run` and `AssertFunction` are the two ways
`javascript.go` enters the engine. What the script calls is arbitrary. `Panic` is a Go
panic anywhere in the script's code, as that of `NewTicker` for an interval of 0: it unwinds
to the recover of `javascript.go`, past the end of `doTimeout`, so that the timeout whose
callback it was stays counted (`Aborted`).

*Run `plugins`*, part `script`. `NoPhantomJob`: `jobCount` is never above the jobs still to
come and the aborted timeouts, so `Run` waits in vain only after a panic in a timeout's
callback. `TimeoutRuns`: while `Run` runs, a timeout runs or is cleared in the end whatever
intervals do, unless the script hangs in `clearInterval`.

*Bounds.* Two timers and two intervals: each can be alone, clear another of its kind and
compete with one of the other. `MaxDrift` 1 bounds how far `jobCount` falls below the
jobs (a callback that clears its own timer is counted down twice); no property depends
on a deeper fall. Deadlock is off: a script that hangs in `clearInterval` while the
interval's goroutine sends stops the engine, which the code really does.

*Fairness.* Weak fairness for the script's code, the timers and the tickers; strong
fairness for `DoTimeout` and `DoInterval`: Go serves the senders of a channel in the
order they came, so none is passed over for ever.

*Proofs.* Theorem `NoWaitForNothing`. `LoopInv` is `LoopShape` (types, who may be in a
callback, and that a timer that may be set is not pending) and `jobCount <= Owed`, where
`Owed` counts what was set and not cleared, the aborted timeouts included, and the
interval being cleared. Each step lowers `Owed`
by at most what it takes from `jobCount`; the cardinalities come from the library's
theorems on finite sets.

### TimeTrigger

*Code.* `AddFunc` and `Subscribe` are the two halves of the plugin's `Subscribe`: the
scheduler's entry is added before the mutex is taken. `Unsubscribe` cuts from the table
the subscribers whose handler has the same code address (`Pointer`) and removes their
entries. `Pointer` is the same for all handlers because `genSubscriber` makes them all
from one function literal. A trigger calls both once, but nothing orders them: its
`Unsubscribe` may come before `AddFunc` or between the two halves (`left` is then
`early`), finds nothing of its own to cut, and the trigger is subscribed for ever. `Reload`
is a trigger that is loaded again, after an edit perhaps, with a new handler.

*Run `plugins`*, part `trigger`. `TableMatchesScheduler`: an entry of the scheduler is that
of a subscriber in the table or of a `Subscribe` under way. `UnsubscribedIsSilent`: a
trigger whose `Unsubscribe` came after its `Subscribe` has no entry left, whatever the calls
of others do. *Run `time_fires`* finds `SubscribedFires` violated, see section 4.

*Bounds.* Three triggers on two schedules: one that leaves, one that shares its schedule,
one that does not. `MaxEntries` 4 lets one subscribe twice. Deadlock is off because the
entries run out.

*Proofs.* `Agreement`, `Silence`, `TriggerTypeCorrect`. The removal is by id, so the invariant
needs that ids are unique and given out (`Unique`), that a subscriber in the table is
switched on and in the list of its schedule (`Placed`), the agreement entry by entry
(`Agree`), and that a trigger which left in time is switched off (`Off`).

### PluginManager

*Code.* A worker is an HTTP request, the goroutine in which `Start` loads a plugin, or the
hook that calls `Shutdown`. `CheckLoad`, `Load`, `StoreLoaded`, `Add` are `loadPlugin`;
`CheckUnload`, `Unload`, `StoreUnloaded`, `Done` are `unloadPlugin`; `ReadOn`, `SaveOn`,
`ReadOff`, `SaveOff` are what `EnablePlugin` and `DisablePlugin` do with the row, which
they read before and write as a whole afterwards; `ReadSettings` to `CheckReload` are the
endpoint's `UpdateSettings`. No lock is held, and the guard of `loadPlugin` and
`unloadPlugin` is a look at `enabledPlugins` that may be stale when it is used.

*Run `plugins`*, part `manager`. `WaitGroupCovers`: loads may overlap as they like, the
wait group counts the plugins loaded but for the calls between the map and the counter;
an unload that overlaps another call of its plugin (`overlapped`) breaks it.
`PanicNeedsTwoUnloads`: `Done` panics only after two unloads at once, or one that
overtook an `Add` (`doubled`); a stale load never makes the counter too low.
`LoadedIsStarted`: what the map says is loaded was started. `ShutdownReturns`: under
fairness `Shutdown` returns, unless a plugin is loaded meanwhile (`late`), which nobody
unloads, or the counter was spoiled.

*Bounds.* Two plugins, of which one can be loaded while the other is passed by `Range`,
and two values of the settings; one request beside the goroutines of `Start` and
`Shutdown`, which overlap for a plugin with it and with each other. A request is used
once. Deadlock is off because they run out.

*Fairness.* Weak fairness of the steps of each worker and of `Shutdown`'s loop: the
goroutines run. Nobody has to ask, and no load has to succeed.

*Proofs.* `LoadedStarted` and `ManagerTypeCorrect`. The invariant (`LoadInv`) adds `Alone` (an unload that
overlaps another call is in `overlapped`), `Single` (the swap of `IsStarted` lets one
load of a plugin at a time past it) and `Places` (what a call found and did stays so
while it is inside: between the map and the counter its plugin is loaded, between Unload
and the map it is loaded and not started). `Counts` and `PanicExplained` count besides, for
any number of plugins and workers. `Counted`: without an overlap the wait group is the
loaded plugins, less the loads that have not called `Add`, plus the unloads that have not
called `Done`. `Backed`: without two unloads at once, each loaded plugin that is settled
and each unload under way has a unit of the counter of its own, so `Done` finds one
whatever loads do.

### Backup

*Code.* `Check` to `Clean` are `New`, in goroutines the event handler starts, with the
load and the store of `inProcess` apart (`Check`, `Mark`), the dumps, and the archive
in two steps (`Create`, `Zip`). `DropFails` and `ZipFails` are the errors `New` does not look
at, of `DROP SCHEMA` and of the walks and the close of the archive. `Restore` names a snapshot and stops the process;
`StopServer` is the hook `Shutdown`, which runs `RestoreFile`: `Unzip`, `CreateSchema`,
`DropSchema`, `Rename`, `RecreateSchema`, `RestoreScheme`, `RestoreData`, `RemoveFiles`,
`CopyFiles`. `RestoreCommand` is the command line's restore. `GiveUp` is a statement that
fails, `Crash` the end of the process anywhere, `Boot` the next start, which migrates.
A schema is absent, empty, bare (tables without rows) or holds a version of the data. A
dump that finds anything but one schema with data is torn, as a snapshot is while it is
written.

*Run `backup`*. `DataKept`: wherever a restore fails or
the process dies, the data is in `public` or in `public_old`, until somebody asks to drop
it. `RestoresSnapshot`: a restore that ends without an error brought the snapshot's data,
unless the snapshot has none or a backup changed the temporary directory meanwhile.
`SnapshotWhole`: an announced snapshot has data and scheme, unless there was no
file storage, the backup raced another one, an upload or a restore came in between, or one
of the errors above was passed over.
*Run `backup_announced`* finds `AnnouncedHasData` violated, see section 4.

*Bounds.* `Written` 1: an old and a new version of the data tell a wrong restore from a
right one. `Bounded` admits two goroutines and one snapshot, for what two `New` do to
each other, or one goroutine at a time and two snapshots, for a restore that is asked for
beside a backup. A directory entry that was deleted is free again. Deadlock is off: an empty
database that nobody writes may be in a state in which no start succeeds.

*Not modelled.* `RollbackChanges`, which renames `public_old` to `public` and fails whenever
there is a `public`, as there is while the server runs; the timescaledb extension;
uploads and downloads other than what they do to the directory; the removal of old
snapshots (`ClearStorage`), which is `Delete` repeated.

*Proofs.* `RestoreKeepsData`, for any number of goroutines, snapshots and versions, from
`Keeps`: with `DataKept` alone the step that creates `public` anew could follow one that
left the only copy there. `PlaceOK` says what `public` is at each place of the restore:
until `Rename` what is to keep is still in `public` itself, after it `public` is absent,
empty or bare, so nothing overwritten is the copy; and no server is up meanwhile.
`BackupTypeCorrect`. `RestoreBringsSnapshot` from `BringInv`: from `Unzip` until the data is
restored the temporary directory holds the snapshot's data, from then on `public` does,
unless somebody who used the directory meanwhile has cleared what was promised (`want`).
`AnnouncedWhole` from `WholeInv`: a backup nothing disturbed, and that met no error, is the
only one that runs, its
dumps are in the directory when it archives them (`AloneOK`), and nobody else writes to
the archive under its name (`NamesOK`).

### GatePool

*Code.* One pool of the gate server. `Register` and `Enter` are `RegisterConnection`,
`NewConnection` and `pool.Register`; `PumpHead` to `PumpExit` are `WritePump`;
`CleanLook`, `CleanClose`, `IsEmptyStart`, `IsEmptyEnd`, `JanitorStart`, `JanitorEnd`
are `Clean`, `IsEmpty` and the janitor of `Pools`; `GetPool` to `CloseFailed` are a
handler: the select on `idle`, `Take` in two steps (`TakeCheck`, `Take`), `proxyRequest`
or `proxyWs`, and `Release` in two steps. `PeerAnswer`, `PeerRefuse`, `PeerSession`,
`PeerEvent`, `PeerIgnore` are `serve` on the smart-home server; `PeerGone` is the network.
`PeerRefuse` is a request that cannot be decoded: `error` sends an answer of status 527 and
then its text as a message of its own (`ErrorBody`). An HTTP request whose text contains
`WS:` is taken for a session. The status of a connection has no lock, so its reads and
writes are separate steps. Left out: that the close message of a session's goroutine may meet
the write of the next request, on which the websocket library panics.

*Run `gate`*: `CollectedStaysEmpty`, what pool.go promises of a garbage collected pool.
*Run `gate_answers`*: `ImplementsLease`, the pool implements `ConnectionLease`, in which a
connection is free, lent to one request, or spoiled, and a request is answered once and
while it borrows; the refinement mapping (`Standing`, `Borrower`, `Answered`) forgets
status, channels and goroutines. `OneUser`, a connection has one user and at most one offer although
`Take` checks and sets without a lock; `RightAnswer`; and under fairness `ClosedLeaves`.
The last two have exceptions. The goroutine of a session that
ended goes on to read the next request's messages (`readers`), and the session's own
messages stay in the websocket, where the next request may take one for its answer and
`WritePump` may wait for ever with another; the text of a refusal fails the next request,
which is no answer to it, or keeps `WritePump` waiting in the same way. *Run `gate_clean`* finds `CleanSparesBusy`
violated, see section 4.

*Bounds.* `gate` and `gate_clean`: three connections with `Size` 1, because `Clean` closes
only what exceeds `Size` + 1; one request takes a connection meanwhile, and
the server may stop. `gate_answers`: one connection, two requests and a session, the case
in which one comes to a connection others used; the server does not stop there.
Deadlock is off: requests and connections are used once and run out.

*Fairness.* The goroutines run and the peer answers (weak); a `WritePump` that waits for
the pool's lock gets it (strong, as Go's mutex is starvation free). Nobody has to ask,
to leave or to break.

*Proofs.* `Exclusive`: the invariant is a token argument. A registered connection is
there at most once, as its one offer or as its one user; `Known` says that whoever works
on a connection has a registered one. `Refinement` is the lease for every number of
connections and requests: each step borrows, returns, answers, enlists, or changes
nothing the lease sees (`Unseen`), because the token argument leaves a connection one
user; it needs besides that whatever the pool works on was registered (`Registered`), and that
the outcome of a request is open until it leaves (`Undecided`). `StaysEmpty` adds `Collected`: once the pool was
removed nobody holds the lock of registration. `TypeCorrect`. `OwnAnswer` is `RightAnswer`
for any number of requests and sessions: a connection nobody had a session on, and whose
pump runs, is calm (`Calm`), that is, nothing is on the wire, or it carries one request,
on its way there, at the peer or on its way back, whose handler waits for it. It takes the
token argument to see that the next request finds the wire empty. After a refusal the peer
is mute and what is left to read is the refused request's answer and the text that follows
(`Refused`); from the first session on the peer answers no request, and only events come
back (`Spoken`).

### GateClientPool

*Code.* `Connector` computes, under the lock, how many connections are missing
(`Missing`, `Wanted`); `Create` makes them one by one; `Dial` to `Delete` are the
goroutine of a connection; `Tick` and `Request` start calls of `connector`;
`ShutdownStart`, `ShutdownOne`, `ShutdownEnd` range over the map while goroutines change
it. `Close` is a no-op while `isClosed`, which it is until the dial succeeded.

*Run `client`.* `BelowMax`: the map and what is still to create fit into PoolMaxSize.
`PoolRecovers`: again and again the pool holds a connection that dials or serves.

*Bounds.* Three connections, PoolIdleSize 1 and PoolMaxSize 3: `connector` fills the pool to
two, one serving and one idle, and refuses the third; `MaxCalls` 1 call of `connector` waits for the
lock (the type allows one more). `PoolRecovers` needs a PoolMaxSize above one (section 4) and excepts the state in which the sockets of
refused sessions, which nobody closes, hold every name of `Connections`.

*Fairness.* Weak fairness of the ticker, the connector, creation and the goroutines.

*Proofs.* `NeverAboveMax`, `TypeCorrect`: `TypeOK /\ BelowMax` is inductive, with the
library's facts on the cardinality of a set with one element more or less.

### Entities

*Code.* One entity. `Event` is the endpoint, the developer tools, scripts and the
supervisor's `eventHandler`, which starts a job each time. A job that adds is `Fetch`
(`updatedEntityById` reads the row), `Construct`, `Look`, possibly `Remove`, `Stop`,
`DeleteActor` of the old actor, `Store`, `Loaded`, `CheckRow` (`AddOrUpdateActor`,
`AddActor`); a job that unloads is `StartUnload`, `Remove`, `Stop`, `DeleteActor`.
`PluginLoad`, `PluginUnload` and `Unplug` are the plugin's side. `Watch` and `Forget` are
the handlers of the entity's loaded and unloaded events, which keep `eventScriptSubs`.
Removal is by id: the actor that was stopped need not be the one that is deleted.

*Run `entities`.* `KeepsLoaded`: updates never lose the entity. `DeadIsLeaving`: the map
holds a destroyed actor only between Destroy and Delete. `LoadedIsFresh` and
`WatchedIfLoaded` say what holds when the jobs about the last version came one at a time
(`calm`) and, for the watch, when each loaded or unloaded event found the one before it
handled (`inTurn`).

*Bounds.* Two jobs and three actors (one in the map, one made by each job), `MaxVersion` 2,
`MaxPending` 2 handlers of each kind. One entity and one script: entities share no state.
One unload of the plugin at a time: overlapping ones are `PluginManager`'s; database
reads of the jobs do not fail.

*Not modelled.* What an actor starts when `AddActor` spawns it after the store; actors made by
a script's `Spawn`; that Go may end the process where `eventUpdatedScript` and
`eventScriptDeleted` look at `eventScriptSubs` without its mutex.

*Proofs.* `UpdatesKeepLoaded` from `KeepsInv`: types, `NoRemoval` (while the history
`kept` holds, nobody removes for good) and `KeepsLoaded`. `DeadActorsLeave` from
`LeavingInv`: types, `Unstored` (an actor made and not yet stored is live, is not in the
map and belongs to its job alone) and `DeadIsLeaving`; without `Unstored` a job could
store an actor another one had destroyed. `TypeCorrect` carries which steps hold which
actors (`JobFits`). `UpdatesLand` and `WatchesFollow` from `FreshInv`: while the jobs come
one at a time (`Alone`), a job that fetched knows the row's version unless an event for a
later one is pending (`Fetching`, `Current`), the actor it made is of that version
(`MadeFrom`), and what the map and the watch say agree with the pending events (`InStep`).

### Dashboard

*Code.* The class `Core` of the editor, its tabs, cards and items, and the rows the API
keeps. An operation of the page runs to its `await` (`AddTab`, `RemoveTab`, `AddCard`,
`RemoveCard`, `CreateItem`, `CopyItem`, `RemoveItem`), the server serves it (`ServeAdd`,
`ServeRemove`, `Refuse`), and its rest runs when the answer is there (`TabAdded`,
`CardCreated`, `CardImported`, `CardRemoved`, `ItemAdded`, `ItemRemoved`, `TabRemoved`) or
does not come (`Failed`). Between the two the user selects and sorts (`SelectTab`,
`SelectCard`, `SortCards`, `SortItems`) and begins more. Requests are served in any order,
and an answer may be lost after the row was written. `activeCard` is an index into the
cards of the tab that is active, `currentCardId` an id: two ways to name one card. A menu
keeps the card it was opened for while an answer makes another tab active (`MenuCards`).

"Load from server" fetches the dashboard again (`Load`; the server reads the tabs, their
cards and the items of those one after the other, `ReadTabs`, `ReadCards`, `ReadItems`) and
makes all objects of the page anew (`Reload`, which is `currentBoard`). Requests begun before
may be under way: their answers go to tabs and cards the page has dropped (`orphaned`,
`CardCreatedAside`, `ItemsAside`). If the page has no card to select after a load, the
selection stays what it was. An answer that would put a second object of one row on the page,
because the load had the row already, is not followed further (`Twin`).

*Run `entities`*, part `page`. `OneSelection`: the form, which goes by the index, and its
button Remove, which goes by the id, are about one card, unless the user changed the tab
or sorted since, a card was created in a tab that was left or an item for one of its cards,
or a load found no card to select (`strayed`).
`ShowsCards` and `ShowsItems`: at rest the page shows the rows, but for ids whose answer
was lost or was applied to another tab or another index since the last load (`lost`). A load
that met no request makes good what was lost before; after one that met a request under way,
or read beside one, nothing is claimed until the next load.

*Bounds.* Two tabs, a card with an item in the first, and one fresh id of each kind, so
that there is a tab to leave for, an object to remove and one to add, and, once it is added, a
neighbour to remove for another. Part `page` has three operations, each begun once, so that
two are under way while a third is answered, and no load; part `loads` any number of loads and
`MaxBegun` 2 operations, so that one is answered before, during or after a load that another
is under way at; there no card is imported, and a tab is added only by the first to begin
(`LoadBound`). The theorems have none of these bounds. Deadlock is off: the operations run out.

*Not modelled.* Operations that only change an object's fields, the events of entities on
the page, drawing.

*Proofs.* `OneSelectionHolds`, `ShowsStoredCards`, `ShowsStoredItems`, `BoardTypeCorrect`, for
any dashboard in which a row has one parent, and any number of operations. All rest on
`PageInv`: ids that an answer is still to bring are issued but referred to by nobody
(`Known`, `Unseen`), a card that was not shown has no items on the page (`Bare`), and
nothing is listed twice (`Places`); without it, what an answer appends could already be
in another list. The selection needs besides that an index that is set is one of its list
(`InRange`): a card appended by `importCard` must not move under it. The page follows the
rows up to what is on its way: a stored card or item the page lacks is in an answer to
come, one it still shows without a row is in the answer of a removal (`CardsFollow`,
`ItemsFollow`). That these survive the requests served between an answer and its use needs
`Served`, what the server has for each answer that is still to be applied, and
`TabsStored`. The actions are first shown to be of four kinds (`BoardStep`): to look,
to ask, to serve, to apply; a fifth is an answer that goes to what the page has dropped
(`DropStep`). For loads, `LoadInv`: what a load has read are issued ids, each card and item
with its parent (`Snapshot`), and unless a request was served since it is what the rows still
are (`UpToDate`). So a load that met no request makes the page from the rows themselves, and
`TabsStored`, `Served`, `CardsFollow` and `ItemsFollow` hold afresh (`ReloadFollows`); after
another load `lost` is all ids, until such a one.

## 4. What the models found

Three runs are expected to find a violation. Each checks what the repository says of
the program:

- `time_fires`: unsubscribing one cron trigger silences all others of the same schedule,
  because the handlers' code addresses are compared.
- `gate_clean`: `Clean` closes a connection `Take` has made Busy after it read the status,
  against its own comment.
- `backup_announced`: a snapshot that is logged and announced as successfully created may
  have no data. `Zipit` returns nil at the first source that is missing, and its first
  source, `data/file_storage`, is made by the first upload.

The models also reach states that no text of the repository rules out. They are behaviour
of the code to know of, and the properties above are stated so as to except them and
nothing else:

- storage: a push between a pass's load and its store is lost; a popped name comes back
  when a pass visits it between the two deletions; `CleanMeansPersisted` needs its
  `diverged` because a failed upsert is not retried.
- tasks: an enable that overlaps a disable can leave a live object outside the map, make
  `Stop` or `Start` dereference a nil condition group, or (with a trigger that completes
  meanwhile) `Check`; `updateTask` adds the model it read whatever its Enabled, so saving a
  disabled task loads and runs it; a shutdown ranges over the map that jobs write.
- triggers: two concurrent adds leave the first object subscribed for ever; a disable
  that finds `Start` half way stops nothing; the counter wraps when a removal
  overtakes the count; a trigger the plugin refused counts as loaded, and stopping it
  dereferences nil; the map is read without its mutex.
- cron triggers: an `Unsubscribe` that overtakes the trigger's own `Subscribe` leaves it an
  entry for ever.
- event loop: `clearInterval` and the interval's goroutine can wait for each other for
  ever; a callback that clears its own timer makes `Run` return with a timeout pending; a
  timeout set outside `Run` waits for the next one; the goroutine of a cleared interval
  never ends; after a Go panic in a timeout's callback `Run` waits for a job too many.
- gate server: a failed connection is offered before it is closed; a session's goroutine
  reads the next request's messages; a request whose `WritePump` left by the status waits
  for ever; a queue closed half way ends a request without an error; an Idle mark written
  after Closed offers a dead connection; connections registered during a shutdown stay; the
  text that follows a refusal fails the next request, or keeps a closed connection in the map.
- gate client: the sockets of refused sessions stay open; a connection that dials during
  `Shutdown` survives it; `connector` compares with `>=`, so the pool stops one connection
  short of PoolMaxSize, and with a PoolMaxSize of one it never dials.
- plugin manager: a load that was checked before an unload stores a plugin as loaded that
  is not started, which can neither be loaded nor unloaded any more; two unloads at once
  panic; `Start`'s goroutines may load a plugin `Shutdown` has passed, which then waits
  for ever; a failed load leaves `IsStarted` set, so the next one is refused; `EnablePlugin`
  writes back the row it read before, with the settings of then.
- backup: a restore beside a backup may bring the backup's data under the snapshot's name;
  the upload of a snapshot removes the dumps of a backup under way; two `New` that pass
  the check together share and remove one directory; after a crash between `Rename` and
  `RestoreData` the next start finds an empty schema and fills it, or finds half of one
  and fails, and the next backup drops `public_old` with the only copy of the data; an error
  of `DROP SCHEMA` or of the archive is passed over and the snapshot announced all the same.
- dashboard: `importCard` puts its card into the tab that is active when the answer comes;
  `removeItem` splices by an index that may be another item's by then; a card created in
  a tab the user left is selected in the one he is on; "Load from server" while a request is
  under way leaves the page without the answer, or with the row twice, until the next load.
- entities: an update that overlaps a deletion adds the row again; an actor that another
  job stored over stays live; a watch is lost when the handler of an earlier unload comes
  last; an entity may stay loaded in a plugin that is unloaded.

## 5. What is checked and what is proved

Every safety property the passing runs check is also proved, for every value of the
constants, from the assumptions stated beside them (which TLC evaluates in the runs). So
is the refinement of `ConnectionLease`, and type correctness of every module that models
code.

| Module | Theorem | States | Inductive invariant |
|---|---|---|---|
| `StorageProofs` | `PushHeld`, `Persisted`, `OnePass`, `TypeCorrect` | `UncontendedPushHeld`, `CleanMeansPersisted`, one pass at a time | `IInv` |
| `TaskManagerProofs` | `TasksAreCounted` | `CountCoversMap` | `CountInv` |
| | `OneTaskRuns`, `GroupInPlace` | `OneLiveObject`, `CallsDoNotPanic` | `LiveInv` |
| | `LoadedTasksAreFresh` | `LoadedIsFresh` | `FreshInv` |
| | `CallsOwnObjects` | types, and who holds what | `WorkInv` |
| `TriggerManagerProofs` | `TriggersAreCounted` | `CounterCoversMap` | `CountInv` |
| | `OneTriggerFires` | `OneLiveTrigger` | `LiveInv` |
| | `MapFollowsRows` | `InSync` | `SyncInv` |
| | `CallsOwnTriggers` | types, and who holds what | `WorkInv` |
| `PluginsProofs` | `LoadedStarted`, `ManagerTypeCorrect` | `LoadedIsStarted` | `LoadInv` |
| | `Counts`, `PanicExplained` | `WaitGroupCovers`, `PanicNeedsTwoUnloads` | `CountInv` |
| | `NoWaitForNothing` | `NoPhantomJob` | `LoopInv` |
| | `Agreement`, `Silence`, `TriggerTypeCorrect` | `TableMatchesScheduler`, `UnsubscribedIsSilent` | `CronInv` |
| `BackupProofs` | `RestoreKeepsData`, `BackupTypeCorrect` | `DataKept` | `Keeps`, `TypeInv` |
| | `RestoreBringsSnapshot` | `RestoresSnapshot` | `BringInv` |
| | `AnnouncedWhole` | `SnapshotWhole` | `WholeInv` |
| `GatePoolProofs` | `Exclusive`, `TypeCorrect` | `OneUser` | `IInv` |
| | `StaysEmpty` | `CollectedStaysEmpty` | with `Collected` |
| | `Refinement` | `ImplementsLease` | with `Registered`, `Undecided` |
| | `OwnAnswer` | `RightAnswer` | with `Wires`, `Pumps`, `Heard` |
| `GateClientPoolProofs` | `NeverAboveMax`, `TypeCorrect` | `BelowMax` | `TypeOK /\ BelowMax` |
| `EntitiesProofs` | `UpdatesKeepLoaded`, `DeadActorsLeave`, `TypeCorrect` | `KeepsLoaded`, `DeadIsLeaving` | `KeepsInv`, `LeavingInv` |
| | `UpdatesLand`, `WatchesFollow` | `LoadedIsFresh`, `WatchedIfLoaded` | `FreshInv` |
| | `OneSelectionHolds`, `BoardTypeCorrect` | `OneSelection` | `SelectionInv`, `LoadInv` |
| | `ShowsStoredCards`, `ShowsStoredItems` | `ShowsCards`, `ShowsItems` | `ShowsInv`, `LoadInv` |

The assumptions on constants are of two kinds. Most say that model values are apart: a
name for "none" is no object, an id is of one kind, the main thread is no job, an archive
is not the mark for an absent one. The others bound what counts: sets that a counter
counts are finite (plugins, workers, timers, connections), sizes and bounds are naturals.
`DashboardAssumption` also says that the ids are finitely many, as a load lists them, and that
in the dashboard that is opened every card is of one tab and every item of one card, once, as
the foreign keys of their tables have it. The
bounds of the guards (`MaxVersion`, `MaxCounter`, `MaxDrift`, `MaxEntries`, ...) are
arbitrary in the proofs.

Model-checked only: all liveness (`PushArchived`, `TimeoutRuns`, `ShutdownReturns`,
`ClosedLeaves`, `PoolRecovers`), which depends on fairness; and the three violations of
section 4, which are counterexamples.

Out of the prover's reach, and left to TLC: liveness under fairness and ENABLED, what a
recursive definition computes for every input (induction over data), and RECURSIVE
operators. No module uses the latter.

## 6. Not modelled

`PROJECT.json` lists every component with the reason. In short: wrappers of third-party
brokers, caches and compilers; external devices and messengers; pure I/O (logging,
web crawler, terminal, ORM set-up); pure functions of a request (access control, tokens);
generated code and SQL; the web client but for its dashboard editor. Not modelled yet,
though they could be: the state of an actor (`SaveState`, `RestoreState`), the stream's
sessions, the gate client's changes of settings, the engine's watchers.

Hazards that no property covers, with the reason in `PROJECT.json`, are of two kinds. Most are
behaviour the code does not exclude: the push that a pass overwrites, overlapping calls for a
task, a trigger or a plugin, the trigger its plugin refused, the deadlock in `clearInterval`,
backups that share a directory with each other or a restore, entity jobs that overlap. The
models reach each of them, and the properties beside them name them as their exceptions.
Parallel use of one script engine and the order of an actor's states are not in a model.

## 7. Plan

Done, in the order of importance: storage, tasks, triggers, event loop, cron triggers,
gate server, gate client, entities; plugin manager, dashboard editor, backup; the gate
server's pool as a refinement of a lease. Next:

1. `ActorState`: `SaveState`, `RestoreState` and the supervisor's cache; an event's old
   state is the new state of the event before it.
2. `Entities` composed with `PluginManager` through a plugin's `Unload`, which removes the
   plugin's actors while jobs add to them.
3. An abstract specification of a component manager (an id is absent, present in a
   version, or in transition) that `TaskManager` and `TriggerManager` implement for calls
   that do not overlap, and a map with archive that `Storage` implements for names
   without contention, each as a refinement.
4. The state change trigger's counter, the stream's sessions, the engine's watchers.

Proofs to come: the two refinements of item 3, step by step from `SyncInv`, `FreshInv` and
the `IInv` of storage; action properties of the managers (a call changes nothing of another
id's object); the safety half of the liveness properties, that is, the invariants which
say that a step of whoever is waited for is possible.
