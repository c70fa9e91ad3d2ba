# KrakenOS agent: TLA+ models, model checking and proofs

KrakenOS is a "brain" for a home network: one Node process (`apps/agent`:
Fastify, Prisma over SQLite, Socket.io) that watches the router, the IoT devices
and the cameras of a home and acts on them (blocks devices, arms the alarm, runs
rules, updates itself), and a React client. This directory holds TLA+ modules of
the agent's own logic, TLC configurations that check them on small instances and
TLAPS proofs for every instance. Paths below are relative to
`apps/agent/src/`.

## 1. The system

### What runs, and what interleaves

* **One process, many calls.** HTTP handlers, bus events and periodic sweeps are
  `async` functions of one Node process. Code runs undisturbed up to its next
  `await`; there, anything else may run. This is where most of the hazards are:
  a value read before an await and used after it, two calls in the same
  function, an answer that comes in another order.
* **One database connection.** `db/serialized-adapter.ts` puts a FIFO mutex
  around the SQLite driver: statements run in the order they are asked for, a
  transaction keeps the mutex to its end.
* **Files.** The IoT, camera and credential stores are JSON files replaced by
  rename; a restore copies files over live ones before the database is opened.
* **Sweeps.** `system/tick-loop.ts` calls a service every second, 30 seconds,
  minute or hour, and skips a turn while the last one is still running.
* **Things outside.** Router and IoT commands take time, are refused, or time
  out and are obeyed all the same; the router forgets its rules when it
  restarts; a bridge hangs and returns; Wi-Fi devices vanish and return. The
  process may die at any await and systemd starts it again; what is in memory is
  gone. A cut of the power also loses what was not forced to the disk.
* **A second process.** The one-click update is run by an updater that outlives
  the service and shares the disk with it.

### Components

| Component | State it keeps | Operations | Talks to | Correct when |
|---|---|---|---|---|
| Alarm (`alarm/state-machine.ts`, `modules/alarm/`) | phase and countdown in memory, row `alarm.state`, configuration | arm, disarm with PIN, trigger, 1 s sweep, reconcile | bus, IoT (siren, lights), audit | the phase survives a crash; a firing sounds and is audited once; only the PIN stands it down |
| Alarm fail-safe (same service) | what was already announced | 30 s check of sensors, detectors, backends | IoT list, push | a lasting outage is announced, and once |
| Parental control (`modules/access/`, `access/reaffirm.ts`, `inventory.setBlocked`) | schedules, pauses and blocks (rows), `managedBlocked` (memory and row), marks of reaffirmation | pause, resume, block, unblock, 1 min sweep, reconcile | router | what somebody wants blocked gets blocked; no rule is left without somebody who lifts it |
| Presence (`modules/presence/`, scan of `modules/inventory/`) | `online` rows, pending departures, cache, timeline rows, mode | scan, arrival, departure with grace, 1 min sweep, setMode, reconcile | router, bus, alarm | who has a device online is at home; `away` means empty; arrivals and departures alternate |
| Sessions (`modules/auth/`, `auth/mfa-token-store.ts`, `webauthn/`, `modules/users/`) | refresh-token rows, used tickets (memory), recovery codes, API tokens, standing of accounts | sign in with one or two factors, recover, refresh with reuse detection, log out, revoke | database | a token, a ticket or a code gives one session; an account that is out gets none |
| Automations (`automations/`, `modules/automations/`) | rules, last firings, last swept minute, the watcher's baseline | onEvent, minute sweep, fire, poll, known changes | bus, IoT | each instant and each change of a device is acted on once; cooldowns hold |
| IoT reads (`iot/device-cache.ts`, `iot/composite.iot.ts`, `iot/action-timeout.ts`) | cached list, reading in flight, failures of the last reading | listDevices, listFailures, setState | backends | a hung backend costs a list, not the sweeps that share it |
| Integrations (`integrations/`, `modules/integrations/`, adoption of `modules/discovery/`) | `IntegrationConfig` rows, live managers | save, remove, adopt, reconfigure | drivers | what serves is what is saved; adding takes nothing away |
| JSON stores (`store/json-store.ts`) | a file, a chain of operations | list, upsert, remove | IoT, cameras, WebAuthn | a collection changed atomically, whatever crashes |
| Database and accounts (`db/serialized-adapter.ts`, `modules/users/`) | connection, mutex queue, `User` rows | create, update, remove | every service | transactions exclude each other; an administrator remains |
| One-click update (`modules/system/update.service.ts`, `system/update-*.ts`, `system/process-update-runner.ts`, `update-runner.ts`) | `var/update.lock`, tree, database, snapshot, service | apply, cancel, the updater's steps, rollback | git, pnpm, systemd | one updater at a time; whole or undone; never stuck in progress |
| Restore and boot (`system/restore.ts`, `system/boot-migrate.ts`, `db/migrate.ts`, `index.ts`) | staging, live files and their WAL, previous copies, schema | upload, apply, undo, migrate, revert | disk | the files of the archive or those of before; the old database can be rescued; the box comes up |
| Tick loop, automatic backup, lockouts, shutdown | flags, a window, counters | runOnce, runNow, prune | sweeps, disk | *not modelled; the first is an assumption here* |
| Drivers, QoS, VLAN, VPN, DNS, scenes, rooms, people, energy, cameras, push, alerts, WebAuthn, crypto, web client | rows or nothing | adapters, CRUD, reports | | *not modelled: seen from their callers, or without state worth a model* |

`PROJECT.json` lists them with their sources, and under `hazards` what is hard to
test in this code, each at the line where it bites.

## 2. The modules

One module per component; `MC<name>` gives it small instances; `<name>_<run>.cfg`
is one run; `<module>_proofs` extends it with theorems (`Lifecycle_proofs` those of
`Update`, `Boot`, `Integrations` and `IotReads`, `Alarm_proofs` those of `AlarmFailSafe` too). In the modules of services
**one action is the code between two awaits**, named after what it does; a call is
a slot (`Requests`, `Callers`, `Handlers`, `Editors`, the sweep) whose record says where it waits and what
it carries. Faults are CONSTANT switches (`DbFails`, `IotFails`, `Faults`,
`Crashes`, ...), so a run says which world it is about. A few operators are the form a
plausible bug would give to the one beside them (`UnknownPidIsStale` for `Stale`);
each is there to show that a property notices it.

* **`Alarm`**: `armAlarm` (`ArmRead`, `ArmApply`), automatic arming on `away`
  (`AwayRead`, `AwayCheck`), `disarmAlarm` (`DisarmRead`, `DisarmVerify`,
  `DisarmApply`), `onTrigger` (`TriggerRead`, `TriggerApply`), the sweep (`Tick`),
  `persist` (`Assign` queues the write, `WriteLands`/`WriteFails` answer it),
  `fireActions` and `setSiren` (`Fire`, `SirenCommand`, `SirenObeys`,
  `SirenFails`, and `LateSiren` for a command obeyed after its timeout),
  `reconcile` (`Restart`). Countdowns are due or not, PINs right or wrong; the
  lights follow the siren.
* **`AlarmFailSafe`**: `failSafeCheck` cut at its three awaits (`CheckStarts`,
  `ConfigRead`, `ListRead`, `CheckApplies`) against arming, disarming and devices
  and backends that come and go. An outage is what consecutive readings show: one
  that ends and returns between two lists is the same outage for the code, and
  `told` forgets an announcement only when a list shows the outage over or, for
  sensors and the IoT as a whole, when a new arming begins.
* **`Access`**: pause, resume, block and unblock as one call shape (`Request`,
  `Guards`, `Obeys`, `Answer`, `RequestDone`); the sweep over a snapshot (`SweepSchedules`,
  `SweepPauses`, `SweepDevice`, `SweepDone`) and the reaffirmation of blocks
  (`SweepManuals`, `Reaffirmed`); `persistManaged` (`Persist`, `WriteLands`, and
  `WriteFails`, which it swallows); any other statement that throws ends its request or
  its sweep where it stands (`StatementFails`); boot (`Restart`, `Load`, `BootIsOver`).
  `behind` is history: an upsert was refused, or a sweep cut before its persist, since the
  set was last serialised. A command has two instants, the router's and
  the caller's. A pause outlasts the command that sets it.
* **`Presence`**: one queue of database operations, served in order, each running
  its caller's code to the next await; `ScanReports` ... `MarkStale` are the scan,
  `OwnerOnline` ... `LeftMode` the event handlers, `ReadMode`/`WriteMode` setMode,
  `Sweep`, `Settings`, `Recheck` the minute, `Reconcile` the start. The router is
  always in its own report, so a report is never empty.
* **`Sessions`**: every request as its chain of awaits: `AskLogin`,
  `VerifyCredentials`, `ReadAccount`, `StampLogin`, `CreateRow` for a sign-in;
  `AskSecondFactor`, `ResolveMfaUser`, `VerifyPasskey`, `SpendCode` for the second
  factor and the recovery; `AskRefresh`, `FindToken`, `FindOwner`, `Claim` for
  a refresh, `RevokeAll` and `DeleteKeys` where it takes a token for reused; the
  revocations, the changes of accounts, failures of statements, restarts. `from` in
  a row is history: what the session was obtained with.
* **`Automations`**: what the bus tells starts a handler per event (`Told`), which reads
  the rules (`RulesRead`); the minute sweep reads them too and then what the home
  is like (`SweepStarts`, `SweepReadsRules`, `SweepReadsHome`) and computes what falls
  between the last swept minute and now. `fire` notes the attempt before the actions
  (`Fires`); each command (`Obeyed`, `Answered`, `CommandFails`) is told back with its
  origin, and `Recorded` ends the firing. The watcher's poll (`PollReads`,
  `PollApplies`, `PollFails`) gets a list that may be partial, and in it devices that do
  not answer, without a value (`Null`, the code's `on: null`); `blind` is history: the
  devices whose known value a null has replaced since they were last told of. Rules are data
  (`Routine`): a trigger, hours, commands, a cooldown.
* **`IotReads`**: a reading of the composite settles backend by backend
  (`MemberAnswers`, `MemberFails`) and ends (`Collected`); the cache shares one
  reading (`AskList`), gives up on it (`GivenUp`), ages and is invalidated.
* **`Integrations`**: `PutConfig`, `Adopt`, `Remove`; the merge of
  `saveDomainConfig` (`Merge`) and the write (`Upsert`) an await later; `Reconfigure`
  builds from the row as it then is and swaps.
* **`SerializedDb`** and **`UserStore`**: the connection, the mutex and the
  transactions of the accounts; the abstract store whose changes are atomic, which
  the first implements under `accounts <- disk`.
* **`JsonStore`** and **`KeyedStore`**: the chain of promises and the write of a file
  step by step (open, fill, fsync, rename), with I/O errors, crashes, cuts of the
  power and damage from outside; the collection it promises, which the first
  implements under a mapping of its file, its disk and its callers.
* **`Update`**: `activeLock`, `apply` and `cancel` in the service (`CheckLock`,
  `Mark`, `WindowShut`, `Launch`, `Name`, and how each fails), the steps of
  `orchestrateUpdate` over `ProcessUpdateRunner` (`Backup` ... `Healthcheck`), the
  rollback (`Stop`, `Checkout`, `Copy`, `Discard`, `Start`) and the end (`Finish`). A
  service that ends while it writes the lock may leave it empty (`LeftLocks`). The disk is
  the version checked out and whether its build is whole, the schema of the
  database and of its snapshot. systemd restarts a service that failed and
  leaves a stopped one alone; a power cut kills everything.
* **`Boot`**: the upload (`Receive`, `Authenticate`, then the removal of an earlier
  archive file by file, `ClearStaging`, and `Publish`), and a
  boot that saves a file, retires the WAL of the old database, puts the new file,
  the next, and clears; `Undo` and its steps when a file fails; the migrator's
  verdict, and the revert when it refuses. Each operation may fail, the process may die
  at any moment (`ProcessDies`: what it was copying or removing is cut half way,
  `CutShort`), and so may the power. No copy of `restore.ts` is followed by an fsync, so
  a directory remembers which of its files are `unsynced`, and `PowerFails` may tear any
  of them, finished or not, and takes the pre-restore directories. The order in which the
  file system records creations, renames and removals is taken to be the order in which
  they were made. The service may come back as a newer or an older version.

### How they are composed and checked together

The components touch through a few narrow places: `Presence` produces the `away`
that `Alarm.AwayRead` consumes, and its FIFO queue is the mutex of `SerializedDb`;
`AlarmFailSafe` sees of `Alarm` only whether it is active; `AlarmFailSafe` and the
poll of `Automations` get their lists from what `IotReads` models. Each module takes
the others as free actions of its environment (`AwayRead` may happen at any time, a
list may be partial or fail at will), which allows more than the composition does.

What shares no state is checked **side by side**: an MC module extends two to four
components, and *one runs while the others wait in one of their initial states*.
Such a run has the states of each component and not their product, and says of each
exactly what a run of its own would. A component that waits satisfies its own
fairness because none of its fair actions is enabled in its initial states; where
one is (a sweep that could begin), the MC module states the fairness while the
others wait (`MCHouse`, `MCLifecycle`, `MCAlarmFailSafe`).

## 3. The runs

| Run | Instance | Distinct states | What it shows |
|---|---|---|---|
| `alarm_works` | 2 requests and the sweep, delays 0 or not, crashes, a database and a siren that work; beside it the fail-safe with a sensor and a detector on two backends | 128 k | `DurablePhase`, `DisarmSilences`, `TriggeredSounds`, `EntryResolves`; `OutageToldOnce`, `OutageIsTold` |
| `alarm_faults` | the alarm with failing writes, late sirens, settings that change | 376 k | `AnnouncedOnce`, `StandsDownOnlyByPin` |
| `access_owned` | 2 devices, blocks, one window and a pause from before, refused commands, a database that works, router restarts, crashes between commands, one reaffirmation per sweep | 28 k | `EveryRuleIsOwned`, `BlockReachesRouter`, `UnblockReachesRouter` |
| `house` | 2 people with 1 device each; beside them 1 device of the network with every operation, refused commands and statements (`DbFails`), router restarts and crashes | 417 k | `EmptyHouseGoesAway`; `ManagedDurable` |
| `people` | 1 person with 2 devices, night, modes by hand, crashes; 3 rules over 2 days of 3 minutes, lists partial or without a value; 2 requests over 3 refresh tokens, a ticket and a recovery code | 785 k | `PresenceFollowsSignal`, `AwayMeansEmpty`, `TimelineAlternates`; `EachInstantOnce`, `CooldownKept`, `SeenIsTold`; `SessionNeverForks`, `ProofUsedOnce`, `BarredGetsNothing` |
| `storage` | 3 requests over 2 accounts, failures, crashes; 2 callers over 2 ids of a file, I/O errors, crashes, power cuts, damage | 176 k | `Serialized`, `AdminStays`, `ImplementsStore`, `EveryoneIsServed`; `CrashLeavesWholeFile`, `ImplementsCollection`, `EveryCallerAnswered` |
| `lifecycle` | 1 request at a time and 2 updaters, every failure; a restore with 2 misfortunes; 2 changes of an integration at once; 2 backends read by a sweep and a route | 412 k | `OneUpdater`, `SuccessIsWhole`, `RollbackRestores`, `RefusalTouchesNothing`, `DbReplacedWhenStopped`, `UpdatingEnds`; `AllOrNothing`, `OldBaseIsRescuable`, `ComesUp`; `LiveIsSaved`; `ListsComeBack` |
| `failsafe_rearm` | a sensor and a detector on one backend | violation | `BlindArmingIsTold` |
| `presence_race` | 2 people, 1 device each | violation | `AwayMeansEmpty` |
| `update_clicks` | 2 requests at once | violation | `OneUpdater` |
| `boot_wal` | a restore with two misfortunes | violation | `FailureKeepsWal` |
| `adoption` | 1 request, 2 devices | violation | `AdoptionAdds` |

Deadlock is checked in all. Each module has a type invariant; those of the modules
with proofs are proved, the others have been checked by TLC in the instances above
and are not repeated in the runs.

### Bounds, and why they are enough

* *Two requests and the sweep* (`Alarm`), *two handlers* (`Sessions`), *two callers*
  (`JsonStore`), *two editors* (`Integrations`): every race in the service is between a
  pair of calls that read before either writes; a third repeats a pair. The
  proofs remove the bound for the safety properties.
* *One device with everything, two with blocks and a window* (`Access`): the state
  is per device, except for the set that is stored and the order and cap of the
  reaffirmation, which need two devices and `Cap = 1` (`REAFIRMACION_TOPE_POR_BARRIDO`
  made to bite).
* *`RequiredSweeps = 2`, `ScansPerSweep = 1`* (`Presence`): two is the first value at
  which a streak can be interrupted; a sweep lasts milliseconds and scans are
  minutes apart, so at most one report falls inside a sweep. The second scanner of
  `POST /rescan` is left out of the runs (section 5).
* *Three tokens, one ticket, one code* (`Sessions`): a session, its child and a second
  child are what a fork would need. `Worthwhile` (API tokens only before the first
  session, no request begins without a token left to issue) leaves out states that
  no step looks at.
* *`DayLength = 3`, `Week = 2`, `LastMinute = 5`, two slots* (`Automations`): two days, so
  that a sweep crosses midnight and a rule whose hour moves with the weekday
  is seen on both; two events in flight and the sweep. `Bounded` follows events
  through the first day and instants through the second, and has devices that do not
  answer in the first minute only (their null stays in the baseline after it).
* *Two updaters* (`Update`): the second one starts from whatever the first left
  behind, dead, finished, or still running without its lock.
* *`MaxMisfortunes = 2`* (`Boot`): two deaths, or a failure and a death while it is being
  undone; the code is written to survive any number of deaths or one failure, not more,
  and the theorems have no bound.
* *Two reads of two backends* (`IotReads`): one that hangs and the one that replaces
  it; a list that is partial and one that is not. A hung reading occupies its slot
  until its members' time is over, so `RouteReads` leaves a slot to the cache.
* *Three requests, two accounts* (`SerializedDb`): the holder of the mutex, one that
  waits, one that asks; two administrators who demote each other. The proofs remove
  both bounds.

### Fairness, and why the code justifies it

* Weak fairness of the steps of a call that has started (`Continue`, `RequestStep`,
  `Serve`, `Step`, `Advance`, `Applying`, `Updating`, `BootStep`, `ReadGoesOn`): the
  event loop runs what is ready, and every await used ends, by an answer or by a
  timeout (`iot/action-timeout.ts`, Prisma's limit, the twenty minutes of a
  command of the updater). No fairness on what people do, nor on failures.
* Weak fairness of the sweeps: `setInterval`, and `runOnce` that clears its flag in
  `finally`.
* Strong fairness of a router command being obeyed, per device and kind
  (`Access`): the sweep repeats it every minute, so the property asks for a router
  that does not refuse for ever; and of a sweep outside the night window
  (`Presence`).
* `<>[][~Crash]_vars` in `Alarm` and `Access`: the process does not die again and
  again for ever.
* Time passes (`ClockElapses`, `GraceEnds`, `MarkAges`, `LockAges`, `CacheAges`).
* `ListsComeBack` supposes that the backends answer from some moment on, and
  `ComesUp` that what went wrong is among what the code means to survive
  (`MeantToSurvive`).

## 4. The proofs

TLAPS proves these for every value of the constants, from the specification alone
(no fairness) and the named assumptions of the modules.

`Alarm_proofs`:
* `TypeCorrect`: `Spec => []TypeOK`.
* `PhaseIsDurable`: without failed writes, `[]DurablePhase`. `DurablePhase` speaks of
  an empty queue only; the strengthening `DurableInv` says that the *last* write of
  the queue, or the row when there is none, holds the phase in memory, and that is
  what `Assign`, `WriteLands`, `Crash` and `Restart` preserve.
* `OnlyPinStandsDown`: while the owner does not change the configuration,
  `StandsDownOnlyByPin`, an action property. `PinInv` carries the checked PIN over the
  await between `DisarmVerify` and `DisarmApply`.
* `EntriesAnnouncedOnce`: with finitely many request slots and any failures,
  `[]AnnouncedOnce`. `AnnounceInv` says the entries owed are exactly as many as the
  calls still on their way to the audit; each action moves both sides alike.
* `DisarmedIsSilent`: `[]DisarmSilences`, for any requests that race and with crashes
  and restarts anywhere, when no write and no siren command is refused and the
  configuration stays. Each hypothesis is one the code needs: a refused write throws
  before the *off* is sent, a refused command leaves the siren on, and a siren taken
  out of the configuration meanwhile gets no *off*. `SilenceInv` looks at the row
  as it is and as it will be after every write queued: a command that may still sound
  the siren, and a siren that sounds with nobody about to silence it, belong to an
  alarm whose row says `triggered`, so neither a disarm nor a restart from that row
  finds them in a silent house.
* `FailSafeTypesKept` and `OutagesToldOnce`, for any sensors, detectors and backends.
  Between its awaits the check carries a list of the devices that may be old; the
  invariant says that the list about to be applied shows every outage that was
  announced and is not over, whose mark therefore stays.

`SerializedDb_proofs`, all from one inductive invariant `IInv` (types; no request
queues twice; a transaction is open exactly while the head of the queue is inside
one; outside it the file and the connection agree; inside it, what is good so far
has an administrator whenever it is about to commit):
* `DbTypeCorrect`, `TransactionsAreSerialized`, `AnAdminAlwaysRemains`;
* `TransactionsImplementTheStore`: `Spec => Store!Spec` under `accounts <- disk`. Only
  `Insert` and `Commit` change the file; the first maps to `Create` (or stutters),
  the second to one `Change`, because the rows it commits differ from the file in the
  account of the transaction alone.

`JsonStore_proofs`, for any ids, items and callers, with failures, crashes and power
cuts: `FileTypesKept`, `FilesAreWhole` (`[]CrashLeavesWholeFile`) and
`FileImplementsCollection` (`FileSpec => ImplementsCollection`). The inductive
invariant: types; `ChainOK` (callers in flight stand in the chain once each, and all
but the first wait to read, so one operation at a time touches the file); `Progress`
(what a writing operation has in its temporary file is its change applied to the file
as it *is*, not as it was when read); and the files are whole or damaged from outside.
The rename maps to `Do` of the collection, and so does the reading for an operation
that changes nothing; the file system's journal maps to `Settle`, a crash or a power
cut to `Stop`, the answer to `Answer`.

`Sessions_proofs`: `SessionTypesKept`, `SessionsNeverFork`, `ProofsUsedOnce`,
`OutMeansOut`, for any accounts, tokens and requests, from one invariant: types;
`CallOK` (what a request carries at each step, and if its account was out when it was
asked, the account is still out and the request is not among the steps past the check);
`Exclusive` (what a request has taken, and what a session was obtained with, is used -
a rotated token, a consumed ticket, a spent code - and belongs to it alone). The races
are all in `Exclusive`: two requests pass the same reading, and only the conditional
update lets one of them hold the token.

`Lifecycle_proofs`:
* `WhatIsSavedServes`. `LiveIsSaved` is inductive beside the types: a step that changes
  the row leaves its own request owing a build, and a build reads the row as it is.
* `BootTypesKept`, `RestoreIsWhole` (`[]AllOrNothing`) and `OldBaseIsKept`
  (`[]OldBaseIsRescuable`), for any number of misfortunes, within one boot and over many.
  The invariant has four parts: `StepsInv`, where the boot is, against what is staged,
  kept and applied; `WalInv`, that a WAL lies beside the database it belongs to only, or
  beside what a cut has left of it; `RescueInv`, that unless the power failed the old
  database is filed, with its WAL, before anything of it is touched; and `SurviveInv`,
  that as long as what went wrong is among what the code is written to survive
  (`MeantToSurvive`: deaths of the process, or one failure, of a restore that was staged
  whole), the files are those of before, those of the archive or on their way to one of
  them, and what the handler would put back is exactly what there was. What the theorems
  do not cover is in section 5.
* Of the update, for any number of updaters, failures and deaths: `UpdateTypesKept`,
  and, with requests one at a time (`OneAtATime`), `OneUpdaterLives`, `DoneMeansWhole`,
  `RollbackIsWhole`, `RefusedMeansUntouched` and the action property
  `CopyFindsServiceStopped`. The assumption is needed: two requests that both find the
  lock free launch two updaters (run `update_clicks`). As in the properties, nothing is
  said once an updater has lost its lock while it lives (`forced`). The invariant:
  `LockOK` (the lock belongs to the updater that lives, and a request past its check has
  found none), `Progress` (at each step of the updater, what is installed, in the
  snapshot and running) and `Verdict` (what each outcome says of them).
* `WaitersAreServed` (`ReadsSpec => []NobodyWaitsInVain`), for any backends, sweeps and
  routes: `SharedInv` adds that the reading shared still runs even when nobody waits for
  it. Every way a reading has to end (collected, refused by all, given up) forgets it
  and answers those who share it in one step. It is the safety half of `ListsComeBack`,
  which the run `lifecycle` checks: that what follows is a whole list is liveness.

`Access_proofs`: `StoredIsManaged` (`[]ManagedDurable`), for any devices, requests,
pauses and failures, with crashes and restarts anywhere. `ManagedDurable` speaks of
an empty queue of writes and of sweeps that owe nothing; the strengthening says that
what is on its way to the row (the last upsert queued, or the row when there is
none) is `managedBlocked`, or a sweep has changed it and not yet persisted it, that
only sweeps owe, that who waits for the queue is in it once, and that until the
record is loaded nothing but the first sweep has begun. Statements may be refused
anywhere (`DbFails` is a constant of the theorem): `behind` is raised by the refusals
that lose the last word of the set, and lowered by the next `Persist`, so the theorem
says that nothing else makes the row differ, and that one later upsert that lands
makes good whatever was lost.

`RulesAreOwned`: `BlocksOnly => (AccessSpec => []EveryRuleIsOwned)`, for any devices and
windows, any refused commands and router restarts, and any number of crashes between
commands, with a database that refuses nothing. `BlocksOnly` names the instances in which the property is true, and the run
`access_owned` is one of them: a pause, a resume or an unblock that crosses the sweep,
a command that was obeyed and times out, a first sweep that overlaps the next, and a
crash between a command and its record each leave a rule that nobody owns (section 5).
`OwnedInv` says of every rule who accounts for it (the block by hand, the managed set,
the record that a restart will load, or the call that has just sent it), and of every
call at work what it still means to send.

`Presence_proofs`: `NobodyIsForgotten` (`OneScan => (Spec => []PresenceFollowsSignal)`),
for any people, devices, sweeps, nights, modes and crashes, and any number of reports
within a sweep. The property speaks of an empty queue; `PresenceInv` says what is known
of each person while it is not: who has a signal is home, or an event is queued that
will make them so; who has none is away, pending, or in a sweep or an event that will
settle it. It needs that the scan's one operation stands in the queue with what it
read of the device still so, behind the arrival it announced. `OneScan` (one scanner) is needed:
with the second scan of `POST /rescan` TLC finds the property violated (section 5).

`ArrivalsAreNew` (`OneScan => (Spec => []ArrivalsAlternate)`), in the same generality: an
automation on arrivals runs once per arrival. `ArrivalInv` adds three things to
`PresenceInv`. The queue is ordered (`Ordered`): of two operations on the way in, the
first can only be the reading of the user that an event has led to, and the second
another event, which then finds the cache set. A row on its way in is never behind
another that says the same (`Rows`: up to any position of the queue, the last row stored
or about to be is not an arrival). And somebody absent is last recorded as absent, or the
row that says so waits. Two scans at once announce one arrival twice, so `OneScan` is
needed here too.

`RowsAlternate` (`OneScan /\ (OnePerson \/ ScansPerSweep = 0) => (Spec => []TimelineAlternates)`)
adds the departures. `DepartureInv` says, beside what the timeline holds, that whoever is
being lost (pending, or in the sweep's copy) is at home, and is being lost once: the orders
of the queue that would lose somebody twice never arise (`LeavesBefore`), a scan has seen
whatever is online of those people (`SeenIs`), so it tells none of them lost again, and
whoever of them has a signal is about to be told back by a scan that goes on (`BackIs`).
A report inside a sweep can only disturb whoever else is in the sweep's copy: with one
person there is nobody else (`AloneInv`), and with several the theorem asks that no report
comes while a sweep works, which three people do need (see below).

`AwayIsEmpty`, under the same hypotheses, is `[]AwayMeansEmpty`: the mode that presence has
set to away is away only while the house is empty. `HomeInv` adds to `DepartureInv`:
`HouseInv`, what holds while the arrivals catch up (away, with somebody home, only while
their row or a mode "home" is queued); `EmptyInv`, for any people with no report inside
a sweep (the scan that a sweep meets has shown somebody already, so nobody online when it
counts stays nobody online until it decides, and then `PresenceInv` has everybody absent);
and `AloneHome`, for one person with reports inside the sweep (what may stand behind the
departure in the queue before the count and after it). The hypotheses are where the code
stops being right: with two people and a report inside a sweep the run `presence_race`
finds the property violated (section 5). They hold of the instance of `people`.

`Automations_proofs`, for any devices, rules, calendars and number of handlers:
* `AutoTypesKept`, and `SeenDevicesAreTold` (`[]SeenIsTold`). `WatchInv` makes the
  promise an equation: the last value told of each device is the one in the baseline,
  and nothing was told before there was one; but for the devices in `blind`. A list or an answer that changes the
  baseline starts exactly the events that tell the new values.
* `CooldownsAreKept` (`[]CooldownKept`). What is due was computed before the awaits of
  the rules ahead of it, so the invariant is about who waits: the rules waiting in the
  sweep are past their cooldown, each once, and no event touches them; those waiting
  behind an event's first rule are not alone on that event. A rule fired by one worker
  is therefore never one that another holds.
* `InstantsFireOnce` (`[]EachInstantOnce`). `OwedInv`: an instant owed lies after the
  last sweep and belongs to a rule the sweep has read; `AllowedInv`: every instant that
  the window of the sweep under way, or of the next one, covers may still fire;
  `ClockInv`: no window is as long as a day. The lemma that carries it,
  `InstantIsCrossed`, is the one the code relies on when it looks only at the dates of
  the two ends: an instant inside a window shorter than a day is on one of them. That
  no two sweeps are a day apart is the bound of `Minute`; with a longer gap the code
  does skip the days between, as it means to.

Only model-checked:
* every liveness property: fairness and `ENABLED` are out of the prover's reach. So is
  anything that reaches a `RECURSIVE` operator (no module here declares one) and any
  induction over data.
* `TimelineAlternates` and `AwayMeansEmpty` of several people when reports come while a
  sweep works: there they are false. Of the second, run `presence_race`. Of the first, TLC
  finds it true of two people and one report inside a sweep, and false of three:
  a report that began before the sweep brings one of them back after the snapshot, the
  report inside the sweep loses them again before their re-check, and the departure queued
  behind it leaves them pending while the cache says they are out: the next sweep records a
  second departure.

Every other invariant and action property of the passing runs is stated by a theorem.

## 5. What the checks say of the code

Five runs end in a violation, each of something the repository says of itself:

* `failsafe_rearm`: disarming and arming within the 30 seconds between two checks
  leaves `iotOutageNotified` set, so an arming with the IoT down is not announced
  (`alarm.service.ts:302`).
* `presence_race`: the count of devices online and the look at `pendingLeave` in
  `markLeft` are one await apart; a scan that has just marked the phone of somebody
  else offline makes the house `away` with that person's grace not even begun
  (`presence.service.ts:291`).
* `update_clicks`: the lock is read three awaits before it is marked, so two clicks
  do launch two updaters (`update.service.ts:232`).
* `boot_wal`: a failure after the WAL of the old database was retired and before that
  database counts as applied leaves it without its WAL (`restore.ts:406`).
* `adoption`: `valoresDe` answers nothing for a disabled row and `saveDomainConfig`
  merges into what that row has, so adopting a device over a disabled integration
  replaces its devices by that one (`discovery.service.ts:212`).

Two more statements of the code are properties that no run lists, because TLC finds
them violated and the runs above say more: `ReuseMeansRotated` of `Sessions` (a logout
between the reading of a row and its claim makes the claim fail, which `refresh`
takes for reuse and answers by revoking every session of the account) and
`FailuresOfThisRead` of `IotReads` (`listFailures()` of the cache asks the composite,
whose failures a route's own reading may have replaced since the cached list was
taken).

Four promises hold with a condition that the code does not ensure. The models have the
steps that break each one, and TLC finds the counterexample as soon as the condition is taken
out of the property:

* *A change behind an outage* (`SeenIsTold`, condition `blind`). A device that does not
  answer is listed with `on: null` (`iot/unreachable.ts:33`, `shelly.iot.ts:44`,
  `kasa.iot.ts:65`). `IotWatcher.tick` writes that over the known value
  (`iot-watcher.ts:97`) and `transitions` says nothing from or to a null (`:10`), so a
  lamp that goes on, null, off is never told. The comment (`:88-90`) keeps the
  baseline of devices *missing* from a list so that a change during the outage is heard.
* *A record behind memory* (`ManagedDurable`, condition `behind`). `persistManaged`
  logs and swallows a refused upsert (`access.service.ts:220-222`), and a `findUnique`
  that throws (`:361`) ends a sweep before the persist it owes. Nothing is tried again
  until the set changes, and a restart in between forgets a rule that is in the router.
* *Half an archive* (`AllOrNothing`, `hurt` beginning with `"halved"`). The earlier
  archive is removed by a recursive, awaited `rm` (`restore.ts:132`, `:245`); a process
  that dies in it, or an `rm` that throws, leaves part of it, and the next boot asks only
  whether the directory exists (`index.ts:24`): it applies the keys of one base to the
  database of another (TLC's trace has 13 states). `docs/recovery.md:26-27` calls the
  application atomic.
* *A cut of the power* (`OldBaseIsRescuable`, `AllOrNothing` and `ComesUp`, condition
  `"cut"`). None of the copies of a restore (`restore.ts:399`, `:408`) nor the staged
  files are forced to the disk. A cut may tear the database that was put in place
  and the one kept for rescue together; after the staging was cleared (`:428`) it leaves a torn
  database and nothing to apply again, and the box restarts for ever, although
  `docs/recovery.md:27` says that it never enters a boot loop. What holds even so is that
  the restored database is never served with the WAL of the old one.

Seen while modelling, kept out of the claims by an explicit condition, and worth a
look (most are also notes of `PROJECT.json`'s hazards):

* A refused write of `alarm.state` throws before `fireActions`: the alarm is
  triggered in memory and neither siren nor audit follows, in that call or any later
  one (`TriggeredSounds` fails with `DbFails = TRUE`).
* A disarm between the assignment of `triggered` and the siren command sends its
  *off* before the *on*; and a late *off* silences the next alarm. `DisarmSilences`
  is conditioned on `overtaken`, `TriggeredSounds` asks for a sound and not for a
  lasting one.
* `setConfig` of the alarm reads, merges and writes without a lock: one of two
  patches at once is lost. The away mode reads the phase before an await and may
  restart the exit delay of an alarm armed meanwhile.
* With the alarm disarmed and every backend silent nothing is announced, although
  smoke detectors are watched always.
* A sweep that dies between the router's answer and `persistManaged` leaves a rule
  that no record names (`EveryRuleIsOwned` fails with `AgentCrashes = "anytime"`, holds with crashes between commands); an unblock
  by hand inside a window the sweep has not recorded blocks again without recording
  it (`inventory.service.ts:212`); a pause repeated while the sweep lifts the last one
  may be answered in the other order (runs keep pauses out of `access_owned`); a first
  sweep longer than a minute overlaps the periodic one (`SlowBoot`).
* `POST /rescan` does not join the scan that is running: both read a row before
  either writes it and both announce the device. They may also announce it not at
  all: a scan that read "online" before the other marked the phone offline writes it
  online again without an event, and a person with two devices stays stored as
  away, one of them online, until their next departure (`PresenceFollowsSignal` fails
  with two scanners and two devices of one person, and with three scanners and one).
* Everybody leaves or returns while the agent is down: `reconcile` corrects the
  timeline and leaves the mode, which is why `source` distinguishes a mode set
  before this process. A crash also forgets the pending departures, and a house that
  stays empty may stay `home`: `EmptyHouseGoesAway` ends its claim at a restart.
* An administrator's reset of a password revokes the sessions there are; a refresh
  that has claimed its token gets its child afterwards (`users.service.ts:171`).
* A poll in flight while an `iot-set` is obeyed applies its older list over what the
  command made known, and the change is published again, without its origin
  (`iot-watcher.ts:120`); the effects of scenes have no origin at all. The second
  rule of an event fires inside its cooldown when two such events are in flight
  (`CooldownKept` speaks of rules alone on their event).
* A list in flight while a command is answered is kept for its five seconds although
  it is older than the command (`device-cache.ts:90`).
* Two savings of the IoT integrations at once both read the row before either
  writes: the backend that the first added is lost (`save-domain-config.ts:27`).
* A rollback that fails after `stop` leaves the service stopped and reports
  `rolledBack: true`; a power cut between its checkout and its copy leaves old code
  over a migrated database, which refuses to boot; a cancelled or very long update
  runs on beside its successor, over one snapshot file. `forced` excludes the last
  from the properties of `Update`, and nothing else.
* Two uploads of a restore at once share the directory `.incoming`.

## 6. Not modelled

Formats, wording, audit details, sockets and who may call what; the lights of the
alarm (they follow the siren); person schedules as such (`Access` sees windows that
open and close); the maintenance window and the release check of an update (a
request is refused or not); recycled process ids (such a lock is freed by its age);
the encryption of secrets, and what is in an IoT list beyond the backends it lacks.

The components marked so in section 1, with the reason in `PROJECT.json`:

* *Tick loop, lockouts, shutdown*: flags and counters read and written without an
  await between; an assumption of the modules (no sweep overlaps itself), not a thing
  that can interleave.
* *Automatic backup*: single flight and pruning over an hourly window; the archive is
  data. The next thing worth a module.
* *Schedules, pauses and solar times* as functions of the clock: pure functions with
  tests of their own; `Access` and `Automations` take what they answer.
* *Drivers, transports, WebAuthn, TLS, crypto*: protocols of others; seen from their
  callers as commands that are obeyed, refused or late.
* *CRUD modules, reports, the web client, types, scripts*: no behaviour in time beyond
  one statement. They are most of the repository's lines: the client and its
  translations, the drivers and the route schemas are nine lines in ten, which is why
  the share of all lines that the models cover stays low while it is two lines in
  five of the files they are about.

## 7. Plan

1. `AutoBackup` with `TickLoop`: single flight against pruning.
2. `Home`: `Presence` and `Alarm` composed over the mode and the bus.
3. `Windows`: schedule evaluation over midnight and weekdays as functions of the
   minute, against a definition by enumeration.
4. `Commands`: scenes and groups over the composite, one device of many failing.

## 8. Running

    tlc -workers 2 -config Alarm_works.cfg MCAlarmFailSafe.tla   # PROJECT.json names each run's module
    tlapm Alarm_proofs.tla                                       # and the other *_proofs

A run takes one to three minutes, a proof module about as long (`Presence_proofs`: eight).
