# Verification of grok-box-setup

`grokfleet` (src/fleet) is the brain of a small fleet of boxes.  It runs on one VPS, keeps its state in a SQLite
store, and reaches every box over a reverse ssh tunnel.  Two programs write the store: a reconcile *tick*, a process
started by a timer every five minutes, and the *API server*, one single-threaded process whose handlers interleave at
every `await`.  On each box `boxup` (src/boxup, a shell program) keeps the box alive and runs its jobs.  The operator
has a command line, which writes the store as well, and a terminal UI, which talks to the API.

The project models the parts of the system where those programs meet: who holds a box, what becomes of a job and of
its log, how a box becomes a member and stops being one, what a tick sees, does and says, how a release and a config
reach the fleet, what is left of the old files, and what a caller at a terminal is told.  Every safety property that a
run checks is also a theorem, for every value of the constants; liveness is model-checked.  Paths below are relative to `src/`.

## 1. The system

### Components

| component | state it keeps | operations | module |
|---|---|---|---|
| Box leases: `fleet/src/store/leases.ts`, `serve/lease-handlers.ts`, `reconcile/lease-tick.ts` | the `leases` table; the two newest liveness labels per box in `snapshot_boxes`; the map of deferring boxes a tick holds in memory | API: acquire, renew, release.  Tick: prune, expire, sweep graces, read the map, declare losses | `Leases`, `LeaseEvidence`, `BoxReservation` |
| Box eligibility: `serve/lease-eligibility.ts`, `store/snapshots.ts` | none (pure), over rows, leases, jobs and the latest snapshot | `ineligibleReason`, `chooseBox`, the reasons of a refusal | `Placement` |
| Jobs, brain side: `store/jobs.ts`, `jobs.ts`, `serve/job-handlers.ts`, `reconcile/job-tick.ts` | the `jobs` table; the alert throttle; the log mirrors | API: create, stop, refresh, log.  Tick: the poll pass | `JobPlane`, `JobLog` |
| Jobs, box side: `boxup`, the `jobs_*` functions | `/workspace/boxup/jobs/<id>` (durable), `/run/boxup/jobs/<id>` and `/run/boxup/job-slot` (gone after an image swap), the process groups | `job start`, `stop`, `status`, `logs`; the wrapper; the guard's `supervise` pass and its bound on logs | `BoxJobs`, `JobRestart`, `JobLog` |
| Command line, `lease run` and `job run`: `commands/lease.ts`, `commands/job.ts` | a lease or a job held while a command runs | renew, poll, signals, release; wait, print, interrupt | `LeaseRun`, `JobLog` |
| Enrol, retire, rename: `commands/enroll.ts`, `enroll-wiring.ts`, `retire.ts`, `rename.ts`, `store/state.ts` | box rows, `authorized_keys`, the map, the box's own files | multi-step sagas over the store, the VPS and the box | `Membership` |
| Discovery, adoption, repair: `reconcile/discover.ts`, `discover-wiring.ts` | ledger of failures, repair markers, API backoff | the adopt pass, the repair pass, the one enrolment slot | `Discover` |
| Reconcile tick: `reconcile/run.ts`, `decide.ts`, `observe.ts`, `alerts.ts` | per-box counters, markers, alert windows | observe, decide, act, record, page | `BoxPass`; its fleet-wide passes in `FleetPasses`, `Leases`, `JobPlane`, `Discover` |
| Upgrade engine and rollout: `upgrade.ts`, `actions/rollout.ts`, `remote.ts` | none between passes: the boxes' versions | canary, fleet, verify, abort | `FleetPasses` |
| Managed config: `actions/config-pass.ts`, `config-push.ts`, `managed/*` | the rendered file on each box, a count of failures | choose a canary, push, count | `FleetPasses` |
| Auth keys: `actions/mint.ts`, `rotate.ts`, `reconcile/tailscale-keys.ts`, `seed-remote.ts` | the keys at Tailscale, `secrets/ts-authkey` on the box, the `box_keys` row | tick: mint, rotate.  API: rotate-key.  CLI: mint-key, forget-key.  Enrol: rebind | `AuthKeys` |
| Legacy files, divergence, backup: `store/legacy.ts`, `divergence.ts`, `backup.ts`, `commands/state.ts` | exports beside the store, backups, findings, the integrity flag | import, export, compare, check, back up, restore | `StoreFiles` |
| Reconcile lock, job registry, API server: `serve/lock.ts`, `serve/jobs.ts`, `serve/handlers.ts`, `serve/server.ts` | the promise chain, flock, the registry of the reconcile job, the audit id | wait, refuse, run, settle, restart | `ApiServer` |
| Terminal UI: `tui/*` | a reducer over keys and API answers | table, views, modals | `Terminal` |
| Store, schema, snapshots: `store/db.ts`, `schema.ts`, `snapshots.ts` | the SQLite file | transactions, migrations | transactions are atomic steps; constraints are part of the modules that write the tables |
| Host keys, tunnel client, runner: `hostkey.ts`, `tunnel.ts`, `runner.ts` | pinned keys | build and run one ssh | only what a caller sees: sent, served or not, answered or not |
| Box convergence: the rest of `boxup` | the stamps and counters of `RUN_DIR`, the converge lock, the worker, tailscaled, the ssh of the tunnel | the worker's tick, `once`, `up`, `ensure`, `tick`, `stop`; recycle, login, repair; adopt or respawn the tunnel | `BoxWorker`, `BoxTunnel` |
| Installers: `vps/install-vps.sh`, `box-bootstrap.sh`, `install.sh` | none | one-shot scripts | not modelled: pure I/O |

### How they interact

* The API, the tick and the command line share only the store, the lock file and the legacy files.  Leases and jobs
  need no lock between the programs: the lease code relies on one partial unique index, the job code on unconditional
  `UPDATE`s by primary key.  Everything a program read before it writes may be stale by then.
* `reconcile.lock` is held by a tick and by an API mutation for their length.  `retire`, `rename` and the `state`
  commands only *probe* it: they wait until it is free and let it go.  The CLI's `enroll`, `mint-key` and `forget-key`
  do not ask.
* The brain reaches a box by single ssh commands (`boxup job start | stop | status | log`, `check`, `install`) with a
  timeout.  A timeout does not say whether the command ran; an installer is detached and may end after its pass.
* A job may take a lease of its own or use its caller's.  A lease makes the tick leave its box alone (no rollout, no
  config push); a lease that is lost or expired goes on doing so for a grace.
* A mint is four calls to two other systems (Tailscale, the box) and one row; each may fail alone.  An enrolment is five
  stages over the VPS, the box and the store, each recorded in the row so that a later tick can resume.
* Every write of membership ends with an export to the files that 5.7.1 reads; the tick compares them first.
* On the box nothing is shared but files.  A start, a stop, a guard's pass and a wrapper are separate processes; the
  one slot is a directory made with `mkdir`, and it may be broken by whoever finds that its owner cannot exist.
* An image swap ends every process and clears `/run`; `/workspace` survives.
* The terminal polls on a timer and sends actions; no request waits for another and none carries a number.

### Hard behaviours and what must hold

| where | what makes it hard | what must hold |
|---|---|---|
| leases | two acquires on one box; a tick that writes rows selected earlier while the API releases them; a tick that dies or loses its snapshot; graces and caps | one holder per box; a lease that gave its box back never takes it again; only the holder or an ended grace frees a box; a running tick does not write to a box leased before it started; losses rest on two consecutive ticks |
| placement | a snapshot that is older than the rows, leases and jobs it is judged with | a refusal's reasons answer what the caller would ask next |
| jobs, brain | three programs and two asynchronous answers about the same row; crashes between row, ssh and reply | rows never invent an ending; no record on a box without a row; every run closes; the job's lease returns, the caller's is left alone |
| jobs, box | swaps and kills between any two steps; the guard beside a stop; pids reused; stale slots; two sets of backoff constants | one command at a time; stopped stays stopped; a service returns; the cutoff is what its constants say |
| box convergence | ticks and commands over one lock, bodies killed or wedged between two commands, boxes that sleep, tunnels started by others | a healthy daemon is not killed, recycles and logins keep their distance, the node and its tunnel come back |
| job logs | a file emptied at one end and mirrored at the other, by polls without a lock | markers tell what was lost; the tail is printed |
| wrappers | renewals, polls, expiry and signals in any order | the lease lives while the command does, goes back after it, and its loss is noticed |
| membership | two names of one port; a killed saga, a re-image, a tick that read the rows before | a retired key opens nothing; parked stays parked; renaming keeps the member; half-enrolled rows settle; members dial again |
| discovery | one slot and one budget for three kinds of work, slow and failing boxes | nothing that can be done starves behind what cannot |
| pages | windows, streaks and markers kept between ticks; killed ticks, lost pages | a new spell is not silenced by an old one's window; healthy is clean |
| rollout, config | a release between probe and deploy, broken releases, installers that outlive their pass | a pass breaks one box at most; the last release and config arrive |
| auth keys | a key exists in three places that no transaction spans; a call that failed may have taken effect; three programs, one of them without the lock | the recorded key exists; the key a rotation deletes is not the box's; no working key is forgotten without a fault; a reachable box gets back on the tailnet |
| store and files | two representations, one reader of each; exports that fail half-way; damage, restore, roll-back to 5.7.1 | a quiet tick means a rollback is safe; nothing foreign is overwritten unreported; recovery material stays |
| API | callers that give up in a chain of waiters; a job whose id is a shared variable | giving up blocks nobody; one worker; the audit names its job |
| terminal | rows that move under the cursor and under an open confirmation; answers in any order | what was confirmed is what is done; the selection stays on its box; no view waits for ever |

The hazards, each with its line and the properties that watch it, are listed in `PROJECT.json`.

## 2. Plan

The order of work was: leases and jobs with their box side and the keys; membership and discovery; the tick's pass over
one box and its passes over the fleet; the store's files; the API server and the terminal; placement and the two
wrappers; the box's convergence.  All of that is done.  What is left, most valuable first:

1. `MembershipProofs` and the theorems of `BoxJobs` without their assumption need weaker properties first, because with
   it dropped those are false (section 6).
2. For `BoxJobs`, the one-box record machine that `JobPlane` assumes as its abstract specification.

Compositions: `LeaseEvidence` extends `Leases`; `JobPlane` holds the box of `BoxJobs` as an atomic record and the lease
of `Leases` as one holder; `LeaseRun` holds the row of `Leases` as its holder meets it; `Discover` takes an enrolment as
one step, `Membership` has its steps.  `MCStore`, `MCBox`, `MCTick`, `MCConsole`, `MCClients` and `MCBoxup` check modules that
share no variable in one run each: a behaviour belongs to one of them and leaves the others where they began.
`MCMembership` fixes which of two interchangeable keypairs the box begins with.

Every module that is proved about takes its parameters as CONSTANTS with named assumptions, has one action per
operation, states invariants as conjunctions of named parts, and reaches no RECURSIVE operator.

## 3. Modules and code

### Leases

One unit of `clock` is longer than any handler and any store call, and shorter than a grace.  `rows` is the table
(`Pruned` stands for a deleted row), `snap` and `snapAge` what `lastTwoObserved` can read, `api` what each open
request has read and not yet written, and `pc`, `tickNow`, `todo`, `deferring`, `observed`, `written` the memory of the
tick process.

| action | code |
|---|---|
| `AcquireRead`, `AcquireInsert` | `handleAcquire`: reads the open leases and facts, chooses, INSERTs; the partial unique index answers 409 |
| `RenewRead`, `RenewWrite`; `ReleaseRead`, `ReleaseWrite` | `renewLease`, `releaseLease`: a SELECT, then an UPDATE by id |
| `StartTick` | `runReconcile`'s beginning: ordinal, `pruneLeases`, one `nowS` |
| `ExpireSelect`, `ExpireOne`, `SweepSelect`, `SweepOne`, `ReadDeferring` | `LeaseTick.begin` |
| `Observe`, `WriteBox` | the per-box loop: a label per box; rollout and config push on boxes outside the map |
| `LossSelect`, `LossOne`, `LossDone` | `detectLoss`: mark, notify, next |
| `EndTick`, `TickFails` | the best-effort snapshot; a tick that dies or whose snapshot is not written |

The reads and the write of a handler run in one turn of the API process, so only *other processes* come between them:
the tick everywhere, and in `store` a second writer, which is what `handleAcquire`'s own 409 branch
("another acquire won the race between our eligibility read and our INSERT") is there for.  A turn is short, so no
time passes inside it (`Advance`).

`LeaseEvidence` adds a history variable that records what the last tick saw, to say which evidence a loss rests on.

`BoxReservation` is the abstract promise: one slot per box, taken when free, given back once.  `Leases` implements it
with `slot` = the deferring lease of a box and `over` = rows that exist, or were pruned, and do not defer.

### JobPlane

One box, many jobs.  `rows` is the jobs table, `holder` whose lease defers the box, `box` the job's record in the
terms of `boxup job status`, `call` what each handler or the poll pass is in the middle of.  An ssh is three steps:
sent, served by the box (`BoxStarts`, `BoxStops`, `BoxAnswers`) and its answer used (`CreateReply`, `StopReply`,
`PollWrite`).  The API is one thread: `Turn` lets no other handler run while one is between two awaits.

`CreateLease` and `CreateRow` are the two halves of `handleJobCreate` before its ssh, `Finish` is the closing of a job
shared by handlers and tick (release the job's own lease, ask the throttle, notify), `LoseDue` is a box that left the
fleet.  The box side is the world: commands end, the guard restarts or gives up, a swap, a forgotten record.

Abstractions: a call that failed has been served by then or never is (the ssh is killed on timeout, and `boxup`'s
commands end with their session); order within the poll queue is any order; the notification's text is left out.

### BoxJobs

`rec` is the durable record (`rc`, the stop flag, `pgid`), `marker` the pid file under `/run`, `slot` the one slot
(`blank` between its `mkdir` and the write of its id), `wrap` and `child` the processes: a process id is the wrapper
of a job from `spawned` (forked, not yet exec'ed, invisible to the /proc scan) to `recorded`, and leads the group its
command runs in.  `cmd` is the place of each shell command, one action per file operation or signal.

| actions | code in `boxup` |
|---|---|
| `SlotCheck`, `SlotBreak`, `SlotTake`, `SlotName` | the slot's claim, `jobs_slot_held`, break and second `mkdir` |
| `Start`, `StartRecord`, `Launch` | `jobs_cmd_start`, `spawn_detached` |
| `Stop`, `StopTerm`, `StopWait`, `StopRecord`, `StopRelease` | `jobs_cmd_stop` |
| `GuardPass`, `GuardLook`, `GuardScan`, `GuardClaim`, `GuardDone` | `jobs_supervise`, `jobs_restart_one` |
| `WrapperUp`, `WrapperRuns`, `CommandEnds`, `WrapperRecords`, `WrapperReleases` | `job-wrapper` |
| `ImageSwap`, `Dies`, `Killed` | swap; a group killed by the kernel; a command or a pass killed half-way |

`Overlap` is a constant of the instance.  `"none"` lets a command or a pass begin only when no other is under way and
the last wrapper has planted its marker; `"stop"` lets the guard's pass run beside a stop; `"all"` lets everything
overlap, as the code does.  The run uses the first; section 6 says what happens under
the others.

Abstractions: a signal to a group ends all of it at once; a failed write of the record, the log, pruning and `status`
are left out; every service is one that a swap restarts (`restart_on_swap` = 1); backoff and crashloop are in
`JobRestart`, so here the guard restarts a dead service in any pass.  `MCBox` puts the two beside each other: `half` is
`runner` or `counter`.

### JobRestart

`jobs_restart_one`'s counter file: `n` restarts, the ages of the first and the last of them, and the ladder
`refresh_backoff_window` (`MIN_INTERVAL`, 60, 180, 600 s).  Times are ages, capped at 600 s, the widest window the
code compares with; a swap clears the file.

### AuthKeys

One box.  `born` and `live` are the keys at Tailscale, `boxKey` is `secrets/ts-authkey`, `rec` the row's key id, `bound`
says that the box's tunnel key is the one on file (the tunnel is up), `online` that the box is on the tailnet, and
`op[p]` where each program is in `mintKey` or `rotate`: the key it has made, the one it is to delete, and for the tick
whether its rotation is still to come.

| action | code |
|---|---|
| `TickStart`, `ApiRotate`, `CliMint` | `decide` rows a and c behind the mint-window guard; `handleRotate`; `cmdMintKey` |
| `Create`, `CreateFails` | `createKey` and its three refusals; a lost answer leaves a key behind |
| `Seed`, `SeedFails` | the remote script; it may fail before or after its `mv` |
| `Verify`, `VerifyFails` | status and read-back of the expiry day, then `recordKey` (no await between them) |
| `Revoke`, `RevokeFails`, `RevokeOld` | `revokeMintedKey`, which latches the run when it fails; `rotate`'s last call, which does not |
| `NodeLost`, `Rejoin`, `Reimage` | the box: node state lost, `tailscale up` with the key file, a new image |
| `Rebind`, `ForgetKey`, `Crash`, `TimePasses` | an enrol with a new tunnel key; `state forget-key --force`; a program that dies; expiry |

Abstractions: a key's number is used again once nothing refers to the key and it no longer works; time is in units of
which a key lives `Life`, and the brain rotates at `Window`; what happens in one mint takes no time.  `keyStale` is
never true here, because `Rebind` deletes the row in the transaction that dates the binding, and rows imported from the
legacy files are not modelled.  What `mint-key` of the CLI records is the legacy file, so `rec` stays.  Dry runs, the
host-key deferral are left out; the seed-failure alert is in `BoxPass`.

### Membership

One index of the fleet under two names, `Old` and `New`, hence one port.  `rows` are the box rows, `lines` the keys with
an `authorized_keys` line for the port, `map` the rows of `authorized-keys.map`, `machine` the box (its name, keypair,
whether it has the VPS's key and the `[fleet]` block, whether its tunnel is up), `sagas` where the operator's and the
tick's enrolments are, `tick` the membership the tick read and its one slot, `retire` and `rename` where those are.

| actions | code |
|---|---|
| `EnrollByHand`, `TickEnrols` | `beginEnrol`, from the command or from the adopt, resume and repair passes |
| `InstallLine`, `RecordMapping`, `InstallBoxKey`, `WriteConfig`, `RecordEnrolled` | the five stages of `enroll-wiring.ts`, each with `advanceStage` |
| `Abandon` | a stage fails or meets its abort point, or the program is killed; the row keeps its stage |
| `TickStart`, `TickEnd` | membership read once; the slot given back |
| `RetireStart`, `RetireLines`, `RetireStore` | `cmdRetire`: lines first, row last; `--forget` deletes the row |
| `RenameStart`, `RenameCopy`, `RenameBox`, `RenameDelete`, `RenameAborts` | `cmdRename`: copy first, delete last |
| `GiveUp`, `Reimage`, `Dial`, `TunnelDrops` | a killed command; a new image with a new keypair; the box's tunnel |

`Disturbed` is a constant of the instance: with `TRUE` other programs start while a retire or a rename runs, as the lock
probe lets them; the run has `FALSE`, and section 6 says what the other breaks.  Failure streaks and backoff are in
`Discover`, the lease check of `retire` in `Leases`.

### Discover

What `discoverPass` and `repairPass` do in a tick.  A name is a candidate, an enrolling row or a member (`kind`), and
`nature` says what a probe, an inspection or an enrolment of it finds: it can be done, fails, is slow, answers another
name, is coherent, or is fine.  `queue` holds the enrolling rows oldest first, `streak` and `paged` the failed stages
and the `enrol-stuck` page, `marker` the `repair_pending` runs, `ledger` the failures with their ages, `api` the backoff
of the device list, `odd` the parity that swaps repair and resume, `t` the tick that runs with what it has spent.

`TickStart` reads the devices and makes the adopt pass's queue, `Adopt` takes one candidate, `LoopEnds` is the
membership loop between the passes (it stamps the markers), `Repair` and `Resume` take one row each, `Finish` writes the
ledger back, pruned; `Killed` loses it.  `Breaks` makes a healthy member one of the others.  Times are in units of 10 s,
the unit in which the budget can be told apart: a pool of 6, a half of it for each pass, and a probe that starts only
when 2 still fit.

### BoxPass

`reconcile_one` for one box.  One tick is one step: it takes a *view*, any combination of what can be read of the box
(tunnel, `boxup check` and the probe behind a failed one, the device list, drift, and the report's disk, wedges,
keep-awake and failing repair), and runs to its end, or dies while reading (`DiesReading`) or behind the conditions
(`DiesJudging`).  `brain` is what the store keeps: what is left of each alert's window, the asleep timer, the counters
and the markers.  A step follows the code's order: check, host-key marker, re-arming, `Judged` (conditions), `Pending`,
`Bumped`, then the actions and their pages.  `focus` fixes which part of a view varies in a behaviour, so that the
histories stay small.  `told`, `owed` and `missed` are histories: ticks since the last page of the present spell, ticks
in a row that saw the kind, pages that did not arrive.

### FleetPasses

The two passes behind the loop.  `nature` says which boxes the first release breaks, whether a broken box's version can
be read, which box takes no install, and which canary the config pass is given.

| actions | code |
|---|---|
| `TickStart`, `NoRollout` | the loop: who is up, leased, drifted; no rollout without drift or with a leased canary |
| `EngineStart`, `Upgrade`, `Deploy`, `Deployed` | `upgrade.ts`: probe again, canary first, one box after the other, the first failure ends the pass; `grokfleet upgrade --all --apply` |
| `Land` | a detached installer that ends after the pass gave it up |
| `ConfigStart`, `Push`, `TickEnds` | `config-pass.ts`: the canary's choice, the skips, the return codes 0, 4, 5 and 6 |
| `Release`, `Edit`, `TickDies` | a new `origin/main`; an edit of `fleet.toml`; a killed tick |

A deploy has three outcomes: it lands and is verified or not; nothing landed; no DONE in time and it lands later.
A pass's queue is the set of boxes still to take, and `First` the one it takes next.
Rendering and validation of the config are one verdict per box.  `MCTick` checks `BoxPass` and `FleetPasses` in one run.

### StoreFiles

`store` is what the database says of membership, keys, findings and the integrity flag, `files` what 5.7.1 would read,
`backups` the kept copies, `engine` which program is installed, `prog` where the tick and the operator's command are.

| actions | code |
|---|---|
| `ReadRows`, `WriteTsv`, `WriteMap`, `WriteKeys` | `exportLegacy` step by step; each write may fail, which is recorded and skips the rest |
| `TickOpen`, `ResetLegacyFiles` | the import at the first open, then the counters' files; the halt rule (rc 3) |
| `CheckDivergence`, `TickWork`, `Maintain`, `TickFinish` | findings with their agreement; membership changes of a tick; the daily check and backup; the exit code |
| `CliRetire`, `CliEnrol`, `CliForgetKey`, `CliImport`, `CliReconcile`, `CliApply`, `CliCheck`, `CliClear`, `CliBackup`, `CliRestore` | the commands that write the store |
| `Rollback`, `OldEngine`, `Forward` | 5.7.1 put back, enrolling or retiring by the files alone, and replaced again |
| `Killed`, `Damage`, `Recovered`, `MendFile`, `NextDay` | faults and the operator's hands |

`MCStore` checks `LeaseEvidence` and `StoreFiles` in one run.

### ApiServer

A caller is a request or a reconcile job.  `gate` is the place of its unreleased gate in the promise chain of
`AsyncMutex`, `flock` the holder of `reconcile.lock`, `running`, `known` and `minted` the registry, `current` the
module's `currentJobId`, `audit` the lines written.  `Mutate` and `Reconcile` are the handlers up to their wait,
`Acquired` and `FlockTaken` the two waits, `LockBusy` the budget running out in either, `Operated` the operation's end,
`JobSettles` the job's closure, `TimerTakes` and `TimerEnds` the timer's tick, `Restart` a new process.  The operations
themselves are in the modules of what they change.

### Terminal

`world` is the fleet as the API would answer now, `net` the sequence of the requests in flight, each with the answer it was given,
`tab`, `view`, `pane` and `modal` the reducer's state, `loaded` the ref by which `app.tsx` decides whether a detail is
to be fetched.  Every key of the table, of a view and of a confirmation is an action (`Move`, `Filter`, `ToggleFree`,
`Refresh`, `OpenView`, `Check`, `OpenModal`; `CloseView`, `Reload`, `MoveCursor`, `OpenLog`, `StopJob`; `Cancel`, `Type`,
`OtherField`, `Confirm`), and every answer (`FleetAnswer`, `DetailAnswer`, `ViewAnswer`, `ActionAnswer`), which may land in
any order or fail.  `Becomes` is the place where a key or an answer leaves the table and the effects it asks for.  A
row is a rank: `Row` of a box is how many listed boxes the API names before it, `Chosen` the listed box whose row is the
selected index, so the index and the name can come apart as they can in the code.  The windows of `layout.ts` are operators
over the height.  Two handlings that share everything but a payload are one value:
the journal goes the way of the diff, rotate-key the way of config-push.  `MCConsole` checks `ApiServer` and `Terminal`
in one run.

### Placement

`Reason` is `ineligibleReason`, in the order of its arms; `Chosen` is `chooseBox`; `Explained` the boxes a refusal lists.
The state is what they read: row phases, the latest snapshot with its age, deferring leases and live jobs, all of which
move between a snapshot and a request (`TakeLease`, `PlaceJob`, `JobUnderLease`, `LeaseMoves`, `JobCloses`, `PhaseMoves`,
`Snapshot`, `Ages`).  Versions are numbers; the order of version strings is left to their parser.

### LeaseRun

`grokfleet lease run`.  The clock counts the timer's periods of 30 s; two calls of at most 8 s fit in one, so a beat
(`Renew`, then `Poll`) is over before the next.  `row` is the lease as a holder meets it, `run` the wrapper's memory,
`delete` the one DELETE, which is sent by `CommandEnds` or by a `Signal`, whichever comes first.  `Exit` prints the
envelope.  `Expires`, `IsLost` and `GraceEnds` are the tick's.  A call may fail with or without having taken effect.

### JobLog

The three sites of a log.  The box: `Write`, `JobEnds`, and the guard's `Measure`, `Empty`, `Count`
(`disk_truncate_one`, `jobs_record_truncation`).  The mirror: `PollBegins`, `Status`, `Fetch` of `pollJob`, by the tick
and by any `?refresh=1`, with no lock across its two calls.  The terminal: `Answered`, `Drain`, `Awakes`, `Interrupt` of
`waitAndStream`.  Bytes are numbered in the order written, and a marker line of the mirror is 0; `seen` is a history of
what the markers told and of whether two polls, or a poll and a truncation, crossed.  `Mirrored` are the bytes the mirror
has, `Missing` those that were emptied and are not among them.  `MCClients` checks `Placement`,
`LeaseRun` and `JobLog` in one run.

### BoxTunnel

`kind`, `link` and `born` are the ssh processes of the box (`tunnel` has our argv, port and key; `old` is one of the
former index; `foreign` some other `-R`; `other` anything), `holder` who has the port on the VPS, `Ghost` a session whose
client is gone.  `pidfile`, `fails` and `since` are `tunnel.pid`, `fail.tunnel` and the age of `last-tunnel`; `tries` and
`gap` are history.  A pass of `supervise_tunnel` is `Scan`, `Term`, `Sweep`, `Adopt` when there are candidates, and
`Look`, `Stamp`, `Count`, `Spawn`, `Record` when there are none; it may be killed after any of them, and what it has
spawned lives on.  `ensure_tunnel_key` is taken to succeed, and a new process gets the least number that is free (`NextPid`), so that
numbers are used again at once.

### BoxWorker

Two bodies run: the worker's tick and one command.  Each is a list of stations that it works off (`prog`), so that
`do_ensure_body` is the same two stations in a command, in a recycle and in a tick's repair.

| station | code |
|---|---|
| `wait`, `release` | `do_ensure`: up to 60 s for the converge lock, never without it |
| `guards` | `run_tick`: the lock, or a heartbeat and the end |
| `checks`, `offline` | `maybe_wake_recycle`, `recycle_offline_tailscaled` |
| `kill`, `forget`, `start`, `login` | `recycle_tailscaled`; the last two also `do_ensure_body` |
| `up` | the `tailscale up` of `ensure_login` |
| `beat`, `check`, `recheck`, `end` | the rest of `do_tick`: heartbeat, `check_reason`, `tick_handle_reason`, heartbeat |
| `restart` | `start_daemon`: all workers go, with their ticks, and one comes |

`Wake`, `Deadline` and `Stop` are the loop, `run_tick_bounded` and `stop_daemon`.  `d` is tailscaled as it would answer:
absent, starting, mute (hung or `NoState`), live, stale (dead but still green), offline, in need of a login; `known` says
whether the control plane knows the node.  `age` holds the stamps of `RUN_DIR`, and as history the last kill and the last
`up`.  A process younger than `FREEZE_SECS` spares a node that shows no freeze: how old the process is, and what the
daemon's log tells of time jumps, is a free choice in `Checks`.  `sick` stands for every predicate of `check_reason` that
is neither the daemon's nor the worker's.  `MCBoxup` checks `BoxTunnel` and `BoxWorker` in
one run.

## 4. Runs

| run | checks | shows |
|---|---|---|
| `store` | `ReservationSpec`, `TickFreesOnlyAfterGrace`, `HonouredByNextTick`, `LossNeedsTwoTicks`, `QuietMeansSafe`, `NothingLost` | two racing requests and a tick that dies or leaves no row: the table implements the box reservation, a tick frees a box only by an ended grace and honours every lease that was there when it started, a loss by `unhealthy` needs two adjacent recorded ticks; a quiet tick's file names the members, a tick reports a foreign row before it overwrites it, and no backup is touched while the database is damaged |
| `leases_live` | `ExpiredEventuallyFree` | an expired lease stops deferring although one tick dies |
| `jobs_core` | `RowsAgree`, `CallersLeaseOutlivesJob` | stale polls never make a row claim an ending the box did not record, nothing on the box is without a row; a caller's lease is left alone |
| `jobs_live` | `EveryRunCloses`, `OwnLeaseReturns` | every run closes over a crash, a failed ssh, a swap and a retired box; while no program dies its lease returns |
| `box_jobs` | `OneCommandPerBox`, `StoppedStaysDown`, `CutoffUnreached`, `ServiceReturns` | the runner's promises over swaps and kills at every step; the ladder keeps the restart count at three |
| `auth_keys` | `LeaksAccounted`, `KeyComesBack` | forgotten live keys are no more than the faults, crashes and operator's steps; a reachable box gets back, except when it holds a revoked key under a fresh row |
| `membership` | `RetiredIsUntrusted`, `OnlyOperatorsRevive`, `RenameKeepsMember`, `EnrollingSettles`, `MemberDialsAgain` | sagas of two names over failed stages, kills and re-images: no line for a retired port, no tick revives a parked row, a rename keeps its member, rows settle, members dial again |
| `discover` | `CandidateJoins`, `RowsSettle`, `MemberRepaired` | three names of every kind and nature share the slot and the budget: what can be done is done, but for the cases the properties name; a row that fails every time is paged |
| `tick` | `AlertsTrue`, `OnePassOneBreak`, `RolledOut`, `ConfigArrives` | a new spell is told of whatever window an old one opened, and healthy rows stand on clean markers; one pass breaks one box, and the last release and config arrive where nothing named holds them back |
| `console` | `MutexDrains`, `ScreenIsTrue`, `ActsOnChoice` | waits that run out hold nobody up; the terminal does what was confirmed, keeps its selection, serves its views and paints the row its keys act on |
| `clients` | `RefusalTellsAll`, `LeaseGivenBack`, `NotBlind`, `LogTold`, `KeptAlive` | a refusal answers the request by name; `lease run` renews, notices and gives back; the mirror's markers tell what was lost and the tail is printed |
| `boxup` | `BoxReturns`, `SpawnsBraked`, `Restrained` | whatever is killed, cut, closed, wedged, swapped, deleted or slept through, the box ends with one tunnel that holds its port and is named by its files, and a node on the tailnet; spawns are as far apart as the ladder says; ticks, commands and killed bodies together recycle and log in no oftener than the floors allow, and a long converge is not taken for a freeze |

Four properties are conjunctions of the parts defined above them: `Restrained` of `RecyclesSpaced`, `LoginsSpaced` and
`JumpMeansAsleep`, `ActsOnChoice` of `ConfirmedTarget` and `SelectionFollows`, `NothingLost` of `TickTellsFirst` and
`RecoveryKept`, `LogTold` of `MirrorAccounts` and `TailPrinted`.

Every property has a mutant of the code in `PROJECT.json` that violates it under the same bounds.

### Bounds, and why they are enough

* Leases: one box, because no statement or predicate relates two boxes except the map of deferring boxes, and the
  index is per box (the proofs cover any number).  Two leases suffice for a box to be freed and leased again under a
  tick's hands, and two requests for a race.  `store` has `MaxClock` 2 with graces of 1 and 2 and TTL 1: room to
  expire or lose a lease, end its grace and prune it; one tick dies or leaves no snapshot row, anywhere.  Its labels are
  `healthy` and `unhealthy`, which loses after two ticks; `leases_live` has `asleep`, which loses at once.  The number of
  ticks is not bounded.  `MCStore` adds that a behaviour has one complication (a lapse, a race, a dead tick) at a time, and
  that days and changes of the files together stay within `MaxMoves`.
* Jobs: two jobs, one of them a service, so that one's end and the other's start meet; one handler besides the tick,
  because what matters is one writer whose answer is older than another's.  `jobs_core` has no fault but lapsed leases
  and swaps; `jobs_live` allows one crash and one failed call anywhere.  Each alert is throttled for 24 h, longer than
  a behaviour here.
* Box: a service and two runs share one slot; two pids, so that every restart reuses one; one swap and two kills at any
  step.  The restart counter moves in steps of 20 s, which divide every constant of the ladder and the cutoff's window;
  ages stop at 600 s.  The theorem has no such bound.
* Auth keys: one expiry (`Life` 2, `Window` 1, `MaxClock` 2), so that a key is made, ages and lapses; one failed call,
  one crash, one rotate-key request and one step that leaves a working key behind on purpose, each anywhere, and three of
  these causes in one behaviour at most (`MaxEvents`).  Seven keys
  are enough that no create is ever refused for want of one.
* Membership: two names are what a rename and a port have; two keypairs make a re-image visible, and the box begins with
  one of them, since the other is the same behaviour with the two exchanged; one fault (a failed stage, a kill or a
  re-image) at any step.
* Discovery: three names give each kind of work a rival of either other kind; backoff is capped at 3 ticks for 12, the
  ledger is pruned after 4 for 288 and holds 3 records; one fault.  A failure count that has reached the cap is not told
  from a higher one, and a behaviour begins with candidates and members: enrolling rows are what the ticks make of them.
  The number of ticks is not bounded.  The cap must exceed the number of rivals: with a cap of 2, two enrolling rows that
  fail every time wake by turns and the candidate behind them never gets the slot, as twelve such rows would do in the
  code.
* Tick: the window is 3 ticks, asleep is due after 2, so that a spell may be shorter or longer than either; one killed
  tick or lost page.  Three boxes with the canary in the middle of the order, so that a box is before and one behind it;
  the config canary is free or fixed to the last box; two releases; one mishap (a box down or leased for a tick, a
  failed step, an edit, an operator's upgrade, a killed tick).
* Store and files: two boxes (one in the store and one only in the file is the least that shows a loss), one backup
  kept over two days, so that the second day's replaces the first's; any three changes, commands or faults; ticks are free.
* Console: three requests and two jobs, six gates: a waiter gives up in front of and behind another, and all may come
  again.  Two boxes, two jobs, two requests in flight (three would only add a stale answer to a stale answer), one change
  of the fleet, regions of one to three rows, filter texts that match both boxes, one or none (`Texts`).
* Clients: two boxes, one of them the canary, versions unknown and new enough, requests with at most one `require`.  A
  TTL of 6 periods with retries after 2 over 11 periods and a lifetime cap of 9: renewals, a retry, an expiry at the
  cap and one before it; four lost calls, enough for three failed polls and a failed renewal.  A
  log of four bytes,
  emptied from two, chunks of one, a mirror of two, two polls at a time, one lost call; a behaviour is followed until two of the log's readers have
  crossed (`StillClaimed`), because `LogTold` claims nothing behind that.
* Tunnel: three processes, so that a pass meets its own tunnel, a stray and one that lingers; two faults of any kind at
  any step; the ladder's last rung is the clock's cap.  The box does nothing that waits between stamp and spawn, so no
  time passes there.
* Worker: two faults of any kind at any step (a second command counts as one, as the hourly one while a worker lives
  does).  The unit is the tick's interval; `FREEZE_SECS` 60 is 2 for 4, the 30 s of `last-online` 1 for 2, the cooldown and
  the floor between logins are 2 for 8 and 120, the rungs 180 s and 600 s one rung of 2: none passes one that it is below, and the
  safety properties compare a stamp with its own window only.  Time passes where a body waits (packages, sockets,
  logins, the rest of a converge) and while it is wedged.  The box does not fall asleep between a stamp and the act that
  it announces: the act would be late and the next one nearer to it.

### Deadlock

`store`, `leases_live`, `tick`, `console`, `clients` and `boxup` check it (finite stories end in a step that stays where it is,
`LeaseRunDone` and `JobLogDone`).  `jobs_*` and `box_jobs` do not: job ids are never drawn twice and a stopped service
stays stopped, so a behaviour may end with nothing left to do.  `auth_keys` does not because its clock is bounded;
`membership` and `discover` not because a fleet at rest needs nothing more once the faults are spent.

### Fairness

* `Leases.FairSpec`: the timer starts a tick again and a tick goes on (weak fairness of `TickStep`); a handler that
  has read goes on to its write; time passes (strong, because open requests disable `Advance` again and again).
  `TickFails` is never fair.
* `JobPlane.FairSpec`: a call proceeds, by its timeout at the latest; the pass selects when there is something open; it
  does not skip one job for ever (strong fairness of polling a due job: the budget is spent in an order by last poll,
  so a skipped job comes first next time); a run's wrapper starts and its command ends, by `--timeout` at the latest.
  Nothing is assumed of services, of clients, of faults or of crashes.
* `BoxJobs.Fairness`, asked of the runner's half of `SpecBox`: a shell command and a wrapper go on; the worker's loop
  reaches its guard again and again (strong: a stream of refused starts must not keep it out under `Overlap = "none"`;
  in the code it waits for no command); the cap ends the command of a run.  A service's command may run for ever.
* `AuthKeys.FairSpec`: the timer starts a tick that has something to do; a program in the middle of a mint goes on, by
  its calls' timeouts at the latest; the box, whose passes try to join every minute, joins when its key works.  Nothing
  is assumed of requests, faults, crashes, re-images, enrols and time.
* `Membership.Fairness`: a started saga, retire or rename goes on, by its timeouts at the latest; the timer fires; a box
  dials every few seconds while its worker lives.  Strong fairness of `TickEnrols(n)` says that a name which is due
  again and again gets the slot in the end; that is not assumed of the code but is what `Discover` examines, with the
  exceptions it names.
* `Discover.FairSpec`: the timer fires and a tick goes on.  Faults are bounded, so a tick is not killed for ever.
* `MCTick.SpecTick`: weak fairness of `Brain` (the timer and the tick's own steps) and of `Land` in the fleet's half.
  The box's half has safety only.
* `MCBoxup.TunnelFairness`, the fairness of `BoxTunnel.Spec` asked of its half: the worker ticks for ever (a killed pass is a fault), an ssh ends its attempt one way or the
  other, the VPS reaps a dead session within its ClientAlive count (docs/FLEET-BRAIN.md:72-84), time passes, an outage
  ends.  Nobody is assumed to end a process that is not ours.
* `MCBoxup.WorkerFairness`, asked of the other half: a body that is not wedged goes on, the loop and its deadline fire, the automation's hourly
  `boxup once` finds a box without a worker, the daemon starts up or shows that its poll is dead, an outage of the control
  plane ends.  Nothing ends a wedged command.
* `store`, `console` and `clients` have safety only and assume none.

## 5. Proofs

tlapm checks every theorem from nothing, for every value of the constants that the named assumptions of the modules allow;
TLC evaluates those assumptions in the runs.  No bound of a run (`MaxClock`, `MaxFaults` and the like) limits a
theorem: such a constant is any natural number in it.

### `StoreProofs`: `Leases`, `LeaseEvidence`, `StoreFiles`

For any boxes, leases, requests, TTLs and graces, from `LeaseAssumption` and `NullAssumption`:

* `TypeCorrect`.  The type invariant is not inductive alone: the tick's per-row writes set a field of a row it
  selected earlier, and that row must still be a row.  `TodoInv` adds that what a tick has selected exists: rows are
  deleted only by `StartTick`, when nothing is selected.
* `OneDeferring`.  A step makes at most one lease deferring that was not (only `AcquireInsert` does, and only if its box
  has no deferring lease); every other step leaves the deferring leases of a box or takes some away (`Quiet`,
  `OneRowQuiet`).
* `ImplementsReservation`.  Each step of the table is a `Take`, a `GiveBack` or a stutter of `BoxReservation`;
  `OneDeferring` makes `Slot`'s CHOOSE unique, and the quiet steps leave `Slot` and `Over` as they were.  `StartTick`
  prunes rows that are over and stay over.
* `GraceBeforeFreeing` and `LeaseHonoured`, from `TickInv`: a row that ended says when (`Dated`); what a sweep selected
  and still defers has had its grace (`SweepJustified`, which a renewal between select and update would break if it could
  touch a row that is not active); the map a tick reads names the box of every lease it started with that still defers
  (`MapHonours`, because no step makes such a lease defer again or moves it).
* `LossHasEvidence`, from `EvidenceInv`: what a tick condemned reads as lost for as long as it holds the list
  (`Condemned`, since nothing writes a snapshot in between), and an `unhealthy` at the ordinal just before a tick's own is
  what that tick saw (`FreshMeansSeen`, which the guard on adjacent ordinals is there for).

For any boxes, days, exports and rollbacks, from `StoreFilesAssumption`: `StoreTypeCorrect`, `QuietTickIsSafe`,
`NothingIsLost`.

* `StoreInv` adds to the property: one backup a day and no more than are kept (`BackupsBounded`); 5.7.1 is put back and a
  tick is quiet only while nothing runs (`Attended`); a file that is absent names nobody (`AbsentIsEmpty`); and
  `TickKnows`, what an undisturbed tick knows of the file at each of its places: the rows it is about to write are the
  members, after its export it either failed or agrees with the file, and before that a name only the file has is a
  finding already.

### `JobPlaneProofs`: `JobPlane`

For any jobs, handlers, services, endings, faults and crashes, from `JobAssumption` and `NullAssumption`:
`JobsTypeCorrect`, `JobRowsAgree`, `CallersLeaseKept`.

* A row that ends must repeat a record that may change between the box's answer and the write.  `IInv` adds: what the
  tick has due and what a call works on has a row (`HasRow`); a job that is being created is known to its creator alone
  (`LeasedNew`, `OneCreator`); an answer in flight that claims an ending is the box's record, or that record has been
  pruned (`AnswersRepeat`); and until its start is served a job has no record, and neither a row nor an answer says
  that it ended (`StartClean`).  The last one is what a stop before the start, or an answer older than it, would break.
* The induction is in two parts: each step moves rows, the box, the calls and the due entries in one of a few ways
  (`RowsMove`, `BoxMoves`, `CallsMove`, `DueMoves`, by `StepMoves`), and those preserve `IInv` (`MovesPreserve`).

### `BoxProofs`: `JobRestart`, `BoxJobs`

For every `MIN_INTERVAL` and every choice of elapsed times: `RestartTypeCorrect` (ages stay within the window, the last
restart is no older than the first) and `CutoffNeverReached` (`n <= 3`, and the record never says `crashloop`).  The step
that matters: with `n = 3` the next restart waits until the last is 600 s old; the first is no younger, so the count
starts again, and the cutoff's `n >= 5` is never met.

For any jobs, callers, pids, swaps and kills, from `BoxAssumption` and, in each theorem, `Overlap = "none"`:
`OneCommandRuns`, `StoppedJobsStayDown`, `RunnerTypeCorrect`.

* The hypothesis is the one the run makes: commands and passes begin one after the other, and are killed or swapped away
  anywhere.  Without it two of the three are false (section 6).
* `RunnerInv` adds: one command or pass under way (`OneAtATime`); one wrapper, whose job the slot names (`OneWrapper`,
  `SlotIsItsJobs`) and whose marker and group are on file once it runs (`Planted`); only the guard goes on beside a
  wrapper that has planted nothing, and does not come back to its job in that pass (`Unsettled`); what each command has
  made sure of at the place where it is (`Stages`); and a stop that is on record is the end (`StoppedDown`).

### `ServerProofs`: `ApiServer`, `AuthKeys`, `Terminal`

For any requests, jobs and gates, from `ApiAssumption`: `ApiMutexDrains` and `ApiAuditNamesItsJob`.

* `MutexDrains` needs that places in the chain are given once (two unreleased gates differ) and are no greater than
  the count of gates; then at most one caller can find every gate before its own released, and a waiter that leaves
  only makes the others' condition weaker, never true for two.
* `AuditNamesItsJob` needs that a job that has not settled is the registry's running one, and that `current` is the
  running job's id whenever there is one: the registry's 409 is what keeps the next start from overwriting it too early.

For any set of keys, lives, windows and bounds, from `KeyAssumption`: `KeysTypeCorrect`, `RecordedStaysLive`,
`RotationSparesBox`, `LeaksAreAccounted`.

* `IInv` adds: no two programs have the same key in hand (`Distinct`); a key being minted is nobody's old key (`Apart`),
  exists, and is not recorded (`Unrecorded`); the old key of a rotation is not the box's once the seed has answered
  (`OldOffBox`), nor the row's once it is to be deleted (`OldReplaced`); one holder of the lock at a time (`OneHolder`);
  the CLI replaces no key (`CliReplacesNothing`).
* Each step of a program satisfies one frame, `MovesOp` and `MovesKeys` (`StepMoves`, `StartMoves`: a fresh key is taken
  in hand, the key in hand goes to the box, the row or its deletion, or the program lets go), and the frame preserves
  `IInv` (`MovesPreserve`).
* `LeaksAreAccounted` is a ledger over a cardinality: `Loose`, the live keys that no row and no program will account for,
  together with the one that the operator's mint has announced and not made, are at most as many as the causes spent
  (`Ledger`).  It holds because a mint under the lock replaces the row's key or finds it worthless (`RowCovered`), so a
  record lets go of no key that works.

For any number of boxes and jobs, requests in flight, changes of the fleet, texts and heights, from `TerminalAssumption`:
`ScreenShowsTruth` and `KeysActOnChoice`.

* `ScreenInv` is `ViewIsServed` with the types (`TermTyped`): the cursor of a jobs list is on a row of it, and a view that is
  gone back to has no parent.  A key or an answer loses no request (`Sent`), and taking one out leaves the others
  (`TakenOut`), so the open view keeps its request until an answer about its own subject lands, which ends the loading;
  any other is dropped (`OthersAnswer`).
* The painted row follows from the types: ranks are distinct and below the number of rows (`RowsCounted`, by cardinality),
  so whoever is chosen has an index below it (`ChosenRow`), and a cursor within its list is within the bottom-anchored
  window (`WindowHolds`).
* `KeysActOnChoice`: only a confirmation sends a dangerous request, and that one is for what was typed (`KeysAreQuiet`,
  `AnswersAreQuiet`, `QuietSteps`); `applyFleet` selects the row of the name that had it, which is one row at most
  (`FollowsName`, `Applied`).

### `MembershipProofs`: `Membership`

For any set of keys and any number of faults, from `MembershipAssumption` and, in each theorem, `Disturbed = FALSE`:
`MembershipTypeCorrect`, `RetiredOpensNothing`, `ParkedStaysParked`, `RenameLeavesMember`.

* The hypothesis is the one the run makes: with `Disturbed = TRUE` two of the properties are false (section 6).
* `MemberInv` adds: while a retire or a rename runs, nothing else does (`Alone`); a running saga's row is open (`RowOpen`),
  hence its last stage reopens none that was retired; what is retired during a tick was so when the tick read the
  membership (`ParkedExcluded`), hence no pass of it takes the box; the lines go before the row (`LinesGone`), the copy
  is made before the box is renamed (`CopyMade`) and the box is renamed before the old row goes (`BoxRenamed`).
* The steps of sagas, ticks and the box share one frame, `Opens`: rows open and never close, and only while nobody
  retires or renames (`OpensKeeps`).  The steps of `retire` and `rename` are taken one by one.

### `TickProofs`: `FleetPasses`, `BoxPass`

* `OnePassBreaksOne`, for any boxes, releases and mishaps, from `PassAssumption`.  `PassInv` adds that a box that breaks
  empties the queue (`BreakEndsPass`) and that, in a pass that has the canary to upgrade, a release that breaks it
  waits behind it for every other box (`CanaryInFront`); the latter needs that `First` is the canary while the queue
  has it.
* `AlertsAreTrue`, for any window, any wait and any number of killed ticks and lost pages, from `AlertAssumption`.  Each
  open window belongs to a page of the present spell, and closes before that page is a window old, or the page was lost
  (`Windows`, and `Digest` for a sleeping box); whatever holds a page back has counted at least the ticks that have seen
  the kind (`Waits`).

### `ClientsProofs`: `Placement`, `LeaseRun`, `JobLog`

* `RefusalExplainsAll` and `FreeChoiceIsHighest`, for any fleet, snapshot and request, from `PlacementAssumption`: the
  former relates `Explained` to what `Chosen` would answer a request by name; the latter needs that a finite set of
  boxes has a greatest.
* For any TTL, retry period, grace, cap and number of unanswered calls, from `LeaseRunAssumption`, which has the TTL
  longer than two retry periods: `LeaseRunTypeCorrect`, `LeaseComesBack`, `LossIsNoticed`, `RenewedInTime`.
  * `LeaseComesBack`: who is gone has sent the DELETE, and without a signal has waited for it (`DeleteOnce`).
  * `RenewedInTime`: a lease in use ends at its cap, or has missed a renewal in its last retry period, or its next renewal
    falls before its end (`RenewsBefore`); the timer does not pass a renewal it is due (`BeatKept`, `RenewInTime`).
  * `LossIsNoticed`: while the lease is bad and the wrapper still takes it for good, each period since has had its poll and
    each failed (`FailsCounted`), so the third failure comes three periods after the loss at the latest.
* `LogIsTold`, for any number of pollers, any log, fetch and mirror, from `JobLogAssumption`.  `LogInv` claims its parts
  only until two readers cross, as the property does.  `RowBooks` is the balance of the row with the box (`Balanced`):
  every byte that was emptied before the row began at 0 again was mirrored or is among the lost, and behind those the
  mirror goes on without a gap; a truncation that the row has not seen leaves it behind the total, not ahead.  A poll in
  flight carries a row for which the balance holds already (`OnePoll`).  `Reads` says that a wrapper that saw the end
  reads a mirror that grows no more.

### `BoxupProofs`: `BoxTunnel`, `BoxWorker`

* `TunnelBraked`, for any processes and number of faults, from `BoxTunnelAssumption`.  The history of the spawns is not in
  the files: `FilesCover` says that `fail.tunnel` counts every spawn since a tunnel was seen alive, and maybe a killed
  pass more, and that `last-tunnel` is no older than the last spawn; a pass between its stamps and its spawn has counted
  the spawn already.  `WaitedOut` says that past the look at the window the ladder has been waited out for the tries
  made.  The ladder never falls (`LadderRises`), so a count too high only waits longer.
* `BoxRestrained`, for any floors within `Reauth` and any number of sleeps, deaths, kills, hung commands, stops and image
  swaps, from `BoxWorkerAssumption`.  What is left of a body is a tail of one of a few programs (`ProgramsWell`), and
  whoever has work to do has the lock (`WorkIsLocked`), so that nobody acts between another's look at a stamp and its
  act; a stamp is never older than the act it limits (`StampsFirst`); who is about to act found the last act old
  enough and has just stamped (`KillsAllowed`, `LoginsAllowed`); and without an excuse the heartbeat is young whenever
  a body looks at it (`BeatYoung`).

### What is only model-checked

* Liveness: `ExpiredEventuallyFree`, `EveryRunCloses`, `OwnLeaseReturns`, `ServiceReturns`, `KeyComesBack`,
  `EnrollingSettles`, `MemberDialsAgain`, `CandidateJoins`, `RowsSettle`, `MemberRepaired`, `RolledOut`, `ConfigArrives`
  and `BoxReturns`.  TLAPS has no ENABLED, without which a fairness condition cannot be used.
* `HolderKept`, `NoOrphan` and the other definitions of section 6, which are false.

Type invariants are in no run: those of `Leases`, `StoreFiles`, `JobPlane`, `JobRestart`, `BoxJobs`, `AuthKeys`,
`Membership` and `LeaseRun` are theorems, and those of `ApiServer`, `Placement` and `JobLog` are parts of the
invariants above, as is what the proofs need of the types of `Terminal`, `BoxTunnel`, `BoxWorker`, `FleetPasses` and `BoxPass`.  That of
`Discover` was put in its configuration once and is not violated.  `RecordedKeyIsLive`, `OldKeyLeftBox`,
`OneDeferringLease`, `AuditNamesItsJob` and `HighestGiven` are in no run either, because the theorems state them.

## 6. What the code does not keep

Nothing here is checked by a run of this project.  Where a definition is named it stands in its module and TLC refutes
it when it is put in a configuration; the rest was met while reading the code into a model, which does what the code
does, and properties are stated around it.

### Leases

* `LostOnlyFromActive`: `markLost` (`fleet/src/store/leases.ts:326`) has no condition on the state, so a row released
  after `detectLoss` selected it becomes `lost` with `released_at` set.  It does not defer again, which is what
  `ReservationSpec` needs.
* `ExpiredIsDue`: `expireDue`'s UPDATE (`fleet/src/store/leases.ts:316`) is unconditional; a renew between its SELECT
  and it leaves an expired row whose `expires_at` lies in the future.
* `HardLifetime` needs TTLs no longer than the cap: acquire does not apply the cap
  (`fleet/src/store/leases.ts:180`), so a configured cap below the TTL is exceeded until the first renew.
* The early end of a lost grace does not ask that the two newest snapshot rows are newer than `lost_at`
  (`fleet/src/reconcile/lease-tick.ts:102`).  Tick A sees the box healthy twice, tick B loses the lease (`asleep`) and
  leaves no snapshot row, tick C finds two adjacent healthy rows, both older than the loss, and frees the box at once;
  docs/FLEET-BRAIN.md:1592 says "or until the box has been back for two consecutive ticks".  `SweepOne` does the same.

### Jobs

* `NoOrphan`: the row is inserted, the tick polls the box before the start is served and is told there is no such job,
  the handler writes `running`, the tick writes `lost` and releases the lease.  The job runs on, unpolled
  (`fleet/src/reconcile/job-tick.ts:193`).  A poll that meets a service between its death and its restart does the same
  (`fleet/src/jobs.ts:184`).  docs/FLEET-BRAIN.md:1739 says "A row without a process is recoverable; a process without a
  row is not".
* `FailureAnnounced`: a `?refresh=1` that sees a failure asks the throttle, which records the alert as sent, and then
  calls a notify that does nothing (`fleet/src/serve/job-handlers.ts:219`).  The tick never polls that row again.
  `fleet/src/reconcile/job-tick.ts:99` says "one alert per job per terminal state".
* `TerminalOnce`: the tick's and a refresh's `UPDATE` (`fleet/src/reconcile/job-tick.ts:186`) may move a terminal row,
  and an old answer may reopen one (`EveryRunCloses` says that it closes again).
* `StoppedIsStopped`: a stop of a job that ended by itself answers 0, and the handler writes `stopped` over an ending
  (`fleet/src/serve/job-handlers.ts:511`).
* `OwnLeaseReturns` is stated for behaviours without a crash: terminal UPDATE and `releaseLease` are two statements
  (`fleet/src/reconcile/job-tick.ts:208`), and a death between them leaves the lease to its TTL.
* `InUseWhileRunning`: the job's lease has a TTL of 7200 s and nobody renews it
  (`fleet/src/serve/job-handlers.ts:348`).
* `pruneLeases` runs before `pruneJobs` although a job row references its lease (`fleet/src/reconcile/run.ts:295`,
  `fleet/src/store/schema.ts:284`).

### The box's job runner

* `StoppedStaysDown` with `Overlap = "stop"`: TERM ends the wrapper of a service; before the stop writes `rc`, a pass of
  the guard finds a service without a wrapper and restarts it; the stop then records 143 and frees the slot
  (`boxup:3429`).
* `OneCommandPerBox` with `Overlap = "all"`: a start that has named the slot and whose wrapper has not exec'ed yet is
  invisible; a guard's pass or another start breaks the slot, and two commands run (`boxup:2946-2985`; README.md:274 "A
  box runs **one job at a time**").  A stop before the wrapper has recorded its group signals nobody and answers `stopped`.
* A command killed between the slot's `mkdir` and the write of its id leaves a slot nobody breaks until the next swap
  (`boxup:3013`); `ServiceReturns` names that exception.
* `HopelessServiceGivenUp`: by `CutoffNeverReached` a hopeless service is restarted for ever; README.md:290 says
  "`crashloop` | 5 keep-alive restarts inside 10 minutes; the guard gives up".
* Outside the models: a command that ignores TERM outlives `job stop` when its wrapper dies of it, because KILL is sent
  only while the wrapper lives; `job status` reads `rc` and then the marker, and a wrapper that ends in between is
  answered `lost` (`boxup:2901`).

### The box's convergence

* `HolderKept`: a pass keeps the newest tunnel and ends the others, also the one that works, when the newest is still
  dialing (its port is then free for it a moment later, or is not).  `boxup:1136-1138` says "the newest process is the one
  whose forward actually holds the VPS port".
* `ClearedWhenUp`: an ssh that hangs in its dialing to a VPS that does not answer is adopted and clears `fail.tunnel`, so
  the ladder never climbs against such a VPS (one spawn for each of ssh's own timeouts).  `boxup:1196-1197` says "the
  tunnel IS up, so the backoff ladder must not run".
* A `tunnel.pid` whose number is now an operator's `-R 127.0.0.1:`, or this box's tunnel of a former index, counts as the
  tunnel (`boxup:1093`): nothing is spawned until that process ends.  This is `Misled`, an exception in `BoxReturns`.
* A `boxup once` that hangs keeps the converge lock for ever; every tick skips and stamps the heartbeat (`boxup:3631`), so
  the box repairs nothing and looks alive.  Only the worker's own ticks have a deadline.  A daemon that hangs before
  `Running` is recycled by nobody, because `recycle_offline_tailscaled` asks a running one.  They are exceptions in `Back`.
* A tick that its deadline, a `once` or a `stop` killed leaves an old heartbeat, which the next body takes for a freeze: a
  daemon that is not online yet is recycled.  `JumpMeansAsleep` counts that case as explained.  A heartbeat stamped beside
  a converge may hide a real freeze.
* The worker that `boxup once` starts ticks at once, and `once` then runs a tick of its own: the keep-awake and the job
  guard run twice at the same time, outside the lock.
* Outside the model: two `up`s at once may leave two workers until the next `once`; two boxes that join together may freeze
  the same free name (`boxup:1550`); `kill_tree` ends leaves first, so a body's shell may begin its next command before
  its own TERM.

### Auth keys

* `SkipMeansKey`: a box is offline with an ageing key.  Row a mints a second key; row c, decided before on the expiry
  read at the tick's beginning (`fleet/src/reconcile/run.ts:626`), rotates to a third all the same.  The rotation's seed
  moves the third key into place and reports failure, so it is revoked: the box holds a dead key, the row names the
  second, fresh one, and `mintWindowValid` skips every further mint until seven days before that key's expiry.

### Membership and discovery

* With `Disturbed = TRUE` TLC refutes `RetiredIsUntrusted` and `RenameKeepsMember`: the lock of `retire` and `rename` is
  a probe (`fleet/src/commands/retire.ts:59`), so a tick that starts beside them repairs or resumes the box whose lines
  have just gone.  `recordEnrolled` makes any row `enrolled`, whatever it has become since the saga began.
* An `enrolling` row whose box has a new keypair resumes after its recorded stage, so the stages that installed the old
  key are not done again; the row is a member then, and `MemberDialsAgain` rests on repair.
* `rename` copies a retired row too: `enrolledPort` answers for every phase.
* A member that stays in row e without end (its repairs fail, or its artefacts are coherent) makes the adopt pass yield
  in every tick; a candidate that answers another name, or one behind slow ones, is passed over for ever.  These are the
  exceptions in `CandidateJoins` and `MemberRepaired`.
* A probe is two calls of 20 s and an unbudgeted third after a banner, so the arithmetic beside the budget
  (`fleet/src/reconcile/discover.ts:321-325`) does not bound a pass.
* "Two consecutive ticks" of a marker spans a killed tick.  An enrolling box that never answers moves no streak and is
  never paged about.

### The tick

* A mint that goes on failing pages in every tick once its count passes three: that page has no window, and a box that
  comes back by other means keeps the count (`fleet/src/reconcile/run.ts:917-923`).
* A window is opened before the page is sent, so a lost page, or a tick killed before its page, is silent for the rest
  of the window; an asleep page sent by a tick that dies before its marker repeats.
* Of two rises of the wedge count in successive ticks the second is swallowed by the window of the first.
* A canary that failed verification but runs the broken release is no longer drifted, so the next tick's rollout goes to
  the other boxes without it, one per tick; `fleet/src/reconcile/run.ts:422-424` says of a leased
  canary that the pass is "SKIPPED, never run canary-less".  The same happens when the canary's tunnel is down.  This is why `OnePassOneBreak` speaks of one pass.
* A sick box whose version cannot be read is never rolled out to; a box that takes no install stops every box behind it
  in the order, and is deployed to and paged about in every tick.  These are the exceptions in `RolledOut`.
* A config canary whose content is refused withholds the config from all; one that cannot be pushed to is passed over
  and the pass goes on without a canary.  A push that runs out of time counts as a failure of the content; rc 6 is
  logged as "no change applied" although the change may have landed.

### Store and files

* `RowReportedFirst`: every command's export overwrites a row that only the file holds without looking; only the tick
  compares.  docs/FLEET-BRAIN.md:1397-1398 says "The next tick REPORTS the difference (see below) and the export
  overwrites the edit."  That is why `TickTellsFirst` speaks of a tick alone.
* A CLI `enroll` before the first tick opens a store that has imported nothing and exports one box over the 5.7.1 file;
  the tick then imports that box.
* A finding is cleared as agreed when an export merely overwrote the row.  Key files and a map behind its rows are never
  compared.  A program killed between commit and export records no failure.
* `import --force` without an `enrolled.tsv` deletes every row; `reconcile-files --apply` acts on recorded findings,
  however old; `state check` decides before its wait for the lock and clears the flag after it; a `restore` makes the
  store older than the files.
* A read error of `enrolled.tsv` counts as its absence.  A tick killed between the import and `resetLegacyFiles` never
  resets the old counters.

### API and terminal

* The integrity flag, the box guard and the token are judged before the wait for the lock, so an operation may run on a
  store flagged meanwhile (`fleet/src/serve/handlers.ts:429-431`).
* The client gives up after 8 s and the server may wait 30 s and then act: what is reported failed is done, and sent
  again it is done twice.  A mutation that throws leaves no audit line.  A shutdown ends operations half-way.
* Going from a box to another and back while the second one's detail is the last to arrive leaves the pane loading until
  the selection moves (`loadedDetailBoxRef`); a failed detail is not fetched again.  A late poll replaces a newer one.
* The jobs list keeps the index of its cursor, not the job (`fleet/src/tui/app.tsx:292`: "keeps the row under the cursor"); `ScreenIsTrue`
  and `ConfirmedTarget` hold because the confirmation captures the job.  When the selected box leaves the list the index
  is on another box, and `T` runs there at once.
* The table paints more lines than a region of one or two rows has (`tableContentRows`), hence the `h >= 3` of
  `ActedRowPainted`.

### Wrappers, logs, placement

* A signal sends the DELETE and lets the command run on; the `finally` then finds the lease `released` and exits without
  waiting, which may drop the DELETE in flight.  `LeaseGivenBack` is stated for runs without a signal.
* A POST whose answer is lost ends with "nothing ran" although the lease exists.  The envelope says "released" whether or
  not the DELETE was answered.
* With a TTL of ten minutes or less one failed renewal is tried again too late (hence `LeaseRunAssumption`), and in
  general a renewal that fails inside the last retry period lets the lease expire: the exception in `KeptAlive`.
* `NeverSpliced`: overlapping polls append a chunk twice, and a truncation within a poll splices two generations
  (`fleet/src/reconcile/job-tick.ts`: "never fetch from a stale offset").  Bytes written between the guard's `stat` and
  its `truncate` are counted nowhere.  A terminal poll fetches one chunk at most, and a terminal job is not polled again.
* `job run` does not act on an interrupt while its polls fail, and sends its stop once.
* A job that names no box picks the highest eligible one and answers `box_busy` when that box's job outlived its lease
  and the snapshot does not know; it does not try the next one.  A service job may run on the rollout canary under an
  ephemeral lease that its caller supplies.

## 7. Not modelled

* Of `boxup`: the disk and keep-awake guards, naming, sshd and accounts, the refresh of the exit node, the retag, the
  self-update.  They are steps without state of their own, or `sick` in `BoxWorker`; what the brain reads of them is free
  input of `BoxPass`.
* Host keys and the tunnel client: a call is sent, served or not, answered or not.  Host-key pins of candidates cost a
  probe in `Discover` and are otherwise left out.
* The installers: one-shot scripts, pure I/O.
* Migrations of the schema, retention (`pruneJobs`, snapshots), the read-only handlers, tokens and routing, the text of
  messages, pages and screens, the parsing of requests, arguments, configs and files.
* Dry runs, audit rows other than the reconcile job's, the one-call subcommands of the command line.

SQLite's transactions are taken to be atomic, and ssh to serve a command at most once.  `PROJECT.json` says for each
component what of it is left out.
