# A TLA+ model of gonner

gonner is a process manager for containers: it runs as PID 1, starts the configured
processes in dependency order, restarts them, forwards signals to them, stops them as
process groups, reaps orphans, writes their logs, and answers health and management
requests. This directory models the parts of it that are hard to test: what several
goroutines, the kernel, the children and the clients can do to each other in orders nobody
wrote down. Each module is translated from the source under `src/`; `PROJECT.json` maps
every definition to its lines.

Contents: [inventory](#inventory), [modules](#modules), [runs](#runs),
[bounds](#bounds), [fairness](#fairness), [proofs](#proofs), [findings](#findings),
[what is not modelled](#what-is-not-modelled), [plan](#plan).

## Inventory

| Component | Source | State | Operations | Hard behaviour | What makes it correct |
|---|---|---|---|---|---|
| command execution | `internal/execution/service.go` | `stopOnce`, `stopErr`, `drainCtx`, `shutdownDeadline`, `Result` | `Service.Run`, `stopGroup`, `waitGroupGone` | main goroutine and watcher both stop the group; requests and cancellations at any time; descendants that ignore signals or escape with the pipes | one stop; nothing alive at return; a true result; output cut only with a cause and within one grace period; `Run` returns |
| reaper and registry | `internal/execution/reaper_linux.go`, registry in `service.go` | `children.managed` under a mutex, SIGCHLD channel | `StartReaper`, `reapOrphans`, join | the reaper and `cmd.Wait` wait for children of one parent; the kernel reuses pids; SIGCHLD coalesces | no stolen status; registry = waits; no orphan left a zombie |
| process lifecycle | `internal/runner/process.go` | `state`, `pid`, `generation`, `generationStop`, `restarts`, `launches` under `p.mu` | `prepare`, `Run`, callbacks `OnStart`, `OnStop`, `OnExit`, `ForwardSignal` | callbacks from three goroutines; restart requests that name an old generation; precommands, backoff and retries under cancellation | stale requests stop nothing; the retry budget; published state is true; a replacement only after the old group is gone |
| restart requests | `internal/runner/control.go` | the above | `Manager.Restart`, `Process.restart` | the client's knowledge is stale when it arrives | an accepted restart happens |
| start gate | `internal/runner/manager.go:43` | none (channels of instances) | `waitStarted` | `reflect.Select` picks at random | answers exactly when some instance started, none can, or the context is done |
| manager | `internal/runner/manager.go` | wait group, error slice, error channel of one, context | `Run` | launch orders, gates, critical failures, conditions, an error channel that holds one error, reaper joined last | dependency order; shutdown has a cause; everything joined; no error lost |
| backoff | `internal/runner/backoff.go` | `attempt` | `Next`, `Wait`, `RecordExit` | floating point, reset rule | delay within bounds |
| signal handler | `internal/runner/signals.go` | channel of four | `Start`, `Stop` | os/signal drops what does not fit | a shutdown signal shuts down |
| run command | `cmd/gonner/cmd/run.go` | context, deferred calls, `healthErr` | `runRun` | parts fail to start; deferred unwinding; health error from another goroutine | everything started is joined; failures reach the exit status; gonner ends |
| health server | `internal/health/server.go`, `handlers.go` | `errors`, `done` channels | `Start`, handlers | two goroutines, failure against shutdown | one error, always joined |
| status queries | `Manager.Ready`, `Manager.Processes`, read by `internal/health/handlers.go` | none of their own | `Ready`, `Processes`, `/health`, `/metrics` | they lock one process after another while all go on: an answer is no snapshot | what an answer says of each process has held while it was put together |
| management socket | `internal/control/server.go`, `peer_*.go` | the file at the path, sixteen slots | `Start`, stop, `Accept`, `Close`, `Handler` | taking over the path of a dead predecessor; late and repeated stops; connections closed twice | a socket that listens is the one at the path; the slots taken are those of the connections served |
| log writer | `internal/logging/writer.go` | registry of sinks, reference counts, descriptor, size counter | `NewWriter`, `Write`, `rotateFile`, `compress`, `pruneBackups`, `Close` | every directory call may fail, gonner may die between two; processes share a file | no byte lost; descriptor usable; bounds kept |
| safe files | `internal/safefile` | directory descriptor | `OpenDirectory`, `OpenRegular`, `Link`, `Remove` | refuses hard links | exclusive publication |
| configuration | `internal/config` | none | `ApplyDefaults`, `ValidateWithWarnings`, `detectCycle`, parse, discover | Kahn's algorithm with repeated dependencies, sequential order, ids of several instances | refused exactly when something could never start; ids unique; what `Process` and `Manager` assume |
| conditions | `internal/condition` | none | `ShouldRun`, `env`, `fileExists`, `portOpen`, `commandSucceeds` | errors, timeouts and a cancellation at any step | a decision has its reason; an error is not "false" |
| credentials, capabilities, other commands | `internal/execution/credential.go`, `cmd/...` | none | one-shot | none | none |

How they interact: `runRun` starts the signal handler, the two servers and `Manager.Run`
around one context. `Manager.Run` prepares every process (which opens its log), starts the
reaper, evaluates conditions, launches one goroutine per instance that passes its start
gates and calls `Process.Run`, monitors infrastructure errors, waits for all, and joins the
reaper. `Process.Run` calls `Service.Run` once per command; `Service.Run` calls back
(`OnStart`, `OnStop`, `OnExit`), registers its child against the reaper, and streams output
into the log writer. Management clients reach `Process.restart`, which sends to the stop
channel of the current launch. A critical failure, a signal, a health failure and an
infrastructure error all end in the one cancellation.

The hazards this code is exposed to, each at its line, and the properties that would catch
them, are listed under `hazards` in `PROJECT.json`; a hazard without a property says why.

## Modules

The modules that describe what one part promises another are abstract: `Gate`,
`LaunchContract`, `PublishedState` and `LaunchOrder`. Each is implemented by the module of
the part that promises (with `INSTANCE` and a refinement mapping, checked by TLC and proved),
and used by the modules of the parts that rely on it:

```
Execution  ==>  LaunchContract   used by  Process
StartGate  ==>  Gate             used by  Manager
Process    ==>  PublishedState   used by  Status
Manager    ==>  LaunchOrder      used by  Startup

Startup     =  Validation, Conditions, LaunchOrder
Management  =  ControlServer, Status
Gonner      =  Signals, the servers, Manager.Run as its callers see it
```

**Reaper** - `execution/reaper_linux.go` with the registry steps of `Service.Run`. State: the
kernel's view of each pid (owner, zombie), the registry `managed`, its lock, a control point
per run, the reaper goroutine with the list it is visiting. `RunLock`, `RunFork`,
`RunRegister`, `RunWait`, `RunUnregister` are the lines 110-196 of `service.go` that touch
the registry; `ReaperList`, `ReaperVisit`, `ReaperUnlock` are `reapOrphans`; `ReaperTick`,
`ReaperSignalled` and `ReaperCancelled` the select of `StartReaper`. The kernel adopts
orphans, lets processes exit, and hands out a pid again as soon as its status was taken. The
SIGCHLD channel is one flag: more signals coalesce, as they do in a channel of one.

**Execution** - one `Service.Run`, as two goroutines over a process group. `pc` is the main
goroutine (start, wait, stop, join the watcher, drain, bound the drain, confirm), `wpc` the
watcher's select and its re-checks, `once`/`grp` the `stopOnce` body: signal, poll every tick,
SIGKILL at the deadline, each of which may fail. The group has the child, one descendant that
stays, and one that escapes and keeps the pipes; any member that lives may fork either, also
after the child has exited. Timers are nondeterministic. A poll looks at the group in one step;
`groupAlive` asks `kill(-pid, 0)` and then reads `/proc` file by file.

**LaunchContract** - what `Service.Run` promises its caller: a command starts only under a
context that is not done; while it runs `OnStop` comes only for the context or for a request
that its watcher took; `OnExit` fixes what the result says of the exit and of the cancellation, so a
late cancellation does not relabel it; `Return` comes after `OnStop`, and a group that should
be confirmed and is not seen to disappear is an error; so is a group that could not be stopped
(`StopFails`). It does not promise that `Run` returns: as long as a descendant outside the group
holds the output (`held`), `Return` has to wait for the context or for a request that was taken
(`Drained`). Execution implements it (`ImplementsContract`).

**Process** - `Process.Run` with precommands, launches, decision, backoff, the callbacks of
`Service.Run`, and `Manager.Restart`, which checks `shuttingDown` before it takes the
process's lock (two steps). A command that runs is a step of `LaunchContract` (`Call`), joined
to what `Process` does in the callback: what Process relies on is what Execution was shown to
do, nothing more. A request is first `"sent"` and then, if the watcher's select picks it,
`"taken"`: once the child has been waited for the watcher may end without it. Descendants
take and give back the output at will (`Hold`). A generation is the number of its launch.

**PublishedState** - the life of a process as others see it: state, whether it has ever run,
the restart counter, whether it is over. A start is published only from `starting`, `running`
ends in `stopping`, a process that is over never changes again. Process implements it
(`Published`).

**Gate**, **StartGate** - what `waitStarted` promises, and the loop over `reflect.Select`
that does it: a first look without blocking, a select that may pick any ready case, a second
look at `Ready` when `Done` was picked, and dropping the case. `StartGate` implements `Gate`
(`INSTANCE Gate` with `answer` as the refinement).

**Manager**, **MCManager** - `Manager.Run`: preflight, reaper, conditions per name, launch
loop (parallel, or behind sequential gates), a goroutine per instance with its dependency
waits, the process inside it reduced to starting, restarting, stopping and failing, the error
monitor that takes one error, the joins, and the deferred cleanup that finishes unlaunched
instances. Errors come from the reaper and from commands while these run (`ServiceReports`), and
from `ForwardSignal`, whose goroutine nobody joins, at any time, even after `Run` has returned
(`ForwardReports`). The gates are those of module `Gate`, as state predicates.

**LaunchOrder** - the same startup name by name: pending, launched, begun, and a gate that is
open for good or shut for good. A name is launched in sequential mode only behind settled
gates, and no command of it begins before each dependency has started once. Manager
implements it with instances and goroutines; its mapping is `Stage`.

**Validation**, **Conditions**, **Startup**, **MCStartup** - a configuration on its way to
the first launch. `Validation` is `ApplyDefaults` and `ValidateWithWarnings`, with the cycle
check as the code does it: the in-degree counts every mention of a dependency, and a round of
the loop takes a ready entry (a step each, no recursion). `Conditions` is `ShouldRun`: all of
`whenAll`, then one of `whenAny`, where each type has its own reasons to fail, and the context
may be done at any step. `Startup` puts them together as `runRun` and `Manager.Run` do:
validate, refuse or evaluate the conditions, and then launch by `LaunchOrder`.

**ControlServer** - the management socket. `Start` is taken apart into what it asks the
kernel: look at the path, dial, remove a socket that refuses, bind, listen, chmod; a gonner
may die between any two and leave its file behind. `Stop` may be called more than once, and
removes the path the first time only. `Accept` refuses or takes a slot, `CloseConn` may come
twice.

**Status** - `Manager.Ready` and `Manager.Processes`, which read one process per step while
every process goes on by `PublishedState`. `ran` and `base` record what has been true since
the query began. **Management**, **MCManagement** run the socket and the queries side by side.

**Signals**, **Gonner** - the signal channel and its goroutine; and `runRun` over it: the
control points of the start-up, the deferred calls from whichever of them it reached, the
health endpoint's three goroutines, the management server, the PID file (whose removal may fail,
which the code ignores), and `Manager.Run`
as its callers see it. `Signals` has no specification of its own: its step is one of Gonner's.

**LogSink** - the shared file: names to inodes (so that hard links count), contents as chunk
sequences, the sink's descriptor, counter and reference count. Every call on the directory
is a step of its own that may succeed or fail, and `Crash` may come between any two.
Opening refuses a file with two links, as `OpenRegular` does.

**ReaperProofs**, **ExecutionProofs**, **StartGateProofs**, **ProcessProofs**,
**ManagerProofs**, **GonnerProofs** (Gonner and Management), **StartupProofs** (Validation and
Conditions), **LogSinkProofs** - see [proofs](#proofs).

## Runs

| Run | Module, configuration | What it shows |
|---|---|---|
| `reaper` | Reaper | no wait status is stolen although pids are reused; the registry mirrors the waits; the last sweep leaves nothing; every dead orphan is reaped even when its SIGCHLD was spent on a masked pid; exited runs leave the registry |
| `execution` | Execution | the group is stopped once, nothing is alive at return, and `Reaped` means gone; output is cut only when that is due; `LaunchContract` is implemented; interrupted and finished runs return |
| `execution_request` | Execution (violation) | see findings |
| `process` | Process | stale requests, retry budget, published state (`PublishedState` is implemented), replacement only after the group is gone; accepted restarts happen, except while the dropped request of finding 1 leaves the process stranded; cancellation ends the process from every state, except while its command cannot be stopped |
| `start_gate` | StartGate | the select loop implements the abstract gate and answers in time |
| `manager` | MCManager | startup implements `LaunchOrder`; causes of shutdown, joins; no failure and no error reported before the last look at the channel is left out of the result; cancellation makes `Run` return, an infrastructure error shuts down, nobody waits on a dead dependency |
| `gonner` | Gonner | every return has joined what was started; no failure is left out of the exit status; signals, health failures and failed starts end the program |
| `health_gone` | Gonner (violation) | see findings |
| `log_sink` | LogSink | no chunk is lost through failures and a death; the shared descriptor is usable; sizes and backups keep their bounds when nothing fails |
| `log_prune` | LogSink (violation) | see findings |
| `startup` | MCStartup | a configuration is refused for its dependencies exactly when some name could never start; ids are unique; every decision on a condition has its reason; what was accepted starts |
| `management` | MCManagement | no start and no late stop takes a live socket away; slots are exact; an answer is true of each process at some time during the query |

The properties of a run are those that several steps, mostly of several actors, could break.
`TypeOK` stands in every module as the description of its state; it is a step of the proofs
where a module has them, and not a property of a run.

Each property of a passing run has a mutant: a variant of one mapped definition, kept beside
it in the module (for instance `RunForkEarlyUnlock` beside `RunFork`), that changes the code
the way a plausible bug would. Replacing the definition by its variant violates the property.

## Bounds

- `reaper`: three pids, two runs. Two runs are needed for a pid that is reused while its
  first entry is still there; the third pid is an orphan's. There is no bound on how often
  orphans are adopted: the state space is finite without one.
- `execution`: no constants; one descendant of each kind, one request. More descendants in
  the group behave as the one (alive, zombie, gone); a second request to a launch is refused
  by `Process.restart`.
- `process`: three launches (`MaxAttempts`), retry limits none and one. Three launches give
  an old, a current and a next generation; the limit one is reached with one launch to spare.
- `start_gate`: three instances, so that a case can be dropped from the middle.
- `manager`: a name `a` with two instances and a critical `b` after it, in both start modes:
  a gate with more than one instance behind it, an instance that fails while its sibling
  starts, a dependent that is released. What larger configurations (chains, fan-ins, more
  instances) could add to the safety properties is covered by `ManagerProofs`, which bounds
  nothing.
- `gonner`: a channel of two and three signals fill and overflow it; every combination of
  parts is an initial state.
- `log_sink`: two writers, six writes of a chunk, two chunks to a file, one backup kept, one
  death: two complete rotations with pruning, or failed ones that are tried again.
- `startup`: every graph on three entries in which each has up to two dependencies, repeated
  ones and itself included, in both modes: every cycle and every order that three names can
  have. Besides, entries that break one rule or just keep it, pairs whose ids may collide
  (`web/0` beside two instances of `web`), and sixteen pairs of condition lists.
- `management`: three gonners (a predecessor, one that lives, a rival), two connections and one
  slot (`Slots`), so that a connection is refused; two instances of one name or of two, and one
  restart each (`MaxRestarts`). A listener is closed at most three times, once for each of its
  three callers.

`CHECK_DEADLOCK FALSE` is said only where the modelled program ends (a returned `Run`, a
finished process, an answered gate, gonners that are all closed or dead).

## Fairness

Stated at each `Fairness` with its reason. In short: a goroutine that can take its next step
takes it (weak); a mutex is handed to a waiter in the end and a select picks each case that
stays ready in the end (strong, because others make the guard false in between; `sync.Mutex`
has a starvation mode and Go's select is random); timers fire; SIGKILL kills; a dead child is
reaped. Nothing is assumed of children, clients, orphans or the network: a process may run
for ever, unless its group is being stopped. A component used by another brings its own
liveness along as fairness of the composing module: that a process ends after a cancellation
(`CancelEnds`) in Manager, that `Manager.Run` returns after a cancellation (`CancelReturns`) in
Gonner. Startup assumes that conditions are evaluated in bounded time (a dial and a command have
timeouts) and that a name that has begun starts or fails, which the code leaves to the
configured commands. Management states no fairness: its properties are all safety.

That `Service.Run` returns once its child is dead holds only under a cancellation, a taken
request, or when the output pipes reach their end (`ExitReturns` says so, with `<>[]~escaped`).
Process assumes no more: its `ExecReturn` is fair, but enabled only when `Drained` of
LaunchContract lets `Run` return, and nothing makes a descendant give the pipes back. The watcher
takes a request while the command runs and the context is not done; after the exit it need not.
Two cases remain in which the code makes no progress, and they are named in the properties:

- `Stranded`: the request was dropped at the exit (finding 1) and a descendant outside the
  group holds the output. `RestartHonoured` is for processes that do not stay so.
- `Unstoppable`: `stopGroup` has failed and is not tried again, and the command runs on. The
  failure is reported, and the report cancels the context (`ReportShutsDown`), but the process
  stays; `CancelEnds` is for commands that do not stay so, and with it what Manager and Gonner
  build on it.

Without the first exception TLC finds a restart that was accepted and never comes about, without
the second a process that outlives its cancellation.

## Proofs

Every safety property that a passing run checks, the four refinements among them, is also a
theorem: the run shows it on a small instance, the proof for all values of the constants. The
liveness properties are the rest, see the end of this section.

**ReaperProofs** holds for all sets of pids and runs, under `ConstantsDiffer` (the owners are
different values). `RegistryMirrorsWaits`, `NoStolenStatus` and `JoinLeavesNoZombie` are not
inductive by themselves; the invariant `IInv` adds

- `LockHeld`: the lock has its holder exactly between `Lock` and `Unlock`;
- `ChildOwned`: a run's child is its own in the kernel's eyes exactly until `cmd.Wait`, and
  no other pid is: this is what keeps pid reuse apart;
- `JoinProgress`: once join was called all runs are over, the zombies it owes are still
  there and are on the list of the last sweep.

One lemma per action shows that it preserves `IInv`; `Inductive` combines them;
`TypeCorrect`, `ExclusiveStatus`, `RegistryAgrees` and `JoinSweeps` follow. The argument for
`ExclusiveStatus`: the reaper takes a status only while it holds the lock and the pid is not
registered; a child exists unregistered only while its run holds the lock.

**ExecutionProofs** needs no assumption: Execution has no constants. The properties speak
mostly of the end of `Run`, so the invariant has to say what is true on the way there:

- `OnceInv`: whoever entered `stopOnce` is in its call of `stop` until `stopGroup` is over, so
  that the other one cannot pass its own call earlier, and `OnStop` has been called as often
  as the once was entered;
- `RunInv`: where the main goroutine is fixes what has become of the child and how far the
  watcher can be: it has exited before the drain begins;
- `GroupInv`: when `stopGroup` is over the group has no live member, or was killed, or the
  error says so, and the end of the output means that no member and no escaped descendant is
  left. This is stable: only a live member forks, and none does that has been killed;
- `DrainInv`: the watcher leaves its select for a cause only (a cancellation or a request it
  took), and sets its deadline before `Run` joins it; the drain is over at the end of the output
  or for one of these causes.

`StoppedAtReturn` and `BoundIsDue` follow. `ContractKept`, the refinement of `LaunchContract`,
takes each action with the invariant before and after the step: most stutter, because what
the two goroutines do to the group is invisible to the caller; `StopBegins` is the step that
needs `OnceInv` (one `OnStop`) and `DrainInv` (its cause), and `Return` needs `GroupInv` and
`DrainInv` for `Drained`.

**StartGateProofs** shows for any finite, non-empty set of instances that every step of
`waitStarted` is a step of `Gate` or a stutter, so `Implements == Spec => ImplementsGate`.
The invariant says that a case is dropped only when its instance is done without having
started, and that the first look misses nothing that matters later.

**ProcessProofs** holds for all bounds `MaxAttempts` and sets of retry limits, under
`BoundsAreNatural` (they are natural numbers), so for any number of launches. The invariant adds

- `Launched`: a command is under way only in the precommands and in a launch, and once a
  launch has started, its generation and its stop channel are those of the attempt;
- `Counted`: the local counter of retries lags one behind the attempts inside the loop, is
  raised only when policy and limit allow another launch, and `restarts` counts all
  launches but the first. `RetryBudget` is its consequence, which without the relation of
  `retries` to the attempts would not be preserved by the next launch;
- `ReplacedSafely`: a controllable process is at the loop, in the backoff or before a fork
  only with its previous group seen gone. `ReplacementAfterReap`, about steps, follows
  because only `OnStart` of the main command changes the generation;
- `Shown`: what is published at each control point. With it every step of Process is a step
  of `PublishedState` or a stutter (`StateIsPublished`): the callback of a launch can publish
  `running` only from `starting`, because a process that was told to stop does not come back
  to the fork.

`RunningIsCurrent` and `StaleRequestNeverStops` are inductive once these are there. The
theorems are `BudgetKept`, `StateIsTrue`, `StaleRequestsHarmless`, `ReplacedAfterReap` and
`StateIsPublished`.

**ManagerProofs** holds for every configuration that `ConfigIsValid` describes, which is what
`Validation` lets through: any number of names and instances, any acyclic dependencies between
names that exist, in sequential mode on earlier ones only. The invariant `IInv` is the types and

- `LifeInv`: how the state of an instance belongs to the point its goroutine is at;
- `MainInv`: what has been launched, joined or cleaned up at each control point of `Run`;
- `CauseInv`: a critical instance that has failed has ended the context, and an error that is
  reported or about to be has its cause on record;
- `ErrorInv`: every failure is in the slice, in the channel of one, or with a goroutine that
  has still to hand it over, and so is joined before the result is built.

`ShutdownCaused`, `EverythingJoined` and `EveryErrorKept` follow. `EveryErrorKept` is about errors
reported `InTime`, before `Run`'s last look at the channel (`manager.go:225`). `ReportsAre` is what
the invariants need of the two kinds of report: a late one changes the channel and nothing
else. For `OrderImplemented`, the
refinement of `LaunchOrder`, `OInv` adds `DepInv` (the dependencies an instance has waited for
have started) and `GateInv` (in sequential mode the loop has been through the gates of the
earlier names, unless the context is done); then each action is shown to be one step of `LaunchOrder` or a stutter. The
steps that move several instances at once (a skipped name, the cleanup) are why `Launch` and
`Shut` take sets of names.

**GonnerProofs** assumes nothing of the constants: any number of signals, any capacity, any
combination of parts. `HealthGoroutines` relates the three goroutines of the health endpoint,
`Progress` says what is running at each control point of `runRun`, `ExitTold` when an exit
status of 0 can have been decided. `NothingLeftRunning` and `FailureReachesExit` follow from
them at the last control point (`ReturnsClean`, `ExitIsTrue`). The signal handler is shown to disturb none of this.

The second half of the module is about Management. `SocketKept` and `SlotsCounted` hold for
any number of gonners, connections and slots. `SocketKept` needs `PathInv`: the file at the
path is that of the gonner that has bound it and has not begun to close, one gonner starts at a
time, what is about to be removed belongs to nobody who listens or will, and a listener that is
closing has unlinked the path already, so that a second close leaves its successor's alone.
`SlotsCounted` needs `SlotInv`: a connection that is served has not been closed, and one that
has been closed once has given its slot back.

`AnswersHold` is for any list of instances, any names given to them and any number of restarts
(`ProcessesAreInstances`: the list holds each instance once). `QueryInv` says what a query half
way through its list has: for `Ready` the names of which an instance has been seen up
(`Gathered`), for `Processes` per name the instances read, with no more running than have run
since the query began (`Counts`), and a sum of restart counters that lies between the sum at the
beginning and the sum now (`Added`). That needs the sums over sets of the community modules to be
monotone and to grow by a term for each instance read, which are the lemmas on `Total`.

**StartupProofs** holds for all parsed configurations, whatever their number of entries and the
length of their condition lists, under `ConfigsAreParsed` and `CopiesAreNamed` (what the decoder
and the numbering of copies make). The cycle check keeps, as its invariant (`KahnInv`), that
the in-degree of a name counts the mentions of names not yet visited, and that no set of
which each member needs a member (`Stuck`) is ever entered. `VerdictIsExact`: when the queue is
empty before all names are visited, the rest is such a set, and could never start. `IdsAreUnique`
goes through the checks on names and copies. `AcceptedIsValid` closes a gap between two modules:
`Manager` assumes `ConfigIsValid` of its constants, and this theorem shows that an accepted
configuration has every part of it.

`DecisionsHaveReasons` rests on `CondInv`. `BlockInv` says what the position in a list means: in
`whenAll` everything before it held; in `whenAny`, which is only reached when all of `whenAll`
held, nothing before it did, except that under a context that is done a command that held
counts as one that did not (the context of its timeout is then done too). What `flatten` makes of the
objects has to be shown to be a list of condition types (`FlattenType`).

**LogSinkProofs** holds for all writers, sizes, fault sets and numbers of deaths. It rests on
`Counted` (the references of a sink are its open writers), `Unused` (no file has the name
of a rotation yet to come), `Named` (the open file has a name, and not only a temporary one),
`Rotated` (which names each point of a rotation has given and taken) and `Copied` (the
compressed copy is complete before the original goes). `EveryChunkKept` and `FileStaysUsable`
follow. `BoundsKept` needs a second invariant, `BInv`, on top of it: `Sized` (the counter of the
sink is the size of its open file), `Fits` (as long as no call has failed, the open file is
the log, there is room for the chunk that is about to be written, and no rollback is under way)
and, as long as gonner has not died, `OwnFiles` and `FewBackups`: no two names share a file
except while a rotation moves one, and between writes the stock of backups is within the bound.
`OwnFiles` is what lets pruning see every backup: one with two links would be refused by
`OpenRegular` and left out of the count.

Induction over data: the theorems of the library that take an operator cannot be used here.
Where a proof needs induction over a set or a number, it takes a smallest counterexample
instead (`SmallestSubset`, `LeastOf`, both from the library's `WFMin`), which is a set and not an
operator. So the folds behind `FlattenSeq` and `MapThenSumSet` are shown to exist and to be
unique, and what they compute follows. `SortSeq` has no definition the prover can use; the four
types of condition are therefore listed in their sorted order (`SortedKeys`).

Only model-checked: all liveness (`OrphansReaped`, `ExitedRunLeaves`, `InterruptionReturns`,
`ExitReturns`, `RestartHonoured`, `CancelEnds`, `AnswersInTime`, `CancelReturns`,
`ReportShutsDown`, `DeadDependencyReleases`, `QueuedShutdownEnds`, `FailureEnds`,
`AcceptedStarts`), which needs fairness and so `ENABLED`, beyond the prover. No module has a
RECURSIVE operator.

## Findings

1. `execution_request`: a stop request that was accepted while the child exits by itself may
   be dropped: the watcher's select finds `watchDone` ready too and may take it
   (`service.go:181`). The comment at `service.go:154` promises that such a request still
   bounds the drain; with an escaped descendant `Run` waits until the manager is cancelled, and
   the restart the client was promised does not come about until then (`Stranded` in Process).
2. `health_gone`: the table in `docs/operations.md` has a 503 answer for "Shutting down", but
   the health server shuts down with the context that begins the shutdown.
3. `log_prune`: a failed compression returns before pruning (`writer.go:184`), so
   `maxBackups` is not kept for as long as compression fails.

Besides, the comment at `manager.go:360` says that `ForwardSignal` reports failures to `Run`. `Run`
does not wait for it, and an error it reports after the drain at `manager.go:225` stays in the
channel; `Manager` has this step, and `NoErrorLost` excepts it.

What a burst of signals does beyond the capacity of the channel (os/signal drops it) is in
`Gonner`, and is no finding: `QueuedShutdownEnds` speaks of a shutdown signal that was queued.

## What is not modelled

- Data that no property is about: environment, command lines, formatting, console prefixes,
  the console copy, the error throttle and the line scanner of the writer, JSON, HTTP details,
  TLS, authentication.
- What `ForwardSignal` does to a process: the pid a signal is sent to may be another group's by
  then (a hazard with a note); this needs process group ids that the kernel hands out again.
  The error it may report is in Manager.
- The moments between `kill(-pid, 0)` and the reads of `/proc` in `groupAlive`, with its
  conservative answers when they cannot be read; other errors of the reaper's `Wait4` than
  those it ignores, which end a sweep and are reported; the failure of `rand.Read`.
- Two gonners that start on one socket path at the same time: `Start` looks at the path and
  acts on it later (`server.go:37-49`), and nothing in the repository says that it is meant for
  a rival in between, so the model lets only one start at a time.
- The decoding of requests on the management socket; their effect is in Process.
- Two log sinks in one directory, where one's active path looks like the other's backup
  (`activePaths`); partial writes of a chunk; loss of power.
- Permissions, ownership and access lists in `safefile`: a refusal is a failed call.
- The parsers of the configuration and the search for its file; the strings that make a name
  or a path valid (a set of names that are stands for the pattern).
- Backoff delays: floating point, on which no property of the lifecycle depends; that the wait
  ends, and ends early for a cancellation, is in Process.
- The darwin variants, credentials and capabilities, one-shot commands.

## Plan

Order of the work: first the core (who waits for which child, one command, one process, many
processes, the whole program), then what hangs on it, then the pure algorithms.

1. Done, the core: Reaper, Execution, Process, Gate/StartGate, Manager, Signals/Gonner,
   LogSink, with the proofs for Reaper, StartGate, Process and Gonner.
2. Done, the contracts and what hangs on the core: LaunchContract, PublishedState and
   LaunchOrder with their refinements; Validation, Conditions and Startup; ControlServer,
   Status and Management; the proofs for Manager, LogSink, Validation and ControlServer.
3. Done, the proofs for Execution with its refinement, for the bounds of LogSink, for
   Conditions and for Status: every safety property of the runs is proved.
4. Left: the safety half of what the liveness properties say, where it can be stated without
   fairness (no control point of `Service.Run`, `Process.Run` or `Manager.Run` is left without
   a way on once its context is done); `ForwardSignal` with group ids that the kernel hands out
   again; `Backoff` in integer milliseconds; the request handler of the management socket.
5. The three violations stay as long as the code is as it is.
