# A verification project for the container internals simulator

TLA+ modules for the parts of the simulator (`src/src/*.c`) where steps of several
actors meet: the command line, the scheduler's thread, the web server's threads, the
processes of the containers, and a simulator that may be killed and started again.
TLC checks them on small instances, TLAPS proves most of their safety for all sizes.

## 1. Inventory

| part | state | operations | who else touches it |
|---|---|---|---|
| container manager (`container.c`) | the list `head`, `next_sequence`, the metadata file | create, run, runbg, start, stop, delete, prune, pause, unpause, exec, list, exit | web threads poll and read the list without a lock; the orchestrator's monitor calls start, stop and exec |
| launcher (`namespace.c`) | four pipes per start, the child | clone, handshake, exec trigger | the child |
| scheduler (`scheduler.c`) | `enabled`, `targets`, `current_index` under a mutex | start, stop, set_enabled, add, remove, clear; a thread that sends SIGSTOP and SIGCONT | the manager's hooks, `sched` commands |
| event bus (`eventbus.c`) | ring, `g_total` under a mutex; `events.log` | emit, print, drain, json, init with replay | every thread emits |
| metrics (`metrics.c`) | counters, samples of start times | on_event, percentiles, save, load | called by emit |
| web server (`webserver.c`) | listening socket | one detached thread per request; each API request polls | the list, the ring, the alert table |
| orchestrator (`orchestrator.c`) | services, their states, restart counts | up, down, restart, a monitor thread with health checks and back-off | the manager |
| alerts (`alert.c`) | table of rules and their state under a mutex | set, clear, check | command line and web threads |
| bridge, network (`bridge.c`, `network.c`) | `g_next_ip_host`; the kernel's links and DNAT rules | init, teardown, allocate, attach, forward, release | start and stop, from the command line and the monitor |
| images (`image.c`) | registry file `images.meta` | build, tag, remove, resolve, list | create, the orchestrator |
| filesystem (`filesystem.c`) | root directories with a marker file, `.old_root` | prepare, isolate (pivot_root or chroot) | two threads, children that share a directory |
| resource, security, monitor, logger | none of their own | settings inside the child, reads of /proc, lines of a log | |

**What is hard.** Only the scheduler, the bus, metrics, alerts and the orchestrator's
table of services have a lock: the list of containers is shared with web threads by design
("best-effort snapshot"), but those threads also *write* it through the poll. The
simulator can be killed between any two steps, and its containers survive it. A pid is
trusted as long as a record names it. pause and the scheduler both work with SIGSTOP and
SIGCONT. Signals are sent and lines are written after mutexes are released. SIGINT
interrupts blocking calls (its handler is installed without SA_RESTART), SIGPIPE is not
handled. `PROJECT.json` lists the hazards line by line.

**What makes each part correct.** Manager: no user process escapes the list or the file;
numbers are not given twice; stop and exit end and leave nothing behind. Scheduler: the
list and its index stay sound; targets take turns; nobody stays stopped. Bus: the ring
has the last events, the log all of them, snapshots have no holes. Launcher: parent and
child never wait for each other. Orchestrator: dependencies first, one restart at a time,
bounded back-off. Bridge: an address belongs to one running container, and rules and
links go with their container. Storage: a directory marked as filled is filled, and an
image names the directory given last. Alerts and metrics: every change of a rule is
reported once, and figures agree with what was recorded.

## 2. Modules

| module | models | with |
|---|---|---|
| ContainerManager (+ `_proofs`) | `container.c`, the outcome of each stage of `namespace.c` | the core |
| ContainerWeb | the same with the polls of `webserver.c` | extends ContainerManager; its proofs are in ContainerManager_proofs |
| Launcher | the pipes of `namespace.c` | proofs in Start_proofs |
| Scheduler (+ `_proofs`) | `scheduler.c` and its callers | SeqFilter |
| EventBus (+ `_proofs`), EventLog | `eventbus.c` | EventBus implements EventLog |
| Orchestrator (+ `_proofs`) | `orchestrator.c` | |
| Network | `bridge.c` and the network part of `container.c` | SeqFilter; proofs in Start_proofs |
| Storage (+ `_proofs`), ImageMap | `image.c`, `filesystem.c` | Storage implements ImageMap; SeqFilter |
| Telemetry (+ `_proofs`) | `alert.c`, start-up times of `metrics.c` | |
| SeqFilter (+ `_proofs`) | the loops that drop entries of an array | |

**ContainerManager** is the core. Its state is the list (`state`, `pid`, `nextSeq`), the
metadata file (`there`, `fstate`, `fpid`), the kernel's view (`procs`, `kids`) and the
position of the command line (`cli`). A command is a sequence of steps, cut where the
code makes a call whose outcome the environment decides: the clone, the handshake, each
save, the exec trigger, SIGTERM, the grace loop, SIGKILL with its blocking wait. Between
steps processes exit and the simulator may be killed (`Crash`); `container_manager_init`
reads the file back. `save_metadata` may fail before the rename (the old file stays) or
in the second rename (no file stays). `lost` and `dirty` are history variables: the
processes whose record is known to be gone, and the records that the file may have wrong
because a save failed or the code makes none (a record found dead at startup, a start
that failed before its save and whose stop then failed too).
`Issue` is the poll with which every command begins, so list, stats, inspect and exec
need no action of their own. Container names, limits, ports and time stamps do not
influence the control and are left out. A bridge or port failure is the "term" branch
of `HandshakeReady`.

**ContainerWeb** extends it by the web threads: `WebPoll` may come between any two steps,
and the other actions are what the unlocked code of the command line does when the pid it
works with has become -1 (`kill(-1, ..)`, `waitpid(-1, ..)`). A foreground wait meets the
poll in three places: before its check of the record (`WaitTooLate`), between the check
and waitpid, which then takes any child (`WaitReapsAny`), and while it waits
(`WaitReaped`). A poll is one step: torn reads and two threads writing one temporary file
are not modelled.

**Launcher** takes the stages of a start apart. For each of two concurrent launches it has
the thread (`pc`), the child, the messages in the four pipes, and who holds which end
(`sim`, `fds`): a clone copies every descriptor the simulator has open, so children hold
ends of their own and of the other launch's pipes. Each `pipe(2)` is a step (`OpenPipe`)
and the fcntl that marks `exec_pipe[1]` another (`MarkExec`): exec closes only the ends
that were marked when the child was cloned (`marked`), and the other launch may clone in
between. A child ends by itself (`dead`), by a signal from outside before its exec
(`killed`) or after it (`exited`). A read returns when there is a message or when nobody
holds a write end; a write without a reader is SIGPIPE, which ends the simulator, as does
`Crash`.

**Scheduler** has the thread (round under the mutex, then the two signals without it),
the target list operations, and the commands that use them, including the two loops of
`container_scheduler_refresh_targets` step by step. Containers that were restored at
startup are no children and take the other branch of `sync_container_state`. Foreground
runs are never targets and block the command line; they are left out. The slice length
is left out: a round may come at any time.

**EventBus** has emit in three steps (ring, log, metrics), the readers in their critical
sections, and `NewSession`. main removes `events.log` before `eventbus_init` replays it,
so the replay of `eventbus.h` ("Replays persisted events from events.log into the ring
buffer") finds no line; the model assumes that the removal succeeds. The replay itself
is the operators `ReplayedRing` and `ReplayedTotal`, applied to the empty log by
`eventbus_init` and to every reachable log by the property `ReplayRestores`.
**EventLog** is the abstract bus: a counter and the last `Keep` events. The mapping is
`count <- total` and `recent <-` the slots read in order.

**Orchestrator** has the parsed limits and dependencies of a spec, which may be empty and
of which services past `ORCH_MAX_SERVICES` (`N`) are dropped, `topo_sort` as a recursive
function (its -1 for a cycle is `NoOrder`), `orch_validate`, and the three commands up,
down and restart step by step against the monitor's thread. Each critical section under
`g_lock` is one step, each call into the container manager (made without the lock)
another. `sorted` is the order found by `orch_run`, which down walks backwards; the
monitor's list of restarts is a set that is worked off from the lowest index. The manager
is reduced to boxes that run, have stopped with or without an error, or are gone; the user
starts and prunes containers by hand as well. `out` records what `orch validate` and `orch
graph` answer for a graph chosen from `Graphs`. `1 << restart_count` is computed in
`IntBits` bits with the count taken modulo the width, as x86 does (in C it is undefined
from 31 on). History variables: whose container a box is and how many checks it failed in
a row (`own`, `bad`), which services the user restarted (`restarted`), and whether prune
gave a number again that a service still held (`reused`).

**Network** follows a start through `container_net_setup`: preflight, address (a check of
the pool, a load and a store, since two threads share `g_next_ip_host` and may go one past
its end), link, handshake, one check for an address, the port rules one by one, save,
trigger, with a failure at each of them. A poll or stop of the other thread may clear the
address between the check and a rule: iptables then takes a rule to `:port`, which no
cleanup deletes. The chain of DNAT rules (how often it has each
rule) and the links live in the kernel, outlive the simulator and are removed only by the
code that knows the address, one rule for each entry of the list of ports.
`container_manager_init` marks the addresses of the file as used. History variables name
what the code is known to forget: `leaked` rules, records overwritten by a second start
(`odd`), addresses drawn while both threads were drawing (`twice`).

**Storage** has the registry as a sequence of lines, read (with the limit of records) and
written whole by every command, and a root directory that two threads fill file by file
(`Truncate`, `Write`), mark as filled, and enter. Of the files only the `Tools` must be
found: a missing workload, or a library that ldd did not come to name (its exit status is
not looked at), is passed over (`PassOver`) and the marker is set all the same; `missing`
keeps what the copy that set it had passed over. To enter, `.old_root` is made, pivoted into,
unmounted and removed, with chroot as the way out when pivot_root is refused.
**ImageMap** is what the image commands promise: a map from name and tag to a directory,
with at most `Limit` entries.

**Telemetry** has the table of alert rules, web threads that walk it and release the mutex
to report each change, and the start-up times with their histogram, percentile, save,
load and normalisation. The file may be cut off after any byte: after a line, in its name
(then the line is passed over), or in its number, which loses its last digits (division
by a power in `Tens`; binary digits in the run). `all` keeps the times that the figures
should stand for, `least` what was left of a least time whose digits were cut off.

`MC*` modules instantiate these for TLC, `*_proofs` modules hold the theorems.
A definition `Op_Suffix` marked "Mutant" is a plausible bug of `Op`; each property is
shown to be violated when the mutant takes the place of the original.

**How the modules relate.** Each takes the rest of the system at the interface the code
has: Launcher refines by hand what ContainerManager calls `StartClone`,
`HandshakeReady`/`HandshakeFails` and `TriggerExec`; Network, Orchestrator and Storage
reduce the manager to the states their own code looks at; ContainerWeb composes the
manager with the web threads in one state space.

## 3. Runs

| run | instance | shows |
|---|---|---|
| `manager` | 2 pids, 2 numbers, pids reused | `FreshIds`, `NoForgottenProcess`, `ExecRecorded`, `SavedAtPrompt`, `CleanExit`, `ReapedByOwner`; live: `StopKills`, `ExitEnds` |
| `web` | 3 pids (symmetric), 2 numbers, pids reused | `NoForgottenProcess`, `SavedAtPrompt` with polls in between |
| `web_kill` | 2 pids, 2 numbers | violation: `KillsItsContainer` |
| `scheduler` | 3 containers, any of them restored, 3 commands | `TargetsOK`, `StoppedIsTarget`, `OneAtATime`; live: `NoStarvation`, `JoinReturns` |
| `events` | 2 threads, ring of 2, 4 events | `LogComplete`, `ReplayRestores`, `ReadsCurrent`, `ImplementsLog` |
| `orch` | specs of 0, 1, 2 and 4 services of which 3 are kept, 3 starts, 3 commands; all graphs of 3 services with up to 2 dependencies | `OrderFound`, `NoStrayContainer`, `UnhealthyEarned`, `DownLeavesNone`, `DependencyOrder`, `ForeignUntouched`; live: `DownEnds`, `RestartHappens` |
| `orch_orphan` | 1 service, 4 starts, 3 commands | violation: `DownStopsAll` |
| `orch_backoff` | 1 service, 43 starts, 32-bit int | violation: `BackoffInRange` |
| `launcher` | 2 launches | `ResultTrue`, `DescriptorsClosed`; live: `LaunchReturns`, `WaitersEnd` |
| `network` | 2 containers, 2 threads, 2 addresses, 2 processes, 1 crash | `UniqueAddress`, `RulesMatch`, `LinksOwned` |
| `storage` | 2 names, 2 tags, 2 directories, 2 records, a tool and a library | `RootfsComplete`, `IsolateAlone`, `ImplementsMap` |
| `telemetry` | 2 containers, 2 slots, 2 web threads, 3 samples | `OneRule`, `Balanced`, `ReportsTrue` |

**Bounds.** Two records and two pids are the fewest with which one container's command
meets another's process, a pid is reused across records, and prune winds the numbering
back to a number that was used; `web` has a third pid so that a poll and a waitpid(-1) can
take different ones. Three scheduler targets are the fewest for which removal by swap
moves a target that is neither removed nor first; restored containers run from the start,
so three commands reach any three of on, off, start, stop, pause, unpause. A ring of two
with four events wraps twice, and with a second thread a slot is overwritten while its
event waits to be logged. Two services, one depending (twice) on the other, with three
starts leave one restart after both are up; four services are one more than are kept, with
and without a dependency on the one that is dropped. The order is checked separately over
every graph of up to three services, cycles, repeated, unknown and own names included. 43
starts take `restart_count` past both widths where the shift goes wrong. Two launches are
the fewest that inherit each other's descriptors. Two addresses with two processes exhaust
and reuse the pool after a restart (with a third process the two threads could also
overrun the pool at its last address; that case is left to the proof); the list of ports
has one that is out of range. A registry of two records is full at once, and the empty
name and tag are among the inputs. Times below, in and above the histogram and three
samples tell every percentile apart, and a least time without its last digit is smaller
than any that was recorded. `MaxSeq`, `MaxCmds`, `MaxEvents`, `MaxStarts`, `MaxFails`,
`MaxProcs`, `MaxCrashes` and `MaxSamples` only bound how often something is begun.

**Fairness.** Weak fairness of the command line's own steps once a command runs
(`StopStep`, `CloseVisit`, `CloseEnd`; `CliStep` in Scheduler and Orchestrator), of the
scheduler's and the monitor's threads, and of a launch's thread and its child before
exec: the kernel schedules threads, and none of these steps waits for the user or for a
container (the grace loop counts its ticks). The one call of the monitor that does, a
health check, is not among them: `MonExec` is an action of the environment, and `DownEnds`
and `RestartHappens` exempt a check that hangs. Nothing is assumed of users or processes:
a process may ignore SIGTERM for ever.

**Deadlock** is checked except where a session really ends or a bound is used up
(scheduler, orch, launcher, network).

**What the violations show.**
- `web_kill`: a request to the dashboard while a stop is in its grace period reaps the
  process and sets the pid to -1; the stop then calls `kill(-1, SIGKILL)`.
- `orch_orphan`: `orch restart` and the monitor replace the container of one service at
  the same time. The one that records first is overwritten; its container belongs to no
  service and runs on after `orch down`.
- `orch_backoff`: the back-off is a shift by the number of restarts and only cut from
  above: with 31 restarts it is negative, with 32 it is a second.

**Limits stated in the properties.** Every property holds as it stands; what it exempts is
what the code does not promise or is known to miss:
- `NoForgottenProcess` and `ExecRecorded` exempt `lost` processes: a start of a PAUSED
  container overwrites its pid (only RUNNING is refused), and a failed second rename
  removes the file. `SavedAtPrompt` exempts the `dirty` records, record by record: all
  after a save that failed, until the next one succeeds; those found dead at startup,
  which are not saved; one whose start failed before its save and whose stop failed too.
  Every other change of a record must be in the file when its command ends.
- `TargetsOK` is about the list, not about the two pids that the thread has read and
  signals after it released the mutex. It asks that targets are tracked except for
  restored containers, which the recovery check of `sync_container_state` does not report
  to the scheduler.
  `StoppedIsTarget` and `NoStarvation` hold until pause is used.
- `ReadsCurrent`: a reader takes the mutex once for the total and once for the slots; it
  may print a later event in the place of one overwritten in between, never an older one.
- `NoStrayContainer` and `DownLeavesNone` exempt services that the user restarts (that is
  `orch_orphan`). `ForeignUntouched` exempts numbers that prune gave again.
- `DescriptorsClosed`: a launch given up after the handshake leaves two descriptors open.
  `ResultTrue`: the comment of `read_exec_status` says "EOF (CLOEXEC after execvp) → success"
  (`namespace.c:125`). Not quite: a child killed from outside between its report and
  its exec ends the file as well, and the start is reported as a success; the property
  names that case (`killed`) and allows no other.
  `LaunchReturns` names the two ways to hang, each at the very point: read_status of a
  child killed before its report while the program of another container holds the write
  end of its status pipe (`SilentDeath`), and read_exec_status while such a program holds
  `exec_pipe[1]`, cloned between pipe and fcntl (`ExecUnseen`).
- `UniqueAddress` exempts addresses drawn while the other thread was drawing, too: a
  load and a store of the unlocked counter may lose an update, so that the same address or
  the one after it is given again. `RulesMatch` exempts rules forgotten by a start over an
  address, by prune and by a crash, and rules to `:port` added after the address was cleared.
- `RootfsComplete` exempts what was not found (`missing`, never a tool), and a directory
  that two threads fill at once, until both are done.
- `ReportsTrue`: the least time may be what was left of one that was cut off; it is the last
  line of the file, and `normalize` cannot tell.
- `RestartHappens` asks for another container or a failed start, not only for the delete
  that comes first; its comment lists the exceptions.

**Behaviour seen while modelling that no run is about.** A restored container is no child,
so `waitpid` fails and SIGKILL follows SIGTERM without a grace period. pause leaves the
process a target of the scheduler, which resumes it. SIGSTOP is sent without the mutex
and may reach a process that `sched off` and unpause have left off the list. CPU alerts
never fire: the only caller of `alert_check_sample` (`container.c:2850`) passes no CPU
figure. Alert rules keep a container's number after prune. main removes `metrics.state`
and `events.log` before they would be loaded. An address is not returned when the link
fails. A `bridge_init` that fails half way leaves a link on which the next one fails;
teardown and init leave running containers' links detached. The same host port may be
published by two containers. `timeout_ms` of a health check is not used. An image without
a name is written to the registry and not read back. `image_list_json` shows at most 64
of 256 records.

## 4. Proofs

Each `_proofs` module holds the theorems about one component (Start_proofs about two, the
launch of a process and its network), for every value of the constants within the
assumptions that module states (and TLC evaluates). They all follow one argument: an
inductive invariant `IInv`, which TLC has seen on the run's instance first; `Init =>
IInv`; one case per action for `IInv /\ [Next]_vars => IInv'`; and the property from
`IInv`.

| module | theorem | property |
|---|---|---|
| ContainerManager_proofs | `TypeCorrect`, `IdsAreFresh` | `TypeOK`, `FreshIds` |
| | `NothingForgotten`, `NothingUnrecorded` | `NoForgottenProcess`, `ExecRecorded` |
| | `PromptIsSaved`, `ExitIsClean`, `OwnersReap` | `SavedAtPrompt`, `CleanExit`, `ReapedByOwner` |
| (for `WebSpec`) | `WebNothingForgotten`, `WebNothingUnrecorded` | `NoForgottenProcess`, `ExecRecorded` |
| | `WebExitIsClean`, `WebPromptIsSaved` | `CleanExit`, `SavedAtPrompt` |
| Start_proofs (Launcher) | `ResultsAreTrue`, `NoLeakedDescriptors` | `ResultTrue`, `DescriptorsClosed` |
| Start_proofs (Network) | `AddressesAreUnique`, `RulesAgree` | `UniqueAddress`, `RulesMatch` |
| | `LinksAreOwned` | `LinksOwned` |
| EventBus_proofs | `EveryEventLogged`, `ReadersSeeCurrent`, `ReplayIsExact` | `LogComplete`, `ReadsCurrent`, `ReplayRestores` |
| | `RingImplementsLog` | `ImplementsLog` (EventBus implements EventLog) |
| Storage_proofs | `RootfsIsComplete`, `IsolationIsAlone` | `RootfsComplete`, `IsolateAlone` |
| | `RegistryImplementsMap` | `ImplementsMap` (Storage implements ImageMap) |
| Scheduler_proofs | `TargetsStaySound`, `StoppedStaysTarget` | `TargetsOK`, `StoppedIsTarget` |
| Telemetry_proofs | `RulesAreUnique`, `ReportsBalance` | `OneRule`, `Balanced` |
| | `LatenciesAreTrue` | `ReportsTrue` |
| Orchestrator_proofs | `OrderIsFound`, `DependenciesFirst` | `OrderFound`, `DependencyOrder` |
| | `NothingStrays`, `DownFindsAll` | `NoStrayContainer`, `DownLeavesNone` |
| | `UnhealthyIsEarned`, `ForeignIsSafe` | `UnhealthyEarned`, `ForeignUntouched` |

**ContainerManager.** For every set of pids, every `MaxSeq` and with or without pid reuse
(`NoPid` is no pid, `MaxSeq` is positive, `PidReuse` is Boolean). Neither
`NoForgottenProcess` nor `ExecRecorded` is inductive: a crash turns the file into the
list, so each needs the other, and both need to know what a command in progress relies
on. `IInv` adds that a simulator that is down has an empty list (`DownIsEmpty`), that
from the clone on the command line knows its child, the record names it before the save
and the file before the trigger (`ChildKnown`; a poll may have reaped the child, and then
the record has no pid: `ChildReaped`), that the container a command works on stays listed
(`IdListed`), and that the process is dead when its record is cleared (`FinalIsDead`).
Most actions fall under `QuietStep` (list and file untouched, no new user process) and
`SaveKeepsRecord` (a list that has every process is saved, or not, without harm).
`NextAfterAbove` shows by well-foundedness of < that the CHOOSE of `NextAfter` has a value
above every listed number. For what the file says and what exit leaves, `FileInv` adds
that the walk of `cleanup_all_containers` leaves no user process behind it (`ClosedDead`),
and that between any two steps list and file agree, but for the `dirty` records and the
one that a start has filled in and is about to save (`SavedAlways`).
The same invariants survive the polls of **ContainerWeb**, with pids reused or not.

**Launcher.** For any number of launches. A launch's point decides where its child can be
(`InStep`) and which ends of its own pipes the simulator has open (`TableKnown`); a child
before its exec holds the write end of the exec pipe (`WritersHeld`), so end of file there
means exec or death and nothing else; a report is the child's last word (`ReportTrue`),
and while the simulator lives no child gives up between its report and its exec without a
word (`NoneGivesUp`), which leaves exec and a kill from outside. Other launches' children
hold ends too, which can only delay an end of file, never forge one.

**Network.** For any number of containers, processes and crashes, any lists of ports
(`PortsAssumption`: sequences of integers) and any pool of at least one address
(`PoolAssumption`). While the simulator is down only file and kernel are left, so the
inductive invariant `NetInv` has two halves. `On` relates list, file, chain, links and
processes: addresses are apart unless drawn twice (`Apart`), a process has no address but
its container's (`HeldInv`), the counter and every thread that has loaded it are ahead of
all addresses in use (`PoolInv`), the file agrees with the list on what runs unless a start
is in progress (`FileInv`), a link leads to the process that the record names or to the
child before its handshake (`LinkInv`), and a rule that was added for a running container
is there (`RuleInv`). That no rule is left over is a matter of counting, since two
containers with one address may publish one port and `iptables -D` deletes one rule at a
time: no rule is in the chain more often than there are port entries that will delete it
(`CountInv`, over the set `Owed`). `Off` says the same of the file alone, of what a restart
would take as running (`Survives`). Commands are taken apart into a few changes that each
keep `On` (a process dies, the list is saved, containers are marked as stopped, created,
paused or wiped, a start begins or ends), so that a poll followed by a stop and a save is
three lemmas put together; `EarlyMoves` and `LateMoves` do it for a start on either side
of its handshake.

**EventBus.** For any size of the ring (positive), any finite non-empty set of threads
and any number of events. Every slot holds the last event of those that share it
(`RingOwned`, with arithmetic on remainders: two numbers less than `RingSize` apart have
different slots); every number given out is on one line or with one thread that has yet
to write it (`NumbersOnce`), which by counting makes the log complete once all threads
are idle. For the refinement each step is shown to be a step of EventLog or a stutter
under the mapping of the ring to its last events.

**Storage.** For any names, tags, directories, files and size of the registry. The
registry never has two lines for one image (`KeysOnce`), so reading it back gives the
map of ImageMap. For the directory, what a thread counts as copied is whole or passed
over unless another thread truncated it since (`CopiedFull`), and a child that met no other finds
the `.old_root` it made (`Company`).

**Scheduler.** For any number of containers and commands. The list is a set in some order
with its index inside (`ListOK`), through removal by swap and the filter of
`prune_dead_locked`; a container whose process the thread or a command may stop is in the
list or still ahead of the refresh's loop (`AllCovered`); a child is known to be gone
before it is forgotten (`GoneKnown`).

**Telemetry.** For any containers (the empty name, which marks a free slot, is none of
them), slots and finite set of web threads. `Balanced` is inductive with `OneRule` and
`WalksFor`; the counting lemmas say how a thread that begins or ends a report moves the
sums. For the start-up times `LatencyInv` says that the figures of the session stand for
the times recorded in it, and the figures that would be loaded from the file, however it
was cut off, for the times saved: counts, sum and greatest agree, the least one is that of
the times and of `least`, and a histogram
is exact or, when it was not loaded, short of the count below its last bucket by no more
than the whole. From there the percentile is the least bucket where the running sum
(`Cumulative`) reaches the target. Assumed: the histogram is no longer than the greatest
time accepted, and that is below `ULONG_MAX`.

**Orchestrator.** For every spec and graph over sequences of dependencies
(`TextsAssumption`, `GraphsAssumption`), any number of services in the text and of those
kept, any limits and any number of starts. `topo_sort`
is Kahn's loop: in every round the counts are the dependencies still open, and the queue
holds distinct services behind all of their dependencies (`RoundInv`); when it stops early
the services left out depend on each other, so the spec is refused just when it has a
cycle. None of the properties is inductive. `IInv` says where the list of services stands
while up and down walk it (`SpecInv`: up has started what is before its place, down has
stopped what is behind it), which local variables of the two threads may be stale at which
point (`ThreadInv`), whose each running box is (`BoxInv`: a service's container is the one
recorded, or the one a thread has just started and not yet recorded; numbers not yet given
have no box), and what a count of failed checks stands for (`HealthInv`). A service that
the user restarts is exempt from `BoxInv` from then on, as in the properties.

**Loops over arrays.** The prover has no induction with a property as a parameter.
image.c, scheduler.c and bridge.c drop entries from an array by a loop, the recursive
function `Filter` of SeqFilter; `SeqFilter_proofs` proves what it returns (its length,
which elements in which order, that distinct elements stay distinct, and that the
recursive definition has a value at all) by taking the least place where the claim would
fail, which exists since < on the naturals is well-founded (`UpTo`). The rounds of
`topo_sort` and the running sums of the histogram are treated in the same way.

**Only model-checked.**
- Everything live (`StopKills`, `ExitEnds`, `NoStarvation`, `JoinReturns`, `LaunchReturns`,
  `WaitersEnd`, `DownEnds`, `RestartHappens`, and `OneAtATime`, which says what holds in the
  long run): fairness is out of the prover's reach.

## 5. Plan

*Done:* ContainerManager, ContainerWeb, Launcher, Scheduler, EventBus/EventLog,
Orchestrator, Network, Storage/ImageMap, Telemetry, and the proofs of every safety
invariant that a run checks. *Left:* what section 6 lists.

## 6. Not modelled

- `resource.c`, `security.c`, `network.c`, `monitor.c` and `logger.c` make system calls
  inside the child or read and write files and keep no state that a later step depends
  on; their failures during a start are `Setup` of Launcher and `HandshakeFails`.
- The reports (list, stats, inspect, logs, JSON, doctor) only format what the state
  holds. The dashboard and the demo workloads are clients.
- The scanner for JSON in `orchestrator.c` and the parsing of the command line's
  arguments: conversions of text, of which only the results (limits, dependencies, ports)
  matter here. Two services of the same name.
- Two threads that start, stop or prune the same record at once, two threads writing the
  temporary metadata file, and torn reads of the list: the code has no lock there, and
  every outcome would be possible.
- The counters of metrics by type of event, and CPU rules, which are never sampled.
