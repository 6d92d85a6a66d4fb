# ruri in TLA+

ruri runs Linux containers without a daemon: one invocation of `ruri` sets up a
container in a directory and runs a command in it, by `chroot(2)` alone, in
namespaces of its own (`-u`), or in a user namespace when it is not root. This
directory holds a specification of it: TLA+ modules translated from the C code,
the model-checking runs of TLC, and proofs checked by TLAPS. Paths below are
those of the repository's `src/` directory.

| module | what it is |
|---|---|
| `Lifecycle` | the processes of one invocation and the pid file they keep |
| `PidFileStatus` | what a reader of the pid file is promised; `Lifecycle` implements it |
| `Lifecycle_proofs` | theorems about `Lifecycle` |
| `Rurienv` | several invocations on one container directory, and `.rurienv` |
| `Rurienv_proofs` | theorems about `Rurienv` |
| `Privileges` | what the process that becomes the command gives up, and in which order |
| `Privileges_proofs` | theorems about `Privileges` |
| `Mounts` | the mounts on a container directory, and `ruri -U` |
| `Mounts_proofs` | theorems about `Mounts` |
| `Cgroup` | the cgroups starts join and limit, and whom `ruri -U` kills through them |
| `Cgroup_proofs` | theorems about `Cgroup` |
| `IdMap` | how a rootless container gets its id maps |
| `IdMap_proofs` | theorems about `IdMap` |
| `ConfigFile` | the settings of a container, and what `-D`, `-c` and `-C` make of them |
| `Arguments` | `parse_args()`, and a caller who runs one command after the other; extends `ConfigFile` |
| `Arguments_proofs` | theorems about `Arguments` and `ConfigFile` |
| `K2vText` | a config file as text: the writers, and what both readers share |
| `K2v3` | libk2v3's parser, which `-c` and the readers of `.rurienv` use |
| `K2v` | libk2v's lookup, which `-C` uses |
| `ConfigText` | `K2v3` and `K2v` together |
| `ConfigText_proofs` | theorems about `ConfigText`: `K2v3` and `K2v` |
| `MC*` | instances for TLC, one `.cfg` per run |

## 1. Inventory

### The parts, their state and their operations

| part | code | state | operations |
|---|---|---|---|
| supervisors | `ruri.c` `ruri()`, `unshare.c`, `rootless.c` | where ruri is; the child it waits for | start the helpers, create or enter namespaces, fork, store `.rurienv`, report pid and exit status |
| pid file daemon | `watchdog.c` `ruri_setup_pid_file_daemon()` | the file, its write lock, a SEQPACKET socket | lock, write each message, read back at end of file, umount |
| timeout watchdog | `watchdog.c` `ruri_setup_timeout_watchdog()` | a pid to watch, the time | poll, report, kill, umount |
| container process | `chroot.c` | its phase, mounts, root, user, capabilities | mount, `chroot`/`pivot_root`, drop privileges, exec |
| fork-as-init | `watchdog.c` `ruri_fork_as_init()` | one child, the parent death signal | fork, collect children, exit |
| registry | `rurienv.c` | `DIR/.rurienv`: ns_pid, container_id, mount points, settings | store, read, discard, look the pid up in `/proc` |
| namespaces | `unshare.c` | the namespaces of a process | `unshare(2)`, `setns(2)` |
| umount | `umount.c` | mounts under the directory | remove `.rurienv`, unmount, kill |
| process list, kill | `ps.c` | `/proc` | list, find by root or cgroup, kill |
| rootless id maps | `rootless.c` | uid and gid maps, two sync pipes | newuidmap/newgidmap or `/proc/PID/uid_map` |
| container setup | `chroot.c` | devices, masks, environment, ids, capabilities | `init_container()`, `change_user()`, `drop_caps()` |
| mounts | `mount.c` | the mount table | mount by type, remount, loop devices |
| cgroups | `cgroup.c` | v1/v2 groups named by container_id | detect, limit, join, kill |
| capability list | `caplist.c` | an array with an end mark | add, remove, build |
| configuration | `config.c` | a k2v file | read, write, correct |
| arguments | `ruri.c` `parse_args()`, `check_container()` | `struct RURI_CONTAINER` | parse, imply, exclude, check |
| panic handler | `signal.c` | - | print, die |
| seccomp | `seccomp.c` | a table of rules | load |
| text | `k2v.c`, `k2v3.c`, `passwd.c`, `cprintf.c`, `elf-magic.c`, `info.c`, `rurifetch.c`, `easteregg/` | - | parse or print |

### How they interact

```
            fork x2                      socket: PID, EXIT, SIGNALED, PANIC_*
  ruri() -----------> pid file daemon <------------------------------------.
    |  \                    | lock, write, umount                          |
    |   \ fork x2           v                                              |
    |    `------> watchdog --SIGKILL/USR1--> ruri()      pid file          |
    | fork                 `--umount                                       |
    v                                                                      |
  container process --(--fork-as-init: fork)--> job ----------------------'
        |
        |  DIR/.rurienv  <--- store --- supervisor
        |                <--- read, discard --- another ruri on DIR
        `                <--- remove, kill ns_pid --- ruri -U, automatic umounts
```

The processes share four things: the socket, of which the daemon learns the end
only when every sender has closed it; the pid file, under a lock readers are
told to wait for; `.rurienv`, which nothing locks; and pids, which are looked up
again later.

### What is hard, and what makes each part correct

* The pid file must be right about a container whose processes report in any
  order, are killed, fail half way or never speak: `TruthfulReport`,
  `OutcomeIsReported`, `KeepsPidFilePromise`.
* It must be completed at all, although the end of file hangs on descriptors
  held by four kinds of processes: `EndIsPublished`.
* Umounts are started by the daemon and by the watchdog, unasked by the
  processes that mount: `NoUmountUnderSetup`, `UmountOnlyWhenAsked`,
  `UmountHappens`.
* A timeout has to reach the command through a supervisor:
  `TimeoutUmountKills`.
* A directory is to have one container, and entering it or ending it must not
  go by what was true a moment ago: `SameNamespace`, `UmountIsComplete`,
  `JoinedIsWhole`.
* Capabilities, ids, filters and flags are given up by one call each, and each
  call needs what an earlier one may have given up, or makes a syscall that an
  earlier one may have denied: `CommandKeepsToCaplist`, `AskedUserIsWhole`,
  `FilterIsInForce`, `CommandIsLocked`; and `ForcePanicKeepsNothing` where a
  failure is to end ruri.
* Mounts stack, their results are hardly looked at, and a mounted `/proc` is all
  that says a setup is done; still nothing must be mounted twice, be missing
  without a warning, or be left in numbers by `-U`: `NeverStacked`,
  `MountedOrWarned`, `RunningIsMasked`, `UmountTakesMost`.
* A cgroup is named by the time of day, and outlives its container:
  `LimitedOrWarned`, `KillsOnlyOwn`, `NobodyOutlivesUmount`.
* Id maps are written once, by one of two processes that speak through pipes:
  `MapsAreMade`, `NobodyWaitsForEver`.
* An option is parsed in two places, and a setting written by one list of calls and
  read by two others: `SpellingsAgree`, `SettingsSurvive`, `CorrectedFileIsAccepted`.
* Two parsers read what one writer writes without escapes: `ReadBackOrRefused`,
  `PlainIsCorrected`, `ParserEnds`.

`PROJECT.json` lists the hazards one by one at their lines, with the properties
that cover them or the reason why none does yet.

## 2. The modules

### Lifecycle

One invocation of `ruri`. A configuration (`cfg`) says in which of four modes it
runs ("chroot", "unshare", "join", "rootless") and which of the options were
given that change who does what; `Init` chooses it and nothing changes it. One
variable says where each process is:

| variable | process | code | values |
|---|---|---|---|
| `sup` | ruri and its supervisor | `ruri.c` 1505-1544, `unshare.c` 102-140 and 259-291, `rootless.c` 480-521 | start, sync, watch, launch, announce, stored, release, wait, reported, exited, killed; "waitchild" and "daemon" only after a failed fork |
| `daemon` | pid file daemon | `watchdog.c` 212-350 | open, lock, loop, write, write_unknown, release_*, umount, exited |
| `watch` | watchdog | `watchdog.c` 123-155 | poll, fired, umount, stopped, expired |
| `cont` | container process | `chroot.c` 896-1080, `rootless.c` 523-531 | gate, setup, mounted, no_qemu, exec, panic, init, orphan, running, dead |
| `job` | the command under `--fork-as-init` | `watchdog.c` 406-442 | exec, panic, running, dead |

`queue` is the socket, `pidFile` the line in the file ("empty" between
`ftruncate()` and `write()`), `locked` the write lock, `okSent` and `released`
the two sync pipes, `installed` whether mounts of the host or `.rurienv` are left
in the directory, `status`, `jobStatus` and `exec` how things ended, `reaped`
whether ruri's own parent has collected it, which is when its pid stops answering
`kill(pid, 0)`. Messages are records of a kind and a number; the text of the
lines is left out, and prefixes are tested as kinds.

Choices of the model that a reader of the code should know:

* Who holds the sending end of the socket (`SupHolds`, `ContHolds`, `JobHolds`,
  `WatchHolds`) is a function of where the processes are, because the code closes
  it at fixed places: exec (close-on-exec), `ruri_fork_as_init()`, exit.
* A `fork(2)` that fails is modelled where the helpers start (`forkMayFail`),
  because the code has no branch for it there: `ruri` then runs the child's code.
  After a failed second fork of the daemon ruri waits for a daemon that waits for
  ruri; that is `Stuck`, which `Done` counts as an end. Failing forks of the
  container process and of `--fork-as-init` are `LaunchFails` and `ForkAsInitFails`.
* `noSocket` and `noSync` are a `socketpair(2)` and a `pipe2(2)` that fail. Without a
  socket no report arrives, and the daemon ends at its first, failing read; without a
  pipe ruri takes the daemon for one that gave up.
* `ruri_error()` in the container process is one action per place where it
  matters: before its pid is sent, after a failed exec, at the rootless gate, and
  after `check_binary()`, which unmounts the container first when QEMU is missing
  (`CheckBinary`, `chroot.c` 92-118), whatever the umount options. It is the third
  disjunct of `UmountOnlyWhenAsked`, and such a start never runs a command.
* `selfBind` is whether a plain container's directory is mounted on itself, as
  `chroot.c` 604 has it, or that mount has failed, at which nobody looks. The process
  has that mount for its root, and an umount detaches it (`umount.c` 172-181) before it
  looks for processes by their root (186): `/proc/PID/root` reads "/" by then. So a
  chroot command is reached only where the self-bind has failed (`FoundByRoot`), and
  `TimeoutUmountKills` is about that case and about namespace containers.
* A crash of `ruri`, whose handler in `signal.c` only prints, is `ExternalKill`.
* The container's pid namespace is taken to be supported in the modes that have
  one. Background mode (`-b`) and the plain `--fork` are left out.
* `UmountContainer` is `ruri_umount_container()` as the daemon and the watchdog
  call it: which processes it reaches depends on the mode, on `.rurienv`, on the
  self-bind and, when ruri is not root, on whether the kernel lets it look at the
  process (`UmountReaches`); with a cgroup it ends the supervisor of a namespace container
  as well (`SupInCgroup`). It takes one step.
* A timeout may strike at any moment that the watchdog polls.

### PidFileStatus

The abstract pid file: a line and a lock. The daemon claims the lock with the
start line; lines then only go forward (init, pid, end, panic); the lock goes
once, at a final line, and nothing is written after it. `Lifecycle` implements it
under the mapping `line <- ShownLine, held <- locked`: a line that is being
written counts as written, since readers wait for the lock.

### Rurienv

Several invocations on one directory, started by root: `ruri -u` (`Starts`) and
`ruri -U` (`Umounts`, which the automatic umounts of `Lifecycle` are as well).
`pc` is where each is, `ns_pid` the pid it read or forked, `procs` what every pid
is at present, `info` the ns_pid in `.rurienv`, `ns` which container's pid and
mount namespaces a start has entered.

| action | code |
|---|---|
| `ReadInfo`, `DiscardInfo` | `ruri_read_info()`: the look into the file and into `/proc`, and the removal of a stale file as a second step |
| `Create`, `CreateFails` | `init_unshare_container()` up to its fork |
| `StoreRemove`, `StoreWrite` | `ruri_store_info()`: the old file goes, the new one is written, unless an immutable one is there by then |
| `Reap` | the supervisor's `waitpid()`: the pid is free |
| `JoinPidNs`, `JoinMntNs`, `JoinFork` | `join_ns()`: first and last `setns(2)` and the fork; the other namespaces behave as the pid namespace does and are one step with the last |
| `UmountReads`, `UmountRemoves`, `UmountKills` | `ruri_umount_container()`; the umounts between the last two change nothing here |
| `ContainerEnds`, `ForeignStarts`, `ForeignEnds` | the world: commands end, pids are used again |

`IsRuriPid` is `is_ruri_pid()` as it is: any process in another mount namespace.
`Serial` and `Reuse` are assumptions about the world and not switches of the
program: whether the callers run one invocation at a time, and whether the kernel
gives a pid out again. What an umount kills by cgroup are, besides the container,
the invocations on their way into it, any of them (a cgroup is optional).

`SameNamespace` and `UmountIsComplete` are of callers in turn: two first starts at a
time, a start between the removal of a stale file and the next, or one during a `-U`
make them false (sections "Met while modelling" and the hazards).

Left out of `Rurienv`: plain chroot containers, whose `.rurienv` has ns_pid -1;
rootless ones; entering a running container without `-u`, which
`ruri_get_ns_pid()` turns into `-u`; the other contents of the file. Writing the
file and making it immutable is one step.

### Privileges

One process, from the options to exec. `pc` is the call that comes next. `asked`
(the options), `host` (what the kernel and `/etc/passwd` allow) and `began` (the
credentials ruri was started with) are chosen by `Init` and stay. The rest is what
the calls change: `caplist` is `container->drop_caplist`, `filters` the loaded
seccomp filters, `cred` ids, groups, the five capability sets and the two flags
that outlive exec, `calls` what `change_user()` has still to call.

| action | code |
|---|---|
| `ReadConfig` | `ruri_read_config()`, as far as drop_caplist goes |
| `BuildCaplist` | `ruri_build_caplist()` at the end of `parse_args()` |
| `SetupSeccomp` | `ruri_setup_seccomp()`, whitelist or blacklist |
| `DropCaps` | `drop_caps()` |
| `SetNoNewPrivs`, `SetSecurebits` | the `prctl(2)` calls of `ruri_run_chroot_container()` |
| `ChangeUser` | `change_user()` up to its choice of a branch, with the groups cleared first |
| `SetIds` | one of the `setgroups(2)`, `setgid(2)`, `setuid(2)` calls of that branch |
| `ExecCommand` | `execvp(3)` |

`ruri_run_rootless_container()` makes the same calls in the same order, so one
module stands for both; ids that the user namespace does not map are
`~host.mapped`. `After` is that order, and two of the slips change it.

The kernel is a part of the model, under "The kernel", and marked external:
capabilities(7) as far as `setuid(2)`, `execve(2)`, the bounding, ambient and
inheritable sets go, and when `seccomp(2)` loads a filter. A denied syscall kills,
fails or, with ERRNO(0), succeeds without effect ("fake"). The filters hold for
ruri's own calls from `SetupSeccomp` on, which is why `Passes`, `Kills` and
`Fakes` are in every later action.

* The built-in rules are one item ("blacklist", "whitelist"): which syscalls they
  name is data, and none of them is one that ruri still has to make.
* What libseccomp keeps of a syscall that the whitelist allows and `-X` denies is
  left open (`Whitelists`).
* The words of `-E` are its cases: no `-E`, "0", another number, a name.
* `host.line` is the user's line in `/etc/passwd`. `line_get_uid()` and
  `line_get_gid()` give 0 for a field they do not find, also in a last line without a
  newline, and do not look whether a field is a number (`Garbled`); RURI_PWD_ERRNO is 0
  all the same. `TargetUid`, `TargetGid` and `GroupsRead` have what comes out of that.
  `AskedUserIsWhole` and `ForcePanicKeepsNothing` except such a line (`IsMisread`):
  there the command is not the user that was asked for, and nothing ends ruri.
* Left out: a denied `capget(2)`, after which `drop_caps()` works on memory that
  was never written; rules on `close(2)`; rules that depend on capabilities;
  failures of `seccomp_rule_add()`; files that are set-user-id or have
  capabilities.

### Mounts

Several invocations on one directory, in the mount namespace of the host: starts
of chroot containers (the setup of a namespace container is the same calls, in a
namespace that goes with it) and `ruri -U`. `layers` are the mounts on the
directory, one over the other, the first one the bare directory; each has a stack
of mounts on every place below it. `own` is what the tree has at each target,
which `mk_mountpoint_dir()` and `touch_mountpoint_file()` change and `-U` removes
again; `stored` the list in `.rurienv`; `loops` the loop devices. `loc` has the
locals of each invocation, with the layer it has called `chroot(2)` on, which later
mounts do not cover for it.

| action | code |
|---|---|
| `Begin`, `CheckBinary` | the test for procfs; `check_binary()`, which unmounts the container when QEMU is missing |
| `MountRootfs`, `MountSelf` | `mount_rootfs()`, of a device or an image; the directory bound on itself, or not |
| `Extra`, `NextExtra`, `ExtrasDone` | the loop over `-m` and `-M` |
| `MakeMountpoint`, `Attach`, `Losetup` | the two halves of `ruri_trymount()`, by the kind of source |
| `StoreInfo` | `ruri_store_info()`, the mount points only |
| `MountHostRuntime`, `MountRoRoot` | `-S` and `-R` |
| `Chroot`, `InitProc`, `InitSysDev`, `InitMasks` | `init_container()`, with a step wherever a kill leaves something else |
| `BeginUmount` ... `UmountSystem` | `ruri_umount_container()`: the file, the targets, the system directories |
| `UmountReadMounts`, `UmountLines`, `Umounted` | `umount_subdir()`: its pass over `/proc/mounts`, piece by piece |
| `Leave`, `Die`, `Reboot` | commands end, ruri is killed, the host starts anew |

A mount of one kind is one value, whatever file systems it tries. Options of
mounts are left out except read-only; `mount(2)` failing is a choice where its
result changes what happens. `trouble` counts what has gone wrong, so that a
property can say for which of it it holds; `Alone` is "no two at work at a time".
It stands in `UmountTakesMost`, too: a start that overlaps an umount can leave a
mount on the bare directory, below all layers, which no later umount reaches while a
new layer lies over it. That takes four commands. So does "unbound", a self-bind that
failed (`chroot.c` 604 does not look): the rest of that start is on the bare directory.

`umount_subdir()` reads `/proc/mounts` with `getmntent()`, so in pieces, while its own
`umount2(2)` takes lines out of it: `UmountReadMounts` reads a next piece of any
length, behind as many lines as were read before, and `UmountLines` unmounts what the
lines of the piece are about; a line that has moved up meanwhile is missed. What is left
then is at most as much as was taken, which is what `UmountTakesMost` says. The rounds
before that take ten or nine layers, so a directory with up to ten is left empty.

`mount_device()` returns 0 and has tried nothing when `/proc/filesystems` lists nodev
types only (`mount.c` 89, 144): left out, a host has some file system for devices.

### Cgroup

Starts and `ruri -U` on several directories. `version` is where the host has each
controller, `group` the limits in each directory of each hierarchy, `info` the
container_id in `.rurienv` and whose container it is, and `loc` each invocation's
place, id and cgroups. A day has `MaxId` seconds. `LimitMkdir`, `LimitAttach` and
`LimitWrite` are the three parts of each `ruri_set_*_limit()`, `SetupCgroup2` and
`JoinCgroup2` the calls of `unshare.c` in systemd mode, `UmountRead`, `CgroupKill`
and `ScanAndKill` the way of `-U`: the id, `cgroup.kill` with `rmdir(2)`, and the
look through `/proc` for processes of the cgroup or with the directory for their
root. Between the first two comes `UmountDirectory`: `bound` are the directories that
are mounted on themselves, `mounted` those with a procfs, which is what makes a plain
start enter instead of begin, and `root` is what a chrooted process has for its root:
the mount, the directory itself where the mount has failed, or, after
`UmountDirectory`, a mount that is detached and matches no path. A plain container has
no ns_pid, so `-U` does not take its id either: `NobodyOutlivesUmount` is about
everybody else, and the run `umount_kills` shows one of these alive. The value of a
limit is left out: it is set or not. A `mkdir(2)` that fails shows as the attach that
fails then; that the kernel may refuse an attach goes for systemd mode too
(`UpInCgroup2`), where nobody looks.

### IdMap

Rootless starts of one user on one directory. Each has three processes: ruri
(`pc`), the helper that runs newuidmap and newgidmap (`helper`) and the one that
becomes the container (`cont`); `writers` and `writers2` say who has the writing
end of the two sync pipes, `sent` which were written. A stale `.rurienv` is removed in a
step of its own (`RemoveInfo`), and each `pipe2(2)` and `fork(2)` may fail (`ForkHelper`,
`Fork`). `map` are the maps of each
user namespace. `ns` is whose namespaces a start is in: its own, or those of a
container it entered by `info`, the ns_pid in `.rurienv`. Kills strike ruri and
the helper anywhere; that of the first process of a pid namespace takes all in it
along (`Gone`). `Lifecycle` has the same start with the helper left out; its phase
"gate" is `cont` between "ready" and "running" here.

### ConfigFile and Arguments

`ConfigFile` has no state: a container is a function from the fields of `struct
RURI_CONTAINER` to values, a file one from keys to values. `InfoToK2v`, `Accepts`
and `ReadConfig`, and `Corrected` are `ruri_container_info_to_k2v()`,
`ruri_read_config()` and `ruri_correct_config()`. `Slots` is the declared room of
each array, which need not have any for the end mark; `Behind` what the mark
overwrites when it has not. A number in a file may be none (`Garbled`), or not fit an
int (`TooLarge`, of which `atoi()` makes `WrapsTo`): `-c` takes the first for 0, but not
in `Longs`, and refuses the second; `-C` takes both. The end mark of `drop_caplist` is
written behind each entry only, so an empty list leaves the one `ruri_init_config()`
made (`config.c` 443-459, 599-614): `SettingsSurvive` says so, of `ruri_read_config()`;
no list lasts until the start, since `ruri.c` 1391 builds it anew.

`Arguments` is `parse_args()` as a state machine over words. A word is an option
with its operands, alone or among letters behind one dash, and `last` says that
nothing follows: both spellings have tables of their own (`AloneFlags`,
`CombinedFlags`, ...), since the code has two translations, and how each checks for
its operands is a table, too (`AloneCheck`, `CombinedCheck`); `Letters` are the options
with a letter. An action per kind of
word, then `DumpConfig`, `CorrectConfig`, `Start` with `check_container()`, and the
caller: another command, or a change of the file by hand (`RemoveKey`,
`GarbleValue`, `ShortenArray`, `MisspellCap`). What prints and exits is one outcome.
Lists of capabilities have none twice, as `ruri_add_to_caplist()` keeps them; which
file there is at first, and what is done to it, is anything of the kind `IsFile` says.

### K2vText, K2v3, K2v and ConfigText

Here the text is the matter: quotes, brackets, commas, comments and backslashes
decide what a reader finds, so values are sequences of characters. `K2vText` has
`char_to_k2v3()` and its like. `K2v3` is `k2v3_parse()` as a state machine: `pos` is
`conf`, `phase` the function it is in, `node` and `cache` the key and the list it
fills; a warning ends the program, as `ruri_read_config()` and `ruri_read_info()` ask it to
("refused"); `ruri_get_ns_pid()` (`rurienv.c` 75, from `ruri.c` 1421) does not ask, and
takes the ns_pid it finds in such a file. `K2v` is the older library,
which looks each key up in the lines it thinks sound: operators on texts without
state. `ConfigText` extends both, so that one text goes through both.

## 3. The runs

| run | module | instance | shows |
|---|---|---|---|
| `lifecycle` | Lifecycle | all modes and options, ruri may be killed; forks, open, lock, socket, pipe and self-bind may fail, QEMU may be missing; fair | types; the pid file is true, complete and in order; umounts come late enough and only when asked for; the end is published, asked-for umounts happen, a timeout with `--umount-on-panic` ends the command of a namespace container |
| `serial` | Rurienv | 3 starts, 2 umounts, 3 pids, in turn, pids reused | one container per directory, `-U` leaves none |
| `concurrent` | Rurienv | 3 starts, 1 umount, 3 pids, interleaved, pids used once | who enters a container is in it altogether |
| `privileges` | Privileges | every `-E`, with and without `-g`; `-p`, `-d`, `-k` over a config; filters and flags; a call denied by `-X` or refused by the host; a passwd line that is cut or gone; ruri with an inheritable capability or without one of the others | the command has lost what is listed and nothing else, is no half a user unless its line is misread, and has its filters and flags; force_panic is strict |
| `mounts` | Mounts | 2 invocations, 3 commands, every kind of source, a kill, a failing mount or self-bind, a reboot or an overlap; `/proc/mounts` in any pieces | no target is mounted twice, none is missing without a warning, commands have the masks asked for, `-U` takes its rounds and at least half of the rest |
| `cgroup` | Cgroup | 2 starts, a `-U`, 2 directories, 2 ids, 3 kinds of host | limits are in force or were warned of, `-U` kills its own, and all of them but those whose root it has detached |
| `idmap` | IdMap | 2 rootless starts, 2 kills, pipes, forks, newuidmap and newgidmap may fail, fair | commands run and starts enter with whole maps; nobody waits for a process that ended |
| `settings` | Arguments | commands of up to 3 words, of which one is unusual, a change of the file by hand | the spellings agree, settings survive `-D` and `-c` but for an empty drop_caplist, `-C` makes files that `-c` takes; arrays end |
| `text` | ConfigText | values of up to 2 characters, a file with up to 2 changes by hand, fair | plain values are read back by both readers, others refused, the parser ends |

Three more runs find what the documentation and the comments say and the code does not do
(`findings` in `PROJECT.json`):

| run | property | what happens |
|---|---|---|
| `timeout` | `TimeoutKillsContainer` | a timeout kills the supervisor only; a chroot container's command runs on |
| `umount_kills` | `UmountKillsAll` | a plain chroot command survives `ruri -U`: the mount that is its root is detached before processes are looked for by their root, and the id of a plain container is not taken |
| `privileges_skip` | `SkipSetgroupsTakesUids` | `-g -E <uid>` calls `setgroups(2)` after `setuid(2)`, which fails and ends ruri |

### Met while modelling

Where code, comments and documents do not agree, or the code does what its callers
may not expect. The modules have it as the code does it; no run is kept for it.

Reports and ends:

* A chroot container killed by signal 15 is reported as RURI_SIGNALED_143
  (`ruri.c` 1530); `doc/USAGE.md` 498 says "which is the signal number". Rootless
  supervisors report 128 + signal, too.
* After a timeout the daemon exits without the umount of `--auto-umount`
  (`watchdog.c` 282).
* SIGUSR1 goes to the supervisor (`watchdog.c` 139), not to the init process of
  `--fork-as-init` that has a handler for it (411): an init process that outlived
  the supervisor before it armed its parent death signal is ended by nothing.
* When the daemon's second fork fails (`watchdog.c` 208), the child ruri waits for
  becomes the daemon, which waits for the end of ruri's messages.
* The pid file is truncated before the lock is tried (`watchdog.c` 235): a second
  ruri with the same pid file empties the first one's. `ps.c` 335 reads "EXEC"
  where `watchdog.c` 64 writes RURI_PANIC_EXE.

Entering and ending containers:

* Two first starts at a time create two containers (`unshare.c` 110 and 332);
  `doc/rurienv.md` 26 has the second one join. A start between the removal of
  `.rurienv` and the kill of `-U` is left, and forgotten (`umount.c` 113-190).
* `is_ruri_pid()` (`rurienv.c` 66) takes any process in another mount namespace for
  the container: a reused pid is entered, or killed by `-U`.

Privileges:

* `-X` alone loads the user's rules, then the built-in ones on top (`seccomp.c`
  1215-1219, `doc/USAGE.md` 422).
* drop_caplist of a config file is overwritten by the list built from the arguments
  (`ruri.c` 1391, `doc/USAGE.md` 71).
* `-E 0` is looked up as a name and refused (`chroot.c` 748).
* A line of `/etc/passwd` with a field missing, or the last one without a newline, gives
  uid 0 or gid 0, and a uid that is a word some number, without an error (`passwd.c`
  67-134): `-E name` then runs the command as root, force_panic or not.
* `drop_caps()` clears the first word of the inheritable set only (`chroot.c` 516).

Mounts:

* `umount_subdir()` changes `/proc/mounts` while it reads it in pieces (`umount.c`
  43-69): of what the rounds before have left it may miss every second mount.
* A start that is killed between the mount of `/proc` (`chroot.c` 258) and the
  masks, or that another one overlaps, leaves `/proc` mounted: later starts run
  unmasked (`doc/init.md` 37-38).
* When `losetup()` finds no device `ruri_trymount()` returns -1 before the bind mount
  (`mount.c` 560); `doc/mount.md` 31 says "If the source is a file that is not a
  recognized image, it will be bind-mounted as a file at the target." No loop
  device is given back, and between LOOP_CTL_GET_FREE and LOOP_SET_FD another
  process can take it.
* When the remount fails a `-M` mount stays, writable, with a warning.
* `remove(3)` at the targets (`umount.c` 159, "Not rmdir(), so directory will not be
  removed.") removes an empty directory, or a file, of the container's own.
* A start with `-a` whose QEMU is missing unmounts a container that runs
  (`chroot.c` 102-114). `-j` never stores targets, so placeholders stay. `.rurienv`
  outlives a reboot, after which `-U` removes the container's own entries.
* `dir[strlen(dir)] == '/'` in `umount_subdir()` is never true.

Cgroups:

* With cgroup v1 the process is attached to its cpuset before cpus and mems are
  set, which the kernel refuses: the limit never applies, with a warning
  (`doc/USAGE.md` 297).
* The directories of plain and of v1 containers are never removed; a later container
  with the same id has the limits of the earlier one, and in systemd mode does not
  start (`unshare.c` 298). Two containers of one second share a cgroup, and `-U` of
  one kills both. `-U` of a directory without `.rurienv` takes the present time for
  the id. `rmdir(2)` directly after `cgroup.kill` may be too early.
* The supervisor of a namespace container is in its cgroup: `-U` makes its status
  RURI_EXIT_UNKNOWN.
* `doc/USAGE.md` 325 has `-j` set up no limits; `chroot.c` 951 does.

Id maps:

* `rootless.c` 61 says "If this function failed, we will use set_id_map()"; when
  newuidmap worked and newgidmap did not, the second write of the uid map fails and
  the start ends. WEXITSTATUS() of a helper that was killed is 0, which counts as
  success: that container has no maps.
* A start that enters a container runs the setup again: mounts and masks stack.

Arguments and files:

* Two arrays have no room for their end mark at their limit. That of char_devs is
  in hidepid, that of deny_syscall in oom_score_adj: the mark resets that option,
  and a later `-i` or `-O` removes the mark, after which the array has no end.
* An option whose operand is checked late (`-q`, `-o`, `-L`, `--pid-file`,
  `--timeout`) refuses an operand that is the last argument. `-x` among letters does
  not unshare (`doc/USAGE.md` 369); `-I` with major number 0 and the short names of
  `-d` differ between the spellings, too.
* Of a command with more than RURI_MAX_COMMANDS words one is lost and the rest are
  parsed as options of ruri (`ruri.c` 874, whose comment in 871 is about the check).
* enable_unshare is written and never read (`config.c` 189). `-C` does not read
  user, deny_syscall, masked_path, enable_tty_signals and skip_setgroups, and what it
  does not read is lost; for an unknown capability it says "we build a default one"
  (`config.c` 605) and keeps a part of the list. An empty drop_caplist, as `-p -D` writes
  it, is read by both as the default one. `-D -o` and `-C` remove the file
  before they write it.
* `char_array_to_k2v3()` (`k2v3.c` 1133) writes values as they are: an empty element,
  or one with a quote or a backslash, gives a file `-c` refuses or reads as another
  value; `doc/USAGE.md` 71 says "so next time you can just use the config instead
  of the `-k cap_sys_admin -d cap_sys_chroot` arguments."
* libk2v reads the first element only of an array that has no space behind its
  commas (`k2v.c` 1156-1193): `-C` empties such lists. In libk2v3 a comment behind a
  value of several lines sends the parser back to its first line (`k2v3.c` 508-516).

### The bounds

* `Lifecycle` has no bound besides the configurations, two exit codes and one
  signal: the processes are a fixed number and each is over after finitely many
  steps. One exit code that is zero and one that is not, and one signal, tell
  apart everything the code does with them. ContPid is one number: there is one
  container process. `lifecycle` takes every combination of the
  options that interact; those that only restrict (no pid file, nobody kills) are
  added once per mode. Faults come by kind: the helpers' forks, open and lock in any
  combination, and a missing socket, pipe, self-bind or QEMU one at a time.
* `Rurienv`: each invocation acts once. Three starts are one that creates, one
  that enters and one that comes after; two umounts are needed for one to find
  what another has left; three pids let every start have one of its own, and with
  `Reuse` a pid serves several containers and other programs. Starts, umounts and
  pids are symmetric and no property tells them apart.

* `Mounts`: three commands are a start, one that finds or repairs what it left, and
  an umount or another start; two of them may run side by side. `Rounds` and
  `SystemRounds` are 1 where the code has 10 and 9: fewer rounds leave more to the
  pass over `/proc/mounts`, and it is there that `-U` may miss something. The proof is for
  any number. Two loop devices are used up by one setting. The six settings between
  them take every branch; each kind of trouble comes alone.
* `Cgroup`: a day of two seconds has both ids that collide and ids that do not. Two
  directories and two starts are a container and another one, or one that enters;
  the hosts are v2, a mixture with the memory controller in a unified hierarchy, and
  v1 without it.
* `IdMap`: two starts are the one that makes the container and the one that enters
  it, or two that make one each; two kills leave one for each of ruri and its helper.
* `Arguments`: one option other than `-D`, `-o`, `-c` and the directory per run, since
  each option is parsed by itself and meets the others in the flags that
  `SpellingsAgree` compares in every state. The arrays have room for two or three
  words, so that each can be full.
* `ConfigText`: what the parsers tell apart shows within two characters: a quote, a
  bracket or a comma and what follows it. Changes by hand are for the parser's end
  only, and two of them suffice to take a value apart and to add a comment.
* `Privileges` has no bound besides its inputs. A capability matters by what
  depends on it, by whether it is kept by default, by the word of `capget(2)` it
  is in and by whether the kernel knows it; `MCPrivileges` has one of each kind
  that the code tells apart. Users differ in whether they are root, whether their
  group has another number and whether `/etc/group` knows them: root and two
  others. `-X` takes a list; the run denies one syscall at a time, refuses one thing
  of the host at a time and leaves out one capability at a time, since each call
  looks at one of each; the proofs are for any number. The options for ids
  (`IdLaunches`), for the list (`ListLaunches`) and for filters and flags
  (`FlagLaunches`) are each taken in full, with root and one user where they meet
  the others.

### Deadlock

The runs of `Lifecycle` check for deadlock: `Done` is the only way to stop. It counts
the wait after a failed second fork, described above, as an end (`Stuck`). The runs of
`Rurienv` do not: when every invocation is through nothing is left to do.
Nor do those of `Privileges`, where ruri ends or becomes the command,
and of `Cgroup`, `IdMap`, `Arguments` and `ConfigText`, for the same reasons; that in
`IdMap` nobody is stuck before is what `NobodyWaitsForEver` says. `mounts` does check:
commands can begin and end until `Rest`.

### Fairness

`FairSpec` has weak fairness of each of ruri's processes as a whole. Each is
sequential, is never blocked by another except where the code waits (those waits
are guards), and the kernel schedules it. The watchdog's fairness is that time
passes. How long the command runs (`ContEnds`, `JobEnds`), whether somebody kills
ruri and when its parent collects it have no fairness: no liveness property
relies on them. `IdMap` has weak fairness of ruri once it has begun, of the helper and of the
container's process until it runs the command, each sequential and, beyond its
guards, blocked by nobody; that the command ends is not assumed. `ConfigText` has it
of the parser, a loop in one process. The others state safety only.

### Mutants

Every property of a passing run has a slip of the code (the definitions marked
"Slip:") that breaks it, listed under `mutants`.

## 4. The proofs

All are for every value of the constants, under the named ASSUMEs of the modules.
These say that the constants are of their kind and distinct, and that there is
something to choose where the code chooses; and besides:

* `Privileges`: of the credentials ruri begins with, that the kernel gives nobody an
  effective capability that is not permitted or an ambient one that is not permitted
  and inheritable;
* `Mounts`: that there are finitely many invocations, of which `/proc/mounts` shows
  those that run, and that no target of `-m` is one of the places the setup mounts;
* `ConfigFile` and `Arguments`: that the limit of an array is a multiple of the length
  of its entries, as the RURI_MAX_* are (`ConfigAssumption`); that words come from an
  argument vector: nothing follows an option that lacks an operand, only options with
  a letter stand among letters, and an operand that goes through `atoi()` is a number
  (`WordsAssumption`);
* `K2v3`: that characters are strings (`K2v3Assumption`).

**Lifecycle.** `TypeCorrect`, `ReportsAreTrue`, `SetupIsUndisturbed`,
`OutcomeReachesFile`, `UmountIsOnRequest` and `ImplementsPidFileStatus` follow from
one inductive invariant, `IInv`. What the
properties say of the file has to be said of messages that are still in the
socket, and that is most of it:

* `Stages`: which phases of the processes go together;
* `QueueIsTrue`, `FileIsTrue`: what `TruthfulReport` says of the file holds of
  every message that the daemon will read. `Silenced(i)` sets aside what is behind
  a panic, where the daemon stops: the second message of a failed exec is sent
  before the process is dead, and is only harmless because it is behind the first;
* `SupHasTold`: a supervisor that ended of itself has left a final message last in
  the socket or in the file, so "unknown" is written for killed ones only;
* `Ordered`: ranks rise along the file and the socket, and neither a pid nor a
  report can come twice (`PidPending`, `ReportPending`);
* `UmountAfterSetup`: whatever will make the daemon unmount says that the setup is
  over, and that stays so;
* `LockDiscipline`: the lock is held exactly while the file is written.

The daemon is the only one to touch the file, and all the others look alike to
it: `StepShapes` shows that each of their steps is `OtherStep`, a message that may
be sent at that point (`Sendable`) or nothing; `TruthIsStable` that no step of
theirs makes a true line false. The lemmas on the invariant's parts then have one
case for the others and one per action of the daemon.

`OutcomeReachesFile` is the converse of `ReportsAreTrue`: not only is true what the
file says, it says what happened. For that `OutcomeInv` follows the outcome from exec to
the file: a failed exec is a panic in the queue that nothing silences, and then in the
file (`FailureIsTold`); the supervisor's report is the last message, and then the line
(`ReportIsTold`); and the daemon stops reading only when nobody can change the outcome
any more (`ReadToTheEnd`). It needs that a panic in the queue is the watchdog's or comes
from a container whose command will never run (`PanicMeans`). Like the property, it is
about daemons with a socket and forks that do not fail. `UmountIsOnRequest` is an
action property: whoever is about to unmount was asked to (`UmountIsAsked`), or is a
container process that found no QEMU, which no command comes from.

**Rurienv.** `TypeCorrect`; `OneContainerInTurn` and `UmountInTurnIsComplete`, under
`Serial`, from `InTurn`: the pid of a running container is in `.rurienv`, or with a
creator about to write it, or with an umount about to kill it (`Tracked`), whoever
umounts has the pid of whatever runs (`UmountKnows`), and whoever is about to create
a container knows that none runs (`CreatesOnly`). `EnteringIsWhole`, under
`~Reuse`, from `Entering`: a pid that was written down stays what it was (`Spent`),
so the namespaces opened one after the other are one container's or missing
(`OneWayIn`). TLC checked each invariant on the instances of the runs before it
was proved.

**Privileges.** `TypeCorrect`; `CapabilitiesAreDropped`, `UserIsAllOrNothing`,
`FiltersStay`, `FlagsAreLocked` and `ForcePanicIsStrict` from one inductive invariant, `IInv`. The
properties speak of the command and of what was asked; `IInv` says at every `pc`
what has been done so far. `MustDrop`, `MustLoad` and `MustChange` are the
conditions under which a call may not have been passed over: either nothing stood
in its way at the beginning, or force_panic would have stopped ruri. Then
`FilterInv` (the filters are in from `SetupSeccomp` on, and nothing unloads one),
`CapsInv` (the bounding, inheritable and ambient sets after `DropCaps`, and their
effect on the permitted set after exec), and `UserInv` (what of the user has been set is a
matter of which calls remain) hold. `DenialsFromAsked` relates loaded filters to
the options, so that a call the user did not deny passes; `LineInv` that a line that is gone
ends in a warning, and so under force_panic in no command; `EffInv` says that ruri
keeps its effective capabilities until `setuid(2)`, the last call without `-g`,
which is what the order of the calls relies on. `LockInv` says the same of the flags.

**IdMap.** `TypeCorrect` and `NobodyRunsUnmapped`, from `IInv`. `MapsAreMade` speaks of
the moment at which a command runs or a start enters; the maps were made before,
by another process. `HelperWrites` says what newuidmap and newgidmap have written
at each point of the helper, `RuriWrites` that whoever needs no set_id_map() any
more has whole maps, or is between its two writes with the first in place, and
`Follow` that the message to the container's process and `.rurienv` come after
that. What keeps it is `MapsStay`: the kernel lets each map be written once, so
whoever else tries, what is whole stays so. Before begin (`Idle`) a start has
nothing, which is why entering changes its namespaces and nothing that was said of
it.

`NobodyIsForgottenEver` is what can be proved of `NobodyWaitsForEver`, without
fairness: whenever the helper or the container's process waits at its pipe, the message
is there, or the pipe has no writer left, or a ruri that has not ended still has it open.
So no wait outlives ruri. It comes from `PipesEnd`, beside `IInv`: the writing
end of a pipe is held only by a ruri between the call that opened it and the one that
writes, and by the other side until the `close()` before its `read()`; each way in
which ruri ends, at an error or killed, closes its own. That ruri and the others then take
their next steps is fairness, and with TLC.

**Mounts.** `TypeCorrect`, `TargetsAreUnstacked`, `MountsAreMade`, `MasksAreInPlace` and
`UmountTakesHalf`, for any settings, number of layers, invocations and commands. `IInv`
has the layers themselves (`Layered`: the bare directory is bare, and no target has two
mounts in one layer), what a start relies on (`Works`) and what masks say (`MasksAreSet`).
The difficulty is that a mount always goes to the top, while commands, and a start after
its `chroot(2)`, are in a layer that others may have covered or unmounted. Hence layers
have identities (`IdsDiffer`) that places keep, and `Exclusive` says that without an
overlap nobody but an umount is at work beside a start, so that the top a start sees is
the one it left. For the umount, `Counts` keeps the books from the layers it found
(`found`): each of the rounds takes one, and so does each line of `/proc/mounts` that it
has dealt with, except that of the bare directory, which is the first. It is done when
it has read at least as many lines as there are layers left, so what is left is no more
than what the lines took: half. The attempt at this proof is what showed that the
property, stated of the step, was true of three commands and false of four; it now says
so (`Alone`).

**Cgroup.** `TypeCorrect`, `LimitsHold`, `NobodyOutlives` and `KillIsOwn`, for any
number of starts, directories and ids that collide. `LimitsHold` needs at every place of
a start what it has handled so far (`LimitIsSet`) and that a directory with somebody in it
is not removed (`InWhatExists`), whoever else has the same id. `NobodyOutlives` and
`KillIsOwn` need to know who goes with whom: the first process of a container leads
whoever entered its namespaces (`LeadersLead`), the id in `.rurienv` is that of such a
leader, and whom an umount has seen is gone, or in a container of its directory that
the kill takes, or has a root that is detached and stays so (`UmountKnows`).

**Arguments.** `TypeCorrect`, `SettingsLast`, `CorrectedIsAccepted` and
`SpellingsMeanTheSame`, for any words, files, limits and number of commands. `IInv` is
strong in types: a container is a function on `Fields` with a value of the `FieldType` of
each, whose arrays are within their limit and end with a whole entry, and a file is one
that somebody may have written (`IsFile`). Then every outcome of a word is of that kind
(`IsOutcome`), one lemma per kind of option; an entry that is added fits because limits
and lengths are multiples of its length (`Room`). Whatever the file, what
`ruri_correct_config()` makes of it is a container (`CorrectedIs`), and what is written
of a container is accepted and read back (`InfoIs`, `ReadBack`), an empty drop_caplist
as the default one; of a container whose
arrays can be walked, since an end mark may have reset a number.
`SpellingsMeanTheSame` is not about what can be reached: it compares the two tables, by
kinds of options, in any state.

**ConfigText.** `TypeCorrect`, for files written for any values and changed by hand in any
number of places: `k2v3_parse()` stays within the text. Every step goes where a search
ends, and `SkipIs`, `FirstOfIs` and `CloseIs` say where that is, in any text. `IInv` has
what the next search begins from (`InText`, `Placed`): an array has its end behind its
first place because `[]` has been sorted out by then, and an element read so far is not
empty. So a value that was read is what `IsRead` says, for which the last check of the
parser, "internal error", cannot fail; `CorrectedIs` has it that taking backslashes away
leaves something of it (`IsKept`), and `KeysDiffer` is what `Duplicate` is for.

`PlainIsReadBack`, for values of any length and arrays of any number of elements: as long
as nobody changes the file, what was written is read back or the file refused, and
refused only for a bracket or an empty element. It has three parts. First, where things
are: `FileIsLaidOut` gives for every file the places `P` of the elements of its array,
with the quotes, commas and characters around them. The sums of lengths come from
`FlattenPlaces`, by an induction over numbers that is `Upward`: a set with 1, and with the
next number of each, has all. Second, where a search ends in such a text: `SkipAt`,
`FirstOfAt`, `CloseAt`, `CloseIsBehind`, which need that no value has a quote, newline or
backslash (`NoMarks`), and `Uncorrected`, that `correct_backslash()` changes nothing then.
Third, `ReadInv`, an invariant beside `IInv`: the parser is at one of the places of
`Reads`, and in the array it has read as many elements as the place of the next says
(`ReadsElements`). The parser takes the first bracket for the end of the array; if it is
not the last one it is within an element (`BracketIsInElement`), so the value is not plain,
and that element lacks its second quote, for which the file is refused.

`PlainIsReadByC` says the same of libk2v and plain values, whatever their lengths, from the
same places. Its searches are over sets of positions, so the first thing proved is what the
operators on those do: `InOrderIs` and `PartsAtIs`, for any list that rises through a set
(`Lists`), `ListExists`, that each set of positions has one, and `NextIs` and `LastIs`, which
say which element of it is where. Then, from the inside out: a line with a key
(`IsRow`) is not taken for a comment and has its key and value (`IsNoComment`, `LeftIs`,
`RightIs`); an array (`IsList`) has its quotes where its elements begin and end and no
others (`QuotesListed`), one comma outside them between two (`CommasListed`), and
so passes `array_lint()` (`ArrayLooksRight`). `array_to_str_array()` takes the text behind one
value for the next: that is a recursive function, which exists because less is left each
time (`ShorterIs`, `ReadingExists`), and reads element by element what the list has (`HeadReads`,
`HeadLeaves`, `ListIsRead`, the last one by an induction from the last element back). At
last, where the lines of the file end (`EndsAre`, which needs that no value has
a newline), that the two with a key remain (`CommentsGo`, `TidyIs`), and that `ListInText` puts the
array of the file under `IsList`. The invariant it comes from is `ReadInv` again: the
text is the written one as long as nobody types into it.

**Only model-checked.** All liveness: TLAPS does not reason about fairness and ENABLED.
`KeepsPidFilePromise`, as a temporal property, is proved as `ImplementsPidFileStatus`.

## 5. Not modelled

The rules of the built-in seccomp profiles (a table handed to a library), the text
of passwd and group files, output, the easter egg and the build tool: no behaviour
of the containers is in them beyond what their callers do with the result. Time, and
with it intervals and their overflow. Two invocations that share a pid file. Reuse
of ruri's own pid by the watchdog. Errors within an automatic umount. Of the
container's setup the device nodes, links, the registration of QEMU with binfmt_misc
and `pivot_root(2)`; of mounts the options other than read-only, and propagation to
peers. The scope directory of systemd mode (`prepare_systemd_cgroup_scope()`,
`chroot.c` 174-199) and the values of limits. Of k2v and k2v3 the conversions to
numbers and the parts ruri never calls. The settings a start takes over from
`.rurienv` when it joins. `-P` and `--stat`, which print.

## 6. Plan

Done: all modules of the table. The safety properties of `Lifecycle`, `Rurienv`,
`Privileges`, `IdMap`, `Mounts`, `Cgroup`, `Arguments` and `ConfigText` are proved.

To prove: of `Rurienv`, what an interleaved umount can still promise without `Serial`.

To extend the model: `--fork-as-init` with many children, orphans and process groups
(`watchdog.c` 356-451), refining what `Lifecycle` says of "init"; `ruri_stat()` in `ps.c`
as a reader composed with `PidFileStatus`; `Rurienv` with plain chroot containers.
