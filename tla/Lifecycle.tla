------------------------------ MODULE Lifecycle ------------------------------
(***************************************************************************)
(* The processes ruri starts for one container, and the pid file they      *)
(* keep.                                                                   *)
(*                                                                         *)
(*   sup     ruri itself: starts the others, waits for the container       *)
(*           (ruri.c, unshare.c, rootless.c)                               *)
(*   daemon  the pid file daemon (watchdog.c)                              *)
(*   watch   the --timeout watchdog (watchdog.c)                           *)
(*   cont    the forked container process, up to and after its exec        *)
(*           (chroot.c)                                                    *)
(*   job     with --fork-as-init, the grandchild that execs the command    *)
(*                                                                         *)
(* sup, cont, job and watch send status messages over one SEQPACKET        *)
(* socket, "queue"; the daemon writes each to the pid file and learns from *)
(* the end of file of that socket that every sender has closed it.         *)
(*                                                                         *)
(* A configuration says which options ruri was given; "mode" is "chroot",  *)
(* "unshare" (root starts a namespace container), "join" (root enters one  *)
(* that runs already) or "rootless".                                       *)
(* --umount-on-panic and --strict-mode both set force_panic as well.       *)
(***************************************************************************)
EXTENDS Naturals, Sequences

CONSTANTS Configs,     \* the configurations considered
          ExitCodes,   \* exit codes of the command
          Signals,     \* signals that may kill it
          ContPid      \* the pid of the container process

ConfigType ==
  [mode          : {"chroot", "unshare", "join", "rootless"},
   pidFile       : BOOLEAN,   \* --pid-file was given
   timeout       : BOOLEAN,   \* --timeout was given
   autoUmount    : BOOLEAN,   \* --auto-umount
   umountOnPanic : BOOLEAN,   \* --umount-on-panic or --strict-mode
   forkAsInit    : BOOLEAN,   \* --fork-as-init
   rurienv       : BOOLEAN,   \* use_rurienv
   forkMayFail   : BOOLEAN,   \* fork(2) may fail while the helpers are started
   daemonMayFail : BOOLEAN,   \* opening or locking the pid file may fail
   noSocket      : BOOLEAN,   \* socketpair(2) fails
   noSync        : BOOLEAN,   \* pipe2(2) for the sync pipe fails
   selfBind      : BOOLEAN,   \* chroot: the container directory is a mount of its own
   noQemu        : BOOLEAN,   \* --arch was given and QEMU is not there
   killable      : BOOLEAN]   \* somebody may SIGKILL ruri

ASSUME ConfigsAssumption == Configs \subseteq ConfigType
ASSUME CodesAssumption ==
  /\ ExitCodes \subseteq Nat
  /\ Signals \subseteq Nat
  /\ ContPid \in Nat

VARIABLES
  cfg,        \* the configuration, fixed by Init
  sup, daemon, watch, cont, job,     \* where each process is
  reaped,     \* sup's parent has collected it: its pid is gone
  queue,      \* messages in the socket
  pidFile,    \* the line in the pid file
  locked,     \* the daemon holds F_WRLCK on it
  okSent,     \* the daemon wrote "OK" to its sync pipe
  released,   \* rootless: sup wrote "OK" to sync_pipe_2
  installed,  \* host-visible mounts or .rurienv left in the container directory
  status,     \* how cont died
  jobStatus,  \* how job died
  exec        \* outcome of execvp()

vars == <<cfg, sup, daemon, watch, cont, job, reaped, queue, pidFile, locked,
          okSent, released, installed, status, jobStatus, exec>>

-----------------------------------------------------------------------------
(* Messages, and the lines of the pid file *)

Msg(kind, val) == [kind |-> kind, val |-> val]

Absent == Msg("absent", 0)
Empty  == Msg("empty", 0)     \* between ftruncate() and write()

PanicExe      == Msg("panic_exe", 0)
PanicInternal == Msg("panic_internal", 0)
PanicTimeout  == Msg("panic_timeout", 0)
Unknown       == Msg("unknown", 0)
InitLine      == Msg("init", 0)

Messages == [kind : {"pid", "exited", "signaled", "unknown", "panic_exe",
                     "panic_internal", "panic_timeout"},
             val : Nat]
Lines == Messages \cup {Absent, Empty, InitLine}

IsPanic(l) == l.kind \in {"panic_exe", "panic_internal", "panic_timeout"}

\* The prefixes RURI_EXIT, RURI_SIGNALED and RURI_PANIC of the end-of-file check.
IsFinal(l) == IsPanic(l) \/ l.kind \in {"exited", "signaled", "unknown"}

NoStatus == [how |-> "none", val |-> 0]
Exited(code)  == [how |-> "exited", val |-> code]
Signaled(sig) == [how |-> "signaled", val |-> sig]
StatusType == [how : {"none", "exited", "signaled"}, val : Nat]

SIGKILL == 9
ErrorCode == 114      \* ruri_error() ends in exit(114)

\* What sup writes for a wait status.  The chroot and rootless supervisors add
\* 128 to the signal, the unshare supervisor does not.
Report(st) ==
  IF st.how = "exited" THEN Msg("exited", st.val)
  ELSE Msg("signaled", IF cfg.mode \in {"unshare", "join"} THEN st.val
                        ELSE 128 + st.val)

\* ruri_pid_file_write(): SIGPIPE is ignored, so a message for a daemon that is
\* gone is lost; without a socket nothing is written.
Send(m) ==
  queue' = IF daemon = "exited" \/ cfg.noSocket THEN queue ELSE Append(queue, m)

-----------------------------------------------------------------------------
(* Who is alive, and who holds the sending end of the socket *)

SupDead  == sup \in {"exited", "killed"}
SupLive  == sup \notin {"exited", "killed", "daemon"}
ContLive == cont \notin {"none", "dead"}
JobLive  == job \notin {"none", "dead"}

ContPreExec == cont \in {"gate", "setup", "mounted", "no_qemu", "exec", "panic"}

\* Slips the runs are checked against, here and below ("Slip:"): the container
\* process loses the descriptor when it closes the others before chroot(2),
\* or the init process keeps its copy.
ContHoldsTooShort == cont \in {"gate", "setup"}
ContHoldsTooLong  == ContPreExec \/ cont \in {"init", "orphan"}

\* The descriptor is close-on-exec, and the init process closes its copy.
SupHolds   == SupLive
ContHolds  == ContPreExec
JobHolds   == job \in {"exec", "panic"}
WatchHolds == watch \in {"poll", "fired", "umount"}
NoSender   == ~SupHolds /\ ~ContHolds /\ ~JobHolds /\ ~WatchHolds

\* An unshared or rootless container process is the init of its pid namespace:
\* the kernel kills the rest of the namespace with it.
ContDies(st) ==
  /\ cont' = "dead"
  /\ status' = st
  /\ IF cfg.mode \in {"unshare", "rootless"} /\ JobLive
     THEN job' = "dead" /\ jobStatus' = Signaled(SIGKILL)
     ELSE UNCHANGED <<job, jobStatus>>

\* A chroot container's processes are found by their root directory, so not
\* before chroot(2), and not when that directory is a mount of its own: it has
\* been detached by then, and /proc/PID/root reads "/".
FoundByRoot == ~cfg.selfBind /\ cont \notin {"gate", "setup", "mounted", "no_qemu"}

\* Slip: the kill looks ns_pid up after .rurienv has been removed.
UmountReachesLate == cfg.mode = "chroot" /\ FoundByRoot

\* ruri_umount_container(): everything under the container directory is
\* unmounted and .rurienv removed, then the container's processes are killed.
\* A namespace container's die with the ns_pid that .rurienv names.  A rootless
\* one is found by its root directory as well, but its process is not
\* "dumpable" between the setup and the exec, and an ordinary user cannot look
\* into it then.  Where there are cgroups the supervisor of a namespace
\* container is in the container's, and is killed with it.
UmountReaches ==
  CASE cfg.mode = "chroot"   -> FoundByRoot
    [] cfg.mode = "rootless" -> \/ cont = "running"
                                \/ installed /\ cfg.rurienv /\ cont \in {"gate", "setup"}
    [] OTHER                 -> installed /\ cfg.rurienv
UmountReachesJob == IF cfg.mode = "rootless" THEN job = "running" ELSE UmountReaches
SupInCgroup ==
  /\ cfg.mode = "join" \/ (cfg.mode = "unshare" /\ ContLive)
  /\ installed /\ cfg.rurienv
  /\ sup \in {"announce", "stored", "release", "wait", "reported"}
UmountContainer ==
  /\ installed' = FALSE
  /\ sup' \in IF SupInCgroup THEN {sup, "killed"} ELSE {sup}
  /\ IF ContLive /\ UmountReaches
     THEN cont' = "dead" /\ status' = Signaled(SIGKILL)
     ELSE UNCHANGED <<cont, status>>
  /\ IF JobLive /\ UmountReachesJob
     THEN job' = "dead" /\ jobStatus' = Signaled(SIGKILL)
     ELSE UNCHANGED <<job, jobStatus>>

\* The results fork(2) may have while sup starts its helpers.
ForkResults == IF cfg.forkMayFail THEN BOOLEAN ELSE {TRUE}

Put(l) == pidFile' = IF cfg.pidFile THEN l ELSE pidFile

-----------------------------------------------------------------------------
Init ==
  /\ cfg \in Configs
  /\ sup = "start" /\ daemon = "none" /\ watch = "none"
  /\ cont = "none" /\ job = "none"
  /\ reaped = FALSE
  /\ queue = <<>>
  /\ pidFile = Absent
  /\ locked = FALSE
  /\ okSent = FALSE
  /\ released = FALSE
  \* A joined container is there already, and a chroot container may be.
  /\ installed \in {b \in BOOLEAN : \/ cfg.mode = "chroot"
                                   \/ b = (cfg.mode = "join" /\ cfg.rurienv)}
  /\ status = NoStatus
  /\ jobStatus = NoStatus
  /\ exec = "none"

-----------------------------------------------------------------------------
(* sup: ruri() and the supervisors *)

\* ruri_setup_pid_file_daemon() forks twice.  The code has no branch for a
\* failing fork: when the first fails sup itself runs the child's branch, when
\* the second fails the first child becomes the daemon, and sup, which waits
\* for that child, waits for the daemon ("waitchild").
SetupPidFileDaemon ==
  /\ sup = "start"
  /\ \E fork1, fork2 \in ForkResults :
       sup' = CASE fork1 /\ fork2  -> "sync"
                [] fork1 /\ ~fork2 -> "waitchild"
                [] ~fork1 /\ fork2 -> "exited"
                [] OTHER           -> "daemon"
  /\ daemon' = "open"
  /\ UNCHANGED <<cfg, watch, cont, job, reaped, queue, pidFile, locked, okSent,
                 released, installed, status, jobStatus, exec>>

\* waitpid() for the first child returns, late, because it is the daemon.
FirstChildGone ==
  /\ sup = "waitchild"
  /\ daemon = "exited"
  /\ sup' = "sync"
  /\ UNCHANGED <<cfg, daemon, watch, cont, job, reaped, queue, pidFile, locked,
                 okSent, released, installed, status, jobStatus, exec>>

\* Reading the sync pipe: "OK", or end of file from a daemon that gave up, or an
\* error when there is no pipe.  Without "OK" there is a warning, which is an
\* error under force_panic.
ReadSync ==
  /\ sup = "sync"
  /\ okSent \/ daemon = "exited" \/ cfg.noSync
  /\ IF (~okSent \/ cfg.noSync) /\ cfg.umountOnPanic
     THEN sup' = "exited" /\ Send(PanicInternal)
     ELSE sup' = (IF cfg.timeout THEN "watch" ELSE "launch") /\ UNCHANGED queue
  /\ UNCHANGED <<cfg, daemon, watch, cont, job, reaped, pidFile, locked, okSent,
                 released, installed, status, jobStatus, exec>>

\* Slip: sup falls through into the watchdog's loop.
SetupTimeoutWatchdogFallsThrough ==
  /\ sup = "watch"
  /\ sup' = "poll" /\ watch' = "poll"
  /\ UNCHANGED <<cfg, daemon, cont, job, reaped, queue, pidFile, locked, okSent,
                 released, installed, status, jobStatus, exec>>

\* ruri_setup_timeout_watchdog() forks twice as well.  A failing second fork is
\* an error of the process that called it; a failing first one sends sup down
\* the child's branch, where it exits after the second.
SetupTimeoutWatchdog ==
  /\ sup = "watch"
  /\ \E fork1, fork2 \in ForkResults :
       /\ sup' = IF fork1 THEN "launch" ELSE "exited"
       /\ watch' = IF fork2 THEN "poll" ELSE "stopped"
       /\ IF fork2 THEN UNCHANGED queue ELSE Send(PanicInternal)
  /\ UNCHANGED <<cfg, daemon, cont, job, reaped, pidFile, locked, okSent,
                 released, installed, status, jobStatus, exec>>

\* The fork of the container process.
Launch ==
  /\ sup = "launch"
  /\ cont' = IF cfg.mode = "rootless" THEN "gate" ELSE "setup"
  /\ sup' = IF cfg.mode = "chroot" THEN "wait" ELSE "announce"
  /\ UNCHANGED <<cfg, daemon, watch, job, reaped, queue, pidFile, locked,
                 okSent, released, installed, status, jobStatus, exec>>

\* ruri_error() before that fork: a namespace that cannot be created, a fork
\* that fails.
LaunchFails ==
  /\ sup = "launch"
  /\ cfg.mode # "chroot" \/ cfg.forkMayFail
  /\ Send(PanicInternal)
  /\ sup' = "exited"
  /\ UNCHANGED <<cfg, daemon, watch, cont, job, reaped, pidFile, locked, okSent,
                 released, installed, status, jobStatus, exec>>

\* The namespace supervisors store .rurienv for a new container ...
StoreInfo ==
  /\ sup = "announce"
  /\ installed' = (installed \/ (cfg.rurienv /\ cfg.mode # "join"))
  /\ sup' = "stored"
  /\ UNCHANGED <<cfg, daemon, watch, cont, job, reaped, queue, pidFile, locked,
                 okSent, released, status, jobStatus, exec>>

\* ... unless the id map of a rootless one cannot be set ...
StoreInfoFails ==
  /\ sup = "announce"
  /\ cfg.mode = "rootless"
  /\ Send(PanicInternal)
  /\ sup' = "exited"
  /\ UNCHANGED <<cfg, daemon, watch, cont, job, reaped, pidFile, locked, okSent,
                 released, installed, status, jobStatus, exec>>

\* ... and send the child's pid ...
Announce ==
  /\ sup = "stored"
  /\ Send(Msg("pid", ContPid))
  /\ sup' = IF cfg.mode = "rootless" THEN "release" ELSE "wait"
  /\ UNCHANGED <<cfg, daemon, watch, cont, job, reaped, pidFile, locked, okSent,
                 released, installed, status, jobStatus, exec>>

\* ... and the rootless one lets the child go on, which fails when the child is
\* gone.
ReleaseChild ==
  /\ sup = "release"
  /\ IF cont = "dead"
     THEN Send(PanicInternal) /\ sup' = "exited" /\ UNCHANGED released
     ELSE released' = TRUE /\ sup' = "wait" /\ UNCHANGED queue
  /\ UNCHANGED <<cfg, daemon, watch, cont, job, reaped, pidFile, locked, okSent,
                 installed, status, jobStatus, exec>>

\* waitpid() returns and the status is sent.
ReapContainer ==
  /\ sup = "wait"
  /\ cont = "dead"
  /\ Send(Report(status))
  /\ sup' = "reported"
  /\ UNCHANGED <<cfg, daemon, watch, cont, job, reaped, pidFile, locked, okSent,
                 released, installed, status, jobStatus, exec>>

SupExit ==
  /\ sup = "reported"
  /\ sup' = "exited"
  /\ UNCHANGED <<cfg, daemon, watch, cont, job, reaped, queue, pidFile, locked,
                 okSent, released, installed, status, jobStatus, exec>>

\* sup's parent collects it; until then kill(pid, 0) still succeeds.
ParentReaps ==
  /\ SupDead
  /\ ~reaped
  /\ reaped' = TRUE
  /\ UNCHANGED <<cfg, sup, daemon, watch, cont, job, queue, pidFile, locked,
                 okSent, released, installed, status, jobStatus, exec>>

\* Somebody kills ruri.
ExternalKill ==
  /\ cfg.killable
  /\ SupLive
  /\ sup' = "killed"
  /\ UNCHANGED <<cfg, daemon, watch, cont, job, reaped, queue, pidFile, locked,
                 okSent, released, installed, status, jobStatus, exec>>

SupStep ==
  \/ SetupPidFileDaemon \/ FirstChildGone \/ ReadSync \/ SetupTimeoutWatchdog
  \/ Launch \/ LaunchFails \/ StoreInfo \/ StoreInfoFails \/ Announce
  \/ ReleaseChild \/ ReapContainer \/ SupExit

-----------------------------------------------------------------------------
(* daemon: the loop of ruri_setup_pid_file_daemon() *)

\* open() and ftruncate() come before the lock.
DaemonOpen ==
  /\ daemon = "open"
  /\ \/ daemon' = "lock" /\ Put(Empty)
     \/ cfg.daemonMayFail /\ daemon' = "exited" /\ UNCHANGED pidFile
  /\ UNCHANGED <<cfg, sup, watch, cont, job, reaped, queue, locked, okSent,
                 released, installed, status, jobStatus, exec>>

\* The lock, the RURI_INIT line and the "OK", which without a pipe reaches nobody.
DaemonLock ==
  /\ daemon = "lock"
  /\ \/ /\ daemon' = "loop"
        /\ locked' = cfg.pidFile
        /\ Put(InitLine)
        /\ okSent' = TRUE
     \/ /\ cfg.daemonMayFail /\ cfg.pidFile
        /\ daemon' = "exited"
        /\ UNCHANGED <<locked, pidFile, okSent>>
  /\ UNCHANGED <<cfg, sup, watch, cont, job, reaped, queue, released, installed,
                 status, jobStatus, exec>>

\* A message arrives: the file is truncated ...
DaemonRead ==
  /\ daemon = "loop"
  /\ queue # <<>>
  /\ daemon' = "write"
  /\ Put(Empty)
  /\ UNCHANGED <<cfg, sup, watch, cont, job, reaped, queue, locked, okSent,
                 released, installed, status, jobStatus, exec>>

\* Slips: the daemon reads on after a panic, or ends without the umount.
DaemonWriteReadsOn ==
  /\ daemon = "write"
  /\ Put(Head(queue))
  /\ daemon' = "loop"
  /\ queue' = Tail(queue)
  /\ UNCHANGED <<cfg, sup, watch, cont, job, reaped, locked, okSent, released,
                 installed, status, jobStatus, exec>>
DaemonWriteNoUmount ==
  /\ daemon = "write"
  /\ Put(Head(queue))
  /\ daemon' = IF IsPanic(Head(queue)) THEN "release_exit" ELSE "loop"
  /\ queue' = Tail(queue)
  /\ UNCHANGED <<cfg, sup, watch, cont, job, reaped, locked, okSent, released,
                 installed, status, jobStatus, exec>>

\* ... and written.  After a panic nothing more is read; the panic the watchdog
\* sends leaves the umount to the watchdog.
DaemonWrite ==
  /\ daemon = "write"
  /\ LET m == Head(queue) IN
       /\ Put(m)
       /\ daemon' = CASE ~IsPanic(m) -> "loop"
                      [] IsPanic(m) /\ m # PanicTimeout
                           /\ (cfg.autoUmount \/ cfg.umountOnPanic) -> "release_umount"
                      [] OTHER -> "release_exit"
  /\ queue' = Tail(queue)
  /\ UNCHANGED <<cfg, sup, watch, cont, job, reaped, locked, okSent, released,
                 installed, status, jobStatus, exec>>

\* Slip: --umount-on-panic taken for --auto-umount.
AfterEofAnyUmount ==
  IF cfg.autoUmount \/ cfg.umountOnPanic THEN "release_umount" ELSE "release_exit"

\* After the end of file the container is unmounted only for --auto-umount.
AfterEof == IF cfg.autoUmount THEN "release_umount" ELSE "release_exit"

\* Slip: the file is not read back.
DaemonEofAlwaysUnknown ==
  /\ daemon = "loop" /\ queue = <<>>
  /\ NoSender \/ cfg.noSocket
  /\ daemon' = "write_unknown" /\ Put(Empty)
  /\ UNCHANGED <<cfg, sup, watch, cont, job, reaped, queue, locked, okSent,
                 released, installed, status, jobStatus, exec>>

\* End of file: every sender has closed the socket; or a read that fails, at once
\* when there is no socket.  The file is read back, and RURI_EXIT_UNKNOWN is
\* written unless it already tells how things ended.
DaemonEof ==
  /\ daemon = "loop"
  /\ queue = <<>>
  /\ NoSender \/ cfg.noSocket
  /\ IF cfg.pidFile /\ IsFinal(pidFile)
     THEN daemon' = AfterEof /\ UNCHANGED pidFile
     ELSE daemon' = "write_unknown" /\ Put(Empty)
  /\ UNCHANGED <<cfg, sup, watch, cont, job, reaped, queue, locked, okSent,
                 released, installed, status, jobStatus, exec>>

DaemonWriteUnknown ==
  /\ daemon = "write_unknown"
  /\ Put(Unknown)
  /\ daemon' = AfterEof
  /\ UNCHANGED <<cfg, sup, watch, cont, job, reaped, queue, locked, okSent,
                 released, installed, status, jobStatus, exec>>

\* The lock is released before the umount; what is still queued is lost.
DaemonRelease ==
  /\ daemon \in {"release_umount", "release_exit"}
  /\ locked' = FALSE
  /\ daemon' = IF daemon = "release_umount" THEN "umount" ELSE "exited"
  /\ queue' = IF daemon = "release_umount" THEN queue ELSE <<>>
  /\ UNCHANGED <<cfg, sup, watch, cont, job, reaped, pidFile, okSent, released,
                 installed, status, jobStatus, exec>>

DaemonUmount ==
  /\ daemon = "umount"
  /\ UmountContainer
  /\ daemon' = "exited"
  /\ queue' = <<>>
  /\ UNCHANGED <<cfg, watch, reaped, pidFile, locked, okSent, released, exec>>

DaemonStep ==
  \/ DaemonOpen \/ DaemonLock \/ DaemonRead \/ DaemonWrite \/ DaemonEof
  \/ DaemonWriteUnknown \/ DaemonRelease \/ DaemonUmount

-----------------------------------------------------------------------------
(* watch: the loop of ruri_setup_timeout_watchdog(); to_watch is sup's pid *)

WatchSeesDeath ==
  /\ watch = "poll"
  /\ reaped
  /\ watch' = "stopped"
  /\ UNCHANGED <<cfg, sup, daemon, cont, job, reaped, queue, pidFile, locked,
                 okSent, released, installed, status, jobStatus, exec>>

\* kill(to_watch, 0) succeeded and the time is up.
WatchFires ==
  /\ watch = "poll"
  /\ ~reaped
  /\ Send(PanicTimeout)
  /\ watch' = "fired"
  /\ UNCHANGED <<cfg, sup, daemon, cont, job, reaped, pidFile, locked, okSent,
                 released, installed, status, jobStatus, exec>>

\* SIGKILL, or with --fork-as-init SIGUSR1, for which sup has no handler.
WatchKills ==
  /\ watch = "fired"
  /\ sup' = IF SupLive THEN "killed" ELSE sup
  /\ watch' = IF cfg.umountOnPanic THEN "umount" ELSE "expired"
  /\ UNCHANGED <<cfg, daemon, cont, job, reaped, queue, pidFile, locked, okSent,
                 released, installed, status, jobStatus, exec>>

WatchUmount ==
  /\ watch = "umount"
  /\ UmountContainer
  /\ watch' = "expired"
  /\ UNCHANGED <<cfg, daemon, reaped, queue, pidFile, locked, okSent, released,
                 exec>>

WatchStep == WatchSeesDeath \/ WatchFires \/ WatchKills \/ WatchUmount

-----------------------------------------------------------------------------
(* cont: from the fork to the end of the container process *)

\* The rootless child waits on sync_pipe_2 and panics on its end of file.
GateOpens ==
  /\ cont = "gate"
  /\ released
  /\ cont' = "setup"
  /\ UNCHANGED <<cfg, sup, daemon, watch, job, reaped, queue, pidFile, locked,
                 okSent, released, installed, status, jobStatus, exec>>

GateEof ==
  /\ cont = "gate"
  /\ ~released
  /\ SupDead
  /\ Send(PanicInternal)
  /\ ContDies(Exited(ErrorCode))
  /\ UNCHANGED <<cfg, sup, daemon, watch, reaped, pidFile, locked, okSent,
                 released, installed, exec>>

\* Mounting the container.  A chroot container's mounts are the host's.
ContMount ==
  /\ cont = "setup"
  /\ cont' = "mounted"
  /\ installed' = (installed \/ cfg.mode = "chroot")
  /\ UNCHANGED <<cfg, sup, daemon, watch, job, reaped, queue, pidFile, locked,
                 okSent, released, status, jobStatus, exec>>

\* chroot or pivot_root and the rest of the setup.  In chroot mode the process
\* sends its own pid.
ContEnter ==
  /\ cont = "mounted"
  /\ ~cfg.noQemu
  /\ cont' = "exec"
  /\ IF cfg.mode = "chroot" THEN Send(Msg("pid", ContPid)) ELSE UNCHANGED queue
  /\ UNCHANGED <<cfg, sup, daemon, watch, job, reaped, pidFile, locked, okSent,
                 released, installed, status, jobStatus, exec>>

\* check_binary(): without QEMU the container is unmounted, whatever the umount
\* options, before ruri_error().  No process is found: this one has not entered
\* the container yet, and for a namespace container ns_pid, which lives in this
\* process's own mount namespace, does not count.  In a joined container there is
\* no such directory, and ruri_umount_container() itself ends in ruri_error().
CheckBinary ==
  /\ cont = "mounted"
  /\ cfg.noQemu
  /\ cont' = "no_qemu"
  /\ installed' = IF cfg.mode = "join" THEN installed ELSE FALSE
  /\ UNCHANGED <<cfg, sup, daemon, watch, job, reaped, queue, pidFile, locked,
                 okSent, released, status, jobStatus, exec>>

\* ruri_error() anywhere in the setup.
ContPanic ==
  /\ cont \in {"setup", "mounted", "no_qemu"}
  /\ Send(PanicInternal)
  /\ ContDies(Exited(ErrorCode))
  /\ UNCHANGED <<cfg, sup, daemon, watch, reaped, pidFile, locked, okSent,
                 released, installed, exec>>

\* ruri_fork_as_init(): cont becomes the init process and closes the socket,
\* its child goes on to exec.  PR_SET_PDEATHSIG only counts for a parent that
\* dies later.
ForkAsInit ==
  /\ cont = "exec" /\ cfg.forkAsInit
  /\ cont' = IF SupDead THEN "orphan" ELSE "init"
  /\ job' = "exec"
  /\ UNCHANGED <<cfg, sup, daemon, watch, reaped, queue, pidFile, locked,
                 okSent, released, installed, status, jobStatus, exec>>

ForkAsInitFails ==
  /\ cont = "exec" /\ cfg.forkAsInit /\ cfg.forkMayFail
  /\ Send(PanicInternal)
  /\ ContDies(Exited(ErrorCode))
  /\ UNCHANGED <<cfg, sup, daemon, watch, reaped, pidFile, locked, okSent,
                 released, installed, exec>>

\* Slip: ruri_error() is reached before the reason is sent.
ContExecForgetsReason ==
  /\ cont = "exec" /\ ~cfg.forkAsInit
  /\ \/ cont' = "running" /\ exec' = "ok" /\ UNCHANGED queue
     \/ cont' = "panic" /\ exec' = "failed" /\ Send(PanicInternal)
  /\ UNCHANGED <<cfg, sup, daemon, watch, job, reaped, pidFile, locked, okSent,
                 released, installed, status, jobStatus>>

ContExec ==
  /\ cont = "exec" /\ ~cfg.forkAsInit
  /\ \/ cont' = "running" /\ exec' = "ok" /\ UNCHANGED queue
     \/ cont' = "panic" /\ exec' = "failed" /\ Send(PanicExe)
  /\ UNCHANGED <<cfg, sup, daemon, watch, job, reaped, pidFile, locked, okSent,
                 released, installed, status, jobStatus>>

\* After RURI_PANIC_EXE comes the RURI_PANIC_INTERNAL of ruri_error().
ContPanicExec ==
  /\ cont = "panic"
  /\ Send(PanicInternal)
  /\ ContDies(Exited(ErrorCode))
  /\ UNCHANGED <<cfg, sup, daemon, watch, reaped, pidFile, locked, okSent,
                 released, installed, exec>>

\* The command ends.
ContEnds ==
  /\ cont = "running"
  /\ \E st \in {Exited(c) : c \in ExitCodes} \cup {Signaled(s) : s \in Signals} :
       ContDies(st)
  /\ UNCHANGED <<cfg, sup, daemon, watch, reaped, queue, pidFile, locked,
                 okSent, released, installed, exec>>

\* The init process collects its last child and exits with that status.
InitExits ==
  /\ cont \in {"init", "orphan"}
  /\ job = "dead"
  /\ ContDies(Exited(IF jobStatus.how = "exited" THEN jobStatus.val
                     ELSE 128 + jobStatus.val))
  /\ UNCHANGED <<cfg, sup, daemon, watch, reaped, queue, pidFile, locked,
                 okSent, released, installed, exec>>

\* The parent death signal.
ParentDeathSignal ==
  /\ cont = "init"
  /\ SupDead
  /\ ContDies(Signaled(SIGKILL))
  /\ UNCHANGED <<cfg, sup, daemon, watch, reaped, queue, pidFile, locked,
                 okSent, released, installed, exec>>

ContStep ==
  \/ GateOpens \/ GateEof \/ ContMount \/ ContEnter \/ CheckBinary \/ ContPanic
  \/ ForkAsInit \/ ForkAsInitFails \/ ContExec \/ ContPanicExec \/ InitExits \/ ParentDeathSignal

-----------------------------------------------------------------------------
(* job: the process that execs the command under --fork-as-init *)

JobExec ==
  /\ job = "exec"
  /\ \/ job' = "running" /\ exec' = "ok" /\ UNCHANGED queue
     \/ job' = "panic" /\ exec' = "failed" /\ Send(PanicExe)
  /\ UNCHANGED <<cfg, sup, daemon, watch, cont, reaped, pidFile, locked, okSent,
                 released, installed, status, jobStatus>>

JobPanic ==
  /\ job = "panic"
  /\ Send(PanicInternal)
  /\ job' = "dead" /\ jobStatus' = Exited(ErrorCode)
  /\ UNCHANGED <<cfg, sup, daemon, watch, cont, reaped, pidFile, locked, okSent,
                 released, installed, status, exec>>

JobEnds ==
  /\ job = "running"
  /\ job' = "dead"
  /\ jobStatus' \in {Exited(c) : c \in ExitCodes} \cup {Signaled(s) : s \in Signals}
  /\ UNCHANGED <<cfg, sup, daemon, watch, cont, reaped, queue, pidFile, locked,
                 okSent, released, installed, status, exec>>

JobStep == JobExec \/ JobPanic

-----------------------------------------------------------------------------
\* Everything has come to its end, or, after a fork that failed, sup waits for the
\* daemon it is itself a sender of.
Ended ==
  /\ sup = "daemon" \/ (SupDead /\ reaped)
  /\ daemon \in {"none", "exited"}
  /\ ~WatchHolds /\ ~ContLive /\ ~JobLive
Stuck == sup = "waitchild" /\ daemon = "loop" /\ queue = <<>> /\ ~cfg.noSocket

Done == (Ended \/ Stuck) /\ UNCHANGED vars

Next ==
  \/ SupStep \/ DaemonStep \/ WatchStep \/ ContStep \/ JobStep
  \/ ContEnds \/ JobEnds \/ ParentReaps \/ ExternalKill
  \/ Done

Spec == Init /\ [][Next]_vars

\* Every process runs on, and time passes for the watchdog.  How long the
\* command runs, whether somebody kills ruri and when its parent collects it
\* is not ruri's to say.
Fairness ==
  WF_vars(SupStep) /\ WF_vars(DaemonStep) /\ WF_vars(WatchStep)
  /\ WF_vars(ContStep) /\ WF_vars(JobStep)

FairSpec == Spec /\ Fairness
-----------------------------------------------------------------------------
(* Properties *)

\* The type invariant.
TypeOK ==
  /\ cfg \in Configs
  /\ sup \in {"start", "waitchild", "sync", "watch", "launch", "announce", "stored",
              "release", "wait", "reported", "exited", "killed", "daemon"}
  /\ daemon \in {"none", "open", "lock", "loop", "write", "write_unknown",
                 "release_umount", "release_exit", "umount", "exited"}
  /\ watch \in {"none", "poll", "fired", "umount", "stopped", "expired"}
  /\ cont \in {"none", "gate", "setup", "mounted", "no_qemu", "exec", "panic", "init",
               "orphan", "running", "dead"}
  /\ job \in {"none", "exec", "panic", "running", "dead"}
  /\ reaped \in BOOLEAN
  /\ queue \in Seq(Messages)
  /\ pidFile \in Lines
  /\ locked \in BOOLEAN /\ okSent \in BOOLEAN
  /\ released \in BOOLEAN /\ installed \in BOOLEAN
  /\ status \in StatusType
  /\ jobStatus \in StatusType
  /\ exec \in {"none", "ok", "failed"}

\* Whatever line a reader finds is true of what happened: an exit or a signal
\* is the one the container process died of, a panic was somebody's, and
\* "unknown" is only said of a supervisor that went away without a report, or
\* where there is no socket to report through.
TruthfulReport ==
  CASE pidFile.kind = "exited"   -> status = Exited(pidFile.val)
    [] pidFile.kind = "signaled" -> /\ status.how = "signaled"
                                    /\ pidFile = Report(status)
    [] pidFile = PanicExe        -> exec = "failed"
    [] pidFile = PanicTimeout    -> watch \in {"fired", "umount", "expired"}
    [] pidFile = PanicInternal   -> SupDead \/ cont = "dead" \/ watch = "stopped"
    [] pidFile = Unknown         -> \/ sup \in {"killed", "daemon"}
                                    \/ sup = "exited" /\ cfg.forkMayFail
                                    \/ cfg.noSocket
    [] OTHER -> TRUE

\* When the daemon is done, the outcome of execvp() and of the command is what
\* the file says, unless the watchdog spoke first, the supervisor was killed
\* or lost a helper before it could report, or there was no socket.
OutcomeIsReported ==
  (/\ daemon = "exited" /\ okSent /\ cfg.pidFile /\ ~cfg.forkMayFail /\ ~cfg.noSocket
   /\ watch \in {"none", "stopped"}) =>
     /\ exec = "failed" => pidFile = PanicExe
     /\ exec = "ok" /\ sup = "exited" => pidFile = Report(status)

\* The daemon's automatic umount never runs while the container process is
\* still being set up, or could yet pass its gate: the descriptor the process
\* holds until its exec keeps the daemon from the end of file.  (Without a
\* socket there is none, and the daemon does not wait.)
NoUmountUnderSetup ==
  daemon = "umount" /\ ~cfg.forkMayFail /\ ~cfg.noSocket =>
    /\ cont \notin {"setup", "mounted"}
    /\ cont = "gate" => SupDead /\ ~released

\* The container directory is only cleaned up when that was asked for: always
\* with --auto-umount, and with --umount-on-panic only after a panic, never
\* after the command merely ended.  The one umount nobody asked for is that of a
\* container process that finds no QEMU, and such a container never runs a
\* command.
UmountOnlyWhenAsked ==
  /\ [][installed /\ ~installed' =>
          \/ cfg.autoUmount /\ daemon = "umount"
          \/ cfg.umountOnPanic /\ (watch = "umount" \/ (cfg.pidFile => IsPanic(pidFile)))
          \/ cfg.noQemu /\ ContPreExec]_vars
  /\ [](cfg.noQemu => exec = "none")

\* The pid file keeps the promise of PidFileStatus.  A line that is being
\* written counts as written: a reader that waits for the lock cannot tell.
ShownLine ==
  IF ~cfg.pidFile \/ ~okSent THEN Absent
  ELSE CASE daemon = "write"         -> Head(queue)
         [] daemon = "write_unknown" -> Unknown
         [] OTHER                    -> pidFile
Shown == INSTANCE PidFileStatus WITH line <- ShownLine, held <- locked
KeepsPidFilePromise == Shown!Spec

\* Once the container process or the supervisor is gone, the pid file is
\* completed, its lock released and the daemon ends: the watchdog and the
\* container process both let go of the socket in the end.
EndIsPublished == (cont = "dead" \/ SupDead) ~> (daemon \in {"none", "exited"} /\ ~locked)

\* --auto-umount cleans up after every container that ran, and in chroot mode
\* after one that failed to start as well; --umount-on-panic after a failed
\* exec.  (Left out: a namespace container that panics before its supervisor has
\* stored .rurienv, and a daemon without a socket, which does not wait.)
UmountHappens ==
  (/\ cont = "dead" /\ ~cfg.timeout /\ ~cfg.noSocket /\ ~cfg.forkMayFail
   /\ \/ cfg.autoUmount /\ (cfg.mode = "chroot" \/ exec = "ok")
      \/ cfg.umountOnPanic /\ cfg.mode = "chroot" /\ exec = "failed")
    ~> ~installed

\* With --umount-on-panic a timeout does end the command of a namespace container:
\* the watchdog's umount kills what its signal to the supervisor does not reach.
\* It ends that of a chroot container only when the self-bind of its directory
\* had failed; else the umount detaches the very mount the command has for its
\* root, and does not find it.  (A rootless process on the way to its exec is
\* another it cannot find.)
TimeoutUmountKills ==
  (/\ watch = "fired" /\ cfg.umountOnPanic /\ installed /\ cfg.rurienv
   /\ cfg.mode = "chroot" => ~cfg.selfBind
   /\ cont \in {"init", "running"} \/ (cont = "exec" /\ cfg.mode # "rootless"))
    ~> (cont = "dead" /\ ~JobLive /\ ~installed)

-----------------------------------------------------------------------------
(* What the documentation and the comments say, and the code does not do *)

\* doc/USAGE.md on --timeout: "it will automatically kill the container process
\* after the specified time".
TimeoutKillsContainer == (watch = "expired" /\ cont = "running") ~> cont = "dead"
=============================================================================
