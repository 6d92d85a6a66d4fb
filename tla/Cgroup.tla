------------------------------- MODULE Cgroup -------------------------------
(***************************************************************************)
(* The cgroups of ruri: what a start joins and limits, and whom "ruri -U"  *)
(* kills through them.                                                     *)
(*                                                                         *)
(* A container has the directory ruri/<container_id> in each hierarchy.    *)
(* The id is the time of day at which the container was started, so two    *)
(* containers can have the same; nobody removes the directories but        *)
(* ruri -U of a namespace container on cgroup v2, which may come too early *)
(* for it.                                                                 *)
(***************************************************************************)
EXTENDS Naturals, FiniteSets

CONSTANTS
  Starts,    \* invocations that start a container or enter one
  Umounts,   \* invocations of ruri -U
  Dirs,      \* container directories
  MaxId,     \* the day has as many seconds: 86400
  Settings,  \* what the starts ask for
  Hosts,     \* where the host has each controller
  Nobody     \* the id of a container that is not running: RURI_INIT_VALUE

Controllers == {"memory", "cpuset", "cpupercent"}
Ids         == 1 .. MaxId

\* cgroup v2 on /sys/fs/cgroup, below it as "unified", v1, or nothing.
Versions == {"v2", "unified", "v1", "none"}

ASSUME MaxIdAssumption  == MaxId \in Nat \ {0} /\ Nobody \notin Ids
ASSUME StartsAssumption == Starts \cap Umounts = {} /\ "none" \notin Starts
ASSUME HostsAssumption  == Hosts \subseteq [Controllers -> Versions]
ASSUME SettingsAssumption ==
  /\ Settings # {}
  /\ Settings \subseteq [dir : Dirs, enable_unshare : BOOLEAN, systemd_mode : BOOLEAN,
                         limits : SUBSET Controllers, malformed : BOOLEAN]

VARIABLES
  version,  \* the host
  group,    \* the limits set in each directory of each hierarchy; NoGroup: it does not exist
  info,     \* .rurienv: the container_id, and the start that made the namespaces
  loc,      \* each invocation
  bound,    \* the directories that are mounted on themselves on the host
  mounted,  \* the directories with a procfs on the host
  root      \* what a chrooted process has for its root

mounts == <<bound, mounted, root>>
vars == <<version, group, info, loc, mounts>>

\* In v2 the controllers have their directories together.
Tree(c) == IF version[c] = "v1" THEN c ELSE version[c]
Trees   == {"v2", "unified"} \cup Controllers
NoGroup == {"none"}
NoInfo  == [id |-> Nobody, by |-> "none", systemd |-> FALSE]

Idle == [pc |-> "idle", setting |-> CHOOSE s \in Settings : TRUE, id |-> Nobody, by |-> "none",
         at |-> "memory", cgroup |-> [t \in Trees |-> Nobody], warned |-> {},
         systemd |-> FALSE, live |-> FALSE, fresh |-> FALSE, seen |-> {}]

Dir(i)     == loc[i].setting.dir
Running    == {p \in Starts : loc[p].pc = "running"}

\* is_ruri_pid(ns_pid): the container the file names is there.
Live(d) == info[d].by \in Starts /\ loc[info[d].by].pc = "running"

Goto(p, l) == loc' = [loc EXCEPT ![p].pc = l]

\* Processes end and leave their cgroups; the end of the first process of a container
\* ends all in its namespaces.
Gone    == [Idle EXCEPT !.pc = "gone"]
Kill(s) == [i \in Starts \cup Umounts |->
             IF i \in s \/ (i \in Running /\ loc[i].by \in s) THEN Gone ELSE loc[i]]
InGroup(t, id) == {p \in Starts : loc[p].cgroup[t] = id}

Init ==
  /\ version \in Hosts
  /\ group = [t \in Trees |-> [i \in Ids |-> NoGroup]]
  /\ info = [d \in Dirs |-> NoInfo]
  /\ loc = [i \in Starts \cup Umounts |-> Idle]
  /\ bound = {} /\ mounted = {}
  /\ root = [p \in Starts |-> "none"]

-----------------------------------------------------------------------------
(* A start *)

\* The id is the time of day, any when the next start comes, or that in the file of
\* the container that is entered: a namespace container that lives, or a directory
\* with a procfs, which may have lost its file.  A plain start on another directory
\* mounts that on itself, and does not look whether that worked.
Begin(p, s, now) ==
  LET d    == s.dir
      ns   == s.enable_unshare \/ Live(d)
      join == IF ns THEN Live(d) ELSE d \in mounted
      sys  == IF join THEN info[d].systemd ELSE s.systemd_mode
  IN
  /\ loc[p].pc = "idle"
  /\ loc' = [loc EXCEPT ![p] =
       [Idle EXCEPT !.setting = s,
                    !.id = IF join /\ info[d] # NoInfo THEN info[d].id ELSE now,
                    !.by = IF ~ns THEN "none" ELSE IF join THEN info[d].by ELSE p,
                    !.systemd = ns /\ sys,
                    !.pc = IF ~(ns /\ sys) THEN "mkdir" ELSE IF join THEN "join2" ELSE "setup2"]]
  /\ info' = [info EXCEPT ![d] = IF join THEN @ ELSE IF ns THEN NoInfo
                                 ELSE [id |-> now, by |-> "none", systemd |-> FALSE]]
  /\ bound' \in IF ns \/ join THEN {bound} ELSE {bound, bound \cup {d}}
  /\ UNCHANGED <<version, group, mounted, root>>

\* The controllers come one after the other; then init_unshare_container() forks
\* and stores the file.
Following(c) == CASE c = "memory" -> "cpuset" [] c = "cpuset" -> "cpupercent" [] c = "cpupercent" -> "done"

\* A plain start goes on to chroot(2), and to mount a procfs.
Chroot(p) ==
  /\ root' = [root EXCEPT ![p] = IF Dir(p) \in bound THEN "bind" ELSE "dir"]
  /\ mounted' \in {mounted, mounted \cup {Dir(p)}}
  /\ UNCHANGED bound

\* join_ns() ends when the container has gone meanwhile.
Late(p) == loc[p].by \in Starts \ {p} /\ loc[loc[p].by].pc = "gone"

Up(p, l) ==
  \/ /\ Late(p)
     /\ loc' = Kill({p}) /\ UNCHANGED <<info, mounts>>
  \/ /\ ~Late(p)
     /\ loc' = [loc EXCEPT ![p] = [l EXCEPT !.pc = "running", !.at = "memory"]]
     /\ info' = IF loc[p].by = p
                  THEN [info EXCEPT ![Dir(p)] = [id |-> l.id, by |-> p, systemd |-> l.systemd]]
                  ELSE info
     /\ IF loc[p].by = "none" THEN Chroot(p) ELSE UNCHANGED mounts

Advance(p, l) ==
  IF Following(l.at) = "done" THEN Up(p, l)
  ELSE /\ loc' = [loc EXCEPT ![p] = [l EXCEPT !.at = Following(@), !.pc = "mkdir"]]
       /\ UNCHANGED <<info, mounts>>

\* Only the warnings about a limit that was asked for are of interest.
Warn(p) == [loc[p] EXCEPT !.warned = @ \cup ({loc[p].at} \cap loc[p].setting.limits)]

\* ruri_set_memory_limit(), ruri_set_cpuset() and ruri_set_cpupercent(): mkdir() of
\* the container's directory, which may be there already ...
LimitMkdir(p) ==
  LET c == loc[p].at IN
  /\ loc[p].pc = "mkdir"
  /\ IF version[c] = "none"
       THEN Advance(p, Warn(p)) /\ UNCHANGED group
       ELSE /\ group' = [group EXCEPT ![Tree(c)][loc[p].id] = IF @ = NoGroup THEN {} ELSE @]
            /\ Goto(p, "attach") /\ UNCHANGED <<info, mounts>>
  /\ UNCHANGED version

\* ... then the process attaches itself, if the directory is still there and the
\* kernel takes it: a v1 cpuset that has no CPUs yet takes nobody.
\* Slip: cgroup.procs is made when it is not there, and the write to it counts.
AttachableAlways(p) == TRUE
Attachable(p)       == group[Tree(loc[p].at)][loc[p].id] # NoGroup

LimitAttach(p) ==
  LET c == loc[p].at IN
  /\ loc[p].pc = "attach"
  /\ \/ /\ Advance(p, Warn(p))
     \/ /\ Attachable(p)
        /\ LET l == [loc[p] EXCEPT !.cgroup[Tree(c)] = loc[p].id] IN
           IF c \in loc[p].setting.limits
             THEN loc' = [loc EXCEPT ![p] = [l EXCEPT !.pc = "write"]] /\ UNCHANGED <<info, mounts>>
             ELSE Advance(p, l)
  /\ UNCHANGED <<version, group>>

\* ... and writes the limit, in two files for some.  A malformed size ends the
\* start, a write that fails is warned of.
Limited(p) == [group EXCEPT ![Tree(loc[p].at)][loc[p].id] = @ \cup {loc[p].at}]
Malformed(p) == loc[p].at = "memory" /\ loc[p].setting.malformed

\* Slip: the result of the write is not looked at.
LimitWriteUnchecked(p) ==
  /\ loc[p].pc = "write"
  /\ \/ /\ Malformed(p)
        /\ loc' = Kill({p})
        /\ UNCHANGED <<group, info, mounts>>
     \/ /\ ~Malformed(p)
        /\ Advance(p, loc[p])
        /\ group' \in {group, Limited(p)}
  /\ UNCHANGED version
LimitWrite(p) ==
  /\ loc[p].pc = "write"
  /\ \/ /\ Malformed(p)
        /\ loc' = Kill({p})
        /\ UNCHANGED <<group, info, mounts>>
     \/ /\ ~Malformed(p)
        /\ \/ Advance(p, Warn(p)) /\ group' \in {group, Limited(p)}
           \/ Advance(p, loc[p]) /\ group' = Limited(p)
  /\ UNCHANGED version

\* setup_cgroup2() of systemd mode wants a new directory; it sets no limits.
\* Without v2 there, /sys/fs/cgroup takes a plain file as well, and nobody looks
\* whether the kernel took the pid.
HasV2 == \E c \in Controllers : version[c] = "v2"
Joined(p) == [loc[p] EXCEPT !.cgroup["v2"] = loc[p].id]
UpInCgroup2(p) == Up(p, loc[p]) \/ (HasV2 /\ Up(p, Joined(p)))

SetupCgroup2(p) ==
  /\ loc[p].pc = "setup2"
  /\ \/ group["v2"][loc[p].id] = NoGroup
        /\ group' = [group EXCEPT !["v2"][loc[p].id] = {}]
        /\ UpInCgroup2(p)
     \/ loc' = Kill({p}) /\ UNCHANGED <<group, info, mounts>>
  /\ UNCHANGED version

\* join_cgroup2() wants it to be there.
JoinCgroup2(p) ==
  /\ loc[p].pc = "join2"
  /\ \/ group["v2"][loc[p].id] # NoGroup /\ UpInCgroup2(p)
     \/ group["v2"][loc[p].id] = NoGroup /\ loc' = Kill({p}) /\ UNCHANGED <<info, mounts>>
  /\ UNCHANGED <<version, group>>

Exit(p) ==
  /\ p \in Running
  /\ loc' = Kill({p})
  /\ UNCHANGED <<version, group, info, mounts>>

-----------------------------------------------------------------------------
(* ruri -U *)

\* ruri_read_info(NULL): the id of the file counts only while the container is
\* there.  Without a file it is the one ruri_init_config() gave: the time.
\* Slip: it is taken from the file in any case.
IdToKillStored(d, now) == IF info[d] = NoInfo THEN now ELSE info[d].id
IdToKill(d, now) ==
  IF info[d] = NoInfo THEN now ELSE IF Live(d) THEN info[d].id ELSE Nobody

UmountRead(u, d, now) ==
  /\ loc[u].pc = "idle"
  /\ loc' = [loc EXCEPT ![u] = [Idle EXCEPT !.setting.dir = d, !.pc = "umount",
       !.id = IdToKill(d, now), !.live = Live(d), !.fresh = info[d] = NoInfo, !.by = info[d].by,
       !.seen = {p \in Running : Dir(p) = d /\ loc[p].by \in {"none", info[d].by}}]]
  /\ info' = [info EXCEPT ![d] = NoInfo]
  /\ UNCHANGED <<version, group, mounts>>

\* Then the directory is unmounted: nine times with MNT_DETACH, which takes it away
\* from those that have it for their root.
UmountDirectory(u) ==
  /\ loc[u].pc = "umount"
  /\ Goto(u, "kill")
  /\ bound' = bound \ {Dir(u)}
  /\ mounted' = mounted \ {Dir(u)}
  /\ root' = [p \in Starts |-> IF root[p] = "bind" /\ Dir(p) = Dir(u) THEN "detached" ELSE root[p]]
  /\ UNCHANGED <<version, group, info>>

\* ruri_try_cgroup_kill(): cgroup.kill, and rmdir(), which fails while the
\* processes are still on their way out.
CgroupKill(u) ==
  LET id == loc[u].id IN
  /\ loc[u].pc = "kill"
  /\ IF loc[u].live /\ HasV2 /\ group["v2"][id] # NoGroup
       THEN /\ loc' = [Kill(InGroup("v2", id)) EXCEPT ![u].pc = "scan"]
            /\ group' \in {group, [group EXCEPT !["v2"][id] = NoGroup]}
       ELSE Goto(u, "scan") /\ UNCHANGED group
  /\ UNCHANGED <<version, info, mounts>>

\* ruri_pid_in_cgroup() looks where the first controller there is has its groups.
First == CASE version["memory"] # "none"     -> Tree("memory")
           [] version["memory"] = "none" /\ version["cpuset"] # "none" -> Tree("cpuset")
           [] OTHER                          -> Tree("cpupercent")

\* is_container_process(): by cgroup, or with the directory for its root, which
\* processes in namespaces of their own do not have.  The root of a process whose
\* mount has been detached reads "/".
ByCgroup(u) == IF First = "none" \/ loc[u].id = Nobody THEN {} ELSE InGroup(First, loc[u].id)
\* Slip: by cgroup only.
ContainerProcessesByCgroup(u) == ByCgroup(u)
ByRoot(u) ==
  {p \in Running : Dir(p) = Dir(u) /\ loc[p].by = "none" /\ root[p] # "detached"}
ContainerProcesses(u) == ByCgroup(u) \cup ByRoot(u)

\* ruri_kill_container() goes over /proc; ruri_umount_container() then kills ns_pid.
ScanAndKill(u) ==
  /\ loc[u].pc = "scan"
  /\ LET s == ContainerProcesses(u) \cup {q \in Running : loc[u].live /\ q = loc[u].by}
     IN loc' = [Kill(s) EXCEPT ![u] = [Idle EXCEPT !.pc = "done", !.seen = loc[u].seen]]
  /\ UNCHANGED <<version, group, info, mounts>>

-----------------------------------------------------------------------------
Next ==
  \/ \E p \in Starts :
       \/ \E s \in Settings, now \in Ids : Begin(p, s, now)
       \/ LimitMkdir(p) \/ LimitAttach(p) \/ LimitWrite(p)
       \/ SetupCgroup2(p) \/ JoinCgroup2(p) \/ Exit(p)
  \/ \E u \in Umounts :
       \/ \E d \in Dirs, now \in Ids : UmountRead(u, d, now)
       \/ UmountDirectory(u) \/ CgroupKill(u) \/ ScanAndKill(u)

Spec == Init /\ [][Next]_vars

-----------------------------------------------------------------------------
(* Properties *)

\* The state is of its types; a process is only in directories that exist.
TypeOK ==
  /\ group \in [Trees -> [Ids -> (SUBSET Controllers) \cup {NoGroup}]]
  /\ \A p \in Starts : \A t \in Trees :
       LET i == loc[p].cgroup[t] IN i = Nobody \/ (i \in Ids /\ group[t][i] # NoGroup)

\* ruri_set_limit() attaches and then writes, and each step can fail: a running
\* container has the limits its start asked for in a directory its process is in,
\* or there was a warning for each that it has not, whatever directory an earlier
\* container left and whoever removes one in between.
LimitedOrWarned ==
  \A p \in Running : ~loc[p].systemd =>
    \A c \in loc[p].setting.limits \ loc[p].warned :
      /\ loc[p].cgroup[Tree(c)] = loc[p].id
      /\ c \in group[Tree(c)][loc[p].id]

\* ruri_kill_container() kills by the id, which is only the time of day: ruri -U
\* kills a process of another directory only when that has the id of the container
\* which is there now, or, with no .rurienv there, the id a container would get now.
\* A container that is long gone costs nobody his process.
Victims(u) == {p \in Starts : loc[p].pc # "gone" /\ loc'[p].pc = "gone" /\ Dir(p) # Dir(u)}
KillsOnlyOwn ==
  [][\A u \in Umounts : loc[u].pc # loc'[u].pc =>
       \A p \in Victims(u) :
         loc[p].id = loc[u].id /\ (loc[u].live \/ loc[u].fresh)]_vars

\* After ruri -U everybody is gone whom the container had when it read .rurienv:
\* those in its namespaces, and those that had the directory for their root and no
\* mount of their own below it.  (Of the others, whose root ruri -U detaches before
\* it looks at it, UmountKillsAll speaks.)
NobodyOutlivesUmount ==
  \A u \in Umounts : loc[u].pc = "done" =>
    \A p \in loc[u].seen : loc[p].pc = "gone" \/ root[p] = "detached"

-----------------------------------------------------------------------------
(* What a comment says, and the code does not do *)

\* src/umount.c: "All pids detected in the container will be killed at the same
\* time."
UmountKillsAll ==
  \A u \in Umounts : loc[u].pc = "done" => \A p \in loc[u].seen : loc[p].pc = "gone"
=============================================================================
