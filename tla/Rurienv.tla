------------------------------- MODULE Rurienv -------------------------------
(***************************************************************************)
(* Several invocations of ruri on one container directory, and the file    *)
(* .rurienv in it that tells them of each other.                           *)
(*                                                                         *)
(* "ruri -u" enters the container whose ns_pid the file names, or creates  *)
(* one and writes the file; "ruri -U", which the automatic umounts are     *)
(* too, removes the file and kills that ns_pid.  There is no lock: each    *)
(* reads the file, looks at /proc/<ns_pid> and acts on what it saw then.   *)
(*                                                                         *)
(* Root runs them.  The file is written and made immutable in one step.    *)
(***************************************************************************)
CONSTANTS Starts,   \* invocations of ruri -u; a container goes by its creator
          Umounts,  \* invocations of ruri -U
          Pids,     \* the pids container processes can have
          NoPid,    \* RURI_INIT_VALUE
          Serial,   \* the callers run starts and umounts one at a time
          Reuse     \* pids are used again, by other programs as well

ASSUME StartsAssumption == Starts \cap (Umounts \cup {"free", "used", "dead", "foreign", "host"}) = {}
ASSUME PidsAssumption   == NoPid \notin Pids
ASSUME FlagsAssumption  == Serial \in BOOLEAN /\ Reuse \in BOOLEAN

VARIABLES
  pc,      \* where each invocation is
  ns_pid,  \* the ns_pid each has read or forked
  procs,   \* what each pid is: the init process of a container, "dead" while its
           \* supervisor has not collected it, "foreign": a process of another
           \* program in a mount namespace of its own
  info,    \* the ns_pid in .rurienv, NoPid when there is no file
  ns       \* the namespaces a start has entered

vars == <<pc, ns_pid, procs, info, ns>>

Invocations == Starts \cup Umounts
Live(p)     == procs[p] \in Starts
Running     == {p \in Pids : Live(p)}
Joining     == {s \in Starts : pc[s] \in {"join", "join_mnt", "join_fork"}}

\* Slip: strcmp() is taken for true on a match.
IsRuriPidNever(p) == p \in {}

\* is_ruri_pid(): any process whose mount namespace is not our own.
IsRuriPid(p) == p \in Pids /\ procs[p] \in Starts \cup {"foreign"}

\* ruri_set_limit() to the fork, or umount to kill: nobody else is at work.
Quiet == {"idle", "up", "in", "failed", "done"}
MayBegin(i) == Serial => \A j \in Invocations \ {i} : pc[j] \in Quiet

Goto(i, l) == pc' = [pc EXCEPT ![i] = l]

Init ==
  /\ pc = [i \in Invocations |-> "idle"]
  /\ ns_pid = [i \in Invocations |-> NoPid]
  /\ procs = [p \in Pids |-> "free"]
  /\ info = NoPid
  /\ ns = [s \in Starts |-> [pid |-> "host", mnt |-> "host"]]

-----------------------------------------------------------------------------
(* ruri -u *)

\* ruri_read_info(): there is no file, it names a container that is gone, or
\* one to enter.
ReadInfo(s) ==
  /\ pc[s] = "idle" /\ MayBegin(s)
  /\ \/ info = NoPid /\ Goto(s, "create") /\ UNCHANGED ns_pid
     \/ info # NoPid /\ ~IsRuriPid(info) /\ Goto(s, "discard") /\ UNCHANGED ns_pid
     \/ IsRuriPid(info) /\ Goto(s, "join") /\ ns_pid' = [ns_pid EXCEPT ![s] = info]
  /\ UNCHANGED <<procs, info, ns>>

\* The file is removed, whatever it says by now.
DiscardInfo(s) ==
  /\ pc[s] = "discard"
  /\ info' = NoPid
  /\ Goto(s, "create")
  /\ UNCHANGED <<ns_pid, procs, ns>>

\* init_unshare_container(): unshare(2) and fork(2).
Create(s) ==
  /\ pc[s] = "create"
  /\ \E p \in Pids :
       /\ procs[p] = "free"
       /\ procs' = [procs EXCEPT ![p] = s]
       /\ ns_pid' = [ns_pid EXCEPT ![s] = p]
  /\ Goto(s, "store")
  /\ UNCHANGED <<info, ns>>

CreateFails(s) ==
  /\ pc[s] = "create"
  /\ Goto(s, "failed")
  /\ UNCHANGED <<ns_pid, procs, info, ns>>

\* ruri_store_info(): the old file is removed ...
StoreRemove(s) ==
  /\ pc[s] = "store"
  /\ info' = NoPid
  /\ Goto(s, "write")
  /\ UNCHANGED <<ns_pid, procs, ns>>

\* ... and a new one written, unless somebody's is there by now: open() fails on
\* an immutable file, and nobody looks.
StoreWrite(s) ==
  /\ pc[s] = "write"
  /\ info' = IF info = NoPid THEN ns_pid[s] ELSE info
  /\ Goto(s, "up")
  /\ UNCHANGED <<ns_pid, procs, ns>>

\* The supervisor's waitpid() returns, and the pid is free for others.
Reap(s) ==
  /\ pc[s] = "up"
  /\ procs[ns_pid[s]] = "dead"
  /\ procs' = [procs EXCEPT ![ns_pid[s]] = IF Reuse THEN "free" ELSE "used"]
  /\ Goto(s, "done")
  /\ UNCHANGED <<ns_pid, info, ns>>

\* Slip: whatever has the pid now is entered.
JoinPidNsUnchecked(s) ==
  /\ pc[s] = "join"
  /\ ns' = [ns EXCEPT ![s].pid = procs[ns_pid[s]]]
  /\ Goto(s, "join_mnt")
  /\ UNCHANGED <<ns_pid, procs, info>>

\* join_ns(): the pid namespace comes first, and may be missing.
JoinPidNs(s) ==
  /\ pc[s] = "join"
  /\ ns' = [ns EXCEPT ![s].pid = IF IsRuriPid(ns_pid[s]) THEN procs[ns_pid[s]] ELSE "host"]
  /\ Goto(s, "join_mnt")
  /\ UNCHANGED <<ns_pid, procs, info>>

\* Slip: a missing mount namespace is a warning, too.
JoinMntNsWarns(s) ==
  /\ pc[s] = "join_mnt"
  /\ ns' = [ns EXCEPT ![s].mnt = IF IsRuriPid(ns_pid[s]) THEN procs[ns_pid[s]] ELSE "host"]
  /\ Goto(s, "join_fork")
  /\ UNCHANGED <<ns_pid, procs, info>>

\* The mount namespace comes last, and may not be missing.
JoinMntNs(s) ==
  /\ pc[s] = "join_mnt"
  /\ IF IsRuriPid(ns_pid[s])
     THEN ns' = [ns EXCEPT ![s].mnt = procs[ns_pid[s]]] /\ Goto(s, "join_fork")
     ELSE Goto(s, "failed") /\ UNCHANGED ns
  /\ UNCHANGED <<ns_pid, procs, info>>

\* fork(2) fails in a pid namespace whose init process is dead.
JoinFork(s) ==
  /\ pc[s] = "join_fork"
  /\ Goto(s, IF ns[s].pid \in Starts /\ \A p \in Pids : procs[p] # ns[s].pid
             THEN "failed" ELSE "in")
  /\ UNCHANGED <<ns_pid, procs, info, ns>>

\* The command run in an entered container ends.
JoinedEnds(s) ==
  /\ pc[s] = "in"
  /\ Goto(s, "done")
  /\ UNCHANGED <<ns_pid, procs, info, ns>>
-----------------------------------------------------------------------------
(* ruri -U: ruri_umount_container() *)

\* Slip: the file is read after it has been removed.
UmountReadsLate(u) ==
  /\ pc[u] = "idle" /\ MayBegin(u)
  /\ ns_pid' = [ns_pid EXCEPT ![u] = NoPid]
  /\ Goto(u, "remove")
  /\ UNCHANGED <<procs, info, ns>>

UmountReads(u) ==
  /\ pc[u] = "idle" /\ MayBegin(u)
  /\ ns_pid' = [ns_pid EXCEPT ![u] = IF IsRuriPid(info) THEN info ELSE NoPid]
  /\ Goto(u, "remove")
  /\ UNCHANGED <<procs, info, ns>>

UmountRemoves(u) ==
  /\ pc[u] = "remove"
  /\ info' = NoPid
  /\ Goto(u, "kill")
  /\ UNCHANGED <<ns_pid, procs, ns>>

\* What entered a container's pid namespace dies with its init process.
Dies(p, others) ==
  /\ procs' = [procs EXCEPT ![p] = IF procs[p] \in Starts THEN "dead" ELSE "free"]
  /\ pc' = [i \in Invocations |->
              IF i \in Starts /\ pc[i] = "in" /\ ns[i].pid = procs[p] /\ procs[p] \in Starts
              THEN "done" ELSE others[i]]

\* The cgroup of the container, if there is one, is killed with those who are on
\* their way into the container; then whatever has ns_pid now.
UmountKills(u) ==
  /\ pc[u] = "kill"
  /\ \E inCgroup \in SUBSET {s \in Joining : ns_pid[s] = ns_pid[u]} :
       LET rest == [i \in Invocations |-> IF i = u THEN "done"
                                         ELSE IF i \in inCgroup THEN "failed" ELSE pc[i]]
       IN IF IsRuriPid(ns_pid[u])
          THEN Dies(ns_pid[u], rest)
          ELSE pc' = rest /\ UNCHANGED procs
  /\ UNCHANGED <<ns_pid, info, ns>>
-----------------------------------------------------------------------------
(* The rest of the host *)

ContainerEnds(p) ==
  /\ Live(p)
  /\ Dies(p, pc)
  /\ UNCHANGED <<ns_pid, info, ns>>

ForeignStarts(p) ==
  /\ Reuse /\ procs[p] = "free"
  /\ procs' = [procs EXCEPT ![p] = "foreign"]
  /\ UNCHANGED <<pc, ns_pid, info, ns>>

ForeignEnds(p) ==
  /\ procs[p] = "foreign"
  /\ procs' = [procs EXCEPT ![p] = "free"]
  /\ UNCHANGED <<pc, ns_pid, info, ns>>

Start(s) ==
  \/ ReadInfo(s) \/ DiscardInfo(s) \/ Create(s) \/ CreateFails(s)
  \/ StoreRemove(s) \/ StoreWrite(s) \/ Reap(s)
  \/ JoinPidNs(s) \/ JoinMntNs(s) \/ JoinFork(s) \/ JoinedEnds(s)
Umount(u) == UmountReads(u) \/ UmountRemoves(u) \/ UmountKills(u)
Host(p)   == ContainerEnds(p) \/ ForeignStarts(p) \/ ForeignEnds(p)

Next ==
  \/ \E s \in Starts : Start(s)
  \/ \E u \in Umounts : Umount(u)
  \/ \E p \in Pids : Host(p)

Spec == Init /\ [][Next]_vars
-----------------------------------------------------------------------------
(* Properties *)

Phases == {"idle", "discard", "create", "store", "write", "up", "join", "join_mnt",
           "join_fork", "in", "remove", "kill", "failed", "done"}

\* The type invariant.
TypeOK ==
  /\ pc \in [Invocations -> Phases]
  /\ ns_pid \in [Invocations -> Pids \cup {NoPid}]
  /\ procs \in [Pids -> Starts \cup {"free", "used", "dead", "foreign"}]
  /\ info \in Pids \cup {NoPid}
  /\ ns \in [Starts -> [pid : Starts \cup {"foreign", "host"},
                        mnt : Starts \cup {"foreign", "host"}]]

\* doc/rurienv.md: ns_pid is stored "to make sure unshare container in the same
\* namespace": a directory never has two containers at once.
SameNamespace == \A p, q \in Running : p = q

\* ruri -U leaves no container of the directory behind.
UmountIsComplete ==
  [][\A u \in Umounts : pc[u] = "kill" /\ pc'[u] = "done" => Running' = {}]_vars

\* Whoever entered a container is in it altogether, not in the mount namespace of
\* one and the pid namespace of another or of the host, whenever the container
\* ends in the middle of it.
JoinedIsWhole ==
  \A s \in Starts : pc[s] = "in" => ns[s].pid = ns[s].mnt /\ ns[s].pid \in Starts
=============================================================================
