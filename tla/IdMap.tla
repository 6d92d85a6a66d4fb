------------------------------- MODULE IdMap --------------------------------
(***************************************************************************)
(* A rootless start, up to the container's command: how the user namespace *)
(* gets its id maps (rootless.c).                                          *)
(*                                                                         *)
(* ruri forks a helper first, unshares its user namespace and tells the    *)
(* helper through a pipe; the helper runs newuidmap and newgidmap on it.   *)
(* When that failed ruri maps only the user himself, after it has forked   *)
(* the container, which waits on a second pipe.  A start that finds the    *)
(* container running enters its namespaces and maps nothing.               *)
(***************************************************************************)
EXTENDS Naturals, FiniteSets

CONSTANTS
  Starts,   \* invocations of ruri as one user on one directory
  NoOne,    \* no container
  MaxKills  \* processes killed from outside

ASSUME NoOneAssumption    == NoOne \notin Starts
ASSUME MaxKillsAssumption == MaxKills \in Nat

VARIABLES
  subid,    \* whether /etc/subuid and /etc/subgid have ids for the user
  pc,       \* ruri itself
  ns,       \* whose namespaces it is in
  helper,   \* the process that runs newuidmap and newgidmap: pid_1
  cont,     \* the process that becomes the container: pid
  succeed,  \* set_id_map_succeed
  writers,  \* who has the writing end of sync_pipe
  writers2, \* ... and of sync_pipe_2
  sent,     \* the pipes that have been written: a subset of {1, 2}
  map,      \* the maps of each user namespace
  info,     \* ns_pid in .rurienv
  kills

vars == <<subid, pc, ns, helper, cont, succeed, writers, writers2, sent, map, info, kills>>

\* A map is not written yet, holds the user alone, or his range of subordinate ids.
NoMap   == [uid |-> "none", gid |-> "none"]
Kinds   == {"none", "self", "range"}
Whole   == {[uid |-> k, gid |-> k] : k \in {"self", "range"}}

Init ==
  /\ subid \in BOOLEAN
  /\ pc = [p \in Starts |-> "idle"]
  /\ ns = [p \in Starts |-> p]
  /\ helper = [p \in Starts |-> "none"]
  /\ cont = [p \in Starts |-> "none"]
  /\ succeed = [p \in Starts |-> FALSE]
  /\ writers = [p \in Starts |-> {}]
  /\ writers2 = [p \in Starts |-> {}]
  /\ sent = [p \in Starts |-> {}]
  /\ map = [p \in Starts |-> NoMap]
  /\ info = NoOne
  /\ kills = 0

Goto(p, l) == pc' = [pc EXCEPT ![p] = l]

\* ruri_error(), or the signal that kills it: ruri's ends of the pipes are closed.
Ends(p) ==
  /\ Goto(p, "end")
  /\ writers'  = [writers  EXCEPT ![p] = @ \ {"ruri"}]
  /\ writers2' = [writers2 EXCEPT ![p] = @ \ {"ruri"}]
Keeps == UNCHANGED <<writers, writers2>>

\* is_ruri_pid(): the first process of the container is there.
Up(q) == q # NoOne /\ cont[q] \in {"ready", "waiting", "running"}

-----------------------------------------------------------------------------
(* ruri: ruri_run_rootless_container() *)

\* ruri_read_info(): .rurienv is read; a container that runs is entered, after a helper
\* has been forked that does nothing.
Begin(p) ==
  /\ pc[p] = "idle"
  /\ \/ /\ Up(info)
        /\ ns' = [ns EXCEPT ![p] = info]
        /\ helper' = [helper EXCEPT ![p] = "ok"]
        /\ Goto(p, "join") /\ Keeps
     \/ Up(info) /\ Ends(p) /\ UNCHANGED <<ns, helper>>
     \/ /\ ~Up(info)
        /\ Goto(p, IF info = NoOne THEN "pipe" ELSE "remove") /\ Keeps
        /\ UNCHANGED <<ns, helper>>
  /\ UNCHANGED <<subid, cont, succeed, sent, map, info, kills>>

\* The file that names nobody is removed, whatever another start has written meanwhile.
RemoveInfo(p) ==
  /\ pc[p] = "remove"
  /\ info' = NoOne
  /\ Goto(p, "pipe") /\ Keeps
  /\ UNCHANGED <<subid, ns, helper, cont, succeed, sent, map, kills>>

\* The helper is forked with both ends of the pipe; pipe2() or fork() may fail.
ForkHelper(p) ==
  /\ pc[p] = "pipe"
  /\ \/ /\ helper' = [helper EXCEPT ![p] = "forked"]
        /\ writers' = [writers EXCEPT ![p] = {"ruri", "helper"}]
        /\ Goto(p, "unshare") /\ UNCHANGED writers2
     \/ Ends(p) /\ UNCHANGED helper
  /\ UNCHANGED <<subid, ns, cont, succeed, sent, map, info, kills>>

UnshareUser(p) ==
  /\ pc[p] = "unshare"
  /\ \/ Goto(p, "signal") /\ Keeps
     \/ Ends(p)
  /\ UNCHANGED <<subid, ns, helper, cont, succeed, sent, map, info, kills>>

\* With no reader left the write ends ruri.
SignalHelper(p) ==
  /\ pc[p] = "signal"
  /\ IF helper[p] \in {"forked", "reading"}
       THEN /\ sent' = [sent EXCEPT ![p] = @ \cup {1}]
            /\ writers' = [writers EXCEPT ![p] = @ \ {"ruri"}]
            /\ Goto(p, "wait_helper")
            /\ UNCHANGED writers2
       ELSE Ends(p) /\ UNCHANGED sent
  /\ UNCHANGED <<subid, ns, helper, cont, succeed, map, info, kills>>

\* WEXITSTATUS() of a helper that was killed is 0 as well.
WaitHelper(p) ==
  /\ pc[p] = "wait_helper"
  /\ helper[p] \in {"ok", "failed", "killed"}
  /\ succeed' = [succeed EXCEPT ![p] = helper[p] # "failed"]
  /\ Goto(p, "spaces")
  /\ Keeps
  /\ UNCHANGED <<subid, ns, helper, cont, sent, map, info, kills>>

\* The other namespaces; those for mounts and processes are needed.
UnshareOthers(p) ==
  /\ pc[p] = "spaces"
  /\ \/ Goto(p, "fork") /\ Keeps
     \/ Ends(p)
  /\ UNCHANGED <<subid, ns, helper, cont, succeed, sent, map, info, kills>>

\* setns() into all of those of the container, one after the other.
JoinNamespaces(p) ==
  /\ pc[p] = "join"
  /\ \/ /\ Up(ns[p])
        /\ succeed' = [succeed EXCEPT ![p] = TRUE]
        /\ Goto(p, "fork") /\ Keeps
     \/ Ends(p) /\ UNCHANGED succeed
  /\ UNCHANGED <<subid, ns, helper, cont, sent, map, info, kills>>

\* pipe2() and fork() may fail; a pid namespace whose first process has gone takes no
\* other.
Fork(p) ==
  /\ pc[p] = "fork"
  /\ \/ /\ ns[p] = p \/ Up(ns[p])
        /\ cont' = [cont EXCEPT ![p] = "ready"]
        /\ writers2' = [writers2 EXCEPT ![p] = {"ruri", "cont"}]
        /\ Goto(p, IF succeed[p] THEN "store" ELSE "set_uid_map")
        /\ UNCHANGED writers
     \/ Ends(p) /\ UNCHANGED cont
  /\ UNCHANGED <<subid, ns, helper, succeed, sent, map, info, kills>>

\* set_id_map(): a map can be written once only; every failure ends ruri.
\* Slip: the result of the write is not looked at.
SetUidMapUnchecked(p) ==
  /\ pc[p] = "set_uid_map"
  /\ map' = [map EXCEPT ![ns[p]].uid = IF @ = "none" THEN "self" ELSE @]
  /\ Goto(p, "set_gid_map") /\ Keeps
  /\ UNCHANGED <<subid, ns, helper, cont, succeed, sent, info, kills>>
SetUidMap(p) ==
  /\ pc[p] = "set_uid_map"
  /\ \/ /\ map[ns[p]].uid = "none"
        /\ map' = [map EXCEPT ![ns[p]].uid = "self"]
        /\ Goto(p, "set_gid_map") /\ Keeps
     \/ Ends(p) /\ UNCHANGED map
  /\ UNCHANGED <<subid, ns, helper, cont, succeed, sent, info, kills>>

\* /proc/self/setgroups is set to "deny" first, which the kernel wants.
SetGidMap(p) ==
  /\ pc[p] = "set_gid_map"
  /\ \/ /\ map[ns[p]].gid = "none"
        /\ map' = [map EXCEPT ![ns[p]].gid = "self"]
        /\ Goto(p, "store") /\ Keeps
     \/ Ends(p) /\ UNCHANGED map
  /\ UNCHANGED <<subid, ns, helper, cont, succeed, sent, info, kills>>

\* ruri_store_info(), by the start that made the container.
\* Slip: by any.
StoreInfoAlways(p) ==
  /\ pc[p] = "store"
  /\ info' = p
  /\ Goto(p, "go") /\ Keeps
  /\ UNCHANGED <<subid, ns, helper, cont, succeed, sent, map, kills>>
StoreInfo(p) ==
  /\ pc[p] = "store"
  /\ info' = IF ns[p] = p THEN p ELSE info
  /\ Goto(p, "go") /\ Keeps
  /\ UNCHANGED <<subid, ns, helper, cont, succeed, sent, map, kills>>

SendOk(p) ==
  /\ pc[p] = "go"
  /\ IF cont[p] \in {"ready", "waiting"}
       THEN /\ sent' = [sent EXCEPT ![p] = @ \cup {2}]
            /\ writers2' = [writers2 EXCEPT ![p] = @ \ {"ruri"}]
            /\ Goto(p, "wait")
            /\ UNCHANGED writers
       ELSE Ends(p) /\ UNCHANGED sent
  /\ UNCHANGED <<subid, ns, helper, cont, succeed, map, info, kills>>

WaitContainer(p) ==
  /\ pc[p] = "wait" /\ cont[p] = "end"
  /\ Ends(p)
  /\ UNCHANGED <<subid, ns, helper, cont, succeed, sent, map, info, kills>>

-----------------------------------------------------------------------------
(* The helper: try_setup_idmap() *)

Helper(p, from, to) ==
  /\ helper[p] = from
  /\ helper' = [helper EXCEPT ![p] = to]
  /\ writers' = [writers EXCEPT ![p] = @ \ {"helper"}]
  /\ UNCHANGED <<subid, pc, ns, cont, succeed, writers2, sent, info>>

HelperCloses(p) == Helper(p, "forked", "reading") /\ UNCHANGED <<map, kills>>

\* It reads what ruri sent, or the end of the pipe when nobody can write to it any
\* more.
HelperReads(p) ==
  /\ \/ 1 \in sent[p] /\ Helper(p, "reading", IF subid THEN "newuidmap" ELSE "failed")
     \/ 1 \notin sent[p] /\ writers[p] = {} /\ Helper(p, "reading", "failed")
  /\ UNCHANGED <<map, kills>>

\* newuidmap and newgidmap write the maps of ruri, while that is there, or fail.
HelperMaps(p) ==
  \/ /\ pc[p] # "end" /\ map[p].uid = "none"
     /\ Helper(p, "newuidmap", "newgidmap")
     /\ map' = [map EXCEPT ![p].uid = "range"]
     /\ UNCHANGED kills
  \/ /\ pc[p] # "end" /\ map[p].gid = "none"
     /\ Helper(p, "newgidmap", "ok")
     /\ map' = [map EXCEPT ![p].gid = "range"]
     /\ UNCHANGED kills
HelperFails(p) ==
  /\ Helper(p, "newuidmap", "failed") \/ Helper(p, "newgidmap", "failed")
  /\ UNCHANGED <<map, kills>>

-----------------------------------------------------------------------------
(* The container's process *)

Container(p, from, to) ==
  /\ cont[p] = from
  /\ cont' = [cont EXCEPT ![p] = to]
  /\ UNCHANGED <<subid, pc, ns, helper, succeed, writers, sent, map, info>>

\* Slip: it keeps the writing end of the pipe it reads from.
ContClosesNot(p) == Container(p, "ready", "waiting") /\ UNCHANGED <<writers2, kills>>
ContCloses(p) ==
  /\ Container(p, "ready", "waiting")
  /\ writers2' = [writers2 EXCEPT ![p] = @ \ {"cont"}]
  /\ UNCHANGED kills

ContReads(p) ==
  /\ \/ 2 \in sent[p] /\ Container(p, "waiting", "running")
     \/ 2 \notin sent[p] /\ writers2[p] = {} /\ Container(p, "waiting", "end")
  /\ UNCHANGED <<writers2, kills>>

\* The command ends; with the first process of the namespaces all in them end.
Gone(p) == [q \in Starts |-> IF cont[q] # "none" /\ (q = p \/ ns[q] = p) THEN "end" ELSE cont[q]]
ContEnds(p) ==
  /\ cont[p] = "running"
  /\ cont' = Gone(p)
  /\ UNCHANGED <<subid, pc, ns, helper, succeed, writers, writers2, sent, map, info, kills>>

-----------------------------------------------------------------------------
(* Kills from outside *)

Kill ==
  /\ kills < MaxKills
  /\ kills' = kills + 1

KillRuri(p) ==
  /\ Kill
  /\ pc[p] \notin {"idle", "end"}
  /\ Ends(p)
  /\ UNCHANGED <<subid, ns, helper, cont, succeed, sent, map, info>>

KillHelper(p) ==
  /\ Kill
  /\ \E s \in {"forked", "reading", "newuidmap", "newgidmap"} : Helper(p, s, "killed")
  /\ UNCHANGED map

-----------------------------------------------------------------------------
Ruri(p) ==
  \/ Begin(p) \/ RemoveInfo(p) \/ ForkHelper(p) \/ UnshareUser(p) \/ SignalHelper(p)
  \/ WaitHelper(p) \/ UnshareOthers(p) \/ JoinNamespaces(p) \/ Fork(p) \/ SetUidMap(p) \/ SetGidMap(p) \/ StoreInfo(p)
  \/ SendOk(p) \/ WaitContainer(p)
HelperSteps(p) == HelperCloses(p) \/ HelperReads(p) \/ HelperMaps(p) \/ HelperFails(p)
ContSteps(p)   == ContCloses(p) \/ ContReads(p)

Next == \E p \in Starts :
  Ruri(p) \/ HelperSteps(p) \/ ContSteps(p) \/ ContEnds(p) \/ KillRuri(p) \/ KillHelper(p)

\* The processes run; the command of the container need not end.
Fairness == \A p \in Starts :
  WF_vars(pc[p] # "idle" /\ Ruri(p)) /\ WF_vars(HelperSteps(p)) /\ WF_vars(ContSteps(p))

Spec == Init /\ [][Next]_vars /\ Fairness

-----------------------------------------------------------------------------
(* Properties *)

Helpers    == {"none", "forked", "reading", "newuidmap", "newgidmap", "ok", "failed", "killed"}
Containers == {"none", "ready", "waiting", "running", "end"}
Points     == {"idle", "remove", "pipe", "unshare", "signal", "wait_helper", "spaces", "join", "fork",
               "set_uid_map", "set_gid_map", "store", "go", "wait", "end"}

\* The state is of its types; .rurienv names the process that owns the namespaces,
\* and not one that entered them.
TypeOK ==
  /\ subid \in BOOLEAN
  /\ pc \in [Starts -> Points]
  /\ ns \in [Starts -> Starts]
  /\ helper \in [Starts -> Helpers]
  /\ cont \in [Starts -> Containers]
  /\ succeed \in [Starts -> BOOLEAN]
  /\ writers \in [Starts -> SUBSET {"ruri", "helper"}]
  /\ writers2 \in [Starts -> SUBSET {"ruri", "cont"}]
  /\ sent \in [Starts -> SUBSET {1, 2}]
  /\ map \in [Starts -> [uid : Kinds, gid : Kinds]]
  /\ info \in {NoOne} \cup {p \in Starts : ns[p] = p}
  /\ kills \in 0 .. MaxKills

\* Two ways lead to the maps, from two processes.  A container's command runs only
\* in a user namespace that has both, and both made the same way, so that no half of
\* newuidmap's work is ever completed by set_id_map()'s; and .rurienv is written when
\* they are, so that who enters the container by it, at any moment, never finds
\* himself without an id or with one that will change.  The one exception is
\* WEXITSTATUS() of a helper that was killed, which counts as success.
MapsAreMade ==
  \A p \in Starts : cont[p] = "running" \/ pc[p] = "join" =>
    map[ns[p]] \in Whole \/ helper[ns[p]] = "killed"

\* Each pipe ends with its writers: when ruri stops half way, at an error or killed,
\* neither the helper nor the container's process waits for it for ever.
NobodyWaitsForEver ==
  \A p \in Starts :
    pc[p] = "end" ~> helper[p] \notin {"forked", "reading"} /\ cont[p] \notin {"ready", "waiting"}
=============================================================================
