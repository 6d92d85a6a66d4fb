---------------------------- MODULE Rurienv_proofs ----------------------------
(***************************************************************************)
(* What holds of Rurienv for every set of invocations and of pids.         *)
(*                                                                         *)
(* Three inductive invariants: TypeOK needs no help; SameNamespace and     *)
(* UmountIsComplete need the callers to take turns (Serial) and follow     *)
(* from InTurn, which says where the pid of a running container is kept in *)
(* every phase of an invocation; JoinedIsWhole needs pids to be used once  *)
(* (~Reuse) and follows from Entering.                                     *)
(***************************************************************************)
EXTENDS Rurienv, TLAPS

\* Between reading .rurienv and the last act on what was read, one at a time.
OneAtWork == \A i, j \in Invocations : i # j => pc[i] \in Quiet \/ pc[j] \in Quiet

\* The creator of a running container has its pid and has not collected it.
Owned ==
  \A p \in Pids : Live(p) =>
    ns_pid[procs[p]] = p /\ pc[procs[p]] \in {"store", "write", "up"}

\* The pid of a running container is in .rurienv, or its creator is about to
\* write it, or the ruri -U that removed the file is about to kill it.
Tracked ==
  \A p \in Pids : Live(p) =>
    \/ info = p
    \/ pc[procs[p]] \in {"store", "write"}
    \/ \E u \in Umounts : pc[u] = "kill" /\ ns_pid[u] = p

\* ruri -U has read the pid of whatever is running.
UmountKnows ==
  \A u \in Umounts : pc[u] \in {"remove", "kill"} =>
    \A p \in Pids : Live(p) => ns_pid[u] = p

\* Who is about to create a container creates the only one.
CreatesOnly ==
  \A s \in Starts :
    /\ pc[s] \in {"discard", "create"} => Running = {}
    /\ pc[s] \in {"store", "write"} => \A p \in Pids : Live(p) => procs[p] = s
    /\ pc[s] = "write" => info = NoPid

\* The inductive invariant of callers that take turns.
InTurn == TypeOK /\ OneAtWork /\ Owned /\ Tracked /\ UmountKnows /\ CreatesOnly

\* A pid somebody has written down stays the pid of what it was.
Spent ==
  /\ \A p \in Pids : procs[p] # "foreign"
  /\ info \in Pids => procs[info] # "free"
  /\ \A i \in Invocations : ns_pid[i] \in Pids => procs[ns_pid[i]] # "free"

\* Whoever is on its way in goes into one container.
OneWayIn ==
  \A s \in Starts :
    /\ pc[s] = "join_mnt" /\ ns_pid[s] \in Pids /\ Live(ns_pid[s])
         => ns[s].pid = procs[ns_pid[s]]
    /\ pc[s] \in {"join_fork", "in"} => ns[s].pid = ns[s].mnt /\ ns[s].pid \in Starts

\* The inductive invariant of pids that are used once.
Entering == TypeOK /\ Spent /\ OneWayIn
-----------------------------------------------------------------------------
(* The two actions that end a container *)

\* What a step that ends the container of p does to the invocations in it or on
\* their way into it, I apart, and to p.
Ends(p, I) ==
  /\ pc' \in [Invocations -> Phases]
  /\ procs' \in [Pids -> Starts \cup {"free", "used", "dead", "foreign"}]
  /\ \A i \in Invocations \ I :
       \/ pc'[i] = pc[i]
       \/ /\ i \in Starts /\ pc[i] \in {"in", "join", "join_mnt", "join_fork"}
          /\ pc'[i] \in {"done", "failed"}
  /\ \A q \in Pids : q # p => procs'[q] = procs[q]
  /\ p \in Pids => /\ procs[p] \in Starts => procs'[p] = "dead"
                   /\ procs[p] = "foreign" => procs'[p] = "free"
                   /\ procs[p] \notin Starts \cup {"foreign"} => procs'[p] = procs[p]
  /\ UNCHANGED <<ns_pid, info, ns>>

\* A container ends by itself.
LEMMA ContainerEndsEnds ==
  ASSUME TypeOK, NEW p \in Pids, ContainerEnds(p)
  PROVE  Ends(p, {})
<1>1. procs' \in [Pids -> Starts \cup {"free", "used", "dead", "foreign"}]
  BY DEF TypeOK, ContainerEnds, Dies
<1>2. pc' \in [Invocations -> Phases]
  BY DEF TypeOK, ContainerEnds, Dies, Phases
<1>3. ASSUME NEW i \in Invocations
      PROVE  pc'[i] = pc[i] \/ (i \in Starts /\ pc[i] = "in" /\ pc'[i] = "done")
  <2>1. pc' = [j \in Invocations |->
                 IF j \in Starts /\ pc[j] = "in" /\ ns[j].pid = procs[p] /\ procs[p] \in Starts
                 THEN "done" ELSE pc[j]]
    BY DEF ContainerEnds, Dies
  <2>. QED BY <2>1
<1>4. procs[p] \in Starts /\ procs'[p] = "dead" /\ \A q \in Pids : q # p => procs'[q] = procs[q]
  BY DEF TypeOK, ContainerEnds, Dies, Live
<1>. QED BY <1>1, <1>2, <1>3, <1>4, StartsAssumption DEF Ends, ContainerEnds

\* ruri -U kills the container, or has nothing to kill.
LEMMA UmountKillsEnds ==
  ASSUME TypeOK, NEW u \in Umounts, UmountKills(u)
  PROVE  pc[u] = "kill" /\ pc'[u] = "done" /\ Ends(ns_pid[u], {u})
<1>. DEFINE rest(K) == [i \in Invocations |-> IF i = u THEN "done"
                                            ELSE IF i \in K THEN "failed" ELSE pc[i]]
            k == ns_pid[u]
<1>0. u \notin Starts /\ u \in Invocations /\ pc[u] = "kill" /\ UNCHANGED <<ns_pid, info, ns>>
  BY StartsAssumption DEF UmountKills, Invocations
<1>1. PICK K \in SUBSET {s \in Joining : ns_pid[s] = ns_pid[u]} :
        IF IsRuriPid(k) THEN Dies(k, rest(K)) ELSE pc' = rest(K) /\ UNCHANGED procs
  BY DEF UmountKills
<1>2. \A i \in K : i \in Starts /\ pc[i] \in {"join", "join_mnt", "join_fork"}
  BY DEF Joining
<1>3. CASE IsRuriPid(k)
  <2>1. k \in Pids /\ procs[k] \in Starts \cup {"foreign"} /\ Dies(k, rest(K))
    BY <1>1, <1>3 DEF IsRuriPid
  <2>2. procs' = [procs EXCEPT ![k] = IF procs[k] \in Starts THEN "dead" ELSE "free"]
    BY <2>1 DEF Dies
  <2>3. /\ procs' \in [Pids -> Starts \cup {"free", "used", "dead", "foreign"}]
        /\ \A q \in Pids : q # k => procs'[q] = procs[q]
        /\ procs[k] \in Starts => procs'[k] = "dead"
        /\ procs[k] = "foreign" => procs'[k] = "free"
    BY <2>1, <2>2, StartsAssumption DEF TypeOK
  <2>4. pc' = [i \in Invocations |->
                 IF i \in Starts /\ pc[i] = "in" /\ ns[i].pid = procs[k] /\ procs[k] \in Starts
                 THEN "done" ELSE rest(K)[i]]
    BY <2>1 DEF Dies
  <2>5. /\ pc' \in [Invocations -> Phases] /\ pc'[u] = "done"
        /\ \A i \in Invocations \ {u} :
             \/ pc'[i] = pc[i]
             \/ /\ i \in Starts /\ pc[i] \in {"in", "join", "join_mnt", "join_fork"}
                /\ pc'[i] \in {"done", "failed"}
    BY <1>0, <1>2, <2>4 DEF TypeOK, Phases
  <2>. QED BY <1>0, <2>1, <2>3, <2>5 DEF Ends
<1>4. CASE ~IsRuriPid(k)
  <2>1. procs' = procs /\ pc' = rest(K) /\ (k \in Pids => procs[k] \notin Starts \cup {"foreign"})
    BY <1>1, <1>4 DEF IsRuriPid
  <2>2. /\ pc' \in [Invocations -> Phases] /\ pc'[u] = "done"
        /\ \A i \in Invocations \ {u} :
             \/ pc'[i] = pc[i]
             \/ /\ i \in Starts /\ pc[i] \in {"in", "join", "join_mnt", "join_fork"}
                /\ pc'[i] \in {"done", "failed"}
    BY <1>0, <1>2, <2>1 DEF TypeOK, Phases
  <2>. QED BY <1>0, <2>1, <2>2, StartsAssumption DEF Ends, TypeOK
<1>. QED BY <1>3, <1>4
-----------------------------------------------------------------------------
(* Types *)

\* Every action keeps the types.
LEMMA TypeStep == ASSUME TypeOK, [Next]_vars PROVE TypeOK'
<1>1. ASSUME NEW s \in Starts, Start(s) PROVE TypeOK'
  <2>. USE DEF TypeOK, Phases, Invocations, Goto
  <2>1. CASE ReadInfo(s)
    BY <2>1 DEF ReadInfo, IsRuriPid
  <2>2. CASE DiscardInfo(s) \/ CreateFails(s) \/ StoreRemove(s) \/ JoinedEnds(s)
    BY <2>2 DEF DiscardInfo, CreateFails, StoreRemove, JoinedEnds
  <2>3. CASE Create(s)
    BY <2>3 DEF Create
  <2>4. CASE StoreWrite(s)
    BY <2>4 DEF StoreWrite
  <2>5. CASE Reap(s)
    BY <2>5 DEF Reap
  <2>6. CASE JoinPidNs(s)
    BY <2>6 DEF JoinPidNs, IsRuriPid
  <2>7. CASE JoinMntNs(s)
    BY <2>7 DEF JoinMntNs, IsRuriPid
  <2>8. CASE JoinFork(s)
    BY <2>8 DEF JoinFork
  <2>. QED BY <1>1, <2>1, <2>2, <2>3, <2>4, <2>5, <2>6, <2>7, <2>8 DEF Start
<1>2. ASSUME NEW u \in Umounts, Umount(u) PROVE TypeOK'
  <2>1. CASE UmountReads(u)
    BY <2>1 DEF UmountReads, IsRuriPid, TypeOK, Phases, Invocations, Goto
  <2>2. CASE UmountRemoves(u)
    BY <2>2 DEF UmountRemoves, TypeOK, Phases, Invocations, Goto
  <2>3. CASE UmountKills(u)
    BY <2>3, UmountKillsEnds DEF Ends, TypeOK
  <2>. QED BY <1>2, <2>1, <2>2, <2>3 DEF Umount
<1>3. ASSUME NEW p \in Pids, Host(p) PROVE TypeOK'
  <2>1. CASE ContainerEnds(p)
    BY <2>1, ContainerEndsEnds DEF Ends, TypeOK
  <2>2. CASE ForeignStarts(p) \/ ForeignEnds(p)
    BY <2>2 DEF ForeignStarts, ForeignEnds, TypeOK
  <2>. QED BY <1>3, <2>1, <2>2 DEF Host
<1>4. CASE UNCHANGED vars
  BY <1>4 DEF vars, TypeOK
<1>. QED BY <1>1, <1>2, <1>3, <1>4 DEF Next

\* The types hold, however many invocations, pids and containers there are.
THEOREM TypeCorrect == Spec => []TypeOK
<1>1. Init => TypeOK
  BY DEF Init, TypeOK, Phases, Invocations
<1>. QED BY <1>1, TypeStep, PTL DEF Spec
-----------------------------------------------------------------------------
(* Callers that take turns *)

\* In turn, every action of ruri -u keeps the pid of what runs where it is looked for.
LEMMA StartInTurn ==
  ASSUME Serial, InTurn, NEW s \in Starts, Start(s)
  PROVE  (OneAtWork /\ Owned /\ Tracked /\ UmountKnows /\ CreatesOnly)'
<1>. USE StartsAssumption, PidsAssumption
     DEF InTurn, TypeOK, Invocations, Goto, Quiet, Live, Running
<1>1. CASE ReadInfo(s)
  <2>1. \A i \in Invocations \ {s} : pc[i] \in Quiet
    BY <1>1 DEF ReadInfo, MayBegin
  <2>2. OneAtWork'
    BY <1>1, <2>1 DEF ReadInfo, OneAtWork
  <2>3. \A p \in Pids : Live(p) => info = p
    BY <1>1, <2>1 DEF ReadInfo, Owned, Tracked
  <2>4. pc'[s] \in {"discard", "create"} => Running = {}
    BY <1>1, <2>3 DEF ReadInfo, IsRuriPid
  <2>5. Owned'
    BY <1>1 DEF ReadInfo, Owned
  <2>6. Tracked'
    BY <1>1, <2>3 DEF ReadInfo, Tracked
  <2>7. UmountKnows'
    BY <1>1, <2>1 DEF ReadInfo, UmountKnows
  <2>8. CreatesOnly'
    BY <1>1, <2>1, <2>4 DEF ReadInfo, CreatesOnly
  <2>. QED BY <2>2, <2>5, <2>6, <2>7, <2>8
<1>2. CASE DiscardInfo(s)
  <2>1. Running = {}
    BY <1>2 DEF DiscardInfo, CreatesOnly
  <2>. QED BY <1>2, <2>1 DEF DiscardInfo, OneAtWork, Owned, Tracked, UmountKnows, CreatesOnly
<1>3. CASE Create(s)
  <2>1. Running = {} /\ pc[s] = "create" /\ pc'[s] = "store"
    BY <1>3 DEF Create, CreatesOnly
  <2>2. PICK p \in Pids : /\ procs[p] = "free"
                          /\ procs' = [procs EXCEPT ![p] = s]
                          /\ ns_pid' = [ns_pid EXCEPT ![s] = p]
    BY <1>3 DEF Create
  <2>3. \A q \in Pids : Live(q)' => q = p /\ procs'[q] = s
    BY <2>1, <2>2
  <2>4. \A i \in Invocations \ {s} : pc[i] \in Quiet /\ pc'[i] = pc[i]
    BY <1>3, <2>1 DEF Create, OneAtWork
  <2>5. OneAtWork' /\ Owned' /\ Tracked'
    BY <2>1, <2>2, <2>3, <2>4 DEF OneAtWork, Owned, Tracked
  <2>6. UmountKnows' /\ CreatesOnly'
    BY <2>1, <2>3, <2>4 DEF UmountKnows, CreatesOnly
  <2>. QED BY <2>5, <2>6
<1>4. CASE CreateFails(s)
  BY <1>4 DEF CreateFails, OneAtWork, Owned, Tracked, UmountKnows, CreatesOnly
<1>5. CASE StoreRemove(s)
  <2>1. \A p \in Pids : Live(p) => procs[p] = s
    BY <1>5 DEF StoreRemove, CreatesOnly
  <2>. QED BY <1>5, <2>1 DEF StoreRemove, OneAtWork, Owned, Tracked, UmountKnows, CreatesOnly
<1>6. CASE StoreWrite(s)
  <2>1. info' = ns_pid[s] /\ \A p \in Pids : Live(p) => procs[p] = s /\ ns_pid[s] = p
    BY <1>6 DEF StoreWrite, CreatesOnly, Owned
  <2>. QED BY <1>6, <2>1 DEF StoreWrite, OneAtWork, Owned, Tracked, UmountKnows, CreatesOnly
<1>7. CASE Reap(s)
  <2>1. \A p \in Pids : Live(p) => procs[p] # s
    BY <1>7 DEF Reap, Owned
  <2>2. \A p \in Pids : Live(p)' => Live(p) /\ procs'[p] = procs[p]
    BY <1>7 DEF Reap
  <2>. QED BY <1>7, <2>1, <2>2 DEF Reap, OneAtWork, Owned, Tracked, UmountKnows, CreatesOnly
<1>8. CASE JoinPidNs(s)
  BY <1>8 DEF JoinPidNs, OneAtWork, Owned, Tracked, UmountKnows, CreatesOnly
<1>9. CASE JoinMntNs(s)
  BY <1>9 DEF JoinMntNs, OneAtWork, Owned, Tracked, UmountKnows, CreatesOnly
<1>10. CASE JoinFork(s) \/ JoinedEnds(s)
  BY <1>10 DEF JoinFork, JoinedEnds, OneAtWork, Owned, Tracked, UmountKnows, CreatesOnly
<1>. QED BY <1>1, <1>2, <1>3, <1>4, <1>5, <1>6, <1>7, <1>8, <1>9, <1>10 DEF Start

\* In turn, so does every action of ruri -U.
LEMMA UmountInTurn ==
  ASSUME Serial, InTurn, NEW u \in Umounts, Umount(u)
  PROVE  (OneAtWork /\ Owned /\ Tracked /\ UmountKnows /\ CreatesOnly)'
<1>. USE StartsAssumption, PidsAssumption DEF InTurn, Invocations, Quiet, Live, Running
<1>1. CASE UmountReads(u)
  <2>1. \A i \in Invocations \ {u} : pc[i] \in Quiet
    BY <1>1 DEF UmountReads, MayBegin
  <2>2. \A p \in Pids : Live(p) => info = p /\ ns_pid'[u] = p
    BY <1>1, <2>1 DEF UmountReads, Owned, Tracked, IsRuriPid, TypeOK
  <2>. QED BY <1>1, <2>1, <2>2
       DEF UmountReads, Goto, TypeOK, OneAtWork, Owned, Tracked, UmountKnows, CreatesOnly
<1>2. CASE UmountRemoves(u)
  BY <1>2 DEF UmountRemoves, Goto, TypeOK, OneAtWork, Owned, Tracked, UmountKnows, CreatesOnly
<1>3. CASE UmountKills(u)
  <2>1. pc[u] = "kill" /\ pc'[u] = "done" /\ Ends(ns_pid[u], {u})
    BY <1>3, UmountKillsEnds
  <2>2. \A p \in Pids : ~Live(p)'
    BY <2>1 DEF Ends, UmountKnows
  <2>3. OneAtWork'
    BY <2>1 DEF Ends, OneAtWork
  <2>4. CreatesOnly'
    BY <2>1, <2>2 DEF Ends, CreatesOnly
  <2>. QED BY <2>2, <2>3, <2>4 DEF Owned, Tracked, UmountKnows
<1>. QED BY <1>1, <1>2, <1>3 DEF Umount

\* Nothing the rest of the host does loses the pid of what runs.
LEMMA HostInTurn ==
  ASSUME InTurn, NEW p \in Pids, Host(p)
  PROVE  (OneAtWork /\ Owned /\ Tracked /\ UmountKnows /\ CreatesOnly)'
<1>. USE StartsAssumption DEF InTurn, Invocations, Quiet, Live, Running
<1>1. CASE ContainerEnds(p)
  <2>1. Ends(p, {})
    BY <1>1, ContainerEndsEnds
  <2>2. \A q \in Pids : Live(q)' => Live(q) /\ procs'[q] = procs[q]
    BY <2>1 DEF Ends
  <2>3. OneAtWork'
    BY <2>1 DEF Ends, OneAtWork
  <2>4. Owned' /\ Tracked'
    BY <2>1, <2>2 DEF Ends, Owned, Tracked
  <2>5. UmountKnows' /\ CreatesOnly'
    BY <2>1, <2>2 DEF Ends, UmountKnows, CreatesOnly
  <2>. QED BY <2>3, <2>4, <2>5
<1>2. CASE ForeignStarts(p) \/ ForeignEnds(p)
  <2>1. \A q \in Pids : Live(q)' => Live(q) /\ procs'[q] = procs[q]
    BY <1>2 DEF ForeignStarts, ForeignEnds, TypeOK
  <2>2. UNCHANGED <<pc, ns_pid, info, ns>>
    BY <1>2 DEF ForeignStarts, ForeignEnds
  <2>. QED BY <2>1, <2>2 DEF OneAtWork, Owned, Tracked, UmountKnows, CreatesOnly
<1>. QED BY <1>1, <1>2 DEF Host

\* InTurn is inductive.
LEMMA InTurnHolds == ASSUME Serial PROVE Spec => []InTurn
<1>1. Init => InTurn
  <2>1. Init => TypeOK
    BY DEF Init, TypeOK, Phases, Invocations
  <2>. QED BY <2>1, StartsAssumption
       DEF Init, InTurn, OneAtWork, Owned, Tracked, UmountKnows, CreatesOnly, Live, Running,
           Quiet, Invocations
<1>2. InTurn /\ [Next]_vars => InTurn'
  <2>. SUFFICES ASSUME InTurn, [Next]_vars PROVE InTurn'
    OBVIOUS
  <2>1. TypeOK'
    BY TypeStep DEF InTurn
  <2>2. CASE UNCHANGED vars
    BY <2>2 DEF vars, InTurn, TypeOK, OneAtWork, Owned, Tracked, UmountKnows, CreatesOnly, Live,
       Running
  <2>. QED BY <2>1, <2>2, StartInTurn, UmountInTurn, HostInTurn DEF Next, InTurn
<1>. QED BY <1>1, <1>2, PTL DEF Spec

\* All that runs has one pid, wherever that is kept just then.
LEMMA InTurnIsOne == InTurn => SameNamespace
<1>. SUFFICES ASSUME InTurn, NEW p \in Pids, NEW q \in Pids, Live(p), Live(q) PROVE p = q
  BY DEF SameNamespace, Running
<1>1. CASE pc[procs[p]] \in {"store", "write"}
  BY <1>1 DEF InTurn, CreatesOnly, Owned, Live
<1>2. CASE pc[procs[q]] \in {"store", "write"}
  BY <1>2 DEF InTurn, CreatesOnly, Owned, Live
<1>3. CASE \E u \in Umounts : pc[u] = "kill"
  BY <1>3 DEF InTurn, UmountKnows
<1>. QED BY <1>1, <1>2, <1>3 DEF InTurn, Tracked

\* When starts and umounts take turns a directory never has two containers.
THEOREM OneContainerInTurn == Serial => (Spec => []SameNamespace)
<1>. SUFFICES ASSUME Serial PROVE Spec => []SameNamespace
  OBVIOUS
<1>1. Spec => []InTurn
  BY InTurnHolds
<1>. QED BY <1>1, InTurnIsOne, PTL

\* When they take turns, ruri -U kills what runs.
THEOREM UmountInTurnIsComplete == Serial => (Spec => UmountIsComplete)
<1>. SUFFICES ASSUME Serial PROVE Spec => UmountIsComplete
  OBVIOUS
<1>1. ASSUME InTurn, [Next]_vars
      PROVE  [\A u \in Umounts : pc[u] = "kill" /\ pc'[u] = "done" => Running' = {}]_vars
  <2>. SUFFICES ASSUME NEW u \in Umounts, pc[u] = "kill", pc'[u] = "done"
                PROVE  Running' = {}
    OBVIOUS
  <2>0. /\ InTurn /\ TypeOK /\ u \in Invocations /\ u \notin Starts
        /\ Starts \subseteq Invocations /\ Umounts \subseteq Invocations
    BY <1>1, StartsAssumption DEF Invocations, InTurn
  <2>1. \A s \in Starts : ~Start(s)
    BY <2>0 DEF Start, ReadInfo, DiscardInfo, Create, CreateFails, StoreRemove, StoreWrite, Reap,
      JoinPidNs, JoinMntNs, JoinFork, JoinedEnds, Goto, TypeOK
  <2>2. ASSUME NEW v \in Umounts, Umount(v) PROVE v = u /\ UmountKills(u)
    <3>1. CASE UmountKills(v)
      BY <3>1, <2>0, UmountKillsEnds DEF Ends
    <3>2. CASE UmountReads(v) \/ UmountRemoves(v)
      BY <3>2, <2>0 DEF UmountReads, UmountRemoves, Goto, TypeOK
    <3>. QED BY <2>2, <3>1, <3>2 DEF Umount
  <2>3. ASSUME NEW p \in Pids PROVE ~Host(p)
    <3>1. ~ContainerEnds(p)
      BY <2>0, ContainerEndsEnds DEF Ends
    <3>. QED BY <3>1 DEF Host, ForeignStarts, ForeignEnds
  <2>4. UmountKills(u)
    BY <1>1, <2>1, <2>2, <2>3 DEF Next, vars
  <2>5. Ends(ns_pid[u], {u}) /\ \A p \in Pids : Live(p) => ns_pid[u] = p
    BY <2>0, <2>4, UmountKillsEnds DEF InTurn, UmountKnows
  <2>. QED BY <2>5, StartsAssumption DEF Ends, Running, Live
<1>2. Spec => []InTurn
  BY InTurnHolds
<1>. QED BY <1>1, <1>2, PTL DEF Spec, UmountIsComplete
-----------------------------------------------------------------------------
(* Pids that are used once *)

\* Every step leaves a pid that somebody has written down what it was, and takes
\* no invocation from one container to another.
LEMMA EnteringStep == ASSUME ~Reuse, Entering, [Next]_vars PROVE Entering'
<1>. USE StartsAssumption, PidsAssumption DEF Entering, Invocations, Live
<1>0. TypeOK'
  BY TypeStep
<1>1. ASSUME NEW s \in Starts, Start(s) PROVE Spent' /\ OneWayIn'
  <2>. USE DEF TypeOK, Goto
  <2>1. CASE ReadInfo(s)
    BY <2>1 DEF ReadInfo, IsRuriPid, Spent, OneWayIn
  <2>2. CASE DiscardInfo(s) \/ CreateFails(s) \/ StoreRemove(s) \/ JoinedEnds(s)
    BY <2>2 DEF DiscardInfo, CreateFails, StoreRemove, JoinedEnds, Spent, OneWayIn
  <2>3. CASE Create(s)
    <3>1. PICK p \in Pids : /\ procs[p] = "free"
                            /\ procs' = [procs EXCEPT ![p] = s]
                            /\ ns_pid' = [ns_pid EXCEPT ![s] = p]
      BY <2>3 DEF Create
    <3>2. Spent'
      BY <2>3, <3>1 DEF Create, Spent
    <3>3. \A t \in Starts \ {s} : ns_pid[t] # p
      BY <3>1 DEF Spent
    <3>. QED BY <2>3, <3>1, <3>2, <3>3 DEF Create, OneWayIn
  <2>4. CASE StoreWrite(s)
    BY <2>4 DEF StoreWrite, Spent, OneWayIn
  <2>5. CASE Reap(s)
    BY <2>5 DEF Reap, Spent, OneWayIn
  <2>6. CASE JoinPidNs(s)
    BY <2>6 DEF JoinPidNs, IsRuriPid, Spent, OneWayIn
  <2>7. CASE JoinMntNs(s)
    BY <2>7 DEF JoinMntNs, IsRuriPid, Spent, OneWayIn
  <2>8. CASE JoinFork(s)
    BY <2>8 DEF JoinFork, Spent, OneWayIn
  <2>. QED BY <1>1, <2>1, <2>2, <2>3, <2>4, <2>5, <2>6, <2>7, <2>8 DEF Start
<1>2. ASSUME NEW u \in Umounts, Umount(u) PROVE Spent' /\ OneWayIn'
  <2>1. CASE UmountReads(u)
    BY <2>1 DEF UmountReads, IsRuriPid, Goto, TypeOK, Spent, OneWayIn
  <2>2. CASE UmountRemoves(u)
    BY <2>2 DEF UmountRemoves, Goto, TypeOK, Spent, OneWayIn
  <2>3. CASE UmountKills(u)
    BY <2>3, UmountKillsEnds DEF Ends, Spent, OneWayIn
  <2>. QED BY <1>2, <2>1, <2>2, <2>3 DEF Umount
<1>3. ASSUME NEW p \in Pids, Host(p) PROVE Spent' /\ OneWayIn'
  <2>1. CASE ContainerEnds(p)
    BY <2>1, ContainerEndsEnds DEF Ends, Spent, OneWayIn
  <2>2. ~ForeignStarts(p) /\ ~ForeignEnds(p)
    BY DEF ForeignStarts, ForeignEnds, Spent
  <2>. QED BY <1>3, <2>1, <2>2 DEF Host
<1>4. CASE UNCHANGED vars
  BY <1>0, <1>4 DEF vars, Spent, OneWayIn
<1>. QED BY <1>0, <1>1, <1>2, <1>3, <1>4 DEF Next

\* When pids are used once, whoever enters a container is in it altogether, in
\* whatever order the invocations interleave and the container ends.
THEOREM EnteringIsWhole == ~Reuse => (Spec => []JoinedIsWhole)
<1>. SUFFICES ASSUME ~Reuse PROVE Spec => []JoinedIsWhole
  OBVIOUS
<1>1. Init => Entering
  BY PidsAssumption, StartsAssumption
  DEF Init, Entering, TypeOK, Spent, OneWayIn, Phases, Invocations
<1>2. Entering => JoinedIsWhole
  BY DEF Entering, OneWayIn, JoinedIsWhole
<1>3. Entering /\ [Next]_vars => Entering'
  BY EnteringStep
<1>. QED BY <1>1, <1>2, <1>3, PTL DEF Spec
=============================================================================
