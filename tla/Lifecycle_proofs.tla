-------------------------- MODULE Lifecycle_proofs --------------------------
(***************************************************************************)
(* Proofs about Lifecycle, for every set of configurations, exit codes and *)
(* signals.                                                                *)
(***************************************************************************)
EXTENDS Lifecycle, TLAPS

-----------------------------------------------------------------------------
(* Types *)

\* The constant messages and lines are what they are called.
LEMMA ConstantsAreTyped ==
  /\ PanicExe \in Messages /\ PanicInternal \in Messages /\ PanicTimeout \in Messages
  /\ Msg("pid", ContPid) \in Messages
  /\ Absent \in Lines /\ Empty \in Lines /\ InitLine \in Lines /\ Unknown \in Lines
  /\ Messages \subseteq Lines
  /\ NoStatus \in StatusType
  /\ Exited(ErrorCode) \in StatusType /\ Signaled(SIGKILL) \in StatusType
BY CodesAssumption DEF PanicExe, PanicInternal, PanicTimeout, Unknown, Messages, Lines, Msg,
  Absent, Empty, InitLine, StatusType, Exited, Signaled, NoStatus, ErrorCode, SIGKILL

\* So is what becomes of an exit code and of a signal.
LEMMA StatusesAreTyped ==
  /\ \A n \in Nat : Exited(n) \in StatusType /\ Signaled(n) \in StatusType
  /\ \A st \in StatusType : Report(st) \in Messages
<1>1. \A st \in StatusType : st.val \in Nat /\ 128 + st.val \in Nat
  BY DEF StatusType
<1> QED
  BY <1>1 DEF Report, StatusType, Messages, Msg, Exited, Signaled

\* Sending a message keeps the queue a sequence of messages, and what is in it.
LEMMA SendIsTyped ==
  ASSUME queue \in Seq(Messages), NEW m \in Messages, Send(m)
  PROVE  queue' \in Seq(Messages) /\ (queue # <<>> => queue' # <<>>)
BY DEF Send

\* The end of the container process takes job with it or leaves it alone.
LEMMA ContDiesIsTyped ==
  ASSUME TypeOK, NEW st \in StatusType, ContDies(st)
  PROVE  /\ cont' = "dead" /\ status' \in StatusType
         /\ job' \in {"none", "exec", "panic", "running", "dead"}
         /\ jobStatus' \in StatusType
BY ConstantsAreTyped DEF TypeOK, ContDies

\* The umount kills or leaves alone.
LEMMA UmountIsTyped ==
  ASSUME TypeOK, UmountContainer
  PROVE  /\ cont' \in {cont, "dead"} /\ job' \in {job, "dead"}
         /\ sup' \in {sup, "killed"} /\ (sup' # sup => SupLive)
         /\ status' \in StatusType /\ jobStatus' \in StatusType
         /\ installed' \in BOOLEAN
BY ConstantsAreTyped DEF TypeOK, UmountContainer, SupInCgroup, SupLive

\* The daemon only writes when it has read: with this TypeOK is inductive.
TypeInv == TypeOK /\ (daemon = "write" => queue # <<>>)

\* The initial states are typed.
LEMMA TypeInit == Init => TypeInv
<1> SUFFICES ASSUME Init PROVE TypeInv
  OBVIOUS
<1>1. installed \in BOOLEAN
  BY DEF Init
<1>2. queue \in Seq(Messages) /\ daemon # "write"
  BY DEF Init
<1> QED
  BY <1>1, <1>2, ConstantsAreTyped DEF Init, TypeInv, TypeOK

\* Every step keeps the types.
LEMMA TypeStep == TypeInv /\ [Next]_vars => TypeInv'
<1> SUFFICES ASSUME TypeInv, [Next]_vars PROVE TypeInv'
  OBVIOUS
<1> USE ConstantsAreTyped DEF TypeInv, TypeOK
<1>1. CASE SetupPidFileDaemon
  BY <1>1 DEF SetupPidFileDaemon
<1>2. CASE FirstChildGone
  BY <1>2 DEF FirstChildGone
<1>3. CASE ReadSync
  BY <1>3, SendIsTyped DEF ReadSync
<1>4. CASE SetupTimeoutWatchdog
  BY <1>4, SendIsTyped DEF SetupTimeoutWatchdog
<1>5. CASE Launch
  BY <1>5 DEF Launch
<1>6. CASE LaunchFails
  BY <1>6, SendIsTyped DEF LaunchFails
<1>7. CASE StoreInfo
  BY <1>7 DEF StoreInfo
<1>8. CASE StoreInfoFails
  BY <1>8, SendIsTyped DEF StoreInfoFails
<1>9. CASE Announce
  BY <1>9, SendIsTyped DEF Announce
<1>10. CASE ReapContainer
  BY <1>10, SendIsTyped, StatusesAreTyped DEF ReapContainer
<1>11. CASE SupExit
  BY <1>11 DEF SupExit
<1>12. CASE ParentReaps
  BY <1>12 DEF ParentReaps
<1>13. CASE ExternalKill
  BY <1>13 DEF ExternalKill
<1>14. CASE DaemonOpen
  BY <1>14 DEF DaemonOpen, Put
<1>15. CASE DaemonLock
  <2>1. cfg.pidFile \in BOOLEAN
    BY ConfigsAssumption DEF ConfigType
  <2>2. locked' \in BOOLEAN /\ okSent' \in BOOLEAN
    BY <1>15, <2>1 DEF DaemonLock
  <2>3. pidFile' \in Lines /\ daemon' \in {"loop", "exited"}
    BY <1>15  DEF DaemonLock, Put
  <2> QED
    BY <1>15, <2>2, <2>3 DEF DaemonLock
<1>16. CASE DaemonRead
  BY <1>16 DEF DaemonRead, Put
<1>17. CASE DaemonWrite
  BY <1>17 DEF DaemonWrite, Put
<1>18. CASE DaemonEof
  BY <1>18 DEF DaemonEof, Put, AfterEof
<1>19. CASE DaemonWriteUnknown
  BY <1>19 DEF DaemonWriteUnknown, Put, AfterEof
<1>20. CASE DaemonRelease
  <2>1. queue' \in Seq(Messages) /\ daemon' \in {"umount", "exited"}
    BY <1>20 DEF DaemonRelease
  <2>2. locked' \in BOOLEAN
    BY <1>20 DEF DaemonRelease
  <2> QED
    BY <1>20, <2>1, <2>2 DEF DaemonRelease
<1>21. CASE DaemonUmount
  BY <1>21, UmountIsTyped DEF DaemonUmount
<1>22. CASE WatchSeesDeath
  BY <1>22 DEF WatchSeesDeath
<1>23. CASE WatchFires
  BY <1>23, SendIsTyped DEF WatchFires
<1>24. CASE WatchKills
  BY <1>24 DEF WatchKills
<1>25. CASE WatchUmount
  BY <1>25, UmountIsTyped DEF WatchUmount
<1>26. CASE GateOpens
  BY <1>26 DEF GateOpens
<1>27. CASE GateEof
  BY <1>27, SendIsTyped, ContDiesIsTyped DEF GateEof
<1>28. CASE ContMount
  BY <1>28 DEF ContMount
<1>29. CASE ContEnter
  BY <1>29, SendIsTyped DEF ContEnter
<1>30. CASE ContPanic
  BY <1>30, SendIsTyped, ContDiesIsTyped DEF ContPanic
<1>31. CASE ForkAsInit
  BY <1>31 DEF ForkAsInit
<1>32. CASE ContExec
  BY <1>32, SendIsTyped DEF ContExec
<1>33. CASE ContPanicExec
  BY <1>33, SendIsTyped, ContDiesIsTyped DEF ContPanicExec
<1>34. CASE ContEnds
  BY <1>34, ContDiesIsTyped, StatusesAreTyped, CodesAssumption DEF ContEnds
<1>35. CASE InitExits
  <2> DEFINE st == Exited(IF jobStatus.how = "exited" THEN jobStatus.val
                          ELSE 128 + jobStatus.val)
  <2>0. jobStatus.val \in Nat /\ 128 + jobStatus.val \in Nat
    BY DEF StatusType
  <2>1. st \in StatusType
    BY <2>0, StatusesAreTyped
  <2>2. ContDies(st)
    BY <1>35 DEF InitExits
  <2> HIDE DEF st
  <2> QED
    BY <1>35, <2>1, <2>2, ContDiesIsTyped DEF InitExits
<1>36. CASE ParentDeathSignal
  BY <1>36, ContDiesIsTyped DEF ParentDeathSignal
<1>37. CASE JobExec
  BY <1>37, SendIsTyped DEF JobExec
<1>38. CASE JobPanic
  BY <1>38, SendIsTyped DEF JobPanic
<1>39. CASE JobEnds
  BY <1>39, StatusesAreTyped, CodesAssumption DEF JobEnds
<1>40. CASE UNCHANGED vars
  BY <1>40 DEF vars
<1>41. CASE ReleaseChild
  <2>1. CASE cont = "dead"
    BY <1>41, <2>1, SendIsTyped DEF ReleaseChild
  <2>2. CASE cont # "dead"
    BY <1>41, <2>2 DEF ReleaseChild
  <2> QED
    BY <2>1, <2>2
<1>42. CASE CheckBinary
  <2>1. installed' \in BOOLEAN
    BY <1>42 DEF CheckBinary
  <2>2. /\ cont' = "no_qemu"
        /\ UNCHANGED <<cfg, sup, daemon, watch, job, reaped, queue, pidFile, locked,
                       okSent, released, status, jobStatus, exec>>
    BY <1>42 DEF CheckBinary
  <2> QED
    BY <2>1, <2>2
<1>43. CASE ForkAsInitFails
  BY <1>43, SendIsTyped, ContDiesIsTyped DEF ForkAsInitFails
<1> QED
  BY <1>1, <1>2, <1>3, <1>4, <1>5, <1>6, <1>7, <1>8, <1>9, <1>10, <1>11, <1>12, <1>13, <1>14, <1>15, <1>16, <1>17, <1>18, <1>19, <1>20, <1>21, <1>22, <1>23, <1>24, <1>25, <1>26, <1>27, <1>28, <1>29, <1>30, <1>31, <1>32, <1>33, <1>34, <1>35, <1>36, <1>37, <1>38, <1>39, <1>40, <1>41, <1>42, <1>43 DEF Next, SupStep, DaemonStep, WatchStep, ContStep, JobStep, Done
-----------------------------------------------------------------------------
(* The inductive invariant *)

Reading == daemon \in {"open", "lock", "loop", "write"}

\* Who has come how far when.
Stages ==
  /\ sup = "start" => daemon = "none"
  /\ daemon = "none" =>
       /\ sup \in {"start", "exited", "killed"}
       /\ cont = "none" /\ watch = "none" /\ queue = <<>>
  /\ sup \in {"start", "waitchild", "sync", "watch", "launch", "daemon"} => cont = "none"
  /\ sup \in {"start", "waitchild", "sync", "watch"} => watch = "none"
  /\ daemon \in {"none", "open", "lock"} => ~okSent /\ pidFile \in {Absent, Empty}
  /\ daemon \in {"none", "open", "lock"} /\ ~cfg.noSync =>
       /\ sup \notin {"watch", "launch", "announce", "stored", "release", "wait", "reported"}
       /\ sup = "exited" => cfg.forkMayFail
       /\ cont = "none" /\ watch = "none" /\ queue = <<>>
  /\ job # "none" => cont \in {"init", "orphan", "dead"}
  /\ cont = "dead" => status.how # "none"
  /\ sup \in {"announce", "stored"} => cfg.mode # "chroot"
  /\ sup = "release" => cfg.mode = "rootless"
  /\ released => sup \notin {"start", "waitchild", "sync", "watch", "launch", "announce", "stored",
                             "release"}
  /\ cfg.mode = "rootless" /\ ~released => cont \in {"none", "gate", "dead"}
  /\ sup = "reported" => cont = "dead"
  /\ sup = "exited" => cont \in {"none", "gate", "dead"} /\ ~(cont = "gate" /\ released)
  /\ cont \in {"none", "gate", "setup", "mounted", "no_qemu", "exec"} => exec = "none"
  /\ job = "exec" => exec = "none"
  /\ cfg.noQemu => /\ cont \in {"none", "gate", "setup", "mounted", "no_qemu", "dead"}
                   /\ job = "none" /\ exec = "none"
  /\ cont = "no_qemu" => cfg.noQemu

\* The container process is past the point up to which an umount would disturb
\* it, and stays there.
SetupOver ==
  /\ cont \notin {"setup", "mounted"}
  /\ cont = "gate" => SupDead /\ ~released
  /\ cont = "none" => sup \in {"exited", "killed", "daemon"}

\* Whatever makes the daemon unmount says that the setup is over.
UmountAfterSetup ==
  ~cfg.forkMayFail /\ ~cfg.noSocket =>
    /\ \A i \in 1..Len(queue) : IsPanic(queue[i]) /\ queue[i] # PanicTimeout => SetupOver
    /\ daemon \in {"write_unknown", "release_umount", "umount"} => SetupOver

\* What a line says of the world.
TrueLine(l) ==
  /\ l.kind \in {"exited", "signaled"} => cont = "dead" /\ l = Report(status)
  /\ l = PanicExe => exec = "failed"
  /\ l = PanicTimeout => watch \in {"fired", "umount", "expired"}
  /\ l = PanicInternal => SupDead \/ cont = "dead" \/ watch = "stopped"

\* The daemon never reads past a panic.
Silenced(i) == \E k \in 1..(i - 1) : IsPanic(queue[k])

\* Every message that the daemon will read is true.
QueueIsTrue ==
  /\ Reading => \A i \in 1..Len(queue) :
       queue[i].kind # "unknown" /\ (TrueLine(queue[i]) \/ Silenced(i))
  /\ Reading /\ job = "panic" /\ ~cfg.noSocket => Silenced(Len(queue) + 1)

\* sup is gone and could not report.
NoReport ==
  sup \in {"killed", "daemon"} \/ (sup = "exited" /\ cfg.forkMayFail) \/ cfg.noSocket

\* A supervisor that ended of itself has said why.
SupHasTold ==
  Reading /\ sup \in {"reported", "exited"} /\ ~cfg.forkMayFail /\ ~cfg.noSocket =>
    IF queue = <<>> THEN cfg.pidFile => IsFinal(pidFile) ELSE IsFinal(queue[Len(queue)])

FileIsTrue ==
  /\ TrueLine(pidFile)
  /\ pidFile.kind = "unknown" => NoReport
  /\ daemon = "write_unknown" /\ cfg.pidFile => NoReport

\* The pid is still to be sent, the report is still to be sent.
PidPending ==
  IF cfg.mode = "chroot" THEN cont \in {"none", "gate", "setup", "mounted"}
  ELSE sup \in {"start", "waitchild", "sync", "watch", "launch", "announce", "stored"}
ReportPending == sup \notin {"reported", "exited", "killed"}

Rank(l) == Shown!Rank(l)

\* The messages the daemon will read, and the line before them, are in order.
Ordered ==
  /\ Reading => \A i \in 1..Len(queue) :
       /\ \A j \in 1..Len(queue) : i < j => Rank(queue[i]) < Rank(queue[j]) \/ Silenced(j)
       /\ queue[i].kind = "pid" => ~PidPending
       /\ queue[i].kind \in {"exited", "signaled"} => ~ReportPending
  /\ daemon = "loop" =>
       /\ \A i \in 1..Len(queue) : Rank(pidFile) < Rank(queue[i]) \/ Silenced(i)
       /\ Rank(pidFile) < 4
       /\ Rank(pidFile) = 2 => ~PidPending
       /\ Rank(pidFile) = 3 => ~ReportPending

\* The lock is held while the file is written, and goes at a final line.
LockDiscipline ==
  /\ locked <=> (cfg.pidFile /\ daemon \in {"loop", "write", "write_unknown",
                                            "release_umount", "release_exit"})
  /\ ~cfg.pidFile => pidFile = Absent
  /\ daemon = "loop" => pidFile.kind # "unknown"
  /\ okSent => daemon \notin {"none", "open", "lock"}
  /\ daemon \in {"loop", "write", "write_unknown", "release_umount", "release_exit"} => okSent
  /\ daemon \in {"release_umount", "release_exit"} /\ cfg.pidFile => IsFinal(pidFile)

\* A message that is sent, with what holds at that step.
Sendable(m) ==
  /\ m \in {PanicExe, PanicInternal, PanicTimeout} \/ m.kind \in {"pid", "exited", "signaled"}
  /\ m \in Messages
  /\ TrueLine(m)' \/ (m = PanicInternal /\ job = "panic")
  /\ m \in {PanicExe, PanicInternal} => SetupOver' \/ cfg.forkMayFail
  /\ m.kind = "pid" => /\ PidPending /\ ~PidPending'
                       /\ ReportPending \/ cont # "dead"
                       /\ sup' \notin {"reported", "exited"}
  /\ m.kind \in {"exited", "signaled"} => ReportPending /\ ~ReportPending'
  /\ job' = "panic" => job = "panic" \/ IsPanic(m)

\* The steps of the others, as the daemon sees them: nothing, or a message.
SendStep == ~cfg.noSocket /\ \E m \in Messages : Sendable(m) /\ Send(m)
QuietStep ==
  /\ queue' = queue
  /\ job' = "panic" => job = "panic" \/ cfg.noSocket
  /\ sup' \in {"reported", "exited"} =>
       sup \in {"reported", "exited"} \/ cfg.forkMayFail \/ daemon = "exited" \/ cfg.noSocket
DaemonVars == <<daemon, pidFile, locked, okSent>>
OtherStep == UNCHANGED DaemonVars /\ (QuietStep \/ SendStep)

-----------------------------------------------------------------------------
\* Every step keeps the stages.
LEMMA StagesStep == TypeInv /\ Stages /\ [Next]_vars => Stages'
<1> SUFFICES ASSUME TypeInv, Stages, [Next]_vars PROVE Stages'
  OBVIOUS
<1> USE DEF TypeInv, TypeOK, Stages
<1>1. CASE SetupPidFileDaemon
  BY <1>1 DEF SetupPidFileDaemon, SupDead, ForkResults
<1>2. CASE FirstChildGone
  BY <1>2 DEF FirstChildGone
<1>3. CASE ReadSync
  BY <1>3 DEF ReadSync, Send
<1>4. CASE SetupTimeoutWatchdog
  BY <1>4 DEF SetupTimeoutWatchdog, Send, SupDead, ForkResults
<1>5. CASE Launch
  BY <1>5 DEF Launch
<1>6. CASE LaunchFails
  BY <1>6 DEF LaunchFails, Send, SupDead
<1>7. CASE StoreInfo
  BY <1>7 DEF StoreInfo
<1>8. CASE StoreInfoFails
  BY <1>8 DEF StoreInfoFails, Send
<1>9. CASE Announce
  BY <1>9 DEF Announce, Send
<1>10. CASE ReapContainer
  BY <1>10 DEF ReapContainer, Send
<1>11. CASE SupExit
  BY <1>11 DEF SupExit
<1>12. CASE ParentReaps
  BY <1>12 DEF ParentReaps
<1>13. CASE ExternalKill
  BY <1>13 DEF ExternalKill, SupLive
<1>14. CASE DaemonOpen
  BY <1>14 DEF DaemonOpen, Put
<1>15. CASE DaemonLock
  BY <1>15 DEF DaemonLock, Put
<1>16. CASE DaemonRead
  BY <1>16 DEF DaemonRead, Put
<1>17. CASE DaemonWrite
  BY <1>17 DEF DaemonWrite, Put
<1>18. CASE DaemonEof
  BY <1>18 DEF DaemonEof, Put, AfterEof
<1>19. CASE DaemonWriteUnknown
  BY <1>19 DEF DaemonWriteUnknown, Put, AfterEof
<1>20. CASE DaemonRelease
  BY <1>20 DEF DaemonRelease
<1>21. CASE DaemonUmount
  BY <1>21 DEF DaemonUmount, UmountContainer, Exited, Signaled, ContLive, JobLive
<1>22. CASE WatchSeesDeath
  BY <1>22 DEF WatchSeesDeath
<1>23. CASE WatchFires
  BY <1>23 DEF WatchFires, Send
<1>24. CASE WatchKills
  BY <1>24 DEF WatchKills, SupLive
<1>25. CASE WatchUmount
  BY <1>25 DEF WatchUmount, UmountContainer, Exited, Signaled, ContLive, JobLive
<1>26. CASE GateOpens
  BY <1>26 DEF GateOpens
<1>27. CASE GateEof
  BY <1>27 DEF GateEof, Send, ContDies, Exited, Signaled, SupDead, JobLive
<1>28. CASE ContMount
  BY <1>28 DEF ContMount
<1>29. CASE ContEnter
  BY <1>29 DEF ContEnter, Send
<1>30. CASE ContPanic
  BY <1>30 DEF ContPanic, Send, ContDies, Exited, Signaled, JobLive
<1>31. CASE ForkAsInit
  BY <1>31 DEF ForkAsInit
<1>32. CASE ContExec
  BY <1>32 DEF ContExec, Send
<1>33. CASE ContPanicExec
  BY <1>33 DEF ContPanicExec, Send, ContDies, Exited, Signaled, JobLive
<1>34. CASE ContEnds
  BY <1>34 DEF ContEnds, ContDies, Exited, Signaled, JobLive
<1>35. CASE InitExits
  BY <1>35 DEF InitExits, ContDies, Exited, Signaled, JobLive
<1>36. CASE ParentDeathSignal
  BY <1>36 DEF ParentDeathSignal, ContDies, Exited, Signaled, SupDead, JobLive
<1>37. CASE JobExec
  BY <1>37 DEF JobExec, Send
<1>38. CASE JobPanic
  BY <1>38 DEF JobPanic, Send, Exited, Signaled
<1>39. CASE JobEnds
  BY <1>39 DEF JobEnds, Exited, Signaled
<1>40. CASE UNCHANGED vars
  BY <1>40 DEF vars
<1>41. CASE ReleaseChild
  BY <1>41 DEF ReleaseChild, Send
<1>42. CASE CheckBinary
  BY <1>42 DEF CheckBinary
<1>43. CASE ForkAsInitFails
  BY <1>43 DEF ForkAsInitFails, Send, ContDies, Exited, Signaled, JobLive
<1> QED
  BY <1>1, <1>2, <1>3, <1>4, <1>5, <1>6, <1>7, <1>8, <1>9, <1>10, <1>11, <1>12, <1>13, <1>14, <1>15, <1>16, <1>17, <1>18, <1>19, <1>20, <1>21, <1>22, <1>23, <1>24, <1>25, <1>26, <1>27, <1>28, <1>29, <1>30, <1>31, <1>32, <1>33, <1>34, <1>35, <1>36, <1>37, <1>38, <1>39, <1>40, <1>41, <1>42, <1>43 DEF Next, SupStep, DaemonStep, WatchStep, ContStep, JobStep, Done

\* What never changes back.
LEMMA Stable ==
  ASSUME TypeInv, Stages, [Next]_vars
  PROVE  /\ cfg' = cfg
         /\ cont = "dead" => cont' = "dead" /\ status' = status
         /\ exec = "failed" => exec' = "failed"
         /\ watch \in {"fired", "umount", "expired"} => watch' \in {"fired", "umount", "expired"}
         /\ watch = "stopped" => watch' = "stopped"
         /\ sup \in {"exited", "killed"} => sup' = sup
         /\ sup = "daemon" => sup' = sup
         /\ sup = "reported" => sup' \in {"reported", "exited", "killed"}
         /\ sup \notin {"start", "waitchild", "sync", "watch", "launch", "announce", "stored"}
              => sup' \notin {"start", "waitchild", "sync", "watch", "launch", "announce", "stored"}
         /\ cont \notin {"gate", "setup", "mounted"} /\ cont # "none"
              => cont' \notin {"none", "gate", "setup", "mounted"}
         /\ cont = "none" /\ sup # "launch" => cont' = "none"
         /\ cont = "gate" /\ ~released /\ sup \in {"exited", "killed"}
              => cont' \in {"gate", "dead"} /\ ~released'
<1> USE DEF TypeInv, TypeOK, Stages
<1>1. CASE SetupPidFileDaemon
  BY <1>1 DEF SetupPidFileDaemon, ForkResults
<1>2. CASE FirstChildGone
  BY <1>2 DEF FirstChildGone
<1>3. CASE ReadSync
  BY <1>3 DEF ReadSync
<1>4. CASE SetupTimeoutWatchdog
  BY <1>4 DEF SetupTimeoutWatchdog, ForkResults
<1>5. CASE Launch
  BY <1>5 DEF Launch
<1>6. CASE LaunchFails
  BY <1>6 DEF LaunchFails
<1>7. CASE StoreInfo
  BY <1>7 DEF StoreInfo
<1>8. CASE StoreInfoFails
  BY <1>8 DEF StoreInfoFails
<1>9. CASE Announce
  BY <1>9 DEF Announce
<1>10. CASE ReapContainer
  BY <1>10 DEF ReapContainer
<1>11. CASE SupExit
  BY <1>11 DEF SupExit
<1>12. CASE ParentReaps
  BY <1>12 DEF ParentReaps
<1>13. CASE ExternalKill
  BY <1>13 DEF ExternalKill, SupLive
<1>14. CASE DaemonOpen
  BY <1>14 DEF DaemonOpen
<1>15. CASE DaemonLock
  BY <1>15 DEF DaemonLock
<1>16. CASE DaemonRead
  BY <1>16 DEF DaemonRead
<1>17. CASE DaemonWrite
  BY <1>17 DEF DaemonWrite
<1>18. CASE DaemonEof
  BY <1>18 DEF DaemonEof
<1>19. CASE DaemonWriteUnknown
  BY <1>19 DEF DaemonWriteUnknown
<1>20. CASE DaemonRelease
  BY <1>20 DEF DaemonRelease
<1>21. CASE DaemonUmount
  BY <1>21, UmountIsTyped DEF TypeInv, DaemonUmount, UmountContainer, ContLive, SupLive, SupDead
<1>22. CASE WatchSeesDeath
  BY <1>22 DEF WatchSeesDeath
<1>23. CASE WatchFires
  BY <1>23 DEF WatchFires
<1>24. CASE WatchKills
  BY <1>24 DEF WatchKills, SupLive
<1>25. CASE WatchUmount
  BY <1>25, UmountIsTyped DEF TypeInv, WatchUmount, UmountContainer, ContLive, SupLive, SupDead
<1>26. CASE GateOpens
  BY <1>26 DEF GateOpens
<1>27. CASE GateEof
  BY <1>27 DEF GateEof, ContDies, SupDead
<1>28. CASE ContMount
  BY <1>28 DEF ContMount
<1>29. CASE ContEnter
  BY <1>29 DEF ContEnter
<1>30. CASE ContPanic
  BY <1>30 DEF ContPanic, ContDies
<1>31. CASE ForkAsInit
  BY <1>31 DEF ForkAsInit
<1>32. CASE ContExec
  BY <1>32 DEF ContExec
<1>33. CASE ContPanicExec
  BY <1>33 DEF ContPanicExec, ContDies
<1>34. CASE ContEnds
  BY <1>34 DEF ContEnds, ContDies
<1>35. CASE InitExits
  BY <1>35 DEF InitExits, ContDies
<1>36. CASE ParentDeathSignal
  BY <1>36 DEF ParentDeathSignal, ContDies, SupDead
<1>37. CASE JobExec
  BY <1>37 DEF JobExec
<1>38. CASE JobPanic
  BY <1>38 DEF JobPanic
<1>39. CASE JobEnds
  BY <1>39 DEF JobEnds
<1>40. CASE UNCHANGED vars
  BY <1>40 DEF vars
<1>41. CASE ReleaseChild
  BY <1>41 DEF ReleaseChild
<1>42. CASE CheckBinary
  BY <1>42 DEF CheckBinary
<1>43. CASE ForkAsInitFails
  BY <1>43 DEF ForkAsInitFails, ContDies
<1> QED
  BY <1>1, <1>2, <1>3, <1>4, <1>5, <1>6, <1>7, <1>8, <1>9, <1>10, <1>11, <1>12, <1>13, <1>14, <1>15, <1>16, <1>17, <1>18, <1>19, <1>20, <1>21, <1>22, <1>23, <1>24, <1>25, <1>26, <1>27, <1>28, <1>29, <1>30, <1>31, <1>32, <1>33, <1>34, <1>35, <1>36, <1>37, <1>38, <1>39, <1>40, <1>41, <1>42, <1>43 DEF Next, SupStep, DaemonStep, WatchStep, ContStep, JobStep, Done

\* A line that is true stays true, and a setup that is over stays over.
LEMMA TruthIsStable ==
  ASSUME TypeInv, Stages, [Next]_vars
  PROVE  /\ \A l : TrueLine(l) => TrueLine(l)'
         /\ SetupOver => SetupOver'
         /\ NoReport => NoReport'
         /\ ~PidPending => ~PidPending'
         /\ ~ReportPending => ~ReportPending'
<1>1. ASSUME NEW l, TrueLine(l) PROVE TrueLine(l)'
  BY <1>1, Stable DEF TrueLine, SupDead, Report
<1>2. SetupOver => SetupOver'
  BY Stable DEF SetupOver, SupDead, TypeInv, TypeOK
<1>3. NoReport => NoReport'
  BY Stable DEF NoReport
<1>4. ~PidPending => ~PidPending'
  BY Stable DEF PidPending, TypeInv, TypeOK
<1>5. ~ReportPending => ~ReportPending'
  BY Stable DEF ReportPending
<1> QED
  BY <1>1, <1>2, <1>3, <1>4, <1>5

\* Every step is the daemon's, the one that starts it, or one of the others'.
LEMMA StepShapes ==
  ASSUME TypeInv, Stages, [Next]_vars
  PROVE  DaemonStep \/ SetupPidFileDaemon \/ OtherStep
<1> USE DEF OtherStep, DaemonVars
<1>q. ASSUME UNCHANGED DaemonVars, QuietStep PROVE OtherStep
  BY <1>q
<1>s. ASSUME UNCHANGED DaemonVars, NEW m \in Messages, Sendable(m), Send(m) PROVE OtherStep
  <2>1. CASE cfg.noSocket
    BY <1>s, <2>1, <1>q DEF Send, QuietStep
  <2>2. CASE ~cfg.noSocket
    BY <1>s, <2>2 DEF SendStep
  <2> QED
    BY <2>1, <2>2
<1>1. CASE FirstChildGone
  BY <1>1, <1>q DEF FirstChildGone, QuietStep, Stages, TypeInv, TypeOK
<1>2. CASE ReadSync
  <2>1. CASE sup' # "exited"
    BY <1>2, <2>1, <1>q DEF ReadSync, QuietStep, Stages, TypeInv, TypeOK
  <2>2. CASE ~(sup' # "exited")
    <3>1. Sendable(PanicInternal)
      BY <1>2, <2>2, ConstantsAreTyped
        DEF Sendable, Msg, PanicExe, PanicInternal, PanicTimeout, Messages, TrueLine, SetupOver, PidPending, ReportPending, IsPanic, SupDead, TypeInv, TypeOK, Stages, ReadSync
    <3> QED
      BY <1>2, <2>2, <3>1, <1>s, ConstantsAreTyped DEF ReadSync
  <2> QED
    BY <2>1, <2>2
<1>3. CASE SetupTimeoutWatchdog
  <2>1. CASE watch' # "stopped"
    BY <1>3, <2>1, <1>q DEF SetupTimeoutWatchdog, ForkResults, QuietStep, Stages, TypeInv, TypeOK
  <2>2. CASE ~(watch' # "stopped")
    <3>1. Sendable(PanicInternal)
      BY <1>3, <2>2, ConstantsAreTyped
        DEF Sendable, Msg, PanicExe, PanicInternal, PanicTimeout, Messages, TrueLine, SetupOver, PidPending, ReportPending, IsPanic, SupDead, TypeInv, TypeOK, Stages, SetupTimeoutWatchdog, ForkResults
    <3> QED
      BY <1>3, <2>2, <3>1, <1>s, ConstantsAreTyped DEF SetupTimeoutWatchdog, ForkResults
  <2> QED
    BY <2>1, <2>2
<1>4. CASE Launch
  BY <1>4, <1>q DEF Launch, QuietStep, Stages, TypeInv, TypeOK
<1>5. CASE LaunchFails
  <2>1. Sendable(PanicInternal)
    BY <1>5, ConstantsAreTyped
      DEF Sendable, Msg, PanicExe, PanicInternal, PanicTimeout, Messages, TrueLine, SetupOver, PidPending, ReportPending, IsPanic, SupDead, TypeInv, TypeOK, Stages, LaunchFails
  <2> QED
    BY <1>5, <2>1, <1>s, ConstantsAreTyped DEF LaunchFails, TypeInv, TypeOK
<1>6. CASE StoreInfo
  BY <1>6, <1>q DEF StoreInfo, QuietStep, Stages, TypeInv, TypeOK
<1>7. CASE StoreInfoFails
  <2>1. Sendable(PanicInternal)
    BY <1>7, ConstantsAreTyped
      DEF Sendable, Msg, PanicExe, PanicInternal, PanicTimeout, Messages, TrueLine, SetupOver, PidPending, ReportPending, IsPanic, SupDead, TypeInv, TypeOK, Stages, StoreInfoFails
  <2> QED
    BY <1>7, <2>1, <1>s, ConstantsAreTyped DEF StoreInfoFails, TypeInv, TypeOK
<1>8. CASE Announce
  <2>1. Sendable(Msg("pid", ContPid))
    BY <1>8, ConstantsAreTyped
      DEF Sendable, Msg, PanicExe, PanicInternal, PanicTimeout, Messages, TrueLine, SetupOver, PidPending, ReportPending, IsPanic, SupDead, TypeInv, TypeOK, Stages, Announce
  <2> QED
    BY <1>8, <2>1, <1>s, ConstantsAreTyped DEF Announce, TypeInv, TypeOK
<1>9. CASE ReapContainer
  <2>1. Sendable(Report(status))
    BY <1>9, ConstantsAreTyped, StatusesAreTyped
      DEF Sendable, Msg, PanicExe, PanicInternal, PanicTimeout, Messages, TrueLine, SetupOver, PidPending, ReportPending, IsPanic, SupDead, TypeInv, TypeOK, Stages, ReapContainer, Report, StatusType
  <2> QED
    BY <1>9, <2>1, <1>s, ConstantsAreTyped, StatusesAreTyped DEF ReapContainer, TypeInv, TypeOK
<1>10. CASE SupExit
  BY <1>10, <1>q DEF SupExit, QuietStep, Stages, TypeInv, TypeOK
<1>11. CASE ParentReaps
  BY <1>11, <1>q DEF ParentReaps, QuietStep, Stages, TypeInv, TypeOK
<1>12. CASE ExternalKill
  BY <1>12, <1>q DEF ExternalKill, SupLive, QuietStep, Stages, TypeInv, TypeOK
<1>13. CASE WatchSeesDeath
  BY <1>13, <1>q DEF WatchSeesDeath, QuietStep, Stages, TypeInv, TypeOK
<1>14. CASE WatchFires
  <2>1. Sendable(PanicTimeout)
    BY <1>14, ConstantsAreTyped
      DEF Sendable, Msg, PanicExe, PanicInternal, PanicTimeout, Messages, TrueLine, SetupOver, PidPending, ReportPending, IsPanic, SupDead, TypeInv, TypeOK, Stages, WatchFires
  <2> QED
    BY <1>14, <2>1, <1>s, ConstantsAreTyped DEF WatchFires, TypeInv, TypeOK
<1>15. CASE WatchKills
  BY <1>15, <1>q DEF WatchKills, SupLive, QuietStep, Stages, TypeInv, TypeOK
<1>16. CASE WatchUmount
  BY <1>16, <1>q DEF WatchUmount, UmountContainer, JobLive, QuietStep, Stages, TypeInv, TypeOK
<1>17. CASE GateOpens
  BY <1>17, <1>q DEF GateOpens, QuietStep, Stages, TypeInv, TypeOK
<1>18. CASE GateEof
  <2>1. Sendable(PanicInternal)
    BY <1>18, ConstantsAreTyped
      DEF Sendable, Msg, PanicExe, PanicInternal, PanicTimeout, Messages, TrueLine, SetupOver, PidPending, ReportPending, IsPanic, SupDead, TypeInv, TypeOK, Stages, GateEof, ContDies, SupDead
  <2> QED
    BY <1>18, <2>1, <1>s, ConstantsAreTyped DEF GateEof, TypeInv, TypeOK
<1>19. CASE ContMount
  BY <1>19, <1>q DEF ContMount, QuietStep, Stages, TypeInv, TypeOK
<1>20. CASE ContEnter
  <2>1. CASE cfg.mode # "chroot"
    BY <1>20, <2>1, <1>q DEF ContEnter, QuietStep, Stages, TypeInv, TypeOK
  <2>2. CASE ~(cfg.mode # "chroot")
    <3>1. Sendable(Msg("pid", ContPid))
      BY <1>20, <2>2, ConstantsAreTyped
        DEF Sendable, Msg, PanicExe, PanicInternal, PanicTimeout, Messages, TrueLine, SetupOver, PidPending, ReportPending, IsPanic, SupDead, TypeInv, TypeOK, Stages, ContEnter
    <3> QED
      BY <1>20, <2>2, <3>1, <1>s, ConstantsAreTyped DEF ContEnter
  <2> QED
    BY <2>1, <2>2
<1>21. CASE ContPanic
  <2>1. Sendable(PanicInternal)
    BY <1>21, ConstantsAreTyped
      DEF Sendable, Msg, PanicExe, PanicInternal, PanicTimeout, Messages, TrueLine, SetupOver, PidPending, ReportPending, IsPanic, SupDead, TypeInv, TypeOK, Stages, ContPanic, ContDies
  <2> QED
    BY <1>21, <2>1, <1>s, ConstantsAreTyped DEF ContPanic, TypeInv, TypeOK
<1>22. CASE ForkAsInit
  BY <1>22, <1>q DEF ForkAsInit, QuietStep, Stages, TypeInv, TypeOK
<1>23. CASE ContExec
  <2>1. CASE cont' = "running"
    BY <1>23, <2>1, <1>q DEF ContExec, QuietStep, Stages, TypeInv, TypeOK
  <2>2. CASE ~(cont' = "running")
    <3>1. Sendable(PanicExe)
      BY <1>23, <2>2, ConstantsAreTyped
        DEF Sendable, Msg, PanicExe, PanicInternal, PanicTimeout, Messages, TrueLine, SetupOver, PidPending, ReportPending, IsPanic, SupDead, TypeInv, TypeOK, Stages, ContExec
    <3> QED
      BY <1>23, <2>2, <3>1, <1>s, ConstantsAreTyped DEF ContExec
  <2> QED
    BY <2>1, <2>2
<1>24. CASE ContPanicExec
  <2>1. Sendable(PanicInternal)
    BY <1>24, ConstantsAreTyped
      DEF Sendable, Msg, PanicExe, PanicInternal, PanicTimeout, Messages, TrueLine, SetupOver, PidPending, ReportPending, IsPanic, SupDead, TypeInv, TypeOK, Stages, ContPanicExec, ContDies
  <2> QED
    BY <1>24, <2>1, <1>s, ConstantsAreTyped DEF ContPanicExec, TypeInv, TypeOK
<1>25. CASE ContEnds
  BY <1>25, <1>q DEF ContEnds, ContDies, QuietStep, Stages, TypeInv, TypeOK
<1>26. CASE InitExits
  BY <1>26, <1>q DEF InitExits, ContDies, QuietStep, Stages, TypeInv, TypeOK
<1>27. CASE ParentDeathSignal
  BY <1>27, <1>q DEF ParentDeathSignal, ContDies, SupDead, QuietStep, Stages, TypeInv, TypeOK
<1>28. CASE JobExec
  <2>1. CASE job' = "running"
    BY <1>28, <2>1, <1>q DEF JobExec, QuietStep, Stages, TypeInv, TypeOK
  <2>2. CASE ~(job' = "running")
    <3>1. Sendable(PanicExe)
      BY <1>28, <2>2, ConstantsAreTyped
        DEF Sendable, Msg, PanicExe, PanicInternal, PanicTimeout, Messages, TrueLine, SetupOver, PidPending, ReportPending, IsPanic, SupDead, TypeInv, TypeOK, Stages, JobExec
    <3> QED
      BY <1>28, <2>2, <3>1, <1>s, ConstantsAreTyped DEF JobExec
  <2> QED
    BY <2>1, <2>2
<1>29. CASE JobPanic
  <2>1. Sendable(PanicInternal)
    BY <1>29, ConstantsAreTyped
      DEF Sendable, Msg, PanicExe, PanicInternal, PanicTimeout, Messages, TrueLine, SetupOver, PidPending, ReportPending, IsPanic, SupDead, TypeInv, TypeOK, Stages, JobPanic
  <2> QED
    BY <1>29, <2>1, <1>s, ConstantsAreTyped DEF JobPanic, TypeInv, TypeOK
<1>30. CASE JobEnds
  BY <1>30, <1>q DEF JobEnds, QuietStep, Stages, TypeInv, TypeOK
<1>31. CASE UNCHANGED vars
  BY <1>31, <1>q DEF vars, QuietStep
<1>32. CASE ReleaseChild
  <2>1. CASE cont # "dead"
    BY <1>32, <2>1, <1>q DEF ReleaseChild, QuietStep, Stages, TypeInv, TypeOK
  <2>2. CASE ~(cont # "dead")
    <3>1. Sendable(PanicInternal)
      BY <1>32, <2>2, ConstantsAreTyped
        DEF Sendable, Msg, PanicExe, PanicInternal, PanicTimeout, Messages, TrueLine, SetupOver, PidPending, ReportPending, IsPanic, SupDead, TypeInv, TypeOK, Stages, ReleaseChild
    <3> QED
      BY <1>32, <2>2, <3>1, <1>s, ConstantsAreTyped DEF ReleaseChild
  <2> QED
    BY <2>1, <2>2
<1>33. CASE CheckBinary
  BY <1>33, <1>q DEF CheckBinary, QuietStep, Stages, TypeInv, TypeOK
<1>34. CASE ForkAsInitFails
  <2>1. Sendable(PanicInternal)
    BY <1>34, ConstantsAreTyped
      DEF Sendable, Msg, PanicExe, PanicInternal, PanicTimeout, Messages, TrueLine, SetupOver, PidPending, ReportPending, IsPanic, SupDead, TypeInv, TypeOK, Stages, ForkAsInitFails, ContDies
  <2> QED
    BY <1>34, <2>1, <1>s, ConstantsAreTyped DEF ForkAsInitFails, TypeInv, TypeOK
<1> QED
  BY <1>1, <1>2, <1>3, <1>4, <1>5, <1>6, <1>7, <1>8, <1>9, <1>10, <1>11, <1>12, <1>13, <1>14, <1>15, <1>16, <1>17, <1>18, <1>19, <1>20, <1>21, <1>22, <1>23, <1>24, <1>25, <1>26, <1>27, <1>28, <1>29, <1>30, <1>31, <1>32, <1>33, <1>34 DEF Next, SupStep, WatchStep, ContStep, JobStep, Done

-----------------------------------------------------------------------------
(* The queue *)

\* Appending leaves the elements where they are and adds the new one at the end.
LEMMA AppendAt ==
  ASSUME NEW S, NEW q \in Seq(S), NEW m \in S
  PROVE  /\ Append(q, m) \in Seq(S) /\ Append(q, m) # <<>>
         /\ Len(Append(q, m)) = Len(q) + 1
         /\ Len(q) \in Nat
         /\ \A i \in 1..Len(q) : Append(q, m)[i] = q[i]
         /\ Append(q, m)[Len(q) + 1] = m
OBVIOUS

\* Taking the head off a sequence moves every element one place forward.
LEMMA TailAt ==
  ASSUME NEW S, NEW q \in Seq(S), q # <<>>
  PROVE  /\ Tail(q) \in Seq(S)
         /\ Len(q) \in Nat \ {0} /\ Len(Tail(q)) = Len(q) - 1
         /\ \A i \in 1..Len(Tail(q)) : Tail(q)[i] = q[i + 1]
         /\ Head(q) = q[1] /\ q[1] \in S
         /\ \A i \in 1..Len(q) : q[i] \in S
OBVIOUS

\* What follows a panic still does after another message has been sent ...
LEMMA SilencedBySend ==
  ASSUME TypeInv, NEW m \in Messages, Send(m), daemon # "exited", ~cfg.noSocket
  PROVE  /\ Len(queue') = Len(queue) + 1
         /\ \A i \in 1..Len(queue) : queue'[i] = queue[i]
         /\ queue'[Len(queue) + 1] = m
         /\ \A i \in 1..(Len(queue) + 1) : Silenced(i) => Silenced(i)'
<1>1. queue' = Append(queue, m) /\ queue \in Seq(Messages)
  BY DEF Send, TypeInv, TypeOK
<1>2. \A i \in 1..Len(queue) : queue'[i] = queue[i]
  BY <1>1, AppendAt
<1>3. ASSUME NEW i \in 1..(Len(queue) + 1), NEW k \in 1..(i - 1), IsPanic(queue[k])
      PROVE  k \in 1..Len(queue) /\ IsPanic(queue'[k])
  BY <1>1, <1>2, <1>3, AppendAt
<1> QED
  BY <1>1, <1>2, <1>3, AppendAt DEF Silenced

\* ... and after the daemon has taken one that was not a panic.
LEMMA SilencedByRead ==
  ASSUME TypeInv, queue # <<>>, queue' = Tail(queue), ~IsPanic(Head(queue))
  PROVE  /\ Len(queue') = Len(queue) - 1 /\ Len(queue) \in Nat \ {0}
         /\ \A i \in 1..Len(queue') : queue'[i] = queue[i + 1]
         /\ Head(queue) = queue[1] /\ ~Silenced(1)
         /\ \A i \in 1..Len(queue) : Silenced(i + 1) => Silenced(i)'
<1>1. queue \in Seq(Messages)
  BY DEF TypeInv, TypeOK
<1>2. /\ Len(queue') = Len(queue) - 1 /\ Len(queue) \in Nat \ {0}
      /\ \A i \in 1..Len(queue') : queue'[i] = queue[i + 1]
      /\ Head(queue) = queue[1]
  BY <1>1, TailAt
<1>3. ASSUME NEW i \in 1..Len(queue), NEW k \in 1..i, IsPanic(queue[k])
      PROVE  k - 1 \in 1..(i - 1) /\ IsPanic(queue'[k - 1])
  <2>1. k # 1
    BY <1>2, <1>3
  <2>2. k - 1 \in 1..Len(queue') /\ queue'[k - 1] = queue[(k - 1) + 1]
    BY <1>2, <2>1
  <2> QED
    BY <2>1, <2>2, <1>3
<1>4. ASSUME NEW i \in 1..Len(queue), Silenced(i + 1) PROVE Silenced(i)'
  <2>1. PICK k \in 1..((i + 1) - 1) : IsPanic(queue[k])
    BY <1>4 DEF Silenced
  <2>2. k \in 1..i
    OBVIOUS
  <2> QED
    BY <1>3, <2>1, <2>2 DEF Silenced
<1>5. ~Silenced(1)
  BY DEF Silenced
<1> QED
  BY <1>2, <1>4, <1>5

-----------------------------------------------------------------------------
(* Each part of the invariant is kept *)

\* No step makes the daemon unmount during the setup.
LEMMA UmountAfterSetupStep ==
  ASSUME TypeInv, Stages, UmountAfterSetup, [Next]_vars
  PROVE  UmountAfterSetup'
<1> SUFFICES ASSUME ~cfg.forkMayFail /\ ~cfg.noSocket
             PROVE  /\ \A i \in 1..Len(queue') :
                         IsPanic(queue'[i]) /\ queue'[i] # PanicTimeout => SetupOver'
                    /\ daemon' \in {"write_unknown", "release_umount", "umount"} => SetupOver'
  BY Stable DEF UmountAfterSetup
<1>0. SetupOver => SetupOver'
  BY TruthIsStable
<1>1. CASE SetupPidFileDaemon
  BY <1>1 DEF SetupPidFileDaemon, Stages
<1>2. CASE UNCHANGED DaemonVars /\ QuietStep
  BY <1>0, <1>2 DEF DaemonVars, QuietStep, UmountAfterSetup
<1>3. CASE UNCHANGED DaemonVars /\ SendStep
  <2>1. daemon' \in {"write_unknown", "release_umount", "umount"} => SetupOver'
    BY <1>0, <1>3 DEF DaemonVars, UmountAfterSetup
  <2>2. PICK m \in Messages : Sendable(m) /\ Send(m) /\ ~cfg.noSocket
    BY <1>3 DEF SendStep
  <2>3. CASE daemon = "exited"
    BY <1>0, <2>1, <2>2, <2>3 DEF Send, UmountAfterSetup
  <2>4. CASE daemon # "exited"
    <3>1. ASSUME NEW i \in 1..Len(queue'), IsPanic(queue'[i]), queue'[i] # PanicTimeout
          PROVE  SetupOver'
      <4>1. CASE i \in 1..Len(queue)
        BY <1>0, <2>2, <2>4, <3>1, <4>1, SilencedBySend DEF UmountAfterSetup
      <4>2. CASE i = Len(queue) + 1
        <5>1. IsPanic(m) /\ m # PanicTimeout
          BY <2>2, <2>4, <3>1, <4>2, SilencedBySend
        <5> QED
          BY <2>2, <5>1 DEF Sendable, IsPanic
      <4> QED
        BY <2>2, <2>4, <4>1, <4>2, SilencedBySend, AppendAt DEF TypeInv, TypeOK
    <3> QED
      BY <2>1, <3>1
  <2> QED
    BY <2>3, <2>4
<1>4. CASE DaemonWrite
  <2>1. queue # <<>> /\ queue \in Seq(Messages) /\ queue' = Tail(queue)
    BY <1>4 DEF DaemonWrite, TypeInv, TypeOK
  <2>2. \A i \in 1..Len(queue') : i + 1 \in 1..Len(queue) /\ queue'[i] = queue[i + 1]
    BY <2>1, TailAt
  <2>3. daemon' = "release_umount" => IsPanic(queue[1]) /\ queue[1] # PanicTimeout
    BY <1>4, <2>1, TailAt DEF DaemonWrite
  <2>4. 1 \in 1..Len(queue) /\ daemon' \in {"loop", "release_umount", "release_exit"}
    BY <1>4, <2>1, TailAt DEF DaemonWrite
  <2> QED
    BY <1>0, <2>2, <2>3, <2>4 DEF UmountAfterSetup
<1>5. CASE DaemonEof
  <2>1. SetupOver
    BY <1>5 DEF DaemonEof, NoSender, ContHolds, ContPreExec, SupHolds, SupLive, SetupOver, TypeInv, TypeOK
  <2> QED
    BY <1>0, <2>1
<1>6. CASE DaemonRelease \/ DaemonUmount
  <2>1. daemon' = "umount" => daemon = "release_umount"
    BY <1>6 DEF DaemonRelease, DaemonUmount
  <2>2. daemon' \in {"umount", "exited"} /\ (queue' = queue \/ queue' = <<>>)
    BY <1>6 DEF DaemonRelease, DaemonUmount
  <2> QED
    BY <1>0, <2>1, <2>2 DEF UmountAfterSetup
<1>7. CASE DaemonOpen \/ DaemonLock \/ DaemonRead \/ DaemonWriteUnknown
  <2>1. queue' = queue
    BY <1>7 DEF DaemonOpen, DaemonLock, DaemonRead, DaemonWriteUnknown
  <2>2. daemon' \in {"write_unknown", "release_umount", "umount"} => daemon = "write_unknown"
    BY <1>7 DEF DaemonOpen, DaemonLock, DaemonRead, DaemonWriteUnknown
  <2> QED
    BY <1>0, <2>1, <2>2 DEF UmountAfterSetup
<1> QED
  BY <1>1, <1>2, <1>3, <1>4, <1>5, <1>6, <1>7, StepShapes DEF OtherStep, DaemonStep

\* The lock is taken and released where LockDiscipline says.
LEMMA LockDisciplineStep ==
  ASSUME TypeInv, Stages, QueueIsTrue, LockDiscipline, [Next]_vars
  PROVE  LockDiscipline'
<1>0. cfg' = cfg /\ cfg.pidFile \in BOOLEAN
  BY Stable, ConfigsAssumption DEF TypeInv, TypeOK, ConfigType
<1> USE <1>0 DEF LockDiscipline
<1>1. CASE SetupPidFileDaemon
  BY <1>1 DEF SetupPidFileDaemon, Stages
<1>2. CASE OtherStep
  BY <1>2 DEF OtherStep, DaemonVars
<1>3. CASE DaemonOpen
  BY <1>3 DEF DaemonOpen, Put, Stages
<1>4. CASE DaemonLock
  <2>1. CASE daemon' = "loop"
    <3>1. locked' <=> cfg.pidFile
      BY <1>4, <2>1 DEF DaemonLock
    <3> QED
      BY <1>4, <2>1, <3>1 DEF DaemonLock, Put, InitLine, Absent, Msg
  <2>2. CASE daemon' = "exited" /\ UNCHANGED <<locked, pidFile, okSent>>
    BY <1>4, <2>2 DEF DaemonLock
  <2> QED
    BY <1>4, <2>1, <2>2 DEF DaemonLock
<1>5. CASE DaemonRead
  BY <1>5 DEF DaemonRead, Put
<1>6. CASE DaemonWrite
  <2>1. queue # <<>> /\ Len(queue) \in Nat \ {0} /\ Head(queue) = queue[1]
    BY <1>6, TailAt DEF DaemonWrite, TypeInv, TypeOK
  <2>2. Head(queue).kind # "unknown"
    BY <1>6, <2>1 DEF DaemonWrite, QueueIsTrue, Reading
  <2> QED
    BY <1>6, <2>2 DEF DaemonWrite, Put, IsFinal, Absent, Msg
<1>7. CASE DaemonEof
  BY <1>7 DEF DaemonEof, Put, AfterEof
<1>8. CASE DaemonWriteUnknown
  BY <1>8 DEF DaemonWriteUnknown, Put, AfterEof, IsFinal, Unknown, Msg
<1>9. CASE DaemonRelease
  BY <1>9 DEF DaemonRelease
<1>10. CASE DaemonUmount
  BY <1>10 DEF DaemonUmount
<1> QED
  BY <1>1, <1>2, <1>3, <1>4, <1>5, <1>6, <1>7, <1>8, <1>9, <1>10, StepShapes DEF DaemonStep

\* What the daemon writes is true.
LEMMA FileIsTrueStep ==
  ASSUME TypeInv, Stages, QueueIsTrue, SupHasTold, FileIsTrue, [Next]_vars
  PROVE  FileIsTrue'
<1>0. /\ cfg' = cfg
      /\ \A l : TrueLine(l) => TrueLine(l)'
      /\ NoReport => NoReport'
  BY Stable, TruthIsStable
<1>a. \A l : l.kind \in {"absent", "empty", "init", "unknown"} => TrueLine(l)'
  BY DEF TrueLine, PanicExe, PanicInternal, PanicTimeout, Msg
<1>b. ASSUME pidFile' = pidFile, daemon' = "write_unknown" => daemon = "write_unknown"
      PROVE  FileIsTrue'
  BY <1>0, <1>b DEF FileIsTrue
<1>c. ASSUME pidFile' \in {pidFile, Empty, InitLine}, daemon' # "write_unknown"
      PROVE  FileIsTrue'
  BY <1>0, <1>a, <1>b, <1>c DEF FileIsTrue, Empty, InitLine, Msg
<1>1. CASE SetupPidFileDaemon
  BY <1>1, <1>b DEF SetupPidFileDaemon
<1>2. CASE OtherStep
  BY <1>2, <1>b DEF OtherStep, DaemonVars
<1>3. CASE DaemonOpen \/ DaemonLock \/ DaemonRead
  BY <1>3, <1>c DEF DaemonOpen, DaemonLock, DaemonRead, Put
<1>4. CASE DaemonWrite
  <2>1. queue # <<>> /\ Len(queue) \in Nat \ {0} /\ Head(queue) = queue[1]
    BY <1>4, TailAt DEF DaemonWrite, TypeInv, TypeOK
  <2>2. Head(queue).kind # "unknown" /\ TrueLine(Head(queue))
    BY <1>4, <2>1 DEF DaemonWrite, QueueIsTrue, Reading, Silenced
  <2> QED
    BY <1>0, <1>4, <2>2, <1>b DEF DaemonWrite, Put, FileIsTrue
<1>5. CASE DaemonEof
  <2>1. CASE cfg.pidFile /\ IsFinal(pidFile)
    BY <1>5, <2>1, <1>b DEF DaemonEof, AfterEof
  <2>2. CASE ~cfg.pidFile
    BY <1>0, <1>5, <2>2 DEF DaemonEof, Put, FileIsTrue
  <2>3. CASE cfg.pidFile /\ ~IsFinal(pidFile)
    <3>1. NoReport
      BY <1>5, <2>3 DEF DaemonEof, NoSender, SupHolds, SupLive, SupHasTold, Reading, NoReport, TypeInv, TypeOK
    <3>2. pidFile' = Empty
      BY <1>5, <2>3 DEF DaemonEof, Put
    <3> QED
      BY <1>0, <1>a, <3>1, <3>2 DEF FileIsTrue, Empty, Msg
  <2> QED
    BY <2>1, <2>2, <2>3
<1>6. CASE DaemonWriteUnknown
  <2>1. CASE cfg.pidFile
    BY <1>0, <1>a, <1>6, <2>1 DEF DaemonWriteUnknown, Put, AfterEof, FileIsTrue, Unknown, Msg
  <2>2. CASE ~cfg.pidFile
    BY <1>0, <1>6, <2>2 DEF DaemonWriteUnknown, Put, AfterEof, FileIsTrue
  <2> QED
    BY <2>1, <2>2
<1>7. CASE DaemonRelease \/ DaemonUmount
  BY <1>7, <1>b DEF DaemonRelease, DaemonUmount
<1> QED
  BY <1>1, <1>2, <1>3, <1>4, <1>5, <1>6, <1>7, StepShapes DEF DaemonStep

\* What is sent is true, or comes after a panic.
LEMMA QueueIsTrueStep ==
  ASSUME TypeInv, Stages, QueueIsTrue, [Next]_vars
  PROVE  QueueIsTrue'
<1>0. cfg' = cfg /\ \A l : TrueLine(l) => TrueLine(l)'
  BY Stable, TruthIsStable
<1>1. CASE SetupPidFileDaemon
  BY <1>1 DEF SetupPidFileDaemon, Stages, QueueIsTrue
<1>2. CASE UNCHANGED DaemonVars /\ QuietStep
  <2>1. \A i : Silenced(i) => Silenced(i)'
    BY <1>2 DEF QuietStep, Silenced
  <2> QED
    BY <1>0, <1>2, <2>1 DEF DaemonVars, QuietStep, QueueIsTrue, Reading
<1>3. CASE UNCHANGED DaemonVars /\ SendStep
  <2> SUFFICES ASSUME Reading PROVE QueueIsTrue'
    BY <1>3 DEF QueueIsTrue, Reading, DaemonVars
  <2>1. PICK m \in Messages : Sendable(m) /\ Send(m) /\ ~cfg.noSocket
    BY <1>3 DEF SendStep
  <2>2. /\ Len(queue') = Len(queue) + 1 /\ Len(queue) \in Nat
        /\ \A i \in 1..Len(queue) : queue'[i] = queue[i]
        /\ queue'[Len(queue) + 1] = m
        /\ \A i \in 1..(Len(queue) + 1) : Silenced(i) => Silenced(i)'
    BY <2>1, SilencedBySend, AppendAt DEF Reading, TypeInv, TypeOK
  <2>3. ASSUME NEW i \in 1..Len(queue)
        PROVE  queue'[i].kind # "unknown" /\ (TrueLine(queue[i])' \/ Silenced(i)')
    BY <1>0, <2>2, <2>3 DEF QueueIsTrue
  <2>n. PICK n \in Nat : n = Len(queue)
    BY <2>2
  <2>4. m.kind # "unknown" /\ (TrueLine(m)' \/ Silenced(n + 1)')
    BY <2>1, <2>2, <2>n DEF Sendable, QueueIsTrue, PanicExe, PanicInternal, PanicTimeout, Msg
  <2>5. job' = "panic" => Silenced(Len(queue) + 1)'
    <3>1. CASE IsPanic(m)
      BY <2>2, <3>1 DEF Silenced
    <3>2. CASE job = "panic"
      <4>1. PICK k \in 1..Len(queue) : IsPanic(queue[k])
        BY <2>1, <2>2, <3>2 DEF QueueIsTrue, Silenced
      <4> QED
        BY <2>2, <4>1 DEF Silenced
    <3> QED
      BY <2>1, <3>1, <3>2 DEF Sendable
  <2>6. ASSUME NEW i \in 1..Len(queue')
        PROVE  queue'[i].kind # "unknown" /\ (TrueLine(queue[i])' \/ Silenced(i)')
    <3>1. i \in 1..Len(queue) \/ i = n + 1
      BY <2>2, <2>n
    <3>2. ASSUME i = n + 1 PROVE queue'[i] = m
      BY <2>2, <2>n, <3>2
    <3> QED
      BY <2>3, <2>4, <3>1, <3>2
  <2> QED
    BY <1>0, <2>5, <2>6 DEF QueueIsTrue
<1>4. CASE DaemonWrite
  <2> SUFFICES ASSUME ~IsPanic(Head(queue)) PROVE QueueIsTrue'
    BY <1>4 DEF DaemonWrite, QueueIsTrue, Reading
  <2>1. /\ Len(queue') = Len(queue) - 1 /\ Len(queue) \in Nat \ {0}
        /\ \A i \in 1..Len(queue') : queue'[i] = queue[i + 1]
        /\ \A i \in 1..Len(queue) : Silenced(i + 1) => Silenced(i)'
    BY <1>4, SilencedByRead DEF DaemonWrite, TypeInv
  <2>2. Reading /\ job' = job
    BY <1>4 DEF Reading, DaemonWrite
  <2>3. ASSUME NEW i \in 1..Len(queue')
        PROVE  queue'[i].kind # "unknown" /\ (TrueLine(queue[i])' \/ Silenced(i)')
    <3>1. i + 1 \in 1..Len(queue) /\ i \in 1..Len(queue) /\ queue'[i] = queue[i + 1]
      BY <2>1
    <3> QED
      BY <1>0, <2>1, <2>2, <3>1 DEF QueueIsTrue
  <2>4. job' = "panic" /\ ~cfg.noSocket => Silenced(Len(queue) + 1)'
    <3>1. PICK n \in Nat \ {0} : n = Len(queue)
      BY <2>1
    <3>2. job' = "panic" /\ ~cfg.noSocket => Silenced(n)'
      BY <1>0, <2>1, <2>2, <3>1 DEF QueueIsTrue
    <3>3. Len(queue') + 1 = n
      BY <2>1, <3>1
    <3> QED
      BY <3>2, <3>3
  <2> QED
    BY <1>0, <2>3, <2>4 DEF QueueIsTrue
<1>5. CASE DaemonOpen \/ DaemonLock \/ DaemonRead
  <2>1. Reading /\ queue' = queue /\ job' = job
    BY <1>5 DEF DaemonOpen, DaemonLock, DaemonRead, Reading
  <2>2. \A i : Silenced(i) => Silenced(i)'
    BY <2>1 DEF Silenced
  <2> QED
    BY <1>0, <2>1, <2>2 DEF QueueIsTrue
<1>6. CASE DaemonEof \/ DaemonWriteUnknown \/ DaemonRelease \/ DaemonUmount
  <2>1. ~Reading'
    BY <1>6 DEF DaemonEof, DaemonWriteUnknown, DaemonRelease, DaemonUmount, AfterEof, Reading
  <2> QED
    BY <2>1 DEF QueueIsTrue
<1> QED
  BY <1>1, <1>2, <1>3, <1>4, <1>5, <1>6, StepShapes DEF OtherStep, DaemonStep

\* sup does not go without having said why.
LEMMA SupHasToldStep ==
  ASSUME TypeInv, Stages, SupHasTold, QueueIsTrue, [Next]_vars
  PROVE  SupHasTold'
<1>0. cfg' = cfg
  BY Stable
<1>1. CASE SetupPidFileDaemon
  BY <1>0, <1>1 DEF SetupPidFileDaemon, ForkResults, SupHasTold, Stages
<1>2. CASE UNCHANGED DaemonVars /\ QuietStep
  BY <1>0, <1>2 DEF DaemonVars, QuietStep, SupHasTold, Reading
<1>3. CASE UNCHANGED DaemonVars /\ SendStep
  <2> SUFFICES ASSUME Reading, sup' \in {"reported", "exited"} PROVE SupHasTold'
    BY <1>3 DEF SupHasTold, Reading, DaemonVars
  <2>1. PICK m \in Messages : Sendable(m) /\ Send(m) /\ ~cfg.noSocket
    BY <1>3 DEF SendStep
  <2>2. Len(queue') = Len(queue) + 1 /\ queue'[Len(queue) + 1] = m /\ queue' # <<>>
    BY <2>1, SilencedBySend, SendIsTyped, AppendAt DEF Reading, TypeInv, TypeOK, Send
  <2>3. IsFinal(m)
    BY <2>1 DEF Sendable, IsFinal, IsPanic, PanicExe, PanicInternal, PanicTimeout, Msg
  <2> QED
    BY <2>2, <2>3 DEF SupHasTold
<1>4. CASE DaemonWrite
  <2> SUFFICES ASSUME ~IsPanic(Head(queue)) PROVE SupHasTold'
    BY <1>4 DEF DaemonWrite, SupHasTold, Reading
  <2>1. /\ Len(queue') = Len(queue) - 1 /\ Len(queue) \in Nat \ {0} /\ queue # <<>>
        /\ \A i \in 1..Len(queue') : queue'[i] = queue[i + 1]
        /\ Head(queue) = queue[1]
    BY <1>4, SilencedByRead DEF DaemonWrite, TypeInv
  <2>2. queue' \in Seq(Messages)
    BY TypeStep DEF TypeInv, TypeOK
  <2>3. CASE queue' = <<>>
    <3>1. Len(queue') = 0
      BY <2>3
    <3>2. Len(queue) = 1
      BY <2>1, <3>1
    <3>3. Head(queue) = queue[Len(queue)]
      BY <2>1, <3>2
    <3> QED
      BY <1>0, <1>4, <2>1, <2>3, <3>3 DEF DaemonWrite, Put, SupHasTold, Reading
  <2>4. CASE queue' # <<>>
    <3>1. Len(queue') \in 1..Len(queue') /\ queue'[Len(queue')] = queue[Len(queue)]
      BY <2>1, <2>2, <2>4
    <3> QED
      BY <1>0, <1>4, <2>1, <2>4, <3>1 DEF DaemonWrite, SupHasTold, Reading
  <2> QED
    BY <2>3, <2>4
<1>5. CASE DaemonOpen \/ DaemonLock
  <2>1. queue' = queue /\ sup' = sup /\ Reading
    BY <1>5 DEF DaemonOpen, DaemonLock, Reading
  <2>2. ~IsFinal(pidFile)
    BY <1>5 DEF DaemonOpen, DaemonLock, Stages, IsFinal, IsPanic, Absent, Empty, Msg
  <2>3. ~cfg.pidFile => pidFile' = pidFile
    BY <1>5 DEF DaemonOpen, DaemonLock, Put
  <2> QED
    BY <1>0, <2>1, <2>2, <2>3 DEF SupHasTold
<1>6. CASE DaemonRead
  BY <1>0, <1>6 DEF DaemonRead, SupHasTold, Reading
<1>7. CASE DaemonEof \/ DaemonWriteUnknown \/ DaemonRelease \/ DaemonUmount
  <2>1. ~Reading'
    BY <1>7 DEF DaemonEof, DaemonWriteUnknown, DaemonRelease, DaemonUmount, AfterEof, Reading
  <2> QED
    BY <2>1 DEF SupHasTold
<1> QED
  BY <1>1, <1>2, <1>3, <1>4, <1>5, <1>6, <1>7, StepShapes DEF OtherStep, DaemonStep

\* The rank of a line says what kind of line it is.
LEMMA RankIs ==
  ASSUME NEW l \in Lines
  PROVE  /\ Rank(l) \in 0..4
         /\ Rank(l) = 2 <=> l.kind = "pid"
         /\ Rank(l) = 3 <=> l.kind \in {"exited", "signaled", "unknown"}
         /\ Rank(l) = 4 <=> IsPanic(l)
         /\ l \in Messages => Rank(l) > 1
BY DEF Rank, Shown!Rank, Shown!EndKinds, Shown!PanicKinds, IsPanic, Lines, Messages, Absent,
  Empty, InitLine, Msg

\* The order of what is sent is the order PidFileStatus promises.
LEMMA OrderedStep ==
  ASSUME TypeInv, Stages, QueueIsTrue, FileIsTrue, LockDiscipline, Ordered, [Next]_vars
  PROVE  Ordered'
<1>0. (~PidPending => ~PidPending') /\ (~ReportPending => ~ReportPending')
  BY TruthIsStable
<1>q. queue \in Seq(Messages) /\ \A i \in 1..Len(queue) : queue[i] \in Messages /\ queue[i] \in Lines
  BY ConstantsAreTyped DEF TypeInv, TypeOK
<1>1. CASE SetupPidFileDaemon
  BY <1>1 DEF SetupPidFileDaemon, Stages, Ordered
<1>2. CASE UNCHANGED DaemonVars /\ QuietStep
  <2>1. \A i : Silenced(i) => Silenced(i)'
    BY <1>2 DEF QuietStep, Silenced
  <2>2. queue' = queue /\ daemon' = daemon /\ pidFile' = pidFile /\ (Reading' => Reading)
    BY <1>2 DEF QuietStep, DaemonVars, Reading
  <2> QED
    BY <1>0, <2>1, <2>2 DEF Ordered, Rank
<1>3. CASE UNCHANGED DaemonVars /\ SendStep
  <2> SUFFICES ASSUME Reading PROVE Ordered'
    BY <1>3 DEF Ordered, Reading, DaemonVars
  <2>1. PICK m \in Messages : Sendable(m) /\ Send(m) /\ ~cfg.noSocket
    BY <1>3 DEF SendStep
  <2>n. PICK n \in Nat : n = Len(queue)
    BY <1>q
  <2>2. /\ Len(queue') = n + 1
        /\ \A i \in 1..n : queue'[i] = queue[i] /\ queue[i] \in Messages /\ queue[i] \in Lines
        /\ queue'[n + 1] = m /\ m \in Lines
        /\ \A i \in 1..(n + 1) : Silenced(i) => Silenced(i)'
    BY <1>q, <2>1, <2>n, SilencedBySend, ConstantsAreTyped DEF Reading
  <2>3. \A i \in 1..n : IsPanic(queue[i]) \/ Silenced(i) => Silenced(n + 1)'
    <3>1. ASSUME NEW i \in 1..n, IsPanic(queue[i]) PROVE Silenced(n + 1)'
      BY <2>2, <3>1 DEF Silenced
    <3>2. ASSUME NEW i \in 1..n, Silenced(i) PROVE Silenced(n + 1)'
      <4>1. PICK k \in 1..(i - 1) : IsPanic(queue[k])
        BY <3>2 DEF Silenced
      <4>2. k \in 1..n
        OBVIOUS
      <4> QED
        BY <3>1, <4>1, <4>2
    <3> QED
      BY <3>1, <3>2
  <2>m. \/ IsPanic(m)
        \/ m.kind = "pid" /\ PidPending /\ ~PidPending' /\ (ReportPending \/ cont # "dead")
        \/ m.kind \in {"exited", "signaled"} /\ ReportPending /\ ~ReportPending'
    BY <2>1 DEF Sendable, IsPanic, PanicExe, PanicInternal, PanicTimeout, Msg
  <2>4. ASSUME NEW i \in 1..n
        PROVE  Rank(queue[i]) < Rank(m) \/ Silenced(n + 1)'
    <3> SUFFICES ASSUME ~IsPanic(queue[i]), ~Silenced(i) PROVE Rank(queue[i]) < Rank(m)
      BY <2>3
    <3>1. /\ queue[i].kind \in {"pid", "exited", "signaled"}
          /\ queue[i].kind \in {"exited", "signaled"} => cont = "dead"
      BY <2>n, <2>2 DEF QueueIsTrue, TrueLine, Messages, IsPanic
    <3>2. /\ queue[i].kind = "pid" => ~PidPending
          /\ queue[i].kind \in {"exited", "signaled"} => ~ReportPending
      BY <2>n DEF Ordered
    <3>3. CASE IsPanic(m)
      BY <2>2, <3>3, RankIs
    <3>4. CASE m.kind = "pid" /\ PidPending /\ (ReportPending \/ cont # "dead")
      BY <3>1, <3>2, <3>4
    <3>5. CASE m.kind \in {"exited", "signaled"} /\ ReportPending
      <4>1. Rank(m) = 3 /\ Rank(queue[i]) = 2
        BY <2>2, <3>1, <3>2, <3>5, RankIs
      <4> QED
        BY <4>1
    <3> QED
      BY <2>m, <3>3, <3>4, <3>5
  <2>5. daemon = "loop" => Rank(pidFile) < Rank(m)
    <3> SUFFICES ASSUME daemon = "loop" PROVE Rank(pidFile) < Rank(m)
      OBVIOUS
    <3>1. /\ Rank(pidFile) \in 0..3 /\ pidFile \in Lines
          /\ Rank(pidFile) = 2 => ~PidPending
          /\ Rank(pidFile) = 3 => ~ReportPending /\ cont = "dead"
      BY RankIs DEF Ordered, FileIsTrue, LockDiscipline, TrueLine, TypeInv, TypeOK
    <3>2. CASE IsPanic(m)
      BY <2>2, <3>1, <3>2, RankIs
    <3>3. CASE m.kind = "pid" /\ PidPending /\ (ReportPending \/ cont # "dead")
      <4>1. Rank(m) = 2
        BY <2>2, <3>3, RankIs
      <4> QED
        BY <3>1, <3>3, <4>1
    <3>4. CASE m.kind \in {"exited", "signaled"} /\ ReportPending
      <4>1. Rank(m) = 3
        BY <2>2, <3>4, RankIs
      <4> QED
        BY <3>1, <3>4, <4>1
    <3> QED
      BY <2>m, <3>2, <3>3, <3>4
  <2>6. ASSUME NEW i \in 1..(n + 1)
        PROVE  /\ \A j \in 1..(n + 1) :
                    i < j => Rank(queue'[i]) < Rank(queue'[j]) \/ Silenced(j)'
               /\ queue'[i].kind = "pid" => ~PidPending'
               /\ queue'[i].kind \in {"exited", "signaled"} => ~ReportPending'
               /\ daemon = "loop" => Rank(pidFile) < Rank(queue'[i]) \/ Silenced(i)'
    <3>1. CASE i \in 1..n
      <4>1. \A j \in 1..n : i < j => Rank(queue[i]) < Rank(queue[j]) \/ Silenced(j)
        BY <2>n DEF Ordered
      <4>2. \A j \in 1..(n + 1) : j \in 1..n \/ j = n + 1
        OBVIOUS
      <4>3. ASSUME NEW j \in 1..(n + 1), i < j
            PROVE  Rank(queue'[i]) < Rank(queue'[j]) \/ Silenced(j)'
        BY <2>2, <2>4, <3>1, <4>1, <4>2, <4>3
      <4>4. /\ queue[i].kind = "pid" => ~PidPending
            /\ queue[i].kind \in {"exited", "signaled"} => ~ReportPending
            /\ daemon = "loop" => Rank(pidFile) < Rank(queue[i]) \/ Silenced(i)
        BY <2>n, <3>1 DEF Ordered
      <4> QED
        BY <1>0, <2>2, <3>1, <4>3, <4>4
    <3>2. CASE i = n + 1
      <4>1. IsPanic(m) => m.kind \notin {"pid", "exited", "signaled"}
        BY DEF IsPanic
      <4> QED
        BY <2>2, <2>m, <2>5, <3>2, <4>1
    <3> QED
      BY <3>1, <3>2
  <2>7. UNCHANGED <<daemon, pidFile>>
    BY <1>3 DEF DaemonVars
  <2> QED
    BY <1>0, <2>2, <2>6, <2>7 DEF Ordered, Rank
<1>4. CASE DaemonWrite
  <2> SUFFICES ASSUME ~IsPanic(Head(queue)) PROVE Ordered'
    BY <1>4 DEF DaemonWrite, Ordered, Reading
  <2>1. /\ Len(queue') = Len(queue) - 1 /\ Len(queue) \in Nat \ {0}
        /\ \A i \in 1..Len(queue') : queue'[i] = queue[i + 1]
        /\ Head(queue) = queue[1]
        /\ \A i \in 1..Len(queue) : Silenced(i + 1) => Silenced(i)'
    BY <1>4, SilencedByRead DEF DaemonWrite, TypeInv
  <2>2. Reading /\ pidFile' \in {Absent, queue[1]}
    BY <1>4, <2>1 DEF Reading, DaemonWrite, Put, LockDiscipline
  <2>3. \A i \in 1..Len(queue') : i \in 1..Len(queue) /\ i + 1 \in 1..Len(queue) /\ 1 < i + 1
    BY <2>1
  <2>4. ASSUME NEW i \in 1..Len(queue')
        PROVE  /\ \A j \in 1..Len(queue') :
                    i < j => Rank(queue'[i]) < Rank(queue'[j]) \/ Silenced(j)'
               /\ queue'[i].kind = "pid" => ~PidPending'
               /\ queue'[i].kind \in {"exited", "signaled"} => ~ReportPending'
               /\ Rank(queue[1]) < Rank(queue'[i]) \/ Silenced(i)'
    <3>1. ASSUME NEW j \in 1..Len(queue'), i < j
          PROVE  Rank(queue'[i]) < Rank(queue'[j]) \/ Silenced(j)'
      <4>1. i + 1 \in 1..Len(queue) /\ j + 1 \in 1..Len(queue) /\ i + 1 < j + 1 /\ j \in 1..Len(queue)
        BY <2>3, <3>1
      <4>2. Rank(queue[i + 1]) < Rank(queue[j + 1]) \/ Silenced(j + 1)
        BY <2>2, <4>1 DEF Ordered
      <4> QED
        BY <2>1, <4>1, <4>2
    <3>2. /\ queue'[i].kind = "pid" => ~PidPending'
          /\ queue'[i].kind \in {"exited", "signaled"} => ~ReportPending'
      BY <1>0, <2>1, <2>2, <2>3 DEF Ordered
    <3>3. Rank(queue[1]) < Rank(queue[i + 1]) \/ Silenced(i + 1)
      BY <2>1, <2>2, <2>3 DEF Ordered
    <3> QED
      BY <2>1, <2>3, <3>1, <3>2, <3>3
  <2>5. 1 \in 1..Len(queue) /\ queue[1] \in Messages /\ queue[1] \in Lines /\ queue[1].kind # "unknown"
    BY <1>q, <2>1, <2>2 DEF QueueIsTrue
  <2>6. /\ Rank(queue[1]) \in 2..3
        /\ Rank(queue[1]) = 2 => ~PidPending
        /\ Rank(queue[1]) = 3 => ~ReportPending
    <3>1. /\ queue[1].kind = "pid" => ~PidPending
          /\ queue[1].kind \in {"exited", "signaled"} => ~ReportPending
      BY <2>2, <2>5 DEF Ordered
    <3>2. Rank(queue[1]) \in 0..4 /\ Rank(queue[1]) > 1 /\ Rank(queue[1]) # 4
      BY <2>1, <2>5, RankIs
    <3> QED
      BY <2>5, <3>1, <3>2, RankIs
  <2>7. Rank(Absent) = 0
    BY DEF Rank, Shown!Rank, Shown!EndKinds, Shown!PanicKinds, Absent, Msg
  <2>8. \A i \in 1..Len(queue') : Rank(queue'[i]) \in 0..4 /\ Rank(queue'[i]) > 1
    BY <1>q, <2>1, <2>3, RankIs
  <2>9. Rank(pidFile') \in {0, Rank(queue[1])}
    BY <2>2, <2>7
  <2>10. \A i \in 1..Len(queue') : Rank(pidFile') < Rank(queue'[i]) \/ Silenced(i)'
    BY <2>4, <2>8, <2>9
  <2>11. /\ Rank(pidFile') < 4
         /\ Rank(pidFile') = 2 => ~PidPending'
         /\ Rank(pidFile') = 3 => ~ReportPending'
    BY <1>0, <2>6, <2>9
  <2> QED
    BY <2>4, <2>10, <2>11 DEF Ordered, Rank
<1>5. CASE DaemonLock
  <2>1. Reading /\ queue' = queue
    BY <1>5 DEF DaemonLock, Reading
  <2>2. daemon' = "loop" => pidFile' \in {Absent, InitLine}
    BY <1>5 DEF DaemonLock, LockDiscipline, Put
  <2>3. \A l \in {Absent, InitLine} : Rank(l) \in {0, 1}
    BY DEF Rank, Shown!Rank, Shown!EndKinds, Shown!PanicKinds, Absent, InitLine, Msg
  <2>4. \A i : Silenced(i) => Silenced(i)'
    BY <2>1 DEF Silenced
  <2>5. daemon' = "loop" => Rank(pidFile') \in {0, 1}
    BY <2>2, <2>3
  <2>6. \A i \in 1..Len(queue) : Rank(queue[i]) \in 0..4 /\ Rank(queue[i]) > 1
    BY <1>q, RankIs
  <2>7. daemon' = "loop" => \A i \in 1..Len(queue) : Rank(pidFile') < Rank(queue[i])
    BY <2>5, <2>6
  <2> QED
    BY <1>0, <2>1, <2>4, <2>5, <2>7 DEF Ordered, Rank
<1>6. CASE DaemonOpen \/ DaemonRead
  <2>1. Reading /\ queue' = queue /\ daemon' # "loop"
    BY <1>6 DEF DaemonOpen, DaemonRead, Reading
  <2>2. \A i : Silenced(i) => Silenced(i)'
    BY <2>1 DEF Silenced
  <2> QED
    BY <1>0, <2>1, <2>2 DEF Ordered, Rank
<1>7. CASE DaemonEof \/ DaemonWriteUnknown \/ DaemonRelease \/ DaemonUmount
  <2>1. ~Reading' /\ daemon' # "loop"
    BY <1>7 DEF DaemonEof, DaemonWriteUnknown, DaemonRelease, DaemonUmount, AfterEof, Reading
  <2> QED
    BY <2>1 DEF Ordered
<1> QED
  BY <1>1, <1>2, <1>3, <1>4, <1>5, <1>6, <1>7, StepShapes DEF OtherStep, DaemonStep

-----------------------------------------------------------------------------
(* The theorems *)

IInv == TypeInv /\ Stages /\ UmountAfterSetup /\ QueueIsTrue /\ SupHasTold /\ FileIsTrue
        /\ Ordered /\ LockDiscipline

\* The invariant holds at the start ...
LEMMA IInvInit == Init => IInv
<1> SUFFICES ASSUME Init PROVE IInv
  OBVIOUS
<1>1. TypeInv
  BY TypeInit
<1>2. queue = <<>> /\ Len(queue) = 0 /\ job = "none" /\ daemon = "none"
  BY DEF Init
<1>3. Stages
  BY DEF Init, Stages
<1>4. UmountAfterSetup /\ QueueIsTrue /\ SupHasTold /\ Ordered
  BY <1>2 DEF UmountAfterSetup, QueueIsTrue, SupHasTold, Ordered, Reading
<1>5. FileIsTrue
  BY DEF Init, FileIsTrue, TrueLine, Absent, PanicExe, PanicInternal, PanicTimeout, Msg
<1>6. LockDiscipline
  BY DEF Init, LockDiscipline
<1> QED
  BY <1>1, <1>3, <1>4, <1>5, <1>6 DEF IInv

\* ... and after every step.
LEMMA IInvStep == IInv /\ [Next]_vars => IInv'
BY TypeStep, StagesStep, UmountAfterSetupStep, QueueIsTrueStep, SupHasToldStep, FileIsTrueStep,
  OrderedStep, LockDisciplineStep DEF IInv

\* Hence the inductive invariant holds throughout.
LEMMA Invariant == Spec => []IInv
BY IInvInit, IInvStep, PTL DEF Spec

\* The state of every process and of the pid file is what it is declared to be.
THEOREM TypeCorrect == Spec => []TypeOK
<1>1. IInv => TypeOK
  BY DEF IInv, TypeInv
<1> QED
  BY <1>1, Invariant, PTL

\* Whatever line the daemon leaves in the pid file is true of the container, of
\* the command and of ruri.
THEOREM ReportsAreTrue == Spec => []TruthfulReport
<1>1. IInv => TruthfulReport
  <2> SUFFICES ASSUME IInv PROVE TruthfulReport
    OBVIOUS
  <2>1. TrueLine(pidFile) /\ (pidFile.kind = "unknown" => NoReport)
    BY DEF IInv, FileIsTrue
  <2>2. status \in StatusType /\ (cont = "dead" => status.how # "none")
    BY DEF IInv, TypeInv, TypeOK, Stages
  <2>3. CASE pidFile.kind = "exited"
    <3>1. pidFile = Report(status) /\ status.how # "none"
      BY <2>1, <2>2, <2>3 DEF TrueLine
    <3>2. status.how = "exited" /\ pidFile.val = status.val
      BY <2>2, <2>3, <3>1 DEF Report, Msg
    <3>3. status = [how |-> status.how, val |-> status.val]
      BY <2>2 DEF StatusType
    <3> QED
      BY <2>3, <3>2, <3>3 DEF TruthfulReport, Exited, PanicExe, PanicInternal, PanicTimeout,
        Unknown, Msg
  <2>4. CASE pidFile.kind = "signaled"
    <3>1. pidFile = Report(status) /\ status.how = "signaled"
      BY <2>1, <2>2, <2>4 DEF TrueLine, Report, Msg, StatusType
    <3> QED
      BY <2>4, <3>1 DEF TruthfulReport, PanicExe, PanicInternal, PanicTimeout, Unknown, Msg
  <2>5. CASE pidFile.kind \notin {"exited", "signaled"}
    BY <2>1, <2>5 DEF TruthfulReport, TrueLine, NoReport, PanicExe, PanicInternal, PanicTimeout,
      Unknown, Msg
  <2> QED
    BY <2>3, <2>4, <2>5
<1> QED
  BY <1>1, Invariant, PTL

\* The daemon's automatic umount leaves a container that is being set up alone.
THEOREM SetupIsUndisturbed == Spec => []NoUmountUnderSetup
<1>1. IInv => NoUmountUnderSetup
  BY DEF IInv, UmountAfterSetup, SetupOver, NoUmountUnderSetup
<1> QED
  BY <1>1, Invariant, PTL

\* The processes together keep the promise PidFileStatus makes to a reader of
\* the pid file.
THEOREM ImplementsPidFileStatus == Spec => KeepsPidFilePromise
<1>1. Init => Shown!Init
  BY DEF Init, Shown!Init, Shown!NoLine, ShownLine, Absent, Msg
<1>2. IInv /\ IInv' /\ [Next]_vars => [Shown!Next]_(Shown!vars)
  <2> SUFFICES ASSUME IInv, IInv', [Next]_vars PROVE [Shown!Next]_(Shown!vars)
    OBVIOUS
  <2> USE DEF IInv
  <2>0. /\ cfg' = cfg /\ cfg.pidFile \in BOOLEAN /\ TypeInv /\ LockDiscipline /\ Ordered
        /\ QueueIsTrue /\ Stages
    BY Stable, ConfigsAssumption DEF TypeInv, TypeOK, ConfigType
  <2>s. ASSUME ShownLine' = ShownLine, locked' = locked PROVE UNCHANGED Shown!vars
    BY <2>s DEF Shown!vars
  <2>n. ASSUME ~cfg.pidFile PROVE UNCHANGED Shown!vars
    <3>1. locked' = locked /\ ShownLine = Absent /\ ShownLine' = Absent
      BY <2>0, <2>n DEF LockDiscipline, ShownLine, TypeInv, TypeOK
    <3> QED
      BY <2>s, <3>1
  <2> SUFFICES ASSUME cfg.pidFile PROVE [Shown!Next]_(Shown!vars)
    BY <2>n
  <2>1. CASE SetupPidFileDaemon \/ DaemonOpen
    <3>1. ShownLine' = ShownLine /\ locked' = locked
      BY <2>0, <2>1 DEF SetupPidFileDaemon, DaemonOpen, ShownLine, LockDiscipline, Stages
    <3> QED
      BY <2>s, <3>1
  <2>2. CASE OtherStep
    <3>1. daemon' = daemon /\ pidFile' = pidFile /\ okSent' = okSent /\ locked' = locked
      BY <2>2 DEF OtherStep, DaemonVars
    <3>2. daemon = "write" => Head(queue') = Head(queue)
      <4>1. CASE QuietStep
        BY <4>1 DEF QuietStep
      <4>2. CASE SendStep
        <5> SUFFICES ASSUME daemon = "write" PROVE Head(queue') = Head(queue)
          OBVIOUS
        <5>1. PICK m \in Messages : Send(m) /\ ~cfg.noSocket
          BY <4>2 DEF SendStep
        <5>2. queue # <<>> /\ queue \in Seq(Messages) /\ queue' = Append(queue, m)
          BY <2>0, <5>1 DEF TypeInv, TypeOK, Send
        <5> QED
          BY <5>2
      <4> QED
        BY <2>2, <4>1, <4>2 DEF OtherStep
    <3>3. ShownLine' = ShownLine
      BY <2>0, <3>1, <3>2 DEF ShownLine
    <3> QED
      BY <2>s, <3>1, <3>3
  <2>3. CASE DaemonLock
    <3>1. CASE daemon' = "exited"
      BY <2>0, <2>s, <2>3, <3>1 DEF DaemonLock, ShownLine, LockDiscipline
    <3>2. CASE daemon' = "loop"
      <4>1. ShownLine = Absent /\ ShownLine' = InitLine
        BY <2>0, <2>3, <3>2 DEF DaemonLock, ShownLine, LockDiscipline, Put
      <4>2. locked' = TRUE
        BY <2>0, <2>3, <3>2 DEF DaemonLock
      <4> QED
        BY <4>1, <4>2, ConstantsAreTyped DEF Shown!Next, Shown!Claim, Shown!NoLine, Absent,
          InitLine, Msg
    <3> QED
      BY <2>3, <3>1, <3>2 DEF DaemonLock
  <2>4. CASE DaemonRead
    <3>1. queue \in Seq(Messages) /\ queue # <<>>
      BY <2>0, <2>4 DEF DaemonRead, TypeInv, TypeOK
    <3>2. Head(queue) = queue[1] /\ 1 \in 1..Len(queue) /\ queue[1] \in Lines
      BY <3>1, TailAt, ConstantsAreTyped
    <3>3. ShownLine = pidFile /\ ShownLine' = queue[1]
      BY <2>0, <2>4, <3>2 DEF DaemonRead, ShownLine, LockDiscipline
    <3>4. Rank(pidFile) < Rank(queue[1])
      BY <2>0, <2>4, <3>2 DEF DaemonRead, Ordered, Silenced
    <3>5. locked /\ locked' = locked
      BY <2>0, <2>4 DEF DaemonRead, LockDiscipline
    <3>6. Shown!Rank(queue[1]) > Shown!Rank(pidFile)
      <4>1. pidFile \in Lines
        BY <2>0 DEF TypeInv, TypeOK
      <4>2. Rank(pidFile) \in Nat /\ Rank(queue[1]) \in Nat
        BY <3>2, <4>1, RankIs
      <4> QED
        BY <3>4, <4>2 DEF Rank
    <3> QED
      BY <3>2, <3>3, <3>5, <3>6 DEF Shown!Next, Shown!Advance
  <2>5. CASE DaemonWrite
    <3>1. ShownLine = Head(queue) /\ locked' = locked
      BY <2>0, <2>5 DEF DaemonWrite, ShownLine, LockDiscipline
    <3>2. ShownLine' = Head(queue)
      BY <2>0, <2>5 DEF DaemonWrite, ShownLine, LockDiscipline, Put
    <3> QED
      BY <2>s, <3>1, <3>2
  <2>6. CASE DaemonEof
    <3>1. ShownLine = pidFile /\ locked /\ locked' = locked /\ pidFile \in Lines
      BY <2>0, <2>6 DEF DaemonEof, ShownLine, LockDiscipline, TypeInv, TypeOK
    <3>2. CASE IsFinal(pidFile)
      BY <2>0, <2>s, <2>6, <3>1, <3>2 DEF DaemonEof, AfterEof, ShownLine, LockDiscipline
    <3>3. CASE ~IsFinal(pidFile)
      <4>1. ShownLine' = Unknown
        BY <2>0, <2>6, <3>3 DEF DaemonEof, ShownLine, LockDiscipline
      <4>2. Rank(pidFile) \in 0..4 /\ Rank(pidFile) # 3 /\ Rank(pidFile) # 4
        BY <3>1, <3>3, RankIs DEF IsFinal
      <4>3. Unknown \in Lines /\ Rank(Unknown) = 3
        BY ConstantsAreTyped, RankIs DEF Unknown, Msg
      <4>4. Shown!Rank(Unknown) > Shown!Rank(pidFile)
        BY <4>2, <4>3 DEF Rank
      <4> QED
        BY <3>1, <4>1, <4>3, <4>4 DEF Shown!Next, Shown!Advance
    <3> QED
      BY <3>2, <3>3
  <2>7. CASE DaemonWriteUnknown
    <3>1. ShownLine = Unknown /\ locked' = locked
      BY <2>0, <2>7 DEF DaemonWriteUnknown, ShownLine, LockDiscipline
    <3>2. ShownLine' = Unknown
      BY <2>0, <2>7 DEF DaemonWriteUnknown, AfterEof, ShownLine, LockDiscipline, Put
    <3> QED
      BY <2>s, <3>1, <3>2
  <2>8. CASE DaemonRelease
    <3>1. ShownLine = pidFile /\ locked /\ IsFinal(pidFile) /\ pidFile \in Lines
      BY <2>0, <2>8 DEF DaemonRelease, ShownLine, LockDiscipline, TypeInv, TypeOK
    <3>2. ShownLine' = ShownLine /\ locked' = FALSE
      BY <2>0, <2>8, <3>1 DEF DaemonRelease, ShownLine, LockDiscipline
    <3>3. Rank(pidFile) \in {3, 4}
      BY <3>1, RankIs DEF IsFinal
    <3> QED
      BY <3>1, <3>2, <3>3 DEF Rank, Shown!Next, Shown!Release
  <2>9. CASE DaemonUmount
    <3>1. ShownLine' = ShownLine /\ locked' = locked
      BY <2>0, <2>9 DEF DaemonUmount, ShownLine
    <3> QED
      BY <2>s, <3>1
  <2> QED
    BY <2>0, <2>1, <2>2, <2>3, <2>4, <2>5, <2>6, <2>7, <2>8, <2>9, StepShapes DEF DaemonStep
<1> QED
  BY <1>1, <1>2, Invariant, PTL DEF Spec, KeepsPidFilePromise, Shown!Spec

-----------------------------------------------------------------------------
(* What becomes of the command *)

TimedOut == watch \in {"fired", "umount", "expired"}

\* Nobody is going to exec the command any more.
ExecOver ==
  /\ cont \notin {"setup", "mounted", "exec"} /\ job # "exec"
  /\ cont = "gate" => SupDead /\ ~released
  /\ cont = "none" => sup \in {"exited", "killed", "daemon"}

\* Who panics after the exec does so because it failed.
ExecStages ==
  /\ cont = "panic" \/ job = "panic" => exec = "failed"
  /\ cfg.mode = "rootless" /\ ~released => exec = "none" /\ job = "none"

\* A panic in the queue is the watchdog's, or says that the command does not run.
PanicMeans ==
  ~cfg.forkMayFail /\ ~cfg.noSocket => \A i \in 1..Len(queue) : IsPanic(queue[i]) =>
    IF queue[i] = PanicTimeout THEN TimedOut ELSE ExecOver /\ exec # "ok"

\* The daemon has read the last it is going to read.
HasRead ==
  okSent /\ daemon \in {"write_unknown", "release_umount", "release_exit", "umount", "exited"}

\* It stops when nobody can change the outcome any more.
ReadToTheEnd ==
  HasRead /\ ~cfg.forkMayFail /\ ~cfg.noSocket =>
    TimedOut \/ (ExecOver /\ (exec = "ok" => sup \in {"exited", "killed", "daemon"}))

\* A failed exec is the first panic it will read; then it is in the file.
FailureIsTold ==
  exec = "failed" /\ ~cfg.forkMayFail /\ ~cfg.noSocket /\ ~TimedOut =>
    /\ Reading => \E i \in 1..Len(queue) : queue[i] = PanicExe /\ ~Silenced(i)
    /\ HasRead => daemon # "write_unknown" /\ (cfg.pidFile => pidFile = PanicExe)

\* The supervisor has had to report the status.
Told == sup \in {"reported", "exited"} /\ (exec = "ok" \/ job = "exec")

\* The report of the supervisor is the last message it will read; then it is in
\* the file.
ReportIsTold ==
  Told /\ ~cfg.forkMayFail /\ ~cfg.noSocket /\ ~TimedOut =>
    /\ Reading => IF queue = <<>> THEN cfg.pidFile => pidFile = Report(status)
                  ELSE queue[Len(queue)] = Report(status)
    /\ HasRead /\ cfg.pidFile => daemon # "write_unknown" /\ pidFile = Report(status)

OutcomeInv == ExecStages /\ PanicMeans /\ ReadToTheEnd /\ FailureIsTold /\ ReportIsTold

\* Who unmounts was asked to.
UmountIsAsked ==
  /\ daemon \in {"release_umount", "umount"} =>
       cfg.autoUmount \/ (cfg.umountOnPanic /\ (cfg.pidFile => IsPanic(pidFile)))
  /\ watch = "umount" => cfg.umountOnPanic

\* A message, with what it says at that step, or nothing to say.
Telling(m) ==
  /\ IsPanic(m) => IF m = PanicTimeout THEN TimedOut' ELSE ExecOver' /\ exec' # "ok"
  /\ exec' = "failed" => exec = "failed" \/ (m = PanicExe /\ ~ExecOver)
  /\ Told' /\ ~TimedOut' => m = Report(status)'
QuietTelling ==
  /\ queue' = queue
  /\ exec' = "failed" => exec = "failed"
  /\ Told' => Told
OutcomeStep ==
  UNCHANGED DaemonVars /\ (QuietTelling \/ \E m \in Messages : Telling(m) /\ Send(m))

\* Every step keeps the stages of the exec.
LEMMA ExecStagesStep == TypeInv /\ Stages /\ ExecStages /\ [Next]_vars => ExecStages'
<1> SUFFICES ASSUME TypeInv, Stages, ExecStages, [Next]_vars PROVE ExecStages'
  OBVIOUS
<1> USE DEF TypeInv, TypeOK, Stages, ExecStages
<1>1. CASE SetupPidFileDaemon
  BY <1>1 DEF SetupPidFileDaemon, ForkResults
<1>2. CASE FirstChildGone
  BY <1>2 DEF FirstChildGone
<1>3. CASE ReadSync
  BY <1>3 DEF ReadSync
<1>4. CASE SetupTimeoutWatchdog
  BY <1>4 DEF SetupTimeoutWatchdog, ForkResults
<1>5. CASE Launch
  BY <1>5 DEF Launch
<1>6. CASE LaunchFails
  BY <1>6 DEF LaunchFails
<1>7. CASE StoreInfo
  BY <1>7 DEF StoreInfo
<1>8. CASE StoreInfoFails
  BY <1>8 DEF StoreInfoFails
<1>9. CASE Announce
  BY <1>9 DEF Announce
<1>10. CASE ReapContainer
  BY <1>10 DEF ReapContainer
<1>11. CASE SupExit
  BY <1>11 DEF SupExit
<1>12. CASE ParentReaps
  BY <1>12 DEF ParentReaps
<1>13. CASE ExternalKill
  BY <1>13 DEF ExternalKill, SupLive
<1>14. CASE DaemonOpen
  BY <1>14 DEF DaemonOpen
<1>15. CASE DaemonLock
  BY <1>15 DEF DaemonLock
<1>16. CASE DaemonRead
  BY <1>16 DEF DaemonRead
<1>17. CASE DaemonWrite
  BY <1>17 DEF DaemonWrite
<1>18. CASE DaemonEof
  BY <1>18 DEF DaemonEof
<1>19. CASE DaemonWriteUnknown
  BY <1>19 DEF DaemonWriteUnknown
<1>20. CASE DaemonRelease
  BY <1>20 DEF DaemonRelease
<1>21. CASE DaemonUmount
  BY <1>21 DEF DaemonUmount, UmountContainer, JobLive, ContLive
<1>22. CASE WatchSeesDeath
  BY <1>22 DEF WatchSeesDeath
<1>23. CASE WatchFires
  BY <1>23 DEF WatchFires
<1>24. CASE WatchKills
  BY <1>24 DEF WatchKills, SupLive
<1>25. CASE WatchUmount
  BY <1>25 DEF WatchUmount, UmountContainer, JobLive, ContLive
<1>26. CASE GateOpens
  BY <1>26 DEF GateOpens
<1>27. CASE GateEof
  BY <1>27 DEF GateEof, ContDies, JobLive
<1>28. CASE ContMount
  BY <1>28 DEF ContMount
<1>29. CASE ContEnter
  BY <1>29 DEF ContEnter
<1>30. CASE ContPanic
  BY <1>30 DEF ContPanic, ContDies, JobLive
<1>31. CASE ForkAsInit
  BY <1>31 DEF ForkAsInit
<1>32. CASE ContExec
  BY <1>32 DEF ContExec
<1>33. CASE ContPanicExec
  BY <1>33 DEF ContPanicExec, ContDies, JobLive
<1>34. CASE ContEnds
  BY <1>34 DEF ContEnds, ContDies, JobLive
<1>35. CASE InitExits
  BY <1>35 DEF InitExits, ContDies, JobLive
<1>36. CASE ParentDeathSignal
  BY <1>36 DEF ParentDeathSignal, ContDies, JobLive
<1>37. CASE JobExec
  BY <1>37 DEF JobExec
<1>38. CASE JobPanic
  BY <1>38 DEF JobPanic
<1>39. CASE JobEnds
  BY <1>39 DEF JobEnds
<1>40. CASE UNCHANGED vars
  BY <1>40 DEF vars
<1>41. CASE ReleaseChild
  BY <1>41 DEF ReleaseChild
<1>42. CASE CheckBinary
  BY <1>42 DEF CheckBinary
<1>43. CASE ForkAsInitFails
  BY <1>43 DEF ForkAsInitFails, ContDies, JobLive
<1> QED
  BY <1>1, <1>2, <1>3, <1>4, <1>5, <1>6, <1>7, <1>8, <1>9, <1>10, <1>11, <1>12, <1>13, <1>14, <1>15,
  <1>16, <1>17, <1>18, <1>19, <1>20, <1>21, <1>22, <1>23, <1>24, <1>25, <1>26, <1>27, <1>28, <1>29,
  <1>30, <1>31, <1>32, <1>33, <1>34, <1>35, <1>36, <1>37, <1>38, <1>39, <1>40, <1>41, <1>42, <1>43 DEF Next, SupStep,
  DaemonStep, WatchStep, ContStep, JobStep, Done

\* What is over stays over.
LEMMA OverIsStable ==
  ASSUME TypeInv, Stages, [Next]_vars
  PROVE  /\ TimedOut => TimedOut'
         /\ ExecOver => ExecOver' /\ exec' = exec
         /\ sup \in {"exited", "killed", "daemon"} => sup' \in {"exited", "killed", "daemon"}
         /\ sup \in {"reported", "exited"} /\ (exec = "ok" \/ job = "exec")
              => Report(status)' = Report(status)
<1>0. /\ TimedOut => TimedOut'
      /\ sup \in {"exited", "killed", "daemon"} => sup' \in {"exited", "killed", "daemon"}
  BY Stable DEF TimedOut
<1>s. sup \in {"reported", "exited"} /\ (exec = "ok" \/ job = "exec")
        => Report(status)' = Report(status)
  BY Stable DEF Stages, Report, TypeInv, TypeOK
<1>e. ExecOver => ExecOver' /\ exec' = exec
  <2> SUFFICES ASSUME ExecOver PROVE ExecOver' /\ exec' = exec
    OBVIOUS
  <2> USE DEF TypeInv, TypeOK, Stages, ExecOver
  <2>1. CASE SetupPidFileDaemon
    BY <2>1 DEF SetupPidFileDaemon, ForkResults, SupDead
  <2>2. CASE FirstChildGone
    BY <2>2 DEF FirstChildGone, SupDead
  <2>3. CASE ReadSync
    BY <2>3 DEF ReadSync, SupDead
  <2>4. CASE SetupTimeoutWatchdog
    BY <2>4 DEF SetupTimeoutWatchdog, ForkResults, SupDead
  <2>5. CASE Launch
    BY <2>5 DEF Launch, SupDead
  <2>6. CASE LaunchFails
    BY <2>6 DEF LaunchFails, SupDead
  <2>7. CASE StoreInfo
    BY <2>7 DEF StoreInfo, SupDead
  <2>8. CASE StoreInfoFails
    BY <2>8 DEF StoreInfoFails, SupDead
  <2>9. CASE Announce
    BY <2>9 DEF Announce, SupDead
  <2>10. CASE ReapContainer
    BY <2>10 DEF ReapContainer, SupDead
  <2>11. CASE SupExit
    BY <2>11 DEF SupExit, SupDead
  <2>12. CASE ParentReaps
    BY <2>12 DEF ParentReaps, SupDead
  <2>13. CASE ExternalKill
    BY <2>13 DEF ExternalKill, SupLive, SupDead
  <2>14. CASE DaemonOpen
    BY <2>14 DEF DaemonOpen, SupDead
  <2>15. CASE DaemonLock
    BY <2>15 DEF DaemonLock, SupDead
  <2>16. CASE DaemonRead
    BY <2>16 DEF DaemonRead, SupDead
  <2>17. CASE DaemonWrite
    BY <2>17 DEF DaemonWrite, SupDead
  <2>18. CASE DaemonEof
    BY <2>18 DEF DaemonEof, SupDead
  <2>19. CASE DaemonWriteUnknown
    BY <2>19 DEF DaemonWriteUnknown, SupDead
  <2>20. CASE DaemonRelease
    BY <2>20 DEF DaemonRelease, SupDead
  <2>21. CASE DaemonUmount
    BY <2>21 DEF DaemonUmount, UmountContainer, JobLive, ContLive, SupDead
  <2>22. CASE WatchSeesDeath
    BY <2>22 DEF WatchSeesDeath, SupDead
  <2>23. CASE WatchFires
    BY <2>23 DEF WatchFires, SupDead
  <2>24. CASE WatchKills
    BY <2>24 DEF WatchKills, SupLive, SupDead
  <2>25. CASE WatchUmount
    BY <2>25 DEF WatchUmount, UmountContainer, JobLive, ContLive, SupDead
  <2>26. CASE GateOpens
    BY <2>26 DEF GateOpens, SupDead
  <2>27. CASE GateEof
    BY <2>27 DEF GateEof, ContDies, JobLive, SupDead
  <2>28. CASE ContMount
    BY <2>28 DEF ContMount, SupDead
  <2>29. CASE ContEnter
    BY <2>29 DEF ContEnter, SupDead
  <2>30. CASE ContPanic
    BY <2>30 DEF ContPanic, ContDies, JobLive, SupDead
  <2>31. CASE ForkAsInit
    BY <2>31 DEF ForkAsInit, SupDead
  <2>32. CASE ContExec
    BY <2>32 DEF ContExec, SupDead
  <2>33. CASE ContPanicExec
    BY <2>33 DEF ContPanicExec, ContDies, JobLive, SupDead
  <2>34. CASE ContEnds
    BY <2>34 DEF ContEnds, ContDies, JobLive, SupDead
  <2>35. CASE InitExits
    BY <2>35 DEF InitExits, ContDies, JobLive, SupDead
  <2>36. CASE ParentDeathSignal
    BY <2>36 DEF ParentDeathSignal, ContDies, JobLive, SupDead
  <2>37. CASE JobExec
    BY <2>37 DEF JobExec, SupDead
  <2>38. CASE JobPanic
    BY <2>38 DEF JobPanic, SupDead
  <2>39. CASE JobEnds
    BY <2>39 DEF JobEnds, SupDead
  <2>40. CASE UNCHANGED vars
    BY <2>40 DEF vars, SupDead
  <2>41. CASE ReleaseChild
    BY <2>41 DEF ReleaseChild, SupDead
  <2>42. CASE CheckBinary
    BY <2>42 DEF CheckBinary, SupDead
  <2>43. CASE ForkAsInitFails
    BY <2>43 DEF ForkAsInitFails, ContDies, JobLive, SupDead
  <2> QED
  BY <2>1, <2>2, <2>3, <2>4, <2>5, <2>6, <2>7, <2>8, <2>9, <2>10, <2>11, <2>12, <2>13, <2>14, <2>15,
  <2>16, <2>17, <2>18, <2>19, <2>20, <2>21, <2>22, <2>23, <2>24, <2>25, <2>26, <2>27, <2>28, <2>29,
  <2>30, <2>31, <2>32, <2>33, <2>34, <2>35, <2>36, <2>37, <2>38, <2>39, <2>40, <2>41, <2>42, <2>43 DEF Next, SupStep,
  DaemonStep, WatchStep, ContStep, JobStep, Done
<1> QED
  BY <1>0, <1>s, <1>e

\* Every step of the others says what happened to the command, or changes nothing
\* the daemon would have to be told.
LEMMA OutcomeSteps ==
  ASSUME TypeInv, Stages, ExecStages, ~cfg.forkMayFail /\ ~cfg.noSocket, [Next]_vars
  PROVE  SetupPidFileDaemon \/ DaemonStep \/ OutcomeStep
<1> SUFFICES ASSUME ~SetupPidFileDaemon, ~DaemonStep PROVE OutcomeStep
  OBVIOUS
<1>q. ASSUME UNCHANGED DaemonVars, QuietTelling PROVE OutcomeStep
  BY <1>q DEF OutcomeStep
<1>s. ASSUME UNCHANGED DaemonVars, NEW m \in Messages, Telling(m), Send(m) PROVE OutcomeStep
  BY <1>s DEF OutcomeStep
<1>c. cfg' = cfg
  BY Stable
<1> USE DEF DaemonVars
<1>1. CASE FirstChildGone
  BY <1>1, <1>q DEF FirstChildGone, QuietTelling, Told, Stages, ExecStages, TypeInv, TypeOK
<1>2. CASE ReadSync
  <2>1. CASE sup' # "exited"
    BY <1>2, <2>1, <1>q DEF ReadSync, QuietTelling, Told, Stages, ExecStages, TypeInv, TypeOK
  <2>2. CASE ~(sup' # "exited")
    <3>1. PanicInternal \in Messages /\ Telling(PanicInternal)
      BY <1>2, <2>2, <1>c, ConstantsAreTyped DEF ReadSync,
        Telling, Told, IsPanic, PanicExe, PanicInternal, PanicTimeout, Msg, ExecOver, TimedOut,
        SupDead, Stages, ExecStages, TypeInv, TypeOK
    <3> QED
      BY <1>2, <2>2, <3>1, <1>s DEF ReadSync
  <2> QED
    BY <2>1, <2>2
<1>3. CASE SetupTimeoutWatchdog
  BY <1>3, <1>q DEF SetupTimeoutWatchdog, ForkResults, QuietTelling, Told, Stages, TypeInv, TypeOK
<1>4. CASE Launch
  BY <1>4, <1>q DEF Launch, QuietTelling, Told, Stages, ExecStages, TypeInv, TypeOK
<1>5. CASE LaunchFails
  <2>1. PanicInternal \in Messages /\ Telling(PanicInternal)
    BY <1>5, <1>c, ConstantsAreTyped DEF LaunchFails,
      Telling, Told, IsPanic, PanicExe, PanicInternal, PanicTimeout, Msg, ExecOver, TimedOut,
      SupDead, Stages, ExecStages, TypeInv, TypeOK
  <2> QED
    BY <1>5, <2>1, <1>s DEF LaunchFails
<1>6. CASE StoreInfo
  BY <1>6, <1>q DEF StoreInfo, QuietTelling, Told, Stages, ExecStages, TypeInv, TypeOK
<1>7. CASE StoreInfoFails
  <2>1. PanicInternal \in Messages /\ Telling(PanicInternal)
    BY <1>7, <1>c, ConstantsAreTyped DEF StoreInfoFails,
      Telling, Told, IsPanic, PanicExe, PanicInternal, PanicTimeout, Msg, ExecOver, TimedOut,
      SupDead, Stages, ExecStages, TypeInv, TypeOK
  <2> QED
    BY <1>7, <2>1, <1>s DEF StoreInfoFails
<1>8. CASE Announce
  <2>1. Msg("pid", ContPid) \in Messages /\ Telling(Msg("pid", ContPid))
    BY <1>8, <1>c, ConstantsAreTyped DEF Announce,
      Telling, Told, IsPanic, PanicExe, PanicInternal, PanicTimeout, Msg, ExecOver, TimedOut,
      SupDead, Stages, ExecStages, TypeInv, TypeOK
  <2> QED
    BY <1>8, <2>1, <1>s DEF Announce
<1>9. CASE ReapContainer
  <2>1. Report(status) \in Messages /\ Telling(Report(status))
    BY <1>9, <1>c, ConstantsAreTyped, StatusesAreTyped DEF ReapContainer, Report,
      Telling, Told, IsPanic, PanicExe, PanicInternal, PanicTimeout, Msg, ExecOver, TimedOut,
      SupDead, Stages, ExecStages, TypeInv, TypeOK
  <2> QED
    BY <1>9, <2>1, <1>s DEF ReapContainer
<1>10. CASE SupExit
  BY <1>10, <1>q DEF SupExit, QuietTelling, Told, Stages, ExecStages, TypeInv, TypeOK
<1>11. CASE ParentReaps
  BY <1>11, <1>q DEF ParentReaps, QuietTelling, Told, Stages, ExecStages, TypeInv, TypeOK
<1>12. CASE ExternalKill
  BY <1>12, <1>q DEF ExternalKill, SupLive, QuietTelling, Told, Stages, ExecStages, TypeInv, TypeOK
<1>13. CASE WatchSeesDeath
  BY <1>13, <1>q DEF WatchSeesDeath, QuietTelling, Told, Stages, ExecStages, TypeInv, TypeOK
<1>14. CASE WatchFires
  <2>1. PanicTimeout \in Messages /\ Telling(PanicTimeout)
    BY <1>14, <1>c, ConstantsAreTyped DEF WatchFires,
      Telling, Told, IsPanic, PanicExe, PanicInternal, PanicTimeout, Msg, ExecOver, TimedOut,
      SupDead, Stages, ExecStages, TypeInv, TypeOK
  <2> QED
    BY <1>14, <2>1, <1>s DEF WatchFires
<1>15. CASE WatchKills
  BY <1>15, <1>q DEF WatchKills, SupLive, QuietTelling, Told, Stages, ExecStages, TypeInv, TypeOK
<1>16. CASE WatchUmount
  BY <1>16, <1>q DEF WatchUmount, UmountContainer, JobLive, ContLive, QuietTelling, Told, Stages,
    ExecStages, TypeInv, TypeOK
<1>17. CASE GateOpens
  BY <1>17, <1>q DEF GateOpens, QuietTelling, Told, Stages, ExecStages, TypeInv, TypeOK
<1>18. CASE GateEof
  <2>1. PanicInternal \in Messages /\ Telling(PanicInternal)
    BY <1>18, <1>c, ConstantsAreTyped DEF GateEof, ContDies, JobLive,
      Telling, Told, IsPanic, PanicExe, PanicInternal, PanicTimeout, Msg, ExecOver, TimedOut,
      SupDead, Stages, ExecStages, TypeInv, TypeOK
  <2> QED
    BY <1>18, <2>1, <1>s DEF GateEof
<1>19. CASE ContMount
  BY <1>19, <1>q DEF ContMount, QuietTelling, Told, Stages, ExecStages, TypeInv, TypeOK
<1>20. CASE ContEnter
  <2>1. CASE cfg.mode # "chroot"
    BY <1>20, <2>1, <1>q DEF ContEnter, QuietTelling, Told, Stages, ExecStages, TypeInv, TypeOK
  <2>2. CASE ~(cfg.mode # "chroot")
    <3>1. Msg("pid", ContPid) \in Messages /\ Telling(Msg("pid", ContPid))
      BY <1>20, <2>2, <1>c, ConstantsAreTyped DEF ContEnter,
        Telling, Told, IsPanic, PanicExe, PanicInternal, PanicTimeout, Msg, ExecOver,
        TimedOut, SupDead, Stages, ExecStages, TypeInv, TypeOK
    <3> QED
      BY <1>20, <2>2, <3>1, <1>s DEF ContEnter
  <2> QED
    BY <2>1, <2>2
<1>21. CASE ContPanic
  <2>1. PanicInternal \in Messages /\ Telling(PanicInternal)
    BY <1>21, <1>c, ConstantsAreTyped DEF ContPanic, ContDies, JobLive,
      Telling, Told, IsPanic, PanicExe, PanicInternal, PanicTimeout, Msg, ExecOver, TimedOut,
      SupDead, Stages, ExecStages, TypeInv, TypeOK
  <2> QED
    BY <1>21, <2>1, <1>s DEF ContPanic
<1>22. CASE ForkAsInit
  BY <1>22, <1>q DEF ForkAsInit, QuietTelling, Told, Stages, ExecStages, TypeInv, TypeOK
<1>23. CASE ContExec
  <2>1. CASE cont' = "running"
    BY <1>23, <2>1, <1>q DEF ContExec, QuietTelling, Told, Stages, ExecStages, TypeInv, TypeOK
  <2>2. CASE ~(cont' = "running")
    <3>1. PanicExe \in Messages /\ Telling(PanicExe)
      BY <1>23, <2>2, <1>c, ConstantsAreTyped DEF ContExec,
        Telling, Told, IsPanic, PanicExe, PanicInternal, PanicTimeout, Msg, ExecOver,
        TimedOut, SupDead, Stages, ExecStages, TypeInv, TypeOK
    <3> QED
      BY <1>23, <2>2, <3>1, <1>s DEF ContExec
  <2> QED
    BY <2>1, <2>2
<1>24. CASE ContPanicExec
  <2>1. PanicInternal \in Messages /\ Telling(PanicInternal)
    BY <1>24, <1>c, ConstantsAreTyped DEF ContPanicExec, ContDies, JobLive,
      Telling, Told, IsPanic, PanicExe, PanicInternal, PanicTimeout, Msg, ExecOver, TimedOut,
      SupDead, Stages, ExecStages, TypeInv, TypeOK
  <2> QED
    BY <1>24, <2>1, <1>s DEF ContPanicExec
<1>25. CASE ContEnds
  BY <1>25, <1>q DEF ContEnds, ContDies, JobLive, QuietTelling, Told, Stages, ExecStages, TypeInv,
    TypeOK
<1>26. CASE InitExits
  BY <1>26, <1>q DEF InitExits, ContDies, JobLive, QuietTelling, Told, Stages, ExecStages,
    TypeInv, TypeOK
<1>27. CASE ParentDeathSignal
  BY <1>27, <1>q DEF ParentDeathSignal, ContDies, JobLive, QuietTelling, Told, Stages, ExecStages,
    TypeInv, TypeOK
<1>28. CASE JobExec
  <2>1. CASE job' = "running"
    BY <1>28, <2>1, <1>q DEF JobExec, QuietTelling, Told, Stages, ExecStages, TypeInv, TypeOK
  <2>2. CASE ~(job' = "running")
    <3>1. PanicExe \in Messages /\ Telling(PanicExe)
      BY <1>28, <2>2, <1>c, ConstantsAreTyped DEF JobExec,
        Telling, Told, IsPanic, PanicExe, PanicInternal, PanicTimeout, Msg, ExecOver,
        TimedOut, SupDead, Stages, ExecStages, TypeInv, TypeOK
    <3> QED
      BY <1>28, <2>2, <3>1, <1>s DEF JobExec
  <2> QED
    BY <2>1, <2>2
<1>29. CASE JobPanic
  <2>1. PanicInternal \in Messages /\ Telling(PanicInternal)
    BY <1>29, <1>c, ConstantsAreTyped DEF JobPanic,
      Telling, Told, IsPanic, PanicExe, PanicInternal, PanicTimeout, Msg, ExecOver, TimedOut,
      SupDead, Stages, ExecStages, TypeInv, TypeOK
  <2> QED
    BY <1>29, <2>1, <1>s DEF JobPanic
<1>30. CASE JobEnds
  BY <1>30, <1>q DEF JobEnds, QuietTelling, Told, Stages, ExecStages, TypeInv, TypeOK
<1>31. CASE UNCHANGED vars
  BY <1>31, <1>q DEF vars, QuietTelling, Told, Stages, ExecStages, TypeInv, TypeOK
<1>32. CASE ReleaseChild
  <2>1. CASE cont # "dead"
    BY <1>32, <2>1, <1>q DEF ReleaseChild, QuietTelling, Told, Stages, ExecStages, TypeInv, TypeOK
  <2>2. CASE ~(cont # "dead")
    <3>1. PanicInternal \in Messages /\ Telling(PanicInternal)
      BY <1>32, <2>2, <1>c, ConstantsAreTyped DEF ReleaseChild,
        Telling, Told, IsPanic, PanicExe, PanicInternal, PanicTimeout, Msg, ExecOver, TimedOut,
        SupDead, Stages, ExecStages, TypeInv, TypeOK
    <3> QED
      BY <1>32, <2>2, <3>1, <1>s DEF ReleaseChild
  <2> QED
    BY <2>1, <2>2
<1>33. CASE CheckBinary
  BY <1>33, <1>q DEF CheckBinary, QuietTelling, Told, Stages, ExecStages, TypeInv, TypeOK
<1>34. CASE ForkAsInitFails
  BY <1>34 DEF ForkAsInitFails
<1> QED
  BY <1>1, <1>2, <1>3, <1>4, <1>5, <1>6, <1>7, <1>8, <1>9, <1>10, <1>11, <1>12, <1>13, <1>14, <1>15,
  <1>16, <1>17, <1>18, <1>19, <1>20, <1>21, <1>22, <1>23, <1>24, <1>25, <1>26, <1>27, <1>28, <1>29,
  <1>30, <1>31, <1>32, <1>33, <1>34 DEF Next, SupStep, WatchStep, ContStep, JobStep, Done
-----------------------------------------------------------------------------
(* Each part of the outcome is kept *)

\* Whoever panics does not run the command, then or later.
LEMMA PanicMeansStep ==
  ASSUME TypeInv, Stages, ExecStages, PanicMeans, [Next]_vars
  PROVE  PanicMeans'
<1> SUFFICES ASSUME ~cfg.forkMayFail /\ ~cfg.noSocket, NEW i \in 1..Len(queue'), IsPanic(queue'[i])
             PROVE  IF queue'[i] = PanicTimeout THEN TimedOut' ELSE ExecOver' /\ exec' # "ok"
  BY Stable DEF PanicMeans
<1>0. \A l \in {queue[k] : k \in 1..Len(queue)} : IsPanic(l) =>
        IF l = PanicTimeout THEN TimedOut' ELSE ExecOver' /\ exec' # "ok"
  BY OverIsStable DEF PanicMeans
<1>1. CASE queue' = queue
  BY <1>0, <1>1
<1>2. CASE UNCHANGED DaemonVars /\ \E m \in Messages : Telling(m) /\ Send(m)
  <2>1. PICK m \in Messages : Telling(m) /\ Send(m)
    BY <1>2
  <2>2. CASE daemon = "exited"
    BY <1>1, <2>1, <2>2 DEF Send
  <2>3. CASE daemon # "exited"
    <3>1. /\ Len(queue') = Len(queue) + 1 /\ Len(queue) \in Nat
          /\ \A k \in 1..Len(queue) : queue'[k] = queue[k]
          /\ queue'[Len(queue) + 1] = m
      BY <2>1, <2>3, SilencedBySend DEF TypeInv, TypeOK
    <3>2. CASE i \in 1..Len(queue)
      BY <1>0, <3>1, <3>2
    <3>3. CASE i = Len(queue) + 1
      BY <2>1, <3>1, <3>3 DEF Telling
    <3> QED
      BY <3>1, <3>2, <3>3
  <2> QED
    BY <2>2, <2>3
<1>3. CASE queue' = <<>>
  BY <1>3
<1>4. CASE DaemonWrite
  <2>1. queue # <<>> /\ queue \in Seq(Messages) /\ queue' = Tail(queue)
    BY <1>4 DEF DaemonWrite, TypeInv, TypeOK
  <2>2. i + 1 \in 1..Len(queue) /\ queue'[i] = queue[i + 1]
    BY <2>1, TailAt
  <2> QED
    BY <1>0, <2>2
<1>5. DaemonStep => queue' \in {queue, <<>>} \/ DaemonWrite
  BY DEF DaemonStep, DaemonOpen, DaemonLock, DaemonRead, DaemonEof, DaemonWriteUnknown,
    DaemonRelease, DaemonUmount
<1>6. SetupPidFileDaemon => queue' = queue
  BY DEF SetupPidFileDaemon
<1> QED
  BY <1>1, <1>2, <1>3, <1>4, <1>5, <1>6, OutcomeSteps DEF OutcomeStep, QuietTelling

\* The daemon stops at a panic, or when every sender has closed the socket.
LEMMA ReadToTheEndStep ==
  ASSUME TypeInv, Stages, ExecStages, LockDiscipline, PanicMeans, ReadToTheEnd, [Next]_vars
  PROVE  ReadToTheEnd'
<1> SUFFICES ASSUME ~cfg.forkMayFail /\ ~cfg.noSocket, HasRead'
             PROVE  TimedOut' \/ (ExecOver' /\ (exec' = "ok" => sup' \in {"exited",
             "killed", "daemon"}))
  BY Stable DEF ReadToTheEnd
<1>0. CASE TimedOut \/ (ExecOver /\ (exec = "ok" => sup \in {"exited", "killed", "daemon"}))
  BY <1>0, OverIsStable
<1>1. CASE HasRead
  BY <1>0, <1>1 DEF ReadToTheEnd
<1>2. CASE SetupPidFileDaemon \/ OutcomeStep
  <2>1. okSent' = okSent /\ daemon' \in {daemon, "open"}
    BY <1>2 DEF SetupPidFileDaemon, OutcomeStep, DaemonVars
  <2> QED
    BY <1>1, <2>1 DEF HasRead
<1>3. CASE DaemonOpen \/ DaemonLock \/ DaemonRead
  <2>1. ~HasRead'
    BY <1>3 DEF DaemonOpen, DaemonLock, DaemonRead, HasRead, Stages
  <2> QED
    BY <2>1
<1>4. CASE DaemonWrite
  <2>1. queue # <<>> /\ Len(queue) \in Nat \ {0} /\ Head(queue) = queue[1]
    BY <1>4, TailAt DEF DaemonWrite, TypeInv, TypeOK
  <2>2. IsPanic(queue[1])
    BY <1>4, <2>1 DEF DaemonWrite, HasRead
  <2> QED
    BY <1>0, <2>1, <2>2 DEF PanicMeans
<1>5. CASE DaemonEof
  BY <1>0, <1>5 DEF DaemonEof, NoSender, SupHolds, SupLive, ContHolds, ContPreExec, JobHolds,
    ExecOver, TypeInv, TypeOK
<1>6. CASE DaemonWriteUnknown \/ DaemonRelease \/ DaemonUmount
  <2>1. HasRead
    BY <1>6 DEF DaemonWriteUnknown, DaemonRelease, DaemonUmount, HasRead
  <2> QED
    BY <1>1, <2>1
<1> QED
  BY <1>2, <1>3, <1>4, <1>5, <1>6, OutcomeSteps DEF DaemonStep

\* The first panic stays the first, when something is sent ...
LEMMA FirstPanicBySend ==
  ASSUME TypeInv, NEW m \in Messages, Send(m), daemon # "exited", ~cfg.noSocket,
         NEW i \in 1..Len(queue), ~Silenced(i)
  PROVE  ~Silenced(i)'
<1>1. Len(queue) \in Nat /\ \A k \in 1..Len(queue) : queue'[k] = queue[k]
  BY SilencedBySend DEF TypeInv, TypeOK
<1>2. \A k \in 1..(i - 1) : k \in 1..Len(queue)
  BY <1>1
<1> QED
  BY <1>1, <1>2 DEF Silenced

\* ... and when a message before it is read.
LEMMA FirstPanicByRead ==
  ASSUME TypeInv, queue # <<>>, queue' = Tail(queue),
         NEW i \in 1..Len(queue), i # 1, ~Silenced(i)
  PROVE  i - 1 \in 1..Len(queue') /\ queue'[i - 1] = queue[i] /\ ~Silenced(i - 1)'
<1>1. queue \in Seq(Messages)
  BY DEF TypeInv, TypeOK
<1>2. /\ Len(queue') = Len(queue) - 1 /\ Len(queue) \in Nat
      /\ \A k \in 1..Len(queue') : queue'[k] = queue[k + 1]
  BY <1>1, TailAt
<1>3. i - 1 \in 1..Len(queue') /\ (i - 1) + 1 = i
  BY <1>2
<1>4. ASSUME NEW k \in 1..((i - 1) - 1) PROVE ~IsPanic(queue'[k])
  <2>1. k + 1 \in 1..(i - 1) /\ k \in 1..Len(queue')
    BY <1>2
  <2> QED
    BY <1>2, <2>1 DEF Silenced
<1> QED
  BY <1>2, <1>3, <1>4 DEF Silenced

\* A failed exec is told before any other panic.
LEMMA FailureIsToldStep ==
  ASSUME TypeInv, Stages, ExecStages, LockDiscipline, PanicMeans, ReadToTheEnd, FailureIsTold,
         [Next]_vars
  PROVE  FailureIsTold'
<1> SUFFICES ASSUME exec' = "failed", ~cfg.forkMayFail /\ ~cfg.noSocket, ~TimedOut'
             PROVE  /\ Reading' => \E i \in 1..Len(queue') : queue'[i] = PanicExe /\ ~Silenced(i)'
                    /\ HasRead' => daemon' # "write_unknown" /\ (cfg.pidFile => pidFile' = PanicExe)
  BY Stable DEF FailureIsTold
<1>0. ~TimedOut
  BY OverIsStable
<1>f. ASSUME exec = "failed"
      PROVE  /\ Reading => \E i \in 1..Len(queue) : queue[i] = PanicExe /\ ~Silenced(i)
             /\ HasRead => daemon # "write_unknown" /\ (cfg.pidFile => pidFile = PanicExe)
  BY <1>0, <1>f DEF FailureIsTold
<1>1. CASE SetupPidFileDaemon
  BY <1>1 DEF SetupPidFileDaemon, Stages
<1>2. CASE OutcomeStep
  <2>1. UNCHANGED DaemonVars /\ (Reading' <=> Reading) /\ (HasRead' <=> HasRead)
    BY <1>2 DEF OutcomeStep, DaemonVars, Reading, HasRead
  <2>2. CASE QuietTelling
    <3>1. queue' = queue /\ exec = "failed" /\ \A i : Silenced(i)' <=> Silenced(i)
      BY <2>2 DEF QuietTelling, Silenced
    <3> QED
      BY <1>f, <2>1, <3>1 DEF DaemonVars
  <2>3. CASE \E m \in Messages : Telling(m) /\ Send(m)
    <3>1. PICK m \in Messages : Telling(m) /\ Send(m)
      BY <2>3
    <3>2. Reading => daemon # "exited"
      BY DEF Reading
    <3>3. daemon # "exited" =>
            /\ Len(queue') = Len(queue) + 1 /\ Len(queue) \in Nat
            /\ \A i \in 1..Len(queue) : queue'[i] = queue[i]
            /\ queue'[Len(queue) + 1] = m
      BY <3>1, SilencedBySend DEF TypeInv, TypeOK
    <3>4. CASE exec = "failed"
      <4>1. ASSUME Reading
            PROVE  \E i \in 1..Len(queue') : queue'[i] = PanicExe /\ ~Silenced(i)'
        <5>1. PICK i \in 1..Len(queue) : queue[i] = PanicExe /\ ~Silenced(i)
          BY <1>f, <3>4, <4>1
        <5>2. i \in 1..Len(queue') /\ queue'[i] = PanicExe
          BY <3>2, <3>3, <4>1, <5>1
        <5>3. ~Silenced(i)'
          BY <3>1, <3>2, <4>1, <5>1, FirstPanicBySend
        <5> QED
          BY <5>2, <5>3
      <4> QED
        BY <1>f, <2>1, <3>4, <4>1 DEF DaemonVars
    <3>5. CASE exec # "failed"
      <4>1. m = PanicExe /\ ~ExecOver
        BY <3>1, <3>5 DEF Telling
      <4>2. ~HasRead
        BY <1>0, <4>1 DEF ReadToTheEnd
      <4>3. ASSUME Reading
            PROVE  \E i \in 1..Len(queue') : queue'[i] = PanicExe /\ ~Silenced(i)'
        <5>1. \A k \in 1..Len(queue) : ~IsPanic(queue'[k])
          BY <1>0, <3>2, <3>3, <4>1, <4>3 DEF PanicMeans
        <5>2. PICK n \in Nat : n = Len(queue) + 1
          BY <3>2, <3>3, <4>3
        <5>3. n \in 1..Len(queue') /\ queue'[n] = PanicExe
          BY <3>2, <3>3, <4>1, <4>3, <5>2
        <5>4. ~Silenced(n)'
          BY <3>2, <3>3, <4>3, <5>1, <5>2 DEF Silenced
        <5> QED
          BY <5>3, <5>4
      <4> QED
        BY <2>1, <4>2, <4>3
    <3> QED
      BY <3>4, <3>5
  <2> QED
    BY <1>2, <2>2, <2>3 DEF OutcomeStep
<1>3. CASE DaemonOpen \/ DaemonLock
  <2>1. Reading /\ ~HasRead' /\ exec = "failed" /\ queue' = queue /\ \A i : Silenced(i)' <=> Silenced(i)
    BY <1>3 DEF DaemonOpen, DaemonLock, Reading, HasRead, Silenced, Stages
  <2> QED
    BY <1>f, <2>1
<1>4. CASE DaemonRead
  <2>1. Reading /\ ~HasRead' /\ exec = "failed" /\ queue' = queue /\ \A i : Silenced(i)' <=>
  Silenced(i)
    BY <1>4 DEF DaemonRead, Reading, HasRead, Silenced
  <2> QED
    BY <1>f, <2>1
<1>5. CASE DaemonWrite
  <2>1. Reading /\ exec = "failed" /\ queue # <<>> /\ queue' = Tail(queue)
    BY <1>5 DEF DaemonWrite, Reading, TypeInv, TypeOK
  <2>2. PICK i \in 1..Len(queue) : queue[i] = PanicExe /\ ~Silenced(i)
    BY <1>f, <2>1
  <2>3. Head(queue) = queue[1] /\ Len(queue) \in Nat
    BY <2>1, TailAt DEF TypeInv, TypeOK
  <2>4. CASE i = 1
    <3>1. ~Reading' /\ (cfg.pidFile => pidFile' = PanicExe) /\ daemon' # "write_unknown"
      BY <1>5, <2>2, <2>3, <2>4 DEF DaemonWrite, Put, Reading, IsPanic, PanicExe, Msg
    <3> QED
      BY <3>1
  <2>5. CASE i # 1
    <3>1. i - 1 \in 1..Len(queue') /\ queue'[i - 1] = queue[i] /\ ~Silenced(i - 1)'
      BY <2>1, <2>2, <2>5, FirstPanicByRead
    <3>2. 1 \in 1..(i - 1)
      BY <2>3, <2>5
    <3>3. ~IsPanic(Head(queue))
      BY <2>2, <2>3, <3>2 DEF Silenced
    <3>4. ~HasRead'
      BY <1>5, <3>3 DEF DaemonWrite, HasRead
    <3> QED
      BY <2>2, <3>1, <3>4
  <2> QED
    BY <2>4, <2>5
<1>6. CASE DaemonEof
  <2>1. Reading /\ exec = "failed" /\ Len(queue) = 0
    BY <1>6 DEF DaemonEof, Reading
  <2> QED
    BY <1>f, <2>1
<1>7. CASE DaemonWriteUnknown
  <2>1. HasRead /\ daemon = "write_unknown" /\ exec = "failed"
    BY <1>7 DEF DaemonWriteUnknown, HasRead, LockDiscipline
  <2> QED
    BY <1>f, <2>1
<1>8. CASE DaemonRelease \/ DaemonUmount
  <2>1. /\ ~Reading' /\ (HasRead' => HasRead) /\ daemon' # "write_unknown"
        /\ exec = "failed" /\ pidFile' = pidFile
    BY <1>8 DEF DaemonRelease, DaemonUmount, Reading, HasRead
  <2> QED
    BY <1>f, <2>1
<1> QED
  BY <1>1, <1>2, <1>3, <1>4, <1>5, <1>6, <1>7, <1>8, OutcomeSteps DEF DaemonStep

\* The report of the supervisor is the last that is told.
LEMMA ReportIsToldStep ==
  ASSUME TypeInv, Stages, ExecStages, LockDiscipline, PanicMeans, ReadToTheEnd, ReportIsTold,
         [Next]_vars
  PROVE  ReportIsTold'
<1> SUFFICES ASSUME Told', ~cfg.forkMayFail /\ ~cfg.noSocket, ~TimedOut'
             PROVE  /\ Reading' => IF queue' = <<>> THEN cfg.pidFile => pidFile' = Report(status)'
                                   ELSE queue'[Len(queue')] = Report(status)'
                    /\ HasRead' /\ cfg.pidFile =>
                         daemon' # "write_unknown" /\ pidFile' = Report(status)'
  BY Stable DEF ReportIsTold
<1>0. ~TimedOut
  BY OverIsStable
<1>f. ASSUME Told
      PROVE  /\ Reading => IF queue = <<>> THEN cfg.pidFile => pidFile = Report(status)
                           ELSE queue[Len(queue)] = Report(status)
             /\ HasRead /\ cfg.pidFile => daemon # "write_unknown" /\ pidFile = Report(status)
             /\ Report(status)' = Report(status)
  BY <1>0, <1>f, OverIsStable DEF ReportIsTold, Told
<1>1. CASE SetupPidFileDaemon
  BY <1>1 DEF SetupPidFileDaemon, Stages, Told
<1>2. CASE OutcomeStep
  <2>1. UNCHANGED DaemonVars /\ (Reading' <=> Reading) /\ (HasRead' <=> HasRead)
    BY <1>2 DEF OutcomeStep, DaemonVars, Reading, HasRead
  <2>2. CASE QuietTelling
    BY <1>f, <2>1, <2>2 DEF QuietTelling, DaemonVars
  <2>3. CASE \E m \in Messages : Telling(m) /\ Send(m)
    <3>1. PICK m \in Messages : Telling(m) /\ Send(m)
      BY <2>3
    <3>2. ASSUME Reading
          PROVE  queue' # <<>> /\ queue'[Len(queue')] = Report(status)'
      <4>1. daemon # "exited"
        BY <3>2 DEF Reading
      <4>2. queue' # <<>> /\ queue'[Len(queue')] = m
        BY <3>1, <4>1, AppendAt DEF Send, TypeInv, TypeOK
      <4>3. m = Report(status)'
        BY <3>1 DEF Telling
      <4> QED
        BY <4>2, <4>3
    <3>3. ASSUME HasRead PROVE Told
      <4>1. ExecOver /\ (exec = "ok" => sup \in {"exited", "killed", "daemon"})
        BY <1>0, <3>3 DEF ReadToTheEnd
      <4>2. ExecOver' /\ exec' = exec
        BY <4>1, OverIsStable
      <4>3. exec = "ok" /\ sup' = sup
        BY <4>1, <4>2, Stable DEF Told, ExecOver
      <4> QED
        BY <4>3 DEF Told
    <3> QED
      BY <1>f, <2>1, <3>2, <3>3 DEF DaemonVars
  <2> QED
    BY <1>2, <2>2, <2>3 DEF OutcomeStep
<1>3. CASE DaemonOpen \/ DaemonLock
  <2>1. Reading /\ ~HasRead' /\ Told /\ queue' = queue
    BY <1>3 DEF DaemonOpen, DaemonLock, Reading, HasRead, Stages, Told
  <2>2. pidFile # Report(status)
    BY <1>3 DEF DaemonOpen, DaemonLock, Stages, Report, Absent, Empty, Msg
  <2>3. ~cfg.pidFile => pidFile' = pidFile
    BY <1>3 DEF DaemonOpen, DaemonLock, Put
  <2> QED
    BY <1>f, <2>1, <2>2, <2>3
<1>4. CASE DaemonRead
  <2>1. Reading /\ ~HasRead' /\ Told /\ queue' = queue /\ queue # <<>>
    BY <1>4 DEF DaemonRead, Reading, HasRead, Told
  <2> QED
    BY <1>f, <2>1
<1>5. CASE DaemonWrite
  <2>1. Reading /\ Told /\ queue # <<>> /\ queue' = Tail(queue) /\ queue \in Seq(Messages)
    BY <1>5 DEF DaemonWrite, Reading, Told, TypeInv, TypeOK
  <2>2. Head(queue) = queue[1] /\ Len(queue) \in Nat \ {0}
    BY <2>1, TailAt
  <2>3. ~IsPanic(Head(queue))
    <3>1. IsPanic(queue[1]) => ExecOver /\ exec # "ok"
      BY <1>0, <2>2 DEF PanicMeans
    <3> QED
      BY <2>1, <2>2, <3>1 DEF Told, ExecOver
  <2>4. ~HasRead'
    BY <1>5, <2>3 DEF DaemonWrite, HasRead
  <2>5. CASE queue' = <<>>
    <3>0. Len(queue') = 0 /\ Len(queue') = Len(queue) - 1
      BY <2>1, <2>5, TailAt
    <3>1. Len(queue) = 1
      BY <2>2, <3>0
    <3> QED
      BY <1>f, <1>5, <2>1, <2>2, <2>4, <2>5, <3>1 DEF DaemonWrite, Put
  <2>6. CASE queue' # <<>>
    <3>1. queue'[Len(queue')] = queue[Len(queue)]
      BY <2>1, <2>6
    <3> QED
      BY <1>f, <2>1, <2>4, <2>6, <3>1
  <2> QED
    BY <2>5, <2>6
<1>6. CASE DaemonEof
  <2>1. Reading /\ Told /\ queue = <<>>
    BY <1>6 DEF DaemonEof, Reading, Told
  <2>2. cfg.pidFile => pidFile = Report(status) /\ IsFinal(pidFile)
    BY <1>f, <2>1 DEF Report, IsFinal, Msg
  <2>3. ~Reading' /\ (cfg.pidFile => daemon' # "write_unknown" /\ pidFile' = pidFile)
    BY <1>6, <2>2 DEF DaemonEof, AfterEof, Reading
  <2> QED
    BY <1>f, <2>1, <2>2, <2>3
<1>7. CASE DaemonWriteUnknown
  <2>1. HasRead /\ daemon = "write_unknown" /\ Told /\ ~Reading'
    BY <1>7 DEF DaemonWriteUnknown, HasRead, LockDiscipline, Told, AfterEof, Reading
  <2> QED
    BY <1>f, <2>1
<1>8. CASE DaemonRelease \/ DaemonUmount
  <2>1. ~Reading' /\ (HasRead' => HasRead) /\ daemon' # "write_unknown" /\ pidFile' = pidFile
    BY <1>8 DEF DaemonRelease, DaemonUmount, Reading, HasRead
  <2>2. Told
    BY <1>8 DEF DaemonRelease, DaemonUmount, UmountContainer, JobLive, Told
  <2> QED
    BY <1>f, <2>1, <2>2
<1> QED
  BY <1>1, <1>2, <1>3, <1>4, <1>5, <1>6, <1>7, <1>8, OutcomeSteps DEF DaemonStep

\* Only the watchdog that was told to unmount does.
LEMMA WatchAsks ==
  ASSUME TypeInv, [Next]_vars
  PROVE  watch' = "umount" => watch = "umount" \/ cfg.umountOnPanic
<1>1. CASE SetupTimeoutWatchdog \/ WatchStep
  BY <1>1 DEF SetupTimeoutWatchdog, WatchStep, WatchSeesDeath, WatchFires, WatchKills, WatchUmount
<1>2. CASE ~SetupTimeoutWatchdog /\ ~WatchStep
  <2>1. watch' = watch
    BY <1>2 DEF SetupPidFileDaemon, FirstChildGone, ReadSync, Launch, LaunchFails, StoreInfo,
      StoreInfoFails, Announce, ReleaseChild, ReapContainer, SupExit, ParentReaps, ExternalKill, DaemonOpen,
      DaemonLock, DaemonRead, DaemonWrite, DaemonEof, DaemonWriteUnknown, DaemonRelease,
      DaemonUmount,
      GateOpens, GateEof, ContMount, ContEnter, CheckBinary, ContPanic, ForkAsInit, ForkAsInitFails, ContExec, ContPanicExec,
      ContEnds, InitExits, ParentDeathSignal, JobExec, JobPanic, JobEnds, vars, Next, SupStep,
      DaemonStep, ContStep, JobStep, Done
  <2> QED
    BY <2>1
<1> QED
  BY <1>1, <1>2

\* Only an umount takes away what a container has left.
LEMMA OnlyUmountUninstalls ==
  ASSUME TypeInv, [Next]_vars, installed, ~installed'
  PROVE  DaemonUmount \/ WatchUmount \/ CheckBinary
<1> SUFFICES ASSUME ~DaemonUmount, ~WatchUmount, ~CheckBinary PROVE installed' = installed \/ installed'
  OBVIOUS
<1> QED
  BY DEF SetupPidFileDaemon, FirstChildGone, ReadSync, SetupTimeoutWatchdog, Launch, LaunchFails,
  StoreInfo, StoreInfoFails, Announce, ReleaseChild, ReapContainer, SupExit, ParentReaps, ExternalKill,
  DaemonOpen, DaemonLock, DaemonRead, DaemonWrite, DaemonEof, DaemonWriteUnknown, DaemonRelease,
  WatchSeesDeath, WatchFires, WatchKills, GateOpens, GateEof, ContMount, ContEnter, ContPanic,
  ForkAsInit, ForkAsInitFails, ContExec, ContPanicExec, ContEnds, InitExits, ParentDeathSignal, JobExec, JobPanic,
  JobEnds, vars, Next, SupStep, DaemonStep, WatchStep, ContStep, JobStep, Done

\* The daemon goes to the umount for a reason that stays in the file.
LEMMA UmountIsAskedStep ==
  ASSUME TypeInv, Stages, LockDiscipline, UmountIsAsked, [Next]_vars
  PROVE  UmountIsAsked'
<1>0. cfg' = cfg
  BY Stable
<1>1. CASE SetupPidFileDaemon
  BY <1>0, <1>1 DEF SetupPidFileDaemon, UmountIsAsked
<1>2. CASE DaemonOpen \/ DaemonLock \/ DaemonRead \/ DaemonEof
  BY <1>0, <1>2 DEF DaemonOpen, DaemonLock, DaemonRead, DaemonEof, AfterEof, UmountIsAsked
<1>3. CASE DaemonWrite
  BY <1>0, <1>3 DEF DaemonWrite, Put, UmountIsAsked
<1>4. CASE DaemonWriteUnknown
  BY <1>0, <1>4 DEF DaemonWriteUnknown, AfterEof, UmountIsAsked
<1>5. CASE DaemonRelease \/ DaemonUmount
  BY <1>0, <1>5 DEF DaemonRelease, DaemonUmount, UmountIsAsked
<1>6. CASE OtherStep
  <2>1. watch' = "umount" => watch = "umount" \/ cfg.umountOnPanic
    BY <1>6, WatchAsks
  <2> QED
    BY <1>0, <1>6, <2>1 DEF OtherStep, DaemonVars, UmountIsAsked
<1> QED
  BY <1>1, <1>2, <1>3, <1>4, <1>5, <1>6, StepShapes DEF DaemonStep

-----------------------------------------------------------------------------
(* The outcome and the umount, in every behaviour *)

\* Nothing has happened yet at the start.
LEMMA OutcomeInit == Init => OutcomeInv /\ UmountIsAsked
<1> SUFFICES ASSUME Init PROVE OutcomeInv /\ UmountIsAsked
  OBVIOUS
<1>1. queue = <<>> /\ Len(queue) = 0
  BY DEF Init
<1>2. PanicMeans
  BY <1>1 DEF PanicMeans
<1> QED
  BY <1>2 DEF Init, OutcomeInv, ExecStages, ReadToTheEnd, FailureIsTold, ReportIsTold, Told,
    HasRead,
    UmountIsAsked

\* Every step keeps both.
LEMMA OutcomeInvStep ==
  IInv /\ OutcomeInv /\ UmountIsAsked /\ [Next]_vars => (OutcomeInv /\ UmountIsAsked)'
BY ExecStagesStep, PanicMeansStep, ReadToTheEndStep, FailureIsToldStep, ReportIsToldStep,
  UmountIsAskedStep DEF IInv, OutcomeInv

\* Hence both hold throughout.
LEMMA OutcomeInvariant == Spec => [](OutcomeInv /\ UmountIsAsked)
BY OutcomeInit, OutcomeInvStep, Invariant, PTL DEF Spec

\* When the daemon has ended, the pid file tells what became of the command: that
\* it could not be executed, or how it died when its supervisor saw that.
THEOREM OutcomeReachesFile == Spec => []OutcomeIsReported
<1>1. IInv /\ OutcomeInv => OutcomeIsReported
  BY DEF OutcomeIsReported, OutcomeInv, FailureIsTold, ReportIsTold, Told, HasRead, TimedOut
<1> QED
  BY <1>1, Invariant, OutcomeInvariant, PTL

\* A container directory is cleaned up when that was asked for, at the end or after
\* a panic, or by a container process that finds no QEMU, and then no command is
\* ever run in it.
THEOREM UmountIsOnRequest == Spec => UmountOnlyWhenAsked
<1>1. IInv /\ UmountIsAsked /\ [Next]_vars =>
        [installed /\ ~installed' =>
           \/ cfg.autoUmount /\ daemon = "umount"
           \/ cfg.umountOnPanic /\ (watch = "umount" \/ (cfg.pidFile => IsPanic(pidFile)))
           \/ cfg.noQemu /\ ContPreExec]_vars
  <2> SUFFICES ASSUME IInv, UmountIsAsked, [Next]_vars, installed, ~installed'
               PROVE  \/ cfg.autoUmount /\ daemon = "umount"
                      \/ /\ cfg.umountOnPanic
                         /\ watch = "umount" \/ (cfg.pidFile => IsPanic(pidFile))
                      \/ cfg.noQemu /\ ContPreExec
    OBVIOUS
  <2>1. DaemonUmount \/ WatchUmount \/ CheckBinary
    BY OnlyUmountUninstalls DEF IInv
  <2> QED
    BY <2>1 DEF DaemonUmount, WatchUmount, CheckBinary, ContPreExec, UmountIsAsked
<1>2. IInv => (cfg.noQemu => exec = "none")
  BY DEF IInv, Stages
<1> QED
  BY <1>1, <1>2, Invariant, OutcomeInvariant, PTL DEF Spec, UmountOnlyWhenAsked
=============================================================================
