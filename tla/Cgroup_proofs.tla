----------------------------- MODULE Cgroup_proofs -----------------------------
(***************************************************************************)
(* Proofs about Cgroup, for any number of starts, of ruri -U, of container *)
(* directories and of seconds in a day.                                    *)
(***************************************************************************)
EXTENDS Cgroup, TLAPS

-----------------------------------------------------------------------------
(* The inductive invariant *)

Invocations == Starts \cup Umounts
Working     == {"mkdir", "attach", "write"}
Begun       == Working \cup {"setup2", "join2", "running"}

SettingType == [dir : Dirs, enable_unshare : BOOLEAN, systemd_mode : BOOLEAN,
                limits : SUBSET Controllers, malformed : BOOLEAN]
Invocation  == [pc : Begun \cup {"idle", "gone", "umount", "kill", "scan", "done"}, setting : SettingType,
                id : Ids \cup {Nobody}, by : Starts \cup {"none"}, at : Controllers,
                cgroup : [Trees -> Ids \cup {Nobody}], warned : SUBSET Controllers,
                systemd : BOOLEAN, live : BOOLEAN, fresh : BOOLEAN, seen : SUBSET Starts]
InfoType    == [id : Ids \cup {Nobody}, by : Starts \cup {"none"}, systemd : BOOLEAN]
GroupType   == [Trees -> [Ids -> (SUBSET Controllers) \cup {NoGroup}]]

Typed ==
  /\ version \in [Controllers -> Versions]
  /\ group \in GroupType
  /\ info \in [Dirs -> InfoType]
  /\ loc \in [Invocations -> Invocation]
  /\ \A p \in Starts : loc[p].pc \in Begun \cup {"idle", "gone"}
  /\ \A u \in Umounts : loc[u].pc \in {"idle", "umount", "kill", "scan", "done"}

RootsTyped == root \in [Starts -> {"none", "dir", "bind", "detached"}]

\* A start has the id of a time of day, and is in no directory but that of its id.
IdsAreKept ==
  /\ \A p \in Starts : loc[p].pc \in Begun => loc[p].id \in Ids
  /\ \A p \in Starts : \A t \in Trees : loc[p].cgroup[t] \in {Nobody, loc[p].id}
  /\ \A d \in Dirs : info[d] # NoInfo => info[d].id \in Ids

\* Nobody is in a directory that is gone.
IsInWhatExists(p) ==
  \A t \in Trees : loc[p].cgroup[t] \in Ids => group[t][loc[p].cgroup[t]] # NoGroup
InWhatExists == \A p \in Starts : IsInWhatExists(p)

\* The first process of a container of an id and, where that matters, a directory:
\* it runs, or has gone for good.
Leads(q, id) ==
  /\ q \in Starts
  /\ loc[q].pc \in {"running", "gone"}
  /\ loc[q].pc = "running" => loc[q].by = q /\ loc[q].id = id
LeadsIn(q, id, d) == Leads(q, id) /\ (loc[q].pc = "running" => Dir(q) = d)

\* Whoever is in the namespaces of a container came after its first process and
\* goes with it.
LeadersLead ==
  /\ \A d \in Dirs : info[d].by # "none" => LeadsIn(info[d].by, info[d].id, d)
  /\ \A p \in Starts : loc[p].pc \in Begun /\ loc[p].by \notin {"none", p} =>
       Leads(loc[p].by, loc[p].id)
  /\ \A p \in Running : loc[p].by # "none" => loc[p].by \in Running

\* The controllers a start is through with, and those of them that are set.
Handled(p) ==
  {c \in Controllers : \/ loc[p].pc = "running"
                       \/ c = "memory" /\ loc[p].at # "memory"
                       \/ c = "cpuset" /\ loc[p].at = "cpupercent"}
InGroupOf(p, c) == version[c] # "none" /\ loc[p].cgroup[Tree(c)] = loc[p].id
LimitIsSet(p) ==
  /\ loc[p].pc \in Working \cup {"running"} /\ ~loc[p].systemd =>
       \A c \in (loc[p].setting.limits \cap Handled(p)) \ loc[p].warned :
         InGroupOf(p, c) /\ c \in group[Tree(c)][loc[p].id]
  /\ loc[p].pc = "attach" => version[loc[p].at] # "none"
  /\ loc[p].pc = "write" => InGroupOf(p, loc[p].at)
  /\ loc[p].pc \in {"setup2", "join2"} => loc[p].systemd
LimitsAreSet == \A p \in Starts : LimitIsSet(p)

\* What an umount has read, and whom it is after.
UmountKnows ==
  \A u \in Umounts : loc[u].pc \in {"umount", "kill", "scan"} =>
    /\ loc[u].live => loc[u].id \in Ids /\ LeadsIn(loc[u].by, loc[u].id, Dir(u))
    /\ loc[u].id # Nobody => loc[u].live \/ loc[u].fresh
    /\ \A p \in loc[u].seen :
         \/ loc[p].pc = "gone"
         \/ /\ p \in Running /\ Dir(p) = Dir(u)
            /\ loc[p].by = "none" \/ (loc[u].live /\ loc[p].by = loc[u].by)

\* Whom it has left, for good, when it is done.
LeftAre ==
  \A u \in Umounts : loc[u].pc = "done" =>
    \A p \in loc[u].seen : loc[p].pc = "gone" \/ (p \in Running /\ root[p] = "detached")

IInv == Typed /\ RootsTyped /\ IdsAreKept /\ InWhatExists /\ LeadersLead /\ LimitsAreSet
        /\ UmountKnows /\ LeftAre

-----------------------------------------------------------------------------
(* The shapes of the steps *)

\* What an invocation is before and after its work.
LEMMA IdleIsTyped ==
  /\ Idle \in Invocation /\ Gone \in Invocation
  /\ Idle.pc = "idle" /\ Gone.pc = "gone" /\ Gone.id = Nobody /\ Idle.id = Nobody
  /\ Gone.by = "none" /\ Idle.by = "none" /\ Idle.seen = {}
  /\ \A t \in Trees : Idle.cgroup[t] = Nobody /\ Gone.cgroup[t] = Nobody
<1>1. (CHOOSE s \in Settings : TRUE) \in SettingType
  BY SettingsAssumption DEF SettingType
<1> QED
  BY <1>1 DEF Idle, Gone, Invocation, Controllers, Begun, Working

\* A kill ends those it is after and the rest of their containers, and nobody else.
LEMMA KillIs ==
  ASSUME Typed, NEW s, s \subseteq Starts
  PROVE  /\ Kill(s) \in [Invocations -> Invocation]
         /\ \A u \in Umounts : Kill(s)[u] = loc[u]
         /\ \A p \in Starts : Kill(s)[p] = IF p \in s \/ (p \in Running /\ loc[p].by \in s)
                                             THEN Gone ELSE loc[p]
BY IdleIsTyped, StartsAssumption DEF Kill, Typed, Invocations, Running

\* A start goes on with what it was asked for: it takes a step of its work, its
\* container comes up, or it goes with all that depends on it.
Same(m, p) ==
  /\ m \in Invocation
  /\ m.setting = loc[p].setting /\ m.id = loc[p].id /\ m.by = loc[p].by /\ m.systemd = loc[p].systemd
  /\ \A t \in Trees : m.cgroup[t] \in {loc[p].cgroup[t], loc[p].id, Nobody}
WorkStep(p, m) ==
  /\ loc[p].pc \in Working /\ Same(m, p) /\ m.pc \in Working
  /\ loc' = [loc EXCEPT ![p] = m] /\ info' = info
ComeStep(p, m) ==
  /\ loc[p].pc \in Begun \ {"running"} /\ Same(m, p) /\ m.pc = "running" /\ ~Late(p)
  /\ loc' = [loc EXCEPT ![p] = m]
  /\ info' = IF loc[p].by = p THEN [info EXCEPT ![Dir(p)] = [id |-> m.id, by |-> p, systemd |-> m.systemd]]
             ELSE info
DieStep(p) == loc[p].pc \in Begun /\ loc' = Kill({p}) /\ info' = info
StartStep(p) == DieStep(p) \/ \E m : WorkStep(p, m) \/ ComeStep(p, m)

\* The last part of ruri_set_limit().
LEMMA UpIs ==
  ASSUME Typed, NEW p \in Starts, NEW l, Same(l, p), loc[p].pc \in Begun \ {"running"}, Up(p, l)
  PROVE  DieStep(p) \/ ComeStep(p, [l EXCEPT !.pc = "running", !.at = "memory"])
<1> DEFINE m == [l EXCEPT !.pc = "running", !.at = "memory"]
<1>1. Same(m, p) /\ m.pc = "running" /\ m.id = l.id /\ m.systemd = l.systemd
  BY DEF Same, Invocation, Controllers, Begun
<1>2. CASE Late(p)
  BY <1>2 DEF Up, DieStep
<1>3. CASE ~Late(p)
  BY <1>1, <1>3 DEF Up, ComeStep
<1> QED
  BY <1>2, <1>3

\* From one controller to the next.
LEMMA AdvanceIs ==
  ASSUME Typed, NEW p \in Starts, NEW l, Same(l, p), loc[p].pc \in Working, Advance(p, l)
  PROVE  \/ /\ l.at # "cpupercent"
            /\ WorkStep(p, [l EXCEPT !.at = Following(l.at), !.pc = "mkdir"])
         \/ l.at = "cpupercent" /\ (DieStep(p) \/ ComeStep(p, [l EXCEPT !.pc = "running", !.at = "memory"]))
<1>0. l.at \in Controllers
  BY DEF Same, Invocation
<1>1. CASE l.at = "cpupercent"
  <2>1. Up(p, l)
    BY <1>1 DEF Advance, Following
  <2> QED
    BY <1>1, <2>1, UpIs DEF Begun, Working
<1>2. CASE l.at # "cpupercent"
  <2>1. Following(l.at) \in Controllers \ {"memory"} /\ Following(l.at) # "done"
    BY <1>0, <1>2 DEF Following, Controllers
  <2>2. Same([l EXCEPT !.at = Following(l.at), !.pc = "mkdir"], p)
    BY <2>1 DEF Same, Invocation, Begun, Working
  <2>3. loc' = [loc EXCEPT ![p] = [l EXCEPT !.at = Following(l.at), !.pc = "mkdir"]] /\ info' = info
    BY <1>0, <2>1 DEF Advance
  <2>4. [l EXCEPT !.at = Following(l.at), !.pc = "mkdir"].pc = "mkdir"
    BY DEF Same, Invocation
  <2> QED
    BY <1>2, <2>2, <2>3, <2>4 DEF WorkStep, Working
<1> QED
  BY <1>1, <1>2

\* What the steps of a start hand on.
LEMMA SameIs ==
  ASSUME Typed, IdsAreKept, NEW p \in Starts
  PROVE  /\ Same(loc[p], p) /\ Same(Warn(p), p) /\ Warn(p).at = loc[p].at
         /\ \A l \in {"write", "attach"} : Same([loc[p] EXCEPT !.pc = l], p)
         /\ Same(Joined(p), p)
         /\ \A t \in Trees : Same([loc[p] EXCEPT !.cgroup[t] = loc[p].id], p)
         /\ \A t \in Trees : Same([[loc[p] EXCEPT !.cgroup[t] = loc[p].id] EXCEPT !.pc = "write"], p)
<1>1. loc[p] \in Invocation
  BY DEF Typed, Invocations
<1>2. Same(loc[p], p)
  BY <1>1 DEF Same
<1>3. Same(Warn(p), p) /\ Warn(p).at = loc[p].at
  BY <1>1 DEF Same, Warn, Invocation, SettingType
<1>4. \A l \in {"write", "attach"} : Same([loc[p] EXCEPT !.pc = l], p)
  BY <1>1 DEF Same, Invocation, Begun, Working
<1>5. Same(Joined(p), p)
  BY <1>1 DEF Same, Invocation, Joined, Trees
<1>6. \A t \in Trees : Same([loc[p] EXCEPT !.cgroup[t] = loc[p].id], p)
  BY <1>1 DEF Same, Invocation
<1>7. \A t \in Trees : Same([[loc[p] EXCEPT !.cgroup[t] = loc[p].id] EXCEPT !.pc = "write"], p)
  BY <1>1, <1>6 DEF Same, Invocation, Begun, Working
<1> QED
  BY <1>2, <1>3, <1>4, <1>5, <1>6, <1>7

\* The directory of a controller the host has.
LEMMA TreeIs ==
  ASSUME Typed, NEW c \in Controllers, version[c] # "none"
  PROVE  Tree(c) \in Trees
BY DEF Typed, Tree, Trees, Versions

-----------------------------------------------------------------------------
(* The directories and the limits in them *)

\* No start takes a directory or a limit away.
Grows ==
  \A t \in Trees : \A i \in Ids :
    group[t][i] # NoGroup => group'[t][i] # NoGroup /\ group[t][i] \subseteq group'[t][i]
Keeps(p) ==
  StartStep(p) /\ version' = version /\ group' \in GroupType /\ Grows
  /\ IsInWhatExists(p)' /\ LimitIsSet(p)'

\* A start that has gone is nowhere and promises nothing.
LEMMA DeadKeeps ==
  ASSUME Typed, NEW p \in Starts, DieStep(p), version' = version, group' \in GroupType, Grows
  PROVE  Keeps(p)
<1>1. loc'[p] = Gone
  BY KillIs DEF DieStep
<1>2. IsInWhatExists(p)'
  BY <1>1, IdleIsTyped, MaxIdAssumption DEF IsInWhatExists
<1>3. LimitIsSet(p)'
  BY <1>1, IdleIsTyped DEF LimitIsSet, Working
<1> QED
  BY <1>2, <1>3 DEF Keeps, StartStep

\* A set of controllers is told from a directory that does not exist.
LEMMA NoGroupIs ==
  /\ NoGroup \notin SUBSET Controllers /\ {} # NoGroup
  /\ \A c \in Controllers : c \notin NoGroup
BY DEF NoGroup, Controllers

\* The group stays as it is.
LEMMA SameGroup ==
  ASSUME Typed, group' = group
  PROVE  group' \in GroupType /\ Grows
BY DEF Typed, Grows

\* A step within what ruri_set_limit() does keeps what has been set, when the limit
\* of the controller it leaves behind was not asked for, is warned of, or is set.
LEMMA MoveKeeps ==
  ASSUME NEW p \in Starts, Typed, IdsAreKept, IsInWhatExists(p), LimitIsSet(p), NEW m,
         WorkStep(p, m) \/ ComeStep(p, m), loc[p].pc \in Working,
         version' = version, group' \in GroupType, Grows,
         loc[p].warned \subseteq m.warned,
         \A t \in Trees : \/ m.cgroup[t] = loc[p].cgroup[t]
                          \/ m.cgroup[t] = loc[p].id /\ group'[t][loc[p].id] # NoGroup,
         m.pc = "attach" => version[m.at] # "none",
         m.pc = "write" => version[m.at] # "none" /\ m.cgroup[Tree(m.at)] = loc[p].id,
         \A c \in Controllers :
           c \in Handled(p)' => \/ c \in Handled(p)
                                \/ c \in m.warned \/ c \notin loc[p].setting.limits
                                \/ /\ version[c] # "none" /\ m.cgroup[Tree(c)] = loc[p].id
                                   /\ c \in group'[Tree(c)][loc[p].id]
  PROVE  Keeps(p)
<1>0. /\ loc'[p] = m /\ m.setting = loc[p].setting /\ m.id = loc[p].id /\ m.systemd = loc[p].systemd
      /\ m.pc \in Working \cup {"running"} /\ loc[p].id \in Ids
      /\ \A c : Tree(c)' = Tree(c)
      /\ \A t \in Trees : loc[p].cgroup[t] \in Ids \cup {Nobody}
  BY DEF WorkStep, ComeStep, Same, Typed, Invocations, Invocation, IdsAreKept, Begun, Tree
<1>1. IsInWhatExists(p)'
  <2> SUFFICES ASSUME NEW t \in Trees, m.cgroup[t] \in Ids
               PROVE  group'[t][m.cgroup[t]] # NoGroup
    BY <1>0 DEF IsInWhatExists
  <2>1. CASE m.cgroup[t] = loc[p].cgroup[t]
    BY <2>1 DEF IsInWhatExists, Grows
  <2>2. CASE m.cgroup[t] = loc[p].id /\ group'[t][loc[p].id] # NoGroup
    BY <2>2
  <2> QED
    BY <2>1, <2>2
<1>2. ASSUME ~loc[p].systemd, NEW c \in Controllers, c \in loc[p].setting.limits,
             c \in Handled(p)', c \notin m.warned
      PROVE  version[c] # "none" /\ m.cgroup[Tree(c)] = loc[p].id /\ c \in group'[Tree(c)][loc[p].id]
  <2>1. CASE c \in Handled(p)
    <3>1. version[c] # "none" /\ loc[p].cgroup[Tree(c)] = loc[p].id /\ c \in group[Tree(c)][loc[p].id]
      BY <1>2, <2>1 DEF LimitIsSet, InGroupOf
    <3>2. Tree(c) \in Trees
      BY <3>1, TreeIs
    <3>3. c \in group'[Tree(c)][loc[p].id]
      BY <1>0, <3>1, <3>2, NoGroupIs DEF Grows
    <3> QED
      BY <3>1, <3>2, <3>3
  <2> QED
    BY <1>2, <2>1
<1>3. m.setting.limits \subseteq Controllers
  BY <1>0 DEF Typed, Invocations, Invocation, SettingType
<1>4. LimitIsSet(p)'
  BY <1>0, <1>2, <1>3 DEF LimitIsSet, InGroupOf, Working
<1> QED
  BY <1>1, <1>4 DEF Keeps, StartStep

\* The controllers a start has left behind after the next step.
LEMMA HandledIs ==
  ASSUME NEW p \in Starts, NEW m, loc'[p] = m
  PROVE  /\ m.pc # "running" /\ loc[p].pc # "running" /\ m.at = loc[p].at =>
              Handled(p)' = Handled(p)
         /\ loc[p].at \in Controllers \ {"cpupercent"} /\ m.pc # "running" /\ m.at = Following(loc[p].at) =>
              Handled(p)' \subseteq Handled(p) \cup {loc[p].at}
         /\ loc[p].at = "cpupercent" => Handled(p)' \subseteq Handled(p) \cup {loc[p].at}
BY DEF Handled, Following, Controllers

\* The way to the next controller.
LEMMA AdvanceKeeps ==
  ASSUME NEW p \in Starts, Typed, IdsAreKept, IsInWhatExists(p), LimitIsSet(p), NEW l,
         Same(l, p), l.at = loc[p].at, loc[p].pc \in Working, Advance(p, l),
         version' = version, group' \in GroupType, Grows,
         loc[p].warned \subseteq l.warned,
         \A t \in Trees : \/ l.cgroup[t] = loc[p].cgroup[t]
                          \/ l.cgroup[t] = loc[p].id /\ group'[t][loc[p].id] # NoGroup,
         LET c == loc[p].at IN
           \/ c \in l.warned \/ c \notin loc[p].setting.limits
           \/ version[c] # "none" /\ l.cgroup[Tree(c)] = loc[p].id /\ c \in group'[Tree(c)][loc[p].id]
  PROVE  Keeps(p)
<1> DEFINE a == [l EXCEPT !.at = Following(l.at), !.pc = "mkdir"]
           b == [l EXCEPT !.pc = "running", !.at = "memory"]
<1>0. /\ a.pc = "mkdir" /\ a.at = Following(l.at) /\ a.warned = l.warned /\ a.cgroup = l.cgroup
      /\ b.pc = "running" /\ b.warned = l.warned /\ b.cgroup = l.cgroup
      /\ loc[p].at \in Controllers /\ loc[p].pc # "running"
  BY DEF Same, Invocation, Typed, Invocations, Working
<1>1. CASE l.at # "cpupercent" /\ WorkStep(p, a)
  <2>1. loc'[p] = a
    BY <1>1 DEF WorkStep, Typed, Invocations
  <2>2. Handled(p)' \subseteq Handled(p) \cup {loc[p].at}
    BY <1>0, <1>1, <2>1, HandledIs
  <2> HIDE DEF a
  <2> QED
    BY <1>0, <1>1, <2>2, MoveKeeps
<1>2. CASE l.at = "cpupercent" /\ DieStep(p)
  BY <1>2, DeadKeeps
<1>3. CASE l.at = "cpupercent" /\ ComeStep(p, b)
  <2>1. Handled(p)' \subseteq Handled(p) \cup {loc[p].at}
    BY <1>3 DEF Handled, Controllers
  <2> HIDE DEF b
  <2> QED
    BY <1>0, <1>3, <2>1, MoveKeeps
<1> QED
  BY <1>1, <1>2, <1>3, AdvanceIs

\* mkdir() makes the directory or finds it.
LEMMA LimitMkdirKeeps ==
  ASSUME NEW p \in Starts, Typed, IdsAreKept, InWhatExists, LimitsAreSet, LimitMkdir(p)
  PROVE  Keeps(p)
<1> DEFINE c == loc[p].at
           t == Tree(c)
           i == loc[p].id
           m == [loc[p] EXCEPT !.pc = "attach"]
<1>0. /\ IsInWhatExists(p) /\ LimitIsSet(p) /\ loc[p].pc = "mkdir" /\ version' = version
      /\ c \in Controllers /\ i \in Ids /\ loc[p] \in Invocation
  BY DEF InWhatExists, LimitsAreSet, LimitMkdir, Typed, Invocations, Invocation, IdsAreKept, Begun,
    Working
<1>1. CASE version[c] = "none"
  <2>1. Advance(p, Warn(p)) /\ group' = group
    BY <1>1 DEF LimitMkdir
  <2>2. /\ c \in Warn(p).warned \/ c \notin loc[p].setting.limits
        /\ loc[p].warned \subseteq Warn(p).warned /\ Warn(p).cgroup = loc[p].cgroup
    BY <1>0 DEF Warn, Invocation
  <2> QED
    BY <1>0, <2>1, <2>2, SameIs, SameGroup, AdvanceKeeps DEF Working
<1>2. CASE version[c] # "none"
  <2>1. /\ group' = [group EXCEPT ![t][i] = IF group[t][i] = NoGroup THEN {} ELSE group[t][i]]
        /\ loc' = [loc EXCEPT ![p].pc = "attach"] /\ info' = info
    BY <1>2 DEF LimitMkdir, Goto
  <2>2. t \in Trees
    BY <1>0, <1>2, TreeIs
  <2>3. group' \in GroupType /\ Grows
    BY <1>0, <2>1, <2>2, NoGroupIs DEF Typed, GroupType, Grows
  <2>4. loc' = [loc EXCEPT ![p] = m] /\ m.pc = "attach" /\ m.at = c /\ m.cgroup = loc[p].cgroup
        /\ m.warned = loc[p].warned
    BY <1>0, <2>1 DEF Invocation, Typed, Invocations
  <2>5. WorkStep(p, m)
    BY <1>0, <2>1, <2>4, SameIs DEF WorkStep, Working
  <2>6. Handled(p)' = Handled(p)
    BY <1>0, <2>4, HandledIs DEF Typed, Invocations
  <2> HIDE DEF m
  <2> QED
    BY <1>0, <1>2, <2>3, <2>4, <2>5, <2>6, MoveKeeps DEF Working
<1> QED
  BY <1>1, <1>2

\* The process attaches itself or not.
LEMMA LimitAttachKeeps ==
  ASSUME NEW p \in Starts, Typed, IdsAreKept, InWhatExists, LimitsAreSet, LimitAttach(p)
  PROVE  Keeps(p)
<1> DEFINE c == loc[p].at
           t == Tree(c)
           i == loc[p].id
           l == [loc[p] EXCEPT !.cgroup[t] = i]
           m == [l EXCEPT !.pc = "write"]
<1>0. /\ IsInWhatExists(p) /\ LimitIsSet(p) /\ loc[p].pc = "attach" /\ version' = version
      /\ c \in Controllers /\ i \in Ids /\ loc[p] \in Invocation /\ group' = group
      /\ version[c] # "none"
  BY DEF InWhatExists, LimitsAreSet, LimitIsSet, LimitAttach, Typed, Invocations, Invocation,
    IdsAreKept, Begun, Working
<1>t. t \in Trees
  BY <1>0, TreeIs
<1>1. CASE Advance(p, Warn(p))
  <2>1. /\ c \in Warn(p).warned \/ c \notin loc[p].setting.limits
        /\ loc[p].warned \subseteq Warn(p).warned /\ Warn(p).cgroup = loc[p].cgroup
    BY <1>0 DEF Warn, Invocation
  <2> QED
    BY <1>0, <1>1, <2>1, SameIs, SameGroup, AdvanceKeeps DEF Working
<1>2. CASE ~Advance(p, Warn(p))
  <2>1. /\ group[t][i] # NoGroup
        /\ IF c \in loc[p].setting.limits THEN loc' = [loc EXCEPT ![p] = m] /\ info' = info
           ELSE Advance(p, l)
    BY <1>2 DEF LimitAttach, Attachable
  <2>2. /\ l.at = c /\ l.warned = loc[p].warned /\ Same(l, p) /\ Same(m, p)
        /\ m.at = c /\ m.warned = loc[p].warned /\ m.pc = "write" /\ m.cgroup = l.cgroup
        /\ l.cgroup = [loc[p].cgroup EXCEPT ![t] = i]
    BY <1>0, <1>t, SameIs DEF Invocation
  <2>3. /\ l.cgroup[t] = i
        /\ \A t2 \in Trees : l.cgroup[t2] = loc[p].cgroup[t2]
                               \/ (l.cgroup[t2] = i /\ group'[t2][i] # NoGroup)
    BY <1>0, <1>t, <2>1, <2>2 DEF Invocation
  <2>4. CASE c \in loc[p].setting.limits
    <3>1. WorkStep(p, m)
      BY <1>0, <2>1, <2>2, <2>4 DEF WorkStep, Working
    <3>2. Handled(p)' = Handled(p)
      BY <1>0, <2>1, <2>2, <2>4, HandledIs DEF Typed, Invocations
    <3>3. /\ m.warned = loc[p].warned /\ m.pc = "write" /\ m.at = c /\ m.cgroup[Tree(m.at)] = i
          /\ \A t2 \in Trees : m.cgroup[t2] = loc[p].cgroup[t2]
                                 \/ (m.cgroup[t2] = i /\ group'[t2][i] # NoGroup)
      BY <2>2, <2>3
    <3> HIDE DEF m, l, t
    <3> QED
      BY <1>0, <3>1, <3>2, <3>3, SameGroup, MoveKeeps DEF Working
  <2>5. CASE c \notin loc[p].setting.limits
    <3>1. Advance(p, l)
      BY <2>1, <2>5
    <3> HIDE DEF l
    <3> QED
      BY <1>0, <2>2, <2>3, <2>5, <3>1, SameGroup, AdvanceKeeps DEF Working
  <2> QED
    BY <2>4, <2>5
<1> QED
  BY <1>1, <1>2

\* The limit is written or not.
LEMMA LimitWriteKeeps ==
  ASSUME NEW p \in Starts, Typed, IdsAreKept, InWhatExists, LimitsAreSet, LimitWrite(p)
  PROVE  Keeps(p)
<1> DEFINE c == loc[p].at
           t == Tree(c)
           i == loc[p].id
<1>0. /\ IsInWhatExists(p) /\ LimitIsSet(p) /\ loc[p].pc = "write" /\ version' = version
      /\ c \in Controllers /\ i \in Ids /\ loc[p] \in Invocation
      /\ version[c] # "none" /\ loc[p].cgroup[t] = i
  BY DEF InWhatExists, LimitsAreSet, LimitIsSet, InGroupOf, LimitWrite, Typed, Invocations,
    Invocation, IdsAreKept, Begun, Working
<1>t. t \in Trees
  BY <1>0, TreeIs
<1>g. group[t][i] # NoGroup
  BY <1>0, <1>t DEF IsInWhatExists
<1>l. /\ Limited(p) = [group EXCEPT ![t][i] = group[t][i] \cup {c}]
      /\ Limited(p) \in GroupType /\ c \in Limited(p)[t][i]
      /\ (group' = Limited(p) => Grows)
  <2>1. group \in GroupType
    BY DEF Typed
  <2>2. Limited(p) = [group EXCEPT ![t][i] = group[t][i] \cup {c}]
    BY DEF Limited
  <2>3. group[t][i] \in SUBSET Controllers
    BY <1>0, <1>t, <1>g, <2>1 DEF GroupType
  <2> HIDE DEF c, t, i
  <2>4. Limited(p) \in GroupType /\ c \in Limited(p)[t][i]
    <3>1. group[t][i] \cup {c} \in SUBSET Controllers
      BY <1>0, <2>3
    <3> HIDE DEF Limited
    <3>2. Limited(p) = [group EXCEPT ![t] = [group[t] EXCEPT ![i] = group[t][i] \cup {c}]]
      BY <2>2
    <3>3. [group[t] EXCEPT ![i] = group[t][i] \cup {c}] \in [Ids -> (SUBSET Controllers) \cup {NoGroup}]
      BY <1>t, <2>1, <3>1 DEF GroupType
    <3>4. Limited(p) \in GroupType
      BY <1>t, <2>1, <3>2, <3>3 DEF GroupType
    <3>5. Limited(p)[t][i] = group[t][i] \cup {c}
      BY <1>0, <1>t, <2>1, <3>2 DEF GroupType
    <3> QED
      BY <3>4, <3>5
  <2>5. group' = Limited(p) => Grows
    BY <1>0, <1>t, <2>1, <2>2, <2>3, NoGroupIs DEF GroupType, Grows
  <2> QED
    BY <2>2, <2>4, <2>5
<1>1. CASE Malformed(p)
  <2>1. loc' = Kill({p}) /\ group' = group /\ info' = info
    BY <1>1 DEF LimitWrite
  <2> QED
    BY <1>0, <2>1, SameGroup, DeadKeeps DEF DieStep, Begun, Working
<1>2. CASE Advance(p, Warn(p)) /\ group' \in {group, Limited(p)}
  <2>1. /\ c \in Warn(p).warned \/ c \notin loc[p].setting.limits
        /\ loc[p].warned \subseteq Warn(p).warned /\ Warn(p).cgroup = loc[p].cgroup
    BY <1>0 DEF Warn, Invocation
  <2>2. group' \in GroupType /\ Grows
    BY <1>2, <1>l, SameGroup
  <2> QED
    BY <1>0, <1>2, <2>1, <2>2, SameIs, AdvanceKeeps DEF Working
<1>3. CASE Advance(p, loc[p]) /\ group' = Limited(p)
  BY <1>0, <1>3, <1>l, SameIs, AdvanceKeeps DEF Working
<1> QED
  BY <1>1, <1>2, <1>3 DEF LimitWrite

\* systemd mode, in which ruri itself sets no limits.
LEMMA Cgroup2Keeps ==
  ASSUME NEW p \in Starts, Typed, IdsAreKept, InWhatExists, LimitsAreSet,
         SetupCgroup2(p) \/ JoinCgroup2(p)
  PROVE  Keeps(p)
<1> DEFINE i == loc[p].id
<1>0. /\ IsInWhatExists(p) /\ loc[p].systemd /\ loc[p].pc \in {"setup2", "join2"}
      /\ i \in Ids /\ loc[p] \in Invocation /\ version' = version /\ "v2" \in Trees
  BY DEF InWhatExists, LimitsAreSet, LimitIsSet, SetupCgroup2, JoinCgroup2, Typed, Invocations,
    Invocation, IdsAreKept, Begun, Trees
<1>1. group' \in GroupType /\ Grows
  <2>1. CASE group' = group
    BY <2>1, SameGroup
  <2>2. CASE group["v2"][i] = NoGroup /\ group' = [group EXCEPT !["v2"][i] = {}]
    BY <1>0, <2>2, NoGroupIs DEF Typed, GroupType, Grows
  <2> QED
    BY <2>1, <2>2 DEF SetupCgroup2, JoinCgroup2
<1>2. ASSUME NEW l \in {loc[p], Joined(p)}, Up(p, l), group'["v2"][i] # NoGroup
      PROVE  Keeps(p)
  <2> DEFINE m == [l EXCEPT !.pc = "running", !.at = "memory"]
  <2>0. /\ Same(l, p) /\ l \in Invocation
        /\ \A t \in Trees : l.cgroup[t] = loc[p].cgroup[t] \/ (t = "v2" /\ l.cgroup[t] = i)
    <3>1. CASE l = loc[p]
      BY <1>0, <3>1, SameIs
    <3>2. CASE l = Joined(p)
      <4>1. Same(l, p)
        BY <3>2, SameIs
      <4>2. \A t \in Trees : l.cgroup[t] = loc[p].cgroup[t] \/ (t = "v2" /\ l.cgroup[t] = i)
        BY <1>0, <3>2 DEF Joined, Invocation
      <4> QED
        BY <4>1, <4>2 DEF Same
    <3> QED
      BY <1>2, <3>1, <3>2
  <2> HIDE DEF i
  <2>1. DieStep(p) \/ ComeStep(p, m)
    BY <1>0, <1>2, <2>0, UpIs DEF Begun, Working
  <2>2. ASSUME ComeStep(p, m) PROVE Keeps(p)
    <3>1. loc'[p] = m /\ m.systemd = loc[p].systemd /\ m.pc = "running" /\ m.cgroup = l.cgroup
      BY <2>0, <2>2 DEF ComeStep, Typed, Invocations, Invocation, Same
    <3> HIDE DEF m
    <3>3. IsInWhatExists(p)'
      BY <1>1, <1>2, <3>1, <2>0, <1>0 DEF IsInWhatExists, Grows
    <3>4. LimitIsSet(p)'
      BY <1>0, <3>1 DEF LimitIsSet
    <3> QED
      BY <1>0, <1>1, <2>2, <3>3, <3>4 DEF Keeps, StartStep
  <2> QED
    BY <1>0, <1>1, <2>1, <2>2, DeadKeeps
<1>3. CASE loc' = Kill({p}) /\ info' = info
  BY <1>0, <1>1, <1>3, DeadKeeps DEF DieStep, Begun
<1>4. \/ UpInCgroup2(p) /\ group'["v2"][i] # NoGroup
      \/ loc' = Kill({p}) /\ info' = info
  <2>1. CASE SetupCgroup2(p)
    BY <1>0, <2>1, NoGroupIs DEF SetupCgroup2, Typed, GroupType
  <2>2. CASE JoinCgroup2(p)
    BY <2>2 DEF JoinCgroup2
  <2> QED
    BY <2>1, <2>2
<1> QED
  BY <1>2, <1>3, <1>4 DEF UpInCgroup2

\* Every step of a start but the first.
StartSteps(p) ==
  LimitMkdir(p) \/ LimitAttach(p) \/ LimitWrite(p) \/ SetupCgroup2(p) \/ JoinCgroup2(p) \/ Exit(p)
LEMMA StartKeeps ==
  ASSUME NEW p \in Starts, Typed, IdsAreKept, InWhatExists, LimitsAreSet, StartSteps(p)
  PROVE  Keeps(p)
<1>1. CASE Exit(p)
  BY <1>1, SameGroup, DeadKeeps DEF Exit, DieStep, Running, Begun
<1> QED
  BY <1>1, LimitMkdirKeeps, LimitAttachKeeps, LimitWriteKeeps, Cgroup2Keeps DEF StartSteps

-----------------------------------------------------------------------------
(* Who leads whom, and what an umount knows *)

\* Who runs or is gone is left alone or killed.
Settles ==
  \A q \in Starts : loc[q].pc \in {"running", "gone"} => loc'[q] = loc[q] \/ loc'[q] = Gone
UmountsStay == \A u \in Umounts : loc'[u] = loc[u]

\* A start does its work, and the others stay or are killed.
LEMMA StartShape ==
  ASSUME NEW p \in Starts, Typed, StartStep(p)
  PROVE  /\ Settles /\ UmountsStay
         /\ \A q \in Starts \ {p} : loc'[q] = loc[q] \/ loc'[q] = Gone
<1>1. CASE DieStep(p)
  <2>1. /\ \A u \in Umounts : loc'[u] = loc[u]
        /\ \A q \in Starts : loc'[q] = loc[q] \/ loc'[q] = Gone
    BY <1>1, KillIs DEF DieStep
  <2> QED
    BY <2>1 DEF Settles, UmountsStay
<1>2. ASSUME NEW m, WorkStep(p, m) \/ ComeStep(p, m)
      PROVE  /\ Settles /\ UmountsStay
             /\ \A q \in Starts \ {p} : loc'[q] = loc[q] \/ loc'[q] = Gone
  <2>1. loc' = [loc EXCEPT ![p] = m] /\ loc[p].pc \notin {"running", "gone"}
    BY <1>2 DEF WorkStep, ComeStep, Begun, Working
  <2>2. \A q \in Invocations \ {p} : loc'[q] = loc[q]
    BY <2>1 DEF Typed
  <2> QED
    BY <2>1, <2>2, StartsAssumption DEF Settles, UmountsStay, Invocations
<1> QED
  BY <1>1, <1>2 DEF StartStep

\* The first process of a container stays so.
LEMMA LeadsStays ==
  ASSUME Typed, Settles, NEW q, NEW id, NEW d, LeadsIn(q, id, d) \/ Leads(q, id)
  PROVE  Leads(q, id)' /\ (LeadsIn(q, id, d) => LeadsIn(q, id, d)')
BY IdleIsTyped DEF Settles, Leads, LeadsIn, Dir

\* The first process of a container that runs is in its own namespaces.
LEMMA LeaderIs ==
  ASSUME Typed, LeadersLead, NEW p \in Running, loc[p].by # "none"
  PROVE  /\ loc[p].by \in Running /\ loc[loc[p].by].by = loc[p].by
         /\ loc[loc[p].by].id = loc[p].id
<1>1. loc[p].by \in Running
  BY DEF LeadersLead
<1>2. CASE loc[p].by = p
  BY <1>1, <1>2
<1>3. CASE loc[p].by # p
  BY <1>1, <1>3 DEF LeadersLead, Leads, Running, Begun
<1> QED
  BY <1>1, <1>2, <1>3

\* A kill takes whole containers.
LEMMA KillTakesAll ==
  ASSUME Typed, LeadersLead, NEW s, s \subseteq Starts, NEW p \in Running, loc[p].by # "none",
         Kill(s)[p] # Gone
  PROVE  Kill(s)[loc[p].by] = loc[loc[p].by] /\ Kill(s)[p] = loc[p]
<1>1. loc[p].by \in Running /\ loc[loc[p].by].by = loc[p].by
  BY LeaderIs
<1>2. p \in Starts /\ loc[p].by \in Starts
  BY <1>1 DEF Running
<1>3. Kill(s)[p] = loc[p] /\ loc[p].by \notin s
  BY <1>2, KillIs
<1>4. Kill(s)[loc[p].by] = loc[loc[p].by]
  BY <1>1, <1>2, <1>3, KillIs
<1> QED
  BY <1>3, <1>4

\* A root that is detached stays so: only a process that is not there yet calls
\* chroot(2).
RootsStay ==
  \A q \in Starts : loc[q].pc \in {"running", "gone"} /\ root[q] = "detached" =>
    root'[q] = "detached"
RootsKeep == RootsTyped' /\ RootsStay
LEMMA SameRoots ==
  ASSUME RootsTyped, root' = root
  PROVE  RootsKeep
BY DEF RootsTyped, RootsStay, RootsKeep
\* The steps of a start that end ruri_set_limit() and what comes before it.
LEMMA UpRoots ==
  ASSUME NEW p \in Starts, RootsTyped, loc[p].pc \in Begun \ {"running"}, NEW l, Up(p, l)
  PROVE  RootsKeep
<1>1. CASE root' = root
  BY <1>1, SameRoots
<1>2. CASE root' = [root EXCEPT ![p] = IF Dir(p) \in bound THEN "bind" ELSE "dir"]
  BY <1>2 DEF RootsTyped, RootsStay, RootsKeep, Begun, Working
<1> QED
  BY <1>1, <1>2 DEF Up, Chroot, mounts
\* All the steps of a start.
LEMMA StartRoots ==
  ASSUME NEW p \in Starts, RootsTyped, StartSteps(p)
  PROVE  RootsKeep
<1>0. \/ root' = root
      \/ loc[p].pc \in Begun \ {"running"} /\ \E l : Up(p, l)
  <2>1. ASSUME NEW l, Advance(p, l)
        PROVE  root' = root \/ Up(p, l)
    BY <2>1 DEF Advance, mounts
  <2>2. ASSUME LimitMkdir(p) \/ LimitAttach(p) \/ LimitWrite(p)
        PROVE  root' = root \/ \E l : Advance(p, l)
    BY <2>2 DEF LimitMkdir, LimitAttach, LimitWrite, mounts
  <2>3. LimitMkdir(p) \/ LimitAttach(p) \/ LimitWrite(p) => loc[p].pc \in Begun \ {"running"}
    BY DEF LimitMkdir, LimitAttach, LimitWrite, Begun, Working
  <2>4. SetupCgroup2(p) \/ JoinCgroup2(p) =>
          \/ root' = root
          \/ loc[p].pc \in Begun \ {"running"} /\ \E l : Up(p, l)
    BY DEF SetupCgroup2, JoinCgroup2, UpInCgroup2, Begun, mounts
  <2> QED
    BY <2>1, <2>2, <2>3, <2>4 DEF StartSteps, Exit, mounts
<1> QED
  BY <1>0, SameRoots, UpRoots

\* What an umount has read stays true as long as it does nothing itself.
KnowsOf(u) ==
  /\ loc[u].pc \in {"umount", "kill", "scan"} =>
    /\ loc[u].live => loc[u].id \in Ids /\ LeadsIn(loc[u].by, loc[u].id, Dir(u))
    /\ loc[u].id # Nobody => loc[u].live \/ loc[u].fresh
    /\ \A p \in loc[u].seen :
         \/ loc[p].pc = "gone"
         \/ /\ p \in Running /\ Dir(p) = Dir(u)
            /\ loc[p].by = "none" \/ (loc[u].live /\ loc[p].by = loc[u].by)
  /\ loc[u].pc = "done" => \A p \in loc[u].seen :
       loc[p].pc = "gone" \/ (p \in Running /\ root[p] = "detached")
\* The invariant, umount by umount.
LEMMA KnowsIs ==
  /\ UmountKnows /\ LeftAre <=> \A u \in Umounts : KnowsOf(u)
  /\ (UmountKnows /\ LeftAre)' <=> \A u \in Umounts : KnowsOf(u)'
BY DEF UmountKnows, LeftAre, KnowsOf
\* While the umount waits, or turns from the mounts to cgroup.kill or to /proc, that
\* stays true.
LEMMA KnowsStays ==
  ASSUME Typed, Settles, RootsStay, NEW u \in Umounts, KnowsOf(u),
         \/ loc'[u] = loc[u]
         \/ loc[u].pc = "umount" /\ loc'[u] = [loc[u] EXCEPT !.pc = "kill"]
         \/ loc[u].pc = "kill" /\ loc'[u] = [loc[u] EXCEPT !.pc = "scan"]
  PROVE  KnowsOf(u)'
<1>1. /\ loc'[u].live = loc[u].live /\ loc'[u].id = loc[u].id /\ loc'[u].by = loc[u].by
      /\ loc'[u].fresh = loc[u].fresh /\ loc'[u].seen = loc[u].seen /\ Dir(u)' = Dir(u)
      /\ loc[u].seen \subseteq Starts
      /\ loc'[u].pc \in {"umount", "kill", "scan"} => loc[u].pc \in {"umount", "kill", "scan"}
      /\ loc'[u].pc = "done" => loc[u].pc = "done"
  <2>1. loc[u] \in Invocation
    BY DEF Typed, Invocations
  <2> QED
    BY <2>1 DEF Invocation, Dir
<1>2. ASSUME loc[u].pc \in {"umount", "kill", "scan"}, loc[u].live
      PROVE  /\ loc[u].id \in Ids
             /\ Leads(loc[u].by, loc[u].id)
             /\ loc[loc[u].by].pc = "running" => Dir(loc[u].by) = Dir(u)
             /\ loc[u].by \in Starts /\ loc'[loc[u].by].pc \in {"running", "gone"}
             /\ loc'[loc[u].by].pc = "running" =>
                  /\ loc'[loc[u].by].by = loc[u].by /\ loc'[loc[u].by].id = loc[u].id
                  /\ loc'[loc[u].by].setting.dir = loc[u].setting.dir
  BY <1>2, IdleIsTyped DEF KnowsOf, LeadsIn, Leads, Dir, Settles
<1>3. ASSUME NEW p \in loc[u].seen, loc[p].pc = "gone"
      PROVE  loc'[p].pc = "gone"
  BY <1>1, <1>3, IdleIsTyped DEF Settles
<1>4. ASSUME NEW p \in loc[u].seen, p \in Running, loc'[p].pc # "gone"
      PROVE  loc'[p] = loc[p] /\ p \in Running'
  BY <1>1, <1>4, IdleIsTyped DEF Settles, Running
<1>5. ASSUME loc'[u].pc \in {"umount", "kill", "scan"}
      PROVE  /\ loc'[u].live => loc'[u].id \in Ids /\ LeadsIn(loc[u].by, loc[u].id, Dir(u))'
             /\ loc'[u].id # Nobody => loc'[u].live \/ loc'[u].fresh
             /\ \A p \in loc'[u].seen :
                  \/ loc'[p].pc = "gone"
                  \/ /\ p \in Running' /\ Dir(p)' = Dir(u)'
                     /\ loc'[p].by = "none" \/ (loc'[u].live /\ loc'[p].by = loc'[u].by)
  <2>1. loc'[u].live => loc'[u].id \in Ids /\ LeadsIn(loc[u].by, loc[u].id, Dir(u))'
    BY <1>1, <1>2, <1>5 DEF LeadsIn, Leads, Dir
  <2>2. loc'[u].id # Nobody => loc'[u].live \/ loc'[u].fresh
    BY <1>1, <1>5 DEF KnowsOf
  <2>3. ASSUME NEW p \in loc[u].seen, loc'[p].pc # "gone"
        PROVE  /\ p \in Running' /\ Dir(p)' = Dir(u)'
               /\ loc'[p].by = "none" \/ (loc'[u].live /\ loc'[p].by = loc'[u].by)
    <3>1. p \in Running /\ Dir(p) = Dir(u) /\ (loc[p].by = "none" \/ (loc[u].live /\ loc[p].by = loc[u].by))
      BY <1>1, <1>3, <1>5, <2>3 DEF KnowsOf
    <3> QED
      BY <1>1, <1>4, <2>3, <3>1 DEF Dir
  <2> QED
    BY <1>1, <2>1, <2>2, <2>3
<1>6. ASSUME loc'[u].pc = "done", NEW p \in loc'[u].seen
      PROVE  loc'[p].pc = "gone" \/ (p \in Running' /\ root'[p] = "detached")
  <2>1. p \in loc[u].seen /\ (loc[p].pc = "gone" \/ (p \in Running /\ root[p] = "detached"))
    BY <1>1, <1>6 DEF KnowsOf
  <2> QED
    BY <1>3, <1>4, <2>1 DEF RootsStay, Running
<1> QED
  BY <1>5, <1>6 DEF KnowsOf

-----------------------------------------------------------------------------
(* The steps of a start *)

\* A start that is left alone, with its directories, or killed keeps what it has.
LEMMA OthersKeep ==
  ASSUME Typed, IdsAreKept, version' = version, NEW q \in Starts, IsInWhatExists(q), LimitIsSet(q),
         \/ loc'[q] = Gone
         \/ /\ loc'[q] = loc[q]
            /\ \A t \in Trees : LET i == loc[q].cgroup[t] IN
                 i \in Ids => group'[t][i] # NoGroup /\ group[t][i] \subseteq group'[t][i]
  PROVE  IsInWhatExists(q)' /\ LimitIsSet(q)'
<1>1. CASE loc'[q] = Gone
  BY <1>1, IdleIsTyped, MaxIdAssumption DEF IsInWhatExists, LimitIsSet, Working
<1>2. CASE /\ loc'[q] = loc[q]
           /\ \A t \in Trees : LET i == loc[q].cgroup[t] IN
                i \in Ids => group'[t][i] # NoGroup /\ group[t][i] \subseteq group'[t][i]
  <2>1. IsInWhatExists(q)'
    BY <1>2 DEF IsInWhatExists
  <2>2. Handled(q)' = Handled(q)
    BY <1>2 DEF Handled
  <2>3. \A c : Tree(c)' = Tree(c) /\ (InGroupOf(q, c)' <=> InGroupOf(q, c))
    BY <1>2 DEF Tree, InGroupOf
  <2>4. ASSUME NEW c \in Controllers, InGroupOf(q, c), c \in group[Tree(c)][loc[q].id],
               loc[q].pc \in Begun
        PROVE  c \in group'[Tree(c)][loc[q].id]
    <3>1. Tree(c) \in Trees /\ loc[q].cgroup[Tree(c)] = loc[q].id /\ loc[q].id \in Ids
      BY <2>4, TreeIs DEF InGroupOf, IdsAreKept
    <3> QED
      BY <1>2, <2>4, <3>1
  <2>5. loc[q].setting.limits \subseteq Controllers /\ loc[q].at \in Controllers
    BY DEF Typed, Invocations, Invocation, SettingType
  <2>6. ASSUME loc[q].pc \in Working \cup {"running"}, ~loc[q].systemd,
               NEW c \in (loc[q].setting.limits \cap Handled(q)) \ loc[q].warned
        PROVE  InGroupOf(q, c)' /\ c \in group'[Tree(c)'][loc[q].id]
    BY <2>3, <2>4, <2>5, <2>6 DEF LimitIsSet, Begun
  <2>7. /\ loc[q].pc = "attach" => version'[loc[q].at] # "none"
        /\ loc[q].pc = "write" => InGroupOf(q, loc[q].at)'
        /\ loc[q].pc \in {"setup2", "join2"} => loc[q].systemd
    BY <1>2 DEF LimitIsSet, InGroupOf, Tree
  <2>8. LimitIsSet(q)'
    BY <1>2, <2>2, <2>3, <2>6, <2>7 DEF LimitIsSet, InGroupOf, Tree
  <2> QED
    BY <2>1, <2>8
<1> QED
  BY <1>1, <1>2

\* The state keeps its types, and each start its id.
LEMMA StartTypes ==
  ASSUME NEW p \in Starts, Typed, IdsAreKept, StartStep(p), version' = version, group' \in GroupType
  PROVE  Typed' /\ IdsAreKept'
<1>1. CASE DieStep(p)
  <2>1. /\ loc' \in [Invocations -> Invocation]
        /\ \A u \in Umounts : loc'[u] = loc[u]
        /\ \A q \in Starts : loc'[q] = loc[q] \/ loc'[q] = Gone
        /\ info' = info
    BY <1>1, KillIs DEF DieStep
  <2> QED
    BY <2>1, IdleIsTyped DEF Typed, IdsAreKept, Begun, Working
<1>2. ASSUME NEW m, WorkStep(p, m) \/ ComeStep(p, m)
      PROVE  Typed' /\ IdsAreKept'
  <2>1. /\ loc' = [loc EXCEPT ![p] = m] /\ m \in Invocation /\ m.id = loc[p].id
        /\ m.pc \in Begun /\ m.id \in Ids
        /\ \A t \in Trees : m.cgroup[t] \in {loc[p].cgroup[t], loc[p].id, Nobody}
    BY <1>2 DEF WorkStep, ComeStep, Same, IdsAreKept, Begun, Working
  <2>2. info' = info \/ info' = [info EXCEPT ![Dir(p)] = [id |-> m.id, by |-> p, systemd |-> m.systemd]]
    BY <1>2 DEF WorkStep, ComeStep
  <2>3. [id |-> m.id, by |-> p, systemd |-> m.systemd] \in InfoType /\ Dir(p) \in Dirs
    BY <2>1 DEF InfoType, Invocation, Typed, Invocations, SettingType, Dir
  <2>4. /\ loc' \in [Invocations -> Invocation] /\ loc'[p] = m
        /\ \A q \in Invocations \ {p} : loc'[q] = loc[q]
        /\ p \notin Umounts
    BY <2>1, StartsAssumption DEF Typed, Invocations
  <2>5. Typed'
    BY <2>1, <2>2, <2>3, <2>4 DEF Typed, Invocations
  <2>6. \A d \in Dirs : info'[d] # NoInfo => info'[d].id \in Ids
    BY <2>1, <2>2, <2>3 DEF IdsAreKept, Typed
  <2>7. \A q \in Starts : /\ loc'[q].pc \in Begun => loc'[q].id \in Ids
                          /\ \A t \in Trees : loc'[q].cgroup[t] \in {Nobody, loc'[q].id}
    BY <2>1, <2>4 DEF IdsAreKept, Invocations
  <2> QED
    BY <2>5, <2>6, <2>7 DEF IdsAreKept
<1> QED
  BY <1>1, <1>2 DEF StartStep

\* The first processes of containers after a step.
LedBy(q, id, d) ==
  /\ q \in Starts /\ loc'[q].pc \in {"running", "gone"}
  /\ loc'[q].pc = "running" => loc'[q].by = q /\ loc'[q].id = id /\ loc'[q].setting.dir = d
\* That is what the invariant wants of them.
LEMMA LeadersLeadThen ==
  ASSUME \A d \in Dirs : info'[d].by # "none" => LedBy(info'[d].by, info'[d].id, d),
         \A r \in Starts : loc'[r].pc \in Begun /\ loc'[r].by \notin {"none", r} =>
           LedBy(loc'[r].by, loc'[r].id, loc'[loc'[r].by].setting.dir),
         \A r \in Running' : loc'[r].by # "none" => loc'[r].by \in Running'
  PROVE  LeadersLead'
BY DEF LeadersLead, LeadsIn, Leads, LedBy, Dir

\* Containers keep their first processes.
LEMMA StartLeads ==
  ASSUME NEW p \in Starts, Typed, IdsAreKept, LeadersLead, StartStep(p)
  PROVE  LeadersLead'
<1>s. Settles /\ \A q \in Starts \ {p} : loc'[q] = loc[q] \/ loc'[q] = Gone
  BY StartShape
<1>k. \A q \in Starts : loc[q].pc \in {"running", "gone"} =>
        /\ loc'[q].pc \in {"running", "gone"}
        /\ loc'[q].pc = "running" => loc[q].pc = "running" /\ loc'[q] = loc[q]
  BY <1>s, IdleIsTyped DEF Settles
<1>g. Gone.pc \notin Begun /\ Gone.pc # "running"
  BY IdleIsTyped DEF Begun, Working
<1>1. CASE DieStep(p)
  <2>1. info' = info /\ loc' = Kill({p}) /\ \A q \in Starts : loc'[q] = loc[q] \/ loc'[q] = Gone
    BY <1>1, KillIs DEF DieStep
  <2>2. ASSUME NEW d \in Dirs, info'[d].by # "none"
        PROVE  LedBy(info'[d].by, info'[d].id, d)
    <3>1. LeadsIn(info[d].by, info[d].id, d)
      BY <2>1, <2>2 DEF LeadersLead
    <3> QED
      BY <1>k, <2>1, <3>1 DEF LeadsIn, Leads, LedBy, Dir
  <2>3. ASSUME NEW r \in Starts, loc'[r].pc \in Begun, loc'[r].by \notin {"none", r}
        PROVE  LedBy(loc'[r].by, loc'[r].id, loc'[loc'[r].by].setting.dir)
    <3>1. loc'[r] = loc[r] /\ Leads(loc[r].by, loc[r].id)
      BY <1>g, <2>1, <2>3 DEF LeadersLead
    <3> QED
      BY <1>k, <3>1 DEF Leads, LedBy
  <2>4. ASSUME NEW r \in Running', loc'[r].by # "none"
        PROVE  loc'[r].by \in Running'
    <3>1. r \in Running /\ loc'[r] = loc[r] /\ Kill({p})[r] # Gone
      BY <1>g, <2>1, <2>4 DEF Running
    <3>2. loc'[loc[r].by] = loc[loc[r].by]
      BY <2>1, <2>4, <3>1, KillTakesAll
    <3> QED
      BY <2>4, <3>1, <3>2 DEF LeadersLead, Running
  <2> QED
    BY <2>2, <2>3, <2>4, LeadersLeadThen
<1>2. ASSUME NEW m, WorkStep(p, m) \/ ComeStep(p, m)
      PROVE  LeadersLead'
  <2>1. /\ loc'[p] = m /\ m.id = loc[p].id /\ m.by = loc[p].by /\ m.setting = loc[p].setting
        /\ loc[p].pc \in Begun \ {"running"} /\ Dir(p) \in Dirs
        /\ \A q \in Starts \ {p} : loc'[q] = loc[q]
    BY <1>2 DEF WorkStep, ComeStep, Same, Begun, Working, Typed, Invocations, Invocation,
      SettingType, Dir
  <2>2. ASSUME NEW d \in Dirs, info'[d].by # "none"
        PROVE  LedBy(info'[d].by, info'[d].id, d)
    <3>1. CASE info'[d] = info[d]
      <4>1. LeadsIn(info[d].by, info[d].id, d)
        BY <2>2, <3>1 DEF LeadersLead
      <4> QED
        BY <1>k, <3>1, <4>1 DEF LeadsIn, Leads, LedBy, Dir
    <3>2. CASE /\ ComeStep(p, m) /\ loc[p].by = p /\ d = Dir(p)
               /\ info'[d] = [id |-> m.id, by |-> p, systemd |-> m.systemd]
      BY <2>1, <3>2 DEF LedBy, Dir, ComeStep
    <3> QED
      BY <1>2, <2>1, <3>1, <3>2 DEF WorkStep, ComeStep, Typed
  <2>3. ASSUME NEW r \in Starts, loc'[r].pc \in Begun, loc'[r].by \notin {"none", r}
        PROVE  LedBy(loc'[r].by, loc'[r].id, loc'[loc'[r].by].setting.dir)
    <3>1. loc'[r].by = loc[r].by /\ loc'[r].id = loc[r].id /\ loc[r].pc \in Begun
      BY <2>1, <2>3
    <3>2. Leads(loc[r].by, loc[r].id)
      BY <2>3, <3>1 DEF LeadersLead
    <3> QED
      BY <1>k, <3>1, <3>2 DEF Leads, LedBy
  <2>4. ASSUME NEW r \in Running', loc'[r].by # "none"
        PROVE  loc'[r].by \in Running'
    <3>1. CASE r # p
      <4>1. r \in Running /\ loc'[r] = loc[r] /\ loc[r].by \in Running
        BY <2>1, <2>4, <3>1 DEF Running, LeadersLead
      <4>2. loc[r].by # p
        BY <2>1, <4>1 DEF Running
      <4> QED
        BY <2>1, <4>1, <4>2 DEF Running
    <3>2. CASE r = p
      <4>1. m.pc = "running" /\ ComeStep(p, m)
        BY <1>2, <2>1, <2>4, <3>2 DEF Running, WorkStep, Working
      <4>2. CASE m.by = p
        BY <2>1, <2>4, <3>2, <4>2 DEF Running
      <4>3. CASE m.by # p
        <5>1. Leads(loc[p].by, loc[p].id) /\ ~Late(p)
          BY <2>1, <2>4, <3>2, <4>1, <4>3 DEF LeadersLead, ComeStep
        <5> QED
          BY <2>1, <3>2, <4>3, <5>1 DEF Leads, Late, Running
      <4> QED
        BY <4>2, <4>3
    <3> QED
      BY <3>1, <3>2
  <2> QED
    BY <2>2, <2>3, <2>4, LeadersLeadThen
<1> QED
  BY <1>1, <1>2 DEF StartStep

\* All of the invariant over a step of a start.
LEMMA StartStepKeeps ==
  ASSUME NEW p \in Starts, IInv, StartSteps(p)
  PROVE  IInv'
<1>0. Typed /\ RootsTyped /\ IdsAreKept /\ InWhatExists /\ LeadersLead /\ LimitsAreSet
      /\ UmountKnows /\ LeftAre
  BY DEF IInv
<1>1. Keeps(p)
  BY <1>0, StartKeeps
<1>2. Settles /\ UmountsStay /\ (\A q \in Starts \ {p} : loc'[q] = loc[q] \/ loc'[q] = Gone)
      /\ version' = version /\ Grows
  BY <1>0, <1>1, StartShape DEF Keeps
<1>3. Typed' /\ IdsAreKept' /\ LeadersLead'
  BY <1>0, <1>1, StartTypes, StartLeads DEF Keeps
<1>4. \A q \in Starts : IsInWhatExists(q)' /\ LimitIsSet(q)'
  <2>1. ASSUME NEW q \in Starts \ {p} PROVE IsInWhatExists(q)' /\ LimitIsSet(q)'
    <3>1. IsInWhatExists(q) /\ LimitIsSet(q)
      BY <1>0 DEF InWhatExists, LimitsAreSet
    <3>2. \A t \in Trees : LET i == loc[q].cgroup[t] IN
            i \in Ids => group'[t][i] # NoGroup /\ group[t][i] \subseteq group'[t][i]
      BY <1>2, <3>1 DEF IsInWhatExists, Grows
    <3> QED
      BY <1>0, <1>2, <3>1, <3>2, OthersKeep
  <2> QED
    BY <1>1, <2>1 DEF Keeps
<1>r. RootsKeep
  BY <1>0, StartRoots
<1>5. \A u \in Umounts : KnowsOf(u)'
  BY <1>0, <1>2, <1>r, KnowsIs, KnowsStays DEF UmountsStay, RootsKeep
<1> QED
  BY <1>3, <1>4, <1>5, <1>r, KnowsIs DEF IInv, InWhatExists, LimitsAreSet, RootsKeep

\* What a start is when it begins.
LEMMA BeginIs ==
  ASSUME NEW p \in Starts, NEW s \in Settings, NEW now \in Ids, IInv, Begin(p, s, now)
  PROVE  \E b \in Invocation :
           /\ loc' = [loc EXCEPT ![p] = b] /\ loc[p].pc = "idle"
           /\ b.pc \in {"mkdir", "setup2", "join2"} /\ b.id \in Ids /\ b.at = "memory"
           /\ \A t \in Trees : b.cgroup[t] = Nobody
           /\ b.pc # "mkdir" => b.systemd
           /\ b.by \notin {"none", p} => Leads(b.by, b.id)
           /\ \E i \in InfoType : /\ info' = [info EXCEPT ![s.dir] = i]
                                  /\ i = info[s.dir] \/ i = NoInfo \/ (i.id \in Ids /\ i.by = "none")
           /\ version' = version /\ group' = group /\ root' = root
<1> DEFINE d    == s.dir
           ns   == s.enable_unshare \/ Live(d)
           join == IF ns THEN Live(d) ELSE d \in mounted
           old  == join /\ info[d] # NoInfo
           sys  == IF join THEN info[d].systemd ELSE s.systemd_mode
           b    == [Idle EXCEPT !.setting = s,
                      !.id = IF old THEN info[d].id ELSE now,
                      !.by = IF ~ns THEN "none" ELSE IF join THEN info[d].by ELSE p,
                      !.systemd = ns /\ sys,
                      !.pc = IF ~(ns /\ sys) THEN "mkdir" ELSE IF join THEN "join2" ELSE "setup2"]
           i    == IF join THEN info[d] ELSE IF ns THEN NoInfo
                   ELSE [id |-> now, by |-> "none", systemd |-> FALSE]
<1>0. Typed /\ IdsAreKept /\ LeadersLead /\ d \in Dirs /\ s \in SettingType /\ info[d] \in InfoType
  BY SettingsAssumption DEF IInv, SettingType, Typed
<1>1. /\ loc[p].pc = "idle" /\ loc' = [loc EXCEPT ![p] = b] /\ info' = [info EXCEPT ![d] = i]
      /\ version' = version /\ group' = group /\ root' = root
  BY DEF Begin
<1>2. old => info[d].id \in Ids
  <2>1. CASE ns
    BY <1>0, <2>1, StartsAssumption DEF Live, NoInfo, IdsAreKept
  <2>2. CASE ~ns
    BY <1>0, <2>2 DEF IdsAreKept
  <2> QED
    BY <2>1, <2>2
<1>3. /\ b.setting = s /\ b.id = (IF old THEN info[d].id ELSE now) /\ b.at = "memory"
      /\ b.by = (IF ~ns THEN "none" ELSE IF join THEN info[d].by ELSE p)
      /\ b.systemd = (ns /\ sys)
      /\ b.pc = (IF ~(ns /\ sys) THEN "mkdir" ELSE IF join THEN "join2" ELSE "setup2")
      /\ b.cgroup = Idle.cgroup
  BY DEF Idle
<1>4. b \in Invocation
  <2>1. ASSUME NEW j \in Ids \cup {Nobody}, NEW y \in Starts \cup {"none"}, NEW z \in BOOLEAN,
               NEW l \in Begun
        PROVE  [Idle EXCEPT !.setting = s, !.id = j, !.by = y, !.systemd = z, !.pc = l] \in Invocation
    BY <1>0, IdleIsTyped DEF Invocation
  <2>2. (ns /\ sys) \in BOOLEAN
    BY DEF Live
  <2>3. (IF old THEN info[d].id ELSE now) \in Ids \cup {Nobody}
    BY <1>0 DEF InfoType
  <2>4. (IF ~ns THEN "none" ELSE IF join THEN info[d].by ELSE p) \in Starts \cup {"none"}
    BY <1>0 DEF InfoType
  <2>5. (IF ~(ns /\ sys) THEN "mkdir" ELSE IF join THEN "join2" ELSE "setup2") \in Begun
    BY DEF Begun, Working
  <2> HIDE DEF ns, sys, join, old
  <2> QED
    BY <2>1, <2>2, <2>3, <2>4, <2>5
<1>5. b.id \in Ids
  BY <1>2, <1>3
<1>6. b.pc \in {"mkdir", "setup2", "join2"} /\ (b.pc # "mkdir" => b.systemd)
  BY <1>3
<1>7. ASSUME b.by \notin {"none", p} PROVE Leads(b.by, b.id)
  <2>1. ns /\ Live(d) /\ b.by = info[d].by /\ b.by # "none"
    BY <1>3, <1>7
  <2>2. info[d] # NoInfo
    BY <2>1 DEF NoInfo
  <2>3. b.id = info[d].id
    BY <1>3, <2>1, <2>2
  <2> QED
    BY <1>0, <2>1, <2>3, <1>7 DEF LeadersLead, LeadsIn
<1>8. i \in InfoType /\ (i = info[d] \/ i = NoInfo \/ (i.id \in Ids /\ i.by = "none"))
  BY <1>0 DEF InfoType, NoInfo
<1>9. \A t \in Trees : b.cgroup[t] = Nobody
  BY <1>3, IdleIsTyped
<1> HIDE DEF b, i
<1> QED
  BY <1>1, <1>3, <1>4, <1>5, <1>6, <1>7, <1>8, <1>9

\* All of the invariant over the beginning of a start.
LEMMA BeginKeeps ==
  ASSUME NEW p \in Starts, NEW s \in Settings, NEW now \in Ids, IInv, Begin(p, s, now)
  PROVE  IInv'
<1>0. Typed /\ RootsTyped /\ IdsAreKept /\ InWhatExists /\ LeadersLead /\ LimitsAreSet
      /\ UmountKnows /\ LeftAre /\ s.dir \in Dirs
  BY SettingsAssumption DEF IInv
<1> PICK b \in Invocation :
           /\ loc' = [loc EXCEPT ![p] = b] /\ loc[p].pc = "idle"
           /\ b.pc \in {"mkdir", "setup2", "join2"} /\ b.id \in Ids /\ b.at = "memory"
           /\ \A t \in Trees : b.cgroup[t] = Nobody
           /\ b.pc # "mkdir" => b.systemd
           /\ b.by \notin {"none", p} => Leads(b.by, b.id)
           /\ \E i \in InfoType : /\ info' = [info EXCEPT ![s.dir] = i]
                                  /\ i = info[s.dir] \/ i = NoInfo \/ (i.id \in Ids /\ i.by = "none")
           /\ version' = version /\ group' = group /\ root' = root
  BY BeginIs
<1> PICK i \in InfoType : /\ info' = [info EXCEPT ![s.dir] = i]
                          /\ i = info[s.dir] \/ i = NoInfo \/ (i.id \in Ids /\ i.by = "none")
  OBVIOUS
<1>1. /\ loc'[p] = b /\ (\A q \in Invocations \ {p} : loc'[q] = loc[q])
      /\ loc' \in [Invocations -> Invocation] /\ p \notin Umounts
  BY <1>0, StartsAssumption DEF Typed, Invocations
<1>2. /\ info'[s.dir] = i /\ (\A d \in Dirs \ {s.dir} : info'[d] = info[d])
      /\ info' \in [Dirs -> InfoType]
  BY <1>0 DEF Typed
<1>3. Settles /\ UmountsStay
  BY <1>1, StartsAssumption DEF Settles, UmountsStay, Invocations
<1>4. Typed'
  BY <1>0, <1>1, <1>2 DEF Typed, Begun, Working, Invocations
<1>5. IdsAreKept'
  BY <1>0, <1>1, <1>2 DEF IdsAreKept, Invocations
<1>6. LeadersLead'
  <2>1. ASSUME NEW d \in Dirs, info'[d].by # "none"
        PROVE  LedBy(info'[d].by, info'[d].id, d)
    <3>1. info'[d] = info[d]
      BY <1>2, <2>1 DEF NoInfo
    <3>2. LeadsIn(info[d].by, info[d].id, d)
      BY <1>0, <2>1, <3>1 DEF LeadersLead
    <3> QED
      BY <1>1, <3>1, <3>2 DEF LeadsIn, Leads, LedBy, Dir, Invocations
  <2>2. ASSUME NEW r \in Starts, loc'[r].pc \in Begun, loc'[r].by \notin {"none", r}
        PROVE  LedBy(loc'[r].by, loc'[r].id, loc'[loc'[r].by].setting.dir)
    <3>1. Leads(loc'[r].by, loc'[r].id)
      BY <1>0, <1>1, <2>2 DEF LeadersLead, Invocations
    <3> QED
      BY <1>1, <2>2, <3>1 DEF Leads, LedBy, Invocations
  <2>3. ASSUME NEW r \in Running', loc'[r].by # "none"
        PROVE  loc'[r].by \in Running'
    <3>1. r \in Running /\ loc'[r] = loc[r] /\ loc[r].by \in Running
      BY <1>0, <1>1, <2>3 DEF LeadersLead, Running, Invocations
    <3> QED
      BY <1>1, <3>1 DEF Running, Invocations
  <2> QED
    BY <2>1, <2>2, <2>3, LeadersLeadThen
<1>7. \A q \in Starts : IsInWhatExists(q)' /\ LimitIsSet(q)'
  <2>1. CASE TRUE
    <3>1. IsInWhatExists(p)'
      BY <1>1, MaxIdAssumption DEF IsInWhatExists
    <3>2. Handled(p)' = {}
      BY <1>1 DEF Handled
    <3>3. LimitIsSet(p)'
      BY <1>1, <3>2 DEF LimitIsSet
    <3>4. ASSUME NEW q \in Starts \ {p} PROVE IsInWhatExists(q)' /\ LimitIsSet(q)'
      <4>1. loc'[q] = loc[q] /\ IsInWhatExists(q) /\ LimitIsSet(q)
        BY <1>0, <1>1 DEF InWhatExists, LimitsAreSet, Invocations
      <4>2. \A t \in Trees : LET j == loc[q].cgroup[t] IN
              j \in Ids => group'[t][j] # NoGroup /\ group[t][j] \subseteq group'[t][j]
        BY <4>1 DEF IsInWhatExists
      <4> QED
        BY <1>0, <4>1, <4>2, OthersKeep
    <3> QED
      BY <3>1, <3>3, <3>4
  <2> QED
    BY <2>1
<1>r. RootsKeep
  BY <1>0, SameRoots
<1>8. \A u \in Umounts : KnowsOf(u)'
  BY <1>0, <1>3, <1>r, KnowsIs, KnowsStays DEF UmountsStay, RootsKeep
<1> QED
  BY <1>4, <1>5, <1>6, <1>7, <1>8, <1>r, KnowsIs DEF IInv, InWhatExists, LimitsAreSet, RootsKeep

-----------------------------------------------------------------------------
(* The steps of ruri -U *)

\* A kill by an umount: of the starts, only those it is after change, and the others
\* keep their directories.
Ends(s) ==
  /\ s \subseteq Starts
  /\ \A q \in Starts : loc'[q] = Kill(s)[q]
  /\ \A q \in Starts \ s : \A t \in Trees : LET i == loc[q].cgroup[t] IN
       i \in Ids => group'[t][i] = group[t][i]

\* A kill by an umount, with the directory of those it kills or not.
LEMMA UmountKillKeeps ==
  ASSUME NEW u \in Umounts, NEW s, Ends(s), IInv,
         loc' \in [Invocations -> Invocation], loc'[u].pc \in {"kill", "scan", "done"},
         \A w \in Umounts \ {u} : loc'[w] = loc[w],
         version' = version, info' = info, group' \in GroupType
  PROVE  /\ Typed' /\ IdsAreKept' /\ LeadersLead' /\ InWhatExists' /\ LimitsAreSet'
         /\ Settles
<1>0. Typed /\ IdsAreKept /\ InWhatExists /\ LeadersLead /\ LimitsAreSet
  BY DEF IInv
<1>1. \A q \in Starts : Kill(s)[q] = loc[q] \/ Kill(s)[q] = Gone
  BY <1>0, KillIs DEF Ends
<1>2. /\ \A w \in Umounts \ {u} : loc'[w] = loc[w]
      /\ \A q \in Starts : loc'[q] = Kill(s)[q]
      /\ s \subseteq Starts
      /\ \A q \in Starts \ s : \A t \in Trees : LET i == loc[q].cgroup[t] IN
           i \in Ids => group'[t][i] = group[t][i]
  BY DEF Ends
<1>3. Settles
  BY <1>1, <1>2 DEF Settles
<1>4. Typed'
  BY <1>0, <1>1, <1>2, IdleIsTyped DEF Typed
<1>5. IdsAreKept'
  BY <1>0, <1>1, <1>2, IdleIsTyped DEF IdsAreKept, Begun, Working
<1>6. \A q \in Starts : IsInWhatExists(q)' /\ LimitIsSet(q)'
  <2> SUFFICES ASSUME NEW q \in Starts PROVE IsInWhatExists(q)' /\ LimitIsSet(q)'
    OBVIOUS
  <2>1. IsInWhatExists(q) /\ LimitIsSet(q)
    BY <1>0 DEF InWhatExists, LimitsAreSet
  <2>2. CASE loc'[q] = Gone
    BY <1>0, <2>1, <2>2, OthersKeep
  <2>3. CASE loc'[q] # Gone
    <3>1. q \notin s /\ loc'[q] = loc[q]
      BY <1>0, <1>1, <1>2, <2>3, KillIs
    <3>2. \A t \in Trees : LET i == loc[q].cgroup[t] IN
            i \in Ids => group'[t][i] # NoGroup /\ group[t][i] \subseteq group'[t][i]
      BY <1>2, <2>1, <3>1 DEF IsInWhatExists
    <3> QED
      BY <1>0, <1>2, <2>1, <3>1, <3>2, OthersKeep
  <2> QED
    BY <2>2, <2>3
<1>7. LeadersLead'
  <2>g. Gone.pc \notin Begun /\ Gone.pc # "running" /\ Gone.pc = "gone"
    BY IdleIsTyped DEF Begun, Working
  <2>1. ASSUME NEW d \in Dirs, info'[d].by # "none"
        PROVE  LedBy(info'[d].by, info'[d].id, d)
    <3>1. LeadsIn(info[d].by, info[d].id, d)
      BY <1>0, <2>1 DEF LeadersLead
    <3> QED
      BY <1>1, <1>2, <2>g, <3>1 DEF LeadsIn, Leads, LedBy, Dir
  <2>2. ASSUME NEW r \in Starts, loc'[r].pc \in Begun, loc'[r].by \notin {"none", r}
        PROVE  LedBy(loc'[r].by, loc'[r].id, loc'[loc'[r].by].setting.dir)
    <3>1. loc'[r] = loc[r] /\ Leads(loc[r].by, loc[r].id)
      BY <1>0, <1>1, <1>2, <2>g, <2>2 DEF LeadersLead
    <3> QED
      BY <1>1, <1>2, <2>g, <3>1 DEF Leads, LedBy
  <2>3. ASSUME NEW r \in Running', loc'[r].by # "none"
        PROVE  loc'[r].by \in Running'
    <3>1. r \in Running /\ loc'[r] = loc[r] /\ Kill(s)[r] # Gone
      BY <1>1, <1>2, <2>g, <2>3 DEF Running
    <3>2. loc[r].by \in Running
      BY <1>0, <2>3, <3>1 DEF LeadersLead
    <3>3. Kill(s)[loc[r].by] = loc[loc[r].by]
      BY <1>0, <1>2, <2>3, <3>1, KillTakesAll
    <3> QED
      BY <1>2, <3>1, <3>2, <3>3 DEF Running
  <2> QED
    BY <2>1, <2>2, <2>3, LeadersLeadThen
<1> QED
  BY <1>2, <1>3, <1>4, <1>5, <1>6, <1>7 DEF InWhatExists, LimitsAreSet

\* Only the umounts themselves change what they know.
LEMMA UmountKeepsRest ==
  ASSUME NEW u \in Umounts, IInv, Settles, RootsKeep, KnowsOf(u)',
         Typed', IdsAreKept', LeadersLead', InWhatExists', LimitsAreSet',
         \A w \in Umounts \ {u} : loc'[w] = loc[w]
  PROVE  IInv'
<1>1. ASSUME NEW w \in Umounts \ {u} PROVE KnowsOf(w)'
  BY KnowsIs, KnowsStays DEF IInv, RootsKeep
<1> QED
  BY <1>1, KnowsIs DEF IInv, RootsKeep

\* The umount reads who is there, and removes the file.
LEMMA UmountReadKeeps ==
  ASSUME NEW u \in Umounts, NEW d \in Dirs, NEW now \in Ids, IInv, UmountRead(u, d, now)
  PROVE  IInv'
<1> DEFINE seen == {p \in Running : Dir(p) = d /\ loc[p].by \in {"none", info[d].by}}
           v == [Idle EXCEPT !.setting.dir = d, !.pc = "umount", !.id = IdToKill(d, now),
                   !.live = Live(d), !.fresh = info[d] = NoInfo, !.by = info[d].by, !.seen = seen]
<1>0. Typed /\ IdsAreKept /\ LeadersLead /\ InWhatExists /\ LimitsAreSet /\ info[d] \in InfoType
  BY DEF IInv, Typed
<1>1. loc' = [loc EXCEPT ![u] = v] /\ info' = [info EXCEPT ![d] = NoInfo]
      /\ version' = version /\ group' = group /\ root' = root
  BY DEF UmountRead, mounts
<1>2. /\ v.pc = "umount" /\ v.id = IdToKill(d, now) /\ v.live = Live(d) /\ v.by = info[d].by
      /\ v.fresh = (info[d] = NoInfo) /\ v.seen = seen /\ v.setting.dir = d
  <2>1. Idle \in Invocation
    BY IdleIsTyped
  <2> QED
    BY <2>1 DEF Invocation, SettingType
<1>3. IdToKill(d, now) \in Ids \cup {Nobody} /\ Live(d) \in BOOLEAN /\ (info[d] = NoInfo) \in BOOLEAN
      /\ info[d].by \in Starts \cup {"none"} /\ seen \subseteq Starts
  BY <1>0 DEF IdToKill, Live, InfoType, Running
<1>4. v \in Invocation
  <2>1. Idle \in Invocation
    BY IdleIsTyped
  <2> HIDE DEF seen
  <2>2. [Idle.setting EXCEPT !.dir = d] \in SettingType
    BY <2>1 DEF Invocation, SettingType
  <2> QED
    BY <1>3, <2>1, <2>2 DEF Invocation
<1> HIDE DEF v
<1>5. /\ loc'[u] = v /\ \A q \in Invocations \ {u} : loc'[q] = loc[q]
      /\ loc' \in [Invocations -> Invocation] /\ u \notin Starts
  BY <1>0, <1>1, <1>4, StartsAssumption DEF Typed, Invocations
<1>s. \A q \in Starts : loc'[q] = loc[q]
  BY <1>5 DEF Invocations
<1>6. /\ info'[d] = NoInfo /\ (\A d2 \in Dirs \ {d} : info'[d2] = info[d2])
      /\ NoInfo \in InfoType /\ info' \in [Dirs -> InfoType]
  BY <1>0, <1>1 DEF Typed, NoInfo, InfoType
<1>7. Settles
  BY <1>s DEF Settles
<1>8. Typed' /\ IdsAreKept'
  BY <1>0, <1>1, <1>2, <1>5, <1>s, <1>6 DEF Typed, IdsAreKept, Invocations
<1>9. LeadersLead'
  <2>1. ASSUME NEW e \in Dirs, info'[e].by # "none"
        PROVE  LedBy(info'[e].by, info'[e].id, e)
    <3>1. info'[e] = info[e] /\ LeadsIn(info[e].by, info[e].id, e)
      BY <1>0, <1>6, <2>1 DEF LeadersLead, NoInfo
    <3> QED
      BY <1>s, <3>1 DEF LeadsIn, Leads, LedBy, Dir
  <2>2. ASSUME NEW r \in Starts, loc'[r].pc \in Begun, loc'[r].by \notin {"none", r}
        PROVE  LedBy(loc'[r].by, loc'[r].id, loc'[loc'[r].by].setting.dir)
    <3>1. Leads(loc'[r].by, loc'[r].id)
      BY <1>0, <1>s, <2>2 DEF LeadersLead
    <3> QED
      BY <1>s, <2>2, <3>1 DEF Leads, LedBy
  <2>3. ASSUME NEW r \in Running', loc'[r].by # "none"
        PROVE  loc'[r].by \in Running'
    BY <1>0, <1>s, <2>3 DEF LeadersLead, Running
  <2> QED
    BY <2>1, <2>2, <2>3, LeadersLeadThen
<1>10. ASSUME NEW q \in Starts PROVE IsInWhatExists(q)' /\ LimitIsSet(q)'
  <2>1. IsInWhatExists(q) /\ LimitIsSet(q)
    BY <1>0 DEF InWhatExists, LimitsAreSet
  <2>2. \A t \in Trees : LET j == loc[q].cgroup[t] IN
          j \in Ids => group'[t][j] # NoGroup /\ group[t][j] \subseteq group'[t][j]
    BY <1>1, <2>1 DEF IsInWhatExists
  <2> QED
    BY <1>0, <1>1, <1>s, <2>1, <2>2, OthersKeep
<1>11. KnowsOf(u)'
  <2>1. ASSUME Live(d)
        PROVE  /\ v.id \in Ids /\ v.by \in Starts /\ loc[v.by].pc = "running"
               /\ loc[v.by].by = v.by /\ loc[v.by].id = v.id /\ Dir(v.by) = d
    <3>1. info[d].by \in Starts /\ loc[info[d].by].pc = "running" /\ info[d] # NoInfo
      BY <2>1, StartsAssumption DEF Live, NoInfo
    <3>2. v.id = info[d].id /\ v.id \in Ids
      BY <1>0, <1>2, <2>1, <3>1 DEF IdToKill, IdsAreKept
    <3>3. LeadsIn(info[d].by, info[d].id, d)
      BY <1>0, <3>1, StartsAssumption DEF LeadersLead
    <3> QED
      BY <1>2, <3>1, <3>2, <3>3 DEF LeadsIn, Leads
  <2>2. v.id # Nobody => v.live \/ v.fresh
    BY <1>2 DEF IdToKill
  <2>3. ASSUME NEW p \in seen
        PROVE  /\ p \in Running /\ Dir(p) = d
               /\ loc[p].by = "none" \/ (v.live /\ loc[p].by = v.by)
    <3>1. p \in Running /\ Dir(p) = d /\ loc[p].by \in {"none", info[d].by}
      OBVIOUS
    <3>2. ASSUME loc[p].by # "none" PROVE Live(d)
      BY <1>0, <3>1, <3>2 DEF LeadersLead, Live, Running
    <3> QED
      BY <1>2, <3>1, <3>2
  <2> HIDE DEF seen
  <2>4. v.live => v.id \in Ids /\ LeadsIn(loc[u].by, loc[u].id, Dir(u))'
    BY <1>2, <1>5, <1>s, <2>1 DEF LeadsIn, Leads, Dir
  <2>5. \A p \in seen : /\ p \in Running' /\ Dir(p)' = Dir(u)'
                        /\ loc'[p].by = "none" \/ (v.live /\ loc'[p].by = v.by)
    BY <1>2, <1>5, <1>s, <1>3, <2>3 DEF Running, Dir
  <2> QED
    BY <1>2, <1>5, <2>2, <2>4, <2>5 DEF KnowsOf, LeadsIn, Leads, Dir
<1>12. RootsKeep
  BY <1>1, SameRoots DEF IInv
<1> QED
  BY <1>5, <1>7, <1>8, <1>9, <1>10, <1>11, <1>12, UmountKeepsRest
     DEF InWhatExists, LimitsAreSet, Invocations

\* The umount of the directory: those that have it for their root keep a root that
\* nobody can see.
LEMMA UmountDirectoryKeeps ==
  ASSUME NEW u \in Umounts, IInv, UmountDirectory(u)
  PROVE  IInv'
<1> DEFINE v == [loc[u] EXCEPT !.pc = "kill"]
<1>0. /\ Typed /\ RootsTyped /\ KnowsOf(u) /\ loc[u].pc = "umount" /\ loc[u] \in Invocation
      /\ loc' = [loc EXCEPT ![u] = v]
      /\ version' = version /\ group' = group /\ info' = info
  BY KnowsIs DEF IInv, UmountDirectory, Goto, Typed, Invocations
<1>1. RootsKeep
  BY <1>0 DEF UmountDirectory, RootsKeep, RootsTyped, RootsStay
<1>2. v \in Invocation /\ v.pc = "kill"
  BY <1>0 DEF Invocation
<1>3. \A q \in Starts : Kill({})[q] = loc[q]
  BY <1>0, KillIs
<1> HIDE DEF v
<1>4. /\ loc' \in [Invocations -> Invocation] /\ loc'[u] = v
      /\ \A w \in Umounts \ {u} : loc'[w] = loc[w]
      /\ \A q \in Starts : loc'[q] = Kill({})[q]
  BY <1>0, <1>2, <1>3, StartsAssumption DEF Typed, Invocations
<1>5. Ends({})
  BY <1>0, <1>4 DEF Ends
<1>6. /\ Typed' /\ IdsAreKept' /\ LeadersLead' /\ InWhatExists' /\ LimitsAreSet'
      /\ Settles
  BY <1>0, <1>2, <1>4, <1>5, UmountKillKeeps DEF Typed
<1>7. KnowsOf(u)'
  BY <1>0, <1>1, <1>4, <1>6, KnowsStays DEF v, RootsKeep
<1> QED
  BY <1>1, <1>4, <1>6, <1>7, UmountKeepsRest

\* cgroup.kill ends those in the directory of the id: no survivor loses his.
LEMMA CgroupKillKeeps ==
  ASSUME NEW u \in Umounts, IInv, CgroupKill(u)
  PROVE  IInv' /\ Settles
<1> DEFINE id == loc[u].id
           s  == IF loc[u].live /\ HasV2 /\ group["v2"][id] # NoGroup THEN InGroup("v2", id) ELSE {}
           v  == [loc[u] EXCEPT !.pc = "scan"]
<1>0. Typed /\ IdsAreKept /\ KnowsOf(u) /\ loc[u].pc = "kill" /\ s \subseteq Starts
  BY KnowsIs DEF IInv, CgroupKill, InGroup
<1>1. loc[u] \in Invocation /\ v \in Invocation /\ v.pc = "scan"
  <2>1. loc[u] \in Invocation
    BY <1>0 DEF Typed, Invocations
  <2> QED
    BY <2>1 DEF Invocation
<1>2. /\ loc' \in [Invocations -> Invocation] /\ loc'[u] = v
      /\ \A w \in Umounts \ {u} : loc'[w] = loc[w]
      /\ \A q \in Starts : loc'[q] = Kill(s)[q]
      /\ version' = version /\ info' = info
  <2>1. /\ Kill(s) \in [Invocations -> Invocation]
        /\ \A w \in Umounts : Kill(s)[w] = loc[w]
    BY <1>0, KillIs
  <2>2. CASE loc[u].live /\ HasV2 /\ group["v2"][id] # NoGroup
    <3>1. loc' = [Kill(s) EXCEPT ![u] = v]
      BY <2>1, <2>2 DEF CgroupKill, Invocations
    <3> HIDE DEF s, v
    <3> QED
      BY <1>1, <2>1, <3>1, StartsAssumption DEF CgroupKill, Invocations
  <2>3. CASE ~(loc[u].live /\ HasV2 /\ group["v2"][id] # NoGroup)
    <3>1. loc' = [loc EXCEPT ![u] = v] /\ s = {}
      BY <2>3 DEF CgroupKill, Goto
    <3>2. \A q \in Starts : Kill(s)[q] = loc[q]
      BY <1>0, <3>1, KillIs
    <3> HIDE DEF s, v
    <3> QED
      BY <1>0, <1>1, <3>1, <3>2, StartsAssumption DEF Typed, CgroupKill, Invocations
  <2> QED
    BY <2>2, <2>3
<1>3. /\ group' \in GroupType
      /\ \A q \in Starts \ s : \A t \in Trees : LET i == loc[q].cgroup[t] IN
           i \in Ids => group'[t][i] = group[t][i]
  <2>1. CASE group' = group
    BY <1>0, <2>1 DEF Typed
  <2>2. CASE /\ loc[u].live /\ HasV2 /\ group["v2"][id] # NoGroup
             /\ group' = [group EXCEPT !["v2"][id] = NoGroup]
    <3>1. group \in GroupType /\ id \in Ids /\ "v2" \in Trees
      BY <1>0, <2>2 DEF Typed, KnowsOf, Trees
    <3>2. group' \in GroupType
      BY <2>2, <3>1 DEF GroupType
    <3>3. \A t \in Trees, i \in Ids : t # "v2" \/ i # id => group'[t][i] = group[t][i]
      BY <2>2, <3>1 DEF GroupType
    <3>4. \A q \in Starts \ s : loc[q].cgroup["v2"] # id
      BY <2>2 DEF InGroup
    <3> QED
      BY <3>2, <3>3, <3>4
  <2> QED
    BY <2>1, <2>2 DEF CgroupKill
<1> HIDE DEF s
<1>4. /\ Typed' /\ IdsAreKept' /\ LeadersLead' /\ InWhatExists' /\ LimitsAreSet'
      /\ Settles
  <2>1. Ends(s)
    BY <1>0, <1>2, <1>3 DEF Ends
  <2> QED
    BY <1>1, <1>2, <1>3, <2>1, UmountKillKeeps
<1>r. RootsKeep
  BY SameRoots DEF IInv, CgroupKill, mounts
<1>5. KnowsOf(u)'
  BY <1>0, <1>2, <1>4, <1>r, KnowsStays DEF RootsKeep
<1> QED
  BY <1>2, <1>4, <1>5, <1>r, UmountKeepsRest

\* Then it goes over the processes, by the id or the root, and kills the first
\* process of the container: of those it saw in the container nobody is left but
\* those whose root is detached.
LEMMA ScanAndKillKeeps ==
  ASSUME NEW u \in Umounts, IInv, ScanAndKill(u)
  PROVE  IInv'
<1> DEFINE s == ContainerProcesses(u) \cup {q \in Running : loc[u].live /\ q = loc[u].by}
           v == [Idle EXCEPT !.pc = "done", !.seen = loc[u].seen]
<1>0. /\ Typed /\ LeadersLead /\ KnowsOf(u) /\ loc[u].pc = "scan" /\ loc[u] \in Invocation
      /\ group' = group /\ version' = version /\ info' = info
      /\ loc' = [Kill(s) EXCEPT ![u] = v]
  BY KnowsIs DEF IInv, ScanAndKill, Typed, Invocations
<1>1. s \subseteq Starts
  BY DEF ContainerProcesses, ByCgroup, ByRoot, InGroup, Running
<1>2. v \in Invocation /\ v.pc = "done" /\ v.seen = loc[u].seen /\ loc[u].seen \subseteq Starts
  <2>1. Idle \in Invocation
    BY IdleIsTyped
  <2> QED
    BY <1>0, <2>1 DEF Invocation
<1>3. \A p \in loc[u].seen :
        \/ loc[p].pc = "gone"
        \/ p \in s
        \/ p \in Running /\ (loc[p].by \in s \/ root[p] = "detached")
  <2> SUFFICES ASSUME NEW p \in loc[u].seen, loc[p].pc # "gone", root[p] # "detached"
               PROVE  p \in s \/ (p \in Running /\ loc[p].by \in s)
    BY <1>0 DEF KnowsOf
  <2>1. /\ p \in Running /\ Dir(p) = Dir(u)
        /\ loc[p].by = "none" \/ (loc[u].live /\ loc[p].by = loc[u].by)
    BY <1>0 DEF KnowsOf
  <2>2. CASE loc[p].by = "none"
    BY <2>1, <2>2 DEF ContainerProcesses, ByRoot
  <2>3. CASE loc[p].by # "none"
    <3>1. loc[p].by \in Running /\ loc[u].live /\ loc[p].by = loc[u].by
      BY <1>0, <2>1, <2>3 DEF LeadersLead
    <3> QED
      BY <2>1, <3>1
  <2> QED
    BY <2>2, <2>3
<1> HIDE DEF s, v
<1>4. /\ Kill(s) \in [Invocations -> Invocation]
      /\ \A w \in Umounts : Kill(s)[w] = loc[w]
      /\ \A p \in Starts : Kill(s)[p] = IF p \in s \/ (p \in Running /\ loc[p].by \in s)
                                          THEN Gone ELSE loc[p]
  BY <1>0, <1>1, KillIs
<1>5. /\ loc' \in [Invocations -> Invocation] /\ loc'[u] = v
      /\ \A w \in Umounts \ {u} : loc'[w] = loc[w]
      /\ \A q \in Starts : loc'[q] = Kill(s)[q]
  BY <1>0, <1>2, <1>4, StartsAssumption DEF Invocations
<1>6. Ends(s)
  BY <1>0, <1>1, <1>5 DEF Ends
<1>7. /\ Typed' /\ IdsAreKept' /\ LeadersLead' /\ InWhatExists' /\ LimitsAreSet'
      /\ Settles
  BY <1>0, <1>2, <1>5, <1>6, UmountKillKeeps DEF Typed
<1>8. KnowsOf(u)'
  <2>1. root' = root
    BY DEF ScanAndKill, mounts
  <2>2. \A p \in loc[u].seen : loc'[p].pc = "gone" \/ (loc'[p] = loc[p] /\ p \in Running /\ root[p] = "detached")
    BY <1>2, <1>3, <1>4, <1>5, IdleIsTyped
  <2> QED
    BY <1>2, <1>5, <2>1, <2>2 DEF KnowsOf, Running
<1>r. RootsKeep
  BY SameRoots DEF IInv, ScanAndKill, mounts
<1> QED
  BY <1>5, <1>7, <1>8, <1>r, UmountKeepsRest

-----------------------------------------------------------------------------
(* The invariant, and what follows *)

\* At first nobody has started.
LEMMA InitKeeps == Init => IInv
<1> SUFFICES ASSUME Init PROVE IInv
  OBVIOUS
<1>1. /\ version \in [Controllers -> Versions] /\ group \in GroupType
      /\ (\A d \in Dirs : info[d] = NoInfo) /\ info \in [Dirs -> InfoType]
      /\ (\A i \in Invocations : loc[i] = Idle) /\ loc \in [Invocations -> Invocation]
  BY HostsAssumption, IdleIsTyped DEF Init, GroupType, Invocations, InfoType, NoInfo
<1>2. Typed /\ IdsAreKept
  BY <1>1, IdleIsTyped DEF Typed, IdsAreKept, Invocations, Begun, Working
<1>3. InWhatExists
  BY <1>1, IdleIsTyped, MaxIdAssumption DEF InWhatExists, IsInWhatExists, Invocations
<1>4. LeadersLead
  BY <1>1, IdleIsTyped DEF LeadersLead, Running, Invocations, Begun, Working, NoInfo
<1>5. LimitsAreSet
  BY <1>1, IdleIsTyped DEF LimitsAreSet, LimitIsSet, Invocations, Working
<1>6. UmountKnows /\ LeftAre
  BY <1>1, IdleIsTyped DEF UmountKnows, LeftAre, Invocations
<1>7. RootsTyped
  BY DEF Init, RootsTyped
<1> QED
  BY <1>2, <1>3, <1>4, <1>5, <1>6, <1>7 DEF IInv

\* Every step keeps the invariant.
LEMMA NextKeeps == IInv /\ [Next]_vars => IInv'
<1> SUFFICES ASSUME IInv, [Next]_vars PROVE IInv'
  OBVIOUS
<1>1. CASE UNCHANGED vars
  <2>1. UNCHANGED <<version, group, info, loc, root>>
    BY <1>1 DEF vars, mounts
  <2>2. Typed' /\ IdsAreKept' /\ InWhatExists' /\ LeadersLead'
    BY <2>1 DEF IInv, Typed, IdsAreKept, InWhatExists, IsInWhatExists, LeadersLead, LeadsIn, Leads,
      Running, Dir
  <2>3. LimitsAreSet'
    BY <2>1 DEF IInv, LimitsAreSet, LimitIsSet, InGroupOf, Handled, Tree
  <2>4. UmountKnows' /\ LeftAre' /\ RootsTyped'
    BY <2>1 DEF IInv, UmountKnows, LeftAre, LeadsIn, Leads, Running, Dir, RootsTyped
  <2> QED
    BY <2>2, <2>3, <2>4 DEF IInv
<1>2. ASSUME NEW p \in Starts, NEW s \in Settings, NEW now \in Ids, Begin(p, s, now) PROVE IInv'
  BY <1>2, BeginKeeps
<1>3. ASSUME NEW p \in Starts, StartSteps(p) PROVE IInv'
  BY <1>3, StartStepKeeps
<1>4. ASSUME NEW u \in Umounts, NEW d \in Dirs, NEW now \in Ids, UmountRead(u, d, now) PROVE IInv'
  BY <1>4, UmountReadKeeps
<1>5. ASSUME NEW u \in Umounts, UmountDirectory(u) \/ CgroupKill(u) \/ ScanAndKill(u) PROVE IInv'
  BY <1>5, UmountDirectoryKeeps, CgroupKillKeeps, ScanAndKillKeeps
<1> QED
  BY <1>1, <1>2, <1>3, <1>4, <1>5 DEF Next, StartSteps

\* The inductive invariant holds throughout.
LEMMA Invariant == Spec => []IInv
BY InitKeeps, NextKeeps, PTL DEF Spec

\* Whatever the starts do in between, nobody is in a directory that does not exist
\* (mkdir() and the attachment are two steps, and ruri -U removes the directory).
THEOREM TypeCorrect == Spec => []TypeOK
<1>1. IInv => TypeOK
  BY DEF IInv, Typed, TypeOK, InWhatExists, IsInWhatExists, IdsAreKept, GroupType, Invocations,
    Invocation
<1> QED
  BY <1>1, Invariant, PTL

\* A container that runs has its limits, or there was a warning for each it has not.
THEOREM LimitsHold == Spec => []LimitedOrWarned
<1>1. IInv => LimitedOrWarned
  <2> SUFFICES ASSUME IInv, NEW p \in Running, ~loc[p].systemd,
                      NEW c \in loc[p].setting.limits \ loc[p].warned
               PROVE  /\ loc[p].cgroup[Tree(c)] = loc[p].id
                      /\ c \in group[Tree(c)][loc[p].id]
    BY DEF LimitedOrWarned
  <2>1. p \in Starts /\ loc[p].pc = "running" /\ c \in Controllers /\ LimitIsSet(p)
    BY DEF Running, IInv, Typed, Invocations, Invocation, SettingType, LimitsAreSet
  <2>2. c \in Handled(p)
    BY <2>1 DEF Handled
  <2> QED
    BY <2>1, <2>2 DEF LimitIsSet, InGroupOf
<1> QED
  BY <1>1, Invariant, PTL

\* ruri -U ends all that it saw in the container: those that came through the
\* namespaces, and those that have the directory itself for their root.  Whom it
\* leaves has a root that it detached itself.
THEOREM NobodyOutlives == Spec => []NobodyOutlivesUmount
<1>1. IInv => NobodyOutlivesUmount
  BY DEF IInv, LeftAre, NobodyOutlivesUmount
<1> QED
  BY <1>1, Invariant, PTL

\* Whom a kill by an umount takes with it has the id of the one it is after.
LEMMA SameContainer ==
  ASSUME IInv, NEW s, s \subseteq Starts, NEW p \in Starts, loc[p].pc # "gone",
         Kill(s)[p].pc = "gone"
  PROVE  \/ p \in s
         \/ /\ p \in Running /\ loc[p].by \in s /\ loc[p].by \in Running
            /\ loc[loc[p].by].by = loc[p].by /\ loc[loc[p].by].id = loc[p].id
<1>1. Typed /\ LeadersLead
  BY DEF IInv
<1>2. p \in s \/ (p \in Running /\ loc[p].by \in s)
  BY <1>1, KillIs
<1>3. ASSUME p \in Running, loc[p].by \in s
      PROVE  /\ loc[p].by \in Running
             /\ loc[loc[p].by].by = loc[p].by /\ loc[loc[p].by].id = loc[p].id
  BY <1>1, <1>3, LeaderIs, StartsAssumption
<1> QED
  BY <1>2, <1>3

\* A member of a directory has its id.
LEMMA MemberIs ==
  ASSUME IInv, NEW t \in Trees, NEW i, i # Nobody, NEW p \in InGroup(t, i)
  PROVE  loc[p].id = i
BY DEF InGroup, IInv, IdsAreKept

\* ruri -U kills by an id, the time of day; whom it kills in another directory has the
\* id of the container that lives in the one it is for, or that the next would get.
THEOREM KillIsOwn == Spec => KillsOnlyOwn
<1> DEFINE Own == \A u \in Umounts : loc[u].pc # loc'[u].pc =>
                    \A p \in Victims(u) : loc[p].id = loc[u].id /\ (loc[u].live \/ loc[u].fresh)
<1>1. ASSUME IInv, [Next]_vars PROVE Own
  <2> SUFFICES ASSUME NEW u \in Umounts, loc[u].pc # loc'[u].pc, NEW p \in Victims(u)
               PROVE  loc[p].id = loc[u].id /\ (loc[u].live \/ loc[u].fresh)
    OBVIOUS
  <2>0. /\ Typed /\ LeadersLead /\ KnowsOf(u) /\ loc[u] \in Invocation
        /\ p \in Starts /\ loc[p].pc # "gone" /\ loc'[p].pc = "gone" /\ Dir(p) # Dir(u)
        /\ u \notin Starts
    BY <1>1, KnowsIs, StartsAssumption DEF IInv, Typed, Invocations, Victims
  <2>1. ASSUME NEW q \in Starts, NEW s \in Settings, NEW now \in Ids, Begin(q, s, now) PROVE FALSE
    BY <2>0, <2>1 DEF Begin, Typed
  <2>2. ASSUME NEW q \in Starts, StartSteps(q) PROVE FALSE
    <3>1. StartStep(q)
      BY <1>1, <2>2, StartKeeps DEF Keeps, IInv
    <3> QED
      BY <2>0, <3>1, StartShape DEF UmountsStay
  <2>3. ASSUME NEW w \in Umounts, NEW d \in Dirs, NEW now \in Ids, UmountRead(w, d, now) PROVE FALSE
    BY <2>0, <2>3, StartsAssumption DEF UmountRead, Typed, Invocations
  <2>d. ASSUME NEW w \in Umounts, UmountDirectory(w) PROVE FALSE
    BY <2>0, <2>d, StartsAssumption DEF UmountDirectory, Goto, Typed, Invocations
  <2>4. ASSUME NEW w \in Umounts, CgroupKill(w)
        PROVE  loc[p].id = loc[u].id /\ (loc[u].live \/ loc[u].fresh)
    <3> DEFINE id == loc[w].id
               s  == InGroup("v2", id)
    <3>1. CASE loc[w].live /\ HasV2 /\ group["v2"][id] # NoGroup
      <4>1. /\ loc' = [Kill(s) EXCEPT ![w].pc = "scan"] /\ s \subseteq Starts
            /\ KnowsOf(w) /\ loc[w].pc = "kill"
        BY <1>1, <2>4, <3>1, KnowsIs DEF CgroupKill, InGroup, IInv
      <4>2. id \in Ids /\ id # Nobody /\ "v2" \in Trees
        BY <3>1, <4>1, MaxIdAssumption DEF KnowsOf, Trees
      <4> HIDE DEF s, id
      <4>3. /\ Kill(s) \in [Invocations -> Invocation]
            /\ \A x \in Umounts : Kill(s)[x] = loc[x]
        BY <2>0, <4>1, KillIs
      <4>4. u = w /\ Kill(s)[p] = loc'[p]
        BY <2>0, <4>1, <4>3, StartsAssumption DEF Invocations
      <4>5. loc[p].id = id
        <5>1. \A x \in s : loc[x].id = id
          BY <1>1, <4>2, MemberIs DEF s
        <5> QED
          BY <1>1, <2>0, <4>1, <4>4, <5>1, SameContainer
      <4> QED
        BY <3>1, <4>4, <4>5 DEF id
    <3>2. CASE ~(loc[w].live /\ HasV2 /\ group["v2"][id] # NoGroup)
      BY <2>0, <2>4, <3>2, StartsAssumption DEF CgroupKill, Goto, Typed, Invocations
    <3> QED
      BY <3>1, <3>2
  <2>5. ASSUME NEW w \in Umounts, ScanAndKill(w)
        PROVE  loc[p].id = loc[u].id /\ (loc[u].live \/ loc[u].fresh)
    <3> DEFINE s == ContainerProcesses(w) \cup {q \in Running : loc[w].live /\ q = loc[w].by}
               v == [Idle EXCEPT !.pc = "done", !.seen = loc[w].seen]
    <3>1. loc' = [Kill(s) EXCEPT ![w] = v] /\ s \subseteq Starts /\ KnowsOf(w) /\ loc[w].pc = "scan"
      BY <1>1, <2>5, KnowsIs DEF ScanAndKill, ContainerProcesses, ByCgroup, ByRoot, InGroup, Running, IInv
    <3>2. ASSUME NEW x \in s
          PROVE  \/ loc[x].id = loc[w].id /\ (loc[w].live \/ loc[w].fresh)
                 \/ x \in Running /\ Dir(x) = Dir(w) /\ loc[x].by = "none"
      <4>1. CASE x \in ByCgroup(w)
        <5>1. First # "none" /\ loc[w].id # Nobody /\ x \in InGroup(First, loc[w].id)
          BY <4>1 DEF ByCgroup
        <5>2. First \in Trees
          BY <2>0, <5>1, TreeIs DEF First, Tree, Controllers
        <5> QED
          BY <1>1, <3>1, <5>1, <5>2, MemberIs DEF KnowsOf
      <4>2. CASE x \in Running /\ Dir(x) = Dir(w) /\ loc[x].by = "none"
        BY <4>2
      <4>3. CASE x \in Running /\ loc[w].live /\ x = loc[w].by
        BY <3>1, <4>3 DEF KnowsOf, LeadsIn, Leads, Running
      <4> QED
        BY <4>1, <4>2, <4>3 DEF ContainerProcesses, ByRoot
    <3> HIDE DEF v
    <3>4. u = w /\ Kill(s)[p] = loc'[p]
      <4> HIDE DEF s
      <4>1. /\ Kill(s) \in [Invocations -> Invocation]
            /\ \A x \in Umounts : Kill(s)[x] = loc[x]
        BY <2>0, <3>1, KillIs
      <4> QED
        BY <2>0, <3>1, <4>1, StartsAssumption DEF Invocations
    <3> HIDE DEF s
    <3>5. CASE p \in s
      BY <2>0, <3>2, <3>4, <3>5
    <3>6. CASE /\ p \in Running /\ loc[p].by \in s /\ loc[p].by \in Running
               /\ loc[loc[p].by].by = loc[p].by /\ loc[loc[p].by].id = loc[p].id
      <4>1. loc[p].by # "none"
        BY <3>1, <3>6, StartsAssumption
      <4> QED
        BY <3>2, <3>4, <3>6, <4>1
    <3> QED
      BY <1>1, <2>0, <3>1, <3>4, <3>5, <3>6, SameContainer
  <2>6. CASE UNCHANGED vars
    BY <2>6 DEF vars
  <2> QED
    BY <1>1, <2>1, <2>2, <2>3, <2>d, <2>4, <2>5, <2>6 DEF Next, StartSteps
<1>2. IInv /\ [Next]_vars => [Own]_vars
  BY <1>1
<1> QED
  BY <1>2, Invariant, PTL DEF Spec, KillsOnlyOwn
=============================================================================
