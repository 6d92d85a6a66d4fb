---------------------------- MODULE IdMap_proofs ----------------------------
(***************************************************************************)
(* What holds of IdMap for every number of starts and of kills.            *)
(*                                                                         *)
(* MapsAreMade speaks of the moment at which a command runs or a start     *)
(* enters; the inductive invariant says who has made which map before.     *)
(* What makes it inductive is that a map is written once: a map that is    *)
(* whole stays whole, whoever else tries.                                  *)
(*                                                                         *)
(* NobodyWaitsForEver is about fairness and stays with TLC; what it rests  *)
(* on is safety and proved here: who holds an end of a pipe that somebody  *)
(* reads from has not ended.                                               *)
(***************************************************************************)
EXTENDS IdMap, TLAPS

\* Both maps, made the same way, or the helper was killed.
Mapped(q) == map[q] \in Whole \/ helper[q] = "killed"

\* A start that has only read .rurienv has done nothing.
Before == {"idle", "remove", "pipe"}
Idle ==
  \A p \in Starts : pc[p] \in Before =>
    ns[p] = p /\ helper[p] = "none" /\ cont[p] = "none" /\ sent[p] = {} /\ info # p

\* What the helper has written when it ends well, and before it runs newgidmap.
HelperWrites ==
  \A p \in Starts :
    /\ helper[p] = "newgidmap" => map[p].uid = "range"
    /\ helper[p] = "ok" /\ ns[p] = p => map[p] = [uid |-> "range", gid |-> "range"]

\* Who waits for a helper is in his own namespaces; from the moment set_id_map()
\* is not needed, or is through, they have their maps.
RuriKnows(p) ==
  /\ pc[p] \in {"unshare", "signal", "wait_helper"} => ns[p] = p
  /\ pc[p] \in {"spaces", "fork"} /\ succeed[p] => Mapped(ns[p])
  /\ pc[p] = "set_gid_map" => map[ns[p]].uid = "self"
  /\ pc[p] \in {"join", "store", "go", "wait"} => Mapped(ns[p])
RuriWrites == \A p \in Starts : RuriKnows(p)

\* The container's process and .rurienv come after the maps.
ContKnows(p) == cont[p] = "running" \/ 2 \in sent[p] => Mapped(ns[p])
Follow ==
  /\ \A p \in Starts : ContKnows(p)
  /\ info # NoOne => Mapped(info)

IInv == TypeOK /\ Idle /\ HelperWrites /\ RuriWrites /\ Follow
-----------------------------------------------------------------------------
(* What an action is made of *)

\* ruri goes on, or ends.
LEMMA GotoType ==
  ASSUME TypeOK, NEW p \in Starts, NEW l \in Points, Goto(p, l)
  PROVE  pc' \in [Starts -> Points] /\ pc'[p] = l
      /\ \A q \in Starts : q # p => pc'[q] = pc[q]
  BY DEF TypeOK, Goto

LEMMA EndsType ==
  ASSUME TypeOK, NEW p \in Starts, Ends(p)
  PROVE  /\ pc' \in [Starts -> Points] /\ pc'[p] = "end"
         /\ \A q \in Starts : q # p => pc'[q] = pc[q]
         /\ writers' \in [Starts -> SUBSET {"ruri", "helper"}]
         /\ writers2' \in [Starts -> SUBSET {"ruri", "cont"}]
  <1>1. "end" \in Points
    BY DEF Points
  <1>2. Goto(p, "end")
    BY DEF Ends
  <1>3. writers' \in [Starts -> SUBSET {"ruri", "helper"}]
    BY DEF TypeOK, Ends
  <1>4. writers2' \in [Starts -> SUBSET {"ruri", "cont"}]
    BY DEF TypeOK, Ends
  <1> QED
    BY <1>1, <1>2, <1>3, <1>4, GotoType

LEMMA KeepsType ==
  ASSUME TypeOK, Keeps
  PROVE  /\ writers' \in [Starts -> SUBSET {"ruri", "helper"}]
         /\ writers2' \in [Starts -> SUBSET {"ruri", "cont"}]
  BY DEF TypeOK, Keeps

\* The helper goes on, and only it.
LEMMA HelperType ==
  ASSUME TypeOK, NEW p \in Starts, NEW from, NEW to \in Helpers, Helper(p, from, to)
  PROVE  /\ helper' \in [Starts -> Helpers] /\ helper'[p] = to
         /\ \A q \in Starts : q # p => helper'[q] = helper[q]
         /\ writers' \in [Starts -> SUBSET {"ruri", "helper"}]
         /\ UNCHANGED <<subid, pc, ns, cont, succeed, writers2, sent, info>>
  BY DEF TypeOK, Helper

\* One map is written.
LEMMA UidWritten ==
  ASSUME TypeOK, NEW q \in Starts, NEW k \in Kinds, map' = [map EXCEPT ![q].uid = k]
  PROVE  /\ map' \in [Starts -> [uid : Kinds, gid : Kinds]]
         /\ map'[q] = [uid |-> k, gid |-> map[q].gid]
         /\ \A r \in Starts : r # q => map'[r] = map[r]
  BY DEF TypeOK

LEMMA GidWritten ==
  ASSUME TypeOK, NEW q \in Starts, NEW k \in Kinds, map' = [map EXCEPT ![q].gid = k]
  PROVE  /\ map' \in [Starts -> [uid : Kinds, gid : Kinds]]
         /\ map'[q] = [uid |-> map[q].uid, gid |-> k]
         /\ \A r \in Starts : r # q => map'[r] = map[r]
  BY DEF TypeOK

\* The ends of the pipes that are opened, closed and written to.
LEMMA PipesType ==
  ASSUME TypeOK, NEW p \in Starts
  PROVE  /\ [writers EXCEPT ![p] = @ \ {"ruri"}] \in [Starts -> SUBSET {"ruri", "helper"}]
         /\ [writers2 EXCEPT ![p] = @ \ {"ruri"}] \in [Starts -> SUBSET {"ruri", "cont"}]
         /\ [writers2 EXCEPT ![p] = {"ruri", "cont"}] \in [Starts -> SUBSET {"ruri", "cont"}]
         /\ [sent EXCEPT ![p] = @ \cup {1}] \in [Starts -> SUBSET {1, 2}]
         /\ [sent EXCEPT ![p] = @ \cup {2}] \in [Starts -> SUBSET {1, 2}]
  BY DEF TypeOK

-----------------------------------------------------------------------------
(* The steps *)

\* The steps of ruri keep the types; where a step is one of two, the cases are "goes on"
\* and "ends".
LEMMA RuriType ==
  ASSUME TypeOK, Idle, NEW p \in Starts, Ruri(p)
  PROVE  TypeOK'
  <1> USE DEF Points
  <1>1. CASE Begin(p)
    <2>1. UNCHANGED <<subid, cont, succeed, sent, map, info, kills>> /\ pc[p] = "idle"
      BY <1>1 DEF Begin
    <2>2. (info \in Starts /\ info # p) \/ ~Up(info)
      BY <2>1 DEF TypeOK, Idle, Before, Up
    <2>3. CASE /\ Up(info) /\ ns' = [ns EXCEPT ![p] = info]
               /\ helper' = [helper EXCEPT ![p] = "ok"] /\ Goto(p, "join") /\ Keeps
      <3>1. pc' \in [Starts -> Points]
        BY <2>3, GotoType
      <3>2. helper' \in [Starts -> Helpers]
        BY <2>3 DEF TypeOK, Helpers
      <3>3. ns' \in [Starts -> Starts] /\ \A q \in Starts : q # p => ns'[q] = ns[q]
        BY <2>2, <2>3 DEF TypeOK
      <3>4. info \in {NoOne} \cup {q \in Starts : ns'[q] = q}
        BY <2>1, <3>3 DEF TypeOK, Idle, Before
      <3> QED
        BY <2>1, <2>3, <3>1, <3>2, <3>3, <3>4, KeepsType DEF TypeOK
    <2>4. CASE Ends(p) /\ UNCHANGED <<ns, helper>>
      BY <2>1, <2>4, EndsType DEF TypeOK
    <2>5. CASE /\ Goto(p, IF info = NoOne THEN "pipe" ELSE "remove") /\ Keeps
               /\ UNCHANGED <<ns, helper>>
      BY <2>1, <2>5, GotoType, KeepsType DEF TypeOK
    <2> QED
      BY <1>1, <2>3, <2>4, <2>5 DEF Begin
  <1>13. CASE RemoveInfo(p)
    <2>1. pc' \in [Starts -> Points]
      BY <1>13, GotoType DEF RemoveInfo
    <2> QED
      BY <1>13, <2>1, KeepsType DEF RemoveInfo, TypeOK
  <1>14. CASE ForkHelper(p)
    <2>1. UNCHANGED <<subid, ns, cont, succeed, sent, map, info, kills>>
      BY <1>14 DEF ForkHelper
    <2>2. CASE /\ helper' = [helper EXCEPT ![p] = "forked"]
               /\ writers' = [writers EXCEPT ![p] = {"ruri", "helper"}]
               /\ Goto(p, "unshare") /\ UNCHANGED writers2
      <3>1. pc' \in [Starts -> Points]
        BY <2>2, GotoType
      <3>2. helper' \in [Starts -> Helpers] /\ writers' \in [Starts -> SUBSET {"ruri", "helper"}]
        BY <2>2 DEF TypeOK, Helpers
      <3> QED
        BY <2>1, <2>2, <3>1, <3>2 DEF TypeOK
    <2>3. CASE Ends(p) /\ UNCHANGED helper
      BY <2>1, <2>3, EndsType DEF TypeOK
    <2> QED
      BY <1>14, <2>2, <2>3 DEF ForkHelper
  <1>2. CASE UnshareUser(p)
    <2>1. pc' \in [Starts -> Points] /\ writers' \in [Starts -> SUBSET {"ruri", "helper"}]
            /\ writers2' \in [Starts -> SUBSET {"ruri", "cont"}]
      BY <1>2, GotoType, EndsType, KeepsType DEF UnshareUser
    <2> QED
      BY <1>2, <2>1 DEF UnshareUser, TypeOK
  <1>3. CASE SignalHelper(p)
    <2>1. pc' \in [Starts -> Points] /\ writers' \in [Starts -> SUBSET {"ruri", "helper"}]
            /\ writers2' \in [Starts -> SUBSET {"ruri", "cont"}]
            /\ sent' \in [Starts -> SUBSET {1, 2}]
      <3>1. CASE helper[p] \in {"forked", "reading"}
        <4>1. pc' \in [Starts -> Points]
          BY <1>3, <3>1, GotoType DEF SignalHelper, Points
        <4>2. /\ writers' = [writers EXCEPT ![p] = @ \ {"ruri"}]
              /\ writers2' = writers2
              /\ sent' = [sent EXCEPT ![p] = @ \cup {1}]
          BY <1>3, <3>1 DEF SignalHelper
        <4> QED
          BY <4>1, <4>2, PipesType DEF TypeOK
      <3>2. CASE ~(helper[p] \in {"forked", "reading"})
        BY <1>3, <3>2, EndsType DEF SignalHelper, TypeOK
      <3> QED
        BY <3>1, <3>2
    <2> QED
      BY <1>3, <2>1 DEF SignalHelper, TypeOK
  <1>4. CASE WaitHelper(p)
    <2>1. pc' \in [Starts -> Points] /\ writers' \in [Starts -> SUBSET {"ruri", "helper"}]
            /\ writers2' \in [Starts -> SUBSET {"ruri", "cont"}]
            /\ succeed' \in [Starts -> BOOLEAN]
      BY <1>4, GotoType, EndsType, KeepsType DEF WaitHelper, TypeOK
    <2> QED
      BY <1>4, <2>1 DEF WaitHelper, TypeOK
  <1>5. CASE UnshareOthers(p)
    <2>1. pc' \in [Starts -> Points] /\ writers' \in [Starts -> SUBSET {"ruri", "helper"}]
            /\ writers2' \in [Starts -> SUBSET {"ruri", "cont"}]
      BY <1>5, GotoType, EndsType, KeepsType DEF UnshareOthers
    <2> QED
      BY <1>5, <2>1 DEF UnshareOthers, TypeOK
  <1>6. CASE JoinNamespaces(p)
    <2>1. pc' \in [Starts -> Points] /\ writers' \in [Starts -> SUBSET {"ruri", "helper"}]
            /\ writers2' \in [Starts -> SUBSET {"ruri", "cont"}]
            /\ succeed' \in [Starts -> BOOLEAN]
      BY <1>6, GotoType, EndsType, KeepsType DEF JoinNamespaces, TypeOK
    <2> QED
      BY <1>6, <2>1 DEF JoinNamespaces, TypeOK
  <1>7. CASE Fork(p)
    <2>1. UNCHANGED <<subid, ns, helper, succeed, sent, map, info, kills>>
      BY <1>7 DEF Fork
    <2>2. CASE /\ cont' = [cont EXCEPT ![p] = "ready"]
               /\ writers2' = [writers2 EXCEPT ![p] = {"ruri", "cont"}]
               /\ Goto(p, IF succeed[p] THEN "store" ELSE "set_uid_map") /\ UNCHANGED writers
      <3>1. pc' \in [Starts -> Points]
        BY <2>2, GotoType
      <3>2. cont' \in [Starts -> Containers]
        BY <2>2 DEF TypeOK, Containers
      <3> QED
        BY <2>1, <2>2, <3>1, <3>2, PipesType DEF TypeOK
    <2>3. CASE Ends(p) /\ UNCHANGED cont
      BY <2>1, <2>3, EndsType DEF TypeOK
    <2> QED
      BY <1>7, <2>2, <2>3 DEF Fork
  <1>8. CASE SetUidMap(p)
    <2>1. pc' \in [Starts -> Points] /\ writers' \in [Starts -> SUBSET {"ruri", "helper"}]
            /\ writers2' \in [Starts -> SUBSET {"ruri", "cont"}]
            /\ map' \in [Starts -> [uid : Kinds, gid : Kinds]]
      BY <1>8, UidWritten, GotoType, EndsType, KeepsType DEF SetUidMap, Kinds, TypeOK
    <2> QED
      BY <1>8, <2>1 DEF SetUidMap, TypeOK
  <1>9. CASE SetGidMap(p)
    <2>1. pc' \in [Starts -> Points] /\ writers' \in [Starts -> SUBSET {"ruri", "helper"}]
            /\ writers2' \in [Starts -> SUBSET {"ruri", "cont"}]
            /\ map' \in [Starts -> [uid : Kinds, gid : Kinds]]
      BY <1>9, GidWritten, GotoType, EndsType, KeepsType DEF SetGidMap, Kinds, TypeOK
    <2> QED
      BY <1>9, <2>1 DEF SetGidMap, TypeOK
  <1>10. CASE StoreInfo(p)
    <2>1. pc' \in [Starts -> Points] /\ writers' \in [Starts -> SUBSET {"ruri", "helper"}]
            /\ writers2' \in [Starts -> SUBSET {"ruri", "cont"}]
      BY <1>10, GotoType, EndsType, KeepsType DEF StoreInfo
    <2> QED
      BY <1>10, <2>1 DEF StoreInfo, TypeOK
  <1>11. CASE SendOk(p)
    <2>1. pc' \in [Starts -> Points] /\ writers' \in [Starts -> SUBSET {"ruri", "helper"}]
            /\ writers2' \in [Starts -> SUBSET {"ruri", "cont"}]
            /\ sent' \in [Starts -> SUBSET {1, 2}]
      <3>1. CASE cont[p] \in {"ready", "waiting"}
        <4>1. pc' \in [Starts -> Points]
          BY <1>11, <3>1, GotoType DEF SendOk, Points
        <4>2. /\ writers' = writers
              /\ writers2' = [writers2 EXCEPT ![p] = @ \ {"ruri"}]
              /\ sent' = [sent EXCEPT ![p] = @ \cup {2}]
          BY <1>11, <3>1 DEF SendOk
        <4> QED
          BY <4>1, <4>2, PipesType DEF TypeOK
      <3>2. CASE ~(cont[p] \in {"ready", "waiting"})
        BY <1>11, <3>2, EndsType DEF SendOk, TypeOK
      <3> QED
        BY <3>1, <3>2
    <2> QED
      BY <1>11, <2>1 DEF SendOk, TypeOK
  <1>12. CASE WaitContainer(p)
    <2>1. pc' \in [Starts -> Points] /\ writers' \in [Starts -> SUBSET {"ruri", "helper"}]
            /\ writers2' \in [Starts -> SUBSET {"ruri", "cont"}]
      BY <1>12, GotoType, EndsType, KeepsType DEF WaitContainer
    <2> QED
      BY <1>12, <2>1 DEF WaitContainer, TypeOK
  <1> QED
    BY <1>1, <1>2, <1>3, <1>4, <1>5, <1>6, <1>7, <1>8, <1>9, <1>10, <1>11, <1>12,
       <1>13, <1>14 DEF Ruri

\* So do the steps of the helper and of the container's process, and kills.
LEMMA OthersType ==
  ASSUME TypeOK, NEW p \in Starts,
         HelperSteps(p) \/ ContSteps(p) \/ ContEnds(p) \/ KillRuri(p) \/ KillHelper(p)
  PROVE  TypeOK'
  <1>1. ASSUME HelperCloses(p) \/ HelperReads(p) \/ HelperFails(p) PROVE TypeOK'
    <2>1. PICK from, to \in Helpers : Helper(p, from, to)
      BY <1>1 DEF HelperCloses, HelperReads, HelperFails, Helpers
    <2> QED
      BY <1>1, <2>1, HelperType DEF HelperCloses, HelperReads, HelperFails, TypeOK
  <1>2. ASSUME HelperMaps(p) PROVE TypeOK'
    <2>1. PICK from, to \in Helpers : Helper(p, from, to)
      BY <1>2 DEF HelperMaps, Helpers
    <2>2. map' \in [Starts -> [uid : Kinds, gid : Kinds]]
      BY <1>2, UidWritten, GidWritten DEF HelperMaps, Kinds
    <2>3. kills' \in 0 .. MaxKills
      BY <1>2 DEF HelperMaps, TypeOK
    <2>4. /\ helper' \in [Starts -> Helpers]
          /\ writers' \in [Starts -> SUBSET {"ruri", "helper"}]
          /\ UNCHANGED <<subid, pc, ns, cont, succeed, writers2, sent, info>>
      BY <2>1, HelperType
    <2> QED
      BY <2>2, <2>3, <2>4 DEF TypeOK
  <1>3. ASSUME ContSteps(p) PROVE TypeOK'
    <2>1. CASE ContCloses(p)
      BY <2>1 DEF ContCloses, Container, TypeOK, Containers
    <2>2. CASE ContReads(p)
      BY <2>2 DEF ContReads, Container, TypeOK, Containers
    <2> QED
      BY <1>3, <2>1, <2>2 DEF ContSteps
  <1>4. ASSUME ContEnds(p) PROVE TypeOK'
    BY <1>4 DEF ContEnds, Gone, TypeOK, Containers
  <1>5. ASSUME KillRuri(p) PROVE TypeOK'
    <2>1. kills' \in 0 .. MaxKills
      BY <1>5, MaxKillsAssumption DEF KillRuri, Kill, TypeOK
    <2> QED
      BY <1>5, <2>1, EndsType DEF KillRuri, TypeOK
  <1>6. ASSUME KillHelper(p) PROVE TypeOK'
    <2>1. kills' \in 0 .. MaxKills
      BY <1>6, MaxKillsAssumption DEF KillHelper, Kill, TypeOK
    <2>2. PICK from, to \in Helpers : Helper(p, from, to)
      BY <1>6 DEF KillHelper, Helpers
    <2> QED
      BY <1>6, <2>1, <2>2, HelperType DEF KillHelper, TypeOK
  <1> QED
    BY <1>1, <1>2, <1>3, <1>4, <1>5, <1>6 DEF HelperSteps

\* All together.
LEMMA TypeStep ==
  ASSUME TypeOK, Idle, [Next]_vars
  PROVE  TypeOK'
  <1>1. CASE UNCHANGED vars
    BY <1>1 DEF TypeOK, vars
  <1> QED
    BY <1>1, RuriType, OthersType DEF Next

\* A start that has not begun is left alone.
LEMMA IdleStep ==
  ASSUME TypeOK, Idle, [Next]_vars
  PROVE  Idle'
  <1> SUFFICES ASSUME NEW p \in Starts, Ruri(p) \/ HelperSteps(p) \/ ContSteps(p) \/ ContEnds(p)
                      \/ KillRuri(p) \/ KillHelper(p)
               PROVE  Idle'
    BY DEF Next, vars, TypeOK, Idle
  <1>1. CASE Begin(p) \/ RemoveInfo(p) \/ ForkHelper(p)
    <2>1. /\ info' # NoOne => info' = info
          /\ UNCHANGED <<cont, sent>>
      BY <1>1 DEF Begin, RemoveInfo, ForkHelper
    <2>2. \A q \in Starts : q # p => pc'[q] = pc[q] /\ ns'[q] = ns[q] /\ helper'[q] = helper[q]
      BY <1>1 DEF Begin, RemoveInfo, ForkHelper, Goto, Ends, TypeOK
    <2>3. pc'[p] \in Before => pc[p] \in Before /\ ns'[p] = ns[p] /\ helper'[p] = helper[p]
      BY <1>1 DEF Begin, RemoveInfo, ForkHelper, Goto, Ends, Before, TypeOK
    <2> QED
      BY <2>1, <2>2, <2>3, NoOneAssumption DEF Idle
  <1>2. CASE UnshareUser(p) \/ SignalHelper(p) \/ WaitHelper(p) \/ UnshareOthers(p)
             \/ JoinNamespaces(p) \/ Fork(p) \/ SetUidMap(p) \/ SetGidMap(p)
             \/ StoreInfo(p) \/ SendOk(p) \/ WaitContainer(p)
    BY <1>2
    DEF UnshareUser, Goto, Ends, SignalHelper, WaitHelper, UnshareOthers,
            JoinNamespaces, Up, Fork, SetUidMap, SetGidMap, StoreInfo, SendOk,
            WaitContainer, TypeOK, Idle, Before
  <1>3. CASE HelperCloses(p) \/ HelperReads(p) \/ HelperMaps(p) \/ HelperFails(p)
             \/ ContCloses(p) \/ ContReads(p) \/ ContEnds(p) \/ KillRuri(p)
             \/ KillHelper(p)
    BY <1>3
    DEF HelperCloses, Helper, HelperReads, HelperMaps, HelperFails,
            ContCloses, Container, ContReads, ContEnds, Gone, KillRuri, Goto,
            Ends, KillHelper, TypeOK, Idle, Before
  <1> QED
    BY <1>1, <1>2, <1>3 DEF Ruri, HelperSteps, ContSteps

\* What stays of q's maps and helper.
Stays(q) ==
  /\ map[q].uid # "none" => map'[q].uid = map[q].uid
  /\ map[q].gid # "none" => map'[q].gid = map[q].gid
  /\ Mapped(q) => Mapped(q)'

\* A helper that was killed takes no step.
LEMMA KilledStays ==
  ASSUME TypeOK, NEW p \in Starts, NEW from, NEW to, Helper(p, from, to), from # "killed",
         NEW q \in Starts, helper[q] = "killed"
  PROVE  helper'[q] = "killed"
  BY DEF TypeOK, Helper

\* A map that is written stays, and so does a helper that was killed.
LEMMA MapsStay ==
  ASSUME TypeOK, Idle, [Next]_vars, NEW q \in Starts
  PROVE  Stays(q)
  <1> SUFFICES ASSUME NEW p \in Starts, Ruri(p) \/ HelperSteps(p) \/ ContSteps(p) \/ ContEnds(p)
                      \/ KillRuri(p) \/ KillHelper(p)
               PROVE  Stays(q)
    BY DEF Next, vars, TypeOK, Idle, Stays, Mapped
  <1>1. CASE Begin(p) \/ RemoveInfo(p) \/ ForkHelper(p)
    <2>1. \A r \in Starts : r # p => helper'[r] = helper[r]
      BY <1>1 DEF Begin, RemoveInfo, ForkHelper, TypeOK
    <2>2. helper[p] # "killed" /\ UNCHANGED map
      BY <1>1 DEF Begin, RemoveInfo, ForkHelper, Idle, Before
    <2> QED
      BY <2>1, <2>2 DEF Stays, Mapped
  <1>2. CASE UnshareUser(p) \/ SignalHelper(p) \/ WaitHelper(p) \/ UnshareOthers(p)
             \/ JoinNamespaces(p) \/ Fork(p) \/ StoreInfo(p) \/ SendOk(p)
             \/ WaitContainer(p) \/ ContCloses(p) \/ ContReads(p) \/ ContEnds(p)
             \/ KillRuri(p)
    <2>1. UNCHANGED <<map, helper>>
      BY <1>2
      DEF UnshareUser, Goto, Ends, SignalHelper, WaitHelper, UnshareOthers,
            JoinNamespaces, Up, Fork, StoreInfo, SendOk, WaitContainer,
            ContCloses, Container, ContReads, ContEnds, Gone, KillRuri
    <2> QED
      BY <2>1 DEF Stays, Mapped
  <1>3. CASE SetUidMap(p)
    <2>1. CASE UNCHANGED map
      BY <1>3, <2>1 DEF SetUidMap, Stays, Mapped
    <2>2. CASE map[ns[p]].uid = "none" /\ map' = [map EXCEPT ![ns[p]].uid = "self"]
      <3>1. ns[p] \in Starts /\ "self" \in Kinds
        BY DEF TypeOK, Kinds
      <3>2. map'[ns[p]].uid = "self" /\ map'[ns[p]].gid = map[ns[p]].gid
        BY <2>2, <3>1 DEF TypeOK
      <3>3. \A r \in Starts : r # ns[p] => map'[r] = map[r]
        BY <2>2, <3>1 DEF TypeOK
      <3>4. map[ns[p]] \notin Whole
        BY <2>2 DEF Whole
      <3> QED
        BY <1>3, <2>2, <3>2, <3>3, <3>4 DEF SetUidMap, Stays, Mapped
    <2> QED
      BY <1>3, <2>1, <2>2 DEF SetUidMap
  <1>4. CASE SetGidMap(p)
    <2>1. CASE UNCHANGED map
      BY <1>4, <2>1 DEF SetGidMap, Stays, Mapped
    <2>2. CASE map[ns[p]].gid = "none" /\ map' = [map EXCEPT ![ns[p]].gid = "self"]
      <3>1. ns[p] \in Starts /\ "self" \in Kinds
        BY DEF TypeOK, Kinds
      <3>2. map'[ns[p]].gid = "self" /\ map'[ns[p]].uid = map[ns[p]].uid
        BY <2>2, <3>1 DEF TypeOK
      <3>3. \A r \in Starts : r # ns[p] => map'[r] = map[r]
        BY <2>2, <3>1 DEF TypeOK
      <3>4. map[ns[p]] \notin Whole
        BY <2>2 DEF Whole
      <3> QED
        BY <1>4, <2>2, <3>2, <3>3, <3>4 DEF SetGidMap, Stays, Mapped
    <2> QED
      BY <1>4, <2>1, <2>2 DEF SetGidMap
  <1>5. CASE HelperCloses(p)
    <2>1. PICK from, to : Helper(p, from, to) /\ from # "killed"
      BY <1>5 DEF HelperCloses
    <2>2. UNCHANGED map
      BY <1>5 DEF HelperCloses
    <2> QED
      BY <2>1, <2>2, KilledStays DEF Stays, Mapped
  <1>6. CASE HelperReads(p)
    <2>1. PICK from, to : Helper(p, from, to) /\ from # "killed"
      BY <1>6 DEF HelperReads
    <2>2. UNCHANGED map
      BY <1>6 DEF HelperReads
    <2> QED
      BY <2>1, <2>2, KilledStays DEF Stays, Mapped
  <1>7. CASE HelperMaps(p)
    <2>1. PICK from, to : Helper(p, from, to) /\ from # "killed"
      BY <1>7 DEF HelperMaps
    <2>2. CASE map[p].uid = "none" /\ map' = [map EXCEPT ![p].uid = "range"]
      BY <2>1, <2>2, KilledStays DEF Stays, Mapped, TypeOK, Whole
    <2>3. CASE map[p].gid = "none" /\ map' = [map EXCEPT ![p].gid = "range"]
      BY <2>1, <2>3, KilledStays DEF Stays, Mapped, TypeOK, Whole
    <2> QED
      BY <1>7, <2>2, <2>3 DEF HelperMaps
  <1>8. CASE HelperFails(p)
    <2>1. PICK from, to : Helper(p, from, to) /\ from # "killed"
      BY <1>8 DEF HelperFails
    <2>2. UNCHANGED map
      BY <1>8 DEF HelperFails
    <2> QED
      BY <2>1, <2>2, KilledStays DEF Stays, Mapped
  <1>9. CASE KillHelper(p)
    <2>1. PICK from, to : Helper(p, from, to) /\ from # "killed"
      BY <1>9 DEF KillHelper
    <2>2. UNCHANGED map
      BY <1>9 DEF KillHelper
    <2> QED
      BY <2>1, <2>2, KilledStays DEF Stays, Mapped
  <1> QED
    BY <1>1, <1>2, <1>3, <1>4, <1>5, <1>6, <1>7, <1>8, <1>9
    DEF Ruri, HelperSteps, ContSteps

\* Nobody but the helper and its start matters.
LEMMA HelperWaits ==
  ASSUME TypeOK, TypeOK', HelperWrites, \A q \in Starts : Stays(q), UNCHANGED <<helper, ns>>
  PROVE  HelperWrites'
  <1>1. SUFFICES ASSUME NEW p \in Starts
                 PROVE  /\ helper[p] = "newgidmap" => map'[p].uid = "range"
                        /\ helper[p] = "ok" /\ ns[p] = p
                             => map'[p] = [uid |-> "range", gid |-> "range"]
    BY DEF HelperWrites
  <1>2. map'[p] \in [uid : Kinds, gid : Kinds]
    BY DEF TypeOK
  <1> QED
    BY <1>2 DEF HelperWrites, Stays

\* What the helper has written is its own.
LEMMA HelperWritesStep ==
  ASSUME TypeOK, Idle, HelperWrites, [Next]_vars
  PROVE  HelperWrites'
  <1> SUFFICES ASSUME NEW p \in Starts, Ruri(p) \/ HelperSteps(p) \/ ContSteps(p) \/ ContEnds(p)
                      \/ KillRuri(p) \/ KillHelper(p)
               PROVE  HelperWrites'
    BY DEF Next, vars, TypeOK, Idle, HelperWrites, Stays
  <1>1. CASE Begin(p) \/ RemoveInfo(p) \/ ForkHelper(p)
    <2>1. \A q \in Starts : q # p => helper'[q] = helper[q] /\ ns'[q] = ns[q]
      BY <1>1 DEF Begin, RemoveInfo, ForkHelper, TypeOK
    <2>2. helper'[p] # "newgidmap" /\ (helper'[p] = "ok" => ns'[p] # p)
      BY <1>1 DEF Begin, RemoveInfo, ForkHelper, Idle, Before, TypeOK, Up
    <2>3. UNCHANGED map
      BY <1>1 DEF Begin, RemoveInfo, ForkHelper
    <2> QED
      BY <2>1, <2>2, <2>3 DEF HelperWrites
  <1>2. CASE UnshareUser(p) \/ SignalHelper(p) \/ WaitHelper(p) \/ UnshareOthers(p)
             \/ JoinNamespaces(p) \/ Fork(p) \/ SetUidMap(p) \/ SetGidMap(p)
             \/ StoreInfo(p) \/ SendOk(p) \/ WaitContainer(p) \/ ContCloses(p)
             \/ ContReads(p) \/ ContEnds(p) \/ KillRuri(p)
    <2>1. UNCHANGED <<helper, ns>>
      BY <1>2
      DEF UnshareUser, Goto, Ends, SignalHelper, WaitHelper, UnshareOthers,
            JoinNamespaces, Up, Fork, SetUidMap, SetGidMap, StoreInfo, SendOk,
            WaitContainer, ContCloses, Container, ContReads, ContEnds, Gone,
            KillRuri
    <2>2. TypeOK' /\ \A q \in Starts : Stays(q)
      BY TypeStep, MapsStay
    <2> QED
      BY <2>1, <2>2, HelperWaits
  <1>3. CASE HelperCloses(p)
    <2>1. helper'[p] \notin {"newgidmap", "ok"}
      BY <1>3 DEF HelperCloses, Helper, TypeOK
    <2>2. \A q \in Starts : q # p => helper'[q] = helper[q]
      BY <1>3 DEF HelperCloses, Helper, TypeOK
    <2>3. UNCHANGED <<map, ns>>
      BY <1>3 DEF HelperCloses, Helper
    <2> QED
      BY <2>1, <2>2, <2>3 DEF HelperWrites
  <1>4. CASE HelperReads(p)
    <2>1. helper'[p] \notin {"newgidmap", "ok"}
      BY <1>4 DEF HelperReads, Helper, TypeOK
    <2>2. \A q \in Starts : q # p => helper'[q] = helper[q]
      BY <1>4 DEF HelperReads, Helper, TypeOK
    <2>3. UNCHANGED <<map, ns>>
      BY <1>4 DEF HelperReads, Helper
    <2> QED
      BY <2>1, <2>2, <2>3 DEF HelperWrites
  <1>5. CASE HelperMaps(p)
    <2>1. \A q \in Starts : q # p => helper'[q] = helper[q]
      BY <1>5 DEF HelperMaps, Helper, TypeOK
    <2>2. UNCHANGED ns
      BY <1>5 DEF HelperMaps, Helper
    <2>3. \A q \in Starts : q # p => map'[q] = map[q]
      BY <1>5 DEF HelperMaps, TypeOK
    <2>4. CASE helper'[p] = "newgidmap" /\ map' = [map EXCEPT ![p].uid = "range"]
      BY <2>1, <2>2, <2>3, <2>4 DEF HelperWrites, TypeOK
    <2>5. CASE helper[p] = "newgidmap" /\ helper'[p] = "ok"
        /\ map' = [map EXCEPT ![p].gid = "range"]
      BY <2>1, <2>2, <2>3, <2>5 DEF HelperWrites, TypeOK
    <2> QED
      BY <1>5, <2>4, <2>5 DEF HelperMaps, Helper, TypeOK
  <1>6. CASE HelperFails(p)
    <2>1. helper'[p] \notin {"newgidmap", "ok"}
      BY <1>6 DEF HelperFails, Helper, TypeOK
    <2>2. \A q \in Starts : q # p => helper'[q] = helper[q]
      BY <1>6 DEF HelperFails, Helper, TypeOK
    <2>3. UNCHANGED <<map, ns>>
      BY <1>6 DEF HelperFails, Helper
    <2> QED
      BY <2>1, <2>2, <2>3 DEF HelperWrites
  <1>7. CASE KillHelper(p)
    <2>1. helper'[p] \notin {"newgidmap", "ok"}
      BY <1>7 DEF KillHelper, Helper, TypeOK
    <2>2. \A q \in Starts : q # p => helper'[q] = helper[q]
      BY <1>7 DEF KillHelper, Helper, TypeOK
    <2>3. UNCHANGED <<map, ns>>
      BY <1>7 DEF KillHelper, Helper
    <2> QED
      BY <2>1, <2>2, <2>3 DEF HelperWrites
  <1> QED
    BY <1>1, <1>2, <1>3, <1>4, <1>5, <1>6, <1>7 DEF Ruri, HelperSteps, ContSteps

\* A start that is not the one to step.
LEMMA RuriWaits ==
  ASSUME TypeOK, NEW q \in Starts, RuriKnows(q), \A r \in Starts : Stays(r),
         pc'[q] = pc[q], ns'[q] = ns[q], succeed'[q] = succeed[q]
  PROVE  RuriKnows(q)'
  <1>1. ns[q] \in Starts
    BY DEF TypeOK
  <1>2. Mapped(ns[q]) => Mapped(ns[q])'
    BY <1>1 DEF Stays
  <1>3. Mapped(ns[q])' <=> (map'[ns'[q]] \in Whole \/ helper'[ns'[q]] = "killed")
    BY DEF Mapped
  <1>4. map[ns[q]].uid # "none" => map'[ns[q]].uid = map[ns[q]].uid
    BY <1>1 DEF Stays
  <1> QED
    BY <1>2, <1>3, <1>4 DEF RuriKnows, Mapped

\* A container's process that does not go on.
LEMMA ContWaits ==
  ASSUME TypeOK, NEW q \in Starts, ContKnows(q), \A r \in Starts : Stays(r), ns'[q] = ns[q],
         cont'[q] = "running" => cont[q] = "running" \/ 2 \in sent[q],
         2 \in sent'[q] => 2 \in sent[q]
  PROVE  ContKnows(q)'
  BY DEF TypeOK, ContKnows, Stays, Mapped

\* Whoever goes on has the maps the next call needs.
LEMMA RuriWritesStep ==
  ASSUME TypeOK, Idle, HelperWrites, RuriWrites, Follow, [Next]_vars
  PROVE  RuriWrites'
  <1> SUFFICES ASSUME NEW p \in Starts, Ruri(p) \/ HelperSteps(p) \/ ContSteps(p) \/ ContEnds(p)
                      \/ KillRuri(p) \/ KillHelper(p)
               PROVE  RuriWrites'
    BY DEF Next, vars, RuriWrites, RuriKnows, Mapped
  <1>1. CASE Begin(p) \/ RemoveInfo(p) \/ ForkHelper(p)
    <2>1. \A q \in Starts : q # p => pc'[q] = pc[q] /\ ns'[q] = ns[q]
        /\ succeed'[q] = succeed[q]
      BY <1>1 DEF Begin, RemoveInfo, ForkHelper, TypeOK, Goto, Ends, Up
    <2>2. RuriKnows(p)'
      <3>1. CASE pc'[p] = "join"
        <4>1. Up(info) /\ ns'[p] = info
          BY <1>1, <3>1 DEF Begin, RemoveInfo, ForkHelper, Goto, Ends, TypeOK
        <4>2. info \in Starts
          BY <4>1 DEF Up, TypeOK
        <4>3. map'[info] \in Whole \/ helper'[info] = "killed"
          BY <4>2, MapsStay, NoOneAssumption DEF Follow, Stays, Mapped
        <4> QED
          BY <3>1, <4>1, <4>3 DEF RuriKnows, Mapped
      <3>2. CASE pc'[p] = "unshare"
        <4>1. ns'[p] = p
          BY <1>1, <3>2 DEF Begin, RemoveInfo, ForkHelper, Goto, Ends, TypeOK, Idle, Before
        <4> QED
          BY <3>2, <4>1 DEF RuriKnows
      <3>3. pc'[p] \in {"join", "unshare", "remove", "pipe", "end"}
        BY <1>1 DEF Begin, RemoveInfo, ForkHelper, Goto, Ends, TypeOK
      <3> QED
        BY <3>1, <3>2, <3>3 DEF RuriKnows
    <2>3. \A r \in Starts : Stays(r)
      BY MapsStay
    <2> QED
      BY <2>1, <2>2, <2>3, RuriWaits DEF RuriWrites
  <1>2. CASE UnshareUser(p)
    <2>1. \A q \in Starts : q # p => pc'[q] = pc[q] /\ ns'[q] = ns[q]
        /\ succeed'[q] = succeed[q]
      BY <1>2 DEF UnshareUser, TypeOK, Goto, Ends
    <2>2. RuriKnows(p)'
      BY <1>2, MapsStay
      DEF UnshareUser, Goto, Ends, TypeOK, RuriWrites, RuriKnows, Stays, Mapped
    <2>3. \A r \in Starts : Stays(r)
      BY MapsStay
    <2> QED
      BY <2>1, <2>2, <2>3, RuriWaits DEF RuriWrites
  <1>3. CASE SignalHelper(p)
    <2>1. \A q \in Starts : q # p => pc'[q] = pc[q] /\ ns'[q] = ns[q]
        /\ succeed'[q] = succeed[q]
      BY <1>3 DEF SignalHelper, TypeOK, Goto, Ends
    <2>2. RuriKnows(p)'
      BY <1>3, MapsStay
      DEF SignalHelper, Goto, Ends, TypeOK, RuriWrites, RuriKnows, Stays, Mapped
    <2>3. \A r \in Starts : Stays(r)
      BY MapsStay
    <2> QED
      BY <2>1, <2>2, <2>3, RuriWaits DEF RuriWrites
  <1>4. CASE WaitHelper(p)
    <2>1. \A q \in Starts : q # p => pc'[q] = pc[q] /\ ns'[q] = ns[q]
        /\ succeed'[q] = succeed[q]
      BY <1>4 DEF WaitHelper, TypeOK, Goto, Ends
    <2>2. RuriKnows(p)'
      <3>1. ns[p] = p /\ ns'[p] = p /\ pc'[p] = "spaces"
        BY <1>4 DEF WaitHelper, Goto, TypeOK, RuriWrites, RuriKnows
      <3>2. succeed'[p] => helper[p] \in {"ok", "killed"}
        BY <1>4 DEF WaitHelper, TypeOK
      <3>3. helper[p] \in {"ok", "killed"} => Mapped(p)
        BY <3>1 DEF HelperWrites, Mapped, Whole
      <3>4. Mapped(p) => Mapped(p)'
        BY MapsStay DEF Stays
      <3> QED
        BY <3>1, <3>2, <3>3, <3>4 DEF RuriKnows, Mapped
    <2>3. \A r \in Starts : Stays(r)
      BY MapsStay
    <2> QED
      BY <2>1, <2>2, <2>3, RuriWaits DEF RuriWrites
  <1>5. CASE UnshareOthers(p)
    <2>1. \A q \in Starts : q # p => pc'[q] = pc[q] /\ ns'[q] = ns[q]
        /\ succeed'[q] = succeed[q]
      BY <1>5 DEF UnshareOthers, TypeOK, Goto, Ends
    <2>2. RuriKnows(p)'
      BY <1>5, MapsStay
      DEF UnshareOthers, Goto, Ends, TypeOK, RuriWrites, RuriKnows, Stays, Mapped
    <2>3. \A r \in Starts : Stays(r)
      BY MapsStay
    <2> QED
      BY <2>1, <2>2, <2>3, RuriWaits DEF RuriWrites
  <1>6. CASE JoinNamespaces(p)
    <2>1. \A q \in Starts : q # p => pc'[q] = pc[q] /\ ns'[q] = ns[q]
        /\ succeed'[q] = succeed[q]
      BY <1>6 DEF JoinNamespaces, TypeOK, Goto, Ends, Up
    <2>2. RuriKnows(p)'
      BY <1>6, MapsStay
      DEF JoinNamespaces, Goto, Ends, Up, TypeOK, RuriWrites, RuriKnows, Stays, Mapped
    <2>3. \A r \in Starts : Stays(r)
      BY MapsStay
    <2> QED
      BY <2>1, <2>2, <2>3, RuriWaits DEF RuriWrites
  <1>7. CASE Fork(p)
    <2>1. \A q \in Starts : q # p => pc'[q] = pc[q] /\ ns'[q] = ns[q]
        /\ succeed'[q] = succeed[q]
      BY <1>7 DEF Fork, TypeOK, Goto, Ends, Up
    <2>2. RuriKnows(p)'
      BY <1>7, MapsStay
      DEF Fork, Goto, Ends, Up, TypeOK, RuriWrites, RuriKnows, Stays, Mapped
    <2>3. \A r \in Starts : Stays(r)
      BY MapsStay
    <2> QED
      BY <2>1, <2>2, <2>3, RuriWaits DEF RuriWrites
  <1>8. CASE SetUidMap(p)
    <2>1. \A q \in Starts : q # p => pc'[q] = pc[q] /\ ns'[q] = ns[q]
        /\ succeed'[q] = succeed[q]
      BY <1>8 DEF SetUidMap, TypeOK, Goto, Ends
    <2>2. RuriKnows(p)'
      BY <1>8, MapsStay
      DEF SetUidMap, Goto, Ends, TypeOK, RuriWrites, RuriKnows, Stays, Mapped
    <2>3. \A r \in Starts : Stays(r)
      BY MapsStay
    <2> QED
      BY <2>1, <2>2, <2>3, RuriWaits DEF RuriWrites
  <1>9. CASE SetGidMap(p)
    <2>1. \A q \in Starts : q # p => pc'[q] = pc[q] /\ ns'[q] = ns[q]
        /\ succeed'[q] = succeed[q]
      BY <1>9 DEF SetGidMap, TypeOK, Goto, Ends
    <2>2. RuriKnows(p)'
      <3>1. CASE Ends(p)
        BY <3>1 DEF Ends, Goto, RuriKnows, TypeOK
      <3>2. CASE map' = [map EXCEPT ![ns[p]].gid = "self"] /\ Goto(p, "store")
        <4>1. ns[p] \in Starts /\ map[ns[p]] \in [uid : Kinds, gid : Kinds]
            /\ map[ns[p]].uid = "self"
          BY <1>9 DEF SetGidMap, TypeOK, RuriWrites, RuriKnows
        <4>2. map'[ns[p]] = [uid |-> "self", gid |-> "self"]
          BY <3>2, <4>1 DEF TypeOK
        <4>3. ns'[p] = ns[p] /\ pc'[p] = "store"
          BY <1>9, <3>2 DEF SetGidMap, Goto, TypeOK
        <4> QED
          BY <4>2, <4>3 DEF RuriKnows, Mapped, Whole
      <3> QED
        BY <1>9, <3>1, <3>2 DEF SetGidMap
    <2>3. \A r \in Starts : Stays(r)
      BY MapsStay
    <2> QED
      BY <2>1, <2>2, <2>3, RuriWaits DEF RuriWrites
  <1>10. CASE StoreInfo(p)
    <2>1. \A q \in Starts : q # p => pc'[q] = pc[q] /\ ns'[q] = ns[q]
        /\ succeed'[q] = succeed[q]
      BY <1>10 DEF StoreInfo, TypeOK, Goto, Ends
    <2>2. RuriKnows(p)'
      BY <1>10, MapsStay
      DEF StoreInfo, Goto, Ends, TypeOK, RuriWrites, RuriKnows, Stays, Mapped
    <2>3. \A r \in Starts : Stays(r)
      BY MapsStay
    <2> QED
      BY <2>1, <2>2, <2>3, RuriWaits DEF RuriWrites
  <1>11. CASE SendOk(p)
    <2>1. \A q \in Starts : q # p => pc'[q] = pc[q] /\ ns'[q] = ns[q]
        /\ succeed'[q] = succeed[q]
      BY <1>11 DEF SendOk, TypeOK, Goto, Ends
    <2>2. RuriKnows(p)'
      BY <1>11, MapsStay
      DEF SendOk, Goto, Ends, TypeOK, RuriWrites, RuriKnows, Stays, Mapped
    <2>3. \A r \in Starts : Stays(r)
      BY MapsStay
    <2> QED
      BY <2>1, <2>2, <2>3, RuriWaits DEF RuriWrites
  <1>12. CASE WaitContainer(p)
    <2>1. \A q \in Starts : q # p => pc'[q] = pc[q] /\ ns'[q] = ns[q]
        /\ succeed'[q] = succeed[q]
      BY <1>12 DEF WaitContainer, TypeOK, Goto, Ends
    <2>2. RuriKnows(p)'
      BY <1>12, MapsStay
      DEF WaitContainer, Goto, Ends, TypeOK, RuriWrites, RuriKnows, Stays, Mapped
    <2>3. \A r \in Starts : Stays(r)
      BY MapsStay
    <2> QED
      BY <2>1, <2>2, <2>3, RuriWaits DEF RuriWrites
  <1>13. CASE HelperCloses(p) \/ HelperReads(p) \/ HelperMaps(p) \/ HelperFails(p)
             \/ ContCloses(p) \/ ContReads(p) \/ ContEnds(p) \/ KillHelper(p)
    <2>1. UNCHANGED <<pc, ns, succeed>>
      BY <1>13
      DEF HelperCloses, Helper, HelperReads, HelperMaps, HelperFails,
            ContCloses, Container, ContReads, ContEnds, Gone, KillHelper
    <2>2. \A r \in Starts : Stays(r)
      BY MapsStay
    <2> QED
      BY <2>1, <2>2, RuriWaits DEF RuriWrites
  <1>14. CASE KillRuri(p)
    <2>1. \A q \in Starts : q # p => pc'[q] = pc[q] /\ ns'[q] = ns[q]
        /\ succeed'[q] = succeed[q]
      BY <1>14 DEF KillRuri, TypeOK, Goto, Ends
    <2>2. RuriKnows(p)'
      BY <1>14, MapsStay
      DEF KillRuri, TypeOK, Goto, Ends, RuriWrites, RuriKnows, Stays, Mapped
    <2>3. \A r \in Starts : Stays(r)
      BY MapsStay
    <2> QED
      BY <2>1, <2>2, <2>3, RuriWaits DEF RuriWrites
  <1> QED
    BY <1>1, <1>2, <1>3, <1>4, <1>5, <1>6, <1>7, <1>8, <1>9, <1>10, <1>11, <1>12,
       <1>13, <1>14 DEF Ruri, HelperSteps, ContSteps

\* What waits for the maps comes after them.
LEMMA FollowStep ==
  ASSUME TypeOK, Idle, HelperWrites, RuriWrites, Follow, [Next]_vars
  PROVE  Follow'
  <1> SUFFICES ASSUME NEW p \in Starts, Ruri(p) \/ HelperSteps(p) \/ ContSteps(p) \/ ContEnds(p)
                      \/ KillRuri(p) \/ KillHelper(p)
               PROVE  Follow'
    BY DEF Next, vars, Follow, ContKnows, Mapped
  <1>1. CASE Begin(p) \/ RemoveInfo(p) \/ ForkHelper(p)
    <2>1. \A r \in Starts : Stays(r)
      BY MapsStay
    <2>2. \A q \in Starts : q # p => ns'[q] = ns[q]
      BY <1>1 DEF Begin, RemoveInfo, ForkHelper, TypeOK
    <2>3. UNCHANGED <<cont, sent>>
      BY <1>1 DEF Begin, RemoveInfo, ForkHelper
    <2>4. cont[p] = "none" /\ sent[p] = {}
      BY <1>1 DEF Begin, RemoveInfo, ForkHelper, Idle, Before
    <2>5. \A q \in Starts : q # p => ContKnows(q)'
      BY <2>1, <2>2, <2>3, ContWaits DEF Follow
    <2>6. ContKnows(p)'
      BY <2>3, <2>4 DEF ContKnows
    <2>7. info' # NoOne => info' = info
      BY <1>1 DEF Begin, RemoveInfo, ForkHelper
    <2> QED
      BY <2>1, <2>5, <2>6, <2>7 DEF Follow, TypeOK, Stays
  <1>2. CASE UnshareUser(p) \/ SignalHelper(p) \/ WaitHelper(p) \/ UnshareOthers(p)
             \/ JoinNamespaces(p) \/ Fork(p) \/ SetUidMap(p) \/ SetGidMap(p)
             \/ WaitContainer(p)
    <2>1. \A r \in Starts : Stays(r)
      BY MapsStay
    <2>2. \A q \in Starts : /\ ns'[q] = ns[q]
                            /\ cont'[q] = "running" => cont[q] = "running" \/ 2 \in sent[q]
                            /\ 2 \in sent'[q] => 2 \in sent[q]
      BY <1>2
      DEF UnshareUser, Goto, Ends, SignalHelper, WaitHelper, UnshareOthers,
            JoinNamespaces, Up, Fork, SetUidMap, SetGidMap, WaitContainer, TypeOK
    <2>3. info' # NoOne => info' = info
      BY <1>2
      DEF UnshareUser, Goto, Ends, SignalHelper, WaitHelper, UnshareOthers,
            JoinNamespaces, Up, Fork, SetUidMap, SetGidMap, WaitContainer
    <2> QED
      BY <2>1, <2>2, <2>3, ContWaits DEF Follow, TypeOK, Stays
  <1>3. CASE StoreInfo(p)
    <2>1. \A r \in Starts : Stays(r)
      BY MapsStay
    <2>2. UNCHANGED <<cont, sent, ns>>
      BY <1>3 DEF StoreInfo
    <2>3. \A q \in Starts : ContKnows(q)'
      BY <2>1, <2>2, ContWaits DEF Follow
    <2>4. Mapped(ns[p])
      BY <1>3 DEF StoreInfo, RuriWrites, RuriKnows
    <2>5. info' = info \/ (info' = p /\ ns[p] = p)
      BY <1>3 DEF StoreInfo
    <2>6. info' # NoOne => info' \in Starts /\ Mapped(info')
      BY <2>4, <2>5 DEF Follow, TypeOK, Mapped
    <2>7. info' # NoOne => map'[info'] \in Whole \/ helper'[info'] = "killed"
      BY <2>1, <2>6 DEF Stays, Mapped
    <2> QED
      BY <2>3, <2>7 DEF Follow, Mapped
  <1>4. CASE SendOk(p)
    <2>1. \A r \in Starts : Stays(r)
      BY MapsStay
    <2>2. UNCHANGED <<cont, ns, info>>
      BY <1>4 DEF SendOk
    <2>3. \A q \in Starts : q # p => sent'[q] = sent[q]
      BY <1>4 DEF SendOk, TypeOK
    <2>4. \A q \in Starts : q # p => ContKnows(q)'
      BY <2>1, <2>2, <2>3, ContWaits DEF Follow
    <2>5. Mapped(ns[p]) /\ ns[p] \in Starts
      BY <1>4 DEF SendOk, RuriWrites, RuriKnows, TypeOK
    <2>6. ContKnows(p)'
      BY <2>1, <2>2, <2>5 DEF ContKnows, Stays, Mapped
    <2> QED
      BY <2>1, <2>2, <2>4, <2>6 DEF Follow, TypeOK, Stays, Mapped
  <1>5. CASE HelperCloses(p) \/ HelperReads(p) \/ HelperMaps(p) \/ HelperFails(p)
             \/ KillRuri(p) \/ KillHelper(p)
    <2>1. \A r \in Starts : Stays(r)
      BY MapsStay
    <2>2. \A q \in Starts : /\ ns'[q] = ns[q]
                            /\ cont'[q] = "running" => cont[q] = "running" \/ 2 \in sent[q]
                            /\ 2 \in sent'[q] => 2 \in sent[q]
      BY <1>5
      DEF HelperCloses, Helper, HelperReads, HelperMaps, HelperFails, KillRuri,
            Goto, Ends, KillHelper, TypeOK
    <2>3. info' # NoOne => info' = info
      BY <1>5
      DEF HelperCloses, Helper, HelperReads, HelperMaps, HelperFails, KillRuri,
            Goto, Ends, KillHelper
    <2> QED
      BY <2>1, <2>2, <2>3, ContWaits DEF Follow, TypeOK, Stays
  <1>6. CASE ContCloses(p) \/ ContReads(p) \/ ContEnds(p)
    <2>1. \A r \in Starts : Stays(r)
      BY MapsStay
    <2>2. \A q \in Starts : /\ ns'[q] = ns[q]
                            /\ cont'[q] = "running" => cont[q] = "running" \/ 2 \in sent[q]
                            /\ 2 \in sent'[q] => 2 \in sent[q]
      BY <1>6
      DEF ContCloses, Container, ContReads, ContEnds, Gone, TypeOK
    <2>3. info' # NoOne => info' = info
      BY <1>6
      DEF ContCloses, Container, ContReads, ContEnds, Gone
    <2> QED
      BY <2>1, <2>2, <2>3, ContWaits DEF Follow, TypeOK, Stays
  <1> QED
    BY <1>1, <1>2, <1>3, <1>4, <1>5, <1>6 DEF Ruri, HelperSteps, ContSteps

-----------------------------------------------------------------------------
(* Who waits at a pipe *)

\* Who holds the writing end of a pipe is still on his way to write to it or to close
\* it: ruri until it has written or ended, the other side until it has closed what it
\* got at fork().  (A process that ended before it closed its end left nobody waiting.)
WritersOf(p) ==
  /\ "ruri" \in writers[p] => pc[p] \in {"unshare", "signal"}
  /\ "helper" \in writers[p] => helper[p] = "forked"
  /\ "ruri" \in writers2[p] => pc[p] \in {"set_uid_map", "set_gid_map", "store", "go"}
  /\ "cont" \in writers2[p] => cont[p] \in {"ready", "end"}
PipesEnd == \A p \in Starts : WritersOf(p)

\* Whoever waits at a pipe has been written to, or is about to be, by a ruri that has
\* not ended, or finds the end of the pipe.
WaitIsOver(p) ==
  /\ helper[p] = "reading" =>
       1 \in sent[p] \/ writers[p] = {} \/ pc[p] \in {"unshare", "signal"}
  /\ cont[p] = "waiting" =>
       \/ 2 \in sent[p] \/ writers2[p] = {}
       \/ pc[p] \in {"set_uid_map", "set_gid_map", "store", "go"}
NobodyIsForgotten == \A p \in Starts : WaitIsOver(p)

\* A start whose processes stay where they are, and open no pipe.
LEMMA WritersWait ==
  ASSUME NEW q \in Starts, WritersOf(q), pc'[q] = pc[q], helper'[q] = helper[q],
         cont'[q] = cont[q] \/ cont'[q] = "end",
         writers'[q] = writers[q], writers2'[q] = writers2[q]
  PROVE  WritersOf(q)'
  BY DEF WritersOf

\* ruri ends, and its ends of both pipes are closed.
LEMMA EndsCloses ==
  ASSUME TypeOK, PipesEnd, NEW p \in Starts, Ends(p), UNCHANGED <<helper, cont>>
  PROVE  PipesEnd'
  <1>1. \A q \in Starts : q # p =>
          pc'[q] = pc[q] /\ writers'[q] = writers[q] /\ writers2'[q] = writers2[q]
    BY DEF Ends, Goto, TypeOK
  <1>2. writers'[p] = writers[p] \ {"ruri"} /\ writers2'[p] = writers2[p] \ {"ruri"}
    BY DEF Ends, TypeOK
  <1>3. WritersOf(p)'
    BY <1>2 DEF PipesEnd, WritersOf
  <1>4. \A q \in Starts : q # p => WritersOf(q)'
    BY <1>1, WritersWait DEF PipesEnd
  <1> QED
    BY <1>3, <1>4 DEF PipesEnd

\* ruri goes on where neither pipe is open for it before, or from one call to the next
\* with the same pipe open.
LEMMA KeepsOpen ==
  ASSUME TypeOK, PipesEnd, NEW p \in Starts, NEW l \in Points, Goto(p, l), Keeps,
         UNCHANGED <<helper, cont>>,
         pc[p] \in {"unshare", "signal"} => l \in {"unshare", "signal"},
         pc[p] \in {"set_uid_map", "set_gid_map", "store", "go"} =>
           l \in {"set_uid_map", "set_gid_map", "store", "go"}
  PROVE  PipesEnd'
  <1>1. pc'[p] = l /\ \A q \in Starts : q # p => pc'[q] = pc[q]
    BY DEF Goto, TypeOK
  <1>2. WritersOf(p)'
    BY <1>1 DEF PipesEnd, WritersOf, Keeps
  <1>3. \A q \in Starts : q # p => WritersOf(q)'
    BY <1>1, WritersWait DEF PipesEnd, Keeps
  <1> QED
    BY <1>2, <1>3 DEF PipesEnd

\* A step of the helper: it has closed its end of the pipe.
LEMMA HelperOpens ==
  ASSUME TypeOK, PipesEnd, NEW p \in Starts, NEW from, NEW to, Helper(p, from, to)
  PROVE  PipesEnd'
  <1>1. \A q \in Starts : q # p => helper'[q] = helper[q] /\ writers'[q] = writers[q]
    BY DEF Helper, TypeOK
  <1>2. writers'[p] = writers[p] \ {"helper"}
    BY DEF Helper, TypeOK
  <1>3. UNCHANGED <<pc, cont, writers2>>
    BY DEF Helper
  <1>4. WritersOf(p)'
    BY <1>2, <1>3 DEF PipesEnd, WritersOf
  <1>5. \A q \in Starts : q # p => WritersOf(q)'
    BY <1>1, <1>3, WritersWait DEF PipesEnd
  <1> QED
    BY <1>4, <1>5 DEF PipesEnd

\* The steps of ruri.
LEMMA RuriPipes ==
  ASSUME TypeOK, Idle, PipesEnd, NEW p \in Starts, Ruri(p)
  PROVE  PipesEnd'
  <1> USE DEF Points
  <1>1. CASE Begin(p)
    <2>1. UNCHANGED cont /\ pc[p] = "idle" /\ helper[p] = "none"
      BY <1>1 DEF Begin, Idle, Before
    <2>2. CASE helper' = [helper EXCEPT ![p] = "ok"] /\ Goto(p, "join") /\ Keeps
      <3>1. \A q \in Starts : q # p => pc'[q] = pc[q] /\ helper'[q] = helper[q]
        BY <2>2 DEF Goto, TypeOK
      <3>2. WritersOf(p)'
        BY <2>1, <2>2 DEF Keeps, PipesEnd, WritersOf
      <3>3. \A q \in Starts : q # p => WritersOf(q)'
        BY <2>1, <2>2, <3>1, WritersWait DEF Keeps, PipesEnd
      <3> QED
        BY <3>2, <3>3 DEF PipesEnd
    <2>3. CASE Ends(p) /\ UNCHANGED helper
      BY <2>1, <2>3, EndsCloses
    <2>4. CASE UNCHANGED helper /\ Goto(p, IF info = NoOne THEN "pipe" ELSE "remove") /\ Keeps
      BY <2>1, <2>4, KeepsOpen
    <2> QED
      BY <1>1, <2>2, <2>3, <2>4 DEF Begin
  <1>13. CASE RemoveInfo(p)
    BY <1>13, KeepsOpen DEF RemoveInfo
  <1>14. CASE ForkHelper(p)
    <2>1. UNCHANGED cont
      BY <1>14 DEF ForkHelper
    <2>2. CASE /\ helper' = [helper EXCEPT ![p] = "forked"]
               /\ writers' = [writers EXCEPT ![p] = {"ruri", "helper"}]
               /\ Goto(p, "unshare") /\ UNCHANGED writers2
      <3>1. \A q \in Starts : q # p => /\ pc'[q] = pc[q] /\ helper'[q] = helper[q]
                                       /\ writers'[q] = writers[q]
        BY <2>2 DEF Goto, TypeOK
      <3>2. helper'[p] = "forked" /\ pc'[p] = "unshare" /\ pc[p] = "pipe"
        BY <1>14, <2>2 DEF ForkHelper, Goto, TypeOK
      <3>3. WritersOf(p)'
        BY <2>1, <2>2, <3>2 DEF PipesEnd, WritersOf
      <3>4. \A q \in Starts : q # p => WritersOf(q)'
        BY <2>1, <2>2, <3>1, WritersWait DEF PipesEnd
      <3> QED
        BY <3>3, <3>4 DEF PipesEnd
    <2>3. CASE Ends(p) /\ UNCHANGED helper
      BY <2>1, <2>3, EndsCloses
    <2> QED
      BY <1>14, <2>2, <2>3 DEF ForkHelper
  <1>2. CASE UnshareUser(p)
    BY <1>2, EndsCloses, KeepsOpen DEF UnshareUser
  <1>3. CASE SignalHelper(p)
    <2>1. CASE helper[p] \in {"forked", "reading"}
      <3>1. /\ pc'[p] = "wait_helper" /\ writers'[p] = writers[p] \ {"ruri"}
            /\ UNCHANGED <<helper, cont, writers2>>
        BY <1>3, <2>1 DEF SignalHelper, Goto, TypeOK
      <3>2. \A q \in Starts : q # p => pc'[q] = pc[q] /\ writers'[q] = writers[q]
        BY <1>3, <2>1 DEF SignalHelper, Goto, TypeOK
      <3>3. pc[p] = "signal"
        BY <1>3 DEF SignalHelper
      <3>4. WritersOf(p)'
        BY <3>1, <3>3 DEF PipesEnd, WritersOf
      <3>5. \A q \in Starts : q # p => WritersOf(q)'
        BY <3>1, <3>2, WritersWait DEF PipesEnd
      <3> QED
        BY <3>4, <3>5 DEF PipesEnd
    <2>2. CASE ~(helper[p] \in {"forked", "reading"})
      BY <1>3, <2>2, EndsCloses DEF SignalHelper
    <2> QED
      BY <2>1, <2>2
  <1>4. CASE WaitHelper(p)
    BY <1>4, KeepsOpen DEF WaitHelper
  <1>5. CASE UnshareOthers(p)
    BY <1>5, EndsCloses, KeepsOpen DEF UnshareOthers
  <1>6. CASE JoinNamespaces(p)
    BY <1>6, EndsCloses, KeepsOpen DEF JoinNamespaces
  <1>7. CASE Fork(p)
    <2>1. CASE /\ cont' = [cont EXCEPT ![p] = "ready"]
               /\ writers2' = [writers2 EXCEPT ![p] = {"ruri", "cont"}]
               /\ Goto(p, IF succeed[p] THEN "store" ELSE "set_uid_map") /\ UNCHANGED writers
      <3>1. /\ cont'[p] = "ready" /\ writers2'[p] = {"ruri", "cont"}
            /\ pc'[p] \in {"store", "set_uid_map"}
            /\ UNCHANGED <<helper, writers>>
        BY <1>7, <2>1 DEF Fork, Goto, TypeOK
      <3>2. \A q \in Starts : q # p => /\ pc'[q] = pc[q] /\ cont'[q] = cont[q]
                                       /\ writers2'[q] = writers2[q]
        BY <1>7, <2>1 DEF Fork, Goto, TypeOK
      <3>3. pc[p] = "fork"
        BY <1>7 DEF Fork
      <3>4. WritersOf(p)'
        BY <3>1, <3>3 DEF PipesEnd, WritersOf
      <3>5. \A q \in Starts : q # p => WritersOf(q)'
        BY <3>1, <3>2, WritersWait DEF PipesEnd
      <3> QED
        BY <3>4, <3>5 DEF PipesEnd
    <2>2. CASE Ends(p) /\ UNCHANGED cont
      BY <1>7, <2>2, EndsCloses DEF Fork
    <2> QED
      BY <1>7, <2>1, <2>2 DEF Fork
  <1>8. CASE SetUidMap(p)
    BY <1>8, EndsCloses, KeepsOpen DEF SetUidMap
  <1>9. CASE SetGidMap(p)
    BY <1>9, EndsCloses, KeepsOpen DEF SetGidMap
  <1>10. CASE StoreInfo(p)
    BY <1>10, KeepsOpen DEF StoreInfo
  <1>11. CASE SendOk(p)
    <2>1. CASE cont[p] \in {"ready", "waiting"}
      <3>1. /\ pc'[p] = "wait" /\ writers2'[p] = writers2[p] \ {"ruri"}
            /\ UNCHANGED <<helper, cont, writers>>
        BY <1>11, <2>1 DEF SendOk, Goto, TypeOK
      <3>2. \A q \in Starts : q # p => pc'[q] = pc[q] /\ writers2'[q] = writers2[q]
        BY <1>11, <2>1 DEF SendOk, Goto, TypeOK
      <3>3. pc[p] = "go"
        BY <1>11 DEF SendOk
      <3>4. WritersOf(p)'
        BY <3>1, <3>3 DEF PipesEnd, WritersOf
      <3>5. \A q \in Starts : q # p => WritersOf(q)'
        BY <3>1, <3>2, WritersWait DEF PipesEnd
      <3> QED
        BY <3>4, <3>5 DEF PipesEnd
    <2>2. CASE ~(cont[p] \in {"ready", "waiting"})
      BY <1>11, <2>2, EndsCloses DEF SendOk
    <2> QED
      BY <2>1, <2>2
  <1>12. CASE WaitContainer(p)
    BY <1>12, EndsCloses DEF WaitContainer
  <1> QED
    BY <1>1, <1>2, <1>3, <1>4, <1>5, <1>6, <1>7, <1>8, <1>9, <1>10, <1>11, <1>12,
       <1>13, <1>14 DEF Ruri

\* The steps of all of them.
LEMMA PipesStep ==
  ASSUME TypeOK, Idle, PipesEnd, [Next]_vars
  PROVE  PipesEnd'
  <1>1. CASE UNCHANGED vars
    BY <1>1 DEF PipesEnd, WritersOf, vars
  <1>2. ASSUME NEW p \in Starts, HelperSteps(p) \/ KillHelper(p)
        PROVE  PipesEnd'
    <2>1. PICK from, to : Helper(p, from, to)
      BY <1>2 DEF HelperSteps, HelperCloses, HelperReads, HelperMaps, HelperFails, KillHelper
    <2> QED
      BY <2>1, HelperOpens
  <1>3. ASSUME NEW p \in Starts, ContCloses(p)
        PROVE  PipesEnd'
    <2>1. writers2'[p] = writers2[p] \ {"cont"}
      BY <1>3 DEF ContCloses, TypeOK
    <2>2. \A q \in Starts : q # p => cont'[q] = cont[q] /\ writers2'[q] = writers2[q]
      BY <1>3 DEF ContCloses, Container, TypeOK
    <2>3. UNCHANGED <<pc, helper, writers>>
      BY <1>3 DEF ContCloses, Container
    <2>4. WritersOf(p)'
      BY <2>1, <2>3 DEF PipesEnd, WritersOf
    <2>5. \A q \in Starts : q # p => WritersOf(q)'
      BY <2>2, <2>3, WritersWait DEF PipesEnd
    <2> QED
      BY <2>4, <2>5 DEF PipesEnd
  <1>4. ASSUME NEW p \in Starts, ContReads(p)
        PROVE  PipesEnd'
    <2>1. cont[p] = "waiting" /\ UNCHANGED <<pc, helper, writers, writers2>>
      BY <1>4 DEF ContReads, Container
    <2>2. \A q \in Starts : q # p => cont'[q] = cont[q]
      BY <1>4 DEF ContReads, Container, TypeOK
    <2>3. WritersOf(p)'
      BY <2>1 DEF PipesEnd, WritersOf
    <2>4. \A q \in Starts : q # p => WritersOf(q)'
      BY <2>1, <2>2, WritersWait DEF PipesEnd
    <2> QED
      BY <2>3, <2>4 DEF PipesEnd
  <1>5. ASSUME NEW p \in Starts, ContEnds(p)
        PROVE  PipesEnd'
    <2>1. UNCHANGED <<pc, helper, writers, writers2>>
      BY <1>5 DEF ContEnds
    <2>2. \A q \in Starts : cont'[q] = cont[q] \/ cont'[q] = "end"
      BY <1>5 DEF ContEnds, Gone
    <2> QED
      BY <2>1, <2>2, WritersWait DEF PipesEnd
  <1>6. ASSUME NEW p \in Starts, KillRuri(p)
        PROVE  PipesEnd'
    BY <1>6, EndsCloses DEF KillRuri
  <1> QED
    BY <1>1, <1>2, <1>3, <1>4, <1>5, <1>6, RuriPipes DEF Next, ContSteps

-----------------------------------------------------------------------------
(* The theorems *)

\* The invariant holds at first and is kept by every step.
LEMMA Inductive == Spec => []IInv
  <1>1. Init => IInv
    <2> SUFFICES ASSUME Init PROVE IInv
      OBVIOUS
    <2>1. TypeOK
      BY MaxKillsAssumption
      DEF Init, TypeOK, Points, Helpers, Containers, Kinds, NoMap
    <2> QED
      BY <2>1, NoOneAssumption
      DEF Init, IInv, Idle, Before, HelperWrites, RuriWrites, RuriKnows, Follow, ContKnows
  <1>2. IInv /\ [Next]_vars => IInv'
    BY TypeStep, IdleStep, HelperWritesStep, RuriWritesStep, FollowStep DEF IInv
  <1> QED
    BY <1>1, <1>2, PTL DEF Spec

\* Types, and .rurienv names only the owner of namespaces.
THEOREM TypeCorrect == Spec => []TypeOK
  <1>1. IInv => TypeOK
    BY DEF IInv
  <1> QED
    BY <1>1, Inductive, PTL

\* For any number of rootless starts on a directory and of kills: the command of a
\* container runs, and a start enters one, only with both maps written in one way,
\* unless a helper was killed.
THEOREM NobodyRunsUnmapped == Spec => []MapsAreMade
  <1>1. IInv => MapsAreMade
    BY DEF IInv, MapsAreMade, RuriWrites, RuriKnows, Follow, ContKnows, Mapped
  <1> QED
    BY <1>1, Inductive, PTL

\* For any number of starts and of kills, whenever a helper or a container's process waits
\* at its pipe, something will end the wait: the message is there, the pipe has no writer
\* left, or a ruri that has not ended still has it open.  With an end of a pipe left open
\* in the process that reads it, or in a ruri that has ended, it would wait for ever.
THEOREM NobodyIsForgottenEver == Spec => []NobodyIsForgotten
  <1>1. Init => PipesEnd
    BY DEF Init, PipesEnd, WritersOf
  <1>2. IInv /\ PipesEnd /\ [Next]_vars => PipesEnd'
    BY PipesStep DEF IInv
  <1>3. IInv /\ PipesEnd => NobodyIsForgotten
    <2> SUFFICES ASSUME IInv, PipesEnd, NEW p \in Starts
                 PROVE  WaitIsOver(p)
      BY DEF NobodyIsForgotten
    <2>1. WritersOf(p)
      BY DEF PipesEnd
    <2>2. writers[p] \subseteq {"ruri", "helper"} /\ writers2[p] \subseteq {"ruri", "cont"}
      BY DEF IInv, TypeOK
    <2>3. helper[p] = "reading" => "helper" \notin writers[p]
      BY <2>1 DEF WritersOf
    <2>4. cont[p] = "waiting" => "cont" \notin writers2[p]
      BY <2>1 DEF WritersOf
    <2>5. helper[p] = "reading" => writers[p] = {} \/ pc[p] \in {"unshare", "signal"}
      BY <2>1, <2>2, <2>3 DEF WritersOf
    <2>6. cont[p] = "waiting" =>
            writers2[p] = {} \/ pc[p] \in {"set_uid_map", "set_gid_map", "store", "go"}
      BY <2>1, <2>2, <2>4 DEF WritersOf
    <2> QED
      BY <2>5, <2>6 DEF WaitIsOver
  <1> QED
    BY <1>1, <1>2, <1>3, Inductive, PTL DEF Spec

=============================================================================
