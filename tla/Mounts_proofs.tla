----------------------------- MODULE Mounts_proofs -----------------------------
(***************************************************************************)
(* Proofs about Mounts, for any settings, targets and contents, any number *)
(* of invocations and commands, and whatever goes wrong.                   *)
(***************************************************************************)
EXTENDS Mounts, FiniteSetTheorems, SequenceTheorems, TLAPS

-----------------------------------------------------------------------------
(* The inductive invariant *)

MountType == [what : Sources \cup System \cup {"host"}, ro : BOOLEAN, file : BOOLEAN,
              wants : SUBSET Masks, masked : SUBSET Masks]

\* The stages of a start that has mounted a layer of its own, of one that is past the
\* directory, and of one that is in it.
Outside == {"extra", "attach", "self_after", "qemu", "store", "host", "ro_root"}
Entering == {"binary", "chroot"}
Masking == {"sys", "masks"}
Stages  == Quiet \cup Umounting \cup Outside \cup Entering \cup Masking \cup {"rootfs", "self", "proc"}
Invocation ==
  [pc : Stages, setting : Settings, at : Nat \ {0}, root : Nat, list : Seq(Targets),
   lines : Seq(Layer), seen : Nat, found : Nat, warned : SUBSET Nat]

Typed ==
  /\ layers \in Seq(Layer) /\ Len(layers) > 0
  /\ own \in [Trees -> [Targets -> Entries]]
  /\ stored \in [Trees -> Seq(Targets)]
  /\ loops \in 0 .. MaxLoops
  /\ loc \in [Procs -> Invocation]
  /\ trouble \in SUBSET Troubles
  /\ \A p \in Procs : /\ loc[p].pc = "attach" => /\ loc[p].at <= Len(loc[p].setting.mounts)
                                                 /\ Extra(p).source # "other"
                      /\ loc[p].pc \in {"rootfs", "self"} => loc[p].at = 1

\* Each layer has an identity of its own, the bare directory 0.
IdsDiffer ==
  /\ layers[1].id = 0
  /\ \A i, j \in DOMAIN layers : layers[i].id = layers[j].id => i = j

\* Without an overlap nobody is at work beside a start.
Exclusive ==
  Alone => \A p, q \in Procs : p # q /\ loc[p].pc \notin Quiet /\ loc[q].pc \notin Quiet =>
             loc[p].pc \in Umounting

\* What is mounted; nothing is on the bare directory, as long as it could be bound.
Bound == Alone /\ "unbound" \notin trouble
Layered ==
  /\ Bound => layers[1] = Bare
  /\ Alone => \A k \in DOMAIN layers : \A x \in Targets : Len(layers[k].on[x]) <= 1

Untroubled == trouble \cap {"killed", "overlapped", "failed", "unbound"} = {}
IsMasked(m) == m.masked = m.wants
AllMasked(s) == \A i \in DOMAIN s : IsMasked(s[i])

\* All of procfs is masked as it should be, but for what a start has just mounted.
MasksAreSet ==
  Untroubled => \A k \in DOMAIN layers :
    LET s == layers[k].on["proc"] IN
      \/ AllMasked(s)
      \/ AllMasked(Front(s)) /\ \E p \in Procs : loc[p].pc \in Masking /\ k \in Roots(p)

\* No command runs in the layer.
IsNew(p, id) == \A q \in Procs \ {p} : loc[q].root # id

\* Each -m and -M so far is mounted or warned of, or its target taken by a later one.
IsDone(p, i) ==
  LET m == loc[p].setting.mounts[i] IN
  \/ i \in loc[p].warned
  \/ \E j \in i + 1 .. loc[p].at - 1 : loc[p].setting.mounts[j].at = m.at
  \/ Mounted(Top, m.at) /\ Shown(Top, m.at).what = m.source /\ Shown(Top, m.at).ro = m.ro
  \/ loc[p].pc = "attach" /\ m.at = Extra(p).at

\* An umount of found layers has taken one in each round, and one for each line of
\* /proc/mounts but the first that it has dealt with, unless n = 1 says that only the
\* bare directory is left; the lines it has not dealt with are of layers above that.
Handled(c) == c.seen - Len(c.lines)
Counts(c, n) ==
  /\ c.pc \in {"u_extra", "u_system", "u_subdir"} => c.lines = <<>> /\ c.seen = 0
  /\ c.pc = "u_extra"  => n <= c.found + 1
  /\ c.pc = "u_system" => n = 1 \/ n + c.at <= c.found + 2
  /\ c.pc = "u_subdir" => n = 1 \/ n + SystemRounds <= c.found + 1
  /\ c.pc = "u_lines"  =>
       /\ Len(c.lines) <= c.seen
       /\ \A i \in 1 .. Len(c.lines) : Handled(c) + i # 1 => c.lines[i].id # 0
       /\ n = 1 \/ (n + SystemRounds <= c.found + 1 /\ n + SystemRounds + Handled(c) <= c.found + 2)

\* What a start that is alone can rely on, and an umount beside others of its kind.
Works(p) ==
  /\ Bound /\ loc[p].pc \in Outside => Len(layers) > 1 /\ IsNew(p, Top.id)
  /\ loc[p].pc \in {"extra", "attach"} => \A i \in 1 .. loc[p].at - 1 : IsDone(p, i)
  /\ loc[p].pc = "attach" => Top.on[Extra(p).at] = <<>>
  /\ Bound /\ loc[p].pc \in Entering => Len(layers) > 1 /\ (HasProc(Top) \/ IsNew(p, Top.id))
  /\ Bound /\ loc[p].pc \in Masking \cup {"proc"} => loc[p].root # 0
  /\ Bound /\ loc[p].pc = "proc" => (\E k \in Roots(p) : HasProc(layers[k])) \/ IsNew(p, loc[p].root)
  /\ Bound /\ loc[p].pc \in Masking => IsNew(p, loc[p].root)
  /\ loc[p].pc \in Masking /\ Untroubled => \A k \in Roots(p) :
       Mounted(layers[k], "proc") /\ Shown(layers[k], "proc").wants = loc[p].setting.masks
  /\ loc[p].pc \in Umounting => Counts(loc[p], Len(layers))
AllWork == Alone => \A p \in Procs : Works(p)

IInv == Typed /\ IdsDiffer /\ Exclusive /\ Layered /\ MasksAreSet /\ AllWork

-----------------------------------------------------------------------------
(* Stacks and layers *)

\* A stack that has been unmounted from.
LEMMA LessIs ==
  ASSUME NEW S, NEW s \in Seq(S), NEW n \in Nat
  PROVE  /\ Less(s, n) \in Seq(S)
         /\ Len(Less(s, n)) = IF n <= Len(s) THEN Len(s) - n ELSE 0
         /\ \A i \in 1 .. Len(Less(s, n)) : Less(s, n)[i] = s[i]
         /\ s = <<>> => Less(s, n) = <<>>
BY DEF Less

\* A stack without its last element.
LEMMA FrontIs ==
  ASSUME NEW S, NEW s \in Seq(S), s # <<>>
  PROVE  /\ Len(s) \in Nat \ {0} /\ Last(s) \in S
         /\ Front(s) \in Seq(S) /\ Len(Front(s)) = Len(s) - 1
         /\ \A i \in 1 .. Len(s) - 1 : Front(s)[i] = s[i]
<1>1. Len(s) \in Nat \ {0}
  OBVIOUS
<1>2. Last(s) \in S
  BY <1>1 DEF Last
<1>3. Front(s) = Less(s, 1)
  BY DEF Front, Less
<1>4. /\ Less(s, 1) \in Seq(S) /\ Len(Less(s, 1)) = Len(s) - 1
      /\ \A i \in 1 .. Len(Less(s, 1)) : Less(s, 1)[i] = s[i]
  BY <1>1, LessIs
<1> QED
  BY <1>1, <1>2, <1>3, <1>4

\* A stack with one more.
LEMMA AppendIs ==
  ASSUME NEW S, NEW s \in Seq(S), NEW e \in S
  PROVE  /\ Append(s, e) \in Seq(S) /\ Len(Append(s, e)) = Len(s) + 1 /\ Append(s, e) # <<>>
         /\ \A i \in 1 .. Len(s) : Append(s, e)[i] = s[i]
         /\ Append(s, e)[Len(s) + 1] = e /\ Last(Append(s, e)) = e
BY DEF Last

\* A stack whose last element is another.
LEMMA RetopIs ==
  ASSUME NEW S, NEW s \in Seq(S), s # <<>>, NEW e \in S
  PROVE  /\ Append(Front(s), e) \in Seq(S) /\ Len(Append(Front(s), e)) = Len(s)
         /\ Append(Front(s), e) # <<>>
         /\ \A i \in 1 .. Len(s) : Append(Front(s), e)[i] = IF i = Len(s) THEN e ELSE s[i]
         /\ Last(Append(Front(s), e)) = e
<1> DEFINE t == Front(s)
<1>1. t \in Seq(S) /\ Len(t) = Len(s) - 1 /\ Len(s) \in Nat \ {0} /\ \A i \in 1 .. Len(s) - 1 : t[i] = s[i]
  BY FrontIs
<1> HIDE DEF t
<1>2. /\ Append(t, e) \in Seq(S) /\ Len(Append(t, e)) = Len(t) + 1 /\ Append(t, e) # <<>>
      /\ \A i \in 1 .. Len(t) : Append(t, e)[i] = t[i]
      /\ Append(t, e)[Len(t) + 1] = e /\ Last(Append(t, e)) = e
  BY <1>1, AppendIs
<1>3. ASSUME NEW i \in 1 .. Len(s)
      PROVE  Append(t, e)[i] = IF i = Len(s) THEN e ELSE s[i]
  <2>1. CASE i = Len(s)
    BY <1>1, <1>2, <2>1
  <2>2. CASE i # Len(s)
    <3>1. i \in 1 .. Len(t) /\ i \in 1 .. Len(s) - 1
      BY <1>1, <2>2
    <3> QED
      BY <1>1, <1>2, <2>2, <3>1
  <2> QED
    BY <2>1, <2>2
<1>4. Len(Append(t, e)) = Len(s)
  BY <1>1, <1>2
<1> QED
  BY <1>2, <1>3, <1>4 DEF t

\* The types, in parts.
LEMMA LayerIs ==
  /\ Layer = [id : Nat, tree : Trees, ro : BOOLEAN, on : [Places -> Seq(MountType)]]
  /\ Bare \in Layer /\ Bare.id = 0 /\ Bare.tree = "dir" /\ ~Bare.ro
  /\ \A x \in Places : Bare.on[x] = <<>>
  /\ \A x \in Targets : x \in Places /\ x \notin System /\ x # "proc" /\ x # ".rurienv"
  /\ System \subseteq Places /\ "proc" \in Places /\ ".rurienv" \in Places
<1>1. Layer = [id : Nat, tree : Trees, ro : BOOLEAN, on : [Places -> Seq(MountType)]]
  BY DEF Layer, MountType
<1>2. [x \in Places |-> <<>>] \in [Places -> Seq(MountType)]
  OBVIOUS
<1>3. Bare \in Layer
  BY <1>1, <1>2 DEF Bare, Trees
<1>4. /\ Bare.id = 0 /\ Bare.tree = "dir" /\ ~Bare.ro
      /\ \A x \in Places : Bare.on[x] = <<>>
  BY DEF Bare
<1>5. /\ \A x \in Targets : x \in Places /\ x \notin System /\ x # "proc" /\ x # ".rurienv"
      /\ System \subseteq Places /\ "proc" \in Places /\ ".rurienv" \in Places
  BY TargetsAssumption DEF Places, System
<1> QED
  BY <1>1, <1>3, <1>4, <1>5

\* The type of what mount(2) mounts.
LEMMA MountIs ==
  ASSUME NEW w \in Sources \cup System \cup {"host"}, NEW ro \in BOOLEAN
  PROVE  /\ Mount(w, ro) \in MountType /\ Mount(w, ro).what = w /\ Mount(w, ro).ro = ro
         /\ Mount(w, ro).wants = {} /\ Mount(w, ro).masked = {}
BY DEF Mount, MountType

\* A layer with another stack at one place.
LEMMA LayerWith ==
  ASSUME NEW l \in Layer, NEW x \in Places, NEW s \in Seq(MountType)
  PROVE  LET n == [l EXCEPT !.on[x] = s] IN
         /\ n \in Layer /\ n.id = l.id /\ n.tree = l.tree /\ n.ro = l.ro
         /\ n.on[x] = s /\ \A y \in Places \ {x} : n.on[y] = l.on[y]
BY LayerIs

\* The layers with another top.
LEMMA WithTopIs ==
  ASSUME Typed, NEW l \in Layer
  PROVE  /\ WithTop(l) \in Seq(Layer) /\ Len(WithTop(l)) = Len(layers)
         /\ \A k \in 1 .. Len(layers) : WithTop(l)[k] = IF k = Len(layers) THEN l ELSE layers[k]
         /\ Top \in Layer /\ Top = layers[Len(layers)] /\ Len(layers) \in Nat \ {0}
         /\ Last(WithTop(l)) = l
<1>1. layers \in Seq(Layer) /\ layers # <<>>
  BY DEF Typed
<1>2. Top = layers[Len(layers)]
  BY DEF Top, Last
<1> QED
  BY <1>1, <1>2, FrontIs, RetopIs DEF WithTop, Top

\* What the mounts at a place become.
OnlyAt(l, n, x) ==
  /\ n \in Layer /\ n.id = l.id /\ n.tree = l.tree /\ n.ro = l.ro
  /\ \A y \in Places \ {x} : n.on[y] = l.on[y]

\* mount(2), umount2(2) and the remount.
LEMMA PushIs ==
  ASSUME NEW l \in Layer, NEW x \in Places, NEW m \in MountType
  PROVE  /\ OnlyAt(l, Push(l, x, m), x) /\ Push(l, x, m).on[x] = Append(l.on[x], m)
         /\ Mounted(Push(l, x, m), x) /\ Shown(Push(l, x, m), x) = m
         /\ l.on[x] \in Seq(MountType) /\ Len(Push(l, x, m).on[x]) = Len(l.on[x]) + 1
<1>1. l.on[x] \in Seq(MountType)
  BY LayerIs
<1>2. Append(l.on[x], m) \in Seq(MountType)
  BY <1>1
<1>3. OnlyAt(l, Push(l, x, m), x) /\ Push(l, x, m).on[x] = Append(l.on[x], m)
  BY <1>2, LayerWith DEF OnlyAt, Push
<1> QED
  BY <1>1, <1>3, AppendIs DEF Mounted, Shown

\* The last mount at a place is taken away, if there is one.
LEMMA PopIs ==
  ASSUME NEW l \in Layer, NEW x \in Places
  PROVE  /\ OnlyAt(l, Pop(l, x), x)
         /\ Pop(l, x).on[x] = IF l.on[x] = <<>> THEN <<>> ELSE Front(l.on[x])
         /\ l.on[x] \in Seq(MountType)
         /\ Len(l.on[x]) <= 1 => Pop(l, x).on[x] = <<>>
<1>1. l.on[x] \in Seq(MountType)
  BY LayerIs
<1> DEFINE s == IF l.on[x] = <<>> THEN l.on[x] ELSE Front(l.on[x])
<1>2. s \in Seq(MountType) /\ (Len(l.on[x]) <= 1 => s = <<>>)
  BY <1>1, FrontIs
<1>3. Pop(l, x) = [l EXCEPT !.on[x] = s]
  BY <1>1 DEF Pop
<1> QED
  BY <1>1, <1>2, <1>3, LayerWith DEF OnlyAt

\* The mount that shows at a place becomes another.
LEMMA RetopOf ==
  ASSUME NEW l \in Layer, NEW x \in Places, Mounted(l, x), NEW m \in MountType
  PROVE  /\ OnlyAt(l, Retop(l, x, m), x) /\ Retop(l, x, m).on[x] = Append(Front(l.on[x]), m)
         /\ Mounted(Retop(l, x, m), x) /\ Shown(Retop(l, x, m), x) = m
         /\ Shown(l, x) \in MountType /\ Len(Retop(l, x, m).on[x]) = Len(l.on[x])
<1>1. l.on[x] \in Seq(MountType) /\ l.on[x] # <<>>
  BY LayerIs DEF Mounted
<1>2. Append(Front(l.on[x]), m) \in Seq(MountType)
  BY <1>1, RetopIs
<1>3. OnlyAt(l, Retop(l, x, m), x) /\ Retop(l, x, m).on[x] = Append(Front(l.on[x]), m)
  BY <1>2, LayerWith DEF OnlyAt, Retop
<1> QED
  BY <1>1, <1>3, RetopIs, FrontIs DEF Mounted, Shown

\* Mounts on several places, and several of them taken away.
LEMMA PushAllIs ==
  ASSUME NEW l \in Layer, NEW D \in SUBSET Places, NEW ms \in [D -> MountType]
  PROVE  LET n == PushAll(l, ms) IN
         /\ n \in Layer /\ n.id = l.id /\ n.tree = l.tree /\ n.ro = l.ro
         /\ \A x \in Places : n.on[x] = IF x \in D THEN Append(l.on[x], ms[x]) ELSE l.on[x]
<1> DEFINE f == [x \in Places |-> IF x \in D THEN Append(l.on[x], ms[x]) ELSE l.on[x]]
<1>1. f \in [Places -> Seq(MountType)]
  BY LayerIs, AppendIs
<1>2. PushAll(l, ms) = [l EXCEPT !.on = f]
  BY LayerIs DEF PushAll
<1>3. \A x \in Places : f[x] = IF x \in D THEN Append(l.on[x], ms[x]) ELSE l.on[x]
  OBVIOUS
<1> HIDE DEF f
<1> QED
  BY <1>1, <1>2, <1>3, LayerIs

\* A number of mounts less at every place; on the bare directory there is none.
LEMMA LessAllIs ==
  ASSUME NEW l \in Layer, NEW f \in [Places -> Nat]
  PROVE  LET n == [l EXCEPT !.on = [x \in Places |-> Less(@[x], f[x])]] IN
         /\ n \in Layer /\ n.id = l.id /\ n.tree = l.tree /\ n.ro = l.ro
         /\ \A x \in Places : n.on[x] = Less(l.on[x], f[x])
         /\ l = Bare => n = Bare
<1> DEFINE g == [x \in Places |-> Less(l.on[x], f[x])]
           n == [l EXCEPT !.on = g]
<1>1. g \in [Places -> Seq(MountType)] /\ \A x \in Places : g[x] = Less(l.on[x], f[x])
  BY LayerIs, LessIs
<1>2. ASSUME l = Bare
      PROVE  g = Bare.on
  <2>1. \A x \in Places : l.on[x] \in Seq(MountType) /\ l.on[x] = <<>>
    BY <1>2, LayerIs
  <2>2. \A x \in Places : g[x] = <<>>
    BY <1>1, <2>1, LessIs
  <2> QED
    BY <1>1, <2>2 DEF Bare
<1>3. [l EXCEPT !.on = [x \in Places |-> Less(@[x], f[x])]] = n
  BY LayerIs
<1> HIDE DEF g
<1>4. n \in Layer /\ n.id = l.id /\ n.tree = l.tree /\ n.ro = l.ro /\ n.on = g
  BY <1>1, LayerIs
<1>5. l = Bare => n = Bare
  BY <1>2 DEF Bare
<1> QED
  BY <1>1, <1>3, <1>4, <1>5

\* There is always an identity that no layer and no command has.
LEMMA FreshIs ==
  ASSUME Typed, IdsDiffer
  PROVE  /\ Fresh \in Nat \ {0}
         /\ \A k \in 1 .. Len(layers) : layers[k].id # Fresh
         /\ \A p \in Procs : loc[p].root # Fresh
<1> DEFINE n == Len(layers)
           c == Cardinality(Procs)
           ids == [k \in 2 .. n |-> layers[k].id]
           roots == [p \in Procs |-> loc[p].root]
           A == {ids[k] : k \in 2 .. n}
           B == {roots[p] : p \in Procs}
<1>1. n \in Nat \ {0} /\ c \in Nat /\ layers[1].id = 0
  BY ProcsAssumption, FS_CardinalityType DEF Typed, IdsDiffer
<1>2. IsFiniteSet(2 .. n) /\ Cardinality(2 .. n) = n - 1
  <2>1. n \in Int /\ 2 \in Int
    BY <1>1
  <2> HIDE DEF n
  <2>2. IsFiniteSet(2 .. n) /\ Cardinality(2 .. n) = IF 2 > n THEN 0 ELSE n - 2 + 1
    BY ONLY <2>1, FS_Interval, Zenon
  <2> QED
    BY <1>1, <2>2
<1>3. ids \in Surjection(2 .. n, A) /\ roots \in Surjection(Procs, B)
  BY DEF Surjection
<1>4. IsFiniteSet(A) /\ Cardinality(A) <= n - 1
  BY <1>2, <1>3, FS_Surjection
<1>5. IsFiniteSet(B) /\ Cardinality(B) <= c
  BY <1>3, ProcsAssumption, FS_Surjection
<1>6. /\ IsFiniteSet(A \cup B)
      /\ Cardinality(A \cup B) = Cardinality(A) + Cardinality(B) - Cardinality(A \cap B)
  BY <1>4, <1>5, FS_Union
<1>7. IsFiniteSet(A \cap B)
  BY <1>4, FS_Subset
<1>8. Cardinality(A) \in Nat /\ Cardinality(B) \in Nat /\ Cardinality(A \cap B) \in Nat
  BY <1>4, <1>5, <1>7, FS_CardinalityType
<1>9. Cardinality(A \cup B) <= n - 1 + c
  BY <1>1, <1>4, <1>5, <1>6, <1>8
<1>10. PICK i \in 1 .. n + c : i \notin A \cup B
  <2> SUFFICES ASSUME 1 .. n + c \subseteq A \cup B
               PROVE  FALSE
    OBVIOUS
  <2> HIDE DEF n, c
  <2> DEFINE b == n + c
  <2>1. b \in Int /\ 1 \in Int
    BY <1>1
  <2> HIDE DEF b
  <2>2. Cardinality(1 .. b) = IF 1 > b THEN 0 ELSE b - 1 + 1
    BY ONLY <2>1, FS_Interval, Zenon
  <2>3. 1 .. b \in SUBSET (A \cup B)
    BY DEF b
  <2>4. Cardinality(1 .. b) <= Cardinality(A \cup B)
    BY <1>6, <2>3, FS_Subset
  <2>5. b = n + c /\ b \in Nat \ {0}
    BY <1>1 DEF b
  <2> QED
    BY <1>1, <1>6, <1>8, <1>9, <2>2, <2>4, <2>5
<1>11. \A k \in 1 .. n : layers[k].id # i
  <2> TAKE k \in 1 .. n
  <2>1. CASE k = 1
    BY <1>1, <1>10, <2>1
  <2>4. CASE k # 1
    <3>1. k \in 2 .. n
      BY <1>1, <2>4
    <3>2. ids[k] = layers[k].id /\ ids[k] \in A
      BY <3>1
    <3> QED
      BY <1>10, <3>2
  <2> QED
    BY <2>1, <2>4
<1>12. \A p \in Procs : loc[p].root # i
  BY <1>10
<1> DEFINE IsFresh(j) == (\A k \in 1 .. n : layers[k].id # j) /\ \A p \in Procs : loc[p].root # j
<1>13. Fresh \in 1 .. n + c /\ IsFresh(Fresh)
  BY <1>10, <1>11, <1>12 DEF Fresh
<1> QED
  BY <1>1, <1>13

\* The system directories unmounted once, of the bare directory too.
LEMMA SystemLess ==
  ASSUME NEW l \in Layer
  PROVE  LET n == [l EXCEPT !.on = [x \in Places |-> IF x \in System THEN Less(@[x], 1) ELSE @[x]]] IN
         /\ n \in Layer /\ n.id = l.id /\ n.tree = l.tree /\ n.ro = l.ro
         /\ \A x \in Places : n.on[x] = IF x \in System THEN Less(l.on[x], 1) ELSE l.on[x]
         /\ l = Bare => n = Bare
<1> DEFINE g == [x \in Places |-> IF x \in System THEN Less(l.on[x], 1) ELSE l.on[x]]
           n == [l EXCEPT !.on = g]
<1>1. /\ g \in [Places -> Seq(MountType)]
      /\ \A x \in Places : g[x] = IF x \in System THEN Less(l.on[x], 1) ELSE l.on[x]
  BY LayerIs, LessIs
<1>2. ASSUME l = Bare
      PROVE  g = Bare.on
  <2>1. \A x \in Places : l.on[x] \in Seq(MountType) /\ l.on[x] = <<>>
    BY <1>2, LayerIs
  <2>2. \A x \in Places : g[x] = <<>>
    BY <1>1, <2>1, LessIs
  <2> QED
    BY <1>1, <2>2 DEF Bare
<1>3. [l EXCEPT !.on = [x \in Places |-> IF x \in System THEN Less(@[x], 1) ELSE @[x]]] = n
  BY LayerIs
<1> HIDE DEF g
<1>4. n \in Layer /\ n.id = l.id /\ n.tree = l.tree /\ n.ro = l.ro /\ n.on = g
  BY <1>1, LayerIs
<1>5. l = Bare => n = Bare
  BY <1>2 DEF Bare
<1> QED
  BY <1>1, <1>3, <1>4, <1>5

-----------------------------------------------------------------------------
(* What ruri_trymount() is made of *)

Extras == [source : Sources, at : Targets, ro : BOOLEAN]
Fines  == BOOLEAN \X BOOLEAN \X BOOLEAN \X BOOLEAN

\* A mount has been made at most, and one that counts as made is what was asked for.
Attaches(a, l, x, m) ==
  /\ OnlyAt(l, a.layer, x)
  /\ l.on[x] = <<>> =>
       /\ Len(a.layer.on[x]) <= 1
       /\ a.ok => Mounted(a.layer, x) /\ Shown(a.layer, x).what = m.source /\ Shown(a.layer, x).ro = m.ro

\* What the image of a file system that could not be remounted leaves.
Leftover(l, x, m) ==
  Mounted(l, x) /\ Len(l.on[x]) <= 1 /\ ~Shown(l, x).file /\ Shown(l, x).what = m.source /\ m.source # "dir"

\* A layer differs from itself nowhere.
LEMMA OnlyAtSame ==
  ASSUME NEW l \in Layer, NEW x \in Places
  PROVE  OnlyAt(l, l, x)
BY DEF OnlyAt

\* The remount of what shows.
LEMMA RemountIs ==
  ASSUME NEW l \in Layer, NEW x \in Places, NEW m \in Extras, NEW fine
  PROVE  LET n == Remount(l, x, m, fine) IN
         /\ OnlyAt(l, n, x)
         /\ Mounted(l, x) /\ fine[2] =>
              /\ Len(n.on[x]) = Len(l.on[x]) /\ Mounted(n, x)
              /\ Shown(n, x).what = Shown(l, x).what /\ Shown(n, x).ro = m.ro
         /\ ~(Mounted(l, x) /\ fine[2]) => n = l
<1>1. CASE Mounted(l, x) /\ fine[2]
  <2> DEFINE t == [Shown(l, x) EXCEPT !.ro = m.ro]
  <2>1. Shown(l, x) \in MountType
    BY <1>1, LayerIs, FrontIs DEF Mounted, Shown
  <2>2. t \in MountType /\ t.what = Shown(l, x).what /\ t.ro = m.ro
    BY <2>1 DEF MountType, Extras
  <2>3. Remount(l, x, m, fine) = Retop(l, x, t)
    BY <1>1 DEF Remount
  <2> HIDE DEF t
  <2> QED
    BY <1>1, <2>2, <2>3, RetopOf
<1>2. CASE ~(Mounted(l, x) /\ fine[2])
  <2>1. Remount(l, x, m, fine) = l
    BY <1>2 DEF Remount
  <2> QED
    BY <1>2, <2>1, OnlyAtSame
<1> QED
  BY <1>1, <1>2

\* The bind mount, or what was there.
LEMMA FirstMountIs ==
  ASSUME NEW l \in Layer, NEW x \in Places, NEW m \in Extras, NEW e, NEW fine
  PROVE  LET n == FirstMount(l, x, m, e, fine) IN
         /\ OnlyAt(l, n, x)
         /\ \/ n = l
            \/ /\ Len(n.on[x]) = Len(l.on[x]) + 1 /\ Mounted(n, x) /\ Shown(n, x).what = m.source
               /\ Mounted(l, x) => (Shown(l, x).file <=> m.source # "dir")
<1>1. CASE fine[1] /\ Fits(l, x, e, m.source # "dir")
  <2> DEFINE t == [Mount(m.source, FALSE) EXCEPT !.file = m.source # "dir"]
  <2>1. m.source \in Sources \cup System \cup {"host"}
    BY DEF Extras
  <2>2. Mount(m.source, FALSE) \in MountType /\ Mount(m.source, FALSE).what = m.source
    BY <2>1, MountIs
  <2>3. t \in MountType /\ t.what = m.source
    BY <2>2 DEF MountType
  <2>4. FirstMount(l, x, m, e, fine) = Push(l, x, t)
    BY <1>1 DEF FirstMount
  <2>5. Mounted(l, x) => (Shown(l, x).file <=> m.source # "dir")
    BY <1>1 DEF Fits
  <2> HIDE DEF t
  <2> QED
    BY <2>3, <2>4, <2>5, PushIs
<1>2. CASE ~(fine[1] /\ Fits(l, x, e, m.source # "dir"))
  <2>1. FirstMount(l, x, m, e, fine) = l
    BY <1>2 DEF FirstMount
  <2> QED
    BY <2>1, OnlyAtSame
<1> QED
  BY <1>1, <1>2

\* A file or a directory is bound.
LEMMA BindMountIs ==
  ASSUME NEW l \in Layer, NEW x \in Places, NEW m \in Extras, NEW e, NEW fine,
         NEW l0, OnlyAt(l0, l, x),
         l0.on[x] = <<>> => l.on[x] = <<>> \/ Leftover(l, x, m)
  PROVE  Attaches(BindMount(l, x, m, e, fine), l0, x, m)
<1> DEFINE n == FirstMount(l, x, m, e, fine)
           r == Remount(n, x, m, fine)
           a == BindMount(l, x, m, e, fine)
<1>1. /\ OnlyAt(l, n, x)
      /\ \/ n = l
         \/ /\ Len(n.on[x]) = Len(l.on[x]) + 1 /\ Mounted(n, x) /\ Shown(n, x).what = m.source
            /\ Mounted(l, x) => (Shown(l, x).file <=> m.source # "dir")
  BY FirstMountIs
<1>2. a.layer = r /\ (a.ok => Mounted(n, x) /\ fine[2])
  BY DEF BindMount
<1> HIDE DEF n
<1>3. n \in Layer
  BY <1>1 DEF OnlyAt
<1>4. /\ OnlyAt(n, r, x)
      /\ Mounted(n, x) /\ fine[2] =>
           /\ Len(r.on[x]) = Len(n.on[x]) /\ Mounted(r, x)
           /\ Shown(r, x).what = Shown(n, x).what /\ Shown(r, x).ro = m.ro
      /\ ~(Mounted(n, x) /\ fine[2]) => r = n
  BY <1>3, RemountIs
<1> HIDE DEF r, a
<1>5. OnlyAt(l0, r, x)
  BY <1>1, <1>4 DEF OnlyAt
<1>6. ASSUME l0.on[x] = <<>>
      PROVE  Len(n.on[x]) <= 1 /\ (Mounted(n, x) => Shown(n, x).what = m.source)
  <2>1. CASE l.on[x] = <<>>
    <3>1. ~Mounted(l, x) /\ Len(l.on[x]) = 0
      BY <2>1 DEF Mounted
    <3>2. CASE n = l
      BY <3>1, <3>2
    <3>3. CASE Len(n.on[x]) = Len(l.on[x]) + 1 /\ Shown(n, x).what = m.source
      BY <3>1, <3>3
    <3> QED
      BY <1>1, <3>2, <3>3
  <2>2. CASE Leftover(l, x, m)
    <3>1. Mounted(l, x) /\ Len(l.on[x]) <= 1 /\ Shown(l, x).what = m.source
      BY <2>2 DEF Leftover
    <3>2. n = l
      BY <1>1, <2>2, <3>1 DEF Leftover
    <3> QED
      BY <3>1, <3>2
  <2> QED
    BY <1>6, <2>1, <2>2
<1> QED
  BY <1>2, <1>4, <1>5, <1>6 DEF Attaches, a

\* A file system is mounted.
LEMMA WithFsIs ==
  ASSUME NEW l \in Layer, NEW x \in Places, NEW m \in Extras
  PROVE  LET n == WithFs(l, x, m) IN
         /\ OnlyAt(l, n, x) /\ Len(n.on[x]) = Len(l.on[x]) + 1 /\ Mounted(n, x)
         /\ Shown(n, x).what = m.source /\ Shown(n, x).ro = m.ro
         /\ (Shown(n, x).file <=> m.source \in {"file", "special"})
<1>1. m.source \in Sources \cup System \cup {"host"} /\ m.ro \in BOOLEAN
  BY DEF Extras
<1>2. /\ Mount(m.source, m.ro) \in MountType /\ Mount(m.source, m.ro).what = m.source
      /\ Mount(m.source, m.ro).ro = m.ro
  BY <1>1, MountIs
<1>3. (Mount(m.source, m.ro).file <=> m.source \in {"file", "special"})
  BY DEF Mount
<1> HIDE DEF Mount
<1> QED
  BY <1>2, <1>3, PushIs DEF WithFs

\* mount_device(): what it says is so, and it mounts that file system or nothing.
LEMMA MountDeviceIs ==
  ASSUME NEW l \in Layer, NEW x \in Places, NEW m \in Extras, NEW e, NEW fine
  PROVE  LET a == MountDevice(l, x, m, e, fine) IN
         /\ Attaches(a, l, x, m)
         /\ a.layer = l \/ (a.layer = WithFs(l, x, m) /\ fine[1])
<1> DEFINE a == MountDevice(l, x, m, e, fine)
<1>1. CASE fine[1] /\ Fits(l, x, e, FALSE)
  <2>1. a.layer = WithFs(l, x, m)
    BY <1>1 DEF MountDevice
  <2>2. /\ OnlyAt(l, a.layer, x) /\ Len(a.layer.on[x]) = Len(l.on[x]) + 1 /\ Mounted(a.layer, x)
        /\ Shown(a.layer, x).what = m.source /\ Shown(a.layer, x).ro = m.ro
    BY <2>1, WithFsIs
  <2> HIDE DEF a
  <2>3. Attaches(a, l, x, m)
    BY <2>2 DEF Attaches
  <2> QED
    BY <1>1, <2>1, <2>3 DEF a
<1>2. CASE ~(fine[1] /\ Fits(l, x, e, FALSE))
  <2>1. a.layer = l /\ ~a.ok
    BY <1>2 DEF MountDevice
  <2>2. OnlyAt(l, a.layer, x)
    BY <2>1, OnlyAtSame
  <2> HIDE DEF a
  <2>3. Attaches(a, l, x, m)
    BY <2>1, <2>2 DEF Attaches
  <2> QED
    BY <2>1, <2>3 DEF a
<1> QED
  BY <1>1, <1>2

\* mount_other_type(): what it says is so.
LEMMA MountOtherTypeIs ==
  ASSUME NEW l \in Layer, NEW x \in Places, NEW m \in Extras, NEW e, NEW fine
  PROVE  Attaches(MountOtherType(l, x, m, e, fine), l, x, m)
<1> DEFINE a == MountOtherType(l, x, m, e, fine)
<1>1. CASE fine[1] /\ Fits(l, x, e, FALSE)
  <2>1. a.layer = WithFs(l, x, m)
    BY <1>1 DEF MountOtherType
  <2>2. /\ OnlyAt(l, a.layer, x) /\ Len(a.layer.on[x]) = Len(l.on[x]) + 1 /\ Mounted(a.layer, x)
        /\ Shown(a.layer, x).what = m.source /\ Shown(a.layer, x).ro = m.ro
    BY <2>1, WithFsIs
  <2> HIDE DEF a
  <2>3. Attaches(a, l, x, m)
    BY <2>2 DEF Attaches
  <2> QED
    BY <2>3 DEF a
<1>2. CASE ~(fine[1] /\ Fits(l, x, e, FALSE))
  <2>1. a.layer = l /\ ~a.ok
    BY <1>2 DEF MountOtherType
  <2>2. OnlyAt(l, a.layer, x)
    BY <2>1, OnlyAtSame
  <2> HIDE DEF a
  <2>3. Attaches(a, l, x, m)
    BY <2>1, <2>2 DEF Attaches
  <2> QED
    BY <2>3 DEF a
<1> QED
  BY <1>1, <1>2

\* An image, or a file that is tried as one.
LEMMA MountImageIs ==
  ASSUME NEW l \in Layer, NEW x \in Places, NEW m \in Extras, NEW e, NEW fine,
         m.source \in {"image", "file"}
  PROVE  Attaches(MountImage(l, x, m, e, fine), l, x, m)
<1> DEFINE f == <<fine[1] /\ m.source = "image", fine[2]>>
           d == MountDevice(l, x, m, e, f)
           n == d.layer
           b == BindMount(n, x, m, TouchMountpointFile(n, x, e), <<fine[3], fine[4]>>)
<1>1. MountImage(l, x, m, e, fine) = IF d.ok THEN d ELSE b
  BY DEF MountImage
<1>2. f[1] => m.source = "image"
  OBVIOUS
<1> HIDE DEF f
<1>3. Attaches(d, l, x, m) /\ (n = l \/ (n = WithFs(l, x, m) /\ m.source = "image"))
  BY <1>2, MountDeviceIs
<1> HIDE DEF d
<1>4. n \in Layer /\ OnlyAt(l, n, x)
  BY <1>3 DEF Attaches, OnlyAt
<1>5. ASSUME l.on[x] = <<>>
      PROVE  n.on[x] = <<>> \/ Leftover(n, x, m)
  <2>1. CASE n = l
    BY <1>5, <2>1
  <2>2. CASE n = WithFs(l, x, m) /\ m.source = "image"
    <3>1. /\ Len(n.on[x]) = Len(l.on[x]) + 1 /\ Mounted(n, x)
          /\ Shown(n, x).what = m.source
          /\ (Shown(n, x).file <=> m.source \in {"file", "special"})
      BY <2>2, WithFsIs
    <3>2. Len(l.on[x]) = 0
      BY <1>5
    <3> QED
      BY <2>2, <3>1, <3>2 DEF Leftover
  <2> QED
    BY <1>3, <2>1, <2>2
<1>6. Attaches(b, l, x, m)
  <2> HIDE DEF n
  <2> QED
    BY <1>4, <1>5, BindMountIs
<1> QED
  BY <1>3, <1>1, <1>6

\* Whatever is asked for and whatever fails: mounted once at most, and as asked for
\* if it counts as mounted.
LEMMA AttachedIs ==
  ASSUME NEW l \in Layer, NEW x \in Places, NEW m \in Extras, NEW e, NEW fine, m.source # "other"
  PROVE  Attaches(Attached(l, x, m, e, fine), l, x, m)
<1>1. CASE m.source \in {"dir", "special"}
  <2>1. Attached(l, x, m, e, fine) = BindMount(l, x, m, e, fine)
    BY <1>1 DEF Attached
  <2> QED
    BY <2>1, OnlyAtSame, BindMountIs
<1>2. CASE m.source = "block"
  <2>1. Attached(l, x, m, e, fine) = MountDevice(l, x, m, e, fine)
    BY <1>2 DEF Attached
  <2> QED
    BY <2>1, MountDeviceIs
<1>3. CASE m.source \in {"typed", "typed_image"}
  <2>1. Attached(l, x, m, e, fine) = MountOtherType(l, x, m, e, fine)
    BY <1>3 DEF Attached
  <2> QED
    BY <2>1, MountOtherTypeIs
<1>4. CASE m.source \in {"image", "file"}
  <2>1. Attached(l, x, m, e, fine) = MountImage(l, x, m, e, fine)
    BY <1>4 DEF Attached
  <2> QED
    BY <1>4, <2>1, MountImageIs
<1> QED
  BY <1>1, <1>2, <1>3, <1>4 DEF Extras, Sources

-----------------------------------------------------------------------------
(* What the steps have in common *)

Only(p) == loc' \in [Procs -> Invocation] /\ \A q \in Procs \ {p} : loc'[q] = loc[q]

\* An invocation at work goes on or stops; with an umount, layers only go.
GoesOn(p) ==
  /\ loc[p].pc \notin Quiet
  /\ loc'[p].pc \in Quiet \/ (loc[p].pc \in Umounting => loc'[p].pc \in Umounting)
  /\ loc[p].pc \in Umounting => Len(layers') <= Len(layers)

\* What has gone wrong stays so.
LEMMA TroubleStays ==
  ASSUME trouble \subseteq trouble'
  PROVE  /\ (Alone' => Alone) /\ (Bound' => Bound /\ Alone')
         /\ (Untroubled' => Untroubled /\ Bound' /\ Alone' /\ "failed" \notin trouble')
BY DEF Alone, Bound, Untroubled

\* An update of one invocation.
LEMMA ChangesIs ==
  ASSUME Typed, NEW p \in Procs, NEW r \in Invocation, loc' = [loc EXCEPT ![p] = r]
  PROVE  Only(p) /\ loc'[p] = r
BY DEF Typed, Only

\* The next stage, and nothing else.
LEMMA GotoIs ==
  ASSUME Typed, NEW p \in Procs, NEW l \in Stages, Goto(p, l)
  PROVE  /\ Only(p) /\ loc'[p].pc = l
         /\ loc'[p].setting = loc[p].setting /\ loc'[p].at = loc[p].at /\ loc'[p].root = loc[p].root
         /\ loc'[p].list = loc[p].list /\ loc'[p].lines = loc[p].lines /\ loc'[p].warned = loc[p].warned
<1> DEFINE r == [loc[p] EXCEPT !.pc = l]
<1>1. loc[p] \in Invocation
  BY DEF Typed
<1>2. /\ r \in Invocation /\ r.pc = l
      /\ r.setting = loc[p].setting /\ r.at = loc[p].at /\ r.root = loc[p].root
      /\ r.list = loc[p].list /\ r.lines = loc[p].lines /\ r.warned = loc[p].warned
  BY <1>1 DEF Invocation
<1>3. loc' = [loc EXCEPT ![p] = r]
  BY DEF Goto
<1> HIDE DEF r
<1> QED
  BY <1>2, <1>3, ChangesIs

\* Nobody's invocation.
LEMMA IdleIs == Idle \in Invocation /\ Idle.pc = "idle" /\ Idle.root = 0 /\ Idle.at = 1
<1>1. (CHOOSE c \in Settings : TRUE) \in Settings
  BY SettingsAssumption
<1> QED
  BY <1>1 DEF Idle, Invocation, Stages, Quiet

\* A command ends.
LEMMA EndIs ==
  ASSUME Typed, NEW p \in Procs, End(p)
  PROVE  Only(p) /\ loc'[p] = Idle /\ loc'[p].pc = "idle" /\ loc'[p].root = 0
BY IdleIs, ChangesIs DEF End

\* The next target.
LEMMA NextExtraIs ==
  ASSUME Typed, NEW p \in Procs, NEW ok, NextExtra(p, ok)
  PROVE  /\ Only(p) /\ loc'[p].pc = "extra" /\ loc'[p].at = loc[p].at + 1
         /\ loc'[p].setting = loc[p].setting /\ loc'[p].root = loc[p].root
         /\ loc[p].warned \subseteq loc'[p].warned /\ (~ok => loc[p].at \in loc'[p].warned)
<1> DEFINE w == IF ok THEN loc[p].warned ELSE loc[p].warned \cup {loc[p].at}
           r == [loc[p] EXCEPT !.pc = "extra", !.at = @ + 1, !.warned = w]
<1>1. loc[p] \in Invocation
  BY DEF Typed
<1>2. w \in SUBSET Nat /\ loc[p].warned \subseteq w /\ (~ok => loc[p].at \in w)
  BY <1>1 DEF Invocation
<1>3. loc' = [loc EXCEPT ![p] = r]
  BY DEF NextExtra, Typed
<1> HIDE DEF w
<1>4. "extra" \in Stages /\ loc[p].at + 1 \in Nat \ {0}
  BY <1>1 DEF Stages, Outside, Invocation
<1>5. /\ r \in Invocation /\ r.pc = "extra" /\ r.at = loc[p].at + 1 /\ r.warned = w
      /\ r.setting = loc[p].setting /\ r.root = loc[p].root
  BY <1>1, <1>2, <1>4 DEF Invocation
<1> HIDE DEF r
<1> QED
  BY <1>2, <1>3, <1>5, ChangesIs

\* Layers stay what they are, or go.
LEMMA IdsStay ==
  ASSUME Typed, IdsDiffer, layers' \in Seq(Layer), Len(layers') > 0, Len(layers') <= Len(layers),
         \A k \in 1 .. Len(layers') : layers'[k].id = layers[k].id
  PROVE  IdsDiffer'
<1>1. DOMAIN layers' = 1 .. Len(layers') /\ DOMAIN layers = 1 .. Len(layers)
  BY DEF Typed
<1>2. Len(layers) \in Nat /\ Len(layers') \in Nat
  BY DEF Typed
<1>3. \A k \in 1 .. Len(layers') : k \in 1 .. Len(layers)
  BY <1>2
<1>4. layers'[1].id = 0
  BY <1>2 DEF IdsDiffer
<1>5. \A i, j \in DOMAIN layers' : layers'[i].id = layers'[j].id => i = j
  BY <1>1, <1>3 DEF IdsDiffer
<1> QED
  BY <1>4, <1>5 DEF IdsDiffer

\* Whoever goes on with what it does overlaps nobody new.
LEMMA ExclusiveStays ==
  ASSUME Exclusive, NEW p \in Procs, Only(p), GoesOn(p), Alone' => Alone
  PROVE  Exclusive'
<1> SUFFICES ASSUME Alone', NEW q \in Procs, NEW r \in Procs, q # r,
                    loc'[q].pc \notin Quiet, loc'[r].pc \notin Quiet
             PROVE  loc'[q].pc \in Umounting
  BY DEF Exclusive
<1>1. loc[q].pc \notin Quiet /\ loc[r].pc \notin Quiet
  BY DEF Only, GoesOn
<1>2. loc[q].pc \in Umounting
  BY <1>1 DEF Exclusive
<1> QED
  BY <1>2 DEF Only, GoesOn

\* Who has just begun has nothing to rely on.
LEMMA Undemanding ==
  ASSUME NEW q, loc'[q].pc \in Quiet \cup {"u_read", "rootfs", "self"}
  PROVE  Works(q)'
BY DEF Works, Counts, Quiet, Umounting, Outside, Entering, Masking

\* What an umount relies on.
LEMMA UmountWorks ==
  ASSUME NEW q, loc'[q].pc \in Umounting
  PROVE  Works(q)' <=> Counts(loc'[q], Len(layers'))
BY DEF Works, Umounting, Outside, Entering, Masking

\* Beside one at work, the others are quiet, or all of them umounts.
LEMMA OthersQuiet ==
  ASSUME Exclusive, Alone, NEW p \in Procs, loc[p].pc \notin Quiet, NEW q \in Procs \ {p}
  PROVE  \/ loc[q].pc \in Quiet
         \/ loc[q].pc \in Umounting /\ loc[p].pc \in Umounting
BY DEF Exclusive

\* An umount can do with fewer layers than it has counted on.
LEMMA UmountWorksOn ==
  ASSUME NEW q \in Procs, Works(q), loc'[q] = loc[q], loc[q].pc \in Umounting,
         Typed, layers' \in Seq(Layer), Len(layers') > 0, Len(layers') <= Len(layers)
  PROVE  Works(q)'
<1> DEFINE c == loc[q]
           n == Len(layers)
           m == Len(layers')
<1>1. Counts(c, n)
  BY DEF Works
<1>2. n \in Nat /\ m \in Nat /\ m > 0 /\ m <= n
  BY DEF Typed
<1>3. c.at \in Nat /\ c.found \in Nat /\ c.seen \in Nat /\ Len(c.lines) \in Nat /\ SystemRounds \in Nat
  BY RoundsAssumption DEF Typed, Invocation
<1> HIDE DEF c, n, m
<1>4. Handled(c) \in Int
  BY <1>3 DEF Handled
<1>5. Counts(c, m)
  <2> DEFINE f == c.found
             h == Handled(c)
  <2>1. f \in Nat /\ h \in Int /\ c.at \in Nat /\ SystemRounds \in Nat
    BY <1>3, <1>4
  <2>2. c.pc \in {"u_extra", "u_system", "u_subdir"} => c.lines = <<>> /\ c.seen = 0
    BY <1>1 DEF Counts
  <2>3. c.pc = "u_extra" => n <= f + 1
    BY <1>1 DEF Counts
  <2>4. c.pc = "u_system" => n = 1 \/ n + c.at <= f + 2
    BY <1>1 DEF Counts
  <2>5. c.pc = "u_subdir" => n = 1 \/ n + SystemRounds <= f + 1
    BY <1>1 DEF Counts
  <2>6. c.pc = "u_lines" =>
          /\ Len(c.lines) <= c.seen
          /\ \A i \in 1 .. Len(c.lines) : h + i # 1 => c.lines[i].id # 0
    BY <1>1 DEF Counts
  <2>7. c.pc = "u_lines" => n = 1 \/ (n + SystemRounds <= f + 1 /\ n + SystemRounds + h <= f + 2)
    BY <1>1 DEF Counts
  <2> DEFINE a == c.at
  <2>8. a \in Nat /\ (c.pc = "u_system" => n = 1 \/ n + a <= f + 2)
    BY <2>1, <2>4
  <2> HIDE DEF f, h, a
  <2>9. c.pc = "u_extra" => m <= f + 1
    BY <1>2, <2>1, <2>3
  <2>10. c.pc = "u_system" => m = 1 \/ m + a <= f + 2
    BY <1>2, <2>1, <2>8
  <2>11. c.pc = "u_subdir" => m = 1 \/ m + SystemRounds <= f + 1
    BY <1>2, <2>1, <2>5
  <2>12. c.pc = "u_lines" => m = 1 \/ (m + SystemRounds <= f + 1 /\ m + SystemRounds + h <= f + 2)
    BY <1>2, <2>1, <2>7
  <2> QED
    BY <2>2, <2>6, <2>9, <2>10, <2>11, <2>12 DEF Counts, f, h, a
<1> QED
  BY <1>5, UmountWorks DEF c, m

\* What is masked stays so.
LEMMA MaskedStays ==
  ASSUME NEW s \in Seq(MountType), AllMasked(s)
  PROVE  /\ s # <<>> => AllMasked(Front(s)) /\ IsMasked(Last(s))
         /\ \A n \in Nat : AllMasked(Less(s, n))
         /\ \A m \in MountType : IsMasked(m) => AllMasked(Append(s, m))
<1>1. \A i \in 1 .. Len(s) : IsMasked(s[i])
  BY DEF AllMasked
<1>2. ASSUME s # <<>>
      PROVE  AllMasked(Front(s)) /\ IsMasked(Last(s))
  <2>1. /\ Front(s) \in Seq(MountType) /\ Len(Front(s)) = Len(s) - 1 /\ Len(s) \in Nat \ {0}
        /\ \A i \in 1 .. Len(s) - 1 : Front(s)[i] = s[i]
    BY <1>2, FrontIs
  <2>2. \A i \in 1 .. Len(Front(s)) : IsMasked(Front(s)[i])
    BY <1>1, <2>1
  <2>3. IsMasked(Last(s))
    BY <1>1, <2>1 DEF Last
  <2> QED
    BY <2>1, <2>2, <2>3 DEF AllMasked
<1>3. ASSUME NEW n \in Nat
      PROVE  AllMasked(Less(s, n))
  <2> DEFINE t == Less(s, n)
  <2>1. /\ t \in Seq(MountType) /\ Len(t) = IF n <= Len(s) THEN Len(s) - n ELSE 0
        /\ \A i \in 1 .. Len(t) : t[i] = s[i]
    BY LessIs
  <2> HIDE DEF t
  <2>2. \A i \in 1 .. Len(t) : i \in 1 .. Len(s)
    BY <2>1
  <2>3. \A i \in 1 .. Len(t) : IsMasked(t[i])
    BY <1>1, <2>1, <2>2
  <2> QED
    BY <2>1, <2>3 DEF AllMasked, t
<1>4. ASSUME NEW m \in MountType, IsMasked(m)
      PROVE  AllMasked(Append(s, m))
  <2> DEFINE t == Append(s, m)
  <2>1. /\ t \in Seq(MountType) /\ Len(t) = Len(s) + 1 /\ t[Len(s) + 1] = m
        /\ \A i \in 1 .. Len(s) : t[i] = s[i]
    BY AppendIs
  <2> HIDE DEF t
  <2>2. \A i \in 1 .. Len(t) : i \in 1 .. Len(s) \/ i = Len(s) + 1
    BY <2>1
  <2>3. \A i \in 1 .. Len(t) : IsMasked(t[i])
    BY <1>1, <1>4, <2>1, <2>2
  <2> QED
    BY <2>1, <2>3 DEF AllMasked, t
<1> QED
  BY <1>2, <1>3, <1>4

\* While another than a start that masks is at work, all is masked.
LEMMA NoneMasking ==
  ASSUME Typed, Exclusive, MasksAreSet, Untroubled,
         NEW p \in Procs, loc[p].pc \notin Quiet, loc[p].pc \notin Masking
  PROVE  \A k \in 1 .. Len(layers) : AllMasked(layers[k].on["proc"])
<1>1. ASSUME NEW q \in Procs, loc[q].pc \in Masking
      PROVE  FALSE
  <2>1. q # p /\ loc[q].pc \notin Quiet /\ loc[q].pc \notin Umounting
    BY <1>1 DEF Masking, Quiet, Umounting
  <2> QED
    BY <2>1 DEF Exclusive, Untroubled, Alone
<1>2. DOMAIN layers = 1 .. Len(layers)
  BY DEF Typed
<1> QED
  BY <1>1, <1>2 DEF MasksAreSet

\* What one invocation does, with others at rest or unmounting as it does.
LEMMA StepKeeps ==
  ASSUME IInv, NEW p \in Procs, Only(p), GoesOn(p), trouble \subseteq trouble',
         Typed', IdsDiffer', Layered', MasksAreSet', Alone' => Works(p)'
  PROVE  IInv'
<1> USE DEF IInv
<1>1. Alone' => Alone
  BY TroubleStays
<1>2. Exclusive'
  BY <1>1, ExclusiveStays
<1>3. AllWork'
  <2> SUFFICES ASSUME Alone', NEW q \in Procs
               PROVE  Works(q)'
    BY DEF AllWork
  <2>1. CASE q = p
    BY <2>1
  <2>2. CASE q # p
    <3>1. loc'[q] = loc[q] /\ Works(q)
      BY <1>1, <2>2 DEF Only, AllWork
    <3>2. CASE loc[q].pc \in Quiet
      BY <3>1, <3>2, Undemanding
    <3>3. CASE loc[q].pc \in Umounting /\ loc[p].pc \in Umounting
      <4>1. layers' \in Seq(Layer) /\ Len(layers') > 0 /\ Len(layers') <= Len(layers)
        BY <3>3 DEF GoesOn, Typed
      <4> QED
        BY <3>1, <3>3, <4>1, UmountWorksOn
    <3> QED
      BY <1>1, <2>2, <3>2, <3>3, OthersQuiet DEF GoesOn
  <2> QED
    BY <2>1, <2>2
<1> QED
  BY <1>2, <1>3

\* A step of a start outside the container, or of an umount.
LEMMA Ordinary ==
  ASSUME IInv, NEW p \in Procs, Only(p), GoesOn(p), loc[p].pc \notin Masking,
         trouble \subseteq trouble', Typed', IdsDiffer', Layered',
         (\A k \in 1 .. Len(layers) : AllMasked(layers[k].on["proc"])) =>
           \A k \in 1 .. Len(layers') : AllMasked(layers'[k].on["proc"]),
         Alone' => Works(p)'
  PROVE  IInv'
<1>1. MasksAreSet'
  <2> SUFFICES ASSUME Untroubled', NEW k \in DOMAIN layers'
               PROVE  AllMasked(layers'[k].on["proc"])
    BY DEF MasksAreSet
  <2>1. \A i \in 1 .. Len(layers) : AllMasked(layers[i].on["proc"])
    BY NoneMasking, TroubleStays DEF GoesOn, IInv
  <2>2. DOMAIN layers' = 1 .. Len(layers')
    BY DEF Typed
  <2> QED
    BY <2>1, <2>2
<1> QED
  BY <1>1, StepKeeps

\* The layers stay as they are.
LEMMA LayersStay ==
  ASSUME IInv, UNCHANGED layers, trouble \subseteq trouble'
  PROVE  /\ layers' \in Seq(Layer) /\ Len(layers') > 0 /\ Top' = Top
         /\ IdsDiffer' /\ Layered' /\ Len(layers') <= Len(layers)
         /\ (\A k \in 1 .. Len(layers) : AllMasked(layers[k].on["proc"])) =>
              \A k \in 1 .. Len(layers') : AllMasked(layers'[k].on["proc"])
<1>1. (Alone' => Alone) /\ (Bound' => Bound)
  BY TroubleStays
<1>2. IdsDiffer'
  BY DEF IInv, IdsDiffer
<1>3. Layered'
  BY <1>1 DEF IInv, Layered
<1>4. layers' \in Seq(Layer) /\ Len(layers') > 0 /\ Len(layers') <= Len(layers)
  BY DEF IInv, Typed
<1>5. Top' = Top
  BY DEF Top
<1> QED
  BY <1>2, <1>3, <1>4, <1>5

\* Only the mounts in the top layer change.
LEMMA TopChanges ==
  ASSUME IInv, NEW l \in Layer, l.id = Top.id, layers' = WithTop(l), trouble \subseteq trouble',
         Alone => \A x \in Targets : Len(l.on[x]) <= 1,
         Bound /\ Top = Bare => l = Bare,
         AllMasked(Top.on["proc"]) => AllMasked(l.on["proc"])
  PROVE  /\ layers' \in Seq(Layer) /\ Len(layers') = Len(layers) /\ Len(layers') > 0
         /\ Top' = l /\ IdsDiffer' /\ Layered' /\ Len(layers') <= Len(layers)
         /\ (\A k \in 1 .. Len(layers) : AllMasked(layers[k].on["proc"])) =>
              \A k \in 1 .. Len(layers') : AllMasked(layers'[k].on["proc"])
<1> DEFINE n == Len(layers)
<1>1. /\ layers' \in Seq(Layer) /\ Len(layers') = n /\ n \in Nat \ {0}
      /\ \A k \in 1 .. n : layers'[k] = IF k = n THEN l ELSE layers[k]
      /\ Top = layers[n] /\ Last(layers') = l
  BY WithTopIs DEF IInv
<1> HIDE DEF n
<1>2. \A k \in 1 .. Len(layers') : layers'[k].id = layers[k].id
  BY <1>1
<1>3. IdsDiffer'
  <2>1. Len(layers') > 0 /\ Len(layers') <= Len(layers)
    BY <1>1 DEF n
  <2> QED
    BY <1>1, <1>2, <2>1, IdsStay DEF IInv
<1>4. DOMAIN layers = 1 .. n /\ DOMAIN layers' = 1 .. n
  BY <1>1 DEF IInv, Typed, n
<1>5. Layered'
  <2>1. Bound => layers'[1] = Bare
    <3>1. Bound => layers[1] = Bare
      BY DEF IInv, Layered
    <3> QED
      BY <1>1, <3>1
  <2>2. Alone => \A k \in 1 .. n : \A x \in Targets : Len(layers'[k].on[x]) <= 1
    <3>1. Alone => \A k \in 1 .. n : \A x \in Targets : Len(layers[k].on[x]) <= 1
      BY <1>4 DEF IInv, Layered
    <3> QED
      BY <1>1, <3>1
  <2> QED
    BY <1>4, <2>1, <2>2, TroubleStays DEF Layered
<1>6. (\A k \in 1 .. n : AllMasked(layers[k].on["proc"])) =>
        \A k \in 1 .. n : AllMasked(layers'[k].on["proc"])
  BY <1>1
<1>7. Top' = l
  BY <1>1 DEF Top
<1>8. Len(layers') > 0 /\ Len(layers') <= Len(layers) /\ n = Len(layers)
  BY <1>1 DEF n
<1> QED
  BY <1>1, <1>3, <1>5, <1>6, <1>7, <1>8

\* A layer is mounted.
LEMMA LayerComes ==
  ASSUME IInv, NEW s \in Seq(Layer), Len(s) > 0, Len(s) <= Len(layers),
         \A k \in 1 .. Len(s) : s[k] = layers[k],
         NEW l \in Layer, l.id = Fresh, layers' = Append(s, l), trouble \subseteq trouble',
         Alone => \A x \in Targets : Len(l.on[x]) <= 1,
         (\A k \in 1 .. Len(layers) : AllMasked(layers[k].on["proc"])) => AllMasked(l.on["proc"])
  PROVE  /\ layers' \in Seq(Layer) /\ Len(layers') > 0 /\ Len(layers') > 1
         /\ Top' = l /\ IdsDiffer' /\ Layered'
         /\ (\A k \in 1 .. Len(layers) : AllMasked(layers[k].on["proc"])) =>
              \A k \in 1 .. Len(layers') : AllMasked(layers'[k].on["proc"])
<1> DEFINE n == Len(s)
<1>1. /\ layers' \in Seq(Layer) /\ Len(layers') = n + 1 /\ Last(layers') = l
      /\ \A k \in 1 .. n : layers'[k] = s[k]
      /\ layers'[n + 1] = l
  BY AppendIs
<1>2. n \in Nat \ {0} /\ Len(layers) \in Nat /\ n <= Len(layers)
  BY DEF IInv, Typed
<1>3. \A k \in 1 .. n : s[k] = layers[k] /\ k \in 1 .. Len(layers)
  BY <1>2
<1>4. DOMAIN layers' = 1 .. n + 1 /\ DOMAIN layers = 1 .. Len(layers)
  BY <1>1 DEF IInv, Typed
<1> HIDE DEF n
<1>5. \A k \in 1 .. n : layers'[k] = layers[k] /\ k \in DOMAIN layers
  BY <1>1, <1>3, <1>4
<1>6. \A k \in 1 .. n + 1 : k \in 1 .. n \/ k = n + 1
  BY <1>2
<1>7. IdsDiffer'
  <2>1. layers'[1].id = 0
    BY <1>2, <1>5 DEF IInv, IdsDiffer
  <2>2. \A k \in 1 .. n : layers[k].id # Fresh
    BY <1>3, FreshIs DEF IInv
  <2>3. ASSUME NEW i \in 1 .. n + 1, NEW j \in 1 .. n + 1, layers'[i].id = layers'[j].id
        PROVE  i = j
    <3>1. CASE i = n + 1 /\ j = n + 1
      BY <3>1
    <3>2. CASE i \in 1 .. n /\ j \in 1 .. n
      BY <1>5, <2>3, <3>2 DEF IInv, IdsDiffer
    <3>3. CASE i \in 1 .. n /\ j = n + 1
      BY <1>1, <1>5, <2>2, <2>3, <3>3
    <3>4. CASE i = n + 1 /\ j \in 1 .. n
      BY <1>1, <1>5, <2>2, <2>3, <3>4
    <3> QED
      BY <1>6, <3>1, <3>2, <3>3, <3>4
  <2> QED
    BY <1>4, <2>1, <2>3 DEF IdsDiffer
<1>8. Layered'
  <2>1. Bound => layers'[1] = Bare
    <3>1. Bound => layers[1] = Bare
      BY DEF IInv, Layered
    <3> QED
      BY <1>2, <1>5, <3>1
  <2>2. Alone => \A k \in 1 .. n + 1 : \A x \in Targets : Len(layers'[k].on[x]) <= 1
    <3>1. Alone => \A k \in DOMAIN layers : \A x \in Targets : Len(layers[k].on[x]) <= 1
      BY DEF IInv, Layered
    <3> QED
      BY <1>1, <1>5, <1>6, <3>1
  <2> QED
    BY <1>4, <2>1, <2>2, TroubleStays DEF Layered
<1>9. (\A k \in 1 .. Len(layers) : AllMasked(layers[k].on["proc"])) =>
        \A k \in 1 .. n + 1 : AllMasked(layers'[k].on["proc"])
  BY <1>1, <1>3, <1>5, <1>6
<1>10. Top' = l
  BY <1>1 DEF Top
<1>11. Len(layers') > 0 /\ Len(layers') > 1
  BY <1>1, <1>2
<1> QED
  BY <1>1, <1>7, <1>8, <1>9, <1>10, <1>11

\* The types, after a step of one invocation.
LEMMA TypedStays ==
  ASSUME Typed, NEW p \in Procs, Only(p),
         layers' \in Seq(Layer), Len(layers') > 0,
         own' \in [Trees -> [Targets -> Entries]], stored' \in [Trees -> Seq(Targets)],
         loops' \in 0 .. MaxLoops, trouble' \in SUBSET Troubles,
         loc'[p].pc = "attach" =>
           /\ loc'[p].at <= Len(loc'[p].setting.mounts)
           /\ loc'[p].setting.mounts[loc'[p].at].source # "other",
         loc'[p].pc \in {"rootfs", "self"} => loc'[p].at = 1
  PROVE  Typed'
<1>1. ASSUME NEW q \in Procs
      PROVE  /\ loc'[q].pc = "attach" => /\ loc'[q].at <= Len(loc'[q].setting.mounts)
                                         /\ loc'[q].setting.mounts[loc'[q].at].source # "other"
             /\ loc'[q].pc \in {"rootfs", "self"} => loc'[q].at = 1
  <2>1. CASE q = p
    BY <2>1
  <2>2. CASE q # p
    <3>1. loc'[q] = loc[q]
      BY <2>2 DEF Only
    <3> QED
      BY <3>1 DEF Typed, Extra
  <2> QED
    BY <2>1, <2>2
<1> QED
  BY <1>1 DEF Typed, Extra, Only

\* What may fail.
LEMMA TroubleIs ==
  ASSUME Typed, NEW ok \in BOOLEAN, ok \/ May("failed"), Trouble(ok)
  PROVE  /\ trouble' \in SUBSET Troubles /\ trouble \subseteq trouble'
         /\ Untroubled' => ok
BY DEF Typed, May, Bounded, Trouble, Untroubled

\* A loop device is taken, if there is one.
LEMMA LosetupIs ==
  ASSUME Typed
  PROVE  Losetup \in 0 .. MaxLoops
BY RoundsAssumption DEF Typed, Losetup

-----------------------------------------------------------------------------
(* A start, before chroot(2) *)

\* A start in a layer of its own, past which it is not looking at targets.
LEMMA WorksOutside ==
  ASSUME NEW p \in Procs,
         Bound' => Len(layers') > 1 /\ \A q \in Procs \ {p} : loc'[q].root # Top'.id,
         loc'[p].pc \in Outside \ {"extra", "attach"} \/ loc'[p].pc \in Entering
           \/ (loc'[p].pc = "extra" /\ loc'[p].at = 1)
  PROVE  Works(p)'
<1>1. Bound' => Len(layers') > 1 /\ IsNew(p, Top.id)'
  BY DEF IsNew
<1>2. CASE loc'[p].pc \in Outside \ {"extra", "attach"}
  BY <1>1, <1>2 DEF Works, Outside, Entering, Masking, Umounting
<1>3. CASE loc'[p].pc \in Entering
  BY <1>1, <1>3 DEF Works, Outside, Entering, Masking, Umounting
<1>4. CASE loc'[p].pc = "extra" /\ loc'[p].at = 1
  <2>1. \A i \in 1 .. loc'[p].at - 1 : FALSE
    BY <1>4
  <2> QED
    BY <1>1, <1>4, <2>1 DEF Works, Outside, Entering, Masking, Umounting
<1> QED
  BY <1>2, <1>3, <1>4

\* An image on the directory is a layer more, or one less below it when it fails.
LEMMA MountRootfsKeeps ==
  ASSUME IInv, NEW p \in Procs, MountRootfs(p)
  PROVE  IInv'
<1> DEFINE below == IF Len(layers) > 1 THEN Front(layers) ELSE layers
           l == [Bare EXCEPT !.id = Fresh, !.tree = "image"]
<1>1. PICK ok \in BOOLEAN, image \in BOOLEAN :
        /\ ok \/ May("failed")
        /\ loops' = IF image THEN Losetup ELSE loops
        /\ IF ok /\ (image => loops < MaxLoops)
             THEN layers' = Append(below, l) /\ Goto(p, "extra")
             ELSE layers' = below /\ End(p)
        /\ Trouble(ok)
  BY DEF MountRootfs
<1>2. loc[p].pc = "rootfs" /\ UNCHANGED <<own, stored>>
  BY DEF MountRootfs
<1>3. Typed /\ IdsDiffer
  BY DEF IInv
<1>4. loc[p].at = 1 /\ loc[p].pc \notin Quiet \cup Umounting \cup Masking
  BY <1>2, <1>3 DEF Typed, Quiet, Umounting, Masking
<1>5. /\ below \in Seq(Layer) /\ Len(below) > 0 /\ Len(below) <= Len(layers)
      /\ \A k \in 1 .. Len(below) : below[k] = layers[k]
  <2>1. layers \in Seq(Layer) /\ layers # <<>> /\ Len(layers) \in Nat \ {0}
    BY <1>3 DEF Typed
  <2>2. CASE Len(layers) > 1
    <3>1. /\ Front(layers) \in Seq(Layer) /\ Len(Front(layers)) = Len(layers) - 1
          /\ \A i \in 1 .. Len(layers) - 1 : Front(layers)[i] = layers[i]
      BY <2>1, FrontIs
    <3> QED
      BY <2>1, <2>2, <3>1
  <2>3. CASE ~(Len(layers) > 1)
    BY <2>1, <2>3
  <2> QED
    BY <2>2, <2>3
<1> HIDE DEF below
<1>6. trouble' \in SUBSET Troubles /\ trouble \subseteq trouble' /\ loops' \in 0 .. MaxLoops
  BY <1>1, <1>3, TroubleIs, LosetupIs DEF Typed
<1>7. CASE layers' = Append(below, l) /\ Goto(p, "extra")
  <2>1. "extra" \in Stages
    BY DEF Stages, Outside
  <2>2. Only(p) /\ loc'[p].pc = "extra" /\ loc'[p].at = 1
    BY <1>3, <1>4, <1>7, <2>1, GotoIs
  <2>3. Fresh \in Nat /\ \A q \in Procs : loc[q].root # Fresh
    BY <1>3, FreshIs
  <2>4. l \in Layer /\ l.id = Fresh /\ \A x \in Places : l.on[x] = <<>>
    BY <2>3, LayerIs DEF Bare, Trees
  <2> HIDE DEF l
  <2>5. Alone => \A x \in Targets : Len(l.on[x]) <= 1
    BY <2>4, LayerIs
  <2>6. AllMasked(l.on["proc"])
    BY <2>4, LayerIs DEF AllMasked
  <2>7. /\ layers' \in Seq(Layer) /\ Len(layers') > 0 /\ Len(layers') > 1
        /\ Top' = l /\ IdsDiffer' /\ Layered'
        /\ (\A k \in 1 .. Len(layers) : AllMasked(layers[k].on["proc"])) =>
             \A k \in 1 .. Len(layers') : AllMasked(layers'[k].on["proc"])
    BY <1>5, <1>6, <1>7, <2>4, <2>5, <2>6, LayerComes
  <2>8. Typed'
    BY <1>2, <1>3, <1>6, <2>2, <2>7, TypedStays DEF Typed
  <2>9. Works(p)'
    BY <2>2, <2>3, <2>4, <2>7, WorksOutside DEF Only
  <2>10. GoesOn(p)
    BY <1>4 DEF GoesOn
  <2> QED
    BY <1>4, <1>6, <2>2, <2>7, <2>8, <2>9, <2>10, Ordinary
<1>8. CASE layers' = below /\ End(p)
  <2>1. Only(p) /\ loc'[p].pc = "idle"
    BY <1>3, <1>8, EndIs
  <2>2. IdsDiffer'
    BY <1>3, <1>5, <1>8, IdsStay
  <2>3. Typed'
    BY <1>2, <1>3, <1>5, <1>6, <1>8, <2>1, TypedStays DEF Typed
  <2>4. /\ DOMAIN layers = 1 .. Len(layers) /\ DOMAIN layers' = 1 .. Len(layers')
        /\ \A k \in 1 .. Len(layers') : layers'[k] = layers[k] /\ k \in 1 .. Len(layers)
        /\ 1 \in 1 .. Len(layers')
    BY <1>3, <1>5, <1>8 DEF Typed
  <2>5. Layered'
    BY <1>6, <2>4, TroubleStays DEF Layered, IInv
  <2>6. Works(p)'
    BY <2>1, Undemanding DEF Quiet
  <2>7. GoesOn(p)
    BY <1>4, <2>1 DEF GoesOn, Quiet
  <2> QED
    BY <1>4, <1>6, <2>1, <2>2, <2>3, <2>4, <2>5, <2>6, <2>7, Ordinary
<1> QED
  BY <1>1, <1>7, <1>8

\* The directory bound on itself is a layer with all that the one below it has.
LEMMA BoundKeeps ==
  ASSUME IInv, NEW p \in Procs, MountSelf(p),
         layers' = Append(layers, [Top EXCEPT !.id = Fresh]), UNCHANGED trouble
  PROVE  IInv'
<1> DEFINE l == [Top EXCEPT !.id = Fresh]
           to == IF loc[p].pc = "self" THEN "extra" ELSE "qemu"
<1>1. /\ loc[p].pc \in {"self", "self_after"} /\ layers' = Append(layers, l) /\ Goto(p, to)
      /\ UNCHANGED <<own, stored, loops, trouble>>
  BY DEF MountSelf
<1>2. Typed /\ IdsDiffer
  BY DEF IInv
<1>3. /\ loc[p].pc = "self" => loc[p].at = 1
      /\ loc[p].pc \notin Quiet \cup Umounting \cup Masking
  BY <1>1, <1>2 DEF Typed, Quiet, Umounting, Masking
<1>4. to \in Stages /\ to \in {"extra", "qemu"} /\ (to = "extra" => loc[p].pc = "self")
  BY <1>1 DEF Stages, Outside
<1> HIDE DEF to
<1>5. Only(p) /\ loc'[p].pc = to /\ loc'[p].at = loc[p].at
  BY <1>1, <1>2, <1>4, GotoIs
<1>6. Fresh \in Nat /\ \A q \in Procs : loc[q].root # Fresh
  BY <1>2, FreshIs
<1>7. /\ layers \in Seq(Layer) /\ Len(layers) > 0 /\ Len(layers) \in Nat \ {0}
      /\ Top \in Layer /\ Top = layers[Len(layers)]
  BY <1>2, LayerIs, WithTopIs DEF Typed
<1>8. l \in Layer /\ l.id = Fresh /\ l.on = Top.on
  BY <1>6, <1>7, LayerIs
<1> HIDE DEF l
<1>9. Len(layers) \in 1 .. Len(layers) /\ DOMAIN layers = 1 .. Len(layers)
  BY <1>7
<1>10. Alone => \A x \in Targets : Len(l.on[x]) <= 1
  BY <1>7, <1>8, <1>9 DEF IInv, Layered
<1>11. (\A k \in 1 .. Len(layers) : AllMasked(layers[k].on["proc"])) => AllMasked(l.on["proc"])
  BY <1>7, <1>8, <1>9
<1>12. trouble \subseteq trouble' /\ Len(layers) <= Len(layers)
  BY <1>1, <1>7
<1>13. /\ layers' \in Seq(Layer) /\ Len(layers') > 0 /\ Len(layers') > 1
       /\ Top' = l /\ IdsDiffer' /\ Layered'
       /\ (\A k \in 1 .. Len(layers) : AllMasked(layers[k].on["proc"])) =>
            \A k \in 1 .. Len(layers') : AllMasked(layers'[k].on["proc"])
  BY <1>1, <1>7, <1>8, <1>10, <1>11, <1>12, LayerComes
<1>14. Typed'
  BY <1>1, <1>2, <1>4, <1>5, <1>13, TypedStays DEF Typed
<1>15. loc'[p].pc \in Outside \ {"extra", "attach"} \/ (loc'[p].pc = "extra" /\ loc'[p].at = 1)
  <2>1. CASE to = "extra"
    BY <1>3, <1>4, <1>5, <2>1
  <2>2. CASE to = "qemu"
    BY <1>5, <2>2 DEF Outside
  <2> QED
    BY <1>4, <2>1, <2>2
<1>16. Works(p)'
  BY <1>5, <1>6, <1>8, <1>13, <1>15, WorksOutside DEF Only
<1>17. GoesOn(p)
  BY <1>3 DEF GoesOn
<1> QED
  BY <1>3, <1>5, <1>12, <1>13, <1>14, <1>16, <1>17, Ordinary

\* A directory that could not be bound on itself is left as it was.
LEMMA UnboundKeeps ==
  ASSUME IInv, NEW p \in Procs, MountSelf(p), UNCHANGED layers,
         May("unbound"), trouble' = trouble \cup {"unbound"}
  PROVE  IInv'
<1> DEFINE to == IF loc[p].pc = "self" THEN "extra" ELSE "qemu"
<1>1. /\ loc[p].pc \in {"self", "self_after"} /\ Goto(p, to)
      /\ UNCHANGED <<own, stored, loops>>
  BY DEF MountSelf
<1>2. /\ Typed /\ trouble \subseteq trouble' /\ trouble' \in SUBSET Troubles /\ ~Bound'
  BY DEF IInv, May, Bounded, Bound
<1>3. /\ loc[p].pc = "self" => loc[p].at = 1
      /\ loc[p].pc \notin Quiet \cup Umounting \cup Masking
  BY <1>1, <1>2 DEF Typed, Quiet, Umounting, Masking
<1>4. to \in Stages /\ to \in {"extra", "qemu"} /\ (to = "extra" => loc[p].pc = "self")
  BY <1>1 DEF Stages, Outside
<1> HIDE DEF to
<1>5. Only(p) /\ loc'[p].pc = to /\ loc'[p].at = loc[p].at
  BY <1>1, <1>2, <1>4, GotoIs
<1>6. /\ layers' \in Seq(Layer) /\ Len(layers') > 0 /\ IdsDiffer' /\ Layered'
      /\ (\A k \in 1 .. Len(layers) : AllMasked(layers[k].on["proc"])) =>
           \A k \in 1 .. Len(layers') : AllMasked(layers'[k].on["proc"])
  BY <1>2, LayersStay
<1>7. Typed'
  BY <1>1, <1>2, <1>4, <1>5, <1>6, TypedStays DEF Typed
<1>8. Works(p)'
  <2>1. CASE to = "extra"
    BY <1>2, <1>3, <1>4, <1>5, <2>1, WorksOutside
  <2>2. CASE to = "qemu"
    BY <1>2, <1>5, <2>2, WorksOutside DEF Outside
  <2> QED
    BY <1>4, <2>1, <2>2
<1>9. GoesOn(p)
  BY <1>3 DEF GoesOn
<1> QED
  BY <1>2, <1>3, <1>5, <1>6, <1>7, <1>8, <1>9, Ordinary

\* Either way.
LEMMA MountSelfKeeps ==
  ASSUME IInv, NEW p \in Procs, MountSelf(p)
  PROVE  IInv'
BY BoundKeeps, UnboundKeeps DEF MountSelf

\* A stage outside, in which only the top layer and .rurienv may change.
LEMMA OutsideKeeps ==
  ASSUME IInv, NEW p \in Procs, loc[p].pc \in Outside \ {"attach"}, trouble \subseteq trouble',
         NEW to \in (Outside \ {"extra", "attach"}) \cup {"binary"}, Goto(p, to),
         layers' \in Seq(Layer), Len(layers') = Len(layers), Top'.id = Top.id,
         IdsDiffer', Layered',
         (\A k \in 1 .. Len(layers) : AllMasked(layers[k].on["proc"])) =>
           \A k \in 1 .. Len(layers') : AllMasked(layers'[k].on["proc"]),
         stored' \in [Trees -> Seq(Targets)], UNCHANGED <<own, loops>>, trouble' \in SUBSET Troubles
  PROVE  IInv'
<1>1. Typed /\ Len(layers) > 0 /\ to \in Stages
  BY DEF IInv, Typed, Stages, Outside, Entering
<1>2. Only(p) /\ loc'[p].pc = to
  BY <1>1, GotoIs
<1>3. Typed'
  BY <1>1, <1>2, TypedStays DEF Typed, Outside
<1>4. loc[p].pc \notin Quiet /\ loc[p].pc \notin Umounting /\ loc[p].pc \notin Masking
  BY DEF Outside, Quiet, Umounting, Masking
<1>5. GoesOn(p)
  BY <1>4 DEF GoesOn
<1>6. ASSUME Alone'
      PROVE  Works(p)'
  <2>1. Works(p)
    BY <1>6, TroubleStays DEF IInv, AllWork
  <2>2. Bound => Len(layers) > 1 /\ \A q \in Procs \ {p} : loc[q].root # Top.id
    BY <2>1 DEF Works, IsNew
  <2>3. Bound' => Len(layers') > 1 /\ \A q \in Procs \ {p} : loc'[q].root # Top'.id
    BY <1>2, <2>2, TroubleStays DEF Only
  <2>4. loc'[p].pc \in Outside \ {"extra", "attach"} \/ loc'[p].pc \in Entering
    BY <1>2 DEF Entering
  <2> QED
    BY <2>3, <2>4, WorksOutside
<1> QED
  BY <1>2, <1>3, <1>4, <1>5, <1>6, Ordinary

\* The loop over the targets is left.
LEMMA ExtrasDoneKeeps ==
  ASSUME IInv, NEW p \in Procs, ExtrasDone(p)
  PROVE  IInv'
<1> DEFINE to == IF loc[p].setting.rootfs_source THEN "self_after" ELSE "qemu"
<1>1. loc[p].pc = "extra" /\ Goto(p, to) /\ UNCHANGED <<layers, own, stored, loops, trouble>>
  BY DEF ExtrasDone, host
<1>2. to \in (Outside \ {"extra", "attach"}) \cup {"binary"}
  BY DEF Outside
<1> HIDE DEF to
<1>3. trouble \subseteq trouble' /\ loc[p].pc \in Outside \ {"attach"}
  BY <1>1 DEF Outside
<1>4. /\ layers' \in Seq(Layer) /\ Top' = Top /\ IdsDiffer' /\ Layered'
      /\ (\A k \in 1 .. Len(layers) : AllMasked(layers[k].on["proc"])) =>
           \A k \in 1 .. Len(layers') : AllMasked(layers'[k].on["proc"])
  BY <1>1, <1>3, LayersStay
<1>5. stored' \in [Trees -> Seq(Targets)] /\ trouble' \in SUBSET Troubles
  BY <1>1 DEF IInv, Typed
<1> QED
  BY <1>1, <1>2, <1>3, <1>4, <1>5, OutsideKeeps

\* An invocation ends, and leaves the layers as they are.
LEMMA EndKeeps ==
  ASSUME IInv, NEW p \in Procs, loc[p].pc \notin Quiet, loc[p].pc \in Masking => ~Untroubled',
         End(p), UNCHANGED <<layers, own, stored, loops>>,
         trouble \subseteq trouble', trouble' \in SUBSET Troubles
  PROVE  IInv'
<1>1. Typed
  BY DEF IInv
<1>2. Only(p) /\ loc'[p].pc = "idle"
  BY <1>1, EndIs
<1>3. /\ layers' \in Seq(Layer) /\ Len(layers') > 0 /\ IdsDiffer' /\ Layered'
      /\ Len(layers') <= Len(layers)
      /\ (\A k \in 1 .. Len(layers) : AllMasked(layers[k].on["proc"])) =>
           \A k \in 1 .. Len(layers') : AllMasked(layers'[k].on["proc"])
  BY LayersStay
<1>4. Typed'
  BY <1>1, <1>2, <1>3, TypedStays DEF Typed
<1>5. GoesOn(p)
  BY <1>2, <1>3 DEF GoesOn, Quiet
<1>6. Works(p)'
  BY <1>2, Undemanding DEF Quiet
<1>7. CASE loc[p].pc \notin Masking
  BY <1>2, <1>3, <1>4, <1>5, <1>6, <1>7, Ordinary
<1>8. CASE loc[p].pc \in Masking
  <2>1. MasksAreSet'
    BY <1>8 DEF MasksAreSet
  <2> QED
    BY <1>2, <1>3, <1>4, <1>5, <1>6, <2>1, StepKeeps
<1> QED
  BY <1>7, <1>8

\* QEMU is copied, or the start ends in an error with all of it mounted.
LEMMA CopyQemuKeeps ==
  ASSUME IInv, NEW p \in Procs, CopyQemu(p)
  PROVE  IInv'
<1>1. loc[p].pc = "qemu" /\ UNCHANGED <<layers, own, stored, loops, trouble>>
  BY DEF CopyQemu, host
<1>2. /\ loc[p].pc \in Outside \ {"attach"} /\ loc[p].pc \notin Quiet /\ loc[p].pc \notin Masking
      /\ "store" \in (Outside \ {"extra", "attach"}) \cup {"binary"}
  BY <1>1 DEF Outside, Quiet, Masking
<1>3. trouble \subseteq trouble' /\ trouble' \in SUBSET Troubles /\ stored' \in [Trees -> Seq(Targets)]
  BY <1>1 DEF IInv, Typed
<1>4. CASE Goto(p, "store")
  <2>1. /\ layers' \in Seq(Layer) /\ Top' = Top /\ IdsDiffer' /\ Layered'
        /\ (\A k \in 1 .. Len(layers) : AllMasked(layers[k].on["proc"])) =>
             \A k \in 1 .. Len(layers') : AllMasked(layers'[k].on["proc"])
    BY <1>1, <1>3, LayersStay
  <2> QED
    BY <1>1, <1>2, <1>3, <1>4, <2>1, OutsideKeeps
<1>5. CASE End(p)
  BY <1>1, <1>2, <1>3, <1>5, EndKeeps
<1> QED
  BY <1>4, <1>5 DEF CopyQemu

\* A start that is alone works in a layer above the bare directory.
LEMMA TopIsNotBare ==
  ASSUME IInv, Bound, NEW p \in Procs, loc[p].pc \in Outside \cup Entering
  PROVE  Len(layers) > 1 /\ Top.id # 0 /\ Top # Bare /\ Top.id \in Nat
<1>1. Len(layers) > 1
  BY DEF IInv, AllWork, Works, Bound
<1>2. Top = layers[Len(layers)] /\ Top \in Layer
  BY LayerIs, WithTopIs DEF IInv
<1>3. layers[1].id = 0 /\ DOMAIN layers = 1 .. Len(layers) /\ Len(layers) \in Nat
  BY DEF IInv, IdsDiffer, Typed
<1>4. Top.id # 0
  BY <1>1, <1>2, <1>3 DEF IInv, IdsDiffer
<1> QED
  BY <1>1, <1>2, <1>4, LayerIs

\* The targets of the top layer.
LEMMA TopTargets ==
  ASSUME IInv, Alone
  PROVE  \A x \in Targets : Len(Top.on[x]) <= 1
<1>1. Top = layers[Len(layers)] /\ Len(layers) \in Nat \ {0}
  BY LayerIs, WithTopIs DEF IInv
<1>2. Len(layers) \in DOMAIN layers
  BY <1>1 DEF IInv, Typed
<1> QED
  BY <1>1, <1>2 DEF IInv, Layered

\* .rurienv is mounted on itself, which no target and no procfs is.
LEMMA StoreInfoKeeps ==
  ASSUME IInv, NEW p \in Procs, StoreInfo(p)
  PROVE  IInv'
<1> DEFINE c == loc[p].setting
           x == ".rurienv"
           l == Pop(Top, x)
           m == Mount("file", TRUE)
           n == Push(l, x, m)
<1>1. loc[p].pc = "store" /\ Goto(p, "host") /\ UNCHANGED <<own, loops, trouble>>
  BY DEF StoreInfo
<1>2. /\ loc[p].pc \in Outside \ {"attach"} /\ loc[p].pc \in Outside \cup Entering
      /\ "host" \in (Outside \ {"extra", "attach"}) \cup {"binary"}
      /\ trouble \subseteq trouble' /\ trouble' \in SUBSET Troubles
  BY <1>1 DEF Outside, IInv, Typed
<1>3. CASE UNCHANGED <<layers, stored>>
  <2>1. /\ layers' \in Seq(Layer) /\ Top' = Top /\ IdsDiffer' /\ Layered' /\ Len(layers') = Len(layers)
        /\ (\A k \in 1 .. Len(layers) : AllMasked(layers[k].on["proc"])) =>
             \A k \in 1 .. Len(layers') : AllMasked(layers'[k].on["proc"])
    BY <1>2, <1>3, LayersStay
  <2>2. stored' \in [Trees -> Seq(Targets)]
    BY <1>3 DEF IInv, Typed
  <2> QED
    BY <1>1, <1>2, <2>1, <2>2, OutsideKeeps
<1>4. CASE /\ stored' = IF l.ro \/ Mounted(l, x) THEN stored
                        ELSE [stored EXCEPT ![l.tree] = [i \in DOMAIN c.mounts |-> c.mounts[i].at]]
           /\ layers' = WithTop(n)
  <2>1. Top \in Layer /\ x \in Places
    BY LayerIs, WithTopIs DEF IInv
  <2>2. l \in Layer /\ OnlyAt(Top, l, x)
    BY <2>1, PopIs DEF OnlyAt
  <2>3. m \in MountType
    BY MountIs DEF Sources
  <2>4. n \in Layer /\ n.id = Top.id /\ \A y \in Places \ {x} : n.on[y] = Top.on[y]
    <3> HIDE DEF l, m
    <3>1. OnlyAt(l, n, x)
      BY <2>1, <2>2, <2>3, PushIs
    <3> QED
      BY <2>2, <3>1 DEF OnlyAt
  <2> HIDE DEF n
  <2>5. Alone => \A y \in Targets : Len(n.on[y]) <= 1
    BY <2>4, LayerIs, TopTargets
  <2>6. Bound /\ Top = Bare => n = Bare
    BY <1>2, TopIsNotBare
  <2>7. n.on["proc"] = Top.on["proc"]
    BY <2>4, LayerIs
  <2>8. /\ layers' \in Seq(Layer) /\ Top' = n /\ IdsDiffer' /\ Layered' /\ Len(layers') = Len(layers)
        /\ (\A k \in 1 .. Len(layers) : AllMasked(layers[k].on["proc"])) =>
             \A k \in 1 .. Len(layers') : AllMasked(layers'[k].on["proc"])
    BY <1>2, <1>4, <2>4, <2>5, <2>6, <2>7, TopChanges
  <2>9. stored' \in [Trees -> Seq(Targets)]
    <3> DEFINE t == [i \in DOMAIN c.mounts |-> c.mounts[i].at]
    <3>1. c \in Setting
      BY SettingsAssumption DEF IInv, Typed, Invocation
    <3>2. c.mounts \in Seq(Extras)
      BY <3>1 DEF Setting, Extras
    <3>3. t \in Seq(Targets)
      <4>1. DOMAIN c.mounts = 1 .. Len(c.mounts) /\ Len(c.mounts) \in Nat
        BY <3>2
      <4>2. \A i \in 1 .. Len(c.mounts) : c.mounts[i].at \in Targets
        <5>1. \A i \in 1 .. Len(c.mounts) : c.mounts[i] \in Extras
          BY <3>2
        <5> QED
          BY <5>1 DEF Extras
      <4>3. t \in [1 .. Len(c.mounts) -> Targets]
        BY <4>1, <4>2
      <4> QED
        BY <4>1, <4>3
    <3>4. stored \in [Trees -> Seq(Targets)]
      BY DEF IInv, Typed
    <3> QED
      BY <1>4, <3>3, <3>4
  <2> QED
    BY <1>1, <1>2, <2>4, <2>8, <2>9, OutsideKeeps
<1> QED
  BY <1>3, <1>4 DEF StoreInfo

\* -S mounts a procfs that no masks are wanted for.
LEMMA MountHostRuntimeKeeps ==
  ASSUME IInv, NEW p \in Procs, MountHostRuntime(p)
  PROVE  IInv'
<1>1. PICK xs \in SUBSET System :
        /\ loc[p].pc = "host" /\ Goto(p, "ro_root") /\ UNCHANGED <<own, stored, loops>>
        /\ \/ /\ layers' = WithTop(PushAll(Top, [x \in xs |-> Mount("host", FALSE)]))
              /\ trouble \subseteq trouble' /\ trouble' \in SUBSET Troubles
           \/ UNCHANGED <<layers, trouble>>
  <2>1. CASE UNCHANGED <<layers, trouble>>
    BY <2>1 DEF MountHostRuntime
  <2>2. CASE ~UNCHANGED <<layers, trouble>>
    <3>1. PICK xs \in SUBSET System :
            /\ xs = System \/ May("failed")
            /\ layers' = WithTop(PushAll(Top, [x \in xs |-> Mount("host", FALSE)]))
            /\ Trouble(xs = System)
      BY <2>2 DEF MountHostRuntime
    <3>2. trouble \subseteq trouble' /\ trouble' \in SUBSET Troubles
      BY <3>1 DEF IInv, Typed, May, Bounded, Trouble
    <3> QED
      BY <3>1, <3>2 DEF MountHostRuntime
  <2> QED
    BY <2>1, <2>2
<1> DEFINE ms == [x \in xs |-> Mount("host", FALSE)]
           n == PushAll(Top, ms)
<1>2. /\ loc[p].pc \in Outside \ {"attach"} /\ loc[p].pc \in Outside \cup Entering
      /\ "ro_root" \in (Outside \ {"extra", "attach"}) \cup {"binary"}
      /\ trouble \subseteq trouble' /\ trouble' \in SUBSET Troubles
  BY <1>1 DEF Outside, IInv, Typed
<1>3. stored' \in [Trees -> Seq(Targets)]
  BY <1>1 DEF IInv, Typed
<1>4. CASE UNCHANGED layers
  <2>1. /\ layers' \in Seq(Layer) /\ Top' = Top /\ IdsDiffer' /\ Layered' /\ Len(layers') = Len(layers)
        /\ (\A k \in 1 .. Len(layers) : AllMasked(layers[k].on["proc"])) =>
             \A k \in 1 .. Len(layers') : AllMasked(layers'[k].on["proc"])
    BY <1>2, <1>4, LayersStay
  <2> QED
    BY <1>1, <1>2, <1>3, <2>1, OutsideKeeps
<1>5. CASE layers' = WithTop(n)
  <2>1. Top \in Layer /\ xs \subseteq Places /\ "proc" \in Places
    BY LayerIs, WithTopIs DEF IInv
  <2>2. Mount("host", FALSE) \in MountType /\ IsMasked(Mount("host", FALSE))
    BY MountIs DEF IsMasked
  <2>3. ms \in [xs -> MountType] /\ \A x \in xs : ms[x] = Mount("host", FALSE)
    BY <2>2
  <2> HIDE DEF ms
  <2>4. /\ n \in Layer /\ n.id = Top.id
        /\ \A x \in Places : n.on[x] = IF x \in xs THEN Append(Top.on[x], ms[x]) ELSE Top.on[x]
    BY <2>1, <2>3, PushAllIs
  <2> HIDE DEF n
  <2>5. Alone => \A y \in Targets : Len(n.on[y]) <= 1
    BY <2>4, LayerIs, TopTargets
  <2>6. Bound /\ Top = Bare => n = Bare
    BY <1>2, TopIsNotBare
  <2>7. AllMasked(Top.on["proc"]) => AllMasked(n.on["proc"])
    <3>1. Top.on["proc"] \in Seq(MountType)
      BY <2>1, LayerIs
    <3>2. n.on["proc"] \in {Top.on["proc"], Append(Top.on["proc"], Mount("host", FALSE))}
      BY <2>1, <2>3, <2>4
    <3> QED
      BY <2>2, <3>1, <3>2, MaskedStays
  <2>8. /\ layers' \in Seq(Layer) /\ Top' = n /\ IdsDiffer' /\ Layered' /\ Len(layers') = Len(layers)
        /\ (\A k \in 1 .. Len(layers) : AllMasked(layers[k].on["proc"])) =>
             \A k \in 1 .. Len(layers') : AllMasked(layers'[k].on["proc"])
    BY <1>2, <1>5, <2>4, <2>5, <2>6, <2>7, TopChanges
  <2> QED
    BY <1>1, <1>2, <1>3, <2>4, <2>8, OutsideKeeps
<1> QED
  BY <1>1, <1>4, <1>5

\* -R changes nothing of what is mounted below.
LEMMA MountRoRootKeeps ==
  ASSUME IInv, NEW p \in Procs, MountRoRoot(p)
  PROVE  IInv'
<1> DEFINE n == [Top EXCEPT !.ro = TRUE]
<1>1. /\ loc[p].pc = "ro_root" /\ Goto(p, "binary") /\ UNCHANGED <<own, stored, loops, trouble>>
      /\ layers' = WithTop(n) \/ UNCHANGED layers
  BY DEF MountRoRoot
<1>2. /\ loc[p].pc \in Outside \ {"attach"} /\ loc[p].pc \in Outside \cup Entering
      /\ "binary" \in (Outside \ {"extra", "attach"}) \cup {"binary"}
      /\ trouble \subseteq trouble' /\ trouble' \in SUBSET Troubles
  BY <1>1 DEF Outside, IInv, Typed
<1>3. stored' \in [Trees -> Seq(Targets)]
  BY <1>1 DEF IInv, Typed
<1>4. CASE UNCHANGED layers
  <2>1. /\ layers' \in Seq(Layer) /\ Top' = Top /\ IdsDiffer' /\ Layered' /\ Len(layers') = Len(layers)
        /\ (\A k \in 1 .. Len(layers) : AllMasked(layers[k].on["proc"])) =>
             \A k \in 1 .. Len(layers') : AllMasked(layers'[k].on["proc"])
    BY <1>2, <1>4, LayersStay
  <2> QED
    BY <1>1, <1>2, <1>3, <2>1, OutsideKeeps
<1>5. CASE layers' = WithTop(n)
  <2>1. Top \in Layer
    BY WithTopIs, LayerIs DEF IInv
  <2>2. n \in Layer /\ n.id = Top.id /\ n.on = Top.on
    BY <2>1, LayerIs
  <2> HIDE DEF n
  <2>3. Alone => \A y \in Targets : Len(n.on[y]) <= 1
    BY <2>2, TopTargets
  <2>4. Bound /\ Top = Bare => n = Bare
    BY <1>2, TopIsNotBare
  <2>5. /\ layers' \in Seq(Layer) /\ Top' = n /\ IdsDiffer' /\ Layered' /\ Len(layers') = Len(layers)
        /\ (\A k \in 1 .. Len(layers) : AllMasked(layers[k].on["proc"])) =>
             \A k \in 1 .. Len(layers') : AllMasked(layers'[k].on["proc"])
    BY <1>2, <1>5, <2>2, <2>3, <2>4, TopChanges
  <2> QED
    BY <1>1, <1>2, <1>3, <2>2, <2>5, OutsideKeeps
<1> QED
  BY <1>1, <1>4, <1>5

-----------------------------------------------------------------------------
(* The targets *)

\* The target in turn is one that was asked for.
LEMMA ExtraIs ==
  ASSUME Typed, NEW p \in Procs, loc[p].at <= Len(loc[p].setting.mounts)
  PROVE  /\ Extra(p) \in Extras /\ Extra(p).at \in Targets /\ Extra(p).at \in Places
         /\ Extra(p).ro \in BOOLEAN /\ Extra(p).source \in Sources
<1>1. loc[p].setting \in Setting /\ loc[p].at \in Nat \ {0}
  BY SettingsAssumption DEF Typed, Invocation
<1>2. loc[p].setting.mounts \in Seq(Extras)
  BY <1>1 DEF Setting, Extras
<1>3. loc[p].at \in 1 .. Len(loc[p].setting.mounts)
  BY <1>1, <1>2
<1>4. Extra(p) \in Extras
  BY <1>2, <1>3 DEF Extra
<1> QED
  BY <1>4, LayerIs DEF Extras

\* A target that was done is so when the next one has been dealt with, ...
LEMMA DoneStays ==
  ASSUME NEW p, NEW i \in Nat, NEW n, Top' = n, NEW a \in Nat, a = loc[p].at, i < a,
         IsDone(p, i),
         \A y \in Places \ {Extra(p).at} : n.on[y] = Top.on[y],
         loc[p].setting.mounts[i].at \in Places,
         loc'[p].setting = loc[p].setting, loc[p].warned \subseteq loc'[p].warned,
         \/ loc'[p].pc = "extra" /\ loc'[p].at = a + 1
         \/ loc'[p].pc = "attach" /\ loc'[p].at = a
  PROVE  IsDone(p, i)'
<1> DEFINE ms == loc[p].setting.mounts
<1>1. CASE i \in loc[p].warned
  BY <1>1 DEF IsDone
<1>2. CASE \E j \in i + 1 .. a - 1 : ms[j].at = ms[i].at
  <2>1. PICK j \in i + 1 .. a - 1 : ms[j].at = ms[i].at
    BY <1>2
  <2>2. j \in i + 1 .. loc'[p].at - 1
    BY <2>1
  <2> QED
    BY <2>1, <2>2 DEF IsDone
<1>3. CASE ms[i].at = ms[a].at
  <2>1. CASE loc'[p].pc = "extra" /\ loc'[p].at = a + 1
    <3>1. a \in i + 1 .. loc'[p].at - 1
      BY <2>1
    <3> QED
      BY <1>3, <3>1 DEF IsDone
  <2>2. CASE loc'[p].pc = "attach" /\ loc'[p].at = a
    BY <1>3, <2>2 DEF IsDone, Extra
  <2> QED
    BY <2>1, <2>2
<1>4. CASE /\ Mounted(Top, ms[i].at) /\ Shown(Top, ms[i].at).what = ms[i].source
           /\ Shown(Top, ms[i].at).ro = ms[i].ro
           /\ ms[i].at # ms[a].at
  <2>1. Top'.on[ms[i].at] = Top.on[ms[i].at]
    BY <1>4 DEF Extra
  <2> QED
    BY <1>4, <2>1 DEF IsDone, Mounted, Shown
<1> QED
  BY <1>1, <1>2, <1>3, <1>4 DEF IsDone, Extra

\* ... and so a start that deals with one works as it should.
LEMMA TargetWorks ==
  ASSUME IInv, Alone, NEW p \in Procs, loc[p].pc \in {"extra", "attach"},
         loc[p].at <= Len(loc[p].setting.mounts),
         NEW n, OnlyAt(Top, n, Extra(p).at), Top' = n, Len(layers') = Len(layers),
         Only(p), loc'[p].setting = loc[p].setting, loc[p].warned \subseteq loc'[p].warned,
         trouble \subseteq trouble',
         \/ /\ loc'[p].pc = "extra" /\ loc'[p].at = loc[p].at + 1
            /\ \/ loc[p].at \in loc'[p].warned
               \/ /\ Mounted(n, Extra(p).at) /\ Shown(n, Extra(p).at).what = Extra(p).source
                  /\ Shown(n, Extra(p).at).ro = Extra(p).ro
         \/ loc'[p].pc = "attach" /\ loc'[p].at = loc[p].at /\ n.on[Extra(p).at] = <<>>
  PROVE  Works(p)'
<1> DEFINE a == loc[p].at
<1>1. Typed /\ Works(p)
  BY DEF IInv, AllWork
<1>2. a \in Nat \ {0} /\ loc[p].setting \in Setting
  BY <1>1, SettingsAssumption DEF Typed, Invocation
<1>3. \A i \in 1 .. Len(loc[p].setting.mounts) : loc[p].setting.mounts[i].at \in Places
  <2>1. loc[p].setting.mounts \in Seq(Extras)
    BY <1>2 DEF Setting, Extras
  <2>2. \A i \in 1 .. Len(loc[p].setting.mounts) : loc[p].setting.mounts[i] \in Extras
    BY <2>1
  <2> QED
    BY <2>2, LayerIs DEF Extras
<1>4. Len(loc[p].setting.mounts) \in Nat
  BY <1>2 DEF Setting
<1>5. ASSUME NEW i \in 1 .. a - 1
      PROVE  IsDone(p, i)'
  <2>1. IsDone(p, i)
    BY <1>1 DEF Works
  <2>2. i \in Nat /\ i < a /\ i \in 1 .. Len(loc[p].setting.mounts) /\ a \in Nat
    BY <1>2, <1>4
  <2>3. \/ loc'[p].pc = "extra" /\ loc'[p].at = a + 1
        \/ loc'[p].pc = "attach" /\ loc'[p].at = a
    OBVIOUS
  <2>4. \A y \in Places \ {Extra(p).at} : n.on[y] = Top.on[y]
    BY DEF OnlyAt
  <2>5. loc[p].setting.mounts[i].at \in Places
    BY <1>3, <2>2
  <2> HIDE DEF a
  <2>6. a = loc[p].at
    BY DEF a
  <2> QED
    BY <2>1, <2>2, <2>3, <2>4, <2>5, <2>6, DoneStays
<1>6. ASSUME NEW i \in 1 .. loc'[p].at - 1
      PROVE  IsDone(p, i)'
  <2>1. CASE i \in 1 .. a - 1
    BY <1>5, <2>1
  <2>2. CASE loc'[p].pc = "extra" /\ i = a
    <3>1. CASE a \in loc'[p].warned
      BY <2>2, <3>1 DEF IsDone
    <3>2. CASE /\ Mounted(n, Extra(p).at) /\ Shown(n, Extra(p).at).what = Extra(p).source
               /\ Shown(n, Extra(p).at).ro = Extra(p).ro
      BY <2>2, <3>2 DEF IsDone, Extra, Mounted, Shown
    <3> QED
      BY <2>2, <3>1, <3>2
  <2> QED
    BY <1>2, <2>1, <2>2
<1>7. Bound' => Len(layers') > 1 /\ IsNew(p, Top.id)'
  <2>1. Bound => Len(layers) > 1 /\ \A q \in Procs \ {p} : loc[q].root # Top.id
    BY <1>1 DEF Works, Outside, IsNew
  <2>2. Top'.id = Top.id
    BY DEF OnlyAt
  <2> QED
    BY <2>1, <2>2, TroubleStays DEF IsNew, Only
<1>8. loc'[p].pc = "attach" => Top'.on[loc'[p].setting.mounts[loc'[p].at].at] = <<>>
  BY DEF Extra
<1>9. loc'[p].pc \in {"extra", "attach"}
  OBVIOUS
<1> QED
  BY <1>6, <1>7, <1>8, <1>9 DEF Works, Outside, Entering, Masking, Umounting, Extra

\* A step that deals with a target.
LEMMA TargetKeeps ==
  ASSUME IInv, NEW p \in Procs, loc[p].pc \in {"extra", "attach"},
         loc[p].at <= Len(loc[p].setting.mounts),
         NEW n, OnlyAt(Top, n, Extra(p).at), layers' = WithTop(n),
         Alone => Len(n.on[Extra(p).at]) <= 1,
         Only(p), loc'[p].setting = loc[p].setting, loc[p].warned \subseteq loc'[p].warned,
         \/ /\ loc'[p].pc = "extra" /\ loc'[p].at = loc[p].at + 1
            /\ Alone => \/ loc[p].at \in loc'[p].warned
                        \/ /\ Mounted(n, Extra(p).at) /\ Shown(n, Extra(p).at).what = Extra(p).source
                           /\ Shown(n, Extra(p).at).ro = Extra(p).ro
         \/ /\ loc'[p].pc = "attach" /\ loc'[p].at = loc[p].at /\ Extra(p).source # "other"
            /\ Alone => n.on[Extra(p).at] = <<>>,
         own' \in [Trees -> [Targets -> Entries]], UNCHANGED stored, loops' \in 0 .. MaxLoops,
         trouble \subseteq trouble', trouble' \in SUBSET Troubles
  PROVE  IInv'
<1>1. Typed /\ n \in Layer /\ n.id = Top.id /\ \A y \in Places \ {Extra(p).at} : n.on[y] = Top.on[y]
  BY DEF IInv, OnlyAt
<1>2. Extra(p).at \in Targets /\ Extra(p).at \in Places
  BY <1>1, ExtraIs
<1>3. /\ loc[p].pc \in Outside \cup Entering
      /\ loc[p].pc \notin Quiet /\ loc[p].pc \notin Umounting /\ loc[p].pc \notin Masking
  BY DEF Outside, Quiet, Umounting, Masking
<1>4. Alone => \A y \in Targets : Len(n.on[y]) <= 1
  BY <1>1, LayerIs, TopTargets
<1>5. Bound /\ Top = Bare => n = Bare
  BY <1>3, TopIsNotBare
<1>6. n.on["proc"] = Top.on["proc"]
  BY <1>1, <1>2, LayerIs
<1>7. /\ layers' \in Seq(Layer) /\ Top' = n /\ IdsDiffer' /\ Layered' /\ Len(layers') = Len(layers)
      /\ Len(layers') > 0
      /\ (\A k \in 1 .. Len(layers) : AllMasked(layers[k].on["proc"])) =>
           \A k \in 1 .. Len(layers') : AllMasked(layers'[k].on["proc"])
  BY <1>1, <1>4, <1>5, <1>6, TopChanges
<1>8. loc'[p].pc = "attach" =>
        /\ loc'[p].at <= Len(loc'[p].setting.mounts)
        /\ loc'[p].setting.mounts[loc'[p].at].source # "other"
  BY DEF Extra
<1>9. stored' \in [Trees -> Seq(Targets)] /\ loc'[p].pc \notin {"rootfs", "self"}
  BY <1>1 DEF Typed
<1>10. Typed'
  BY <1>1, <1>7, <1>8, <1>9, TypedStays
<1>11. GoesOn(p)
  BY <1>3 DEF GoesOn
<1>12. Alone' => Works(p)'
  BY <1>7, TroubleStays, TargetWorks
<1> QED
  BY <1>3, <1>7, <1>10, <1>11, <1>12, Ordinary

\* What is at the mount point is of its type.
LEMMA EntriesAre ==
  ASSUME NEW l, NEW x, NEW e \in Entries
  PROVE  MkMountpointDir(l, x, e) \in Entries /\ TouchMountpointFile(l, x, e) \in Entries
BY DEF MkMountpointDir, TouchMountpointFile, Removed, Entries

\* ruri_trymount() unmounts the target; another one that showed there stays done
\* because a later one, this, has its place.
LEMMA MakeMountpointKeeps ==
  ASSUME IInv, NEW p \in Procs, MakeMountpoint(p)
  PROVE  IInv'
<1> DEFINE m == Extra(p)
           e == own[Top.tree][m.at]
           l == Unstacked(Top, m.at)
           made == CASE m.source = "other"   -> e
                     [] m.source = "special" -> TouchMountpointFile(l, m.at, e)
                     [] OTHER                -> MkMountpointDir(l, m.at, e)
           loop == m.source \in {"image", "file", "typed_image"}
<1>1. /\ loc[p].pc = "extra" /\ loc[p].at <= Len(loc[p].setting.mounts)
      /\ layers' = WithTop(l) /\ own' = [own EXCEPT ![Top.tree][m.at] = made]
      /\ loops' = Losetup \/ loops' = loops
      /\ (m.source # "other" /\ Goto(p, "attach")) \/ NextExtra(p, FALSE)
      /\ UNCHANGED <<stored, trouble>>
  BY DEF MakeMountpoint, AtExtra
<1>2. Typed
  BY DEF IInv
<1>3. m.at \in Targets /\ m.at \in Places
  BY <1>1, <1>2, ExtraIs
<1>4. Top \in Layer /\ Top.tree \in Trees
  BY <1>2, LayerIs, WithTopIs
<1>5. OnlyAt(Top, l, m.at) /\ (Len(Top.on[m.at]) <= 1 => l.on[m.at] = <<>>)
  BY <1>3, <1>4, PopIs DEF Unstacked
<1>6. e \in Entries
  BY <1>2, <1>3, <1>4 DEF Typed
<1>7. made \in Entries
  BY <1>6, EntriesAre
<1> HIDE DEF l, made, e
<1>8. own' \in [Trees -> [Targets -> Entries]]
  BY <1>1, <1>2, <1>3, <1>4, <1>7 DEF Typed
<1>9. loops' \in 0 .. MaxLoops /\ trouble' \in SUBSET Troubles /\ trouble \subseteq trouble'
  BY <1>1, <1>2, LosetupIs DEF Typed
<1>10. Alone => l.on[m.at] = <<>>
  BY <1>3, <1>5, TopTargets
<1>11. Alone => Len(l.on[m.at]) <= 1
  BY <1>10
<1>12. CASE m.source # "other" /\ Goto(p, "attach")
  <2>1. "attach" \in Stages
    BY DEF Stages, Outside
  <2>2. /\ Only(p) /\ loc'[p].pc = "attach" /\ loc'[p].at = loc[p].at
        /\ loc'[p].setting = loc[p].setting /\ loc[p].warned \subseteq loc'[p].warned
    BY <1>2, <1>12, <2>1, GotoIs
  <2> QED
    BY <1>1, <1>5, <1>8, <1>9, <1>10, <1>11, <1>12, <2>2, TargetKeeps
<1>13. CASE NextExtra(p, FALSE)
  <2>1. /\ Only(p) /\ loc'[p].pc = "extra" /\ loc'[p].at = loc[p].at + 1
        /\ loc'[p].setting = loc[p].setting /\ loc[p].warned \subseteq loc'[p].warned
        /\ loc[p].at \in loc'[p].warned
    <3> DEFINE no == FALSE
    <3>1. NextExtra(p, no) /\ ~no
      BY <1>13
    <3> HIDE DEF no
    <3> QED
      BY <1>2, <3>1, NextExtraIs
  <2> QED
    BY <1>1, <1>5, <1>8, <1>9, <1>11, <2>1, TargetKeeps
<1> QED
  BY <1>1, <1>12, <1>13

\* The target is mounted as asked, or warned of, on a place with nothing on it.
LEMMA AttachKeeps ==
  ASSUME IInv, NEW p \in Procs, Attach(p)
  PROVE  IInv'
<1> DEFINE m == Extra(p)
           e == own[Top.tree][m.at]
<1>1. PICK fine \in Fines :
        /\ fine = AllFine \/ May("failed")
        /\ layers' = WithTop(Attached(Top, m.at, m, e, fine).layer)
        /\ own' = [own EXCEPT ![Top.tree][m.at] =
                     IF m.source = "file" \/ (m.source = "image" /\ ~fine[1])
                       THEN TouchMountpointFile(Top, m.at, e) ELSE e]
        /\ NextExtra(p, Attached(Top, m.at, m, e, fine).ok)
        /\ Trouble(fine = AllFine)
  BY DEF Attach, Fines
<1> DEFINE a == Attached(Top, m.at, m, e, fine)
           made == IF m.source = "file" \/ (m.source = "image" /\ ~fine[1])
                     THEN TouchMountpointFile(Top, m.at, e) ELSE e
<1>2. Typed /\ loc[p].pc = "attach" /\ UNCHANGED <<stored, loops>>
  BY DEF IInv, Attach
<1>3. loc[p].at <= Len(loc[p].setting.mounts) /\ m.source # "other"
  BY <1>2 DEF Typed
<1>4. m \in Extras /\ m.at \in Targets /\ m.at \in Places
  BY <1>2, <1>3, ExtraIs
<1>5. Top \in Layer /\ Top.tree \in Trees
  BY <1>2, LayerIs, WithTopIs
<1>6. Attaches(a, Top, m.at, m)
  <2> HIDE DEF m, e
  <2> QED
    BY <1>3, <1>4, <1>5, AttachedIs
<1>7. e \in Entries
  BY <1>2, <1>4, <1>5 DEF Typed
<1>8. made \in Entries
  BY <1>7, EntriesAre
<1>9. layers' = WithTop(a.layer) /\ own' = [own EXCEPT ![Top.tree][m.at] = made]
  BY <1>1
<1>10. NextExtra(p, a.ok)
  BY <1>1
<1>11. trouble' \in SUBSET Troubles /\ trouble \subseteq trouble'
  BY <1>1, <1>2 DEF Typed, May, Bounded, Trouble
<1> HIDE DEF a, made, e
<1>12. own' \in [Trees -> [Targets -> Entries]] /\ loops' \in 0 .. MaxLoops
  BY <1>2, <1>4, <1>5, <1>8, <1>9 DEF Typed
<1>13. /\ Only(p) /\ loc'[p].pc = "extra" /\ loc'[p].at = loc[p].at + 1
       /\ loc'[p].setting = loc[p].setting /\ loc[p].warned \subseteq loc'[p].warned
       /\ ~a.ok => loc[p].at \in loc'[p].warned
  BY <1>2, <1>10, NextExtraIs
<1>14. Alone => Top.on[m.at] = <<>>
  BY <1>2 DEF IInv, AllWork, Works
<1>15. Alone =>
         /\ Len(a.layer.on[m.at]) <= 1
         /\ \/ loc[p].at \in loc'[p].warned
            \/ /\ Mounted(a.layer, m.at) /\ Shown(a.layer, m.at).what = m.source
               /\ Shown(a.layer, m.at).ro = m.ro
  BY <1>6, <1>13, <1>14 DEF Attaches
<1>16. OnlyAt(Top, a.layer, m.at)
  BY <1>6 DEF Attaches
<1> DEFINE n == a.layer
<1>17. /\ layers' = WithTop(n) /\ OnlyAt(Top, n, m.at)
       /\ Alone => Len(n.on[m.at]) <= 1
       /\ Alone => \/ loc[p].at \in loc'[p].warned
                   \/ /\ Mounted(n, m.at) /\ Shown(n, m.at).what = m.source
                      /\ Shown(n, m.at).ro = m.ro
  BY <1>9, <1>15, <1>16
<1> HIDE DEF n
<1> QED
  BY <1>2, <1>3, <1>11, <1>12, <1>13, <1>17, TargetKeeps

-----------------------------------------------------------------------------
(* A command begins, and the directory is entered *)

\* procfs is never on the bare directory.
LEMMA ProcIsAbove ==
  ASSUME IInv, Bound, HasProc(Top)
  PROVE  Len(layers) > 1
<1>1. layers[1] = Bare /\ Top = layers[Len(layers)] /\ Len(layers) \in Nat \ {0}
  BY LayerIs, WithTopIs DEF IInv, Layered
<1>2. Bare.on["proc"] = <<>>
  BY LayerIs
<1>3. Top # Bare
  BY <1>2 DEF HasProc, Mounted
<1> QED
  BY <1>1, <1>3

\* Nobody is at work when a command begins, or that is an overlap; one that skips the
\* mounts has found procfs.
LEMMA BeginKeeps ==
  ASSUME IInv, NEW p \in Procs, NEW c \in Settings, NEW l \in {"binary", "rootfs", "self", "u_read"},
         BeginAs(p, l, c), UNCHANGED host, l = "binary" => HasProc(Top)
  PROVE  IInv'
<1> DEFINE r == [Idle EXCEPT !.pc = l, !.setting = c]
<1>1. /\ loc[p].pc = "idle" /\ loc' = [loc EXCEPT ![p] = r]
      /\ trouble \subseteq trouble' /\ trouble' \in SUBSET Troubles
      /\ UNCHANGED <<layers, own, stored, loops>>
  BY DEF BeginAs, Bounded, host
<1>2. Typed
  BY DEF IInv
<1>3. Alone' => \A q \in Procs \ {p} : loc[q].pc \in Quiet \/ (loc[q].pc \in Umounting /\ l \in Umounting)
  BY DEF BeginAs, Alone
<1>4. l \in Stages
  BY DEF Stages, Entering, Umounting
<1>5. r \in Invocation /\ r.pc = l /\ r.at = 1
  BY <1>4, IdleIs DEF Invocation
<1> HIDE DEF r
<1>6. Only(p) /\ loc'[p].pc = l /\ loc'[p].at = 1
  BY <1>1, <1>2, <1>5, ChangesIs
<1>7. layers' \in Seq(Layer) /\ Len(layers') > 0 /\ Len(layers') <= Len(layers) /\ IdsDiffer' /\ Layered'
  BY <1>1, LayersStay
<1>8. Typed'
  BY <1>1, <1>2, <1>6, <1>7, TypedStays DEF Typed
<1>9. Exclusive'
  <2> SUFFICES ASSUME Alone', NEW q \in Procs, NEW s \in Procs, q # s,
                      loc'[q].pc \notin Quiet, loc'[s].pc \notin Quiet
               PROVE  loc'[q].pc \in Umounting
    BY DEF Exclusive
  <2>1. CASE q = p
    <3>1. loc'[s] = loc[s] /\ s # p
      BY <1>6, <2>1 DEF Only
    <3> QED
      BY <1>3, <1>6, <2>1, <3>1
  <2>2. CASE q # p /\ s = p
    <3>1. loc'[q] = loc[q]
      BY <1>6, <2>2 DEF Only
    <3> QED
      BY <1>3, <2>2, <3>1
  <2>3. CASE q # p /\ s # p
    <3>1. loc'[q] = loc[q] /\ loc'[s] = loc[s]
      BY <1>6, <2>3 DEF Only
    <3>2. Alone
      BY <1>1, TroubleStays
    <3> QED
      BY <3>1, <3>2 DEF IInv, Exclusive
  <2> QED
    BY <2>1, <2>2, <2>3
<1>10. MasksAreSet'
  <2> SUFFICES ASSUME Untroubled', NEW k \in DOMAIN layers, ~AllMasked(layers[k].on["proc"])
               PROVE  /\ AllMasked(Front(layers[k].on["proc"]))
                      /\ \E q \in Procs : loc'[q].pc \in Masking /\ k \in Roots(q)'
    BY <1>1 DEF MasksAreSet
  <2>1. Untroubled
    BY <1>1, TroubleStays
  <2>2. PICK q \in Procs : loc[q].pc \in Masking /\ k \in Roots(q)
    BY <2>1 DEF IInv, MasksAreSet
  <2>3. loc'[q] = loc[q]
    BY <1>1, <1>6, <2>2 DEF Only, Masking
  <2>4. k \in Roots(q)'
    BY <1>1, <2>2, <2>3 DEF Roots
  <2> QED
    BY <2>1, <2>2, <2>3, <2>4 DEF IInv, MasksAreSet
<1>11. AllWork'
  <2> SUFFICES ASSUME Alone', NEW q \in Procs
               PROVE  Works(q)'
    BY DEF AllWork
  <2>1. Alone
    BY <1>1, TroubleStays
  <2>2. CASE q = p /\ l # "binary"
    BY <1>6, <2>2, Undemanding
  <2>3. CASE q = p /\ l = "binary"
    <3>1. Bound => Len(layers) > 1 /\ HasProc(Top)
      BY <2>3, ProcIsAbove
    <3>2. Bound' => Len(layers') > 1 /\ HasProc(Top)'
      BY <1>1, <3>1, TroubleStays DEF HasProc, Top, Mounted, Shown
    <3> QED
      BY <1>6, <2>3, <3>2 DEF Works, Outside, Entering, Masking, Umounting
  <2>4. CASE q # p
    <3>1. loc'[q] = loc[q] /\ Works(q)
      BY <1>6, <2>1, <2>4 DEF Only, IInv, AllWork
    <3>2. CASE loc[q].pc \in Quiet
      BY <3>1, <3>2, Undemanding
    <3>3. CASE loc[q].pc \in Umounting
      BY <1>2, <1>7, <3>1, <3>3, UmountWorksOn
    <3> QED
      BY <1>3, <2>4, <3>2, <3>3
  <2> QED
    BY <2>2, <2>3, <2>4
<1> QED
  BY <1>7, <1>8, <1>9, <1>10, <1>11 DEF IInv

\* A container whose QEMU is missing is unmounted by who was about to start it.
LEMMA CheckBinaryKeeps ==
  ASSUME IInv, NEW p \in Procs, CheckBinary(p)
  PROVE  IInv'
<1> DEFINE to == IF loc[p].setting.qemu_path = "missing" THEN "u_read" ELSE "chroot"
<1>1. /\ loc[p].pc = "binary" /\ Goto(p, to) /\ to \in {"u_read", "chroot"}
      /\ UNCHANGED <<layers, own, stored, loops, trouble>>
  BY DEF CheckBinary, host
<1> HIDE DEF to
<1>2. Typed /\ to \in Stages
  BY <1>1 DEF IInv, Stages, Umounting, Entering
<1>3. Only(p) /\ loc'[p].pc = to
  BY <1>1, <1>2, GotoIs
<1>4. /\ layers' \in Seq(Layer) /\ Len(layers') > 0 /\ IdsDiffer' /\ Layered'
      /\ (\A k \in 1 .. Len(layers) : AllMasked(layers[k].on["proc"])) =>
           \A k \in 1 .. Len(layers') : AllMasked(layers'[k].on["proc"])
  BY <1>1, LayersStay
<1>5. Typed'
  BY <1>1, <1>2, <1>3, <1>4, TypedStays DEF Typed
<1>6. GoesOn(p) /\ loc[p].pc \notin Masking
  BY <1>1 DEF GoesOn, Quiet, Umounting, Masking
<1>7. ASSUME Alone'
      PROVE  Works(p)'
  <2>1. CASE to = "u_read"
    BY <1>3, <2>1, Undemanding
  <2>2. CASE to = "chroot"
    <3>1. Bound => Len(layers) > 1 /\ (HasProc(Top) \/ IsNew(p, Top.id))
      BY <1>1, <1>7, TroubleStays DEF IInv, AllWork, Works, Entering
    <3>2. Bound' => Len(layers') > 1 /\ (HasProc(Top)' \/ IsNew(p, Top.id)')
      BY <1>1, <1>3, <3>1, TroubleStays DEF HasProc, Top, Mounted, Shown, IsNew, Only
    <3> QED
      BY <1>3, <2>2, <3>2 DEF Works, Outside, Entering, Masking, Umounting
  <2> QED
    BY <1>1, <2>1, <2>2
<1> QED
  BY <1>1, <1>3, <1>4, <1>5, <1>6, <1>7, Ordinary

\* What a start calls chroot(2) on is not the bare directory.
LEMMA ChrootKeeps ==
  ASSUME IInv, NEW p \in Procs, Chroot(p)
  PROVE  IInv'
<1> DEFINE to == IF loc[p].setting.just_chroot THEN "running" ELSE "proc"
           r == [loc[p] EXCEPT !.root = Top.id, !.pc = to]
<1>1. /\ loc[p].pc = "chroot" /\ loc' = [loc EXCEPT ![p].root = Top.id, ![p].pc = to]
      /\ to \in {"running", "proc"} /\ UNCHANGED <<layers, own, stored, loops, trouble>>
  BY DEF Chroot, host
<1>2. Typed /\ to \in Stages
  BY <1>1 DEF IInv, Stages, Quiet
<1>3. Top \in Layer /\ Top = layers[Len(layers)] /\ Len(layers) \in Nat \ {0}
  BY <1>2, LayerIs, WithTopIs
<1>4. loc[p] \in Invocation /\ Top.id \in Nat
  BY <1>2, <1>3, LayerIs DEF Typed
<1> HIDE DEF to
<1>5. r \in Invocation /\ r.pc = to /\ r.root = Top.id
  BY <1>2, <1>4 DEF Invocation
<1>6. loc' = [loc EXCEPT ![p] = r]
  BY <1>1, <1>2 DEF Typed
<1> HIDE DEF r
<1>7. Only(p) /\ loc'[p].pc = to /\ loc'[p].root = Top.id
  BY <1>2, <1>5, <1>6, ChangesIs
<1>8. /\ layers' \in Seq(Layer) /\ Len(layers') > 0 /\ IdsDiffer' /\ Layered'
      /\ (\A k \in 1 .. Len(layers) : AllMasked(layers[k].on["proc"])) =>
           \A k \in 1 .. Len(layers') : AllMasked(layers'[k].on["proc"])
  BY <1>1, LayersStay
<1>9. Typed'
  BY <1>1, <1>2, <1>7, <1>8, TypedStays DEF Typed
<1>10. GoesOn(p) /\ loc[p].pc \notin Masking
  BY <1>1 DEF GoesOn, Quiet, Umounting, Masking
<1>11. ASSUME Alone'
       PROVE  Works(p)'
  <2>1. CASE to = "running"
    BY <1>7, <2>1, Undemanding DEF Quiet
  <2>2. CASE to = "proc"
    <3>1. Bound' => Bound /\ Alone
      BY <1>1, TroubleStays
    <3>2. Bound' => HasProc(Top) \/ IsNew(p, Top.id)
      BY <1>1, <3>1 DEF IInv, AllWork, Works, Entering
    <3>3. Bound' => Top.id # 0
      BY <1>1, <3>1, TopIsNotBare DEF Entering
    <3>4. Bound' => (\E k \in Roots(p)' : HasProc(layers'[k])) \/ IsNew(p, loc[p].root)'
      <4>1. CASE HasProc(Top)
        <5>1. Len(layers) \in Roots(p)'
          BY <1>1, <1>3, <1>7 DEF Roots
        <5>2. HasProc(layers'[Len(layers)])
          BY <1>1, <1>3, <4>1
        <5> QED
          BY <5>1, <5>2
      <4>2. CASE IsNew(p, Top.id)
        BY <1>7, <4>2 DEF IsNew, Only
      <4> QED
        BY <3>2, <4>1, <4>2
    <3> QED
      BY <1>7, <2>2, <3>3, <3>4 DEF Works, Outside, Entering, Masking, Umounting, HasProc, Mounted, Shown
  <2> QED
    BY <1>1, <2>1, <2>2
<1> QED
  BY <1>1, <1>7, <1>8, <1>9, <1>10, <1>11, Ordinary

-----------------------------------------------------------------------------
(* A start, after chroot(2) *)

\* What a start mounts in its layer.
LEMMA InsideStays ==
  ASSUME IInv, NEW p \in Procs, loc[p].pc \in Masking \cup {"proc"}, trouble \subseteq trouble',
         Only(p), loc'[p].root = loc[p].root,
         NEW f \in [1 .. Len(layers) -> Layer], layers' = f,
         \A k \in 1 .. Len(layers) :
           /\ f[k].id = layers[k].id
           /\ \A x \in Targets : f[k].on[x] = layers[k].on[x]
           /\ k \notin Roots(p) => f[k] = layers[k]
  PROVE  /\ layers' \in Seq(Layer) /\ Len(layers') = Len(layers) /\ Len(layers') > 0
         /\ DOMAIN layers = 1 .. Len(layers) /\ DOMAIN layers' = 1 .. Len(layers)
         /\ IdsDiffer' /\ Layered' /\ \A q \in Procs : Roots(q)' = Roots(q)
<1> DEFINE n == Len(layers)
<1>1. n \in Nat /\ n > 0 /\ DOMAIN layers = 1 .. n
  BY DEF IInv, Typed
<1> HIDE DEF n
<1>2. layers' \in Seq(Layer) /\ Len(layers') = n /\ DOMAIN layers' = 1 .. n
  <2>1. f \in [1 .. n -> Layer]
    BY DEF n
  <2>2. f \in Seq(Layer) /\ DOMAIN f = 1 .. n
    BY <1>1, <2>1
  <2>3. Len(f) = n
    BY <1>1, <2>2
  <2> QED
    BY <2>2, <2>3
<1>3. IdsDiffer'
  <2>1. \A k \in 1 .. n : layers'[k].id = layers[k].id
    BY DEF n
  <2>2. 1 \in 1 .. n
    BY <1>1
  <2> QED
    BY <1>1, <1>2, <2>1, <2>2 DEF IInv, IdsDiffer
<1>4. Layered'
  <2>1. Bound => layers'[1] = Bare
    <3> SUFFICES ASSUME Bound
                 PROVE  layers'[1] = Bare
      OBVIOUS
    <3>1. layers[1] = Bare /\ Works(p)
      BY DEF IInv, Layered, AllWork, Bound
    <3>2. loc[p].root # 0
      BY <3>1 DEF Works
    <3>3. 1 \notin Roots(p) /\ 1 \in 1 .. n
      BY <1>1, <3>1, <3>2, LayerIs DEF Roots
    <3>4. layers'[1] = layers[1]
      BY <3>3 DEF n
    <3> QED
      BY <3>1, <3>4
  <2>2. Alone => \A k \in 1 .. n : \A x \in Targets : Len(layers'[k].on[x]) <= 1
    <3>1. Alone => \A k \in 1 .. n : \A x \in Targets : Len(layers[k].on[x]) <= 1
      BY <1>1 DEF IInv, Layered
    <3>2. \A k \in 1 .. n : \A x \in Targets : layers'[k].on[x] = layers[k].on[x]
      BY DEF n
    <3> QED
      BY <3>1, <3>2
  <2> QED
    BY <1>2, <2>1, <2>2, TroubleStays DEF Layered
<1>5. ASSUME NEW q \in Procs
      PROVE  Roots(q)' = Roots(q)
  <2>1. loc'[q].root = loc[q].root
    BY DEF Only
  <2>2. \A k \in 1 .. n : layers'[k].id = layers[k].id
    BY DEF n
  <2> QED
    BY <1>2, <2>1, <2>2 DEF Roots, n
<1> QED
  BY <1>1, <1>2, <1>3, <1>4, <1>5 DEF n

\* ... and so the rest of what holds of it.
LEMMA InsideKeeps ==
  ASSUME IInv, NEW p \in Procs, loc[p].pc \in Masking \cup {"proc"}, Only(p),
         loc'[p].pc \in Masking \cup {"running"},
         trouble \subseteq trouble', trouble' \in SUBSET Troubles, UNCHANGED <<own, stored, loops>>,
         layers' \in Seq(Layer), Len(layers') > 0, IdsDiffer', Layered', MasksAreSet',
         Alone' => Works(p)'
  PROVE  IInv'
<1>1. loc[p].pc \notin Quiet /\ loc[p].pc \notin Umounting
  BY DEF Masking, Quiet, Umounting
<1>2. GoesOn(p)
  BY <1>1 DEF GoesOn
<1>3. loc'[p].pc \notin {"attach", "rootfs", "self"}
  BY DEF Masking
<1>4. Typed'
  BY <1>3, TypedStays DEF IInv, Typed
<1> QED
  BY <1>2, <1>4, StepKeeps

\* What masks, beside a start that works alone, is that start.
LEMMA OneMasks ==
  ASSUME IInv, Alone, NEW p \in Procs, loc[p].pc \in Masking \cup {"proc"}
  PROVE  \A q \in Procs \ {p} : loc[q].pc \in Quiet
<1>1. loc[p].pc \notin Quiet /\ loc[p].pc \notin Umounting
  BY DEF Masking, Quiet, Umounting
<1> QED
  BY <1>1, OthersQuiet DEF IInv

\* A stack is what is below its last element.
LEMMA FrontOfAppend ==
  ASSUME NEW S, NEW s \in Seq(S), NEW e \in S
  PROVE  Front(Append(s, e)) = s
<1> DEFINE t == Append(s, e)
<1>1. t \in Seq(S) /\ Len(t) = Len(s) + 1 /\ t # <<>> /\ \A i \in 1 .. Len(s) : t[i] = s[i]
  BY AppendIs
<1> HIDE DEF t
<1>2. /\ Front(t) \in Seq(S) /\ Len(Front(t)) = Len(t) - 1
      /\ \A i \in 1 .. Len(t) - 1 : Front(t)[i] = t[i]
  BY <1>1, FrontIs
<1>3. Len(Front(t)) = Len(s) /\ \A i \in 1 .. Len(s) : Front(t)[i] = s[i]
  BY <1>1, <1>2
<1>4. Front(t) = s
  BY <1>2, <1>3, SeqEqual
<1> QED
  BY <1>4 DEF t

\* MountInside(), layer by layer.
LEMMA MountInsideIs ==
  ASSUME IInv, NEW p \in Procs, NEW D \in SUBSET System, NEW ms \in [D -> MountType],
         MountInside(p, ms)
  PROVE  \E f \in [1 .. Len(layers) -> Layer] :
           /\ layers' = f
           /\ \A k \in 1 .. Len(layers) :
                /\ f[k].id = layers[k].id
                /\ \A x \in Places : x \notin D => f[k].on[x] = layers[k].on[x]
                /\ k \notin Roots(p) => f[k] = layers[k]
                /\ Untroubled' /\ k \in Roots(p) =>
                     \A x \in D : f[k].on[x] = Append(layers[k].on[x], ms[x])
           /\ trouble' \in SUBSET Troubles /\ trouble \subseteq trouble'
<1>1. Typed /\ DOMAIN layers = 1 .. Len(layers) /\ D \in SUBSET Places
  <2>1. Typed /\ DOMAIN layers = 1 .. Len(layers)
    BY DEF IInv, Typed
  <2>2. System \subseteq Places
    BY LayerIs
  <2> QED
    BY <2>1, <2>2
<1>2. PICK ok \in BOOLEAN :
        /\ ok \/ May("failed")
        /\ layers' = [k \in DOMAIN layers |->
                        IF ok /\ k \in Roots(p) THEN PushAll(layers[k], ms) ELSE layers[k]]
        /\ Trouble(ok)
  BY DEF MountInside
<1> DEFINE f == [k \in 1 .. Len(layers) |->
                   IF ok /\ k \in Roots(p) THEN PushAll(layers[k], ms) ELSE layers[k]]
<1>3. layers' = f
  BY <1>1, <1>2
<1>4. trouble' \in SUBSET Troubles /\ trouble \subseteq trouble' /\ (Untroubled' => ok)
  BY <1>1, <1>2, TroubleIs
<1>5. ASSUME NEW k \in 1 .. Len(layers)
      PROVE  /\ f[k] \in Layer /\ f[k].id = layers[k].id
             /\ \A x \in Places : x \notin D => f[k].on[x] = layers[k].on[x]
             /\ k \notin Roots(p) => f[k] = layers[k]
             /\ Untroubled' /\ k \in Roots(p) =>
                  \A x \in D : f[k].on[x] = Append(layers[k].on[x], ms[x])
  <2>1. layers[k] \in Layer
    BY <1>1 DEF Typed
  <2>2. CASE ok /\ k \in Roots(p)
    <3> DEFINE n == PushAll(layers[k], ms)
    <3>1. f[k] = n
      BY <2>2
    <3>2. /\ n \in Layer /\ n.id = layers[k].id
          /\ \A x \in Places : n.on[x] = IF x \in D THEN Append(layers[k].on[x], ms[x]) ELSE layers[k].on[x]
      BY <1>1, <2>1, PushAllIs
    <3> HIDE DEF n, f
    <3> QED
      BY <1>1, <2>2, <3>1, <3>2
  <2>3. CASE ~(ok /\ k \in Roots(p))
    <3>1. f[k] = layers[k]
      BY <2>3
    <3> HIDE DEF f
    <3> QED
      BY <1>4, <2>1, <2>3, <3>1
  <2> QED
    BY <2>2, <2>3
<1>6. f \in [1 .. Len(layers) -> Layer]
  <2>1. \A k \in 1 .. Len(layers) : f[k] \in Layer
    BY <1>5
  <2> QED
    BY <2>1
<1> HIDE DEF f
<1> QED
  BY <1>3, <1>4, <1>5, <1>6

\* procfs is mounted on a layer that nobody runs in, wanting its masks.
LEMMA InitProcKeeps ==
  ASSUME IInv, NEW p \in Procs, InitProc(p)
  PROVE  IInv'
<1> DEFINE c == loc[p].setting
           m == [Mount("proc", c.ro_root) EXCEPT !.wants = c.masks]
           ms == [x \in {"proc"} |-> [Mount(x, c.ro_root) EXCEPT !.wants = c.masks]]
<1>1. loc[p].pc = "proc" /\ UNCHANGED <<own, stored, loops>>
  BY DEF InitProc
<1>2. Typed
  BY DEF IInv
<1>3. loc[p].pc \in Masking \cup {"proc"} /\ loc[p].pc \notin Masking /\ loc[p].pc \notin Quiet
  BY <1>1 DEF Masking, Quiet
<1>4. CASE Goto(p, "running") /\ UNCHANGED <<layers, trouble>>
  <2>1. "running" \in Stages
    BY DEF Stages, Quiet
  <2>2. Only(p) /\ loc'[p].pc = "running"
    BY <1>2, <1>4, <2>1, GotoIs
  <2>3. /\ layers' \in Seq(Layer) /\ Len(layers') > 0 /\ IdsDiffer' /\ Layered'
        /\ (\A k \in 1 .. Len(layers) : AllMasked(layers[k].on["proc"])) =>
             \A k \in 1 .. Len(layers') : AllMasked(layers'[k].on["proc"])
    BY <1>4, LayersStay
  <2>4. Typed'
    BY <1>1, <1>2, <1>4, <2>2, <2>3, TypedStays DEF Typed
  <2>5. GoesOn(p)
    BY <1>1, <1>3, <2>2 DEF GoesOn, Quiet, Umounting
  <2>6. Works(p)'
    BY <2>2, Undemanding DEF Quiet
  <2> QED
    BY <1>3, <1>4, <2>2, <2>3, <2>4, <2>5, <2>6, Ordinary
<1>5. CASE /\ ~\E k \in Roots(p) : HasProc(layers[k])
           /\ MountInside(p, ms) /\ Goto(p, "sys")
  <2>1. "sys" \in Stages
    BY DEF Stages, Masking
  <2>2. /\ Only(p) /\ loc'[p].pc = "sys" /\ loc'[p].root = loc[p].root
        /\ loc'[p].setting = loc[p].setting
    BY <1>2, <1>5, <2>1, GotoIs
  <2>3. c.ro_root \in BOOLEAN /\ c.masks \in SUBSET Masks
    BY <1>2, SettingsAssumption DEF Typed, Invocation, Setting
  <2>4. m \in MountType /\ m.wants = c.masks
    <3>1. Mount("proc", c.ro_root) \in MountType
      BY <2>3, MountIs DEF System
    <3> QED
      BY <2>3, <3>1 DEF MountType
  <2>5. ms \in [{"proc"} -> MountType] /\ ms["proc"] = m
    BY <2>4
  <2> HIDE DEF m, ms
  <2>6. {"proc"} \in SUBSET System /\ "proc" \in Places
    BY LayerIs DEF System
  <2>7. PICK f \in [1 .. Len(layers) -> Layer] :
          /\ layers' = f
          /\ \A k \in 1 .. Len(layers) :
               /\ f[k].id = layers[k].id
               /\ \A x \in Places : x \notin {"proc"} => f[k].on[x] = layers[k].on[x]
               /\ k \notin Roots(p) => f[k] = layers[k]
               /\ Untroubled' /\ k \in Roots(p) =>
                    \A x \in {"proc"} : f[k].on[x] = Append(layers[k].on[x], ms[x])
          /\ trouble' \in SUBSET Troubles /\ trouble \subseteq trouble'
    BY <1>5, <2>5, <2>6, MountInsideIs
  <2>8. \A k \in 1 .. Len(layers) : \A x \in Targets : f[k].on[x] = layers[k].on[x]
    BY <2>7, LayerIs
  <2>9. /\ layers' \in Seq(Layer) /\ Len(layers') = Len(layers) /\ Len(layers') > 0
        /\ DOMAIN layers = 1 .. Len(layers) /\ DOMAIN layers' = 1 .. Len(layers)
        /\ IdsDiffer' /\ Layered' /\ \A q \in Procs : Roots(q)' = Roots(q)
    BY <1>3, <2>2, <2>7, <2>8, InsideStays
  <2>10. ASSUME Untroubled', NEW k \in Roots(p)
         PROVE  /\ layers'[k].on["proc"] = Append(layers[k].on["proc"], m)
                /\ layers[k].on["proc"] \in Seq(MountType)
    <3>1. k \in 1 .. Len(layers) /\ layers[k] \in Layer
      BY <1>2, <2>9 DEF Roots, Typed
    <3> QED
      BY <2>5, <2>7, <2>10, <3>1, LayerIs
  <2>11. MasksAreSet'
    <3> SUFFICES ASSUME Untroubled', NEW k \in DOMAIN layers'
                 PROVE  \/ AllMasked(layers'[k].on["proc"])
                        \/ /\ AllMasked(Front(layers'[k].on["proc"]))
                           /\ \E q \in Procs : loc'[q].pc \in Masking /\ k \in Roots(q)'
      BY DEF MasksAreSet
    <3>1. k \in 1 .. Len(layers) /\ AllMasked(layers[k].on["proc"])
      BY <1>2, <1>3, <2>7, <2>9, NoneMasking, TroubleStays DEF IInv
    <3>2. CASE k \in Roots(p)
      <4> DEFINE s == layers[k].on["proc"]
      <4>1. layers'[k].on["proc"] = Append(s, m) /\ s \in Seq(MountType)
        BY <2>10, <3>2
      <4> HIDE DEF s
      <4>2. Front(Append(s, m)) = s
        BY <2>4, <4>1, FrontOfAppend
      <4>3. loc'[p].pc \in Masking /\ k \in Roots(p)'
        BY <2>2, <2>9, <3>2 DEF Masking
      <4> QED
        BY <3>1, <4>1, <4>2, <4>3 DEF s
    <3>3. CASE k \notin Roots(p)
      BY <2>7, <3>1, <3>3
    <3> QED
      BY <3>2, <3>3
  <2>12. ASSUME Alone'
         PROVE  Works(p)'
    <3>1. Alone /\ Works(p)
      BY <2>7, <2>12, TroubleStays DEF IInv, AllWork
    <3>2. Bound => loc[p].root # 0 /\ IsNew(p, loc[p].root)
      BY <1>1, <1>5, <3>1 DEF Works, Masking
    <3>3. Bound' => loc[p].root # 0 /\ IsNew(p, loc[p].root)'
      BY <2>2, <2>7, <3>2, TroubleStays DEF IsNew, Only
    <3>4. ASSUME Untroubled', NEW k \in Roots(p)'
          PROVE  /\ Mounted(layers'[k], "proc")
                 /\ Shown(layers'[k], "proc").wants = loc'[p].setting.masks
      <4>1. k \in Roots(p)
        BY <2>9, <3>4
      <4> DEFINE s == layers[k].on["proc"]
      <4>2. layers'[k].on["proc"] = Append(s, m) /\ s \in Seq(MountType)
        BY <2>10, <3>4, <4>1
      <4> HIDE DEF s
      <4>3. Append(s, m) # <<>> /\ Last(Append(s, m)) = m
        BY <2>4, <4>2, AppendIs
      <4> QED
        BY <2>2, <2>4, <4>2, <4>3 DEF Mounted, Shown
    <3> QED
      BY <2>2, <3>3, <3>4 DEF Works, Outside, Entering, Masking, Umounting, Mounted, Shown
  <2>13. loc'[p].pc \in Masking \cup {"running"}
    BY <2>2 DEF Masking
  <2> QED
    BY <1>1, <1>3, <2>2, <2>7, <2>9, <2>11, <2>12, <2>13, InsideKeeps
<1> QED
  BY <1>4, <1>5 DEF InitProc

\* A masking start's own work, when its /proc stays as it mounted it.
LEMMA WorksInside ==
  ASSUME IInv, Alone, NEW p \in Procs, loc[p].pc \in Masking, Only(p), loc'[p].pc \in Masking,
         loc'[p].root = loc[p].root, loc'[p].setting = loc[p].setting, Roots(p)' = Roots(p),
         trouble \subseteq trouble',
         \A k \in Roots(p) : layers'[k].on["proc"] = layers[k].on["proc"]
  PROVE  Works(p)'
<1>1. Works(p)
  BY DEF IInv, AllWork
<1>2. Bound => loc[p].root # 0 /\ IsNew(p, loc[p].root)
  BY <1>1 DEF Works
<1>3. Bound' => loc[p].root # 0 /\ IsNew(p, loc[p].root)'
  BY <1>2, TroubleStays DEF IsNew, Only
<1>4. ASSUME Untroubled', NEW k \in Roots(p)'
      PROVE  /\ Mounted(layers'[k], "proc")
             /\ Shown(layers'[k], "proc").wants = loc'[p].setting.masks
  <2>1. k \in Roots(p)
    BY <1>4
  <2>2. Mounted(layers[k], "proc") /\ Shown(layers[k], "proc").wants = loc[p].setting.masks
    BY <1>1, <1>4, <2>1, TroubleStays DEF Works
  <2> QED
    BY <2>1, <2>2 DEF Mounted, Shown
<1> QED
  BY <1>3, <1>4 DEF Works, Outside, Entering, Masking, Umounting, Mounted, Shown

\* /sys and /dev leave procfs alone.
LEMMA InitSysDevKeeps ==
  ASSUME IInv, NEW p \in Procs, InitSysDev(p)
  PROVE  IInv'
<1> DEFINE D == {"sys", "dev"}
           ms == [x \in D |-> Mount(x, x = "sys" /\ loc[p].setting.ro_root)]
<1>1. /\ loc[p].pc = "sys" /\ MountInside(p, ms) /\ Goto(p, "masks")
      /\ UNCHANGED <<own, stored, loops>>
  BY DEF InitSysDev
<1>2. Typed /\ "masks" \in Stages /\ loc[p].pc \in Masking
  BY <1>1 DEF IInv, Stages, Masking
<1>3. /\ Only(p) /\ loc'[p].pc = "masks" /\ loc'[p].root = loc[p].root
      /\ loc'[p].setting = loc[p].setting
  BY <1>1, <1>2, GotoIs
<1>4. ms \in [D -> MountType]
  <2>1. loc[p].setting.ro_root \in BOOLEAN
    BY <1>2, SettingsAssumption DEF Typed, Invocation, Setting
  <2>2. ASSUME NEW x \in D
        PROVE  ms[x] \in MountType
    <3> DEFINE ro == x = "sys" /\ loc[p].setting.ro_root
    <3>1. ro \in BOOLEAN /\ x \in Sources \cup System \cup {"host"}
      BY DEF System
    <3>2. ms[x] = Mount(x, ro)
      OBVIOUS
    <3> HIDE DEF ro, ms
    <3> QED
      BY <3>1, <3>2, MountIs
  <2> QED
    BY <2>2
<1>5. D \in SUBSET System /\ "proc" \notin D /\ \A x \in Targets : x \in Places /\ x \notin D
  BY LayerIs DEF System
<1> HIDE DEF ms, D
<1>6. PICK f \in [1 .. Len(layers) -> Layer] :
        /\ layers' = f
        /\ \A k \in 1 .. Len(layers) :
             /\ f[k].id = layers[k].id
             /\ \A x \in Places : x \notin D => f[k].on[x] = layers[k].on[x]
             /\ k \notin Roots(p) => f[k] = layers[k]
             /\ Untroubled' /\ k \in Roots(p) =>
                  \A x \in D : f[k].on[x] = Append(layers[k].on[x], ms[x])
        /\ trouble' \in SUBSET Troubles /\ trouble \subseteq trouble'
  BY <1>1, <1>4, <1>5, MountInsideIs
<1>7. \A k \in 1 .. Len(layers) : \A x \in Targets : f[k].on[x] = layers[k].on[x]
  BY <1>5, <1>6
<1>8. \A k \in 1 .. Len(layers) : layers'[k].on["proc"] = layers[k].on["proc"]
  BY <1>5, <1>6, LayerIs
<1>9. /\ layers' \in Seq(Layer) /\ Len(layers') = Len(layers) /\ Len(layers') > 0
      /\ DOMAIN layers = 1 .. Len(layers) /\ DOMAIN layers' = 1 .. Len(layers)
      /\ IdsDiffer' /\ Layered' /\ \A q \in Procs : Roots(q)' = Roots(q)
  BY <1>2, <1>3, <1>6, <1>7, InsideStays
<1>10. loc'[p].pc \in Masking
  BY <1>3 DEF Masking
<1>11. MasksAreSet'
  <2> SUFFICES ASSUME Untroubled', NEW k \in DOMAIN layers', ~AllMasked(layers'[k].on["proc"])
               PROVE  /\ AllMasked(Front(layers'[k].on["proc"]))
                      /\ \E q \in Procs : loc'[q].pc \in Masking /\ k \in Roots(q)'
    BY DEF MasksAreSet
  <2>1. k \in DOMAIN layers /\ layers'[k].on["proc"] = layers[k].on["proc"] /\ Untroubled
    BY <1>6, <1>8, <1>9, TroubleStays
  <2>2. PICK q \in Procs : loc[q].pc \in Masking /\ k \in Roots(q)
    BY <2>1 DEF IInv, MasksAreSet
  <2>3. loc'[q].pc \in Masking
    BY <1>3, <1>10, <2>2 DEF Only
  <2>4. AllMasked(Front(layers[k].on["proc"]))
    BY <2>1 DEF IInv, MasksAreSet
  <2> QED
    BY <1>9, <2>1, <2>2, <2>3, <2>4
<1>12. Alone' => Works(p)'
  <2>1. \A k \in Roots(p) : layers'[k].on["proc"] = layers[k].on["proc"]
    BY <1>8 DEF Roots
  <2> QED
    BY <1>2, <1>3, <1>6, <1>9, <1>10, <2>1, WorksInside, TroubleStays
<1> QED
  BY <1>1, <1>2, <1>3, <1>6, <1>9, <1>10, <1>11, <1>12, InsideKeeps

\* The mounts over parts of /proc.
LEMMA MaskedIs ==
  ASSUME NEW l \in Layer, NEW c \in Setting
  PROVE  /\ OnlyAt(l, Masked(l, c), "proc")
         /\ Mounted(l, "proc") /\ Shown(l, "proc").wants = c.masks =>
              \E m \in MountType :
                IsMasked(m) /\ Masked(l, c).on["proc"] = Append(Front(l.on["proc"]), m)
<1>1. "proc" \in Places
  BY LayerIs
<1>2. CASE Mounted(l, "proc")
  <2> DEFINE m == [Shown(l, "proc") EXCEPT !.masked = c.masks]
  <2>1. Shown(l, "proc") \in MountType
    BY <1>1, <1>2, LayerIs, FrontIs DEF Mounted, Shown
  <2>2. c.masks \in SUBSET Masks
    BY DEF Setting
  <2>3. m \in MountType /\ (Shown(l, "proc").wants = c.masks => IsMasked(m))
    BY <2>1, <2>2 DEF MountType, IsMasked
  <2>4. Masked(l, c) = Retop(l, "proc", m)
    BY <1>2 DEF Masked
  <2> HIDE DEF m
  <2>5. /\ OnlyAt(l, Retop(l, "proc", m), "proc")
        /\ Retop(l, "proc", m).on["proc"] = Append(Front(l.on["proc"]), m)
    BY <1>1, <1>2, <2>3, RetopOf
  <2> QED
    BY <2>3, <2>4, <2>5
<1>3. CASE ~Mounted(l, "proc")
  <2>1. Masked(l, c) = l
    BY <1>3 DEF Masked
  <2> QED
    BY <1>1, <1>3, <2>1, OnlyAtSame
<1> QED
  BY <1>2, <1>3

\* The masks that were wanted are mounted, and nothing is left to mask.
LEMMA InitMasksKeeps ==
  ASSUME IInv, NEW p \in Procs, InitMasks(p)
  PROVE  IInv'
<1> DEFINE c == loc[p].setting
           f == [k \in 1 .. Len(layers) |-> IF k \in Roots(p) THEN Masked(layers[k], c) ELSE layers[k]]
<1>1. /\ loc[p].pc = "masks" /\ Goto(p, "running") /\ UNCHANGED <<own, stored, loops, trouble>>
      /\ layers' = [k \in DOMAIN layers |-> IF k \in Roots(p) THEN Masked(layers[k], c) ELSE layers[k]]
  BY DEF InitMasks
<1>2. /\ Typed /\ "running" \in Stages /\ loc[p].pc \in Masking /\ DOMAIN layers = 1 .. Len(layers)
      /\ trouble' \in SUBSET Troubles /\ trouble \subseteq trouble'
  BY <1>1 DEF IInv, Typed, Stages, Masking, Quiet
<1>3. Only(p) /\ loc'[p].pc = "running" /\ loc'[p].root = loc[p].root
  BY <1>1, <1>2, GotoIs
<1>4. c \in Setting
  BY <1>2, SettingsAssumption DEF Typed, Invocation
<1>5. layers' = f
  BY <1>1, <1>2
<1>6. ASSUME NEW k \in 1 .. Len(layers)
      PROVE  /\ f[k] \in Layer /\ f[k].id = layers[k].id
             /\ \A x \in Targets : f[k].on[x] = layers[k].on[x]
             /\ k \notin Roots(p) => f[k] = layers[k]
             /\ k \in Roots(p) => f[k] = Masked(layers[k], c)
  <2>1. layers[k] \in Layer
    BY <1>2 DEF Typed
  <2>2. CASE k \in Roots(p)
    <3>1. f[k] = Masked(layers[k], c)
      BY <2>2
    <3>2. OnlyAt(layers[k], Masked(layers[k], c), "proc")
      BY <1>4, <2>1, MaskedIs
    <3> HIDE DEF f
    <3> QED
      BY <2>2, <3>1, <3>2, LayerIs DEF OnlyAt
  <2>3. CASE k \notin Roots(p)
    <3>1. f[k] = layers[k]
      BY <2>3
    <3> HIDE DEF f
    <3> QED
      BY <2>1, <2>3, <3>1
  <2> QED
    BY <2>2, <2>3
<1>7. f \in [1 .. Len(layers) -> Layer]
  <2>1. \A k \in 1 .. Len(layers) : f[k] \in Layer
    BY <1>6
  <2> QED
    BY <2>1
<1> HIDE DEF f
<1>8. /\ layers' \in Seq(Layer) /\ Len(layers') = Len(layers) /\ Len(layers') > 0
      /\ DOMAIN layers = 1 .. Len(layers) /\ DOMAIN layers' = 1 .. Len(layers)
      /\ IdsDiffer' /\ Layered' /\ \A q \in Procs : Roots(q)' = Roots(q)
  BY <1>2, <1>3, <1>5, <1>6, <1>7, InsideStays
<1>9. MasksAreSet'
  <2> SUFFICES ASSUME Untroubled', NEW k \in 1 .. Len(layers)
               PROVE  AllMasked(f[k].on["proc"])
    BY <1>5, <1>8 DEF MasksAreSet
  <2>1. Untroubled /\ Alone
    BY <1>2, TroubleStays
  <2> DEFINE s == layers[k].on["proc"]
  <2>2. layers[k] \in Layer /\ s \in Seq(MountType)
    <3>1. layers[k] \in Layer
      BY <1>2 DEF Typed
    <3> QED
      BY <3>1, LayerIs
  <2>3. CASE k \in Roots(p)
    <3>1. Mounted(layers[k], "proc") /\ Shown(layers[k], "proc").wants = c.masks
      BY <1>2, <2>1, <2>3 DEF IInv, AllWork, Works
    <3>2. PICK m \in MountType : IsMasked(m) /\ f[k].on["proc"] = Append(Front(s), m)
      BY <1>4, <1>6, <2>2, <2>3, <3>1, MaskedIs
    <3>3. s # <<>>
      BY <3>1 DEF Mounted
    <3> HIDE DEF s
    <3>4. AllMasked(Front(s))
      <4>1. AllMasked(s) \/ AllMasked(Front(s))
        BY <1>2, <2>1 DEF IInv, MasksAreSet, s
      <4> QED
        BY <2>2, <3>3, <4>1, MaskedStays
    <3>5. Front(s) \in Seq(MountType)
      BY <2>2, <3>3, FrontIs
    <3> QED
      BY <3>2, <3>4, <3>5, MaskedStays
  <2>4. CASE k \notin Roots(p)
    <3>1. \A q \in Procs : loc[q].pc \in Masking => q = p
      BY <1>2, <2>1, OneMasks DEF Masking, Quiet
    <3>2. AllMasked(s)
      BY <1>2, <2>1, <2>4, <3>1 DEF IInv, MasksAreSet
    <3> QED
      BY <1>6, <2>4, <3>2
  <2> QED
    BY <2>3, <2>4
<1>10. Works(p)'
  BY <1>3, Undemanding DEF Quiet
<1> QED
  BY <1>1, <1>2, <1>3, <1>8, <1>9, <1>10, InsideKeeps

\* A command ends: that it was in a layer was in nobody's way.
LEMMA LeaveKeeps ==
  ASSUME IInv, NEW p \in Procs, Leave(p)
  PROVE  IInv'
<1>1. /\ loc[p].pc = "running" /\ End(p) /\ UNCHANGED <<layers, own, stored, loops, trouble>>
  BY DEF Leave, host
<1>2. Typed
  BY DEF IInv
<1>3. Only(p) /\ loc'[p].pc = "idle" /\ loc'[p].root = 0
  BY <1>1, <1>2, EndIs
<1>4. /\ layers' \in Seq(Layer) /\ Len(layers') > 0 /\ Len(layers') <= Len(layers)
      /\ IdsDiffer' /\ Layered' /\ Top' = Top
  BY <1>1, LayersStay
<1>5. Typed'
  BY <1>1, <1>2, <1>3, <1>4, TypedStays DEF Typed
<1>6. \A q \in Procs : loc'[q].pc \notin Quiet => q # p /\ loc'[q] = loc[q]
  BY <1>3 DEF Only, Quiet
<1>7. (Alone' <=> Alone) /\ (Bound' <=> Bound)
  BY <1>1 DEF Alone, Bound
<1>8. Exclusive'
  BY <1>6, <1>7 DEF IInv, Exclusive
<1>9. MasksAreSet'
  <2> SUFFICES ASSUME Untroubled', NEW k \in DOMAIN layers, ~AllMasked(layers[k].on["proc"])
               PROVE  /\ AllMasked(Front(layers[k].on["proc"]))
                      /\ \E q \in Procs : loc'[q].pc \in Masking /\ k \in Roots(q)'
    BY <1>1 DEF MasksAreSet
  <2>1. Untroubled
    BY <1>1 DEF Untroubled
  <2>2. PICK q \in Procs : loc[q].pc \in Masking /\ k \in Roots(q)
    BY <2>1 DEF IInv, MasksAreSet
  <2>3. loc'[q] = loc[q]
    BY <1>1, <1>3, <2>2 DEF Only, Masking
  <2>4. k \in Roots(q)'
    BY <1>1, <2>2, <2>3 DEF Roots
  <2> QED
    BY <2>1, <2>2, <2>3, <2>4 DEF IInv, MasksAreSet
<1>10. ASSUME Alone', NEW q \in Procs
       PROVE  Works(q)'
  <2>1. CASE q = p
    BY <1>3, <2>1, Undemanding DEF Quiet
  <2>2. CASE q # p
    <3>1. loc'[q] = loc[q] /\ Works(q) /\ Alone
      BY <1>3, <1>7, <1>10, <2>2 DEF Only, IInv, AllWork
    <3>2. ASSUME Bound, loc[q].pc \in Outside \cup Entering, IsNew(q, Top.id)
          PROVE  IsNew(q, Top.id)'
      <4>1. Top.id # 0
        BY <3>1, <3>2, TopIsNotBare
      <4> QED
        BY <1>3, <1>4, <3>2, <4>1 DEF IsNew, Only
    <3>3. ASSUME loc[q].root # 0, IsNew(q, loc[q].root)
          PROVE  IsNew(q, loc[q].root)'
      BY <1>3, <3>1, <3>3 DEF IsNew, Only
    <3>4. \A i : IsDone(q, i) => IsDone(q, i)'
      BY <1>1, <3>1 DEF IsDone, Extra, Top, Mounted, Shown
    <3>5. HasProc(Top) => HasProc(Top)'
      BY <1>1 DEF HasProc, Top, Mounted, Shown
    <3>6. Roots(q)' = Roots(q) /\ Extra(q)' = Extra(q) /\ Untroubled' = Untroubled
      BY <1>1, <3>1 DEF Roots, Extra, Untroubled
    <3>7. CASE loc[q].pc \in Outside
      BY <1>1, <1>4, <1>7, <3>1, <3>2, <3>4, <3>6, <3>7 DEF Works, Outside, Entering, Masking, Umounting
    <3>8. CASE loc[q].pc \in Entering
      BY <1>1, <1>7, <3>1, <3>2, <3>5, <3>8 DEF Works, Outside, Entering, Masking, Umounting
    <3>9. CASE loc[q].pc \in Masking \cup {"proc"}
      BY <1>1, <1>7, <3>1, <3>3, <3>6, <3>9 DEF Works, Outside, Entering, Masking, Umounting, HasProc, Mounted, Shown
    <3>10. CASE loc[q].pc \in Quiet \cup Umounting \cup {"rootfs", "self"}
      <4>1. CASE loc[q].pc \in Umounting
        BY <1>2, <1>4, <3>1, <4>1, UmountWorksOn
      <4>2. CASE loc[q].pc \in Quiet \cup {"rootfs", "self"}
        BY <3>1, <4>2, Undemanding
      <4> QED
        BY <3>10, <4>1, <4>2
    <3>11. loc[q].pc \in Stages
      BY <1>2 DEF Typed, Invocation
    <3> QED
      BY <3>7, <3>8, <3>9, <3>10, <3>11 DEF Stages
  <2> QED
    BY <2>1, <2>2
<1>11. AllWork'
  BY <1>10 DEF AllWork
<1> QED
  BY <1>4, <1>5, <1>8, <1>9, <1>11 DEF IInv

-----------------------------------------------------------------------------
(* ruri -U *)

\* The bare directory has nothing to take away.
LEMMA BareStays ==
  ASSUME NEW l \in Layer, NEW x \in Places, NEW n, OnlyAt(l, n, x), l.on[x] = <<>> => n.on[x] = <<>>
  PROVE  l = Bare => n = Bare
<1> SUFFICES ASSUME l = Bare
             PROVE  n = Bare
  OBVIOUS
<1>1. n \in Layer /\ n.id = 0 /\ n.tree = "dir" /\ n.ro = FALSE
  <2>1. Bare.id = 0 /\ Bare.tree = "dir" /\ Bare.ro = FALSE
    BY DEF Bare
  <2> QED
    BY <2>1 DEF OnlyAt
<1>2. \A y \in Places : n.on[y] = <<>>
  BY LayerIs DEF OnlyAt
<1>3. n.on \in [Places -> Seq(MountType)]
  BY <1>1, LayerIs
<1>4. n.on = [y \in Places |-> <<>>]
  BY <1>2, <1>3
<1>5. n = [id |-> n.id, tree |-> n.tree, ro |-> n.ro, on |-> n.on]
  BY <1>1, LayerIs
<1> QED
  BY <1>1, <1>4, <1>5 DEF Bare

\* The uppermost layers go, and mounts in the one below.
LEMMA LayersGo ==
  ASSUME IInv, NEW s \in Seq(Layer), Len(s) > 0, Len(s) <= Len(layers),
         \A k \in 1 .. Len(s) : s[k] = layers[k], trouble \subseteq trouble',
         NEW l \in Layer, l.id = Last(s).id, layers' = Append(Front(s), l),
         \A x \in Targets : Len(Last(s).on[x]) <= 1 => Len(l.on[x]) <= 1,
         Last(s) = Bare => l = Bare,
         AllMasked(Last(s).on["proc"]) => AllMasked(l.on["proc"])
  PROVE  /\ layers' \in Seq(Layer) /\ Len(layers') = Len(s) /\ Len(layers') > 0
         /\ IdsDiffer' /\ Layered' /\ Len(layers') <= Len(layers)
         /\ (\A k \in 1 .. Len(layers) : AllMasked(layers[k].on["proc"])) =>
              \A k \in 1 .. Len(layers') : AllMasked(layers'[k].on["proc"])
<1> DEFINE n == Len(s)
<1>1. s # <<>> /\ n \in Nat \ {0} /\ Len(layers) \in Nat
  BY DEF IInv, Typed
<1>2. /\ layers' \in Seq(Layer) /\ Len(layers') = n
      /\ \A k \in 1 .. n : layers'[k] = IF k = n THEN l ELSE s[k]
  BY <1>1, RetopIs
<1>3. Last(s) = layers[n]
  BY <1>1 DEF Last
<1>4. DOMAIN layers = 1 .. Len(layers) /\ DOMAIN layers' = 1 .. n
  BY <1>2 DEF IInv, Typed
<1>5. n <= Len(layers) /\ \A k \in 1 .. n : s[k] = layers[k]
  OBVIOUS
<1> HIDE DEF n
<1>6. \A k \in 1 .. n : k \in 1 .. Len(layers) /\ layers'[k] = IF k = n THEN l ELSE layers[k]
  BY <1>1, <1>2, <1>5
<1>7. Len(layers') > 0 /\ Len(layers') <= Len(layers)
  BY <1>1, <1>2, <1>5
<1>8. \A k \in 1 .. Len(layers') : layers'[k].id = layers[k].id
  BY <1>2, <1>3, <1>6
<1>9. IdsDiffer'
  BY <1>2, <1>7, <1>8, IdsStay DEF IInv
<1>10. Layered'
  <2>1. Bound => layers'[1] = Bare
    <3>1. Bound => layers[1] = Bare
      BY DEF IInv, Layered
    <3> QED
      BY <1>1, <1>3, <1>6, <3>1
  <2>2. Alone => \A k \in 1 .. n : \A x \in Targets : Len(layers'[k].on[x]) <= 1
    <3>1. Alone => \A k \in 1 .. n : \A x \in Targets : Len(layers[k].on[x]) <= 1
      BY <1>4, <1>6 DEF IInv, Layered
    <3> QED
      BY <1>3, <1>6, <3>1
  <2> QED
    BY <1>4, <2>1, <2>2, TroubleStays DEF Layered
<1>11. (\A k \in 1 .. Len(layers) : AllMasked(layers[k].on["proc"])) =>
         \A k \in 1 .. n : AllMasked(layers'[k].on["proc"])
  BY <1>3, <1>6
<1> QED
  BY <1>2, <1>7, <1>9, <1>10, <1>11 DEF n

\* What is positive and not above one is one.
LEMMA OneIsLeft ==
  ASSUME NEW n \in Nat, n > 0, ~ (n > 1)
  PROVE  n = 1
OBVIOUS

\* A layer less, and nothing else.
LEMMA LayerGoes ==
  ASSUME IInv, Len(layers) > 1, layers' = Front(layers), trouble \subseteq trouble'
  PROVE  /\ layers' \in Seq(Layer) /\ Len(layers') = Len(layers) - 1 /\ Len(layers') > 0
         /\ IdsDiffer' /\ Layered' /\ Len(layers') <= Len(layers)
         /\ (\A k \in 1 .. Len(layers) : AllMasked(layers[k].on["proc"])) =>
              \A k \in 1 .. Len(layers') : AllMasked(layers'[k].on["proc"])
<1>1. layers \in Seq(Layer) /\ layers # <<>> /\ Len(layers) \in Nat
  BY DEF IInv, Typed
<1>2. /\ layers' \in Seq(Layer) /\ Len(layers') = Len(layers) - 1
      /\ \A i \in 1 .. Len(layers) - 1 : layers'[i] = layers[i]
  BY <1>1, FrontIs
<1>3. /\ DOMAIN layers = 1 .. Len(layers) /\ DOMAIN layers' = 1 .. Len(layers')
      /\ \A k \in 1 .. Len(layers') : layers'[k] = layers[k] /\ k \in 1 .. Len(layers)
      /\ 1 \in 1 .. Len(layers') /\ Len(layers') > 0 /\ Len(layers') <= Len(layers)
  BY <1>1, <1>2
<1>4. IdsDiffer'
  BY <1>2, <1>3, IdsStay DEF IInv
<1>5. Layered'
  BY <1>3, TroubleStays DEF Layered, IInv
<1> QED
  BY <1>2, <1>3, <1>4, <1>5

\* A step of an umount.
LEMMA UmountKeeps ==
  ASSUME IInv, NEW p \in Procs, loc[p].pc \in Umounting, Only(p), loc'[p].pc \in Umounting,
         layers' \in Seq(Layer), Len(layers') > 0, Len(layers') <= Len(layers), IdsDiffer', Layered',
         (\A k \in 1 .. Len(layers) : AllMasked(layers[k].on["proc"])) =>
           \A k \in 1 .. Len(layers') : AllMasked(layers'[k].on["proc"]),
         own' \in [Trees -> [Targets -> Entries]], stored' \in [Trees -> Seq(Targets)],
         UNCHANGED <<loops, trouble>>,
         Alone => Counts(loc'[p], Len(layers'))
  PROVE  IInv'
<1>1. loc[p].pc \notin Quiet /\ loc[p].pc \notin Masking
  BY DEF Umounting, Quiet, Masking
<1>2. GoesOn(p)
  BY <1>1 DEF GoesOn
<1>3. loc'[p].pc \notin {"attach", "rootfs", "self"}
  BY DEF Umounting
<1>4. Typed' /\ trouble \subseteq trouble'
  BY <1>3, TypedStays DEF IInv, Typed
<1>5. Alone' => Works(p)'
  BY <1>4, TroubleStays, UmountWorks
<1> QED
  BY <1>1, <1>2, <1>4, <1>5, Ordinary

\* .rurienv is unmounted.
LEMMA UmountReadInfoKeeps ==
  ASSUME IInv, NEW p \in Procs, UmountReadInfo(p)
  PROVE  IInv'
<1> DEFINE x == ".rurienv"
           l == Pop(Top, x)
           r == [Idle EXCEPT !.pc = "u_extra", !.list = stored[Top.tree], !.found = Len(layers) - 1]
<1>1. /\ loc[p].pc = "u_read" /\ layers' = WithTop(l) /\ loc' = [loc EXCEPT ![p] = r]
      /\ stored' = stored \/ stored' = [stored EXCEPT ![l.tree] = <<>>]
      /\ UNCHANGED <<own, loops, trouble>>
  BY DEF UmountReadInfo
<1>2. Typed /\ trouble \subseteq trouble' /\ loc[p].pc \in Umounting /\ "u_extra" \in Umounting
  BY <1>1 DEF IInv, Umounting
<1>3. Top \in Layer /\ x \in Places /\ Top.tree \in Trees
  BY <1>2, LayerIs, WithTopIs
<1>4. OnlyAt(Top, l, x) /\ l.on[x] = IF Top.on[x] = <<>> THEN <<>> ELSE Front(Top.on[x])
  BY <1>3, PopIs
<1>5. Top = Bare => l = Bare
  <2> HIDE DEF l
  <2> QED
    BY <1>3, <1>4, BareStays
<1>6. l \in Layer /\ l.id = Top.id /\ \A y \in Places \ {x} : l.on[y] = Top.on[y]
  BY <1>4 DEF OnlyAt
<1> HIDE DEF l
<1>7. Alone => \A y \in Targets : Len(l.on[y]) <= 1
  BY <1>6, LayerIs, TopTargets
<1>8. l.on["proc"] = Top.on["proc"]
  BY <1>6, LayerIs
<1>9. /\ layers' \in Seq(Layer) /\ Len(layers') > 0 /\ Len(layers') <= Len(layers)
      /\ IdsDiffer' /\ Layered' /\ Len(layers') = Len(layers)
      /\ (\A k \in 1 .. Len(layers) : AllMasked(layers[k].on["proc"])) =>
           \A k \in 1 .. Len(layers') : AllMasked(layers'[k].on["proc"])
  BY <1>1, <1>2, <1>5, <1>6, <1>7, <1>8, TopChanges
<1>10. stored[Top.tree] \in Seq(Targets) /\ stored' \in [Trees -> Seq(Targets)]
  <2>1. stored \in [Trees -> Seq(Targets)] /\ <<>> \in Seq(Targets)
    BY <1>2 DEF Typed
  <2> QED
    BY <1>1, <1>3, <2>1
<1>11. /\ r \in Invocation /\ r.pc = "u_extra" /\ r.found = Len(layers) - 1
       /\ r.lines = <<>> /\ r.seen = 0
  <2>1. /\ Idle \in Invocation /\ Idle.lines = <<>> /\ Idle.seen = 0
        /\ "u_extra" \in Stages /\ Len(layers) - 1 \in Nat
    BY <1>2, IdleIs DEF Typed, Stages, Umounting, Idle
  <2> QED
    BY <1>10, <2>1 DEF Invocation
<1>12. loc' = [loc EXCEPT ![p] = r]
  BY <1>1
<1> HIDE DEF r
<1>13. /\ Only(p) /\ loc'[p].pc = "u_extra" /\ loc'[p].found = Len(layers) - 1
       /\ loc'[p].lines = <<>> /\ loc'[p].seen = 0
  BY <1>2, <1>11, <1>12, ChangesIs
<1>14. own' \in [Trees -> [Targets -> Entries]]
  BY <1>1, <1>2 DEF Typed
<1>15. Counts(loc'[p], Len(layers'))
  <2>1. Len(layers) \in Nat
    BY <1>2 DEF Typed
  <2> QED
    BY <1>9, <1>13, <2>1 DEF Counts
<1> QED
  BY <1>1, <1>2, <1>9, <1>10, <1>13, <1>14, <1>15, UmountKeeps

\* A place unmounted a number of times.
Lessened(l, x, n) == [l EXCEPT !.on[x] = Less(@, n)]

\* A place with some mounts less.
LEMMA LessAt ==
  ASSUME NEW l \in Layer, NEW x \in Places, NEW n \in Nat
  PROVE  LET r == Lessened(l, x, n) IN
         /\ OnlyAt(l, r, x) /\ r.on[x] = Less(l.on[x], n)
         /\ l = Bare => r = Bare
         /\ Len(l.on[x]) <= 1 => Len(r.on[x]) <= 1
<1> DEFINE s == Less(l.on[x], n)
           r == [l EXCEPT !.on[x] = s]
<1>1. l.on[x] \in Seq(MountType)
  BY LayerIs
<1>2. /\ s \in Seq(MountType) /\ Len(s) = IF n <= Len(l.on[x]) THEN Len(l.on[x]) - n ELSE 0
      /\ l.on[x] = <<>> => s = <<>>
  BY <1>1, LessIs
<1>3. Len(l.on[x]) \in Nat
  BY <1>1
<1>4. Len(l.on[x]) <= 1 => Len(s) <= 1
  BY <1>2, <1>3
<1>5. Lessened(l, x, n) = r
  BY LayerIs DEF Lessened
<1> HIDE DEF s
<1>6. OnlyAt(l, r, x) /\ r.on[x] = s
  BY <1>2, LayerWith DEF OnlyAt
<1> HIDE DEF r
<1>7. l = Bare => r = Bare
  BY <1>2, <1>6, BareStays
<1> QED
  BY <1>4, <1>5, <1>6, <1>7 DEF s

\* The next in the list, or round.
LEMMA NextAt ==
  ASSUME Typed, NEW p \in Procs, NEW l \in Umounting,
         loc' = [loc EXCEPT ![p].at = @ + 1, ![p].pc = l]
  PROVE  /\ Only(p) /\ loc'[p].pc = l /\ loc'[p].at = loc[p].at + 1
         /\ loc'[p].lines = loc[p].lines /\ loc'[p].seen = loc[p].seen /\ loc'[p].found = loc[p].found
<1> DEFINE r == [loc[p] EXCEPT !.at = @ + 1, !.pc = l]
<1>1. loc[p] \in Invocation /\ l \in Stages
  BY DEF Typed, Stages
<1>2. loc[p].at + 1 \in Nat \ {0}
  BY <1>1 DEF Invocation
<1>3. /\ r \in Invocation /\ r.pc = l /\ r.at = loc[p].at + 1
      /\ r.lines = loc[p].lines /\ r.seen = loc[p].seen /\ r.found = loc[p].found
  BY <1>1, <1>2 DEF Invocation
<1>4. loc' = [loc EXCEPT ![p] = r]
  BY DEF Typed
<1> HIDE DEF r
<1> QED
  BY <1>3, <1>4, ChangesIs

\* The next turn of a loop is the next turn at the same stage.
LEMMA SameStage ==
  ASSUME Typed, NEW p \in Procs, loc' = [loc EXCEPT ![p].at = @ + 1]
  PROVE  loc' = [loc EXCEPT ![p].at = @ + 1, ![p].pc = loc[p].pc]
<1>1. loc[p] \in Invocation
  BY DEF Typed
<1>2. [loc[p] EXCEPT !.at = @ + 1] = [loc[p] EXCEPT !.at = @ + 1, !.pc = loc[p].pc]
  BY <1>1 DEF Invocation
<1> QED
  BY <1>2 DEF Typed

\* A target has fewer mounts than it had.
LEMMA UmountExtraKeeps ==
  ASSUME IInv, NEW p \in Procs, UmountExtra(p)
  PROVE  IInv'
<1> DEFINE x == loc[p].list[loc[p].at]
<1>1. PICK gone \in Rounds .. 2 * Rounds :
        \E l \in {[Top EXCEPT !.on[x] = Less(@, gone)]} :
          /\ layers' = WithTop(l)
          /\ own' = [own EXCEPT ![Top.tree][x] = Removed(l, x, @)]
  BY DEF UmountExtra
<1> DEFINE l == Lessened(Top, x, gone)
<1>2. layers' = WithTop(l) /\ own' = [own EXCEPT ![Top.tree][x] = Removed(l, x, @)]
  BY <1>1 DEF Lessened
<1>3. /\ loc[p].pc = "u_extra" /\ loc[p].at <= Len(loc[p].list)
      /\ loc' = [loc EXCEPT ![p].at = @ + 1] /\ UNCHANGED <<stored, loops, trouble>>
  BY DEF UmountExtra
<1>4. Typed /\ loc[p].pc \in Umounting /\ trouble \subseteq trouble'
  BY <1>3 DEF IInv, Umounting
<1>5. x \in Targets /\ x \in Places /\ gone \in Nat
  <2>1. loc[p].list \in Seq(Targets) /\ loc[p].at \in Nat \ {0}
    BY <1>4 DEF Typed, Invocation
  <2>2. x \in Targets
    BY <1>3, <2>1
  <2> QED
    BY <2>2, LayerIs, RoundsAssumption
<1>6. Top \in Layer /\ Top.tree \in Trees
  BY <1>4, LayerIs, WithTopIs
<1> HIDE DEF x
<1>7. OnlyAt(Top, l, x) /\ (Top = Bare => l = Bare) /\ (Len(Top.on[x]) <= 1 => Len(l.on[x]) <= 1)
  BY <1>5, <1>6, LessAt
<1> HIDE DEF l
<1>8. l \in Layer /\ l.id = Top.id /\ \A y \in Places \ {x} : l.on[y] = Top.on[y]
  BY <1>7 DEF OnlyAt
<1>9. Alone => \A y \in Targets : Len(l.on[y]) <= 1
  BY <1>7, <1>8, LayerIs, TopTargets
<1>10. l.on["proc"] = Top.on["proc"]
  BY <1>5, <1>8, LayerIs
<1>11. /\ layers' \in Seq(Layer) /\ Len(layers') > 0 /\ Len(layers') <= Len(layers)
       /\ IdsDiffer' /\ Layered'
       /\ (\A k \in 1 .. Len(layers) : AllMasked(layers[k].on["proc"])) =>
            \A k \in 1 .. Len(layers') : AllMasked(layers'[k].on["proc"])
  BY <1>2, <1>4, <1>7, <1>8, <1>9, <1>10, TopChanges
<1>12. /\ Only(p) /\ loc'[p].pc = loc[p].pc /\ loc'[p].found = loc[p].found
       /\ loc'[p].lines = loc[p].lines /\ loc'[p].seen = loc[p].seen
  BY <1>3, <1>4, SameStage, NextAt
<1>13. own' \in [Trees -> [Targets -> Entries]]
  <2> DEFINE e == Removed(l, x, own[Top.tree][x])
  <2>1. own \in [Trees -> [Targets -> Entries]]
    BY <1>4 DEF Typed
  <2>2. e \in Entries
    BY <1>5, <1>6, <2>1 DEF Removed, Entries
  <2>3. own' = [own EXCEPT ![Top.tree][x] = e]
    BY <1>2, <1>5, <1>6, <2>1
  <2> HIDE DEF e
  <2> QED
    BY <1>5, <1>6, <2>1, <2>2, <2>3
<1>14. stored' \in [Trees -> Seq(Targets)]
  BY <1>3, <1>4 DEF Typed
<1>15. Alone => Counts(loc'[p], Len(layers'))
  <2>1. Alone => Len(layers) <= loc[p].found + 1 /\ loc[p].lines = <<>> /\ loc[p].seen = 0
    BY <1>3, <1>4 DEF IInv, AllWork, Works, Counts
  <2>2. Len(layers) \in Nat /\ Len(layers') \in Nat /\ loc[p].found \in Nat
    BY <1>4, <1>11 DEF Typed, Invocation
  <2> QED
    BY <1>3, <1>11, <1>12, <2>1, <2>2 DEF Counts
<1> QED
  BY <1>3, <1>4, <1>11, <1>12, <1>13, <1>14, <1>15, UmountKeeps

\* The loop over the listed targets is left.
LEMMA UmountExtrasDoneKeeps ==
  ASSUME IInv, NEW p \in Procs, UmountExtrasDone(p)
  PROVE  IInv'
<1> DEFINE r == [loc[p] EXCEPT !.at = 1, !.pc = "u_system"]
<1>1. /\ loc[p].pc = "u_extra" /\ loc' = [loc EXCEPT ![p].at = 1, ![p].pc = "u_system"]
      /\ UNCHANGED <<layers, own, stored, loops, trouble>>
  BY DEF UmountExtrasDone, host
<1>2. Typed /\ trouble \subseteq trouble' /\ loc[p].pc \in Umounting /\ "u_system" \in Umounting
  BY <1>1 DEF IInv, Umounting
<1>3. /\ r \in Invocation /\ r.pc = "u_system" /\ r.at = 1 /\ r.found = loc[p].found
      /\ r.lines = loc[p].lines /\ r.seen = loc[p].seen
  <2>1. loc[p] \in Invocation /\ "u_system" \in Stages /\ 1 \in Nat \ {0}
    BY <1>2 DEF Typed, Stages, Umounting
  <2> QED
    BY <2>1 DEF Invocation
<1>4. loc' = [loc EXCEPT ![p] = r]
  BY <1>1, <1>2 DEF Typed
<1> HIDE DEF r
<1>5. /\ Only(p) /\ loc'[p].pc = "u_system" /\ loc'[p].at = 1 /\ loc'[p].found = loc[p].found
      /\ loc'[p].lines = loc[p].lines /\ loc'[p].seen = loc[p].seen
  BY <1>2, <1>3, <1>4, ChangesIs
<1>6. /\ layers' \in Seq(Layer) /\ Len(layers') > 0 /\ Len(layers') <= Len(layers)
      /\ IdsDiffer' /\ Layered'
      /\ (\A k \in 1 .. Len(layers) : AllMasked(layers[k].on["proc"])) =>
           \A k \in 1 .. Len(layers') : AllMasked(layers'[k].on["proc"])
  BY <1>1, <1>2, LayersStay
<1>7. own' \in [Trees -> [Targets -> Entries]] /\ stored' \in [Trees -> Seq(Targets)]
  BY <1>1, <1>2 DEF Typed
<1>8. Alone => Counts(loc'[p], Len(layers'))
  <2>1. Alone => Len(layers) <= loc[p].found + 1 /\ loc[p].lines = <<>> /\ loc[p].seen = 0
    BY <1>1, <1>2 DEF IInv, AllWork, Works, Counts
  <2>2. Len(layers) \in Nat /\ loc[p].found \in Nat /\ layers' = layers
    BY <1>1, <1>2 DEF Typed, Invocation
  <2> QED
    BY <1>5, <2>1, <2>2 DEF Counts
<1> QED
  BY <1>1, <1>2, <1>5, <1>6, <1>7, <1>8, UmountKeeps

\* A layer less, or some mounts less on the bare directory, which had none.
LEMMA UmountSystemKeeps ==
  ASSUME IInv, NEW p \in Procs, UmountSystem(p)
  PROVE  IInv'
<1> DEFINE l == [Top EXCEPT !.on = [x \in Places |-> IF x \in System THEN Less(@[x], 1) ELSE @[x]]]
           to == IF loc[p].at = SystemRounds THEN "u_subdir" ELSE loc[p].pc
<1>1. /\ loc[p].pc = "u_system"
      /\ layers' = IF Len(layers) > 1 THEN Front(layers) ELSE WithTop(l)
      /\ UNCHANGED <<own, stored, loops, trouble>>
  BY DEF UmountSystem
<1>2. Typed /\ trouble \subseteq trouble' /\ loc[p].pc \in Umounting
  BY <1>1 DEF IInv, Umounting
<1>3. to \in Umounting /\ to = IF loc[p].at = SystemRounds THEN "u_subdir" ELSE "u_system"
  BY <1>1 DEF Umounting
<1>4. loc' = [loc EXCEPT ![p].at = @ + 1, ![p].pc = to]
  BY <1>2 DEF UmountSystem, Typed
<1> HIDE DEF to
<1>5. /\ Only(p) /\ loc'[p].pc = to /\ loc'[p].at = loc[p].at + 1
      /\ loc'[p].lines = loc[p].lines /\ loc'[p].seen = loc[p].seen /\ loc'[p].found = loc[p].found
  BY <1>2, <1>3, <1>4, NextAt
<1>6. /\ layers' \in Seq(Layer) /\ Len(layers') > 0 /\ Len(layers') <= Len(layers)
      /\ Len(layers') = 1 \/ Len(layers') = Len(layers) - 1
      /\ IdsDiffer' /\ Layered'
      /\ (\A k \in 1 .. Len(layers) : AllMasked(layers[k].on["proc"])) =>
           \A k \in 1 .. Len(layers') : AllMasked(layers'[k].on["proc"])
  <2>1. CASE Len(layers) > 1
    <3>1. layers' = Front(layers)
      BY <1>1, <2>1
    <3> QED
      BY <1>2, <2>1, <3>1, LayerGoes
  <2>2. CASE ~(Len(layers) > 1)
    <3>1. layers' = WithTop(l)
      BY <1>1, <2>2
    <3>2. Top \in Layer
      BY <1>2, LayerIs, WithTopIs
    <3>3. /\ l \in Layer /\ l.id = Top.id
          /\ \A x \in Places : l.on[x] = IF x \in System THEN Less(Top.on[x], 1) ELSE Top.on[x]
          /\ Top = Bare => l = Bare
      BY <3>2, SystemLess
    <3> HIDE DEF l
    <3>4. Alone => \A x \in Targets : Len(l.on[x]) <= 1
      BY <3>3, LayerIs, TopTargets
    <3>5. AllMasked(Top.on["proc"]) => AllMasked(l.on["proc"])
      <4>1. Top.on["proc"] \in Seq(MountType) /\ l.on["proc"] = Less(Top.on["proc"], 1)
        BY <3>2, <3>3, LayerIs DEF System
      <4> QED
        BY <4>1, MaskedStays
    <3> QED
      <4>1. layers \in Seq(Layer) /\ Len(layers) > 0
        BY <1>2 DEF Typed
      <4>2. Len(layers) \in Nat
        BY <4>1
      <4>3. Len(layers) = 1
        BY <2>2, <4>1, <4>2, OneIsLeft
      <4> QED
        BY <1>2, <3>1, <3>3, <3>4, <3>5, <4>3, TopChanges
  <2> QED
    BY <2>1, <2>2
<1>7. own' \in [Trees -> [Targets -> Entries]] /\ stored' \in [Trees -> Seq(Targets)]
  BY <1>1, <1>2 DEF Typed
<1>8. ASSUME Alone
      PROVE  Counts(loc'[p], Len(layers'))
  <2> DEFINE n == Len(layers)
             m == Len(layers')
             a == loc[p].at
             f == loc[p].found
             b == loc'[p].at
  <2>1. Works(p) /\ Counts(loc[p], n)
    BY <1>2, <1>8 DEF IInv, AllWork, Works
  <2>2. n = 1 \/ n + a <= f + 2
    BY <1>1, <2>1 DEF Counts
  <2>3. n \in Nat \ {0} /\ m \in Nat \ {0} /\ a \in Nat /\ f \in Nat /\ SystemRounds \in Nat /\ b = a + 1
    BY <1>2, <1>5, <1>6, RoundsAssumption DEF Typed, Invocation
  <2>4. loc[p].lines = <<>> /\ loc[p].seen = 0
    BY <1>1, <1>2, <1>8 DEF IInv, AllWork, Works, Counts
  <2>5. m = 1 \/ m = n - 1
    BY <1>6
  <2> HIDE DEF n, m, a, f, b
  <2>6. m = 1 \/ m + b <= f + 2
    BY <2>2, <2>3, <2>5
  <2>7. a = SystemRounds => m = 1 \/ m + SystemRounds <= f + 1
    BY <2>3, <2>6
  <2> QED
    BY <1>3, <1>5, <2>4, <2>6, <2>7 DEF Counts, m, a, f, b
<1> QED
  BY <1>1, <1>2, <1>3, <1>5, <1>6, <1>7, <1>8, UmountKeeps

\* What is read of /proc/mounts is of layers above those read before.
LEMMA UmountReadMountsKeeps ==
  ASSUME IInv, NEW p \in Procs, UmountReadMounts(p)
  PROVE  IInv'
<1>1. /\ loc[p].pc \in {"u_subdir", "u_lines"} /\ loc[p].lines = <<>>
      /\ UNCHANGED <<layers, own, stored, loops, trouble>>
  BY DEF UmountReadMounts, host
<1>2. PICK k \in loc[p].seen + 1 .. Len(layers) :
        loc' = [loc EXCEPT ![p].lines = SubSeq(layers, loc[p].seen + 1, k),
                           ![p].seen = k, ![p].pc = "u_lines"]
  BY DEF UmountReadMounts
<1> DEFINE a == loc[p].seen
           t == SubSeq(layers, a + 1, k)
           r == [loc[p] EXCEPT !.lines = t, !.seen = k, !.pc = "u_lines"]
<1>3. Typed /\ trouble \subseteq trouble' /\ loc[p].pc \in Umounting /\ "u_lines" \in Umounting
  BY <1>1 DEF IInv, Umounting
<1>4. layers \in Seq(Layer) /\ Len(layers) \in Nat /\ DOMAIN layers = 1 .. Len(layers)
  BY <1>3 DEF Typed
<1>5. a \in Nat /\ k \in Nat /\ a + 1 <= k /\ k <= Len(layers) /\ loc[p].found \in Nat
  BY <1>3, <1>4 DEF Typed, Invocation
<1> HIDE DEF a
<1>6. /\ t \in Seq(Layer) /\ Len(t) = k - a
      /\ \A i \in 1 .. k - a : t[i] = layers[a + i]
  BY <1>4, <1>5
<1> HIDE DEF t
<1>7. r \in Invocation /\ r.pc = "u_lines" /\ r.lines = t /\ r.seen = k /\ r.found = loc[p].found
  <2>1. loc[p] \in Invocation /\ "u_lines" \in Stages
    BY <1>3 DEF Typed, Stages
  <2> QED
    BY <1>5, <1>6, <2>1 DEF Invocation
<1>8. loc' = [loc EXCEPT ![p] = r]
  BY <1>2, <1>3 DEF Typed, t, a
<1> HIDE DEF r
<1>9. Only(p) /\ loc'[p] = r
  BY <1>3, <1>7, <1>8, ChangesIs
<1>10. /\ layers' \in Seq(Layer) /\ Len(layers') > 0 /\ Len(layers') <= Len(layers)
       /\ IdsDiffer' /\ Layered'
       /\ (\A i \in 1 .. Len(layers) : AllMasked(layers[i].on["proc"])) =>
            \A i \in 1 .. Len(layers') : AllMasked(layers'[i].on["proc"])
  BY <1>1, <1>3, LayersStay
<1>11. own' \in [Trees -> [Targets -> Entries]] /\ stored' \in [Trees -> Seq(Targets)]
  BY <1>1, <1>3 DEF Typed
<1>12. ASSUME Alone
       PROVE  Counts(r, Len(layers))
  <2> DEFINE n == Len(layers)
             f == loc[p].found
  <2>1. Counts(loc[p], n)
    BY <1>3, <1>12 DEF IInv, AllWork, Works
  <2>2. Len(loc[p].lines) = 0
    BY <1>1
  <2>3. n = 1 \/ (n + SystemRounds <= f + 1 /\ n + SystemRounds + a <= f + 2)
    <3>1. CASE loc[p].pc = "u_subdir"
      <4>1. a = 0 /\ (n = 1 \/ n + SystemRounds <= f + 1)
        BY <2>1, <3>1 DEF Counts, a
      <4>2. n \in Nat /\ f \in Nat /\ SystemRounds \in Nat
        BY <1>4, <1>5, RoundsAssumption
      <4> HIDE DEF n, f
      <4> QED
        BY <4>1, <4>2
    <3>2. CASE loc[p].pc = "u_lines"
      <4>1. n = 1 \/ (n + SystemRounds <= f + 1 /\ n + SystemRounds + Handled(loc[p]) <= f + 2)
        BY <2>1, <3>2 DEF Counts
      <4>2. Handled(loc[p]) = a
        BY <1>5, <2>2 DEF Handled, a
      <4> QED
        BY <4>1, <4>2
    <3> QED
      BY <1>1, <3>1, <3>2
  <2>4. Handled(r) = a /\ Len(r.lines) <= r.seen
    BY <1>5, <1>6, <1>7 DEF Handled
  <2>5. ASSUME NEW i \in 1 .. Len(r.lines), Handled(r) + i # 1
        PROVE  r.lines[i].id # 0
    <3>1. i \in 1 .. k - a /\ a + i # 1
      BY <1>6, <1>7, <2>4, <2>5
    <3>2. r.lines[i] = layers[a + i]
      BY <1>6, <1>7, <3>1
    <3>3. a + i \in DOMAIN layers /\ 1 \in DOMAIN layers
      BY <1>4, <1>5, <3>1
    <3> QED
      BY <3>1, <3>2, <3>3 DEF IInv, IdsDiffer
  <2> HIDE DEF n, f
  <2>6. r.found = f
    BY <1>7 DEF f
  <2> QED
    BY <1>7, <2>3, <2>4, <2>5, <2>6 DEF Counts, n
<1>13. Alone => Counts(loc'[p], Len(layers'))
  BY <1>1, <1>9, <1>12
<1> QED
  BY <1>1, <1>3, <1>7, <1>9, <1>10, <1>11, <1>13, UmountKeeps

\* A line but the first takes a layer away as long as there is one.
LEMMA UmountLinesKeeps ==
  ASSUME IInv, NEW p \in Procs, UmountLines(p)
  PROVE  IInv'
<1> DEFINE line == Head(loc[p].lines)
           ls   == WithoutLayer(layers, line)
<1>1. /\ loc[p].pc = "u_lines" /\ loc[p].lines # <<>>
      /\ loc' = [loc EXCEPT ![p].lines = Tail(@)]
      /\ UNCHANGED <<own, stored, loops, trouble>>
  BY DEF UmountLines
<1> PICK missed \in SUBSET Places :
        layers' = Append(Front(ls), [Last(ls) EXCEPT !.on =
                    [x \in Places |-> Less(@[x], IF x \in missed THEN 0 ELSE Len(line.on[x]))]])
  BY DEF UmountLines
<1> DEFINE fs   == [x \in Places |-> IF x \in missed THEN 0 ELSE Len(line.on[x])]
           l    == [Last(ls) EXCEPT !.on =
                     [x \in Places |-> Less(@[x], IF x \in missed THEN 0 ELSE Len(line.on[x]))]]
           t    == Tail(loc[p].lines)
           r    == [loc[p] EXCEPT !.lines = t]
<1>l. layers' = Append(Front(ls), l)
  OBVIOUS
<1>2. Typed /\ trouble \subseteq trouble' /\ loc[p].pc \in Umounting
  BY <1>1 DEF IInv, Umounting
<1>4. loc[p].lines \in Seq(Layer) /\ Len(loc[p].lines) \in Nat \ {0}
  BY <1>1, <1>2 DEF Typed, Invocation
<1>t. /\ t \in Seq(Layer) /\ Len(t) = Len(loc[p].lines) - 1 /\ line = loc[p].lines[1]
      /\ \A i \in 1 .. Len(t) : t[i] = loc[p].lines[i + 1]
  BY <1>1, <1>4
<1> HIDE DEF t
<1>3. Only(p) /\ loc'[p] = r
  <2>1. loc[p] \in Invocation
    BY <1>2 DEF Typed
  <2>2. r \in Invocation
    BY <1>t, <2>1 DEF Invocation
  <2>3. loc' = [loc EXCEPT ![p] = r]
    BY <1>1, <1>2 DEF Typed, t
  <2> HIDE DEF r
  <2> QED
    BY <1>2, <2>2, <2>3, ChangesIs
<1>r. /\ r.pc = "u_lines" /\ r.lines = t /\ r.seen = loc[p].seen /\ r.found = loc[p].found
      /\ loc[p].seen \in Nat /\ loc[p].found \in Nat
  BY <1>1, <1>2 DEF Typed, Invocation
<1> HIDE DEF r
<1>5. line \in Layer
  BY <1>4, <1>t
<1>6. layers \in Seq(Layer) /\ layers # <<>> /\ Len(layers) \in Nat \ {0}
  BY <1>2 DEF Typed
<1> HIDE DEF line
<1>7. /\ ls \in Seq(Layer) /\ Len(ls) > 0 /\ Len(ls) <= Len(layers) /\ Len(ls) \in Nat
      /\ \A k \in 1 .. Len(ls) : ls[k] = layers[k]
      /\ Len(ls) <= 1 \/ line.id = 0 \/ Len(ls) = Len(layers) - 1
  <2>1. CASE line.id # 0 /\ Len(layers) > 1
    <3>1. ls = Front(layers)
      BY <2>1 DEF WithoutLayer
    <3>2. /\ Front(layers) \in Seq(Layer) /\ Len(Front(layers)) = Len(layers) - 1
          /\ \A i \in 1 .. Len(layers) - 1 : Front(layers)[i] = layers[i]
      BY <1>6, FrontIs
    <3> HIDE DEF ls
    <3> QED
      BY <1>6, <2>1, <3>1, <3>2
  <2>2. CASE ~(line.id # 0 /\ Len(layers) > 1)
    <3>1. ls = layers
      BY <2>2 DEF WithoutLayer
    <3> HIDE DEF ls
    <3> QED
      BY <1>6, <2>2, <3>1
  <2> QED
    BY <2>1, <2>2
<1> HIDE DEF ls
<1>8. ls # <<>> /\ Last(ls) \in Layer
  BY <1>7, FrontIs
<1>9. fs \in [Places -> Nat]
  <2>1. \A x \in Places : Len(line.on[x]) \in Nat
    BY <1>5, LayerIs
  <2> QED
    BY <2>1
<1> DEFINE g == [Last(ls) EXCEPT !.on = [x \in Places |-> Less(@[x], fs[x])]]
<1>10. l = g
  <2>1. \A x \in Places : fs[x] = IF x \in missed THEN 0 ELSE Len(line.on[x])
    OBVIOUS
  <2> HIDE DEF fs
  <2> QED
    BY <2>1
<1> HIDE DEF fs
<1>11. /\ g \in Layer /\ g.id = Last(ls).id
       /\ \A x \in Places : g.on[x] = Less(Last(ls).on[x], fs[x])
       /\ Last(ls) = Bare => g = Bare
  BY <1>8, <1>9, LessAllIs
<1> HIDE DEF g, l
<1>12. ASSUME NEW x \in Places
       PROVE  /\ Last(ls).on[x] \in Seq(MountType) /\ fs[x] \in Nat
              /\ g.on[x] = Less(Last(ls).on[x], fs[x])
  BY <1>8, <1>9, <1>11, LayerIs
<1>13. ASSUME NEW x \in Targets, Len(Last(ls).on[x]) <= 1
       PROVE  Len(g.on[x]) <= 1
  <2> DEFINE s == Last(ls).on[x]
  <2>1. s \in Seq(MountType) /\ fs[x] \in Nat /\ g.on[x] = Less(s, fs[x]) /\ Len(s) <= 1
    BY <1>12, <1>13, LayerIs
  <2> HIDE DEF s
  <2>2. Len(Less(s, fs[x])) = IF fs[x] <= Len(s) THEN Len(s) - fs[x] ELSE 0
    BY <2>1, LessIs
  <2> QED
    BY <2>1, <2>2
<1>14. AllMasked(Last(ls).on["proc"]) => AllMasked(g.on["proc"])
  BY <1>12, LayerIs, MaskedStays
<1>15. /\ layers' \in Seq(Layer) /\ Len(layers') = Len(ls) /\ Len(layers') > 0
       /\ IdsDiffer' /\ Layered' /\ Len(layers') <= Len(layers)
       /\ (\A k \in 1 .. Len(layers) : AllMasked(layers[k].on["proc"])) =>
            \A k \in 1 .. Len(layers') : AllMasked(layers'[k].on["proc"])
  BY <1>l, <1>1, <1>2, <1>7, <1>10, <1>11, <1>13, <1>14, LayersGo
<1>16. own' \in [Trees -> [Targets -> Entries]] /\ stored' \in [Trees -> Seq(Targets)]
  BY <1>1, <1>2 DEF Typed
<1>17. ASSUME Alone
       PROVE  Counts(r, Len(layers'))
  <2> DEFINE n == Len(layers)
             m == Len(layers')
             c == loc[p]
             h == Handled(c)
             f == c.found
  <2>1. Counts(c, n)
    BY <1>2, <1>17 DEF IInv, AllWork, Works
  <2>2. /\ Len(c.lines) <= c.seen
        /\ \A i \in 1 .. Len(c.lines) : h + i # 1 => c.lines[i].id # 0
        /\ n = 1 \/ (n + SystemRounds <= f + 1 /\ n + SystemRounds + h <= f + 2)
    BY <1>1, <2>1 DEF Counts
  <2>3. h \in Nat /\ Handled(r) = h + 1 /\ Len(t) <= c.seen
    <3>1. c.seen \in Nat /\ Len(c.lines) \in Nat /\ Len(t) = Len(c.lines) - 1 /\ Len(c.lines) <= c.seen
      BY <1>r, <1>4, <1>t, <2>2
    <3>2. h = c.seen - Len(c.lines) /\ Handled(r) = c.seen - Len(t)
      BY <1>r DEF Handled
    <3> HIDE DEF h, c
    <3> QED
      BY <3>1, <3>2
  <2>4. ASSUME NEW i \in 1 .. Len(t), Handled(r) + i # 1
        PROVE  t[i].id # 0
    <3>1. i + 1 \in 1 .. Len(c.lines) /\ t[i] = c.lines[i + 1]
      BY <1>4, <1>t
    <3>2. h + (i + 1) # 1
      <4> HIDE DEF h
      <4> QED
        BY <1>4, <1>t, <2>3, <2>4
    <3> QED
      BY <2>2, <3>1, <3>2
  <2>5. line.id = 0 => h = 0
    <3>1. line = c.lines[1] /\ 1 \in 1 .. Len(c.lines)
      BY <1>4, <1>t
    <3>2. h + 1 # 1 => line.id # 0
      BY <2>2, <3>1
    <3> HIDE DEF h
    <3> QED
      BY <2>3, <3>2
  <2>6. /\ n \in Nat \ {0} /\ m \in Nat \ {0} /\ f \in Nat /\ SystemRounds \in Nat /\ m <= n
        /\ m = 1 \/ line.id = 0 \/ m = n - 1
    <3>1. n \in Nat \ {0} /\ m = Len(ls) /\ Len(ls) \in Nat /\ Len(ls) > 0 /\ Len(ls) <= n
      BY <1>6, <1>7, <1>15
    <3>2. f \in Nat /\ SystemRounds \in Nat
      BY <1>r, RoundsAssumption
    <3>3. Len(ls) <= 1 \/ line.id = 0 \/ Len(ls) = n - 1
      BY <1>7
    <3> HIDE DEF n, m, f
    <3> QED
      BY <3>1, <3>2, <3>3
  <2>7. m = 1 \/ (m + SystemRounds <= f + 1 /\ m + SystemRounds + (h + 1) <= f + 2)
    <3>1. n = 1 \/ (n + SystemRounds <= f + 1 /\ n + SystemRounds + h <= f + 2)
      BY <2>2
    <3> HIDE DEF n, m, f, h
    <3>2. CASE line.id = 0
      BY <2>3, <2>5, <2>6, <3>1, <3>2
    <3>3. CASE m = n - 1
      BY <2>3, <2>6, <3>1, <3>3
    <3> QED
      BY <2>6, <3>2, <3>3
  <2> HIDE DEF n, m, h, f
  <2>8. r.found = f
    BY <1>r DEF f
  <2> QED
    BY <1>r, <2>3, <2>4, <2>7, <2>8 DEF Counts, m
<1>18. Alone => Counts(loc'[p], Len(layers'))
  BY <1>3, <1>17
<1>19. loc'[p].pc \in Umounting
  BY <1>3, <1>r DEF Umounting
<1> QED
  BY <1>1, <1>2, <1>3, <1>15, <1>16, <1>18, <1>19, UmountKeeps

-----------------------------------------------------------------------------
(* The invariant *)

\* A bare directory and nobody at work.
LEMMA NothingMounted ==
  ASSUME layers' = <<Bare>>, loc' = [q \in Procs |-> Idle],
         own' \in [Trees -> [Targets -> Entries]], stored' \in [Trees -> Seq(Targets)],
         loops' \in 0 .. MaxLoops, trouble' \in SUBSET Troubles
  PROVE  IInv'
<1>1. /\ layers' \in Seq(Layer) /\ Len(layers') > 0 /\ layers'[1] = Bare /\ DOMAIN layers' = {1}
      /\ loc' \in [Procs -> Invocation]
  BY LayerIs, IdleIs
<1>2. \A q \in Procs : loc'[q].pc = "idle"
  BY IdleIs
<1>3. Typed'
  BY <1>1, <1>2 DEF Typed
<1>4. IdsDiffer'
  BY <1>1, LayerIs DEF IdsDiffer
<1>5. Exclusive'
  BY <1>2 DEF Exclusive, Quiet
<1>6. Layered'
  <2>1. \A x \in Targets : Bare.on[x] = <<>> /\ Len(Bare.on[x]) <= 1
    BY LayerIs
  <2> QED
    BY <1>1, <2>1 DEF Layered
<1>7. MasksAreSet'
  <2>1. AllMasked(Bare.on["proc"])
    BY LayerIs DEF AllMasked
  <2> QED
    BY <1>1, <2>1 DEF MasksAreSet
<1>8. AllWork'
  BY <1>2, Undemanding DEF AllWork, Quiet
<1> QED
  BY <1>3, <1>4, <1>5, <1>6, <1>7, <1>8 DEF IInv

\* At first nothing is mounted and nobody is at work.
LEMMA InitHolds == Init => IInv
<1> SUFFICES ASSUME Init
             PROVE  IInv
  OBVIOUS
<1>1. /\ layers \in Seq(Layer) /\ Len(layers) > 0 /\ layers[1] = Bare /\ DOMAIN layers = {1}
      /\ loc \in [Procs -> Invocation]
  BY LayerIs, IdleIs DEF Init
<1>2. \A q \in Procs : loc[q].pc = "idle"
  BY IdleIs DEF Init
<1>3. Typed
  <2>1. own \in [Trees -> [Targets -> Entries]]
    BY ContentsAssumption DEF Init
  <2>2. stored \in [Trees -> Seq(Targets)] /\ trouble \in SUBSET Troubles
    BY DEF Init
  <2>3. loops \in 0 .. MaxLoops
    BY RoundsAssumption DEF Init
  <2> QED
    BY <1>1, <1>2, <2>1, <2>2, <2>3 DEF Typed
<1>4. IdsDiffer
  BY <1>1, LayerIs DEF IdsDiffer
<1>5. Exclusive
  BY <1>2 DEF Exclusive, Quiet
<1>6. Layered
  <2>1. \A x \in Targets : Bare.on[x] = <<>> /\ Len(Bare.on[x]) <= 1
    BY LayerIs
  <2> QED
    BY <1>1, <2>1 DEF Layered
<1>7. MasksAreSet
  <2>1. AllMasked(Bare.on["proc"])
    BY LayerIs DEF AllMasked
  <2> QED
    BY <1>1, <2>1 DEF MasksAreSet
<1>8. AllWork
  BY <1>2 DEF AllWork, Works, Outside, Entering, Masking, Umounting
<1> QED
  BY <1>3, <1>4, <1>5, <1>6, <1>7, <1>8 DEF IInv

\* Killed: a start that dies while it masks leaves /proc unmasked, as it may.
LEMMA DieKeeps ==
  ASSUME IInv, NEW p \in Procs, Die(p)
  PROVE  IInv'
<1>1. /\ loc[p].pc \notin Quiet /\ trouble' = trouble \cup {"killed"} /\ Bounded(trouble')
      /\ End(p) /\ UNCHANGED <<layers, own, stored, loops>>
  BY DEF Die, host, May
<1>2. trouble \subseteq trouble' /\ trouble' \in SUBSET Troubles /\ ~Untroubled'
  BY <1>1 DEF Bounded, Untroubled
<1> QED
  BY <1>1, <1>2, EndKeeps

\* An umount ends.
LEMMA UmountedKeeps ==
  ASSUME IInv, NEW p \in Procs, Umounted(p)
  PROVE  IInv'
<1>1. /\ loc[p].pc = "u_lines" /\ End(p) /\ UNCHANGED <<layers, own, stored, loops, trouble>>
  BY DEF Umounted, SubdirRead, host
<1>2. /\ loc[p].pc \notin Quiet /\ loc[p].pc \notin Masking
      /\ trouble \subseteq trouble' /\ trouble' \in SUBSET Troubles
  BY <1>1 DEF Quiet, Masking, IInv, Typed
<1> QED
  BY <1>1, <1>2, EndKeeps

\* A reboot takes all mounts and all invocations.
LEMMA RebootKeeps ==
  ASSUME IInv, Reboot
  PROVE  IInv'
<1>1. /\ layers' = <<Bare>> /\ loc' = [q \in Procs |-> Idle] /\ loops' = 0
      /\ trouble' = trouble \cup {"rebooted"} /\ Bounded(trouble')
      /\ UNCHANGED <<own, stored>>
  BY DEF Reboot, May
<1>2. /\ own' \in [Trees -> [Targets -> Entries]] /\ stored' \in [Trees -> Seq(Targets)]
      /\ loops' \in 0 .. MaxLoops /\ trouble' \in SUBSET Troubles
  BY <1>1, RoundsAssumption DEF IInv, Typed, Bounded
<1> QED
  BY <1>1, <1>2, NothingMounted

\* What changes nothing keeps it.
LEMMA UnchangedKeeps ==
  ASSUME IInv, UNCHANGED vars
  PROVE  IInv'
<1> USE DEF IInv, vars, host
<1>1. Typed'
  BY DEF Typed, Extra
<1>2. IdsDiffer' /\ Exclusive'
  BY DEF IdsDiffer, Exclusive, Alone
<1>3. Layered' /\ MasksAreSet'
  BY DEF Layered, MasksAreSet, Alone, Bound, Untroubled, Roots
<1>4. AllWork'
  <2> SUFFICES ASSUME Alone', NEW q \in Procs
               PROVE  Works(q)'
    BY DEF AllWork
  <2>1. Works(q)
    BY DEF AllWork, Alone
  <2>2. \A i : IsDone(q, i)' <=> IsDone(q, i)
    BY DEF IsDone, Extra, Top, Mounted, Shown
  <2> QED
    BY <2>1, <2>2 DEF Works, IsNew, Top, Extra, Roots, Untroubled, Bound, Alone
<1> QED
  BY <1>1, <1>2, <1>3, <1>4

\* Each step of Mounts keeps it.
LEMMA StepHolds == IInv /\ [Next]_vars => IInv'
<1> SUFFICES ASSUME IInv, [Next]_vars
             PROVE  IInv'
  OBVIOUS
<1>1. ASSUME NEW p \in Procs, Start(p)
      PROVE  IInv'
  <2>1. ASSUME NEW c \in Settings, Begin(p, c)
        PROVE  IInv'
    <3> DEFINE l == IF HasProc(Top) THEN "binary" ELSE IF c.rootfs_source THEN "rootfs" ELSE "self"
    <3>1. BeginAs(p, l, c) /\ UNCHANGED host
      BY <2>1 DEF Begin
    <3>2. l \in {"binary", "rootfs", "self", "u_read"} /\ (l = "binary" => HasProc(Top))
      OBVIOUS
    <3> HIDE DEF l
    <3> QED
      BY <3>1, <3>2, BeginKeeps
  <2>2. CASE MountRootfs(p)
    BY <2>2, MountRootfsKeeps
  <2>3. CASE MountSelf(p)
    BY <2>3, MountSelfKeeps
  <2>4. CASE MakeMountpoint(p)
    BY <2>4, MakeMountpointKeeps
  <2>5. CASE Attach(p)
    BY <2>5, AttachKeeps
  <2>6. CASE ExtrasDone(p)
    BY <2>6, ExtrasDoneKeeps
  <2>7. CASE CopyQemu(p)
    BY <2>7, CopyQemuKeeps
  <2>8. CASE StoreInfo(p)
    BY <2>8, StoreInfoKeeps
  <2>9. CASE MountHostRuntime(p)
    BY <2>9, MountHostRuntimeKeeps
  <2>10. CASE MountRoRoot(p)
    BY <2>10, MountRoRootKeeps
  <2>11. CASE CheckBinary(p)
    BY <2>11, CheckBinaryKeeps
  <2>12. CASE Chroot(p)
    BY <2>12, ChrootKeeps
  <2>13. CASE InitProc(p)
    BY <2>13, InitProcKeeps
  <2>14. CASE InitSysDev(p)
    BY <2>14, InitSysDevKeeps
  <2>15. CASE InitMasks(p)
    BY <2>15, InitMasksKeeps
  <2>16. CASE Leave(p)
    BY <2>16, LeaveKeeps
  <2> QED
    BY <1>1, <2>1, <2>2, <2>3, <2>4, <2>5, <2>6, <2>7, <2>8, <2>9, <2>10, <2>11, <2>12, <2>13,
       <2>14, <2>15, <2>16 DEF Start
<1>2. ASSUME NEW p \in Procs, Umount(p)
      PROVE  IInv'
  <2>1. CASE BeginUmount(p)
    <3>1. Idle.setting \in Settings
      BY IdleIs DEF Invocation
    <3>2. "u_read" \in {"binary", "rootfs", "self", "u_read"} /\ "u_read" # "binary"
      OBVIOUS
    <3> QED
      BY <2>1, <3>1, <3>2, BeginKeeps DEF BeginUmount
  <2>2. CASE UmountReadInfo(p)
    BY <2>2, UmountReadInfoKeeps
  <2>3. CASE UmountExtra(p)
    BY <2>3, UmountExtraKeeps
  <2>4. CASE UmountExtrasDone(p)
    BY <2>4, UmountExtrasDoneKeeps
  <2>5. CASE UmountSystem(p)
    BY <2>5, UmountSystemKeeps
  <2>6. CASE UmountReadMounts(p)
    BY <2>6, UmountReadMountsKeeps
  <2>7. CASE UmountLines(p)
    BY <2>7, UmountLinesKeeps
  <2>8. CASE Umounted(p)
    BY <2>8, UmountedKeeps
  <2> QED
    BY <1>2, <2>1, <2>2, <2>3, <2>4, <2>5, <2>6, <2>7, <2>8 DEF Umount
<1>3. ASSUME NEW p \in Procs, Die(p)
      PROVE  IInv'
  BY <1>3, DieKeeps
<1>4. CASE Reboot
  BY <1>4, RebootKeeps
<1>5. CASE Rest
  BY <1>5, UnchangedKeeps DEF Rest
<1>6. CASE UNCHANGED vars
  BY <1>6, UnchangedKeeps
<1> QED
  BY <1>1, <1>2, <1>3, <1>4, <1>5, <1>6 DEF Next

\* The inductive invariant holds.
LEMMA Invariant == Spec => []IInv
<1>1. Init => IInv
  BY InitHolds
<1>2. IInv /\ [Next]_vars => IInv'
  BY StepHolds
<1> QED
  BY <1>1, <1>2, PTL DEF Spec

-----------------------------------------------------------------------------
(* What a run checks, from the inductive invariant *)

\* The state is of its types, the bare directory is below all layers, and each layer
\* has an identity of its own.
THEOREM TypeCorrect == Spec => []TypeOK
<1>1. ASSUME IInv
      PROVE  TypeOK
  <2>1. \A p \in Procs : loc[p].setting \in Settings /\ loc[p].list \in Seq(Targets)
    BY <1>1 DEF IInv, Typed, Invocation
  <2> QED
    BY <1>1, <2>1 DEF IInv, Typed, IdsDiffer, TypeOK
<1> QED
  BY <1>1, Invariant, PTL

\* ruri_trymount() leaves no target with two mounts in a layer, unless two invocations
\* were at work at a time.
THEOREM TargetsAreUnstacked == Spec => []NeverStacked
<1>1. ASSUME IInv
      PROVE  NeverStacked
  BY <1>1 DEF IInv, Layered, NeverStacked
<1> QED
  BY <1>1, Invariant, PTL

\* At each turn of the loop of mount_mountpoints() the -m and -M so far are mounted as
\* asked, or the user has been warned.
THEOREM MountsAreMade == Spec => []MountedOrWarned
<1>1. ASSUME IInv
      PROVE  MountedOrWarned
  <2> SUFFICES ASSUME NEW p \in Procs, Alone, loc[p].pc = "extra", NEW i \in 1 .. loc[p].at - 1
               PROVE  LET m == loc[p].setting.mounts[i] IN
                      \/ i \in loc[p].warned
                      \/ \E j \in i + 1 .. loc[p].at - 1 : loc[p].setting.mounts[j].at = m.at
                      \/ /\ Mounted(Top, m.at)
                         /\ Shown(Top, m.at).what = m.source
                         /\ Shown(Top, m.at).ro = m.ro
    BY DEF MountedOrWarned
  <2>1. IsDone(p, i)
    BY <1>1 DEF IInv, AllWork, Works
  <2> QED
    BY <2>1 DEF IsDone
<1> QED
  BY <1>1, Invariant, PTL

\* Nobody runs a command below a procfs that is not masked as the start that mounted it
\* asked, without kills, overlaps or failed mounts: the start that is between the mount
\* and the masks is alone on its layer.
THEOREM MasksAreInPlace == Spec => []RunningIsMasked
<1>1. ASSUME IInv
      PROVE  RunningIsMasked
  <2> SUFFICES ASSUME Untroubled, NEW p \in Procs, loc[p].pc = "running", NEW k \in Roots(p),
                      Mounted(layers[k], "proc")
               PROVE  IsMasked(Shown(layers[k], "proc"))
    BY DEF RunningIsMasked, Untroubled, IsMasked
  <2> DEFINE s == layers[k].on["proc"]
  <2>1. k \in DOMAIN layers /\ layers[k].id = loc[p].root /\ layers[k] \in Layer
    BY <1>1 DEF IInv, Typed, Roots
  <2>2. s \in Seq(MountType) /\ s # <<>>
    BY <2>1 DEF Layer, MountType, Places, System, Mounted
  <2>3. Len(s) \in DOMAIN s /\ Shown(layers[k], "proc") = s[Len(s)]
    BY <2>2 DEF Shown, Last
  <2>4. CASE AllMasked(s)
    BY <2>3, <2>4 DEF AllMasked
  <2>5. ~ \E q \in Procs : loc[q].pc \in Masking /\ k \in Roots(q)
    <3> SUFFICES ASSUME NEW q \in Procs, loc[q].pc \in Masking, k \in Roots(q)
                 PROVE  FALSE
      OBVIOUS
    <3>1. p # q
      BY DEF Masking
    <3>2. Works(q) /\ Bound
      BY <1>1 DEF IInv, AllWork, Untroubled, Bound, Alone
    <3>3. IsNew(q, loc[q].root)
      BY <3>2 DEF Works
    <3>4. layers[k].id = loc[q].root
      BY DEF Roots
    <3> QED
      BY <2>1, <3>1, <3>3, <3>4 DEF IsNew
  <2> QED
    BY <1>1, <2>1, <2>4, <2>5 DEF IInv, MasksAreSet
<1> QED
  BY <1>1, Invariant, PTL

\* Whatever has been piled up on the directory, at the end of umount_subdir() all but
\* half of what SystemRounds umounts have left is gone: what it reads of /proc/mounts is
\* behind what it has read, and each line of it but the first takes one mount away; unless
\* two invocations were at work at a time or the directory could not be bound.
THEOREM UmountTakesHalf == Spec => []UmountTakesMost
<1>1. ASSUME IInv
      PROVE  UmountTakesMost
  <2> SUFFICES ASSUME NEW p \in Procs, Bound, SubdirRead(p)
               PROVE  /\ layers[1] = Bare
                      /\ Len(layers) = 1 \/ SystemRounds + 2 * (Len(layers) - 1) <= loc[p].found
    BY DEF UmountTakesMost, Bound
  <2>1. layers[1] = Bare /\ Works(p)
    BY <1>1 DEF IInv, Layered, AllWork, Bound
  <2> DEFINE n == Len(layers)
             s == loc[p].seen
             f == loc[p].found
  <2>2. n = 1 \/ n + SystemRounds + Handled(loc[p]) <= f + 2
    BY <2>1 DEF Works, Counts, SubdirRead, Umounting
  <2>3. n \in Nat /\ s \in Nat /\ f \in Nat /\ SystemRounds \in Nat
    BY <1>1, RoundsAssumption DEF IInv, Typed, Invocation
  <2>4. Handled(loc[p]) = s /\ s >= n
    BY <2>3 DEF Handled, SubdirRead
  <2> HIDE DEF n, s, f
  <2>5. n = 1 \/ SystemRounds + 2 * (n - 1) <= f
    BY <2>2, <2>3, <2>4
  <2> QED
    BY <2>1, <2>5 DEF n, f
<1> QED
  BY <1>1, Invariant, PTL
=============================================================================
