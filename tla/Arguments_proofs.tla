---------------------------- MODULE Arguments_proofs ----------------------------
(***************************************************************************)
(* Proofs about Arguments and ConfigFile, for any command lines, config    *)
(* files and limits of the arrays.                                         *)
(***************************************************************************)
EXTENDS Arguments, FiniteSetTheorems, SequenceTheorems, WellFoundedInduction, TLAPS

-----------------------------------------------------------------------------
(* Lists *)

\* A set of numbers that is not empty has a least element.
LEMMA Least ==
  ASSUME NEW T \in SUBSET Nat, T # {}
  PROVE  \E x \in T : \A y \in T : x <= y
<1>1. PICK x \in T : \A y \in T : <<y, x>> \notin OpToRel(<, Nat)
  BY WFMin, NatLessThanWellFounded, Zenon
<1>2. \A y \in T : ~(y < x)
  BY <1>1 DEF OpToRel
<1> QED
  BY <1>2

\* A finite set of numbers that is not empty has a greatest element.
LEMMA Greatest ==
  ASSUME NEW n \in Nat, NEW T \in SUBSET (1 .. n), T # {}
  PROVE  \E x \in T : \A y \in T : y <= x
<1> DEFINE U == {n - i : i \in T}
<1>1. U \in SUBSET Nat /\ U # {}
  <2>1. \A i \in T : n - i \in Nat
    OBVIOUS
  <2> QED
    BY <2>1
<1>2. PICK u \in U : \A v \in U : u <= v
  BY <1>1, Least
<1>3. PICK x \in T : u = n - x
  OBVIOUS
<1>4. ASSUME NEW y \in T
      PROVE  y <= x
  <2>1. u <= n - y
    BY <1>2
  <2> QED
    BY <1>3, <2>1
<1> QED
  BY <1>3, <1>4

\* Deleting leaves a list of what was there.
LEMMA WithoutIs ==
  ASSUME NEW S, NEW l \in Seq(S), NEW gone
  PROVE  Without(l, gone) \in Seq(S)
<1> DEFINE n == Len(l)
           kept == {i \in DOMAIN l : l[i] \notin gone}
           Upto(i) == {j \in kept : j <= i}
           C(i) == Cardinality(Upto(i))
<1>1. n \in Nat /\ DOMAIN l = 1 .. n /\ kept \in SUBSET (1 .. n)
  OBVIOUS
<1>2. IsFiniteSet(kept)
  <2>1. IsFiniteSet(1 .. n)
    BY <1>1, FS_Interval
  <2> QED
    BY <1>1, <2>1, FS_Subset
<1>3. ASSUME NEW i \in Nat
      PROVE  IsFiniteSet(Upto(i)) /\ C(i) \in Nat
  <2>1. Upto(i) \in SUBSET kept
    OBVIOUS
  <2>2. IsFiniteSet(Upto(i))
    BY <1>2, <2>1, FS_Subset
  <2> QED
    BY <2>2, FS_CardinalityType
<1>4. ASSUME NEW m \in 1 .. Cardinality(kept)
      PROVE  \E i \in kept : C(i) = m
  <2> DEFINE T == {i \in 0 .. n : C(i) >= m}
  <2>1. Upto(n) = kept /\ Upto(0) = {}
    BY <1>1
  <2>2. C(n) = Cardinality(kept) /\ C(0) = 0
    BY <2>1, FS_EmptySet
  <2>3. m \in Nat /\ m >= 1 /\ m <= Cardinality(kept)
    BY <1>2, FS_CardinalityType
  <2> HIDE DEF C
  <2>4. n \in T /\ T \in SUBSET Nat
    BY <1>1, <2>2, <2>3, FS_CardinalityType, <1>2
  <2>5. PICK i \in T : \A j \in T : i <= j
    BY <2>4, Least
  <2>6. i \in Nat /\ i <= n /\ C(i) >= m /\ i # 0
    BY <1>1, <2>2, <2>3, <2>5
  <2>7. i - 1 \in Nat /\ i - 1 \notin T
    BY <2>5, <2>6
  <2>8. C(i - 1) < m /\ C(i) \in Nat /\ C(i - 1) \in Nat
    <3>1. C(i) \in Nat /\ C(i - 1) \in Nat
      BY <1>3, <2>6, <2>7
    <3>2. i - 1 \in 0 .. n
      BY <1>1, <2>6
    <3>3. ~(C(i - 1) >= m)
      BY <2>7, <3>2
    <3> QED
      BY <2>3, <3>1, <3>3
  <2>9. i \in kept
    <3> SUFFICES ASSUME i \notin kept
                 PROVE  FALSE
      OBVIOUS
    <3>1. Upto(i) = Upto(i - 1)
      BY <1>1, <2>6
    <3>2. C(i) = C(i - 1)
      BY <3>1 DEF C
    <3> QED
      BY <2>6, <2>8, <2>3, <3>2
  <2>10. Upto(i) = Upto(i - 1) \cup {i} /\ i \notin Upto(i - 1)
    BY <1>1, <2>6, <2>9
  <2>11. C(i) = C(i - 1) + 1
    BY <1>3, <2>7, <2>10, FS_AddElement DEF C
  <2>12. C(i) = m
    BY <2>3, <2>6, <2>8, <2>11
  <2> QED
    BY <2>9, <2>12
<1>5. ASSUME NEW m \in 1 .. Cardinality(kept)
      PROVE  l[CHOOSE i \in kept : C(i) = m] \in S
  <2>1. (CHOOSE i \in kept : C(i) = m) \in kept
    BY <1>4
  <2> QED
    BY <1>1, <2>1
<1>6. Cardinality(kept) \in Nat
  BY <1>2, FS_CardinalityType
<1>7. Without(l, gone) = [m \in 1 .. Cardinality(kept) |-> l[CHOOSE i \in kept : C(i) = m]]
  BY DEF Without
<1> DEFINE at(m) == l[CHOOSE i \in kept : C(i) = m]
<1>8. \A m \in 1 .. Cardinality(kept) : at(m) \in S
  BY <1>5
<1>9. Without(l, gone) = [m \in 1 .. Cardinality(kept) |-> at(m)]
  BY <1>7
<1> HIDE DEF at
<1>10. [m \in 1 .. Cardinality(kept) |-> at(m)] \in [1 .. Cardinality(kept) -> S]
  BY <1>8
<1> QED
  BY <1>6, <1>9, <1>10

-----------------------------------------------------------------------------
(* The fields of a container *)

\* What an array can hold, and a field.
Array(a) == {s \in Seq(Word) : Len(s) <= MaxOf[a] /\ Len(s) % Entry[a] = 0}
FieldType(f) ==
  IF f \in Bools \cup UnstoredBools THEN BOOLEAN
  ELSE IF f \in Ints THEN Int
  ELSE IF f \in Arrays THEN Array(f)
  ELSE IF f = "drop_caplist" THEN Seq(Caps)
  ELSE Word \cup {NULL}
IsContainer(c) ==
  /\ c = [f \in Fields |-> c[f]]
  /\ \A f \in Fields : c[f] \in FieldType(f)

Others == Strings \cup {"ns_pid", "timeout", "pid_file"}

\* Every field is of one sort.
LEMMA Sorts ==
  /\ Fields = Bools \cup UnstoredBools \cup Ints \cup Arrays \cup {"drop_caplist"} \cup Others
  /\ Stored = Fields \ Unstored
  /\ \A f \in Bools \cup UnstoredBools : FieldType(f) = BOOLEAN
  /\ \A f \in Ints : FieldType(f) = Int
  /\ \A f \in Arrays : FieldType(f) = Array(f)
  /\ FieldType("drop_caplist") = Seq(Caps)
  /\ \A f \in Others : FieldType(f) = Word \cup {NULL}
<1>1. Arrays = {"command", "extra_mountpoint", "extra_ro_mountpoint", "env", "char_devs",
                "deny_syscall", "masked_path"}
  BY DEF Arrays, Entry
<1>2. Fields = Bools \cup UnstoredBools \cup Ints \cup Arrays \cup {"drop_caplist"} \cup Others
  BY DEF Fields, Stored, Unstored, Others
<1>3. Stored = Fields \ Unstored
  BY <1>1 DEF Fields, Stored, Unstored, UnstoredBools, Bools, Ints, Strings
<1>4. \A f \in Bools \cup UnstoredBools : FieldType(f) = BOOLEAN
  BY DEF FieldType
<1>5. \A f \in Ints : FieldType(f) = Int
  <2>1. \A f \in Ints : f \notin Bools \cup UnstoredBools
    BY DEF Ints, Bools, UnstoredBools
  <2> QED
    BY <2>1 DEF FieldType
<1>6. \A f \in Arrays : FieldType(f) = Array(f)
  <2>1. \A f \in Arrays : f \notin Bools \cup UnstoredBools \cup Ints
    BY <1>1 DEF Ints, Bools, UnstoredBools
  <2> QED
    BY <2>1 DEF FieldType
<1>7. FieldType("drop_caplist") = Seq(Caps)
  <2>1. "drop_caplist" \notin Bools \cup UnstoredBools \cup Ints \cup Arrays
    BY <1>1 DEF Ints, Bools, UnstoredBools
  <2> QED
    BY <2>1 DEF FieldType
<1>8. \A f \in Others : FieldType(f) = Word \cup {NULL}
  <2>1. \A f \in Others :
          f \notin Bools \cup UnstoredBools \cup Ints \cup Arrays \cup {"drop_caplist"}
    BY <1>1 DEF Ints, Bools, UnstoredBools, Others, Strings
  <2> QED
    BY <2>1 DEF FieldType
<1> QED
  BY <1>2, <1>3, <1>4, <1>5, <1>6, <1>7, <1>8

\* The fields that the code names.
LEMMA Named ==
  /\ {"container_dir", "user", "rootfs_source", "cpuset", "memory", "cross_arch", "qemu_path",
      "work_dir", "hostname", "ns_pid", "timeout", "pid_file"} \subseteq Others
  /\ {"enable_unshare", "rootless", "use_rurienv", "ro_root", "no_network"} \subseteq Bools
  /\ {"hidepid", "oom_score_adj", "cpupercent", "timens_monotonic_offset",
      "timens_realtime_offset"} \subseteq Ints
  /\ Arrays = {"command", "extra_mountpoint", "extra_ro_mountpoint", "env", "char_devs",
               "deny_syscall", "masked_path"}
  /\ \A a \in Arrays : MaxOf[a] \in Nat /\ MaxOf[a] % Entry[a] = 0 /\ Entry[a] \in 1 .. 3
  /\ DOMAIN Behind = {"char_devs", "deny_syscall"}
  /\ Behind["char_devs"] = "hidepid" /\ Behind["deny_syscall"] = "oom_score_adj"
<1>1. \A a \in Arrays : MaxOf[a] \in Nat /\ MaxOf[a] % Entry[a] = 0
  BY ConfigAssumption
<1>2. \A a \in Arrays : Entry[a] \in 1 .. 3
  BY DEF Arrays, Entry
<1> QED
  BY <1>1, <1>2 DEF Others, Strings, Bools, Ints, Arrays, Entry, Behind

\* A field takes a value of its type.
LEMMA SetField ==
  ASSUME NEW c, IsContainer(c), NEW f \in Fields, NEW v \in FieldType(f)
  PROVE  /\ IsContainer([c EXCEPT ![f] = v])
         /\ [c EXCEPT ![f] = v][f] = v
         /\ \A g \in Fields \ {f} : [c EXCEPT ![f] = v][g] = c[g]
BY DEF IsContainer

\* Writing the end mark of an array leaves all but the number behind it.
LEMMA EndMarkIs ==
  ASSUME NEW c, IsContainer(c), NEW a \in Arrays
  PROVE  /\ IsContainer(EndMark(c, a))
         /\ \A f \in Fields : f \notin {"hidepid", "oom_score_adj"} => EndMark(c, a)[f] = c[f]
<1>1. CASE Len(c[a]) >= Slots(a) /\ a \in DOMAIN Behind
  <2>1. EndMark(c, a) = [c EXCEPT ![Behind[a]] = 0]
    BY <1>1 DEF EndMark
  <2>2. Behind[a] \in {"hidepid", "oom_score_adj"}
    BY <1>1, Named
  <2>3. Behind[a] \in Fields /\ 0 \in FieldType(Behind[a])
    BY <2>2, Named, Sorts
  <2>4. 0 \in FieldType(Behind[a])
    BY <2>3
  <2>5. /\ IsContainer([c EXCEPT ![Behind[a]] = 0])
        /\ \A g \in Fields \ {Behind[a]} : [c EXCEPT ![Behind[a]] = 0][g] = c[g]
    BY <2>3, <2>4, SetField
  <2> QED
    BY <2>1, <2>2, <2>5
<1>2. CASE ~(Len(c[a]) >= Slots(a) /\ a \in DOMAIN Behind)
  BY <1>2 DEF EndMark
<1> QED
  BY <1>1, <1>2

\* Its values are those that TypeOK speaks of.
LEMMA ContainerIsWellTyped ==
  ASSUME NEW c, IsContainer(c)
  PROVE  WellTyped(c)
<1>1. DOMAIN c = Fields /\ \A f \in Fields : c[f] \in FieldType(f)
  BY DEF IsContainer
<1>2. \A a \in Arrays : c[a] \in Array(a)
  BY <1>1, Sorts
<1>3. \A a \in Arrays : Len(c[a]) <= MaxOf[a] /\ Len(c[a]) % Entry[a] = 0 /\ Len(c[a]) \in Nat
  BY <1>2 DEF Array
<1>4. ASSUME NEW a \in Arrays \ DOMAIN Behind
      PROVE  HasEndMark(c, a)
  <2>1. Slots(a) > MaxOf[a] /\ Slots(a) \in Nat
    BY Named DEF Slots
  <2>2. MaxOf[a] \in Nat /\ Len(c[a]) \in Nat /\ Len(c[a]) <= MaxOf[a]
    BY <1>3, Named
  <2>3. Len(c[a]) < Slots(a)
    BY <2>1, <2>2
  <2> QED
    BY <2>3 DEF HasEndMark
<1>5. (\A f \in Bools \cup UnstoredBools : c[f] \in BOOLEAN) /\ \A f \in Ints : c[f] \in Int
  BY <1>1, Sorts
<1>6. c["drop_caplist"] \in Seq(Caps)
  BY <1>1, Sorts
<1> QED
  BY <1>1, <1>3, <1>4, <1>5, <1>6 DEF WellTyped

\* ruri_init_config() makes a container.
LEMMA DefaultIs ==
  ASSUME NEW noise \in BOOLEAN
  PROVE  /\ IsContainer(ruri_init_config(noise))
         /\ ruri_init_config(noise)["user"] = NULL
         /\ ruri_init_config(noise)["drop_caplist"] = DefaultCaps
<1> DEFINE c == ruri_init_config(noise)
<1>1. c = [f \in Fields |-> Default(f, noise)]
  BY DEF ruri_init_config
<1>2. ASSUME NEW f \in Bools \cup UnstoredBools
      PROVE  Default(f, noise) \in BOOLEAN
  BY <1>2, Named DEF Default, Bools, UnstoredBools, Ints, Strings
<1>3. ASSUME NEW f \in Ints
      PROVE  Default(f, noise) \in Int
  <2>1. f \in {"hidepid", "cpupercent"} \/ f \in Ints \ {"hidepid", "cpupercent"}
    BY <1>3
  <2>2. f # "no_network" /\ f # "use_rurienv" /\ f # "ns_pid"
    BY <1>3 DEF Ints
  <2>3. Default(f, noise) \in {Unset, 0}
    BY <2>1, <2>2, Named DEF Default, Ints, Strings
  <2> QED
    BY <2>3 DEF Unset
<1>4. ASSUME NEW f \in Arrays
      PROVE  Default(f, noise) \in Array(f)
  <2>1. Default(f, noise) = <<>>
    BY <1>4, Named DEF Default, Ints, Strings
  <2> QED
    BY <2>1, Named DEF Array
<1>5. Default("drop_caplist", noise) \in Seq(Caps)
  BY Named, ConfigAssumption DEF Default, Ints, Strings
<1>6. ASSUME NEW f \in Others
      PROVE  Default(f, noise) \in Word \cup {NULL}
  <2>1. CASE f \in Strings \cup {"pid_file"}
    BY <2>1, Named DEF Default, Strings, Ints
  <2>2. CASE f = "ns_pid"
    <3>1. Default(f, noise) = Unset
      BY <2>2, Named DEF Default, Ints, Strings
    <3> QED
      BY <3>1 DEF Unset, Word
  <2>3. CASE f = "timeout"
    <3>1. Default(f, noise) = -1
      BY <2>3, Named DEF Default, Ints, Strings
    <3> QED
      BY <3>1 DEF Word
  <2> QED
    BY <1>6, <2>1, <2>2, <2>3 DEF Others
<1>7. Default("user", noise) = NULL
  BY Named DEF Default, Ints, Strings
<1>10. Default("drop_caplist", noise) = DefaultCaps
  BY Named DEF Default, Ints, Strings
<1>8. \A f \in Fields : Default(f, noise) \in FieldType(f)
  BY <1>2, <1>3, <1>4, <1>5, <1>6, Sorts
<1>9. "user" \in Fields /\ "drop_caplist" \in Fields
  BY Named, Sorts
<1> QED
  BY <1>1, <1>10, <1>7, <1>8, <1>9 DEF IsContainer

-----------------------------------------------------------------------------
(* Config files *)

\* The file of a container has its stored fields, and is one that -c accepts.
LEMMA InfoIs ==
  ASSUME NEW c, IsContainer(c)
  PROVE  /\ InfoToK2v(c) = [k \in Stored |-> c[k]]
         /\ IsFile(InfoToK2v(c)) /\ InfoToK2v(c) # NoFile /\ Accepts(InfoToK2v(c))
<1> DEFINE f == InfoToK2v(c)
<1>1. f = [k \in Stored |-> c[k]]
  <2>1. \A k \in Stored :
          k \notin Bools \cup Strings \cup Ints => k \in Arrays \cup {"drop_caplist"}
    BY DEF Stored
  <2> QED
    BY <2>1 DEF InfoToK2v, Scalars, Listed
<1>2. Stored \subseteq Fields /\ \A k \in Stored : c[k] \in FieldType(k)
  BY Sorts DEF IsContainer
<1> HIDE DEF f
<1>3. /\ \A k \in Bools : f[k] \in BOOLEAN
      /\ \A k \in Strings : f[k] \in Word \cup {NULL}
      /\ \A k \in Ints : f[k] \in Int
      /\ \A k \in Arrays : f[k] \in Array(k)
      /\ f["drop_caplist"] \in Seq(Caps)
  BY <1>1, <1>2, Sorts DEF Stored, Others
<1>4. \A k \in Arrays : f[k] \in Seq(Word) /\ Len(f[k]) <= MaxOf[k] /\ Len(f[k]) % Entry[k] = 0
  BY <1>3 DEF Array
<1>5. IsFile(f)
  <2>1. f["drop_caplist"] \in Seq(Caps \cup {UnknownCap})
    BY <1>3
  <2>2. Longs \subseteq Ints
    BY DEF Longs, Ints
  <2>3. \A k \in Longs : f[k] # TooLarge
    BY <1>3, <2>2, ConfigAssumption
  <2> QED
    BY <1>1, <1>3, <1>4, <2>1, <2>3 DEF IsFile
<1>6. f # NoFile
  <2>1. \A k \in Stored : c[k] \in Value
    BY <1>1, <1>3, <1>4 DEF Stored, Value, Word
  <2>2. f \in [Stored -> Value]
    BY <1>1, <2>1
  <2> QED
    BY <2>2, NoFileAssumption
<1>7. Accepts(f)
  <2>1. KeyList \subseteq DOMAIN f /\ ReadKeys \subseteq DOMAIN f
    BY <1>1 DEF KeyList, ReadKeys
  <2>2. \A i \in DOMAIN f["drop_caplist"] : f["drop_caplist"][i] \in Caps
    BY <1>3
  <2>3. \A k \in Ints : f[k] # Garbled /\ f[k] # TooLarge
    BY <1>3, ConfigAssumption
  <2>4. Longs \subseteq Ints
    BY DEF Longs, Ints
  <2> QED
    BY <1>3, <1>4, <1>6, <2>1, <2>2, <2>3, <2>4 DEF Accepts
<1> QED
  BY <1>1, <1>5, <1>6, <1>7 DEF f

\* What ruri_read_config() takes of a file that -c accepts.
LEMMA TakeConfigIs ==
  ASSUME NEW c, IsContainer(c), NEW f, IsFile(f), Accepts(f)
  PROVE  IsContainer(TakeConfig(c, f))
<1> DEFINE t == TakeConfig(c, f)
<1>1. t = [k \in Fields |-> IF /\ k \in ReadKeys /\ (k = "user" => c["user"] = NULL)
                               /\ k = "drop_caplist" => f[k] # <<>>
                            THEN Read(f, k) ELSE c[k]]
  BY DEF TakeConfig
<1>2. ReadKeys \subseteq DOMAIN f /\ ReadKeys \subseteq Stored
  BY DEF Accepts, ReadKeys
<1>3. ASSUME NEW k \in ReadKeys
      PROVE  Read(f, k) \in FieldType(k)
  <2>1. k \in DOMAIN f /\ k \in Stored
    BY <1>2
  <2>2. CASE k \in Bools
    <3>1. Read(f, k) = f[k]
      BY <2>2 DEF Read, Bools, Ints
    <3> QED
      BY <1>3, <2>2, <3>1, Sorts DEF Accepts
  <2>3. CASE k \in Strings
    <3>1. Read(f, k) = f[k]
      BY <2>3 DEF Read, Strings, Ints
    <3> QED
      BY <2>1, <2>3, <3>1, Sorts DEF IsFile, Others
  <2>4. CASE k \in Ints
    <3>1. f[k] \in Int \cup {Garbled, TooLarge}
      BY <2>1, <2>4 DEF IsFile
    <3>2. Read(f, k) \in Int
      BY <2>4, <3>1, ConfigAssumption DEF Read
    <3> QED
      BY <2>4, <3>2, Sorts
  <2>5. CASE k \in Arrays
    <3>1. Read(f, k) = f[k]
      BY <2>5, Named DEF Read, Ints
    <3>2. f[k] \in Seq(Word)
      BY <2>1, <2>5 DEF IsFile
    <3> QED
      BY <2>5, <3>1, <3>2, Sorts DEF Accepts, Array
  <2>6. CASE k = "drop_caplist"
    <3>1. Read(f, k) = f[k]
      BY <2>6 DEF Read, Ints
    <3>2. f["drop_caplist"] \in Seq(Caps \cup {UnknownCap})
      BY <2>1, <2>6 DEF IsFile
    <3>3. \A i \in DOMAIN f["drop_caplist"] : f["drop_caplist"][i] \in Caps
      BY DEF Accepts
    <3>4. f["drop_caplist"] \in Seq(Caps)
      BY <3>2, <3>3
    <3> QED
      BY <2>6, <3>1, <3>4, Sorts
  <2> QED
    BY <2>1, <2>2, <2>3, <2>4, <2>5, <2>6 DEF Stored
<1>4. \A k \in Fields : c[k] \in FieldType(k)
  BY DEF IsContainer
<1> QED
  BY <1>1, <1>3, <1>4 DEF IsContainer

\* -c makes a container of a container.
LEMMA ReadConfigIs ==
  ASSUME NEW c, IsContainer(c), NEW f, IsFile(f), Accepts(f)
  PROVE  IsContainer(ReadConfig(c, f))
<1>1. IsContainer(TakeConfig(c, f))
  BY TakeConfigIs
<1>2. IsContainer(EndMark(TakeConfig(c, f), "char_devs"))
  BY <1>1, EndMarkIs, Named
<1>3. IsContainer(EndMark(EndMark(TakeConfig(c, f), "char_devs"), "deny_syscall"))
  BY <1>2, EndMarkIs, Named
<1> QED
  BY <1>3 DEF ReadConfig

\* What a field is when it is read back.
Back(c, k) == IF k = "drop_caplist" /\ c[k] = <<>> THEN DefaultCaps ELSE c[k]

\* What is stored is read back, but enable_unshare: the end marks are where they were.
LEMMA ReadBack ==
  ASSUME NEW c, IsContainer(c), Readable(c), NEW noise \in BOOLEAN
  PROVE  LET r == ReadConfig(ruri_init_config(noise), InfoToK2v(c)) IN
         \A k \in Stored \ {"enable_unshare"} : r[k] = Back(c, k)
<1> DEFINE d == ruri_init_config(noise)
           f == InfoToK2v(c)
           t == TakeConfig(d, f)
           u == EndMark(t, "char_devs")
           v == EndMark(u, "deny_syscall")
<1>1. IsContainer(d) /\ d["user"] = NULL /\ d["drop_caplist"] = DefaultCaps
  BY DefaultIs
<1>2. f = [k \in Stored |-> c[k]] /\ IsFile(f) /\ Accepts(f)
  BY InfoIs
<1>3. IsContainer(t)
  BY <1>1, <1>2, TakeConfigIs
<1>4. ASSUME NEW k \in Stored \ {"enable_unshare"}
      PROVE  t[k] = Back(c, k)
  <2>1. k \in ReadKeys /\ k \in Fields
    BY Sorts DEF ReadKeys
  <2>2. t[k] = IF k = "drop_caplist" /\ f[k] = <<>> THEN d[k] ELSE Read(f, k)
    BY <1>1, <2>1 DEF TakeConfig
  <2>3. k \in Ints => c[k] \in Int
    BY <2>1, Sorts DEF IsContainer
  <2>4. f[k] = c[k]
    BY <1>2
  <2>5. Read(f, k) = c[k]
    BY <2>3, <2>4, ConfigAssumption DEF Read
  <2> QED
    BY <1>1, <2>2, <2>4, <2>5 DEF Back
<1>5. HasEndMark(c, "char_devs") /\ HasEndMark(c, "deny_syscall")
  BY Named DEF Readable
<1>6. {"char_devs", "deny_syscall", "hidepid", "oom_score_adj"}
        \subseteq Stored \ {"enable_unshare"}
  BY Named DEF Stored, Ints
<1>7. \A a \in Arrays : Slots(a) \in Nat
  BY Named DEF Slots
<1>8. \A a \in {"char_devs", "deny_syscall"} : Len(c[a]) \in Nat
  BY Named, Sorts DEF IsContainer, Array
<1>9. Len(c["char_devs"]) >= Slots("char_devs") => c["hidepid"] = 0
  BY <1>5, <1>7, <1>8, Named DEF HasEndMark
<1>10. Len(c["deny_syscall"]) >= Slots("deny_syscall") => c["oom_score_adj"] = 0
  BY <1>5, <1>7, <1>8, Named DEF HasEndMark
<1> HIDE DEF d, f, t
<1>16. \A k \in {"char_devs", "deny_syscall", "hidepid", "oom_score_adj"} : Back(c, k) = c[k]
  BY DEF Back
<1>11. DOMAIN t = Fields
  BY <1>3 DEF IsContainer
<1>12. \A k \in Stored \ {"enable_unshare"} : u[k] = Back(c, k)
  BY <1>16, <1>4, <1>6, <1>9, <1>11, Named, Sorts DEF EndMark
<1>13. IsContainer(u)
  BY <1>3, Named, EndMarkIs
<1>14. DOMAIN u = Fields
  BY <1>13 DEF IsContainer
<1> HIDE DEF u
<1>15. \A k \in Stored \ {"enable_unshare"} : v[k] = Back(c, k)
  BY <1>16, <1>12, <1>6, <1>10, <1>14, Named, Sorts DEF EndMark
<1> QED
  BY <1>15 DEF ReadConfig, u, t, f, d

\* ruri -C leaves no unknown capability in the list: behind the last one there is none,
\* and what is written over those before it is the default.
LEMMA CorrectCapsIs ==
  ASSUME NEW l \in Seq(Caps \cup {UnknownCap})
  PROVE  CorrectCaps(l) \in Seq(Caps)
<1> DEFINE unknown == {i \in DOMAIN l : l[i] \notin Caps}
           last == CHOOSE i \in unknown : \A j \in unknown : j <= i
<1>1. Len(l) \in Nat /\ DOMAIN l = 1 .. Len(l) /\ DefaultCaps \in Seq(Caps)
  BY ConfigAssumption
<1>4. CASE l = <<>>
  BY <1>1, <1>4 DEF CorrectCaps
<1>2. CASE l # <<>> /\ unknown = {}
  <2>1. CorrectCaps(l) = l
    BY <1>2 DEF CorrectCaps
  <2>2. \A i \in 1 .. Len(l) : l[i] \in Caps
    BY <1>1, <1>2
  <2> QED
    BY <2>1, <2>2
<1>3. CASE l # <<>> /\ unknown # {}
  <2>1. unknown \in SUBSET (1 .. Len(l))
    BY <1>1
  <2>2. \E i \in unknown : \A j \in unknown : j <= i
    BY <1>1, <1>3, <2>1, Greatest
  <2>3. last \in unknown /\ \A j \in unknown : j <= last
    BY <2>2
  <2>4. CorrectCaps(l) = IF last > Len(DefaultCaps) THEN DefaultCaps
                         ELSE SubSeq(DefaultCaps, 1, last) \o SubSeq(l, last + 1, Len(l))
    BY <1>3 DEF CorrectCaps
  <2>5. last \in 1 .. Len(l) /\ \A i \in last + 1 .. Len(l) : l[i] \in Caps
    <3>1. last \in 1 .. Len(l)
      BY <2>1, <2>3
    <3>2. ASSUME NEW i \in last + 1 .. Len(l)
          PROVE  l[i] \in Caps
      <4>1. i \in DOMAIN l /\ ~(i <= last)
        BY <1>1, <3>1
      <4> QED
        BY <2>3, <4>1
    <3> QED
      BY <3>1, <3>2
  <2> HIDE DEF last, unknown
  <2>6. CASE last > Len(DefaultCaps)
    BY <1>1, <2>4, <2>6
  <2>7. CASE ~(last > Len(DefaultCaps))
    <3>1. last <= Len(DefaultCaps) /\ Len(DefaultCaps) \in Nat
      BY <1>1, <2>5, <2>7
    <3> DEFINE front == SubSeq(DefaultCaps, 1, last)
               back == SubSeq(l, last + 1, Len(l))
    <3>2. front \in Seq(Caps)
      BY <1>1, <2>5, <3>1
    <3>3. last + 1 \in Int /\ Len(l) \in Int
      BY <1>1, <2>5
    <3>4. back \in Seq(Caps)
      BY <2>5, <3>3, SubSeqProperties
    <3> HIDE DEF front, back
    <3>5. front \o back \in Seq(Caps)
      BY <3>2, <3>4
    <3> QED
      BY <2>4, <2>7, <3>5 DEF front, back
  <2> QED
    BY <2>6, <2>7
<1> QED
  BY <1>2, <1>3, <1>4

\* ... and no array that is too long or ends in the middle of an entry.
LEMMA CorrectArrayIs ==
  ASSUME NEW f, IsFile(f), NEW a \in Arrays, a \in DOMAIN f
  PROVE  CorrectArray(f, a) \in Array(a)
<1>1. f[a] \in Seq(Word) /\ MaxOf[a] \in Nat
  BY Named DEF IsFile
<1>2. <<>> \in Array(a)
  BY Named DEF Array
<1>3. CASE Len(f[a]) <= MaxOf[a]
  BY <1>1, <1>2, <1>3 DEF CorrectArray, Array
<1>4. CASE ~(Len(f[a]) <= MaxOf[a])
  <2> DEFINE s == SubSeq(f[a], 1, MaxOf[a])
  <2>1. MaxOf[a] <= Len(f[a])
    BY <1>1, <1>4
  <2>2. s \in Seq(Word) /\ Len(s) = MaxOf[a]
    BY <1>1, <2>1
  <2>3. s \in Array(a)
    BY <1>1, <2>2, Named DEF Array
  <2>4. CorrectArray(f, a) \in {s, <<>>}
    BY <1>4 DEF CorrectArray
  <2> QED
    BY <1>2, <2>3, <2>4
<1> QED
  BY <1>3, <1>4

\* ruri -C makes a container of any file.
LEMMA CorrectedIs ==
  ASSUME NEW f, IsFile(f)
  PROVE  IsContainer(Corrected(f))
<1> DEFINE d == ruri_init_config(FALSE)
           r == [k \in Fields |-> IF k \in CorrectedKeys \cap DOMAIN f
                                  THEN CorrectValue(f, k) ELSE Default(k, FALSE)]
<1>1. IsContainer(d)
  BY DefaultIs
<1>2. \A k \in Fields : Default(k, FALSE) \in FieldType(k)
  BY <1>1 DEF IsContainer, ruri_init_config
<1>3. ASSUME NEW k \in DOMAIN f
      PROVE  CorrectValue(f, k) \in FieldType(k)
  <2>1. k \in Stored
    BY DEF IsFile
  <2>2. CASE k \in Bools
    <3>1. CorrectValue(f, k) = (f[k] = TRUE)
      BY <2>2, Named DEF CorrectValue, Bools, Ints
    <3> QED
      BY <2>2, <3>1, Sorts
  <2>3. CASE k \in Strings
    <3>1. CorrectValue(f, k) = f[k]
      BY <2>3, Named DEF CorrectValue, Bools, Strings, Ints
    <3> QED
      BY <2>3, <3>1, Sorts DEF IsFile, Others
  <2>4. CASE k \in Ints
    <3>1. CorrectValue(f, k) = Read(f, k)
      BY <2>4, Named DEF CorrectValue, Bools, Ints
    <3>2. f[k] \in Int \cup {Garbled, TooLarge}
      BY <2>4 DEF IsFile
    <3>3. Read(f, k) \in Int
      BY <2>4, <3>2, ConfigAssumption DEF Read
    <3> QED
      BY <2>4, <3>1, <3>3, Sorts
  <2>5. CASE k \in Arrays
    <3>1. CorrectValue(f, k) = CorrectArray(f, k)
      BY <2>5, Named DEF CorrectValue, Bools, Ints
    <3> QED
      BY <2>5, <3>1, CorrectArrayIs, Sorts
  <2>6. CASE k = "drop_caplist"
    <3>1. CorrectValue(f, k) = CorrectCaps(f[k])
      BY <2>6, Named DEF CorrectValue, Bools, Ints
    <3>2. f[k] \in Seq(Caps \cup {UnknownCap})
      BY <2>6 DEF IsFile
    <3> QED
      BY <2>6, <3>1, <3>2, CorrectCapsIs, Sorts
  <2> QED
    BY <2>1, <2>2, <2>3, <2>4, <2>5, <2>6 DEF Stored
<1>4. \A k \in Fields : r[k] \in FieldType(k)
  BY <1>2, <1>3
<1> DEFINE b == r["enable_unshare"] \/ r["no_network"]
<1>5. Corrected(f) = [r EXCEPT !["enable_unshare"] = b]
  BY DEF Corrected
<1>6. IsContainer(r)
  BY <1>4 DEF IsContainer
<1>7. PICK v \in BOOLEAN : v = b
  OBVIOUS
<1>8. Corrected(f) = [r EXCEPT !["enable_unshare"] = v]
  BY <1>5, <1>7
<1> HIDE DEF r, b
<1>9. v \in FieldType("enable_unshare")
  BY Named, Sorts
<1>10. "enable_unshare" \in Fields
  BY Named, Sorts
<1>11. IsContainer([r EXCEPT !["enable_unshare"] = v])
  BY <1>6, <1>9, <1>10, SetField
<1> QED
  BY <1>8, <1>11

-----------------------------------------------------------------------------
(* The inductive invariant *)

Local == [even_unstable : BOOLEAN, privileged : BOOLEAN, dump_config : BOOLEAN,
          background : BOOLEAN, fork_exec : BOOLEAN, output_path : BOOLEAN,
          use_config_file : BOOLEAN, keep : Seq(Caps), drop : Seq(Caps),
          at : {"top", "chain", "over"}]

\* Whatever has been parsed and read, the container is one; a list that is dumped can
\* be walked, and a file that is corrected is accepted.
IInv ==
  /\ phase \in Ended \cup {"args", "parsed"}
  /\ IsContainer(container)
  /\ local \in Local
  /\ file = NoFile \/ IsFile(file)
  /\ words \in 0 .. MaxWords /\ edits \in 0 .. MaxEdits
  /\ phase = "dumped" => Readable(container)
  /\ phase = "corrected" => Accepts(file)

\* What a word makes of them.
IsOutcome(e) ==
  /\ IsContainer(e.container) /\ e.local \in Local
  /\ e.phase \in {"args", "parsed", "refused", "crashed", "done"}

\* An outcome takes their place.
LEMMA Becomes ==
  ASSUME IInv, NEW e, IsOutcome(e), Become(e), UNCHANGED <<file, edits>>,
         words' \in 0 .. MaxWords
  PROVE  IInv'
BY DEF IInv, IsOutcome, Become, Ended

\* A word more.
LEMMA WordsMore ==
  ASSUME IInv, NEW w, Reads(w)
  PROVE  words' \in 0 .. MaxWords
BY ArgumentsAssumption DEF IInv, Reads

\* The ends of parse_args().
LEMMA OutcomesAre ==
  ASSUME IInv, NEW w
  PROVE  /\ \A p \in {"refused", "crashed", "done"} : IsOutcome(Ends(p))
         /\ \A c : IsContainer(c) => IsOutcome(Sets(w, c))
         /\ \A l \in Local : IsOutcome(Notes(w, l))
<1>1. \A l \in Local : [l EXCEPT !.at = "top"] \in Local
  BY DEF Local
<1>2. Goes(w) \in {"args", "parsed"}
  BY DEF Goes
<1>3. ASSUME NEW c, IsContainer(c), NEW l \in Local,
             NEW p \in {"args", "parsed", "refused", "crashed", "done"}
      PROVE  IsOutcome(Outcome(c, l, p))
  BY <1>1, <1>3 DEF Outcome, IsOutcome
<1>4. IsContainer(container) /\ local \in Local
  BY DEF IInv
<1>5. \A p \in {"refused", "crashed", "done"} : IsOutcome(Ends(p))
  BY <1>3, <1>4 DEF Ends
<1>6. \A c : IsContainer(c) => IsOutcome(Sets(w, c))
  BY <1>2, <1>3, <1>4 DEF Sets
<1>7. \A l \in Local : IsOutcome(Notes(w, l))
  BY <1>2, <1>3, <1>4 DEF Notes
<1> QED
  BY <1>5, <1>6, <1>7

\* A setting is changed.
LEMMA SetsField ==
  ASSUME IInv, NEW w, NEW f \in Fields, NEW v \in FieldType(f)
  PROVE  IsOutcome(Sets(w, [container EXCEPT ![f] = v]))
<1>1. IsContainer([container EXCEPT ![f] = v])
  BY SetField DEF IInv
<1> QED
  BY <1>1, OutcomesAre

-----------------------------------------------------------------------------
(* What the options do *)

\* The options that set a field, and which.
LEMMA Options ==
  /\ DOMAIN AloneFlags = {"n", "A", "s", "u", "r", "g", "w", "j", "S", "R", "x", "K"}
  /\ DOMAIN LateFlags = {"z", "y", "auto_umount", "umount_on_panic", "strict_mode",
                         "health_check", "enable_seccomp_whitelist", "fork_as_init"}
  /\ DOMAIN CombinedFlags = DOMAIN AloneFlags
  /\ DOMAIN CombinedLateFlags = {"z", "y"}
  /\ DOMAIN AloneValues = {"t", "E", "a", "q", "W", "i", "O", "J", "pid_file", "timeout"}
  /\ DOMAIN CombinedValues = DOMAIN AloneValues \ {"pid_file", "timeout"}
  /\ DOMAIN AloneArrays = {"Q", "e", "m", "M", "I", "X"}
  /\ DOMAIN CombinedArrays = DOMAIN AloneArrays
  /\ \A o \in DOMAIN AloneFlags : AloneFlags[o] \subseteq Bools \cup UnstoredBools
  /\ \A o \in DOMAIN LateFlags : LateFlags[o] \subseteq Bools \cup UnstoredBools
  /\ \A o \in DOMAIN CombinedFlags : CombinedFlags[o] \subseteq Bools \cup UnstoredBools
  /\ \A o \in DOMAIN CombinedLateFlags : CombinedLateFlags[o] = LateFlags[o]
  /\ \A o \in DOMAIN CombinedFlags : o # "x" => CombinedFlags[o] = AloneFlags[o]
  /\ \A o \in DOMAIN CombinedValues : CombinedValues[o] = AloneValues[o]
  /\ \A o \in DOMAIN CombinedArrays : CombinedArrays[o] = AloneArrays[o]
  /\ \A o \in DOMAIN AloneValues : AloneValues[o] \in IF o = "i" \/ o = "O" THEN Ints ELSE Others
  /\ \A o \in DOMAIN AloneArrays :
       AloneArrays[o] \in Arrays /\ Entry[AloneArrays[o]] = Arity(o)
<1>1. \A o \in DOMAIN AloneFlags : AloneFlags[o] \subseteq Bools \cup UnstoredBools
  BY DEF AloneFlags, Bools, UnstoredBools
<1>2. \A o \in DOMAIN LateFlags : LateFlags[o] \subseteq Bools \cup UnstoredBools
  BY DEF LateFlags, Bools, UnstoredBools
<1>3. \A o \in DOMAIN CombinedFlags : CombinedFlags[o] \subseteq Bools \cup UnstoredBools
  BY DEF CombinedFlags, Bools, UnstoredBools
<1>4. \A o \in DOMAIN CombinedLateFlags : CombinedLateFlags[o] = LateFlags[o]
  BY DEF CombinedLateFlags, LateFlags
<1>5. ASSUME NEW o \in DOMAIN CombinedFlags, o # "x"
      PROVE  CombinedFlags[o] = AloneFlags[o]
  <2>1. CombinedFlags["n"] = AloneFlags["n"]
    BY DEF CombinedFlags, AloneFlags
  <2>2. CombinedFlags["A"] = AloneFlags["A"]
    BY DEF CombinedFlags, AloneFlags
  <2>3. CombinedFlags["s"] = AloneFlags["s"]
    BY DEF CombinedFlags, AloneFlags
  <2>4. CombinedFlags["u"] = AloneFlags["u"]
    BY DEF CombinedFlags, AloneFlags
  <2>5. CombinedFlags["r"] = AloneFlags["r"]
    BY DEF CombinedFlags, AloneFlags
  <2>6. CombinedFlags["g"] = AloneFlags["g"]
    BY DEF CombinedFlags, AloneFlags
  <2>7. CombinedFlags["w"] = AloneFlags["w"]
    BY DEF CombinedFlags, AloneFlags
  <2>8. CombinedFlags["j"] = AloneFlags["j"]
    BY DEF CombinedFlags, AloneFlags
  <2>9. CombinedFlags["S"] = AloneFlags["S"]
    BY DEF CombinedFlags, AloneFlags
  <2>10. CombinedFlags["R"] = AloneFlags["R"]
    BY DEF CombinedFlags, AloneFlags
  <2>11. CombinedFlags["K"] = AloneFlags["K"]
    BY DEF CombinedFlags, AloneFlags
  <2>12. o \in {"n", "A", "s", "u", "r", "g", "w", "j", "S", "R", "K"}
    BY <1>5 DEF CombinedFlags
  <2> QED
    BY <2>1, <2>2, <2>3, <2>4, <2>5, <2>6, <2>7, <2>8, <2>9, <2>10, <2>11, <2>12
<1>6. \A o \in DOMAIN CombinedValues : CombinedValues[o] = AloneValues[o]
  BY DEF CombinedValues, AloneValues
<1>7. \A o \in DOMAIN CombinedArrays : CombinedArrays[o] = AloneArrays[o]
  BY DEF CombinedArrays, AloneArrays
<1>8. \A o \in DOMAIN AloneValues : AloneValues[o] \in IF o = "i" \/ o = "O" THEN Ints ELSE Others
  BY DEF AloneValues, Ints, Others, Strings
<1>9. \A o \in DOMAIN AloneArrays :
        AloneArrays[o] \in Arrays /\ Entry[AloneArrays[o]] = Arity(o)
  BY DEF AloneArrays, Arrays, Entry, Arity
<1>10. /\ DOMAIN AloneFlags = {"n", "A", "s", "u", "r", "g", "w", "j", "S", "R", "x", "K"}
       /\ DOMAIN LateFlags = {"z", "y", "auto_umount", "umount_on_panic", "strict_mode",
                              "health_check", "enable_seccomp_whitelist", "fork_as_init"}
       /\ DOMAIN CombinedFlags = DOMAIN AloneFlags
       /\ DOMAIN CombinedLateFlags = {"z", "y"}
  BY DEF AloneFlags, LateFlags, CombinedFlags, CombinedLateFlags
<1>11. /\ DOMAIN AloneValues = {"t", "E", "a", "q", "W", "i", "O", "J", "pid_file", "timeout"}
       /\ DOMAIN CombinedValues = DOMAIN AloneValues \ {"pid_file", "timeout"}
       /\ DOMAIN AloneArrays = {"Q", "e", "m", "M", "I", "X"}
       /\ DOMAIN CombinedArrays = DOMAIN AloneArrays
  BY DEF AloneValues, CombinedValues, AloneArrays, CombinedArrays
<1> QED
  BY <1>1, <1>2, <1>3, <1>4, <1>5, <1>6, <1>7, <1>8, <1>9, <1>10, <1>11

\* A word is what it is declared to be.
LEMMA WordIs ==
  ASSUME NEW w \in Words
  PROVE  /\ w \in [opt : STRING, spelled : {"alone", "combined"}, args : Seq(Word), last : BOOLEAN]
         /\ w.args \in Seq(Word) /\ Len(w.args) \in Nat
         /\ \A i \in 1 .. Len(w.args) : w.args[i] \in Word
         /\ w.spelled = "combined" => w.opt \in Letters
BY WordsAssumption

\* An option that is not refused and does not crash has its operands, all but -o and -L.
LEMMA Complete ==
  ASSUME NEW w \in Words, ~Lacks(w), ~Faults(w), w.opt \in Valued
  PROVE  Len(w.args) = Arity(w.opt)
<1>1. w.opt \in {"t", "E", "a", "q", "W", "i", "O", "J", "pid_file", "timeout", "l", "T", "k",
                 "d", "Q", "e", "m", "M", "I", "X"}
  BY Options DEF Valued
<1>2. Len(w.args) <= Arity(w.opt) /\ Len(w.args) \in Nat /\ Arity(w.opt) \in 1 .. 3
  <2>1. Arity(w.opt) \in 1 .. 3
    BY <1>1 DEF Arity
  <2> QED
    BY <1>1, <2>1, WordsAssumption
<1>3. Missing(w) => Lacks(w) \/ Faults(w)
  <2>1. CASE w.opt \in {"i", "O", "J", "q", "pid_file", "timeout"}
    BY <2>1 DEF Faults
  <2>2. CASE w.opt \in {"t", "E", "a", "W", "l", "T", "k", "d", "Q", "e", "m", "M", "I", "X"}
    <3>1. AloneCheck(w.opt) \in {"first", "null"} /\ CombinedCheck(w.opt) \in {"first", "null"}
      BY <2>2 DEF AloneCheck, CombinedCheck
    <3>2. Check(w) \in {"first", "null"}
      BY <3>1 DEF Check
    <3> QED
      BY <3>2 DEF Lacks
  <2> QED
    BY <1>1, <2>1, <2>2
<1> QED
  BY <1>2, <1>3 DEF Missing

\* An option without an operand.
LEMMA FlagEffectIs ==
  ASSUME IInv, NEW w \in Words, w.opt \in Flags
  PROVE  IsOutcome(FlagEffect(w))
<1>1. FlagsOf(w) \subseteq Bools \cup UnstoredBools
  <2>1. w.opt \in DOMAIN AloneFlags \/ w.opt \in DOMAIN LateFlags
    BY DEF Flags
  <2>2. CASE w.spelled = "alone"
    BY <2>1, <2>2, Options DEF FlagsOf
  <2>3. CASE w.spelled # "alone"
    <3>1. w.opt \in Letters
      BY <2>3, WordIs
    <3>2. w.opt \in DOMAIN CombinedFlags \/ w.opt \in DOMAIN CombinedLateFlags
      BY <2>1, <3>1, Options DEF Letters
    <3>3. CASE w.opt \in DOMAIN CombinedFlags
      BY <2>3, <3>3, Options DEF FlagsOf
    <3>4. CASE w.opt \notin DOMAIN CombinedFlags
      BY <2>3, <3>2, <3>4, Options DEF FlagsOf
    <3> QED
      BY <3>3, <3>4
  <2> QED
    BY <2>2, <2>3
<1>2. IsContainer(Marked(container, FlagsOf(w)))
  <2> DEFINE c == Marked(container, FlagsOf(w))
  <2>1. c = [f \in Fields |-> IF f \in FlagsOf(w) THEN TRUE ELSE container[f]]
    BY DEF Marked
  <2>2. \A f \in FlagsOf(w) : TRUE \in FieldType(f)
    BY <1>1, Sorts
  <2>3. \A f \in Fields : container[f] \in FieldType(f)
    BY DEF IInv, IsContainer
  <2> QED
    BY <2>1, <2>2, <2>3 DEF IsContainer
<1> QED
  BY <1>2, OutcomesAre DEF FlagEffect

\* -N, and what only parse_args() needs to know.
LEMMA NoteEffectIs ==
  ASSUME IInv, NEW w \in Words, w.opt \in Notables
  PROVE  IsOutcome(NoteEffect(w))
<1>1. CASE w.opt = "N"
  <2>1. NoteEffect(w) = Sets(w, [container EXCEPT !["use_rurienv"] = FALSE])
    BY <1>1 DEF NoteEffect
  <2>2. "use_rurienv" \in Fields /\ FALSE \in FieldType("use_rurienv")
    BY Named, Sorts
  <2> QED
    BY <2>1, <2>2, SetsField
<1>2. CASE w.opt # "N"
  <2>1. local \in Local
    BY DEF IInv
  <2>2. /\ [local EXCEPT !.dump_config = TRUE] \in Local
        /\ [local EXCEPT !.background = TRUE] \in Local
        /\ [local EXCEPT !.fork_exec = TRUE] \in Local
        /\ [local EXCEPT !.privileged = TRUE] \in Local
        /\ [local EXCEPT !.even_unstable = TRUE] \in Local
    BY <2>1 DEF Local
  <2>3. \A b \in BOOLEAN : [local EXCEPT !.output_path = b] \in Local
    BY <2>1 DEF Local
  <2>4. \E l \in Local : NoteEffect(w) = Notes(w, l)
    <3>1. CASE w.opt = "o"
      <4>1. PICK b \in BOOLEAN : b = (~Missing(w) /\ w.args[1] = ConfigPath)
        OBVIOUS
      <4>2. NoteEffect(w) = Notes(w, [local EXCEPT !.output_path = b])
        BY <3>1, <4>1 DEF NoteEffect
      <4> QED
        BY <2>3, <4>2
    <3>2. CASE w.opt \in {"D", "b", "L", "f", "p", "even_unstable"}
      BY <3>2, <2>2 DEF NoteEffect
    <3> QED
      BY <1>2, <3>1, <3>2 DEF Notables
  <2> QED
    BY <2>4, OutcomesAre
<1> QED
  BY <1>1, <1>2

\* An option with a value.
LEMMA ValueEffectIs ==
  ASSUME IInv, NEW w \in Words, w.opt \in DOMAIN AloneValues, Len(w.args) = Arity(w.opt)
  PROVE  IsOutcome(ValueEffect(w))
<1>1. FieldOf(w) = AloneValues[w.opt]
  <2>1. CASE w.spelled = "alone"
    BY <2>1 DEF FieldOf
  <2>2. CASE w.spelled # "alone"
    <3>1. w.opt \in Letters
      BY <2>2, WordIs
    <3>2. w.opt \in DOMAIN CombinedValues
      BY <3>1, Options DEF Letters
    <3> QED
      BY <2>2, <3>2, Options DEF FieldOf
  <2> QED
    BY <2>1, <2>2
<1>2. FieldOf(w) \in Fields /\ w.args[1] \in FieldType(FieldOf(w))
  <2>1. Arity(w.opt) = 1
    BY Options DEF Arity
  <2>2. w.args[1] \in Word /\ 1 \in DOMAIN w.args
    BY <2>1, WordIs
  <2>3. w.opt \in {"i", "O"} => w.args[1] \in Int
    BY <2>2, WordsAssumption
  <2>4. CASE w.opt \in {"i", "O"}
    BY <1>1, <2>3, <2>4, Options, Sorts
  <2>5. CASE w.opt \notin {"i", "O"}
    BY <1>1, <2>2, <2>5, Options, Sorts
  <2> QED
    BY <2>4, <2>5
<1> QED
  BY <1>2, SetsField, OutcomesAre DEF ValueEffect

\* -l.
LEMMA CgroupSettingsAre ==
  ASSUME IInv, NEW w \in Words, Len(w.args) = 1
  PROVE  IsOutcome(parse_cgroup_settings(w))
<1> DEFINE l == LimitOf[w.args[1]]
<1>1. CASE w.args[1] \in DOMAIN LimitOf
  <2>1. l \in [limit : {"cpuset", "memory"}, to : Word] \cup [limit : {"cpupercent"}, to : Int]
    BY <1>1, ArgumentsAssumption
  <2>2. CASE l \in [limit : {"cpuset", "memory"}, to : Word]
    <3>1. l.limit \in {"cpuset", "memory"} /\ l.to \in Word
      BY <2>2
    <3>2. l.limit \in Fields /\ l.to \in FieldType(l.limit)
      BY <3>1, Named, Sorts
    <3> QED
      BY <3>2, SetsField, OutcomesAre DEF parse_cgroup_settings
  <2>3. CASE l \in [limit : {"cpupercent"}, to : Int]
    <3>1. l.limit = "cpupercent" /\ l.to \in Int
      BY <2>3
    <3>2. l.limit \in Fields /\ l.to \in FieldType(l.limit)
      BY <3>1, Named, Sorts
    <3> QED
      BY <3>2, SetsField, OutcomesAre DEF parse_cgroup_settings
  <2> QED
    BY <2>1, <2>2, <2>3
<1>2. CASE w.args[1] \notin DOMAIN LimitOf
  BY <1>2, OutcomesAre DEF parse_cgroup_settings
<1> QED
  BY <1>1, <1>2

\* -T.
LEMMA OffsetEffectIs ==
  ASSUME IInv, NEW w \in Words, w.opt = "T", Len(w.args) = 2
  PROVE  IsOutcome(OffsetEffect(w))
<1>1. w.args[1] \in Int /\ w.args[2] \in Int
  <2>1. 1 \in DOMAIN w.args /\ 2 \in DOMAIN w.args
    BY WordIs
  <2> QED
    BY <2>1, WordsAssumption
<1> DEFINE c1 == [container EXCEPT !["timens_monotonic_offset"] = w.args[1]]
           c2 == [c1 EXCEPT !["timens_realtime_offset"] = w.args[2]]
           c3 == [c2 EXCEPT !["enable_unshare"] = TRUE]
<1>2. IsContainer(container)
  BY DEF IInv
<1>3. IsContainer(c1)
  BY <1>1, <1>2, SetField, Named, Sorts
<1> HIDE DEF c1
<1>4. IsContainer(c2)
  BY <1>1, <1>3, SetField, Named, Sorts
<1> HIDE DEF c2
<1>5. IsContainer(c3)
  <2>1. "enable_unshare" \in Fields /\ TRUE \in FieldType("enable_unshare")
    BY Named, Sorts
  <2> QED
    BY <1>4, <2>1, SetField
<1>6. IsOutcome(Sets(w, c3))
  BY <1>5, OutcomesAre
<1> QED
  BY <1>6 DEF OffsetEffect, c1, c2

\* A capability more on a list.
LEMMA AddToCaplistIs ==
  ASSUME NEW l \in Seq(Caps), NEW cap \in Caps
  PROVE  AddToCaplist(l, cap) \in Seq(Caps)
BY DEF AddToCaplist

\* -k and -d.
LEMMA CapEffectIs ==
  ASSUME IInv, NEW w \in Words
  PROVE  IsOutcome(CapEffect(w))
<1> DEFINE name == w.args[1]
           cap == IF TakesShortName(w) /\ name \in DOMAIN ShortCap THEN ShortCap[name] ELSE name
           l == IF w.opt = "k" THEN [local EXCEPT !.keep = AddToCaplist(@, cap)]
                ELSE [local EXCEPT !.drop = AddToCaplist(@, cap)]
<1>1. CapEffect(w) = IF cap \notin Caps THEN Ends("refused") ELSE Notes(w, l)
  BY DEF CapEffect
<1> HIDE DEF cap
<1>2. CASE cap \notin Caps
  BY <1>1, <1>2, OutcomesAre
<1>3. CASE cap \in Caps
  <2>1. local \in Local
    BY DEF IInv
  <2>2. local.keep \in Seq(Caps) /\ local.drop \in Seq(Caps)
    BY <2>1 DEF Local
  <2>3. AddToCaplist(local.keep, cap) \in Seq(Caps) /\ AddToCaplist(local.drop, cap) \in Seq(Caps)
    BY <1>3, <2>2, AddToCaplistIs
  <2>4. \A s \in Seq(Caps) : /\ [local EXCEPT !.keep = s] \in Local
                             /\ [local EXCEPT !.drop = s] \in Local
    BY <2>1 DEF Local
  <2>5. l \in Local
    BY <2>3, <2>4
  <2> QED
    BY <1>1, <1>3, <2>5, OutcomesAre
<1> QED
  BY <1>2, <1>3

-----------------------------------------------------------------------------
(* The arrays *)

\* Multiples of a number are at least that far from each other.
LEMMA Room ==
  ASSUME NEW k \in 1 .. 3, NEW n \in Nat, NEW m \in Nat, n % k = 0, m % k = 0, n < m
  PROVE  n + k <= m /\ (n + k) % k = 0
<1>1. CASE k = 1
  BY <1>1
<1>2. CASE k = 2
  BY <1>2
<1>3. CASE k = 3
  BY <1>3
<1> QED
  BY <1>1, <1>2, <1>3

\* An array below its limit has room for an entry.
LEMMA AddIs ==
  ASSUME IInv, NEW w, NEW a \in Arrays, NEW entry \in Seq(Word), Len(entry) = Entry[a]
  PROVE  IsOutcome(Add(w, a, entry))
<1> DEFINE s == container[a]
           n == s \o entry
<1>1. s \in Array(a) /\ a \in Fields
  <2>1. a \in Fields /\ FieldType(a) = Array(a)
    BY Sorts
  <2>2. s \in FieldType(a)
    BY <2>1 DEF IInv, IsContainer
  <2> QED
    BY <2>1, <2>2
<1>2. s \in Seq(Word) /\ Len(s) \in Nat /\ Len(s) <= MaxOf[a] /\ Len(s) % Entry[a] = 0
  BY <1>1 DEF Array
<1>3. CASE Len(s) < MaxOf[a]
  <2>1. n \in Seq(Word) /\ Len(n) = Len(s) + Entry[a]
    <3>1. n \in Seq(Word) /\ Len(n) = Len(s) + Len(entry)
      BY <1>2, ConcatProperties, Zenon
    <3> QED
      BY <3>1
  <2>2. MaxOf[a] \in Nat /\ MaxOf[a] % Entry[a] = 0 /\ Entry[a] \in 1 .. 3
    BY Named
  <2>3. Len(s) + Entry[a] <= MaxOf[a] /\ (Len(s) + Entry[a]) % Entry[a] = 0
    BY <1>2, <1>3, <2>2, Room
  <2>4. n \in Array(a)
    BY <2>1, <2>3 DEF Array
  <2>5. n \in FieldType(a)
    BY <2>4, Sorts
  <2>6. IsContainer([container EXCEPT ![a] = n])
    BY <1>1, <2>5, SetField DEF IInv
  <2>7. IsContainer(EndMark([container EXCEPT ![a] = n], a))
    BY <2>6, EndMarkIs
  <2>8. IsContainer(Added(container, a, entry))
    BY <2>7 DEF Added
  <2> QED
    BY <1>3, <2>8, OutcomesAre DEF Add
<1>4. CASE ~(Len(s) < MaxOf[a])
  BY <1>4, OutcomesAre DEF Add
<1> QED
  BY <1>3, <1>4

\* The root file system.
LEMMA RootfsIs ==
  ASSUME IInv, NEW w \in Words, Len(w.args) = 2
  PROVE  IsOutcome(Rootfs(w))
<1> DEFINE c1 == [container EXCEPT !["rootfs_source"] = w.args[1]]
           c2 == [c1 EXCEPT !["ro_root"] = @ \/ w.opt = "M"]
<1>1. w.args[1] \in Word
  BY WordIs
<1>2. IsContainer(c1)
  BY <1>1, SetField, Named, Sorts DEF IInv
<1>3. PICK v \in BOOLEAN : v = (c1["ro_root"] \/ w.opt = "M")
  OBVIOUS
<1>4. c2 = [c1 EXCEPT !["ro_root"] = v]
  BY <1>3
<1> HIDE DEF c1
<1>5. v \in FieldType("ro_root") /\ "ro_root" \in Fields
  BY Named, Sorts
<1>6. IsContainer([c1 EXCEPT !["ro_root"] = v])
  BY <1>2, <1>5, SetField
<1>7. IsOutcome(Sets(w, c2))
  BY <1>4, <1>6, OutcomesAre
<1> QED
  BY <1>7, OutcomesAre DEF Rootfs, c1

\* An option that adds to an array.
LEMMA ArrayEffectIs ==
  ASSUME IInv, NEW w \in Words, w.opt \in DOMAIN AloneArrays, Len(w.args) = Arity(w.opt)
  PROVE  IsOutcome(ArrayEffect(w))
<1>1. ArrayOf(w) \in Arrays /\ Entry[ArrayOf(w)] = Arity(w.opt)
  <2>1. ArrayOf(w) = AloneArrays[w.opt]
    BY Options DEF ArrayOf
  <2> QED
    BY <2>1, Options
<1>2. w.args \in Seq(Word)
  BY WordIs
<1>3. IsOutcome(Add(w, ArrayOf(w), w.args))
  BY <1>1, <1>2, AddIs
<1>4. IsOutcome(Ends("refused"))
  BY OutcomesAre
<1>5. CASE w.opt = "I"
  <2>1. Len(w.args) = 3 /\ "char_devs" \in Arrays /\ Entry["char_devs"] = 3
    BY <1>5, Named DEF Arity, Entry
  <2>2. IsOutcome(Add(w, "char_devs", w.args))
    BY <1>2, <2>1, AddIs
  <2>3. ASSUME w.args[1] \in DOMAIN HostNumber
        PROVE  IsOutcome(Add(w, "char_devs", <<w.args[1]>> \o HostNumber[w.args[1]]))
    <3> DEFINE h == HostNumber[w.args[1]]
               e == <<w.args[1]>> \o h
    <3>1. h \in Int \X Int
      BY <2>3, ArgumentsAssumption
    <3>2. h \in Seq(Word) /\ Len(h) = 2
      <4>1. PICK x \in Int, y \in Int : h = <<x, y>>
        BY <3>1
      <4>2. x \in Word /\ y \in Word
        BY DEF Word
      <4> QED
        BY <4>1, <4>2
    <3>3. <<w.args[1]>> \in Seq(Word) /\ Len(<<w.args[1]>>) = 1
      BY <2>1, WordIs
    <3> HIDE DEF h
    <3>4. e \in Seq(Word) /\ Len(e) = Len(<<w.args[1]>>) + Len(h)
      BY <3>2, <3>3, ConcatProperties, Zenon
    <3> HIDE DEF e
    <3>5. Len(e) = 3
      BY <3>2, <3>3, <3>4
    <3> QED
      BY <2>1, <3>4, <3>5, AddIs DEF e, h
  <2>4. IsOutcome(DeviceEffect(w))
    BY <1>4, <2>2, <2>3 DEF DeviceEffect
  <2>5. ArrayEffect(w) = DeviceEffect(w)
    BY <1>5 DEF ArrayEffect
  <2> QED
    BY <2>4, <2>5
<1>6. CASE w.opt # "I"
  <2>1. w.opt \in {"m", "M"} => IsOutcome(Rootfs(w))
    <3>1. w.opt \in {"m", "M"} => Len(w.args) = 2
      BY DEF Arity
    <3> QED
      BY <3>1, RootfsIs
  <2>2. ArrayEffect(w) = IF w.opt \in {"m", "M"} /\ w.args[2] = Root
                              /\ ~(w.opt = "m" /\ w.args[1] = Root) THEN Rootfs(w)
                         ELSE IF w.opt = "m" /\ w.args[1] = Root THEN Ends("refused")
                         ELSE Add(w, ArrayOf(w), w.args)
    BY <1>6 DEF ArrayEffect
  <2> QED
    BY <1>3, <1>4, <2>1, <2>2
<1> QED
  BY <1>5, <1>6

-----------------------------------------------------------------------------
(* The words *)

\* The options by what they do: no option is of two kinds.
Kind(w) ==
  IF w.opt \in Flags THEN FlagEffect(w)
  ELSE IF w.opt \in Notables THEN NoteEffect(w)
  ELSE IF w.opt \in DOMAIN AloneValues THEN ValueEffect(w)
  ELSE IF w.opt \in DOMAIN AloneArrays THEN ArrayEffect(w)
  ELSE IF w.opt = "l" THEN parse_cgroup_settings(w)
  ELSE IF w.opt = "T" THEN OffsetEffect(w)
  ELSE CapEffect(w)

\* Effect() by kinds.
LEMMA EffectCases ==
  ASSUME NEW w, w.opt \in Flags \cup Notables \cup Valued
  PROVE  Effect(w) = IF Lacks(w) THEN Ends("refused")
                     ELSE IF Faults(w) THEN Ends("crashed") ELSE Kind(w)
<1>1. CASE Lacks(w)
  BY <1>1 DEF Effect
<1>2. CASE ~Lacks(w) /\ Faults(w)
  BY <1>2 DEF Effect
<1>3. CASE ~Lacks(w) /\ ~Faults(w)
  <2>1. CASE w.opt \in Flags
    <3>1. w.opt \notin Notables \cup Valued
      BY <2>1, Options DEF Flags, Notables, Valued
    <3> QED
      BY <1>3, <2>1, <3>1 DEF Effect, Kind, Valued
  <2>2. CASE w.opt \in Notables
    <3>1. w.opt \notin Flags \cup Valued
      BY <2>2, Options DEF Flags, Notables, Valued
    <3> QED
      BY <1>3, <2>2, <3>1 DEF Effect, Kind, Valued
  <2>3. CASE w.opt \in Valued
    <3>1. w.opt \notin Flags \cup Notables
      BY <2>3, Options DEF Flags, Notables, Valued
    <3>2. CASE w.opt \in DOMAIN AloneValues
      <4>1. w.opt \notin DOMAIN AloneArrays \cup {"l", "T", "k", "d"}
        BY <3>2, Options
      <4> QED
        BY <1>3, <3>1, <3>2, <4>1 DEF Effect, Kind
    <3>3. CASE w.opt \in DOMAIN AloneArrays
      <4>1. w.opt \notin DOMAIN AloneValues \cup {"l", "T", "k", "d"}
        BY <3>3, Options
      <4> QED
        BY <1>3, <3>1, <3>3, <4>1 DEF Effect, Kind
    <3>4. CASE w.opt \in {"l", "T", "k", "d"}
      <4>1. w.opt \notin DOMAIN AloneValues \cup DOMAIN AloneArrays
        BY <3>4, Options
      <4> QED
        BY <1>3, <3>1, <3>4, <4>1 DEF Effect, Kind
    <3> QED
      BY <2>3, <3>2, <3>3, <3>4 DEF Valued
  <2> QED
    BY <2>1, <2>2, <2>3
<1> QED
  BY <1>1, <1>2, <1>3

\* What any option makes is an outcome.
LEMMA EffectIs ==
  ASSUME IInv, NEW w \in Words, w.opt \in Flags \cup Notables \cup Valued
  PROVE  IsOutcome(Effect(w))
<1>1. IsOutcome(Ends("refused")) /\ IsOutcome(Ends("crashed"))
  BY OutcomesAre
<1>2. ASSUME ~Lacks(w), ~Faults(w)
      PROVE  IsOutcome(Kind(w))
  <2>1. w.opt \in Flags => IsOutcome(FlagEffect(w))
    BY FlagEffectIs
  <2>2. w.opt \in Notables => IsOutcome(NoteEffect(w))
    BY NoteEffectIs
  <2>3. ASSUME w.opt \notin Flags \cup Notables
        PROVE  IsOutcome(Kind(w))
    <3>1. Len(w.args) = Arity(w.opt)
      BY <1>2, <2>3, Complete
    <3>2. w.opt \in DOMAIN AloneValues => IsOutcome(ValueEffect(w))
      BY <3>1, ValueEffectIs
    <3>3. w.opt \in DOMAIN AloneArrays => IsOutcome(ArrayEffect(w))
      BY <3>1, ArrayEffectIs
    <3>4. w.opt = "l" => IsOutcome(parse_cgroup_settings(w))
      <4>1. w.opt = "l" => Len(w.args) = 1
        BY <3>1 DEF Arity
      <4> QED
        BY <4>1, CgroupSettingsAre
    <3>5. w.opt = "T" => IsOutcome(OffsetEffect(w))
      <4>1. w.opt = "T" => Len(w.args) = 2
        BY <3>1 DEF Arity
      <4> QED
        BY <4>1, OffsetEffectIs
    <3> QED
      BY <2>3, <3>2, <3>3, <3>4, <3>5, CapEffectIs DEF Kind
  <2> QED
    BY <2>1, <2>2, <2>3 DEF Kind
<1> QED
  BY <1>1, <1>2, EffectCases

\* A command of any length is cut to the limit.
LEMMA TakesCommandIs ==
  ASSUME IInv, NEW w, NEW c, IsContainer(c), NEW args \in Seq(Word)
  PROVE  IsOutcome(TakesCommand(w, c, args))
<1> DEFINE m == MaxOf["command"]
           s == SubSeq(args, 1, m)
<1>1. "command" \in Fields /\ "command" \in Arrays /\ FieldType("command") = Array("command")
  BY Named, Sorts
<1>2. m \in Nat /\ Entry["command"] = 1 /\ Len(args) \in Nat
  BY <1>1, Named DEF Entry
<1>3. CASE Len(args) <= m
  <2>1. args \in Array("command")
    BY <1>2, <1>3 DEF Array
  <2>2. IsContainer([c EXCEPT !["command"] = args])
    BY <1>1, <2>1, SetField
  <2>3. local \in Local /\ [local EXCEPT !.at = "top"] \in Local
    BY DEF IInv, Local
  <2> QED
    BY <1>3, <2>2, <2>3 DEF TakesCommand, Outcome, IsOutcome
<1>4. CASE ~(Len(args) <= m)
  <2>1. \A i \in 1 .. m : args[i] \in Word
    BY <1>2, <1>4
  <2>2. 1 \in Int /\ m \in Int
    BY <1>2
  <2>3. s \in Seq(Word) /\ Len(s) = IF 1 <= m THEN m - 1 + 1 ELSE 0
    BY <2>1, <2>2, SubSeqProperties
  <2> HIDE DEF s
  <2>4. s \in Array("command")
    BY <1>2, <2>3 DEF Array
  <2>5. IsContainer([c EXCEPT !["command"] = s])
    BY <1>1, <2>4, SetField
  <2> QED
    BY <1>4, <2>5, OutcomesAre DEF TakesCommand, s
<1> QED
  BY <1>3, <1>4

\* What is no option: a directory, a command, or an error.
LEMMA OtherEffectIs ==
  ASSUME IInv, NEW w, w.args \in Seq(Word), w.args # <<>>
  PROVE  IsOutcome(OtherEffect(w))
<1>1. IsContainer(container)
  BY DEF IInv
<1>2. CASE local.use_config_file
  BY <1>1, <1>2, TakesCommandIs DEF OtherEffect
<1>3. CASE ~local.use_config_file /\ w.args[1] \in Dirs
  <2>1. w.args[1] \in Word
    BY <1>3, ArgumentsAssumption DEF Word
  <2>2. IsContainer([container EXCEPT !["container_dir"] = w.args[1]])
    BY <1>1, <2>1, Named, Sorts, SetField
  <2>3. Tail(w.args) \in Seq(Word)
    BY HeadTailProperties
  <2> QED
    BY <1>3, <2>2, <2>3, TakesCommandIs DEF OtherEffect
<1>4. CASE ~local.use_config_file /\ w.args[1] \notin Dirs
  BY <1>4, OutcomesAre DEF OtherEffect
<1> QED
  BY <1>2, <1>3, <1>4

\* -c.
LEMMA ConfigEffectIs ==
  ASSUME IInv, NEW w
  PROVE  IsOutcome(ConfigEffect(w))
<1>1. CASE w.args[1] = ConfigPath /\ Accepts(file)
  <2> DEFINE at == IF w.spelled = "alone" THEN "chain" ELSE "over"
  <2>1. IsFile(file)
    BY <1>1 DEF IInv, Accepts
  <2>2. IsContainer(ReadConfig(container, file))
    BY <1>1, <2>1, ReadConfigIs DEF IInv
  <2>3. [local EXCEPT !.use_config_file = TRUE, !.at = at] \in Local
    BY DEF IInv, Local
  <2> QED
    BY <1>1, <2>2, <2>3 DEF ConfigEffect, IsOutcome, Goes
<1>2. CASE ~(w.args[1] = ConfigPath /\ Accepts(file))
  BY <1>2, OutcomesAre DEF ConfigEffect
<1> QED
  BY <1>1, <1>2

-----------------------------------------------------------------------------
(* Every step keeps the invariant *)

\* An option.
LEMMA ReadOptionKeeps ==
  ASSUME IInv, NEW w \in Words, ReadOption(w)
  PROVE  IInv'
<1>1. Reads(w) /\ Become(Effect(w)) /\ UNCHANGED <<file, edits>>
  BY DEF ReadOption
<1>2. IsOutcome(Effect(w))
  BY EffectIs DEF ReadOption
<1>3. words' \in 0 .. MaxWords
  BY <1>1, WordsMore
<1> QED
  BY <1>1, <1>2, <1>3, Becomes

\* -v, -h, -P and -U.
LEMMA ReadCommandKeeps ==
  ASSUME IInv, NEW w \in Words, ReadCommand(w)
  PROVE  IInv'
<1> DEFINE done == w.opt = "info" \/ (~Missing(w) /\ w.args[1] \in Dirs)
           bad == Missing(w) \/ w.args[1] # ConfigPath \/ ~Accepts(file)
           r == Outcome(ReadConfig(container, file), local, "done")
           e == IF done THEN Ends("done") ELSE IF bad THEN Ends("refused") ELSE r
<1>1. Reads(w) /\ Become(e) /\ UNCHANGED <<file, edits>>
  BY DEF ReadCommand
<1>2. IsOutcome(Ends("done")) /\ IsOutcome(Ends("refused"))
  BY OutcomesAre
<1>3. ASSUME ~bad
      PROVE  IsOutcome(r)
  <2>1. IsFile(file) /\ IsContainer(container) /\ local \in Local
    BY <1>3 DEF IInv, Accepts
  <2>2. IsContainer(ReadConfig(container, file))
    BY <1>3, <2>1, ReadConfigIs
  <2>3. [local EXCEPT !.at = "top"] \in Local
    BY <2>1 DEF Local
  <2> QED
    BY <2>2, <2>3 DEF Outcome, IsOutcome
<1>4. IsOutcome(e)
  BY <1>2, <1>3
<1>5. words' \in 0 .. MaxWords
  BY <1>1, WordsMore
<1> HIDE DEF e
<1> QED
  BY <1>1, <1>4, <1>5, Becomes

\* -U behind -c.
LEMMA ReadLateUmountKeeps ==
  ASSUME IInv, NEW w \in Words, ReadLateUmount(w)
  PROVE  IInv'
<1>1. Reads(w) /\ Become(Ends("done")) /\ UNCHANGED <<file, edits>>
  BY DEF ReadLateUmount
<1>2. IsOutcome(Ends("done"))
  BY OutcomesAre
<1>3. words' \in 0 .. MaxWords
  BY <1>1, WordsMore
<1> QED
  BY <1>1, <1>2, <1>3, Becomes

\* -c.
LEMMA ReadConfigOptionKeeps ==
  ASSUME IInv, NEW w \in Words, ReadConfigOption(w)
  PROVE  IInv'
<1> DEFINE e == IF Missing(w) THEN Ends("refused") ELSE ConfigEffect(w)
<1>1. Reads(w) /\ Become(e) /\ UNCHANGED <<file, edits>>
  BY DEF ReadConfigOption
<1>2. IsOutcome(Ends("refused")) /\ IsOutcome(ConfigEffect(w))
  BY OutcomesAre, ConfigEffectIs
<1>3. IsOutcome(e)
  BY <1>2
<1>4. words' \in 0 .. MaxWords
  BY <1>1, WordsMore
<1> HIDE DEF e
<1> QED
  BY <1>1, <1>3, <1>4, Becomes

\* -C: what it writes is a file that -c accepts.
LEMMA CorrectConfigKeeps ==
  ASSUME IInv, NEW w \in Words, CorrectConfig(w)
  PROVE  IInv'
<1> DEFINE c == Corrected(file)
<1>1. words' \in 0 .. MaxWords /\ edits' = edits
  BY WordsMore DEF CorrectConfig
<1>2. CASE ~Missing(w) /\ w.args = <<ConfigPath>> /\ Correctable(file) /\ Readable(c)
  <2>1. file' = InfoToK2v(c) /\ Become(Ends("corrected"))
    BY <1>2 DEF CorrectConfig
  <2>2. IsFile(file)
    BY <1>2 DEF IInv, Correctable
  <2>3. IsContainer(c)
    BY <2>2, CorrectedIs
  <2> HIDE DEF c
  <2>4. IsFile(file') /\ Accepts(file')
    BY <2>1, <2>3, InfoIs
  <2>5. container' = container /\ local' = [local EXCEPT !.at = "top"] /\ phase' = "corrected"
    BY <2>1 DEF Become, Ends, Outcome
  <2>6. local' \in Local
    BY <2>5 DEF IInv, Local
  <2> QED
    BY <1>1, <2>4, <2>5, <2>6 DEF IInv, Ended
<1>3. CASE ~Missing(w) /\ w.args = <<ConfigPath>> /\ Correctable(file) /\ ~Readable(c)
  <2>1. file' = NoFile /\ Become(Ends("crashed"))
    BY <1>3 DEF CorrectConfig
  <2>2. container' = container /\ local' = [local EXCEPT !.at = "top"] /\ phase' = "crashed"
    BY <2>1 DEF Become, Ends, Outcome
  <2>3. local' \in Local
    BY <2>2 DEF IInv, Local
  <2> QED
    BY <1>1, <2>1, <2>2, <2>3 DEF IInv, Ended
<1>4. CASE ~(~Missing(w) /\ w.args = <<ConfigPath>> /\ Correctable(file))
  <2>1. file' = file /\ Become(Ends("refused"))
    BY <1>4 DEF CorrectConfig
  <2>2. IsOutcome(Ends("refused"))
    BY OutcomesAre
  <2> QED
    BY <1>1, <2>1, <2>2, Becomes
<1> QED
  BY <1>2, <1>3, <1>4

\* What is no option.
LEMMA ReadOtherKeeps ==
  ASSUME IInv, NEW w \in Words, ReadOther(w)
  PROVE  IInv'
<1> DEFINE v == IF w.opt = "other" THEN w ELSE [w EXCEPT !.args = <<ConfigPath>>]
<1>1. Reads(w) /\ Become(OtherEffect(v)) /\ UNCHANGED <<file, edits>>
  BY DEF ReadOther
<1>2. v.args \in Seq(Word) /\ v.args # <<>>
  <2>1. CASE w.opt = "other"
    <3>1. w.args \in Seq(Word) /\ Len(w.args) > 0
      BY <2>1, WordIs, WordsAssumption
    <3> QED
      BY <2>1, <3>1
  <2>2. CASE w.opt # "other"
    <3>1. v.args = <<ConfigPath>>
      BY <2>2, WordIs
    <3>2. ConfigPath \in Word
      BY ArgumentsAssumption DEF Word
    <3>3. <<ConfigPath>> \in Seq(Word) /\ <<ConfigPath>> # <<>>
      BY <3>2
    <3> HIDE DEF v
    <3> QED
      BY <3>1, <3>3
  <2> QED
    BY <2>1, <2>2
<1> HIDE DEF v
<1>3. IsOutcome(OtherEffect(v))
  BY <1>2, OtherEffectIs
<1>4. words' \in 0 .. MaxWords
  BY <1>1, WordsMore
<1> QED
  BY <1>1, <1>3, <1>4, Becomes

\* The argument behind a combined -c.
LEMMA SkipWordKeeps ==
  ASSUME IInv, NEW w \in Words, SkipWord(w)
  PROVE  IInv'
<1> DEFINE v == [w EXCEPT !.args = Tail(w.args)]
           e == IF Len(w.args) > 1 THEN OtherEffect(v) ELSE Notes(w, local)
<1>1. Reads(w) /\ Become(e) /\ UNCHANGED <<file, edits>>
  BY DEF SkipWord
<1>2. ASSUME Len(w.args) > 1
      PROVE  IsOutcome(OtherEffect(v))
  <2>1. v.args = Tail(w.args)
    BY WordIs
  <2>2. w.args \in Seq(Word) /\ w.args # <<>>
    BY <1>2, WordIs
  <2>3. Tail(w.args) \in Seq(Word) /\ Len(Tail(w.args)) = Len(w.args) - 1
    BY <2>2, HeadTailProperties
  <2>4. v.args \in Seq(Word) /\ v.args # <<>>
    <3> DEFINE t == Tail(w.args)
    <3>1. t \in Seq(Word) /\ Len(t) > 0
      BY <1>2, <2>2, <2>3
    <3> HIDE DEF t
    <3>2. t # <<>>
      BY <3>1
    <3> QED
      BY <2>1, <3>1, <3>2 DEF t
  <2> HIDE DEF v
  <2> QED
    BY <2>4, OtherEffectIs
<1>3. IsOutcome(Notes(w, local))
  <2>1. local \in Local
    BY DEF IInv
  <2> QED
    BY <2>1, OutcomesAre
<1>4. IsOutcome(e)
  BY <1>2, <1>3
<1>5. words' \in 0 .. MaxWords
  BY <1>1, WordsMore
<1> HIDE DEF e
<1> QED
  BY <1>1, <1>4, <1>5, Becomes

\* The list of capabilities is built of what is known, and all other fields stay.
LEMMA WithCaplistIs ==
  ASSUME IInv
  PROVE  /\ IsContainer(WithCaplist)
         /\ \A f \in Fields : f # "drop_caplist" => WithCaplist[f] = container[f]
<1> DEFINE base == IF local.privileged THEN <<>> ELSE DefaultCaps
           extra == Without(local.drop, Elements(base))
           list == Without(base \o extra, Elements(local.keep))
<1>1. IsContainer(container) /\ local.drop \in Seq(Caps)
  BY DEF IInv, Local
<1>2. base \in Seq(Caps)
  BY ConfigAssumption
<1>3. extra \in Seq(Caps)
  BY <1>1, WithoutIs
<1> HIDE DEF base, extra
<1>4. base \o extra \in Seq(Caps)
  BY <1>2, <1>3, ConcatProperties, Zenon
<1>5. list \in Seq(Caps)
  BY <1>4, WithoutIs
<1>6. WithCaplist = [container EXCEPT !["drop_caplist"] = list]
  BY DEF WithCaplist, BuildCaplist, base, extra
<1> HIDE DEF list
<1>7. "drop_caplist" \in Fields /\ list \in FieldType("drop_caplist")
  BY <1>5, Sorts
<1> DEFINE c == [container EXCEPT !["drop_caplist"] = list]
<1>8. IsContainer(c) /\ \A g \in Fields \ {"drop_caplist"} : c[g] = container[g]
  BY <1>1, <1>7, SetField
<1>9. WithCaplist = c
  BY <1>6
<1> HIDE DEF c
<1> QED
  BY <1>8, <1>9

\* Whether the arrays can be walked depends on them and on what lies behind.
LEMMA ReadableIs ==
  ASSUME NEW c, NEW d, \A f \in Fields : f # "drop_caplist" => d[f] = c[f], Readable(c)
  PROVE  Readable(d)
<1>1. SUFFICES ASSUME NEW a \in Arrays
               PROVE  HasEndMark(d, a)
  BY DEF Readable
<1>2. HasEndMark(c, a)
  BY DEF Readable
<1>3. a \in Fields /\ a # "drop_caplist"
  BY Sorts, Named
<1>4. a \in DOMAIN Behind => Behind[a] \in Fields /\ Behind[a] # "drop_caplist"
  BY Sorts, Named
<1> QED
  BY <1>2, <1>3, <1>4 DEF HasEndMark

\* An error behind the arguments.
LEMMA RefusesKeeps ==
  ASSUME IInv, Refuses
  PROVE  IInv'
BY DEF IInv, Refuses, Ended

\* -D.
LEMMA DumpConfigKeeps ==
  ASSUME IInv, DumpConfig
  PROVE  IInv'
<1>1. container' = WithCaplist /\ UNCHANGED <<local, words, unusual, edits>>
  BY DEF DumpConfig
<1>2. IsContainer(container')
  BY <1>1, WithCaplistIs
<1>3. file = NoFile \/ IsFile(file)
  BY DEF IInv
<1>4. CASE ~Readable(container) /\ phase' = "crashed" /\ UNCHANGED file
  BY <1>1, <1>2, <1>4 DEF IInv, Ended
<1>5. CASE Readable(container) /\ phase' = "dumped"
           /\ file' = IF local.output_path THEN InfoToK2v(container') ELSE file
  <2>1. \A f \in Fields : f # "drop_caplist" => container'[f] = container[f]
    BY <1>1, WithCaplistIs
  <2>2. Readable(container')
    BY <1>5, <2>1, ReadableIs
  <2>3. IsFile(InfoToK2v(container'))
    BY <1>2, InfoIs
  <2>4. file' = NoFile \/ IsFile(file')
    BY <1>3, <1>5, <2>3
  <2> QED
    BY <1>1, <1>2, <1>5, <2>2, <2>4 DEF IInv, Ended
<1> QED
  BY <1>4, <1>5 DEF DumpConfig

\* The start.
LEMMA StartKeeps ==
  ASSUME IInv, Start
  PROVE  IInv'
<1>1. /\ UNCHANGED <<local, file, words, unusual, edits>>
      /\ phase' \in {"crashed", "started", "refused"}
  BY DEF Start
<1>2. PICK joins \in BOOLEAN :
        container' = [WithCaplist EXCEPT !["enable_unshare"] = @ \/ joins,
                                         !["rootless"] = @ \/ ~IsRoot]
  BY DEF Start
<1> DEFINE c == WithCaplist
<1>3. PICK u \in BOOLEAN : u = (c["enable_unshare"] \/ joins)
  OBVIOUS
<1> DEFINE d == [c EXCEPT !["enable_unshare"] = u]
<1>4. PICK r \in BOOLEAN : r = (d["rootless"] \/ ~IsRoot)
  OBVIOUS
<1>5. container' = [d EXCEPT !["rootless"] = r]
  BY <1>2, <1>3, <1>4
<1>6. {"enable_unshare", "rootless"} \subseteq Fields /\ u \in FieldType("enable_unshare")
      /\ r \in FieldType("rootless")
  BY Named, Sorts
<1>7. IsContainer(c)
  BY WithCaplistIs
<1> HIDE DEF c
<1>8. IsContainer(d)
  BY <1>6, <1>7, SetField
<1> HIDE DEF d
<1>9. IsContainer(container')
  BY <1>5, <1>6, <1>8, SetField
<1> QED
  BY <1>1, <1>9 DEF IInv, Ended

\* What the local variables begin with.
LEMMA LocalsAre == Locals \in Local
<1>1. <<>> \in Seq(Caps)
  OBVIOUS
<1> QED
  BY <1>1 DEF Locals, Local

\* The next command.
LEMMA NextCommandKeeps ==
  ASSUME IInv, NextCommand
  PROVE  IInv'
<1>1. phase' = "args" /\ local' = Locals /\ UNCHANGED <<file, words, unusual, edits>>
  BY DEF NextCommand, Begun
<1>2. PICK noise \in BOOLEAN : container' = ruri_init_config(noise)
  BY DEF NextCommand, Begun
<1>3. IsContainer(container') /\ local' \in Local
  BY <1>1, <1>2, DefaultIs, LocalsAre
<1> QED
  BY <1>1, <1>3 DEF IInv

\* What the caller writes is a file.
LEMMA ChangeKeeps ==
  ASSUME IInv, MayEdit, NEW f, IsFile(f), Change(f)
  PROVE  IInv'
<1>1. /\ file' = f /\ edits' = edits + 1 /\ phase' = "done"
      /\ UNCHANGED <<container, local, words, unusual>>
  BY DEF Change
<1>2. edits' \in 0 .. MaxEdits
  BY <1>1, ArgumentsAssumption DEF IInv, MayEdit
<1> QED
  BY <1>1, <1>2 DEF IInv, Ended

\* A key less.
LEMMA RemoveKeyKeeps ==
  ASSUME IInv, RemoveKey
  PROVE  IInv'
<1>1. PICK k \in EditedKeys \cap DOMAIN file : Change([j \in DOMAIN file \ {k} |-> file[j]])
  BY DEF RemoveKey
<1>2. MayEdit /\ IsFile(file)
  BY DEF RemoveKey, MayEdit, IInv
<1>3. IsFile([j \in DOMAIN file \ {k} |-> file[j]])
  BY <1>2 DEF IsFile
<1> QED
  BY <1>1, <1>2, <1>3, ChangeKeeps

\* A value that is none.
LEMMA GarbleValueKeeps ==
  ASSUME IInv, GarbleValue
  PROVE  IInv'
<1>1. PICK k \in EditedKeys \cap (Bools \cup Ints) \cap DOMAIN file, v \in {Garbled, TooLarge} :
        (v = TooLarge => k \in Ints \ Longs) /\ Change([file EXCEPT ![k] = v])
  BY DEF GarbleValue
<1>2. MayEdit /\ IsFile(file)
  BY DEF GarbleValue, MayEdit, IInv
<1>3. k \notin Strings /\ k \notin Arrays /\ k # "drop_caplist"
  BY Named DEF Bools, Ints, Strings
<1>4. k \in Longs => v # TooLarge
  BY <1>1
<1>5. IsFile([file EXCEPT ![k] = v])
  BY <1>2, <1>3, <1>4 DEF IsFile
<1> QED
  BY <1>1, <1>2, <1>5, ChangeKeeps

\* An entry less.
LEMMA ShortenArrayKeeps ==
  ASSUME IInv, ShortenArray
  PROVE  IInv'
<1>1. PICK a \in EditedKeys \cap Arrays \cap DOMAIN file :
        file[a] # <<>> /\ Change([file EXCEPT ![a] = Tail(@)])
  BY DEF ShortenArray
<1>2. MayEdit /\ IsFile(file)
  BY DEF ShortenArray, MayEdit, IInv
<1>3. a \notin Strings /\ a \notin Ints /\ a \notin Longs /\ a # "drop_caplist"
  BY Named DEF Ints, Longs, Strings
<1>4. file[a] \in Seq(Word)
  BY <1>2 DEF IsFile
<1>5. Tail(file[a]) \in Seq(Word)
  BY <1>1, <1>4, HeadTailProperties
<1>6. IsFile([file EXCEPT ![a] = Tail(file[a])])
  BY <1>2, <1>3, <1>5 DEF IsFile
<1> QED
  BY <1>1, <1>2, <1>6, ChangeKeeps

\* A name of a capability that is none.
LEMMA MisspellCapKeeps ==
  ASSUME IInv, MisspellCap
  PROVE  IInv'
<1> DEFINE l == file["drop_caplist"]
<1>1. PICK i \in DOMAIN l : Change([file EXCEPT !["drop_caplist"] = [l EXCEPT ![i] = UnknownCap]])
  BY DEF MisspellCap
<1>2. MayEdit /\ IsFile(file) /\ "drop_caplist" \in DOMAIN file
  BY DEF MisspellCap, MayEdit, IInv
<1>3. "drop_caplist" \notin Strings \cup Ints \cup Longs \cup Arrays
  BY Named DEF Ints, Longs, Strings
<1>4. l \in Seq(Caps \cup {UnknownCap})
  BY <1>2 DEF IsFile
<1>5. [l EXCEPT ![i] = UnknownCap] \in Seq(Caps \cup {UnknownCap})
  BY <1>4
<1>6. IsFile([file EXCEPT !["drop_caplist"] = [l EXCEPT ![i] = UnknownCap]])
  BY <1>2, <1>3, <1>5 DEF IsFile
<1> QED
  BY <1>1, <1>2, <1>6, ChangeKeeps

-----------------------------------------------------------------------------
(* The theorems *)

\* The first states.
LEMMA Starts ==
  ASSUME Init
  PROVE  IInv
<1>1. PICK noise \in BOOLEAN : container = ruri_init_config(noise)
  BY DEF Init
<1>2. IsContainer(container) /\ local \in Local
  BY <1>1, DefaultIs, LocalsAre DEF Init
<1>3. file = NoFile \/ IsFile(file)
  BY ArgumentsAssumption DEF Init
<1> QED
  BY <1>2, <1>3, ArgumentsAssumption DEF Init, IInv

\* Every step.
LEMMA StepKeeps ==
  ASSUME IInv, [Next]_vars
  PROVE  IInv'
<1>1. ASSUME NEW w \in Words,
             \/ ReadOption(w) \/ ReadCommand(w) \/ ReadLateUmount(w)
             \/ ReadConfigOption(w) \/ CorrectConfig(w) \/ ReadOther(w) \/ SkipWord(w)
      PROVE  IInv'
  BY <1>1, ReadOptionKeeps, ReadCommandKeeps, ReadLateUmountKeeps, ReadConfigOptionKeeps,
     CorrectConfigKeeps, ReadOtherKeeps, SkipWordKeeps
<1>2. CASE Refuses \/ DumpConfig \/ Start \/ NextCommand
  BY <1>2, RefusesKeeps, DumpConfigKeeps, StartKeeps, NextCommandKeeps
<1>3. CASE RemoveKey \/ GarbleValue \/ ShortenArray \/ MisspellCap
  BY <1>3, RemoveKeyKeeps, GarbleValueKeeps, ShortenArrayKeeps, MisspellCapKeeps
<1>4. CASE UNCHANGED vars
  BY <1>4 DEF vars, IInv
<1> QED
  BY <1>1, <1>2, <1>3, <1>4 DEF Next

\* The inductive invariant holds throughout.
LEMMA Invariant == Spec => []IInv
BY Starts, StepKeeps, PTL DEF Spec

\* The settings are well typed whatever options and files set them: no array is longer
\* than its limit or ends in the middle of an entry, and it has its end mark.
THEOREM TypeCorrect == Spec => []TypeOK
<1>1. IInv => TypeOK
  BY ContainerIsWellTyped DEF IInv, TypeOK, Local
<1> QED
  BY <1>1, Invariant, PTL

\* What ruri -D writes is accepted by ruri -c, whose ruri_read_config() takes every
\* setting from it but an empty list of capabilities, which it reads as the default.
THEOREM SettingsLast == Spec => []SettingsSurvive
<1>1. IInv => SettingsSurvive
  <2> SUFFICES ASSUME IInv, phase = "dumped"
               PROVE  /\ Accepts(InfoToK2v(container))
                      /\ \A noise \in BOOLEAN :
                           LET c == ReadConfig(ruri_init_config(noise), InfoToK2v(container))
                           IN  \A k \in Stored \ {"enable_unshare"} : c[k] = Back(container, k)
    BY DEF SettingsSurvive, Back
  <2>1. IsContainer(container) /\ Readable(container)
    BY DEF IInv
  <2>2. Accepts(InfoToK2v(container))
    BY <2>1, InfoIs
  <2>3. ASSUME NEW noise \in BOOLEAN
        PROVE  LET c == ReadConfig(ruri_init_config(noise), InfoToK2v(container))
               IN  \A k \in Stored \ {"enable_unshare"} : c[k] = Back(container, k)
    BY <2>1, ReadBack
  <2> QED
    BY <2>2, <2>3
<1> QED
  BY <1>1, Invariant, PTL

\* ruri -C leaves a file that ruri -c accepts, whatever was missing or garbled.
THEOREM CorrectedIsAccepted == Spec => []CorrectedFileIsAccepted
<1>1. IInv => CorrectedFileIsAccepted
  BY DEF IInv, CorrectedFileIsAccepted
<1> QED
  BY <1>1, Invariant, PTL

-----------------------------------------------------------------------------
(* The two ways to spell an option *)

\* The operands are checked alike.
LEMMA ChecksAgree ==
  ASSUME NEW w \in Words, w.spelled = "alone", HasLetter(w)
  PROVE  LET v == [w EXCEPT !.spelled = "combined"] IN Lacks(w) = Lacks(v) /\ Faults(w) = Faults(v)
<1> DEFINE v == [w EXCEPT !.spelled = "combined"]
<1>1. v.opt = w.opt /\ v.args = w.args /\ v.last = w.last /\ v.spelled = "combined"
  BY WordIs
<1> HIDE DEF v
<1>2. Missing(w) = Missing(v)
  BY <1>1 DEF Missing
<1>3. Check(w) = AloneCheck(w.opt) /\ Check(v) = CombinedCheck(w.opt)
  BY <1>1 DEF Check
<1>4. w.opt \notin {"pid_file", "timeout"}
  BY Options DEF HasLetter, Letters
<1>5. /\ AloneCheck(w.opt) \in {"first", "null"} <=> CombinedCheck(w.opt) \in {"first", "null"}
      /\ AloneCheck(w.opt) = "late" <=> CombinedCheck(w.opt) = "late"
  <2>1. CASE w.opt \in {"t", "E", "a", "c", "X"}
    BY <2>1 DEF AloneCheck, CombinedCheck
  <2>2. CASE w.opt \in {"q", "o", "L"}
    BY <2>2 DEF AloneCheck, CombinedCheck
  <2>3. CASE w.opt \in {"i", "O", "J"}
    BY <2>3 DEF AloneCheck, CombinedCheck
  <2>4. CASE w.opt \notin {"t", "E", "a", "c", "X", "q", "o", "L", "i", "O", "J"}
    <3>1. AloneCheck(w.opt) = "null" /\ CombinedCheck(w.opt) = "null"
      BY <1>4, <2>4 DEF AloneCheck, CombinedCheck
    <3> QED
      BY <3>1
  <2> QED
    BY <2>1, <2>2, <2>3, <2>4
<1>6. Lacks(w) = Lacks(v)
  BY <1>1, <1>2, <1>3, <1>5 DEF Lacks
<1>7. Faults(w) = Faults(v)
  BY <1>1, <1>2 DEF Faults
<1> QED
  BY <1>6, <1>7 DEF v

\* Options without an operand do the same, all but -x.
LEMMA FlagsAgree ==
  ASSUME NEW w \in Words, NEW v, w.opt \in Flags, w.opt \in Letters, w.opt # "x",
         v.opt = w.opt, v.last = w.last, w.spelled = "alone", v.spelled = "combined"
  PROVE  FlagEffect(w) = FlagEffect(v)
<1>1. Goes(w) = Goes(v)
  BY DEF Goes
<1>2. FlagsOf(w) = FlagsOf(v)
  <2>1. w.opt \in DOMAIN CombinedFlags \/ w.opt \in DOMAIN CombinedLateFlags
    BY Options DEF Letters, Flags
  <2>2. CASE w.opt \in DOMAIN CombinedFlags
    <3>1. FlagsOf(w) = AloneFlags[w.opt]
      BY <2>2, Options DEF FlagsOf
    <3>2. FlagsOf(v) = CombinedFlags[w.opt]
      BY <2>2 DEF FlagsOf
    <3> QED
      BY <2>2, <3>1, <3>2, Options
  <2>3. CASE w.opt \in DOMAIN CombinedLateFlags
    <3>1. w.opt \notin DOMAIN AloneFlags /\ w.opt \notin DOMAIN CombinedFlags
      BY <2>3, Options
    <3>2. FlagsOf(w) = LateFlags[w.opt]
      BY <3>1 DEF FlagsOf
    <3>3. FlagsOf(v) = CombinedLateFlags[w.opt]
      BY <3>1 DEF FlagsOf
    <3> QED
      BY <2>3, <3>2, <3>3, Options
  <2> QED
    BY <2>1, <2>2, <2>3
<1> QED
  BY <1>1, <1>2 DEF FlagEffect, Sets

\* So do -N and those that only parse_args() needs to know.
LEMMA NotesAgree ==
  ASSUME NEW w, NEW v, w.opt \in Notables,
         v.opt = w.opt, v.args = w.args, v.last = w.last
  PROVE  NoteEffect(w) = NoteEffect(v)
<1>1. Goes(w) = Goes(v) /\ Missing(w) = Missing(v)
  BY DEF Goes, Missing
<1>2. \A c : Sets(w, c) = Sets(v, c)
  BY <1>1 DEF Sets
<1>3. \A l : Notes(w, l) = Notes(v, l)
  BY <1>1 DEF Notes
<1>4. CASE w.opt = "o"
  <2> DEFINE l(u) == [local EXCEPT !.output_path = ~Missing(u) /\ u.args[1] = ConfigPath]
  <2>1. NoteEffect(w) = Notes(w, l(w)) /\ NoteEffect(v) = Notes(v, l(v))
    BY <1>4 DEF NoteEffect
  <2>2. l(w) = l(v)
    BY <1>1
  <2> HIDE DEF l
  <2> QED
    BY <1>3, <2>1, <2>2
<1>5. CASE w.opt \in {"N", "D", "b", "L", "f", "p", "even_unstable"}
  BY <1>2, <1>3, <1>5 DEF NoteEffect
<1> QED
  BY <1>4, <1>5 DEF Notables

\* So do options with a value.
LEMMA ValuesAgree ==
  ASSUME NEW w, NEW v, w.opt \in DOMAIN AloneValues, w.opt \in Letters,
         v.opt = w.opt, v.args = w.args, v.last = w.last,
         w.spelled = "alone", v.spelled = "combined"
  PROVE  ValueEffect(w) = ValueEffect(v)
<1>1. Goes(w) = Goes(v)
  BY DEF Goes
<1>2. FieldOf(w) = FieldOf(v)
  <2>1. w.opt \in DOMAIN CombinedValues
    BY Options DEF Letters
  <2> QED
    BY <2>1, Options DEF FieldOf
<1> QED
  BY <1>1, <1>2 DEF ValueEffect, Sets

\* So do those that add to an array, but for devices with a major number 0.
LEMMA ArraysAgree ==
  ASSUME NEW w, NEW v, w.opt \in DOMAIN AloneArrays, w.opt = "I" => w.args[2] # 0,
         v.opt = w.opt, v.args = w.args, v.last = w.last,
         w.spelled = "alone", v.spelled = "combined"
  PROVE  ArrayEffect(w) = ArrayEffect(v)
<1>1. Goes(w) = Goes(v)
  BY DEF Goes
<1>2. \A c : Sets(w, c) = Sets(v, c)
  BY <1>1 DEF Sets
<1>3. ArrayOf(w) = ArrayOf(v)
  BY Options DEF ArrayOf
<1>4. \A a, entry : Add(w, a, entry) = Add(v, a, entry)
  BY <1>2 DEF Add
<1>5. Rootfs(w) = Rootfs(v)
  BY <1>1, <1>3 DEF Rootfs, Sets
<1>6. w.opt = "I" => DeviceEffect(w) = DeviceEffect(v)
  <2>1. w.opt = "I" => NumbersTaken(w) = NumbersTaken(v)
    BY DEF NumbersTaken
  <2> QED
    BY <1>4, <2>1 DEF DeviceEffect
<1>7. CASE w.opt = "I"
  BY <1>6, <1>7 DEF ArrayEffect
<1>8. CASE w.opt # "I"
  <2> DEFINE E(u) == IF u.opt \in {"m", "M"} /\ u.args[2] = Root
                        /\ ~(u.opt = "m" /\ u.args[1] = Root) THEN Rootfs(u)
                     ELSE IF u.opt = "m" /\ u.args[1] = Root THEN Ends("refused")
                     ELSE Add(u, ArrayOf(u), u.args)
  <2>1. ArrayEffect(w) = E(w) /\ ArrayEffect(v) = E(v)
    BY <1>8 DEF ArrayEffect
  <2>2. E(w) = E(v)
    BY <1>3, <1>4, <1>5
  <2> QED
    BY <2>1, <2>2
<1> QED
  BY <1>7, <1>8

\* So do -l, -T, -k and -d, but for short names of capabilities.
LEMMA RestAgrees ==
  ASSUME NEW w, NEW v, w.opt = "d" => w.args[1] \notin DOMAIN ShortCap,
         v.opt = w.opt, v.args = w.args, v.last = w.last
  PROVE  /\ parse_cgroup_settings(w) = parse_cgroup_settings(v)
         /\ OffsetEffect(w) = OffsetEffect(v)
         /\ w.opt \in {"k", "d"} => CapEffect(w) = CapEffect(v)
<1>1. Goes(w) = Goes(v)
  BY DEF Goes
<1>2. parse_cgroup_settings(w) = parse_cgroup_settings(v)
  BY <1>1 DEF parse_cgroup_settings, Sets
<1>3. OffsetEffect(w) = OffsetEffect(v)
  BY <1>1 DEF OffsetEffect, Sets
<1>4. ASSUME w.opt \in {"k", "d"}
      PROVE  CapEffect(w) = CapEffect(v)
  <2> DEFINE name == w.args[1]
             cap(u) == IF TakesShortName(u) /\ u.args[1] \in DOMAIN ShortCap
                       THEN ShortCap[u.args[1]] ELSE u.args[1]
             l(u, c) == IF u.opt = "k" THEN [local EXCEPT !.keep = AddToCaplist(@, c)]
                        ELSE [local EXCEPT !.drop = AddToCaplist(@, c)]
             E(u, c) == IF c \notin Caps THEN Ends("refused") ELSE Notes(u, l(u, c))
  <2>1. CapEffect(w) = E(w, cap(w)) /\ CapEffect(v) = E(v, cap(v))
    BY DEF CapEffect
  <2>2. cap(w) = cap(v)
    BY <1>4 DEF TakesShortName
  <2>3. \A c : E(w, c) = E(v, c)
    BY <1>1 DEF Notes
  <2> HIDE DEF E, cap
  <2> QED
    BY <2>1, <2>2, <2>3
<1> QED
  BY <1>2, <1>3, <1>4

\* Documented options mean the same alone and among other letters behind one dash, in
\* every state parse_args() can be in, but for -x, -I with a major number 0 and -d with
\* a short name.
THEOREM SpellingsMeanTheSame == Spec => []SpellingsAgree
<1>1. ASSUME NEW w \in Words, HasLetter(w), ~Differs(w), w.spelled = "alone"
      PROVE  Effect(w) = Effect([w EXCEPT !.spelled = "combined"])
  <2> DEFINE v == [w EXCEPT !.spelled = "combined"]
  <2>1. v.opt = w.opt /\ v.args = w.args /\ v.last = w.last /\ v.spelled = "combined"
    BY WordIs
  <2>2. Lacks(w) = Lacks(v) /\ Faults(w) = Faults(v)
    BY <1>1, ChecksAgree
  <2> HIDE DEF v
  <2>3. w.opt \in Letters /\ w.opt # "x" /\ w.opt \in Flags \cup Notables \cup Valued
    BY <1>1, Options DEF HasLetter, Letters, Differs, Flags, Notables, Valued
  <2>4. ASSUME ~Lacks(w), ~Faults(w)
        PROVE  Kind(w) = Kind(v)
    <3>1. CASE w.opt \in Flags
      <4>1. FlagEffect(w) = FlagEffect(v)
        BY <1>1, <2>1, <2>3, <3>1, FlagsAgree
      <4> QED
        BY <2>1, <3>1, <4>1 DEF Kind
    <3>2. CASE w.opt \notin Flags /\ w.opt \in Notables
      <4>1. NoteEffect(w) = NoteEffect(v)
        BY <2>1, <3>2, NotesAgree
      <4> QED
        BY <2>1, <3>2, <4>1 DEF Kind
    <3>3. CASE w.opt \notin Flags /\ w.opt \notin Notables
      <4>1. Len(w.args) = Arity(w.opt)
        BY <2>3, <2>4, <3>3, Complete
      <4>2. CASE w.opt \in DOMAIN AloneValues
        <5>1. ValueEffect(w) = ValueEffect(v)
          BY <1>1, <2>1, <2>3, <4>2, ValuesAgree
        <5> QED
          BY <2>1, <3>3, <4>2, <5>1 DEF Kind
      <4>3. CASE w.opt \notin DOMAIN AloneValues /\ w.opt \in DOMAIN AloneArrays
        <5>1. w.opt = "I" => w.args[2] # 0
          <6>1. w.opt = "I" => Len(w.args) = 3
            BY <4>1 DEF Arity
          <6> QED
            BY <1>1, <6>1 DEF Differs
        <5>2. ArrayEffect(w) = ArrayEffect(v)
          BY <1>1, <2>1, <4>3, <5>1, ArraysAgree
        <5> QED
          BY <2>1, <3>3, <4>3, <5>2 DEF Kind
      <4>4. CASE w.opt \notin DOMAIN AloneValues /\ w.opt \notin DOMAIN AloneArrays
        <5>1. w.opt \in {"l", "T", "k", "d"}
          BY <2>3, <3>3, <4>4 DEF Valued
        <5>2. w.opt = "d" => w.args[1] \notin DOMAIN ShortCap
          <6>1. w.opt = "d" => Len(w.args) = 1
            BY <4>1 DEF Arity
          <6> QED
            BY <1>1, <6>1 DEF Differs
        <5>3. /\ parse_cgroup_settings(w) = parse_cgroup_settings(v)
              /\ OffsetEffect(w) = OffsetEffect(v)
              /\ w.opt \in {"k", "d"} => CapEffect(w) = CapEffect(v)
          BY <2>1, <5>2, RestAgrees
        <5> QED
          BY <2>1, <3>3, <4>4, <5>1, <5>3 DEF Kind
      <4> QED
        BY <4>2, <4>3, <4>4
    <3> QED
      BY <3>1, <3>2, <3>3
  <2>5. Effect(w) = IF Lacks(w) THEN Ends("refused")
                    ELSE IF Faults(w) THEN Ends("crashed") ELSE Kind(w)
    BY <2>3, EffectCases
  <2>6. Effect(v) = IF Lacks(v) THEN Ends("refused")
                    ELSE IF Faults(v) THEN Ends("crashed") ELSE Kind(v)
    BY <2>1, <2>3, EffectCases
  <2>7. Effect(w) = Effect(v)
    BY <2>2, <2>4, <2>5, <2>6
  <2> QED
    BY <2>7 DEF v
<1>2. SpellingsAgree
  BY <1>1 DEF SpellingsAgree
<1> QED
  BY <1>2, PTL
=============================================================================
