-------------------------- MODULE ConfigText_proofs --------------------------
(***************************************************************************)
(* Proofs about ConfigText: what the parser can rely on in any text, and   *)
(* after any changes to it.                                                *)
(***************************************************************************)
EXTENDS ConfigText, FiniteSetTheorems, SequenceTheorems, WellFoundedInduction, TLAPS

-----------------------------------------------------------------------------
(* Places in a text *)

\* A set of numbers that is not empty has a least element.
LEMMA Least ==
  ASSUME NEW T \in SUBSET Nat, T # {}
  PROVE  \E x \in T : \A y \in T : x <= y
<1>1. PICK x \in T : \A y \in T : <<y, x>> \notin OpToRel(<, Nat)
  BY WFMin, NatLessThanWellFounded, Zenon
<1>2. \A y \in T : ~(y < x)
  BY <1>1 DEF OpToRel
<1> QED
  BY <1>2

\* The first position that is wanted, or the one behind the last.
LEMMA FirstExists ==
  ASSUME NEW from \in Nat, NEW last \in Nat, from <= last, NEW W
  PROVE  \E i \in from .. last + 1 :
           (i = last + 1 \/ i \in W) /\ \A j \in from .. i - 1 : j \notin W
<1> DEFINE T == {i \in from .. last + 1 : i = last + 1 \/ i \in W}
<1>1. T \in SUBSET Nat /\ T # {}
  <2>1. last + 1 \in T
    OBVIOUS
  <2> QED
    BY <2>1
<1>2. PICK i \in T : \A j \in T : i <= j
  BY <1>1, Least
<1>3. \A j \in from .. i - 1 : j \notin W
  BY <1>2
<1> QED
  BY <1>2, <1>3

\* What holds of 1, and of the next number whenever of one, holds of all.
LEMMA Upward ==
  ASSUME NEW n \in Nat, NEW G, \A m \in 1 .. n : (m = 1 \/ m - 1 \in G) => m \in G
  PROVE  \A m \in 1 .. n : m \in G
<1> SUFFICES ASSUME NEW z \in 1 .. n, z \notin G
             PROVE  FALSE
  OBVIOUS
<1> DEFINE T == {k \in 1 .. n : k \notin G}
<1>1. T \in SUBSET Nat /\ T # {}
  <2>1. z \in T /\ T \subseteq 1 .. n
    OBVIOUS
  <2> HIDE DEF T
  <2> QED
    BY <2>1
<1>2. PICK m \in T : \A i \in T : m <= i
  <2> HIDE DEF T
  <2> QED
    BY <1>1, Least
<1>3. m \in 1 .. n /\ m \notin G
  BY <1>2
<1>4. m # 1 => m - 1 \in 1 .. n /\ ~(m <= m - 1)
  BY <1>3
<1>5. m # 1 => m - 1 \in G
  BY <1>2, <1>4
<1> QED
  BY <1>3, <1>5

\* Where characters end that are skipped.
LEMMA SkipIs ==
  ASSUME NEW from \in Nat, NEW last \in Nat, NEW chars, from <= last + 1
  PROVE  LET p == Skip(from, last, chars) IN
         /\ p \in from .. last + 1
         /\ p <= last => text[p] \notin chars
         /\ \A j \in from .. p - 1 : text[j] \in chars
<1>1. CASE from > last
  BY <1>1 DEF Skip, First
<1>2. CASE ~(from > last)
  <2> DEFINE W == {j \in from .. last : text[j] \notin chars}
             IsFirst(i) == /\ i = last + 1 \/ text[i] \notin chars
                           /\ \A j \in from .. i - 1 : ~(text[j] \notin chars)
  <2>0. from <= last
    BY <1>2
  <2> HIDE DEF W
  <2>1. \E i \in from .. last + 1 : (i = last + 1 \/ i \in W) /\ \A j \in from .. i - 1 : j \notin W
    BY <2>0, FirstExists, Zenon
  <2>2. \E k \in from .. last + 1 : IsFirst(k)
    BY <2>1 DEF W
  <2>3. Skip(from, last, chars) = CHOOSE k \in from .. last + 1 : IsFirst(k)
    BY <1>2 DEF Skip, First
  <2>4. Skip(from, last, chars) \in from .. last + 1 /\ IsFirst(Skip(from, last, chars))
    <3> HIDE DEF IsFirst
    <3> QED
      BY <2>2, <2>3
  <2> QED
    BY <1>2, <2>4
<1> QED
  BY <1>1, <1>2

\* Where one of some characters is found.
LEMMA FirstOfIs ==
  ASSUME NEW from \in Nat, NEW chars, N \in Nat, from <= N + 1
  PROVE  LET p == FirstOf(from, chars) IN
         /\ p \in from .. N + 1
         /\ p <= N => text[p] \in chars
         /\ \A j \in from .. p - 1 : text[j] \notin chars
<1>1. CASE from > N
  BY <1>1 DEF FirstOf, First
<1>2. CASE ~(from > N)
  <2> DEFINE W == {j \in from .. N : text[j] \in chars}
             IsFirst(i) == /\ i = N + 1 \/ text[i] \in chars
                           /\ \A j \in from .. i - 1 : ~(text[j] \in chars)
  <2>0. from <= N
    BY <1>2
  <2> HIDE DEF W
  <2>1. \E i \in from .. N + 1 : (i = N + 1 \/ i \in W) /\ \A j \in from .. i - 1 : j \notin W
    BY <2>0, FirstExists, Zenon
  <2>2. \E k \in from .. N + 1 : IsFirst(k)
    BY <2>1 DEF W
  <2>3. FirstOf(from, chars) = CHOOSE k \in from .. N + 1 : IsFirst(k)
    BY <1>2 DEF FirstOf, First
  <2>4. FirstOf(from, chars) \in from .. N + 1 /\ IsFirst(FirstOf(from, chars))
    <3> HIDE DEF IsFirst
    <3> QED
      BY <2>2, <2>3
  <2> QED
    BY <1>2, <2>4
<1> QED
  BY <1>1, <1>2

\* Where a closing character is found.
LEMMA CloseIs ==
  ASSUME NEW from \in Nat, NEW last \in Nat, NEW c, from <= last + 1
  PROVE  LET p == Close(from, last, c) IN
         /\ p \in from .. last + 1
         /\ p <= last => text[p] = c
         /\ \A j \in from .. p - 1 : ~Unescaped(text, from, j, c)
<1>1. CASE from > last
  BY <1>1 DEF Close, First
<1>2. CASE ~(from > last)
  <2> DEFINE W == {j \in from .. last : Unescaped(text, from, j, c)}
             IsFirst(i) == /\ i = last + 1 \/ Unescaped(text, from, i, c)
                           /\ \A j \in from .. i - 1 : ~(Unescaped(text, from, j, c))
  <2>0. from <= last
    BY <1>2
  <2> HIDE DEF W
  <2>1. \E i \in from .. last + 1 : (i = last + 1 \/ i \in W) /\ \A j \in from .. i - 1 : j \notin W
    BY <2>0, FirstExists, Zenon
  <2>2. \E k \in from .. last + 1 : IsFirst(k)
    BY <2>1 DEF W
  <2>3. Close(from, last, c) = CHOOSE k \in from .. last + 1 : IsFirst(k)
    BY <1>2 DEF Close, First
  <2>4. Close(from, last, c) \in from .. last + 1 /\ IsFirst(Close(from, last, c))
    <3> HIDE DEF IsFirst
    <3> QED
      BY <2>2, <2>3
  <2> QED
    BY <1>2, <2>4 DEF Unescaped
<1> QED
  BY <1>1, <1>2

-----------------------------------------------------------------------------
(* Texts *)

\* A sequence over a set is one over a larger set.
LEMMA Wider ==
  ASSUME NEW A, NEW B, A \subseteq B, NEW s \in Seq(A)
  PROVE  s \in Seq(B)
OBVIOUS

\* The characters the writer adds to the values, and what texts consist of.
Added  == {NL, Quote, "#", " ", "a", "k", "l", "=", ",", "[", "]"}
Symbol == STRING \cup Added

\* What is put together of sequences, step by step.
LEMMA FlattenSteps ==
  ASSUME NEW S, NEW seqs \in Seq(Seq(S)), Len(seqs) # 0
  PROVE  \E f \in [1 .. Len(seqs) -> Seq(S)] :
           /\ f[1] = seqs[1]
           /\ \A i \in 2 .. Len(seqs) : f[i] = f[i - 1] \o seqs[i]
           /\ FlattenSeq(seqs) = f[Len(seqs)]
<1> DEFINE n == Len(seqs)
           Step(g, i) == IF i = 1 THEN seqs[i] ELSE g[i-1] \o seqs[i]
           IsFlat(g) == g = [i \in 1 .. n |-> Step(g, i)]
           Upto(m) == \E g \in [1 .. m -> Seq(S)] : \A i \in 1 .. m : g[i] = Step(g, i)
<1>1. n \in Nat /\ n # 0 /\ \A i \in 1 .. n : seqs[i] \in Seq(S)
  OBVIOUS
<1>2. \A a, b \in Seq(S) : a \o b \in Seq(S)
  BY ConcatProperties, Zenon
<1>3. ASSUME NEW m \in 1 .. n, m = 1 \/ Upto(m - 1)
      PROVE  Upto(m)
  <2>1. CASE m = 1
    <3> DEFINE g == [i \in 1 .. 1 |-> seqs[1]]
    <3>1. g \in [1 .. m -> Seq(S)] /\ \A i \in 1 .. m : g[i] = Step(g, i)
      BY <1>1, <2>1
    <3> QED
      BY <3>1 DEF Upto
  <2>2. CASE m # 1
    <3>1. m - 1 \in 1 .. n /\ m \in 1 .. n
      BY <1>1, <2>2
    <3>2. PICK g \in [1 .. m - 1 -> Seq(S)] : \A i \in 1 .. m - 1 : g[i] = Step(g, i)
      BY <1>3, <2>2 DEF Upto
    <3>3. m - 1 \in 1 .. m - 1
      BY <1>1, <2>2, <3>1
    <3>4. PICK c \in Seq(S) : c = g[m - 1] \o seqs[m]
      <4>1. g[m - 1] \in Seq(S) /\ seqs[m] \in Seq(S)
        BY <1>1, <3>1, <3>2, <3>3
      <4> QED
        BY <1>2, <4>1
    <3> DEFINE h == [i \in 1 .. m |-> IF i = m THEN c ELSE g[i]]
    <3>5. h \in [1 .. m -> Seq(S)]
      BY <1>1, <3>1, <3>2
    <3>6. h[m] = c /\ \A i \in 1 .. m - 1 : h[i] = g[i]
      BY <1>1, <3>1
    <3> HIDE DEF h
    <3>7. ASSUME NEW i \in 1 .. m
          PROVE  h[i] = Step(h, i)
      <4>1. CASE i = m
        <5>1. h[m - 1] = g[m - 1]
          BY <3>3, <3>6
        <5> QED
          BY <2>2, <3>4, <3>6, <4>1, <5>1
      <4>2. CASE i # m
        <5>1. i \in 1 .. m - 1
          BY <1>1, <3>1, <4>2
        <5>2. h[i] = g[i] /\ g[i] = Step(g, i)
          BY <3>2, <3>6, <5>1
        <5>3. i # 1 => i - 1 \in 1 .. m - 1
          BY <1>1, <3>1, <5>1
        <5>4. i # 1 => h[i - 1] = g[i - 1]
          BY <3>6, <5>3
        <5> QED
          BY <5>2, <5>4
      <4> QED
        BY <4>1, <4>2
    <3> QED
      BY <3>5, <3>7 DEF Upto
  <2> QED
    BY <2>1, <2>2
<1>4. \E g : IsFlat(g)
  <2>1. Upto(n)
    <3> DEFINE G == {k \in 1 .. n : Upto(k)}
    <3> HIDE DEF Upto
    <3>1. \A m \in 1 .. n : (m = 1 \/ m - 1 \in G) => m \in G
      BY <1>3
    <3>2. \A m \in 1 .. n : m \in G
      <4> HIDE DEF G
      <4> QED
        BY <1>1, <3>1, Upward
    <3>3. n \in 1 .. n
      BY <1>1
    <3> QED
      BY <3>2, <3>3
  <2>2. PICK g \in [1 .. n -> Seq(S)] : \A i \in 1 .. n : g[i] = Step(g, i)
    BY <2>1
  <2>3. IsFlat(g)
    BY <2>2
  <2> QED
    BY <2>3
<1> DEFINE f == CHOOSE g : IsFlat(g)
<1>5. FlattenSeq(seqs) = f[n]
  BY <1>1 DEF FlattenSeq
<1>6. IsFlat(f)
  <2> HIDE DEF IsFlat
  <2> QED
    BY <1>4
<1> HIDE DEF f, Upto
<1>7. \A i \in 1 .. n : f[i] = Step(f, i)
  BY <1>6
<1>8. f[1] = seqs[1] /\ \A i \in 2 .. n : f[i] = f[i - 1] \o seqs[i]
  <2>1. 1 \in 1 .. n /\ \A i \in 2 .. n : i \in 1 .. n /\ i # 1
    BY <1>1
  <2>2. f[1] = Step(f, 1) /\ \A i \in 2 .. n : f[i] = Step(f, i)
    <3> HIDE DEF Step
    <3> QED
      BY <1>7, <2>1
  <2> QED
    BY <2>1, <2>2
<1>9. \A i \in 1 .. n : f[i] \in Seq(S)
  <2> DEFINE G == {k \in 1 .. n : f[k] \in Seq(S)}
  <2>1. ASSUME NEW m \in 1 .. n, m = 1 \/ m - 1 \in G
        PROVE  m \in G
    <3>1. CASE m = 1
      BY <1>1, <1>8, <3>1
    <3>2. CASE m # 1
      <4>1. m \in 2 .. n /\ m - 1 \in G
        BY <1>1, <2>1, <3>2
      <4> QED
        BY <1>1, <1>2, <1>8, <4>1
    <3> QED
      BY <3>1, <3>2
  <2>2. \A m \in 1 .. n : m \in G
    <3> HIDE DEF G
    <3> QED
      BY <1>1, <2>1, Upward
  <2> QED
    BY <2>2
<1>10. f \in [1 .. n -> Seq(S)]
  <2>1. f = [i \in 1 .. n |-> f[i]]
    BY <1>6
  <2> QED
    BY <1>9, <2>1
<1> QED
  BY <1>5, <1>8, <1>10

\* Where the parts of it are.
IsFlattened(F, S, seqs, Q) ==
  /\ Q \in [0 .. Len(seqs) -> Nat] /\ Q[0] = 0
  /\ \A i \in 1 .. Len(seqs) : Q[i] = Q[i - 1] + Len(seqs[i])
  /\ F \in Seq(S) /\ Len(F) = Q[Len(seqs)]
  /\ \A i \in 1 .. Len(seqs) : \A k \in 1 .. Len(seqs[i]) : F[Q[i - 1] + k] = seqs[i][k]

\* Each part is where the parts before it end.
LEMMA FlattenPlaces ==
  ASSUME NEW S, NEW seqs \in Seq(Seq(S)), Len(seqs) # 0
  PROVE  \E Q : IsFlattened(FlattenSeq(seqs), S, seqs, Q)
<1> DEFINE n == Len(seqs)
<1>1. n \in Nat /\ n # 0 /\ \A i \in 1 .. n : seqs[i] \in Seq(S) /\ Len(seqs[i]) \in Nat
  OBVIOUS
<1>2. PICK f \in [1 .. n -> Seq(S)] :
           /\ f[1] = seqs[1]
           /\ \A i \in 2 .. n : f[i] = f[i - 1] \o seqs[i]
           /\ FlattenSeq(seqs) = f[n]
  BY FlattenSteps
<1> DEFINE Q == [i \in 0 .. n |-> IF i = 0 THEN 0 ELSE Len(f[i])]
<1>3. Q \in [0 .. n -> Nat]
  BY <1>1, <1>2
<1>4. Q[0] = 0 /\ \A i \in 1 .. n : Q[i] = Len(f[i])
  BY <1>1
<1> HIDE DEF n, Q
<1>5. ASSUME NEW i \in 2 .. n
      PROVE  /\ i - 1 \in 1 .. n /\ i \in 1 .. n
             /\ Q[i] = Q[i - 1] + Len(seqs[i])
             /\ \A k \in 1 .. Q[i] : f[i][k] = IF k <= Q[i - 1] THEN f[i - 1][k]
                                               ELSE seqs[i][k - Q[i - 1]]
  <2>1. i - 1 \in 1 .. n /\ i \in 1 .. n
    BY <1>1
  <2>2. PICK a \in Seq(S) : a = f[i - 1]
    BY <1>2, <2>1
  <2>3. PICK b \in Seq(S) : b = seqs[i]
    BY <1>1, <2>1
  <2>4. f[i] = a \o b
    BY <1>2, <2>2, <2>3
  <2>5. Q[i] = Len(f[i]) /\ Q[i - 1] = Len(a)
    BY <1>4, <2>1, <2>2
  <2>6. /\ Len(a \o b) = Len(a) + Len(b)
        /\ \A k \in 1 .. Len(a) + Len(b) :
             (a \o b)[k] = IF k <= Len(a) THEN a[k] ELSE b[k - Len(a)]
    BY ConcatProperties
  <2>7. Q[i] = Q[i - 1] + Len(b)
    BY <2>4, <2>5, <2>6
  <2>8. \A k \in 1 .. Q[i] : f[i][k] = IF k <= Q[i - 1] THEN a[k] ELSE b[k - Q[i - 1]]
    BY <2>4, <2>5, <2>6, <2>7
  <2> QED
    BY <2>1, <2>2, <2>3, <2>7, <2>8
<1>6. Q[1] = Len(seqs[1]) /\ f[1] = seqs[1]
  <2>1. 1 \in 1 .. n
    BY <1>1
  <2> QED
    BY <1>2, <1>4, <2>1
<1>7. \A i \in 1 .. n : Q[i] = Q[i - 1] + Len(seqs[i])
  <2> SUFFICES ASSUME NEW i \in 1 .. n
               PROVE  Q[i] = Q[i - 1] + Len(seqs[i])
    OBVIOUS
  <2>1. CASE i = 1
    BY <1>1, <1>4, <1>6, <2>1
  <2>2. CASE i # 1
    <3>1. i \in 2 .. n
      BY <1>1, <2>2
    <3> QED
      BY <1>5, <3>1
  <2> QED
    BY <2>1, <2>2
<1> DEFINE In(m) == \A i \in 1 .. m : \A k \in 1 .. Len(seqs[i]) :
                      Q[i - 1] + k <= Q[m] /\ f[m][Q[i - 1] + k] = seqs[i][k]
<1>8. ASSUME NEW m \in 1 .. n, m = 1 \/ In(m - 1)
      PROVE  In(m)
  <2>1. CASE m = 1
    <3>1. \A k \in 1 .. Len(seqs[1]) : Q[0] + k <= Q[1] /\ f[1][Q[0] + k] = seqs[1][k]
      BY <1>1, <1>4, <1>6
    <3>2. \A i \in 1 .. 1 : i = 1 /\ i - 1 = 0
      OBVIOUS
    <3> QED
      BY <2>1, <3>1, <3>2
  <2>2. CASE m # 1
    <3>1. m \in 2 .. n
      BY <1>1, <2>2
    <3>2. In(m - 1)
      BY <1>8, <2>2
    <3> SUFFICES ASSUME NEW i \in 1 .. m, NEW k \in 1 .. Len(seqs[i])
                 PROVE  Q[i - 1] + k <= Q[m] /\ f[m][Q[i - 1] + k] = seqs[i][k]
      OBVIOUS
    <3>3. \A j \in 1 .. m - 1 : \A l \in 1 .. Len(seqs[j]) :
            Q[j - 1] + l <= Q[m - 1] /\ f[m - 1][Q[j - 1] + l] = seqs[j][l]
      BY <3>2
    <3> HIDE DEF In
    <3>4. /\ Q[m] = Q[m - 1] + Len(seqs[m])
          /\ \A j \in 1 .. Q[m] : f[m][j] = IF j <= Q[m - 1] THEN f[m - 1][j]
                                            ELSE seqs[m][j - Q[m - 1]]
      BY <1>5, <3>1
    <3>5. Q[m] = Q[m - 1] + Len(seqs[m])
      BY <3>4
    <3>6. /\ m - 1 \in 0 .. n /\ m \in 0 .. n /\ i - 1 \in 0 .. n /\ i \in 1 .. n /\ m \in 1 .. n
      BY <1>1, <3>1
    <3>7. /\ Q[m - 1] \in Nat /\ Q[m] \in Nat /\ Q[i - 1] \in Nat
          /\ Len(seqs[m]) \in Nat /\ Len(seqs[i]) \in Nat
      BY <1>1, <1>3, <3>6
    <3>8. PICK a \in Nat : a = Q[m - 1]
      BY <3>7, Zenon
    <3>9. PICK c \in Nat : c = Q[m]
      BY <3>7, Zenon
    <3>10. PICK b \in Nat : b = Len(seqs[m])
      BY <3>7, Zenon
    <3>11. PICK d \in Nat : d = Q[i - 1]
      BY <3>7, Zenon
    <3>12. c = a + b
      BY <3>5, <3>8, <3>9, <3>10, Zenon
    <3>13. \A j \in 1 .. c : f[m][j] = IF j <= a THEN f[m - 1][j] ELSE seqs[m][j - a]
      BY <3>4, <3>8, <3>9, Zenon
    <3>14. k \in Nat \ {0}
      BY <3>7
    <3>15. d + k <= c /\ f[m][d + k] = seqs[i][k]
      <4>1. CASE i = m
        <5>1. k \in 1 .. b /\ d = a
          BY <3>8, <3>10, <3>11, <4>1, Zenon
        <5>2. PICK j \in 1 .. c : j = d + k /\ ~(j <= a) /\ j - a = k /\ j <= c
          BY <3>12, <5>1
        <5>3. f[m][j] = seqs[m][j - a]
          BY <3>13, <5>2
        <5> QED
          BY <4>1, <5>2, <5>3, Zenon
      <4>2. CASE i # m
        <5>1. i \in 1 .. m - 1
          BY <1>1, <3>1, <4>2
        <5>2. d + k <= a /\ f[m - 1][d + k] = seqs[i][k]
          BY <3>3, <3>8, <3>11, <5>1, Zenon
        <5>3. d + k \in 1 .. c /\ d + k <= c
          BY <3>12, <3>14, <5>2
        <5>4. f[m][d + k] = f[m - 1][d + k]
          BY <3>13, <5>2, <5>3, Zenon
        <5> QED
          BY <5>2, <5>3, <5>4, Zenon
      <4> QED
        BY <4>1, <4>2
    <3> QED
      BY <3>9, <3>11, <3>15, Zenon
  <2> QED
    BY <2>1, <2>2
<1>9. FlattenSeq(seqs) \in Seq(S) /\ Len(FlattenSeq(seqs)) = Q[n]
  <2>1. n \in 1 .. n
    BY <1>1
  <2> QED
    BY <1>2, <1>4, <2>1
<1>10. ASSUME NEW i \in 1 .. n, NEW k \in 1 .. Len(seqs[i])
       PROVE  FlattenSeq(seqs)[Q[i - 1] + k] = seqs[i][k]
  <2> DEFINE G == {j \in 1 .. n : In(j)}
  <2>1. n \in 1 .. n
    BY <1>1
  <2>2. In(n)
    <3> HIDE DEF In
    <3>1. \A m \in 1 .. n : (m = 1 \/ m - 1 \in G) => m \in G
      BY <1>8
    <3>2. \A m \in 1 .. n : m \in G
      <4> HIDE DEF G
      <4> QED
        BY <1>1, <3>1, Upward
    <3> QED
      BY <2>1, <3>2
  <2> QED
    BY <1>2, <2>1, <2>2
<1> QED
  BY <1>3, <1>4, <1>7, <1>9, <1>10, Zenon DEF n, IsFlattened

-----------------------------------------------------------------------------
(* What was written, in its places *)

\* Texts of one and of two characters.
LEMMA OneIs ==
  ASSUME NEW C, NEW c \in C
  PROVE  \E t \in Seq(C) : t = <<c>> /\ Len(t) = 1 /\ t[1] = c
<1>1. <<c>> \in Seq(C) /\ Len(<<c>>) = 1 /\ <<c>>[1] = c
  OBVIOUS
<1> QED
  BY <1>1, Zenon

Pair(t, c, d) == t = <<c, d>> /\ Len(t) = 2 /\ t[1] = c /\ t[2] = d

\* There are such texts.
LEMMA TwoIs ==
  ASSUME NEW C, NEW c, NEW d, c \in C, d \in C
  PROVE  \E t \in Seq(C) : Pair(t, c, d)
<1>1. <<c, d>> \in Seq(C) /\ Len(<<c, d>>) = 2 /\ <<c, d>>[1] = c /\ <<c, d>>[2] = d
  OBVIOUS
<1> QED
  BY <1>1, Zenon DEF Pair

\* One text behind another.
Joined(w, u, a, v, b) ==
  /\ w = u \o v /\ Len(w) = a + b
  /\ \A i \in 1 .. a : w[i] = u[i]
  /\ \A i \in 1 .. b : w[a + i] = v[i]

\* Its parts are at the beginning and behind that.
LEMMA Behind ==
  ASSUME NEW C, NEW u \in Seq(C), NEW v \in Seq(C)
  PROVE  \E w \in Seq(C) : Joined(w, u, Len(u), v, Len(v))
<1>1. /\ u \o v \in Seq(C) /\ Len(u \o v) = Len(u) + Len(v)
      /\ \A i \in 1 .. Len(u) + Len(v) :
           (u \o v)[i] = IF i <= Len(u) THEN u[i] ELSE v[i - Len(u)]
  BY ConcatProperties
<1>2. PICK w \in Seq(C) : w = u \o v
  BY <1>1, Zenon
<1>3. PICK a \in Nat : a = Len(u)
  OBVIOUS
<1>4. PICK b \in Nat : b = Len(v)
  OBVIOUS
<1>5. Len(w) = a + b /\ \A i \in 1 .. a + b : w[i] = IF i <= a THEN u[i] ELSE v[i - a]
  BY <1>1, <1>2, <1>3, <1>4, Zenon
<1>6. \A i \in 1 .. a : w[i] = u[i]
  BY <1>5
<1>7. ASSUME NEW i \in 1 .. b
      PROVE  w[a + i] = v[i]
  <2>1. PICK j \in 1 .. a + b : j = a + i /\ ~(j <= a) /\ j - a = i
    OBVIOUS
  <2>2. w[j] = v[j - a]
    BY <1>5, <2>1
  <2> QED
    BY <2>1, <2>2, Zenon
<1>8. Joined(w, u, a, v, b)
  BY <1>2, <1>5, <1>6, <1>7, Zenon DEF Joined
<1> QED
  BY <1>3, <1>4, <1>8, Zenon

\* A value in quotes.
IsQuoted(q, s, m) ==
  /\ q = Quoted(s) /\ Len(q) = m + 2
  /\ q[1] = Quote /\ q[m + 2] = Quote /\ \A i \in 1 .. m : q[1 + i] = s[i]

\* Quoted() writes one.
LEMMA QuotedIs ==
  ASSUME NEW C, Quote \in C, NEW s \in Seq(C), NEW m, m = Len(s)
  PROVE  \E q \in Seq(C) : IsQuoted(q, s, m)
<1>1. m \in Nat
  OBVIOUS
<1>2. PICK c \in Seq(C) : c = <<Quote>> /\ Len(c) = 1 /\ c[1] = Quote
  BY OneIs, Zenon
<1>3. PICK u \in Seq(C) : Joined(u, c, 1, s, m)
  <2>1. \E j \in Seq(C) : Joined(j, c, Len(c), s, Len(s))
    BY Behind
  <2> QED
    BY <1>2, <2>1, Zenon
<1>4. Len(u) = 1 + m /\ Len(c) = 1
  BY <1>2, <1>3 DEF Joined
<1>5. PICK q \in Seq(C) : Joined(q, u, 1 + m, c, 1)
  <2>1. \E j \in Seq(C) : Joined(j, u, Len(u), c, Len(c))
    BY Behind
  <2> QED
    BY <1>4, <2>1, Zenon
<1>6. 1 \in 1 .. 1 /\ 1 \in 1 .. 1 + m /\ (1 + m) + 1 = m + 2 /\ \A i \in 1 .. m : 1 + i \in 1 .. 1 + m
  BY <1>1
<1>7. q[1] = Quote /\ q[m + 2] = Quote /\ \A i \in 1 .. m : q[1 + i] = s[i]
  BY <1>2, <1>3, <1>5, <1>6, Zenon DEF Joined
<1>8. q = Quoted(s)
  BY <1>2, <1>3, <1>5 DEF Quoted, Joined
<1> QED
  BY <1>5, <1>6, <1>7, <1>8, Zenon DEF Joined, IsQuoted

\* The lines above the first key.
IsComment(c) ==
  /\ c = k2v_add_comment(<<"#", NL>>, <<"a">>) /\ Len(c) = 6
  /\ c[1] = "#" /\ c[2] = NL /\ c[3] = "#" /\ c[4] = " " /\ c[5] = "a" /\ c[6] = NL

\* k2v_add_comment() writes them.
LEMMA CommentIs ==
  ASSUME NEW C, Added \subseteq C
  PROVE  \E c \in Seq(C) : IsComment(c)
<1>1. "#" \in C /\ NL \in C /\ " " \in C /\ "a" \in C
  BY DEF Added
<1>2. PICK a \in Seq(C) : Pair(a, "#", NL)
  BY <1>1, TwoIs
<1>3. PICK b \in Seq(C) : Pair(b, "#", " ")
  BY <1>1, TwoIs
<1>4. PICK d \in Seq(C) : d = <<"a">> /\ Len(d) = 1 /\ d[1] = "a"
  BY <1>1, OneIs, Zenon
<1>5. PICK e \in Seq(C) : e = <<NL>> /\ Len(e) = 1 /\ e[1] = NL
  BY <1>1, OneIs, Zenon
<1>6. PICK u \in Seq(C) : Joined(u, a, 2, b, 2)
  <2>1. \E j \in Seq(C) : Joined(j, a, Len(a), b, Len(b))
    BY Behind
  <2> QED
    BY <1>2, <1>3, <2>1, Zenon DEF Pair
<1>7. Len(u) = 4 /\ u[1] = "#" /\ u[2] = NL /\ u[3] = "#" /\ u[4] = " "
  <2>1. 1 \in 1 .. 2 /\ 2 \in 1 .. 2 /\ 2 + 1 = 3 /\ 2 + 2 = 4
    OBVIOUS
  <2> QED
    BY <1>2, <1>3, <1>6, <2>1, Zenon DEF Joined, Pair
<1>8. Len(u) = 4 /\ Len(d) = 1
  BY <1>4, <1>7
<1>9. PICK v \in Seq(C) : Joined(v, u, 4, d, 1)
  <2>1. \E j \in Seq(C) : Joined(j, u, Len(u), d, Len(d))
    BY Behind
  <2> QED
    BY <1>8, <2>1, Zenon
<1>10. Len(v) = 5 /\ v[1] = "#" /\ v[2] = NL /\ v[3] = "#" /\ v[4] = " " /\ v[5] = "a"
  <2>1. 1 \in 1 .. 4 /\ 2 \in 1 .. 4 /\ 3 \in 1 .. 4 /\ 4 \in 1 .. 4 /\ 1 \in 1 .. 1 /\ 4 + 1 = 5
    OBVIOUS
  <2> QED
    BY <1>4, <1>7, <1>9, <2>1, Zenon DEF Joined
<1>11. Len(v) = 5 /\ Len(e) = 1
  BY <1>5, <1>10
<1>12. PICK c \in Seq(C) : Joined(c, v, 5, e, 1)
  <2>1. \E j \in Seq(C) : Joined(j, v, Len(v), e, Len(e))
    BY Behind
  <2> QED
    BY <1>11, <2>1, Zenon
<1>13. /\ Len(c) = 6
       /\ c[1] = "#" /\ c[2] = NL /\ c[3] = "#" /\ c[4] = " " /\ c[5] = "a" /\ c[6] = NL
  <2>1. /\ 1 \in 1 .. 5 /\ 2 \in 1 .. 5 /\ 3 \in 1 .. 5 /\ 4 \in 1 .. 5 /\ 5 \in 1 .. 5
        /\ 1 \in 1 .. 1 /\ 5 + 1 = 6
    OBVIOUS
  <2> QED
    BY <1>5, <1>10, <1>12, <2>1, Zenon DEF Joined
<1>14. c = k2v_add_comment(<<"#", NL>>, <<"a">>)
  BY <1>2, <1>3, <1>4, <1>5, <1>6, <1>9, <1>12, Zenon DEF k2v_add_comment, Pair, Joined
<1> QED
  BY <1>13, <1>14 DEF IsComment

\* A line with a scalar.
IsScalarLine(t, s, m) ==
  /\ t = char_to_k2v(<<"k">>, s) /\ Len(t) = m + 5
  /\ t[1] = "k" /\ t[2] = "=" /\ t[3] = Quote /\ t[m + 4] = Quote /\ t[m + 5] = NL
  /\ \A i \in 1 .. m : t[i + 3] = s[i]

\* char_to_k2v() writes it.
LEMMA ScalarIs ==
  ASSUME NEW C, Added \subseteq C, NEW s \in Seq(C), NEW m, m = Len(s)
  PROVE  \E t \in Seq(C) : IsScalarLine(t, s, m)
<1>1. m \in Nat /\ "k" \in C /\ "=" \in C /\ NL \in C /\ Quote \in C
  <2>1. m \in Nat
    OBVIOUS
  <2> QED
    BY <2>1, Zenon DEF Added
<1>2. PICK a \in Seq(C) : a = <<"k">> /\ Len(a) = 1 /\ a[1] = "k"
  BY <1>1, OneIs, Zenon
<1>3. PICK b \in Seq(C) : b = <<"=">> /\ Len(b) = 1 /\ b[1] = "="
  BY <1>1, OneIs, Zenon
<1>4. PICK e \in Seq(C) : e = <<NL>> /\ Len(e) = 1 /\ e[1] = NL
  BY <1>1, OneIs, Zenon
<1>5. PICK q \in Seq(C) : IsQuoted(q, s, m)
  BY <1>1, QuotedIs
<1>6. PICK u \in Seq(C) : Joined(u, a, 1, b, 1)
  <2>1. \E j \in Seq(C) : Joined(j, a, Len(a), b, Len(b))
    BY Behind
  <2> QED
    BY <1>2, <1>3, <2>1, Zenon
<1>7. Len(u) = 2 /\ u[1] = "k" /\ u[2] = "="
  <2>1. 1 \in 1 .. 1 /\ 1 + 1 = 2
    OBVIOUS
  <2> QED
    BY <1>2, <1>3, <1>6, <2>1, Zenon DEF Joined
<1>8. Len(u) = 2 /\ Len(q) = m + 2
  BY <1>5, <1>7 DEF IsQuoted
<1>9. PICK v \in Seq(C) : Joined(v, u, 2, q, m + 2)
  <2>1. \E j \in Seq(C) : Joined(j, u, Len(u), q, Len(q))
    BY Behind
  <2> QED
    BY <1>8, <2>1, Zenon
<1>10. /\ Len(v) = m + 4 /\ v[1] = "k" /\ v[2] = "=" /\ v[3] = Quote /\ v[m + 4] = Quote
      /\ \A i \in 1 .. m : v[i + 3] = s[i]
  <2>1. /\ 1 \in 1 .. 2 /\ 2 \in 1 .. 2 /\ 1 \in 1 .. m + 2 /\ m + 2 \in 1 .. m + 2
        /\ 2 + 1 = 3 /\ 2 + (m + 2) = m + 4
        /\ \A i \in 1 .. m : 1 + i \in 1 .. m + 2 /\ 2 + (1 + i) = i + 3
    BY <1>1
  <2>2. v[1] = u[1] /\ v[2] = u[2] /\ v[3] = q[1] /\ v[m + 4] = q[m + 2]
    BY <1>9, <2>1, Zenon DEF Joined
  <2>3. \A i \in 1 .. m : v[i + 3] = q[1 + i]
    BY <1>9, <2>1, Zenon DEF Joined
  <2> QED
    BY <1>5, <1>7, <1>9, <2>1, <2>2, <2>3, Zenon DEF Joined, IsQuoted
<1>11. Len(v) = m + 4 /\ Len(e) = 1
  BY <1>4, <1>10
<1>12. PICK t \in Seq(C) : Joined(t, v, m + 4, e, 1)
  <2>1. \E j \in Seq(C) : Joined(j, v, Len(v), e, Len(e))
    BY Behind
  <2> QED
    BY <1>11, <2>1, Zenon
<1>13. /\ Len(t) = m + 5
       /\ t[1] = "k" /\ t[2] = "=" /\ t[3] = Quote /\ t[m + 4] = Quote /\ t[m + 5] = NL
       /\ \A i \in 1 .. m : t[i + 3] = s[i]
  <2>1. /\ (m + 4) + 1 = m + 5 /\ 1 \in 1 .. 1
        /\ 1 \in 1 .. m + 4 /\ 2 \in 1 .. m + 4 /\ 3 \in 1 .. m + 4 /\ m + 4 \in 1 .. m + 4
        /\ \A i \in 1 .. m : i + 3 \in 1 .. m + 4
    BY <1>1
  <2> QED
    BY <1>4, <1>10, <1>12, <2>1, Zenon DEF Joined
<1>14. t = char_to_k2v(<<"k">>, s)
  BY <1>2, <1>3, <1>4, <1>5, <1>6, <1>9, <1>12, Zenon DEF char_to_k2v, IsQuoted, Joined
<1> QED
  BY <1>13, <1>14 DEF IsScalarLine

\* An element, with the comma behind it unless it is the last.
Item(a, i) == IF i = Len(a) THEN Quoted(a[i]) ELSE Quoted(a[i]) \o <<",">>
Width(a, i) == Len(a[i]) + (IF i = Len(a) THEN 2 ELSE 3)

\* It is a number.
LEMMA WidthIs ==
  ASSUME NEW C, NEW a \in Seq(Seq(C)), NEW i \in 1 .. Len(a)
  PROVE  Len(a[i]) \in Nat /\ Width(a, i) \in Nat
<1>1. PICK s \in Seq(C) : s = a[i]
  OBVIOUS
<1>2. PICK m \in Nat : m = Len(s)
  OBVIOUS
<1>3. Width(a, i) = m + (IF i = Len(a) THEN 2 ELSE 3)
  BY <1>1, <1>2, Zenon DEF Width
<1>4. PICK x \in Nat : x = IF i = Len(a) THEN 2 ELSE 3
  OBVIOUS
<1>5. m + x \in Nat
  OBVIOUS
<1> QED
  BY <1>1, <1>2, <1>3, <1>4, <1>5, Zenon

IsItem(q, a, i) ==
  /\ q = Item(a, i) /\ Len(q) = Width(a, i)
  /\ q[1] = Quote /\ q[Len(a[i]) + 2] = Quote
  /\ \A k \in 1 .. Len(a[i]) : q[1 + k] = a[i][k]
  /\ i # Len(a) => q[Len(a[i]) + 3] = ","

\* char_array_to_k2v() writes one for each value.
LEMMA ItemIs ==
  ASSUME NEW C, Added \subseteq C, NEW a \in Seq(Seq(C)), NEW i \in 1 .. Len(a)
  PROVE  \E q \in Seq(C) : IsItem(q, a, i)
<1>1. PICK s \in Seq(C) : s = a[i]
  OBVIOUS
<1>2. PICK m \in Nat : m = Len(s)
  OBVIOUS
<1>3. Quote \in C /\ "," \in C
  BY DEF Added
<1>4. PICK q \in Seq(C) : IsQuoted(q, s, m)
  BY <1>2, <1>3, QuotedIs
<1>5. CASE i = Len(a)
  <2>1. Item(a, i) = q /\ Width(a, i) = m + 2
    BY <1>1, <1>2, <1>4, <1>5, Zenon DEF Item, Width, IsQuoted
  <2> QED
    BY <1>1, <1>2, <1>4, <1>5, <2>1, Zenon DEF IsItem, IsQuoted
<1>6. CASE i # Len(a)
  <2>1. PICK c \in Seq(C) : c = <<",">> /\ Len(c) = 1 /\ c[1] = ","
    BY <1>3, OneIs, Zenon
  <2>2. Len(q) = m + 2
    BY <1>4 DEF IsQuoted
  <2>3. PICK w \in Seq(C) : Joined(w, q, m + 2, c, 1)
    <3>1. \E j \in Seq(C) : Joined(j, q, Len(q), c, Len(c))
      BY Behind
    <3> QED
      BY <2>1, <2>2, <3>1, Zenon
  <2>4. Item(a, i) = w /\ Width(a, i) = m + 3
    <3>1. w = Quoted(a[i]) \o <<",">>
      BY <1>1, <1>4, <2>1, <2>3, Zenon DEF Joined, IsQuoted
    <3> QED
      BY <1>1, <1>2, <1>6, <3>1, Zenon DEF Item, Width
  <2>5. /\ 1 \in 1 .. m + 2 /\ m + 2 \in 1 .. m + 2 /\ (m + 2) + 1 = m + 3 /\ 1 \in 1 .. 1
        /\ \A k \in 1 .. m : 1 + k \in 1 .. m + 2
    OBVIOUS
  <2>6. /\ Len(w) = m + 3 /\ w[1] = Quote /\ w[m + 2] = Quote /\ w[m + 3] = ","
        /\ \A k \in 1 .. m : w[1 + k] = s[k]
    BY <1>4, <2>1, <2>3, <2>5, Zenon DEF Joined, IsQuoted
  <2> QED
    BY <1>1, <1>2, <2>4, <2>6, Zenon DEF IsItem
<1> QED
  BY <1>5, <1>6

\* All elements, one behind the other.
IsItems(F, a, Q) ==
  /\ F = FlattenSeq([i \in DOMAIN a |-> Item(a, i)])
  /\ Q \in [0 .. Len(a) -> Nat] /\ Q[0] = 0 /\ Len(F) = Q[Len(a)]
  /\ \A i \in 1 .. Len(a) :
       /\ Q[i] = Q[i - 1] + Width(a, i)
       /\ F[Q[i - 1] + 1] = Quote /\ F[Q[i - 1] + (Len(a[i]) + 2)] = Quote
       /\ \A k \in 1 .. Len(a[i]) : F[Q[i - 1] + (1 + k)] = a[i][k]
       /\ i # Len(a) => F[Q[i - 1] + (Len(a[i]) + 3)] = ","

\* It writes them so.
LEMMA ItemsAre ==
  ASSUME NEW C, Added \subseteq C, NEW a \in Seq(Seq(C))
  PROVE  \E F \in Seq(C) : \E Q : IsItems(F, a, Q)
<1>1. PICK n \in Nat : n = Len(a)
  OBVIOUS
<1> DEFINE items == [i \in DOMAIN a |-> Item(a, i)]
<1>2. DOMAIN a = 1 .. n
  BY <1>1
<1>3. \A i \in 1 .. n : Item(a, i) \in Seq(C) /\ IsItem(Item(a, i), a, i)
  <2> SUFFICES ASSUME NEW i \in 1 .. n
               PROVE  Item(a, i) \in Seq(C) /\ IsItem(Item(a, i), a, i)
    OBVIOUS
  <2>1. \E q \in Seq(C) : IsItem(q, a, i)
    BY <1>1, ItemIs
  <2> QED
    BY <2>1, Zenon DEF IsItem
<1>4. items \in Seq(Seq(C)) /\ Len(items) = n /\ \A i \in 1 .. n : items[i] = Item(a, i)
  <2>1. items \in [1 .. n -> Seq(C)]
    BY <1>2, <1>3
  <2>2. \A i \in 1 .. n : items[i] = Item(a, i)
    BY <1>2
  <2> HIDE DEF items
  <2> QED
    BY <2>1, <2>2
<1> HIDE DEF items
<1>5. CASE n = 0
  <2>1. items = <<>>
    BY <1>4, <1>5
  <2>2. FlattenSeq(items) = <<>>
    BY <2>1 DEF FlattenSeq
  <2>3. PICK F \in Seq(C) : F = <<>> /\ Len(F) = 0
    <3>1. <<>> \in Seq(C) /\ Len(<<>>) = 0
      OBVIOUS
    <3> QED
      BY <3>1, Zenon
  <2>4. PICK Q : Q = [i \in 0 .. 0 |-> 0]
    OBVIOUS
  <2>5. Q \in [0 .. 0 -> Nat] /\ Q[0] = 0
    BY <2>4
  <2>6. \A i \in 1 .. 0 : FALSE
    OBVIOUS
  <2>7. IsItems(F, a, Q)
    BY <1>1, <1>5, <2>2, <2>3, <2>5, <2>6, Zenon DEF IsItems, items
  <2> QED
    BY <2>7
<1>6. CASE n # 0
  <2>1. PICK Q : IsFlattened(FlattenSeq(items), C, items, Q)
    BY <1>4, <1>6, FlattenPlaces
  <2>2. PICK F \in Seq(C) : F = FlattenSeq(items)
    BY <2>1, Zenon DEF IsFlattened
  <2>3. ASSUME NEW i \in 1 .. n
        PROVE  /\ Q[i] = Q[i - 1] + Width(a, i)
               /\ F[Q[i - 1] + 1] = Quote /\ F[Q[i - 1] + (Len(a[i]) + 2)] = Quote
               /\ \A k \in 1 .. Len(a[i]) : F[Q[i - 1] + (1 + k)] = a[i][k]
               /\ i # n => F[Q[i - 1] + (Len(a[i]) + 3)] = ","
    <3>1. PICK q : q = items[i] /\ IsItem(q, a, i)
      BY <1>3, <1>4
    <3>2. PICK m \in Nat : m = Len(a[i])
      BY <1>1
    <3>3. Q[i] = Q[i - 1] + Width(a, i) /\ \A k \in 1 .. Width(a, i) : F[Q[i - 1] + k] = q[k]
      <4>1. i \in 1 .. Len(items)
        BY <1>4
      <4>2. /\ Q[i] = Q[i - 1] + Len(items[i])
            /\ \A k \in 1 .. Len(items[i]) : FlattenSeq(items)[Q[i - 1] + k] = items[i][k]
        BY <2>1, <4>1, Zenon DEF IsFlattened
      <4>3. Len(items[i]) = Width(a, i)
        BY <3>1, Zenon DEF IsItem
      <4> QED
        BY <2>2, <3>1, <4>2, <4>3, Zenon
    <3>4. /\ 1 \in 1 .. Width(a, i) /\ m + 2 \in 1 .. Width(a, i)
          /\ \A k \in 1 .. m : 1 + k \in 1 .. Width(a, i)
          /\ i # n => m + 3 \in 1 .. Width(a, i)
      <4>1. Width(a, i) = IF i = n THEN m + 2 ELSE m + 3
        BY <1>1, <3>2 DEF Width
      <4> QED
        BY <4>1
    <3> QED
      BY <1>1, <3>1, <3>2, <3>3, <3>4, Zenon DEF IsItem
  <2>4. IsItems(F, a, Q)
    BY <1>1, <1>4, <2>1, <2>2, <2>3, Zenon DEF IsItems, items, IsFlattened
  <2> QED
    BY <2>4
<1> QED
  BY <1>5, <1>6

\* The places of the elements rise.
LEMMA ItemsGrow ==
  ASSUME NEW C, NEW a \in Seq(Seq(C)), NEW F, NEW Q, IsItems(F, a, Q)
  PROVE  \A i \in 1 .. Len(a) : Q[i] <= Q[Len(a)]
<1>1. PICK n \in Nat : n = Len(a)
  OBVIOUS
<1>2. Q \in [0 .. n -> Nat] /\ \A i \in 1 .. n : Q[i] = Q[i - 1] + Width(a, i)
  BY <1>1, Zenon DEF IsItems
<1>3. \A i \in 1 .. n : Width(a, i) \in Nat
  BY <1>1, WidthIs
<1>4. \A i \in 1 .. n : Q[i - 1] <= Q[i]
  <2> SUFFICES ASSUME NEW i \in 1 .. n
               PROVE  Q[i - 1] <= Q[i]
    OBVIOUS
  <2>1. PICK x \in Nat : x = Q[i - 1]
    BY <1>2
  <2>2. PICK z \in Nat : z = Width(a, i)
    BY <1>3
  <2> QED
    BY <1>2, <2>1, <2>2
<1> DEFINE G == {j \in 1 .. n : \A i \in 1 .. j : Q[i] <= Q[j]}
<1>5. ASSUME NEW m \in 1 .. n, m = 1 \/ m - 1 \in G
      PROVE  m \in G
  <2>1. \A i \in 1 .. m : Q[i] \in Nat
    BY <1>2
  <2>2. CASE m = 1
    BY <2>1, <2>2
  <2>3. CASE m # 1
    <3>1. \A i \in 1 .. m - 1 : Q[i] <= Q[m - 1]
      BY <1>5, <2>3
    <3>2. Q[m - 1] <= Q[m]
      BY <1>4
    <3>3. Q[m - 1] \in Nat /\ Q[m] \in Nat
      BY <1>2
    <3>4. \A i \in 1 .. m : i = m \/ i \in 1 .. m - 1
      OBVIOUS
    <3>5. ASSUME NEW i \in 1 .. m
          PROVE  Q[i] <= Q[m]
      <4>1. CASE i = m
        BY <3>3, <4>1
      <4>2. CASE i \in 1 .. m - 1
        <5>1. Q[i] <= Q[m - 1] /\ Q[i] \in Nat
          BY <2>1, <3>1, <4>2
        <5> QED
          BY <3>2, <3>3, <5>1
      <4> QED
        BY <3>4, <4>1, <4>2
    <3> QED
      BY <3>5
  <2> QED
    BY <2>2, <2>3
<1>6. \A m \in 1 .. n : m \in G
  <2> HIDE DEF G
  <2> QED
    BY <1>5, Upward
<1> QED
  BY <1>1, <1>6

\* A line with an array: P has the places of the elements, and of the end.
AreElements(t, a, P) ==
  /\ P \in [1 .. Len(a) + 1 -> Nat]
  /\ \A i \in 1 .. Len(a) :
       /\ P[i + 1] = P[i] + Width(a, i)
       /\ t[P[i]] = Quote /\ t[P[i] + Len(a[i]) + 1] = Quote
       /\ \A k \in 1 .. Len(a[i]) : t[P[i] + k] = a[i][k]
       /\ i # Len(a) => t[P[i] + Len(a[i]) + 2] = ","
  /\ t[P[Len(a) + 1]] = "]" /\ t[P[Len(a) + 1] + 1] = NL /\ Len(t) = P[Len(a) + 1] + 1

IsArrayLine(t, a, P) ==
  /\ t = char_array_to_k2v(<<"l">>, a)
  /\ t[1] = "l" /\ t[2] = "=" /\ t[3] = "[" /\ P[1] = 4 /\ AreElements(t, a, P)

\* char_array_to_k2v() writes it.
LEMMA ArrayIs ==
  ASSUME NEW C, Added \subseteq C, NEW a \in Seq(Seq(C))
  PROVE  \E t \in Seq(C) : \E P : IsArrayLine(t, a, P)
<1>1. "l" \in C /\ "=" \in C /\ "[" \in C /\ "]" \in C /\ NL \in C
  BY DEF Added
<1>2. PICK n \in Nat : n = Len(a)
  OBVIOUS
<1>3. PICK F \in Seq(C) : \E Q : IsItems(F, a, Q)
  BY ItemsAre
<1>4. PICK Q : IsItems(F, a, Q)
  BY <1>3
<1>5. PICK w \in Nat : w = Len(F)
  OBVIOUS
<1>6. PICK b \in Seq(C) : b = <<"l">> /\ Len(b) = 1 /\ b[1] = "l"
  BY <1>1, OneIs, Zenon
<1>7. PICK c \in Seq(C) : Pair(c, "=", "[")
  BY <1>1, TwoIs
<1>8. PICK d \in Seq(C) : Pair(d, "]", NL)
  BY <1>1, TwoIs
<1>9. PICK u \in Seq(C) : Joined(u, b, 1, c, 2)
  <2>1. \E j \in Seq(C) : Joined(j, b, Len(b), c, Len(c))
    BY Behind
  <2> QED
    BY <1>6, <1>7, <2>1, Zenon DEF Pair
<1>10. Len(u) = 3 /\ u[1] = "l" /\ u[2] = "=" /\ u[3] = "["
  <2>1. 1 \in 1 .. 1 /\ 1 \in 1 .. 2 /\ 2 \in 1 .. 2 /\ 1 + 1 = 2 /\ 1 + 2 = 3
    OBVIOUS
  <2> QED
    BY <1>6, <1>7, <1>9, <2>1, Zenon DEF Joined, Pair
<1>11. PICK v \in Seq(C) : Joined(v, u, 3, F, w)
  <2>1. \E j \in Seq(C) : Joined(j, u, Len(u), F, Len(F))
    BY Behind
  <2> QED
    BY <1>5, <1>10, <2>1, Zenon
<1>12. PICK t \in Seq(C) : Joined(t, v, 3 + w, d, 2)
  <2>1. \E j \in Seq(C) : Joined(j, v, Len(v), d, Len(d))
    BY Behind
  <2>2. Len(v) = 3 + w /\ Len(d) = 2
    BY <1>8, <1>11, Zenon DEF Joined, Pair
  <2> QED
    BY <2>1, <2>2, Zenon
<1>13. /\ t[1] = "l" /\ t[2] = "=" /\ t[3] = "[" /\ Len(t) = (3 + w) + 2
       /\ \A k \in 1 .. w : t[3 + k] = F[k]
       /\ t[(3 + w) + 1] = "]" /\ t[(3 + w) + 2] = NL
  <2>1. /\ 1 \in 1 .. 3 /\ 2 \in 1 .. 3 /\ 3 \in 1 .. 3
        /\ 1 \in 1 .. 3 + w /\ 2 \in 1 .. 3 + w /\ 3 \in 1 .. 3 + w
        /\ 1 \in 1 .. 2 /\ 2 \in 1 .. 2
        /\ \A k \in 1 .. w : 3 + k \in 1 .. 3 + w
    OBVIOUS
  <2>2. t[1] = v[1] /\ t[2] = v[2] /\ t[3] = v[3]
    BY <1>12, <2>1, Zenon DEF Joined
  <2>3. v[1] = u[1] /\ v[2] = u[2] /\ v[3] = u[3]
    BY <1>11, <2>1, Zenon DEF Joined
  <2>4. \A k \in 1 .. w : t[3 + k] = F[k]
    BY <1>11, <1>12, <2>1, Zenon DEF Joined
  <2>5. Len(t) = (3 + w) + 2 /\ t[(3 + w) + 1] = "]" /\ t[(3 + w) + 2] = NL
    BY <1>8, <1>12, <2>1, Zenon DEF Joined, Pair
  <2> QED
    BY <1>10, <2>2, <2>3, <2>4, <2>5, Zenon
<1> DEFINE P == [i \in 1 .. n + 1 |-> Q[i - 1] + 4]
<1>14. Q \in [0 .. n -> Nat] /\ Q[0] = 0 /\ Q[n] = w
  BY <1>2, <1>4, <1>5, Zenon DEF IsItems
<1>15. P \in [1 .. n + 1 -> Nat] /\ P[1] = 4 /\ P[n + 1] = w + 4
  <2>1. \A i \in 1 .. n + 1 : i - 1 \in 0 .. n /\ Q[i - 1] + 4 \in Nat
    BY <1>14
  <2>2. 1 \in 1 .. n + 1 /\ n + 1 \in 1 .. n + 1 /\ 1 - 1 = 0 /\ (n + 1) - 1 = n
    OBVIOUS
  <2>3. P[1] = Q[1 - 1] + 4 /\ P[n + 1] = Q[(n + 1) - 1] + 4
    BY <2>2, Zenon
  <2>4. P \in [1 .. n + 1 -> Nat]
    BY <2>1
  <2> QED
    BY <1>14, <2>2, <2>3, <2>4
<1>16. ASSUME NEW i \in 1 .. n
       PROVE  /\ P[i + 1] = P[i] + Width(a, i)
              /\ t[P[i]] = Quote /\ t[P[i] + Len(a[i]) + 1] = Quote
              /\ \A k \in 1 .. Len(a[i]) : t[P[i] + k] = a[i][k]
              /\ i # n => t[P[i] + Len(a[i]) + 2] = ","
  <2>1. PICK m \in Nat : m = Len(a[i])
    BY <1>2
  <2>2. PICK x \in Nat : x = Q[i - 1]
    BY <1>14
  <2>3. PICK z : z = Width(a, i) /\ z = IF i = n THEN m + 2 ELSE m + 3
    BY <1>2, <2>1 DEF Width
  <2>4. /\ Q[i] = x + z /\ F[x + 1] = Quote /\ F[x + (m + 2)] = Quote
        /\ \A k \in 1 .. m : F[x + (1 + k)] = a[i][k]
        /\ i # n => F[x + (m + 3)] = ","
    BY <1>2, <1>4, <2>1, <2>2, <2>3, Zenon DEF IsItems
  <2>5. Q[i] <= w
    BY <1>2, <1>4, <1>14, ItemsGrow
  <2>6. P[i] = x + 4 /\ P[i + 1] = x + z + 4
    <3>1. i \in 1 .. n + 1 /\ i + 1 \in 1 .. n + 1 /\ (i + 1) - 1 = i
      OBVIOUS
    <3>2. P[i] = Q[i - 1] + 4 /\ P[i + 1] = Q[(i + 1) - 1] + 4
      BY <3>1, Zenon
    <3> QED
      BY <2>2, <2>4, <3>1, <3>2, Zenon
  <2> HIDE DEF P
  <2>7. P[i + 1] = P[i] + z
    BY <2>3, <2>6
  <2>8. /\ x + 1 \in 1 .. w /\ x + (m + 2) \in 1 .. w
        /\ \A k \in 1 .. m : x + (1 + k) \in 1 .. w
        /\ i # n => x + (m + 3) \in 1 .. w
    <3>1. x + z <= w
      BY <2>4, <2>5
    <3> QED
      BY <2>3, <3>1
  <2>9. /\ 3 + (x + 1) = P[i] /\ 3 + (x + (m + 2)) = P[i] + m + 1 /\ 3 + (x + (m + 3)) = P[i] + m + 2
        /\ \A k \in 1 .. m : 3 + (x + (1 + k)) = P[i] + k
    BY <2>6
  <2>10. /\ t[P[i]] = Quote /\ t[P[i] + m + 1] = Quote
         /\ i # n => t[P[i] + m + 2] = ","
    BY <1>13, <2>4, <2>8, <2>9, Zenon
  <2>11. \A k \in 1 .. m : t[P[i] + k] = a[i][k]
    BY <1>13, <2>4, <2>8, <2>9, Zenon
  <2> QED
    BY <2>1, <2>3, <2>7, <2>10, <2>11, Zenon
<1>17. t[P[n + 1]] = "]" /\ t[P[n + 1] + 1] = NL /\ Len(t) = P[n + 1] + 1
  <2> HIDE DEF P
  <2>1. P[n + 1] = (3 + w) + 1 /\ P[n + 1] + 1 = (3 + w) + 2
    BY <1>15
  <2> QED
    BY <1>13, <2>1, Zenon
<1>18. t = char_array_to_k2v(<<"l">>, a)
  <2>1. [i \in DOMAIN a |-> IF i = Len(a) THEN Quoted(a[i]) ELSE Quoted(a[i]) \o <<",">>]
          = [i \in DOMAIN a |-> Item(a, i)]
    BY DEF Item
  <2>2. t = ((b \o c) \o F) \o d
    BY <1>9, <1>11, <1>12, Zenon DEF Joined
  <2>3. F = FlattenSeq([i \in DOMAIN a |-> Item(a, i)])
    BY <1>4, Zenon DEF IsItems
  <2> QED
    BY <1>6, <1>7, <1>8, <2>1, <2>2, <2>3, Zenon DEF char_array_to_k2v, Pair
<1> HIDE DEF P
<1>19. IsArrayLine(t, a, P)
  BY <1>2, <1>13, <1>15, <1>16, <1>17, <1>18, Zenon DEF IsArrayLine, AreElements
<1> QED
  BY <1>19

\* The places of the elements rise.
LEMMA ElementsGrow ==
  ASSUME NEW C, NEW a \in Seq(Seq(C)), NEW t, NEW P, AreElements(t, a, P)
  PROVE  \A i, j \in 1 .. Len(a) + 1 : i <= j => P[i] <= P[j]
<1>1. PICK n \in Nat : n = Len(a)
  OBVIOUS
<1>2. P \in [1 .. n + 1 -> Nat] /\ \A i \in 1 .. n : P[i + 1] = P[i] + Width(a, i)
  BY <1>1, Zenon DEF AreElements
<1>3. \A i \in 1 .. n : Width(a, i) \in Nat
  BY <1>1, WidthIs
<1>4. \A i \in 1 .. n : P[i] <= P[i + 1]
  <2> SUFFICES ASSUME NEW i \in 1 .. n
               PROVE  P[i] <= P[i + 1]
    OBVIOUS
  <2>1. PICK x \in Nat : x = P[i]
    BY <1>2
  <2>2. PICK z \in Nat : z = Width(a, i)
    BY <1>3
  <2> QED
    BY <1>2, <2>1, <2>2
<1> DEFINE G == {j \in 1 .. n + 1 : \A i \in 1 .. j : P[i] <= P[j]}
<1>5. ASSUME NEW m \in 1 .. n + 1, m = 1 \/ m - 1 \in G
      PROVE  m \in G
  <2>1. \A i \in 1 .. m : P[i] \in Nat
    BY <1>2
  <2>2. CASE m = 1
    BY <2>1, <2>2
  <2>3. CASE m # 1
    <3>1. \A i \in 1 .. m - 1 : P[i] <= P[m - 1]
      BY <1>5, <2>3
    <3>2. P[m - 1] <= P[m]
      <4>1. m - 1 \in 1 .. n /\ (m - 1) + 1 = m
        BY <2>3
      <4> QED
        BY <1>4, <4>1
    <3>3. P[m - 1] \in Nat /\ P[m] \in Nat
      BY <1>2, <2>3
    <3>4. \A i \in 1 .. m : i = m \/ i \in 1 .. m - 1
      OBVIOUS
    <3>5. ASSUME NEW i \in 1 .. m
          PROVE  P[i] <= P[m]
      <4>1. CASE i = m
        BY <3>3, <4>1
      <4>2. CASE i \in 1 .. m - 1
        <5>1. P[i] <= P[m - 1] /\ P[i] \in Nat
          BY <2>1, <3>1, <4>2
        <5> QED
          BY <3>2, <3>3, <5>1
      <4> QED
        BY <3>4, <4>1, <4>2
    <3> QED
      BY <3>5
  <2> QED
    BY <2>2, <2>3
<1>6. \A m \in 1 .. n + 1 : m \in G
  <2>1. n + 1 \in Nat
    OBVIOUS
  <2> HIDE DEF G
  <2> QED
    BY <1>5, <2>1, Upward
<1>7. ASSUME NEW i \in 1 .. n + 1, NEW j \in 1 .. n + 1, i <= j
      PROVE  P[i] <= P[j]
  <2>1. j \in G /\ i \in 1 .. j
    BY <1>6, <1>7
  <2> QED
    BY <2>1
<1> QED
  BY <1>1, <1>7

\* The whole file.
IsLaidOut(t, s, a, P) ==
  /\ t[1] = "#" /\ t[2] = NL /\ t[3] = "#" /\ t[4] = " " /\ t[5] = "a" /\ t[6] = NL
  /\ t[7] = "k" /\ t[8] = "=" /\ t[9] = Quote /\ \A i \in 1 .. Len(s) : t[i + 9] = s[i]
  /\ t[Len(s) + 10] = Quote /\ t[Len(s) + 11] = NL /\ t[Len(s) + 12] = NL
  /\ t[Len(s) + 13] = "l" /\ t[Len(s) + 14] = "=" /\ t[Len(s) + 15] = "["
  /\ P[1] = Len(s) + 16 /\ AreElements(t, a, P)

\* What the writer writes is laid out so, and has no other characters.
LEMMA FileIsLaidOut ==
  ASSUME NEW C, Added \subseteq C, NEW w, w.scalar \in Seq(C), w.array \in Seq(Seq(C))
  PROVE  File(w) \in Seq(C) /\ \E P : IsLaidOut(File(w), w.scalar, w.array, P)
<1>1. PICK s \in Seq(C) : s = w.scalar
  OBVIOUS
<1>2. PICK a \in Seq(Seq(C)) : a = w.array
  OBVIOUS
<1>3. PICK m \in Nat : m = Len(s)
  OBVIOUS
<1>4. PICK n \in Nat : n = Len(a)
  OBVIOUS
<1>5. PICK c \in Seq(C) : IsComment(c)
  BY CommentIs
<1>6. PICK k \in Seq(C) : IsScalarLine(k, s, m)
  BY <1>3, ScalarIs
<1>7. PICK e \in Seq(C) : e = <<NL>> /\ Len(e) = 1 /\ e[1] = NL
  <2>1. NL \in C
    BY DEF Added
  <2> QED
    BY <2>1, OneIs, Zenon
<1>8. PICK l \in Seq(C) : \E P : IsArrayLine(l, a, P)
  BY ArrayIs
<1>9. PICK R : IsArrayLine(l, a, R)
  BY <1>8
<1>10. PICK z \in Nat : z = Len(l)
  OBVIOUS
<1>11. PICK u \in Seq(C) : Joined(u, c, 6, k, m + 5)
  <2>1. \E j \in Seq(C) : Joined(j, c, Len(c), k, Len(k))
    BY Behind
  <2>2. Len(c) = 6 /\ Len(k) = m + 5
    BY <1>5, <1>6, Zenon DEF IsComment, IsScalarLine
  <2> QED
    BY <2>1, <2>2, Zenon
<1>12. PICK h \in Seq(C) : Joined(h, u, m + 11, e, 1)
  <2>1. \E j \in Seq(C) : Joined(j, u, Len(u), e, Len(e))
    BY Behind
  <2>2. Len(u) = m + 11 /\ Len(e) = 1
    <3>1. 6 + (m + 5) = m + 11
      OBVIOUS
    <3> QED
      BY <1>7, <1>11, <3>1, Zenon DEF Joined
  <2> QED
    BY <2>1, <2>2, Zenon
<1>13. PICK t \in Seq(C) : Joined(t, h, m + 12, l, z)
  <2>1. \E j \in Seq(C) : Joined(j, h, Len(h), l, Len(l))
    BY Behind
  <2>2. Len(h) = m + 12
    <3>1. (m + 11) + 1 = m + 12
      OBVIOUS
    <3> QED
      BY <1>12, <3>1, Zenon DEF Joined
  <2> QED
    BY <1>10, <2>1, <2>2, Zenon
<1>14. t = File(w)
  <2>1. KeyOf("scalar") = <<"k">> /\ KeyOf("array") = <<"l">>
    BY DEF KeyOf
  <2>2. t = ((c \o k) \o e) \o l
    BY <1>11, <1>12, <1>13, Zenon DEF Joined
  <2>3. /\ c = k2v_add_comment(<<"#", NL>>, <<"a">>) /\ k = char_to_k2v(<<"k">>, s)
        /\ l = char_array_to_k2v(<<"l">>, a)
    BY <1>5, <1>6, <1>9, Zenon DEF IsComment, IsScalarLine, IsArrayLine
  <2> QED
    BY <1>1, <1>2, <1>7, <2>1, <2>2, <2>3, Zenon DEF File
<1>15. /\ \A i \in 1 .. 6 : t[i] = c[i]
       /\ \A i \in 1 .. m + 5 : t[6 + i] = k[i]
       /\ t[m + 12] = NL
       /\ \A i \in 1 .. z : t[(m + 12) + i] = l[i] /\ Len(t) = (m + 12) + z
  <2>1. /\ \A i \in 1 .. 6 : i \in 1 .. m + 11 /\ i \in 1 .. m + 12
        /\ \A i \in 1 .. m + 5 : 6 + i \in 1 .. m + 11 /\ 6 + i \in 1 .. m + 12
        /\ m + 12 \in 1 .. m + 12 /\ (m + 11) + 1 = m + 12 /\ 1 \in 1 .. 1
    OBVIOUS
  <2>2. \A i \in 1 .. 6 : t[i] = c[i]
    BY <1>11, <1>12, <1>13, <2>1, Zenon DEF Joined
  <2>3. \A i \in 1 .. m + 5 : t[6 + i] = k[i]
    BY <1>11, <1>12, <1>13, <2>1, Zenon DEF Joined
  <2>4. t[m + 12] = NL
    <3>1. t[m + 12] = h[m + 12]
      BY <1>13, <2>1, Zenon DEF Joined
    <3>2. h[(m + 11) + 1] = e[1]
      BY <1>12, <2>1, Zenon DEF Joined
    <3> QED
      BY <1>7, <2>1, <3>1, <3>2, Zenon
  <2> QED
    BY <1>13, <2>2, <2>3, <2>4, Zenon DEF Joined
<1>16. t[1] = "#" /\ t[2] = NL /\ t[3] = "#" /\ t[4] = " " /\ t[5] = "a" /\ t[6] = NL
  <2>1. /\ 1 \in 1 .. 6 /\ 2 \in 1 .. 6 /\ 3 \in 1 .. 6 /\ 4 \in 1 .. 6 /\ 5 \in 1 .. 6 /\ 6 \in 1 .. 6
    OBVIOUS
  <2> QED
    BY <1>5, <1>15, <2>1, Zenon DEF IsComment
<1>17. /\ t[7] = "k" /\ t[8] = "=" /\ t[9] = Quote /\ \A i \in 1 .. m : t[i + 9] = s[i]
       /\ t[m + 10] = Quote /\ t[m + 11] = NL
  <2>1. /\ 1 \in 1 .. m + 5 /\ 2 \in 1 .. m + 5 /\ 3 \in 1 .. m + 5 /\ m + 4 \in 1 .. m + 5
        /\ m + 5 \in 1 .. m + 5 /\ 6 + 1 = 7 /\ 6 + 2 = 8 /\ 6 + 3 = 9
        /\ 6 + (m + 4) = m + 10 /\ 6 + (m + 5) = m + 11
        /\ \A i \in 1 .. m : i + 3 \in 1 .. m + 5 /\ 6 + (i + 3) = i + 9
    OBVIOUS
  <2>2. t[7] = k[1] /\ t[8] = k[2] /\ t[9] = k[3] /\ t[m + 10] = k[m + 4] /\ t[m + 11] = k[m + 5]
    BY <1>15, <2>1, Zenon
  <2>3. \A i \in 1 .. m : t[i + 9] = k[i + 3]
    BY <1>15, <2>1, Zenon
  <2> QED
    BY <1>6, <2>2, <2>3, Zenon DEF IsScalarLine
<1> DEFINE P == [i \in 1 .. n + 1 |-> R[i] + (m + 12)]
<1>18. R \in [1 .. n + 1 -> Nat] /\ R[1] = 4 /\ z = R[n + 1] + 1
  BY <1>4, <1>9, <1>10, Zenon DEF IsArrayLine, AreElements
<1>19. t[m + 13] = "l" /\ t[m + 14] = "=" /\ t[m + 15] = "[" /\ 4 <= z
  <2>1. R[n + 1] >= 4
    <3>1. 1 \in 1 .. Len(a) + 1 /\ Len(a) + 1 \in 1 .. Len(a) + 1 /\ 1 <= Len(a) + 1
      BY <1>4
    <3>2. AreElements(l, a, R)
      BY <1>9 DEF IsArrayLine
    <3>3. R[1] <= R[Len(a) + 1]
      BY <3>1, <3>2, ElementsGrow
    <3>4. R[n + 1] \in Nat
      BY <1>18
    <3> QED
      BY <1>4, <1>18, <3>3, <3>4
  <2>2. z >= 4
    <3>1. R[n + 1] \in Nat
      BY <1>18
    <3> QED
      BY <1>18, <2>1, <3>1
  <2>3. /\ 1 \in 1 .. z /\ 2 \in 1 .. z /\ 3 \in 1 .. z
        /\ (m + 12) + 1 = m + 13 /\ (m + 12) + 2 = m + 14 /\ (m + 12) + 3 = m + 15
    BY <2>2
  <2>4. t[m + 13] = "l" /\ t[m + 14] = "=" /\ t[m + 15] = "["
    BY <1>9, <1>15, <2>3, Zenon DEF IsArrayLine
  <2> QED
    BY <2>2, <2>4
<1>20. /\ P \in [1 .. n + 1 -> Nat] /\ \A i \in 1 .. n + 1 : P[i] = R[i] + (m + 12)
       /\ P[1] = m + 16
  <2>1. \A i \in 1 .. n + 1 : R[i] + (m + 12) \in Nat
    <3> SUFFICES ASSUME NEW i \in 1 .. n + 1
                 PROVE  R[i] + (m + 12) \in Nat
      OBVIOUS
    <3>1. PICK x \in Nat : x = R[i]
      BY <1>18
    <3> QED
      BY <3>1
  <2>2. P \in [1 .. n + 1 -> Nat] /\ \A i \in 1 .. n + 1 : P[i] = R[i] + (m + 12)
    BY <2>1
  <2> HIDE DEF P
  <2>3. P[1] = m + 16
    <3>1. 1 \in 1 .. n + 1 /\ 4 + (m + 12) = m + 16
      OBVIOUS
    <3> QED
      BY <1>18, <2>2, <3>1
  <2> QED
    BY <2>2, <2>3
<1> HIDE DEF P
<1>21. ASSUME NEW i \in 1 .. n
       PROVE  /\ P[i + 1] = P[i] + Width(a, i)
              /\ t[P[i]] = Quote /\ t[P[i] + Len(a[i]) + 1] = Quote
              /\ \A j \in 1 .. Len(a[i]) : t[P[i] + j] = a[i][j]
              /\ i # n => t[P[i] + Len(a[i]) + 2] = ","
  <2>1. PICK x \in Nat : x = R[i]
    BY <1>18
  <2>2. PICK v \in Nat : v = Len(a[i])
    BY <1>4
  <2>3. PICK y : y = Width(a, i) /\ y = IF i = n THEN v + 2 ELSE v + 3
    BY <1>4, <2>2 DEF Width
  <2>4. /\ R[i + 1] = x + y
        /\ l[x] = Quote /\ l[x + v + 1] = Quote
        /\ \A j \in 1 .. v : l[x + j] = a[i][j]
        /\ i # n => l[x + v + 2] = ","
    BY <1>4, <1>9, <2>1, <2>2, <2>3, Zenon DEF IsArrayLine, AreElements
  <2>5. x >= 4 /\ x + y < z
    <3>1. i \in 1 .. n + 1 /\ i + 1 \in 1 .. n + 1
      OBVIOUS
    <3>2. R[1] <= R[i] /\ R[i + 1] <= R[n + 1]
      <4>1. AreElements(l, a, R) /\ Len(a) + 1 = n + 1
        BY <1>4, <1>9 DEF IsArrayLine
      <4>2. 1 \in 1 .. n + 1 /\ n + 1 \in 1 .. n + 1 /\ 1 <= i /\ i + 1 <= n + 1
        OBVIOUS
      <4> QED
        BY <3>1, <4>1, <4>2, ElementsGrow
    <3>3. PICK r \in Nat : r = R[n + 1]
      BY <1>18
    <3>4. 4 <= x /\ x + y <= r /\ z = r + 1
      BY <1>18, <2>1, <2>4, <3>2, <3>3, Zenon
    <3>5. y \in Nat
      BY <2>3
    <3> QED
      BY <3>4, <3>5
  <2>6. P[i] = x + (m + 12) /\ P[i + 1] = (x + y) + (m + 12)
    <3>1. i \in 1 .. n + 1 /\ i + 1 \in 1 .. n + 1
      OBVIOUS
    <3> QED
      BY <1>20, <2>1, <2>4, <3>1, Zenon
  <2>7. /\ x \in 1 .. z /\ x + v + 1 \in 1 .. z /\ \A j \in 1 .. v : x + j \in 1 .. z
        /\ i # n => x + v + 2 \in 1 .. z
    BY <2>3, <2>5
  <2>8. /\ P[i + 1] = P[i] + y
        /\ (m + 12) + x = P[i] /\ (m + 12) + (x + v + 1) = P[i] + v + 1
        /\ (m + 12) + (x + v + 2) = P[i] + v + 2
        /\ \A j \in 1 .. v : (m + 12) + (x + j) = P[i] + j
    BY <2>3, <2>6
  <2>9. \A j \in 1 .. z : t[(m + 12) + j] = l[j]
    BY <1>15
  <2>10. t[P[i]] = l[x] /\ t[P[i] + v + 1] = l[x + v + 1]
    <3>1. t[(m + 12) + x] = l[x]
      BY <2>7, <2>9, Zenon
    <3>2. t[(m + 12) + (x + v + 1)] = l[x + v + 1]
      BY <2>7, <2>9, Zenon
    <3> QED
      BY <2>8, <3>1, <3>2, Zenon
  <2>11. i # n => t[P[i] + v + 2] = l[x + v + 2]
    <3>1. i # n => t[(m + 12) + (x + v + 2)] = l[x + v + 2]
      BY <2>7, <2>9, Zenon
    <3> QED
      BY <2>8, <3>1, Zenon
  <2>12. \A j \in 1 .. v : t[P[i] + j] = l[x + j]
    BY <1>15, <2>7, <2>8, Zenon
  <2> QED
    BY <2>2, <2>3, <2>4, <2>8, <2>10, <2>11, <2>12, Zenon
<1>22. t[P[n + 1]] = "]" /\ t[P[n + 1] + 1] = NL /\ Len(t) = P[n + 1] + 1
  <2>1. PICK x \in Nat : x = R[n + 1]
    BY <1>18
  <2>2. P[n + 1] = x + (m + 12) /\ z = x + 1
    <3>1. n + 1 \in 1 .. n + 1
      OBVIOUS
    <3> QED
      BY <1>18, <1>20, <2>1, <3>1, Zenon
  <2>3. l[x] = "]" /\ l[x + 1] = NL
    BY <1>4, <1>9, <2>1, Zenon DEF IsArrayLine, AreElements
  <2>4. /\ x \in 1 .. z /\ x + 1 \in 1 .. z
        /\ (m + 12) + x = P[n + 1] /\ (m + 12) + (x + 1) = P[n + 1] + 1
        /\ (m + 12) + z = P[n + 1] + 1
    BY <1>19, <2>2
  <2>5. Len(t) = (m + 12) + z
    BY <1>19, <1>15, <2>4
  <2> QED
    BY <1>15, <2>3, <2>4, <2>5, Zenon
<1>23. AreElements(t, a, P)
  BY <1>4, <1>20, <1>21, <1>22, Zenon DEF AreElements
<1>24. IsLaidOut(t, s, a, P)
  BY <1>3, <1>15, <1>16, <1>17, <1>19, <1>20, <1>23, Zenon DEF IsLaidOut
<1> QED
  BY <1>1, <1>2, <1>14, <1>24, Zenon

\* What the writer writes is a text.
LEMMA FileIs ==
  ASSUME NEW w \in [scalar : Seq(STRING), array : Seq(Seq(STRING))]
  PROVE  File(w) \in Seq(Symbol)
<1>1. STRING \subseteq Symbol /\ Added \subseteq Symbol
  BY DEF Symbol
<1>2. \A s \in Seq(STRING) : s \in Seq(Symbol)
  BY <1>1, Wider
<1>3. w.scalar \in Seq(STRING) /\ w.array \in Seq(Seq(STRING))
  OBVIOUS
<1>4. \A i \in 1 .. Len(w.array) : w.array[i] \in Seq(Symbol)
  BY <1>2, <1>3
<1>5. w.scalar \in Seq(Symbol) /\ w.array \in Seq(Seq(Symbol))
  BY <1>2, <1>3, <1>4
<1> QED
  BY <1>1, <1>5, FileIsLaidOut

\* A part of a text.
LEMMA PartIs ==
  ASSUME NEW t \in Seq(Symbol), NEW a \in Nat \ {0}, NEW b \in Int, b <= Len(t)
  PROVE  SubSeq(t, a, b) \in Seq(Symbol) /\ (a <= b => SubSeq(t, a, b) # <<>>)
<1>1. \A i \in a .. b : t[i] \in Symbol
  OBVIOUS
<1>2. SubSeq(t, a, b) \in Seq(Symbol) /\ Len(SubSeq(t, a, b)) = IF a <= b THEN b - a + 1 ELSE 0
  BY <1>1, SubSeqProperties
<1> QED
  BY <1>2

\* A backslash that goes leaves what it escapes.
LEMMA CorrectedIs ==
  ASSUME NEW s \in Seq(Symbol), s # <<>>
  PROVE  correct_backslash(s) # <<>>
<1> DEFINE gone == {i \in 1 .. Len(s) - 1 : Unescaped(s, 1, i, Slash) /\ s[i + 1] \notin Kept}
           left == DOMAIN s \ gone
<1>1. Len(s) \in Nat /\ Len(s) >= 1 /\ DOMAIN s = 1 .. Len(s)
  OBVIOUS
<1>2. Len(s) \in left
  BY <1>1
<1>3. IsFiniteSet(left)
  <2>1. IsFiniteSet(1 .. Len(s))
    BY <1>1, FS_Interval
  <2> QED
    BY <1>1, <2>1, FS_Subset
<1> HIDE DEF gone
<1>4. Cardinality(left) \in Nat /\ Cardinality(left) # 0
  BY <1>2, <1>3, FS_CardinalityType, FS_EmptySet
<1>5. correct_backslash(s) = [i \in DOMAIN InOrder(left) |-> s[InOrder(left)[i]]]
  BY DEF correct_backslash, PartsAt, gone
<1>6. DOMAIN InOrder(left) = 1 .. Cardinality(left)
  BY DEF InOrder
<1>7. 1 \in DOMAIN correct_backslash(s)
  BY <1>4, <1>5, <1>6
<1> QED
  BY <1>7

-----------------------------------------------------------------------------
(* The inductive invariant *)

Node == [key : Seq(Symbol), type : {"scalar", "array"}, empty : BOOLEAN,
         val : Seq(Symbol) \cup Seq(Seq(Symbol))]
NoEmpty(v) == \A i \in DOMAIN v : v[i] # <<>>

\* A value that has been read: of its type, and empty only where the text has "" or [].
IsRead(n) ==
  IF n.empty THEN n.val = <<>>
  ELSE /\ n.val # <<>>
       /\ n.type = "scalar" => n.val \in Seq(Symbol)
       /\ n.type = "array" => n.val \in Seq(Seq(Symbol)) /\ NoEmpty(n.val)

KeysDiffer == \A i, j \in DOMAIN cache : cache[i].key = cache[j].key => i = j

\* What the list has when the parser is done.
IsKept(n) ==
  IF n.empty THEN n.val = <<>>
  ELSE n.val # <<>> /\ (n.type = "array" => <<>> \notin Range(n.val))

\* Where the parser is, and what it has read by then.
InText ==
  /\ phase \in {"edit", "parse", "value", "element", "behind", "done", "cut", "refused"}
  /\ edits \in 0 .. MaxEdits /\ text \in Seq(Symbol)
  /\ pos \in 1 .. Len(text) + 1
  /\ node \in Node

Placed ==
  /\ phase = "edit" => pos = 1 /\ cache = <<>>
  /\ phase = "value" => pos = begin /\ node.val = <<>> /\ ~node.empty /\ node.type = "scalar"
  /\ phase \in {"value", "element", "behind"} => begin \in 1 .. Len(text)
  /\ phase = "element" => /\ end \in 1 .. Len(text) /\ pos \in begin + 1 .. end
                          /\ node.type = "array" /\ ~node.empty
                          /\ node.val \in Seq(Seq(Symbol)) /\ NoEmpty(node.val)
                          /\ pos = end => node.val # <<>>
  /\ phase = "behind" => IsRead(node)

Cached ==
  /\ KeysDiffer
  /\ phase # "done" => cache \in Seq(Node) /\ \A i \in DOMAIN cache : IsRead(cache[i])
  /\ phase = "done" => \A i \in DOMAIN cache : IsKept(cache[i])

IInv == InText /\ Placed /\ Cached

\* A value that was read is one to keep.
LEMMA ReadIsKept ==
  ASSUME NEW n \in Node, IsRead(n)
  PROVE  IsKept(n)
BY DEF Node, IsRead, IsKept, NoEmpty, Range

\* A change by hand leaves a text.
LEMMA EditFileKeeps ==
  ASSUME IInv, EditFile
  PROVE  IInv'
<1>1. PICK i \in DOMAIN text : \/ text' = RemoveAt(text, i)
                               \/ \E c \in Typed : text' = InsertAt(text, i, c)
  BY DEF EditFile
<1>2. text \in Seq(Symbol) /\ i \in 1 .. Len(text) /\ Len(text) \in Nat
  BY DEF IInv, InText
<1>3. \A a, b \in Seq(Symbol) : a \o b \in Seq(Symbol)
  BY ConcatProperties, Zenon
<1>4. /\ SubSeq(text, 1, i - 1) \in Seq(Symbol)
      /\ SubSeq(text, i + 1, Len(text)) \in Seq(Symbol)
      /\ SubSeq(text, i, Len(text)) \in Seq(Symbol)
  BY <1>2, PartIs
<1>5. text' \in Seq(Symbol)
  <2>1. RemoveAt(text, i) \in Seq(Symbol)
    BY <1>3, <1>4 DEF RemoveAt
  <2>2. ASSUME NEW c \in Typed
        PROVE  InsertAt(text, i, c) \in Seq(Symbol)
    <3>1. c \in Symbol
      BY K2v3Assumption DEF Symbol
    <3>2. <<c>> \in Seq(Symbol)
      BY <3>1
    <3>3. SubSeq(text, 1, i - 1) \o <<c>> \in Seq(Symbol)
      BY <1>3, <1>4, <3>2
    <3> QED
      BY <1>3, <1>4, <3>3 DEF InsertAt
  <2> QED
    BY <1>1, <2>1, <2>2
<1>6. /\ phase = "edit" /\ phase' = phase /\ pos' = pos /\ node' = node /\ cache' = cache
      /\ edits < MaxEdits /\ edits' = edits + 1
  BY DEF EditFile
<1>7. InText'
  <2>1. pos = 1 /\ Len(text') \in Nat
    BY <1>5, <1>6 DEF IInv, Placed
  <2> QED
    BY <1>5, <1>6, <2>1, K2v3Assumption DEF IInv, InText
<1>8. Placed' /\ Cached'
  BY <1>6 DEF IInv, Placed, Cached, KeysDiffer
<1> QED
  BY <1>7, <1>8 DEF IInv

\* The parser begins.
LEMMA OpenFileKeeps ==
  ASSUME IInv, OpenFile
  PROVE  IInv'
BY DEF IInv, OpenFile, At, InText, Placed, Cached, KeysDiffer

\* Where it stops, nothing else changes.
LEMMA StopKeeps ==
  ASSUME IInv, NEW p, At(p), phase # "done", NEW q \in {"cut", "refused"}, Stop(q)
  PROVE  IInv'
BY DEF IInv, At, Stop, InText, Placed, Cached, KeysDiffer

\* Lines without a key.
LEMMA SkipLineKeeps ==
  ASSUME IInv, SkipLine
  PROVE  IInv'
<1>1. /\ phase = "parse" /\ pos <= N /\ pos' = NextLine
      /\ UNCHANGED <<written, text, edits, phase, begin, end, node, cache>>
  BY DEF SkipLine, At, Here
<1>2. pos \in Nat \ {0} /\ N \in Nat /\ N = Len(text)
  BY DEF IInv, InText, N
<1>3. Line(pos) \in pos .. N + 1
  BY <1>1, <1>2, FirstOfIs DEF Line
<1>4. Min({Line(pos), N}) \in pos .. N
  <2>1. \E x \in {Line(pos), N} : \A y \in {Line(pos), N} : x <= y
    BY <1>2, <1>3
  <2>2. Min({Line(pos), N}) \in {Line(pos), N} /\ Min({Line(pos), N}) <= N
    BY <2>1 DEF Min
  <2> QED
    BY <1>1, <1>2, <1>3, <2>2
<1>5. pos' \in 1 .. Len(text) + 1
  BY <1>1, <1>2, <1>4 DEF NextLine
<1> QED
  BY <1>1, <1>5 DEF IInv, InText, Placed, Cached, KeysDiffer

\* A key.
LEMMA GetKeyKeeps ==
  ASSUME IInv, get_key
  PROVE  IInv'
<1> DEFINE equals == FirstOf(pos, {"=", NL})
<1>1. phase = "parse" /\ At("parse") /\ pos <= N
  BY DEF get_key, At
<1>2. pos \in Nat \ {0} /\ N \in Nat /\ N = Len(text) /\ text \in Seq(Symbol)
  BY DEF IInv, InText, N
<1>3. equals \in pos .. N + 1
  BY <1>1, <1>2, FirstOfIs
<1>4. CASE Stop("refused") \/ Stop("cut")
  BY <1>1, <1>4, StopKeeps
<1>5. CASE /\ equals # pos /\ ~(equals > N) /\ equals # N
           /\ node' = [NoNode EXCEPT !.key = SubSeq(text, pos, equals - 1)]
           /\ begin' = equals + 1 /\ pos' = begin' /\ phase' = "value"
           /\ UNCHANGED <<end, cache>>
  <2>1. UNCHANGED <<written, text, edits>>
    BY <1>1 DEF At
  <2>2. PICK s \in Seq(Symbol) : s = SubSeq(text, pos, equals - 1)
    <3>1. equals - 1 \in Int /\ equals - 1 <= Len(text)
      BY <1>2, <1>3
    <3> HIDE DEF equals
    <3> QED
      BY <1>2, <3>1, PartIs
  <2>3. node' \in Node /\ node'.val = <<>> /\ ~node'.empty /\ node'.type = "scalar"
    <3>1. node' = [key |-> s, type |-> "scalar", empty |-> FALSE, val |-> <<>>]
      BY <1>5, <2>2 DEF NoNode
    <3>2. <<>> \in Seq(Symbol)
      OBVIOUS
    <3> QED
      BY <3>1, <3>2 DEF Node
  <2>4. pos' \in 1 .. Len(text)
    BY <1>2, <1>3, <1>5
  <2> QED
    BY <1>1, <1>2, <1>5, <2>1, <2>3, <2>4 DEF IInv, InText, Placed, Cached, KeysDiffer
<1> QED
  BY <1>4, <1>5 DEF get_key

\* What a value is that has been read and put behind.
LEMMA GotKeeps ==
  ASSUME IInv, At("value") \/ At("element"),
         NEW n \in Node, IsRead(n), NEW p \in 1 .. Len(text) + 1, Got(n, p)
  PROVE  IInv'
<1>1. /\ UNCHANGED <<written, text, edits, begin, end, cache>>
      /\ node' = n /\ pos' = p /\ phase' = "behind"
  BY DEF At, Got
<1>2. phase \in {"value", "element"}
  BY DEF At
<1>3. InText' /\ Placed'
  BY <1>1, <1>2 DEF IInv, InText, Placed
<1>4. Cached'
  BY <1>1, <1>2 DEF IInv, Cached, KeysDiffer
<1> QED
  BY <1>3, <1>4 DEF IInv

\* A value that is empty.
LEMMA GetNullKeeps ==
  ASSUME IInv, get_null
  PROVE  IInv'
<1>1. /\ At("value") /\ phase = "value" /\ pos \in Nat \ {0} /\ N \in Nat /\ N = Len(text)
      /\ node \in Node /\ node.val = <<>>
  <2>1. phase = "value" /\ At("value")
    BY DEF get_null, At
  <2> QED
    BY <2>1 DEF IInv, InText, Placed, N
<1>2. CASE NullScalar /\ Got([node EXCEPT !.empty = TRUE], pos + 2)
  <2>1. [node EXCEPT !.empty = TRUE] \in Node /\ IsRead([node EXCEPT !.empty = TRUE])
    BY <1>1 DEF Node, IsRead
  <2>2. pos + 2 \in 1 .. Len(text) + 1
    BY <1>1, <1>2 DEF NullScalar
  <2> QED
    BY <1>1, <1>2, <2>1, <2>2, GotKeeps
<1>3. CASE NullArray /\ Got([node EXCEPT !.empty = TRUE, !.type = "array"],
                            Skip(pos + 1, N, {" ", NL}) + 1)
  <2>1. /\ [node EXCEPT !.empty = TRUE, !.type = "array"] \in Node
        /\ IsRead([node EXCEPT !.empty = TRUE, !.type = "array"])
    BY <1>1 DEF Node, IsRead
  <2>2. pos <= N
    BY <1>3 DEF NullArray, Here
  <2>0. pos \in Nat \ {0} /\ N \in Nat /\ N = Len(text)
    BY <1>1
  <2>3. PICK p : p = Skip(pos + 1, N, {" ", NL})
    OBVIOUS
  <2>4. pos + 1 \in Nat /\ pos + 1 <= N + 1
    BY <2>0, <2>2
  <2>5. p \in pos + 1 .. N + 1
    BY <2>0, <2>3, <2>4, SkipIs
  <2>7. p <= N
    BY <1>3, <2>3 DEF NullArray
  <2>6. p + 1 \in 1 .. Len(text) + 1
    BY <2>0, <2>5, <2>7
  <2> QED
    BY <1>1, <1>3, <2>1, <2>3, <2>6, GotKeeps
<1> QED
  BY <1>2, <1>3 DEF get_null

\* A scalar: there is something between the quotes.
LEMMA GetScalarKeeps ==
  ASSUME IInv, get_scalar
  PROVE  IInv'
<1>1. /\ At("value") /\ phase = "value" /\ pos \in Nat \ {0} /\ N \in Nat /\ N = Len(text)
      /\ node \in Node /\ ~node.empty /\ node.type = "scalar" /\ text \in Seq(Symbol)
  BY DEF get_scalar, At, IInv, InText, Placed, N
<1>2. pos <= N /\ text[pos] = Quote /\ ~NullScalar
  BY DEF get_scalar, Here
<1>3. PICK close : close = ScalarEnd
  OBVIOUS
<1>4. close \in pos + 1 .. N + 1 /\ (close <= N => text[close] = Quote)
  BY <1>1, <1>2, <1>3, CloseIs DEF ScalarEnd
<1>5. CASE Stop("refused")
  BY <1>1, <1>5, StopKeeps
<1>6. CASE close <= N /\ Got([node EXCEPT !.val = SubSeq(text, pos + 1, close - 1)], close + 1)
  <2>1. close # pos + 1
    BY <1>1, <1>2, <1>4, <1>6 DEF NullScalar, Here
  <2>2. close - 1 \in Int /\ close - 1 <= Len(text) /\ pos + 1 <= close - 1 /\ pos + 1 \in Nat \ {0}
    BY <1>1, <1>4, <1>6, <2>1
  <2>3. PICK v \in Seq(Symbol) : v = SubSeq(text, pos + 1, close - 1) /\ v # <<>>
    BY <1>1, <2>2, PartIs
  <2>4. [node EXCEPT !.val = v] \in Node /\ IsRead([node EXCEPT !.val = v])
    BY <1>1, <2>3 DEF Node, IsRead
  <2>5. close + 1 \in 1 .. Len(text) + 1
    BY <1>1, <1>4, <1>6
  <2>6. Got([node EXCEPT !.val = v], close + 1)
    BY <1>6, <2>3
  <2> QED
    BY <1>1, <2>4, <2>5, <2>6, GotKeeps
<1>7. \/ Stop("refused")
      \/ close <= N /\ Got([node EXCEPT !.val = SubSeq(text, pos + 1, close - 1)], close + 1)
  BY <1>1, <1>3, <1>4 DEF get_scalar
<1> QED
  BY <1>5, <1>6, <1>7

\* The beginning of an array: its end is behind its first place, and never at it.
LEMMA GetArrayKeeps ==
  ASSUME IInv, get_array
  PROVE  IInv'
<1>1. /\ At("value") /\ phase = "value" /\ pos \in Nat \ {0} /\ N \in Nat /\ N = Len(text)
      /\ node \in Node /\ ~node.empty /\ node.val = <<>> /\ pos = begin
  BY DEF get_array, At, IInv, InText, Placed, N
<1>2. pos <= N /\ text[pos] = "[" /\ ~NullArray
  BY DEF get_array, Here
<1>3. PICK close : close = Close(pos + 1, N, "]")
  OBVIOUS
<1>4. close \in pos + 1 .. N + 1 /\ (close <= N => text[close] = "]")
  BY <1>1, <1>2, <1>3, CloseIs
<1>5. CASE Stop("refused")
  BY <1>1, <1>5, StopKeeps
<1>6. CASE /\ close <= N /\ end' = close /\ pos' = pos + 1 /\ phase' = "element"
           /\ node' = [node EXCEPT !.type = "array"] /\ UNCHANGED <<begin, cache>>
  <2>1. close # pos + 1
    <3>1. SUFFICES ASSUME close = pos + 1
                   PROVE  FALSE
      OBVIOUS
    <3>2. PICK p : p = Skip(pos + 1, N, {" ", NL})
      OBVIOUS
    <3>0. pos + 1 \in Nat /\ pos + 1 <= N + 1
      BY <1>1, <1>2
    <3>3. /\ p \in pos + 1 .. N + 1
          /\ \A j \in pos + 1 .. p - 1 : text[j] \in {" ", NL}
      BY <1>1, <3>0, <3>2, SkipIs
    <3>4. text[pos + 1] = "]" /\ text[pos + 1] \notin {" ", NL}
      BY <1>4, <1>6, <3>1 DEF NL
    <3>5. p = pos + 1
      <4>1. pos \in Nat /\ N \in Nat
        BY <1>1
      <4>2. pos + 1 \notin pos + 1 .. p - 1
        BY <3>3, <3>4
      <4>3. p \in pos + 1 .. N + 1
        BY <3>3
      <4> QED
        BY <4>1, <4>2, <4>3
    <3> QED
      BY <1>2, <1>4, <1>6, <3>1, <3>2, <3>4, <3>5 DEF NullArray, Here
  <2>2. pos' \in begin' + 1 .. end' /\ end' \in 1 .. Len(text') /\ pos' # end'
    BY <1>1, <1>4, <1>6, <2>1 DEF At
  <2>3. node' \in Node /\ node'.type = "array" /\ ~node'.empty /\ node'.val = <<>>
    BY <1>1, <1>6 DEF Node
  <2>4. node'.val \in Seq(Seq(Symbol)) /\ NoEmpty(node'.val)
    BY <2>3 DEF NoEmpty
  <2>5. UNCHANGED <<written, text, edits, begin, cache>>
    BY <1>1, <1>6 DEF At
  <2>6. InText' /\ Placed'
    BY <1>1, <1>6, <2>2, <2>3, <2>4, <2>5 DEF IInv, InText, Placed
  <2>7. Cached'
    BY <1>1, <1>6, <2>5 DEF IInv, Cached, KeysDiffer
  <2> QED
    BY <2>6, <2>7 DEF IInv
<1>7. \/ Stop("refused")
      \/ /\ close <= N /\ end' = close /\ pos' = pos + 1 /\ phase' = "element"
         /\ node' = [node EXCEPT !.type = "array"] /\ UNCHANGED <<begin, cache>>
  BY <1>1, <1>3, <1>4 DEF get_array
<1> QED
  BY <1>5, <1>6, <1>7

\* Neither a scalar nor an array.
LEMMA GetOtherKeeps ==
  ASSUME IInv, get_other
  PROVE  IInv'
<1>1. At("value") /\ Stop("refused") /\ phase # "done"
  BY DEF get_other, At
<1> QED
  BY <1>1, StopKeeps

\* One more value that is not empty.
LEMMA AppendIs ==
  ASSUME NEW S, NEW s \in Seq(Seq(S)), NoEmpty(s), NEW v \in Seq(S), v # <<>>
  PROVE  \E w \in Seq(Seq(S)) : w = Append(s, v) /\ w # <<>> /\ NoEmpty(w)
<1>1. PICK T : T = Seq(S)
  OBVIOUS
<1>2. s \in Seq(T) /\ v \in T /\ Len(s) \in Nat
  BY <1>1
<1>3. PICK w \in Seq(T) : w = Append(s, v)
  BY <1>2, AppendProperties, Zenon
<1>4. /\ Len(w) = Len(s) + 1 /\ w[Len(s) + 1] = v
      /\ \A i \in 1 .. Len(s) : w[i] = s[i]
  BY <1>2, <1>3, AppendProperties
<1>5. ASSUME NEW i \in DOMAIN w
      PROVE  w[i] # <<>>
  <2>1. DOMAIN w = 1 .. Len(s) + 1 /\ DOMAIN s = 1 .. Len(s)
    BY <1>2, <1>3, <1>4
  <2>2. i \in 1 .. Len(s) \/ i = Len(s) + 1
    BY <1>2, <2>1
  <2>3. i \in 1 .. Len(s) => w[i] # <<>>
    BY <1>4, <2>1 DEF NoEmpty
  <2> QED
    BY <1>4, <2>2, <2>3
<1>6. w # <<>>
  BY <1>2, <1>3, <1>4
<1> QED
  BY <1>1, <1>3, <1>5, <1>6 DEF NoEmpty

\* An element of an array, with something between its quotes; the next one, or the end.
LEMMA GetElementKeeps ==
  ASSUME IInv, get_element
  PROVE  IInv'
<1>1. /\ At("element") /\ phase = "element" /\ pos < end
      /\ UNCHANGED <<written, text, edits>>
  BY DEF get_element, At
<1>2. /\ begin \in 1 .. Len(text) /\ end \in 1 .. Len(text) /\ pos \in begin + 1 .. end
      /\ pos \in Nat \ {0} /\ Len(text) \in Nat /\ text \in Seq(Symbol)
      /\ node \in Node /\ node.type = "array" /\ ~node.empty
      /\ node.val \in Seq(Seq(Symbol)) /\ NoEmpty(node.val)
  BY <1>1 DEF IInv, InText, Placed
<1>3. PICK open : open = Skip(pos, end - 1, {" ", NL})
  OBVIOUS
<1>4. PICK close : close = Close(open + 1, end - 1, Quote)
  OBVIOUS
<1>5. PICK sep : sep = Skip(close + 1, end - 1, {" ", NL})
  OBVIOUS
<1>6. PICK next : next = Skip(sep + 1, end - 1, {" ", NL})
  OBVIOUS
<1>7. CASE Stop("refused")
  BY <1>1, <1>7, StopKeeps
<1>8. CASE /\ ElementEnds(open, close)
           /\ ~(sep < end /\ (text[sep] \notin {",", ";"} \/ next >= end))
           /\ node' = [node EXCEPT !.val = Append(@, SubSeq(text, open + 1, close - 1))]
           /\ pos' = IF sep < end THEN next ELSE end
           /\ UNCHANGED <<phase, begin, end, cache>>
  <2>1. open \in pos .. end
    <3>1. pos \in Nat /\ end - 1 \in Nat /\ pos <= (end - 1) + 1 /\ (end - 1) + 1 = end
      BY <1>1, <1>2
    <3> QED
      BY <1>3, <3>1, SkipIs
  <2>2. close < end /\ close > open + 1
    BY <1>8 DEF ElementEnds
  <2>3. open < end
    <3>1. SUFFICES ASSUME open = end
                   PROVE  FALSE
      BY <1>2, <2>1
    <3>2. close = First(end + 1, end - 1, LAMBDA i : Unescaped(text, end + 1, i, Quote))
      BY <1>4, <3>1 DEF Close
    <3>3. close = end
      <4>1. end + 1 > end - 1 /\ (end - 1) + 1 = end
        BY <1>2
      <4> QED
        BY <1>4, <3>1, <3>2, <4>1 DEF Close, First
    <3> QED
      BY <1>2, <2>2, <3>3
  <2>4. close \in open + 1 .. end
    <3>1. open + 1 \in Nat /\ end - 1 \in Nat /\ open + 1 <= (end - 1) + 1 /\ (end - 1) + 1 = end
      BY <1>2, <2>1, <2>3
    <3> QED
      BY <1>4, <3>1, CloseIs
  <2>5. sep \in close + 1 .. end
    <3>1. close + 1 \in Nat /\ end - 1 \in Nat /\ close + 1 <= (end - 1) + 1 /\ (end - 1) + 1 = end
      BY <1>2, <2>1, <2>2, <2>4
    <3> QED
      BY <1>5, <3>1, SkipIs
  <2>6. sep < end => next \in sep + 1 .. end
    <3>1. sep < end => sep + 1 \in Nat /\ end - 1 \in Nat /\ sep + 1 <= (end - 1) + 1
      BY <1>2, <2>1, <2>4, <2>5
    <3>2. (end - 1) + 1 = end
      BY <1>2
    <3> QED
      BY <1>6, <3>1, <3>2, SkipIs
  <2>7. pos' \in begin + 1 .. end
    <3>1. begin \in Nat /\ end \in Nat /\ pos \in begin + 1 .. end
      BY <1>2
    <3>2. pos' = IF sep < end THEN next ELSE end
      BY <1>8
    <3> QED
      BY <2>1, <2>4, <2>5, <2>6, <3>1, <3>2
  <2>8. PICK v \in Seq(Symbol) : v = SubSeq(text, open + 1, close - 1) /\ v # <<>>
    <3>1. /\ open + 1 \in Nat \ {0} /\ close - 1 \in Int /\ close - 1 <= Len(text)
          /\ open + 1 <= close - 1
      BY <1>2, <2>1, <2>2, <2>4
    <3> QED
      BY <1>2, <3>1, PartIs
  <2>9. PICK w \in Seq(Seq(Symbol)) : w = Append(node.val, v) /\ w # <<>> /\ NoEmpty(w)
    <3>1. node.val \in Seq(Seq(Symbol)) /\ NoEmpty(node.val)
      BY <1>2
    <3> QED
      BY <2>8, <3>1, AppendIs
  <2>10. node' = [node EXCEPT !.val = w]
    BY <1>8, <2>8, <2>9
  <2>11. /\ node' \in Node /\ node'.type = "array" /\ ~node'.empty /\ node'.val = w
    BY <1>2, <2>9, <2>10 DEF Node
  <2>12. InText' /\ Placed'
    <3>1. UNCHANGED <<text, edits, phase, begin, end>> /\ phase = "element"
      BY <1>1, <1>8
    <3>2. InText'
      BY <1>2, <2>7, <2>11, <3>1 DEF IInv, InText
    <3>3. node'.val \in Seq(Seq(Symbol)) /\ NoEmpty(node'.val) /\ node'.val # <<>>
      BY <2>9, <2>11
    <3> QED
      BY <1>2, <2>7, <2>11, <3>1, <3>2, <3>3 DEF Placed
  <2>13. Cached'
    BY <1>1, <1>8 DEF IInv, Cached, KeysDiffer
  <2> QED
    BY <2>12, <2>13 DEF IInv
<1>9. \/ Stop("refused")
      \/ /\ ElementEnds(open, close)
         /\ ~(sep < end /\ (text[sep] \notin {",", ";"} \/ next >= end))
         /\ node' = [node EXCEPT !.val = Append(@, SubSeq(text, open + 1, close - 1))]
         /\ pos' = IF sep < end THEN next ELSE end
         /\ UNCHANGED <<phase, begin, end, cache>>
  BY <1>3, <1>4, <1>5, <1>6 DEF get_element
<1> QED
  BY <1>7, <1>8, <1>9

\* The end of an array: it has an element.
LEMMA GetArrayEndKeeps ==
  ASSUME IInv, get_array_end
  PROVE  IInv'
<1>1. At("element") /\ phase = "element" /\ pos = end /\ Got(node, end + 1)
  BY DEF get_array_end, At
<1>2. node \in Node /\ IsRead(node)
  BY <1>1 DEF IInv, InText, Placed, IsRead
<1>3. end + 1 \in 1 .. Len(text) + 1
  BY <1>1 DEF IInv, InText, Placed
<1> QED
  BY <1>1, <1>2, <1>3, GotKeeps

\* A value that is put into the list: there is one, and its key is a new one.
LEMMA AddToCacheKeeps ==
  ASSUME IInv, AddToCache
  PROVE  IInv'
<1>1. /\ At("behind") /\ phase = "behind" /\ UNCHANGED <<written, text, edits>>
  BY DEF AddToCache, At
<1>2. /\ pos \in 1 .. N + 1 /\ N \in Nat /\ N = Len(text) /\ begin \in 1 .. N
      /\ node \in Node /\ IsRead(node)
      /\ cache \in Seq(Node) /\ \A i \in DOMAIN cache : IsRead(cache[i])
  BY <1>1 DEF IInv, InText, Placed, Cached, N
<1>3. PICK behind : behind = Skip(pos, N, {" "})
  OBVIOUS
<1>4. PICK next : next = IF behind > N THEN behind
                         ELSE IF text[behind] = "#" THEN Line(begin) ELSE behind
  OBVIOUS
<1>5. next \in 1 .. N + 1
  <2>0. pos \in Nat /\ N \in Nat /\ pos <= N + 1
    BY <1>2
  <2>1. behind \in pos .. N + 1
    BY <1>3, <2>0, SkipIs
  <2>2. Line(begin) \in begin .. N + 1
    BY <1>2, FirstOfIs DEF Line
  <2> QED
    BY <1>2, <1>4, <2>1, <2>2
<1>6. ~(node.val = <<>> /\ ~node.empty)
  BY <1>2 DEF IsRead
<1>7. CASE Stop("refused")
  BY <1>1, <1>7, StopKeeps
<1>8. CASE /\ ~Duplicate /\ pos' = next /\ phase' = "parse" /\ cache' = Append(cache, node)
           /\ UNCHANGED <<begin, end, node>>
  <2>1. /\ cache' \in Seq(Node) /\ Len(cache) \in Nat
        /\ DOMAIN cache = 1 .. Len(cache) /\ DOMAIN cache' = 1 .. Len(cache) + 1
        /\ cache'[Len(cache) + 1] = node
        /\ \A i \in 1 .. Len(cache) : cache'[i] = cache[i]
    BY <1>2, <1>8
  <2>2. \A i \in 1 .. Len(cache) : cache[i].key # node.key
    BY <1>8, <2>1 DEF Duplicate
  <2>3. KeysDiffer'
    <3> SUFFICES ASSUME NEW i \in 1 .. Len(cache) + 1, NEW j \in 1 .. Len(cache) + 1,
                        cache'[i].key = cache'[j].key
                 PROVE  i = j
      BY <2>1 DEF KeysDiffer
    <3>1. i \in 1 .. Len(cache) \/ i = Len(cache) + 1
      BY <2>1
    <3>2. j \in 1 .. Len(cache) \/ j = Len(cache) + 1
      BY <2>1
    <3> QED
      BY <2>1, <2>2, <3>1, <3>2 DEF IInv, Cached, KeysDiffer
  <2>4. ASSUME NEW i \in DOMAIN cache'
        PROVE  IsRead(cache'[i])
    <3>1. i \in 1 .. Len(cache) \/ i = Len(cache) + 1
      BY <2>1
    <3> QED
      BY <1>2, <2>1, <3>1
  <2>5. InText' /\ Placed'
    BY <1>1, <1>2, <1>5, <1>8 DEF IInv, InText, Placed
  <2> QED
    BY <1>8, <2>1, <2>3, <2>4, <2>5 DEF IInv, Cached
<1>9. \/ Stop("refused")
      \/ /\ ~Duplicate /\ pos' = next /\ phase' = "parse" /\ cache' = Append(cache, node)
         /\ UNCHANGED <<begin, end, node>>
  BY <1>3, <1>4, <1>6 DEF AddToCache
<1> QED
  BY <1>7, <1>8, <1>9

\* The end of the file: correcting a value leaves its key, and something of it.
LEMMA FinishKeeps ==
  ASSUME IInv, Finish
  PROVE  IInv'
<1>1. /\ phase = "parse" /\ phase' = "done"
      /\ UNCHANGED <<written, text, edits, pos, begin, end, node>>
      /\ cache' = [i \in DOMAIN cache |-> CorrectNode(cache[i])]
  BY DEF Finish, At
<1>2. cache \in Seq(Node) /\ \A i \in DOMAIN cache : IsRead(cache[i])
  BY <1>1 DEF IInv, Cached
<1>3. ASSUME NEW n \in Node, IsRead(n)
      PROVE  CorrectNode(n).key = n.key /\ IsKept(CorrectNode(n))
  <2>1. CASE n.empty
    <3>1. CorrectNode(n) = n
      BY <2>1 DEF CorrectNode
    <3> QED
      BY <1>3, <2>1, <3>1 DEF IsRead, IsKept
  <2>2. CASE ~n.empty /\ n.type = "scalar"
    <3>1. CorrectNode(n) = [n EXCEPT !.val = correct_backslash(n.val)]
      BY <2>2 DEF CorrectNode
    <3>2. correct_backslash(n.val) # <<>>
      BY <1>3, <2>2, CorrectedIs DEF IsRead
    <3>3. PICK v : v = correct_backslash(n.val)
      OBVIOUS
    <3> QED
      BY <2>2, <3>1, <3>2, <3>3 DEF Node, IsKept
  <2>3. CASE ~n.empty /\ n.type = "array"
    <3>1. CorrectNode(n) = [n EXCEPT !.val = [i \in DOMAIN n.val |-> correct_backslash(n.val[i])]]
      BY <2>3 DEF CorrectNode
    <3>2. PICK v : v = [i \in DOMAIN n.val |-> correct_backslash(n.val[i])]
      OBVIOUS
    <3>3. n.val \in Seq(Seq(Symbol)) /\ n.val # <<>> /\ NoEmpty(n.val)
      BY <1>3, <2>3 DEF IsRead
    <3>4. \A i \in DOMAIN n.val : v[i] # <<>>
      BY <3>2, <3>3, CorrectedIs DEF NoEmpty
    <3>5. DOMAIN v = DOMAIN n.val /\ 1 \in DOMAIN v
      BY <3>2, <3>3
    <3>6. v # <<>>
      BY <3>5
    <3>7. <<>> \notin Range(v)
      BY <3>4, <3>5 DEF Range
    <3>8. CorrectNode(n) = [n EXCEPT !.val = v]
      BY <3>1, <3>2
    <3> QED
      BY <2>3, <3>6, <3>7, <3>8 DEF Node, IsKept
  <2> QED
    BY <2>1, <2>2, <2>3 DEF Node
<1>4. ASSUME NEW i \in DOMAIN cache
      PROVE  cache'[i].key = cache[i].key /\ IsKept(cache'[i])
  <2>1. cache[i] \in Node /\ IsRead(cache[i])
    BY <1>2
  <2>2. cache'[i] = CorrectNode(cache[i])
    BY <1>1
  <2> QED
    BY <1>3, <2>1, <2>2
<1>5. DOMAIN cache' = DOMAIN cache
  BY <1>1
<1>6. Cached'
  BY <1>1, <1>4, <1>5 DEF IInv, Cached, KeysDiffer
<1>7. InText' /\ Placed'
  BY <1>1 DEF IInv, InText, Placed
<1> QED
  BY <1>6, <1>7 DEF IInv

-----------------------------------------------------------------------------
(* The invariant, and what follows from it *)

\* A file the writer wrote is where the parser begins.
LEMMA InitIsIn == Init => IInv
<1> SUFFICES ASSUME Init
             PROVE  IInv
  OBVIOUS
<1>1. text \in Seq(Symbol)
  BY K2v3Assumption, FileIs DEF Init
<1>2. node \in Node
  <2>1. <<>> \in Seq(Symbol)
    OBVIOUS
  <2> QED
    BY <2>1 DEF Init, NoNode, Node
<1>3. cache = <<>> /\ DOMAIN cache = {} /\ cache \in Seq(Node)
  BY DEF Init
<1>4. Cached
  BY <1>3 DEF Init, Cached, KeysDiffer
<1>5. InText /\ Placed
  BY <1>1, <1>2, K2v3Assumption DEF Init, InText, Placed
<1> QED
  BY <1>4, <1>5 DEF IInv

\* Every step of the parser and of who changes the file keeps the invariant.
LEMMA StepKeeps == IInv /\ [Next]_vars => IInv'
<1>1. ASSUME IInv, Next
      PROVE  IInv'
  BY <1>1, EditFileKeeps, OpenFileKeeps, SkipLineKeeps, GetKeyKeeps, GetNullKeeps, GetScalarKeeps,
     GetArrayKeeps, GetOtherKeeps, GetElementKeeps, GetArrayEndKeeps, AddToCacheKeeps, FinishKeeps
     DEF Next, k2v3_parse
<1>2. ASSUME IInv, UNCHANGED vars
      PROVE  IInv'
  BY <1>2 DEF vars, IInv, InText, Placed, Cached, KeysDiffer
<1> QED
  BY <1>1, <1>2

\* It holds in every state.
LEMMA Invariant == Spec => []IInv
BY InitIsIn, StepKeeps, PTL DEF Spec

\* k2v3_parse() is always in the text, whatever a caller types into the file: an array's
\* elements lie before its end, the "internal error" of its last check is out of reach,
\* and the list has every key once, with a value that is empty only where the file has
\* "" or [].
THEOREM TypeCorrect == Spec => []TypeOK
<1>1. IInv => TypeOK
  <2> SUFFICES ASSUME IInv
               PROVE  TypeOK
    OBVIOUS
  <2>1. \A i \in DOMAIN cache : IsKept(cache[i])
    <3>1. CASE phase = "done"
      BY <3>1 DEF IInv, Cached
    <3>2. CASE phase # "done"
      <4>1. cache \in Seq(Node) /\ \A i \in DOMAIN cache : IsRead(cache[i])
        BY <3>2 DEF IInv, Cached
      <4>2. \A i \in DOMAIN cache : cache[i] \in Node
        BY <4>1
      <4> QED
        BY <4>1, <4>2, ReadIsKept
    <3> QED
      BY <3>1, <3>2
  <2>2. phase = "element" => pos \in begin + 1 .. end /\ end <= Len(text)
    BY DEF IInv, InText, Placed
  <2> QED
    BY <2>1, <2>2 DEF TypeOK, IInv, InText, Placed, Cached, KeysDiffer, IsKept
<1> QED
  BY <1>1, Invariant, PTL

-----------------------------------------------------------------------------
(* What is read of it *)

M     == Len(written.scalar)
Count == Len(written.array)

\* The values have nothing that ends or escapes one.
NoMarks == Chars \cap {Quote, Slash, NL} = {}

\* What is to be found in the list.
Scalar == [key |-> <<"k">>, type |-> "scalar", empty |-> written.scalar = <<>>,
           val |-> written.scalar]
Array  == [key |-> <<"l">>, type |-> "array", empty |-> written.array = <<>>,
           val |-> written.array]
Part(j) == [key |-> <<"l">>, type |-> "array", empty |-> FALSE,
            val |-> SubSeq(written.array, 1, j)]

\* The text is as it was written, with elements at P.
AsWritten(P) ==
  /\ IsLaidOut(text, written.scalar, written.array, P)
  /\ \A i \in 1 .. N : text[i] # Slash

\* Before the scalar, and in it.
ReadsScalar ==
  /\ cache = <<>>
  /\ \/ phase = "edit" /\ pos = 1
     \/ phase = "parse" /\ pos \in {1, 3, 7}
     \/ phase = "value" /\ pos = 9 /\ begin = 9 /\ node = [NoNode EXCEPT !.key = <<"k">>]
     \/ phase = "behind" /\ pos = M + 11 /\ begin = 9 /\ node = Scalar

\* In the array, of which j elements have been read.  It ends where it should, or within
\* an element that has a bracket.
ReadsElements(P) ==
  \E j \in 0 .. Count :
    /\ phase = "element" /\ Count # 0 /\ begin = M + 15 /\ pos = P[j + 1] /\ node = Part(j)
    /\ end \in P[j + 1] .. P[Count + 1] /\ text[end] = "]"
    /\ end # P[Count + 1] => ~Plain

\* Before the array, and in it.
ReadsArray(P) ==
  /\ cache = <<Scalar>>
  /\ \/ phase = "parse" /\ pos \in {M + 11, M + 12, M + 13}
     \/ phase = "value" /\ pos = M + 15 /\ begin = M + 15 /\ node = [NoNode EXCEPT !.key = <<"l">>]
     \/ ReadsElements(P)
     \/ phase = "behind" /\ pos = N /\ begin = M + 15 /\ node = Array

\* Behind the array.
HasRead ==
  /\ cache = <<Scalar, Array>>
  /\ \/ phase = "parse" /\ pos \in {N, N + 1}
     \/ phase = "done"

Reads(P) == ReadsScalar \/ ReadsArray(P) \/ HasRead \/ (phase = "refused" /\ ~Plain)

ReadInv ==
  /\ written \in [scalar : Seq(STRING), array : Seq(Seq(STRING))]
  /\ edits = 0 /\ NoMarks => \E P : AsWritten(P) /\ Reads(P)

\* What the values are written for, and the text of it.
Shape(P) ==
  /\ written \in [scalar : Seq(STRING), array : Seq(Seq(STRING))]
  /\ NoMarks /\ AsWritten(P)

\* The characters of the values end none of them, and escape nothing.
LEMMA ValuesAre ==
  ASSUME written \in [scalar : Seq(STRING), array : Seq(Seq(STRING))]
  PROVE  /\ M \in Nat /\ Count \in Nat
         /\ \A i \in 1 .. M : written.scalar[i] \in Chars
         /\ \A j \in 1 .. Count : /\ Len(written.array[j]) \in Nat /\ written.array[j] \in Seq(STRING)
                                  /\ written.array[j] \in Range(written.array)
                                  /\ \A i \in 1 .. Len(written.array[j]) : written.array[j][i] \in Chars
<1>1. PICK s \in Seq(STRING) : s = written.scalar
  OBVIOUS
<1>2. PICK a \in Seq(Seq(STRING)) : a = written.array
  OBVIOUS
<1>3. Values = Range(a) \cup {s}
  BY <1>1, <1>2 DEF Values
<1>4. ASSUME NEW v \in Values, NEW i \in DOMAIN v
      PROVE  v[i] \in Chars
  BY <1>4 DEF Chars, Range
<1>5. \A i \in 1 .. Len(s) : s[i] \in Chars
  <2>1. s \in Values /\ DOMAIN s = 1 .. Len(s)
    BY <1>3
  <2> QED
    BY <1>4, <2>1
<1>6. ASSUME NEW j \in 1 .. Len(a)
      PROVE  /\ Len(a[j]) \in Nat /\ a[j] \in Range(a) /\ a[j] \in Seq(STRING)
             /\ \A i \in 1 .. Len(a[j]) : a[j][i] \in Chars
  <2>1. PICK v \in Seq(STRING) : v = a[j]
    OBVIOUS
  <2>2. v \in Range(a)
    BY <2>1 DEF Range
  <2>3. v \in Values /\ DOMAIN v = 1 .. Len(v)
    BY <1>3, <2>2
  <2> QED
    BY <1>4, <2>1, <2>2, <2>3
<1> QED
  BY <1>1, <1>2, <1>5, <1>6 DEF M, Count

\* Where the parts of the text are.
LEMMA PlacesAre ==
  ASSUME NEW P, Shape(P)
  PROVE  /\ M \in Nat /\ Count \in Nat /\ N \in Nat
         /\ P \in [1 .. Count + 1 -> Nat] /\ P[1] = M + 16 /\ N = P[Count + 1] + 1
         /\ \A i \in 1 .. Count + 1 : M + 16 <= P[i] /\ P[i] <= P[Count + 1]
         /\ text[P[Count + 1]] = "]" /\ text[N] = NL
<1>1. M \in Nat /\ Count \in Nat
  BY ValuesAre DEF Shape
<1>2. /\ P \in [1 .. Count + 1 -> Nat] /\ P[1] = M + 16 /\ N = P[Count + 1] + 1
      /\ text[P[Count + 1]] = "]" /\ text[N] = NL
  BY Zenon DEF Shape, AsWritten, IsLaidOut, AreElements, M, Count, N
<1>3. ASSUME NEW i \in 1 .. Count + 1
      PROVE  M + 16 <= P[i] /\ P[i] <= P[Count + 1]
  <2>1. \A k, j \in 1 .. Count + 1 : k <= j => P[k] <= P[j]
    <3>1. written.array \in Seq(Seq(STRING)) /\ AreElements(text, written.array, P)
      BY DEF Shape, AsWritten, IsLaidOut
    <3> QED
      BY <3>1, ElementsGrow, Zenon DEF Count
  <2>2. 1 \in 1 .. Count + 1 /\ Count + 1 \in 1 .. Count + 1 /\ 1 <= i /\ i <= Count + 1
    BY <1>1
  <2> QED
    BY <1>2, <2>1, <2>2, Zenon
<1>4. N \in Nat
  <2>1. P[Count + 1] \in Nat
    BY <1>1, <1>2
  <2> QED
    BY <1>2, <2>1
<1> QED
  BY <1>1, <1>2, <1>3, <1>4, Zenon

\* The j-th element in the text: what is in it, and what is behind it.
IsElement(P, j, p, l) ==
  /\ p \in Nat /\ l \in Nat /\ p = P[j] /\ l = Len(written.array[j])
  /\ M + 16 <= p /\ p + l + 2 <= P[Count + 1] /\ P[Count + 1] <= N
  /\ text[p] = Quote /\ text[p + l + 1] = Quote
  /\ \A k \in 1 .. l : /\ text[p + k] = written.array[j][k]
                       /\ text[p + k] \in Chars /\ text[p + k] \notin {Quote, Slash, NL}
  /\ j = Count => P[j + 1] = p + l + 2
  /\ j # Count => P[j + 1] = p + l + 3 /\ text[p + l + 2] = "," /\ text[P[j + 1]] = Quote

\* Every element is in the text so.
LEMMA ElementIs ==
  ASSUME NEW P, Shape(P), NEW j \in 1 .. Count
  PROVE  \E p, l \in Nat : IsElement(P, j, p, l)
<1>1. /\ M \in Nat /\ Count \in Nat /\ N \in Nat
      /\ P \in [1 .. Count + 1 -> Nat] /\ N = P[Count + 1] + 1
      /\ \A i \in 1 .. Count + 1 : M + 16 <= P[i] /\ P[i] <= P[Count + 1]
  BY PlacesAre
<1>2. PICK p \in Nat : p = P[j]
  BY <1>1
<1>3. PICK l \in Nat : l = Len(written.array[j])
  BY ValuesAre DEF Shape
<1>4. /\ P[j + 1] = p + Width(written.array, j)
      /\ text[p] = Quote /\ text[p + l + 1] = Quote
      /\ \A k \in 1 .. l : text[p + k] = written.array[j][k]
      /\ j # Count => text[p + l + 2] = ","
  BY <1>2, <1>3, Zenon DEF Shape, AsWritten, IsLaidOut, AreElements, Count
<1>5. PICK w \in Nat : /\ w = Width(written.array, j)
                       /\ j = Count => p + w = p + l + 2
                       /\ j # Count => p + w = p + l + 3
  <2>1. Width(written.array, j) = l + (IF j = Count THEN 2 ELSE 3)
    BY <1>3, Zenon DEF Width, Count
  <2> QED
    BY <2>1
<1>6. /\ j = Count => P[j + 1] = p + l + 2
      /\ j # Count => P[j + 1] = p + l + 3
  <2>1. P[j + 1] = p + w
    BY <1>4, <1>5, Zenon
  <2>2. p + w \in Nat
    OBVIOUS
  <2> QED
    BY <1>5, <2>1, <2>2
<1>7. j # Count => text[P[j + 1]] = Quote
  <2>1. j # Count => j + 1 \in 1 .. Count
    BY <1>1
  <2> QED
    BY <2>1, Zenon DEF Shape, AsWritten, IsLaidOut, AreElements, Count
<1>8. M + 16 <= p /\ p + l + 2 <= P[Count + 1] /\ P[Count + 1] <= N
  <2>1. j \in 1 .. Count + 1 /\ j + 1 \in 1 .. Count + 1 /\ Count + 1 \in 1 .. Count + 1
    BY <1>1
  <2>2. M + 16 <= p /\ P[j + 1] <= P[Count + 1]
    BY <1>1, <1>2, <2>1
  <2>3. P[Count + 1] \in Nat /\ P[j + 1] \in Nat
    BY <1>1, <2>1
  <2>4. p + l + 2 <= P[j + 1]
    BY <1>6
  <2> QED
    BY <1>1, <2>2, <2>3, <2>4
<1>9. \A k \in 1 .. l : text[p + k] \in Chars /\ text[p + k] \notin {Quote, Slash, NL}
  <2>1. \A k \in 1 .. l : text[p + k] \in Chars
    BY <1>3, <1>4, ValuesAre DEF Shape
  <2>2. Chars \cap {Quote, Slash, NL} = {}
    BY DEF Shape, NoMarks
  <2> QED
    BY <2>1, <2>2
<1>10. IsElement(P, j, p, l)
  BY <1>2, <1>3, <1>4, <1>6, <1>7, <1>8, <1>9, Zenon DEF IsElement
<1> QED
  BY <1>10

\* A bracket before the end of the array is one in an element.
LEMMA BracketIsInElement ==
  ASSUME NEW P, Shape(P), NEW x \in Nat, M + 16 <= x, x < P[Count + 1], text[x] = "]"
  PROVE  ~Plain
<1>1. /\ M \in Nat /\ Count \in Nat
      /\ P \in [1 .. Count + 1 -> Nat] /\ P[1] = M + 16
  BY PlacesAre
<1> DEFINE G == {m \in 1 .. Count + 1 : x < P[m] => \E i \in 1 .. Count : P[i] <= x /\ x < P[i + 1]}
<1>2. ASSUME NEW m \in 1 .. Count + 1, m = 1 \/ m - 1 \in G
      PROVE  m \in G
  <2>1. CASE m = 1
    BY <1>1, <2>1
  <2>2. CASE m # 1
    <3>1. m - 1 \in G /\ m - 1 \in 1 .. Count /\ (m - 1) + 1 = m
      BY <1>1, <1>2, <2>2
    <3>2. P[m - 1] \in Nat /\ P[m] \in Nat
      BY <1>1, <3>1
    <3>3. x < P[m - 1] \/ P[m - 1] <= x
      BY <3>2
    <3>4. CASE x < P[m - 1]
      BY <3>1, <3>4
    <3>5. CASE P[m - 1] <= x
      <4>1. x < P[m] => \E i \in 1 .. Count : P[i] <= x /\ x < P[i + 1]
        BY <3>1, <3>5
      <4> QED
        BY <4>1
    <3> QED
      BY <3>3, <3>4, <3>5
  <2> QED
    BY <2>1, <2>2
<1>3. Count + 1 \in G
  <2>1. Count + 1 \in Nat /\ Count + 1 \in 1 .. Count + 1
    BY <1>1
  <2> HIDE DEF G
  <2> QED
    BY <1>2, <2>1, Upward
<1>4. PICK i \in 1 .. Count : P[i] <= x /\ x < P[i + 1]
  BY <1>3
<1>5. PICK p \in Nat, l \in Nat : IsElement(P, i, p, l)
  BY ElementIs
<1>6. /\ p <= x /\ x < p + l + 3 /\ (i = Count => x < p + l + 2)
      /\ text[p] = Quote /\ text[p + l + 1] = Quote /\ (i # Count => text[p + l + 2] = ",")
      /\ \A k \in 1 .. l : text[p + k] \in Chars
  <2>1. /\ p = P[i] /\ text[p] = Quote /\ text[p + l + 1] = Quote
        /\ (i # Count => text[p + l + 2] = ",") /\ \A k \in 1 .. l : text[p + k] \in Chars
        /\ i = Count => P[i + 1] = p + l + 2
        /\ i # Count => P[i + 1] = p + l + 3
    BY <1>5 DEF IsElement
  <2>2. PICK e : e = P[i + 1]
    OBVIOUS
  <2>3. x < e /\ p <= x
    BY <1>4, <2>1, <2>2, Zenon
  <2>4. (i = Count => e = p + l + 2) /\ (i # Count => e = p + l + 3)
    BY <2>1, <2>2, Zenon
  <2>5. x < p + l + 3 /\ (i = Count => x < p + l + 2)
    BY <2>3, <2>4
  <2> QED
    BY <2>1, <2>3, <2>5
<1>7. "]" # Quote /\ "]" # ","
  BY DEF Quote
<1>8. x # p /\ x # p + l + 1 /\ (i # Count => x # p + l + 2)
  BY <1>6, <1>7
<1>9. PICK k \in 1 .. l : x = p + k
  <2>1. p <= x /\ x < p + l + 3 /\ (i = Count => x < p + l + 2)
    BY <1>6
  <2>2. x - p \in 1 .. l /\ x = p + (x - p)
    BY <1>8, <2>1
  <2> QED
    BY <2>2
<1>10. "]" \in Chars
  BY <1>6, <1>9
<1> QED
  BY <1>10 DEF Plain

-----------------------------------------------------------------------------
(* Where a scan ends *)

\* Nothing is skipped.
LEMMA SkipAt ==
  ASSUME NEW from \in Nat, NEW last \in Nat, NEW chars, from <= last + 1,
         from <= last => text[from] \notin chars
  PROVE  Skip(from, last, chars) = from
<1>1. PICK p : p = Skip(from, last, chars)
  OBVIOUS
<1>2. /\ p \in from .. last + 1
      /\ \A j \in from .. p - 1 : text[j] \in chars
  BY <1>1, SkipIs
<1>3. p # from => from \in from .. p - 1 /\ from <= last
  BY <1>2
<1> QED
  BY <1>1, <1>2, <1>3

\* The first character that is looked for.
LEMMA FirstOfAt ==
  ASSUME NEW from \in Nat, NEW chars, N \in Nat, NEW p \in from .. N,
         text[p] \in chars, \A j \in from .. p - 1 : text[j] \notin chars
  PROVE  FirstOf(from, chars) = p
<1>1. PICK q : q = FirstOf(from, chars)
  OBVIOUS
<1>2. /\ q \in from .. N + 1 /\ (q <= N => text[q] \in chars)
      /\ \A j \in from .. q - 1 : text[j] \notin chars
  BY <1>1, FirstOfIs
<1>3. q < p => q \in from .. p - 1 /\ q <= N
  BY <1>2
<1>4. p < q => p \in from .. q - 1
  BY <1>2
<1>5. q < p \/ p < q \/ q = p
  BY <1>2
<1> QED
  BY <1>1, <1>2, <1>3, <1>4, <1>5

\* Without a backslash nothing is escaped.
LEMMA CloseAt ==
  ASSUME NEW from \in Nat \ {0}, NEW last \in Nat, NEW c, NEW p \in from .. last,
         \A i \in 1 .. last : text[i] # Slash,
         text[p] = c, \A j \in from .. p - 1 : text[j] # c
  PROVE  Close(from, last, c) = p
<1>1. PICK q : q = Close(from, last, c)
  OBVIOUS
<1>2. /\ q \in from .. last + 1 /\ (q <= last => text[q] = c)
      /\ \A j \in from .. q - 1 : ~Unescaped(text, from, j, c)
  <2>1. from <= last + 1
    OBVIOUS
  <2> QED
    BY <1>1, <2>1, CloseIs
<1>3. q < p => q \in from .. p - 1 /\ q <= last
  BY <1>2
<1>4. p < q => p \in from .. q - 1
  BY <1>2
<1>5. q < p \/ p < q \/ q = p
  BY <1>2
<1>6. Unescaped(text, from, p, c)
  <2>1. p = from \/ p - 1 \in 1 .. last
    OBVIOUS
  <2> QED
    BY <2>1 DEF Unescaped, Escaped
<1> QED
  BY <1>1, <1>2, <1>3, <1>4, <1>5, <1>6

\* What is looked for is not there.
LEMMA CloseIsBehind ==
  ASSUME NEW from \in Nat, NEW last \in Nat, NEW c, from <= last + 1,
         \A j \in from .. last : text[j] # c
  PROVE  Close(from, last, c) = last + 1
<1>1. PICK q : q = Close(from, last, c)
  OBVIOUS
<1>2. q \in from .. last + 1 /\ (q <= last => text[q] = c)
  BY <1>1, CloseIs
<1>3. q <= last => q \in from .. last
  BY <1>2
<1> QED
  BY <1>1, <1>2, <1>3

\* The part of a text that has the characters of a value is that value.
LEMMA PartAt ==
  ASSUME NEW t \in Seq(Symbol), NEW s \in Seq(Symbol), NEW a \in Nat \ {0}, NEW l \in Nat, l = Len(s),
         a + l <= Len(t) + 1, \A k \in 1 .. l : t[a + (k - 1)] = s[k]
  PROVE  SubSeq(t, a, a + l - 1) = s
<1>1. \A i \in a .. a + l - 1 : t[i] \in Symbol
  OBVIOUS
<1>2. PICK v : v = SubSeq(t, a, a + l - 1)
  OBVIOUS
<1>3. PICK b \in Int : b = a + l - 1
  <2>1. a + l - 1 \in Int
    OBVIOUS
  <2> QED
    BY <2>1, Zenon
<1>4. /\ v \in Seq(Symbol) /\ Len(v) = IF a <= b THEN b - a + 1 ELSE 0
      /\ \A i \in 1 .. b - a + 1 : v[i] = t[a + i - 1]
  BY <1>1, <1>2, <1>3, SubSeqProperties
<1>5. Len(v) = l /\ b - a + 1 = l
  BY <1>3, <1>4
<1>6. \A i \in 1 .. l : v[i] = s[i]
  <2> SUFFICES ASSUME NEW i \in 1 .. l
               PROVE  v[i] = s[i]
    OBVIOUS
  <2>1. a + i - 1 = a + (i - 1) /\ i \in 1 .. b - a + 1
    BY <1>5
  <2> QED
    BY <1>4, <2>1
<1>7. v = s
  <2>1. v = [i \in 1 .. l |-> v[i]] /\ s = [i \in 1 .. l |-> s[i]]
    BY <1>4, <1>5
  <2> QED
    BY <1>6, <2>1
<1> QED
  BY <1>2, <1>7

\* A value without a backslash has none to lose.
LEMMA Uncorrected ==
  ASSUME NEW s \in Seq(Symbol), \A i \in 1 .. Len(s) : s[i] # Slash
  PROVE  correct_backslash(s) = s
<1>1. PICK n \in Nat : n = Len(s)
  OBVIOUS
<1> DEFINE gone == {i \in 1 .. Len(s) - 1 : Unescaped(s, 1, i, Slash) /\ s[i + 1] \notin Kept}
<1>2. gone = {}
  <2>1. \A i \in 1 .. Len(s) - 1 : s[i] # Slash
    BY <1>1
  <2> QED
    BY <2>1 DEF Unescaped
<1>3. DOMAIN s \ gone = 1 .. n
  BY <1>1, <1>2
<1> HIDE DEF gone
<1>4. ASSUME NEW i \in 1 .. n
      PROVE  InOrder(1 .. n)[i] = i
  <2>1. \A k \in 1 .. n : Cardinality({j \in 1 .. n : j < k}) = k - 1
    <3> SUFFICES ASSUME NEW k \in 1 .. n
                 PROVE  Cardinality({j \in 1 .. n : j < k}) = k - 1
      OBVIOUS
    <3>1. {j \in 1 .. n : j < k} = 1 .. k - 1
      OBVIOUS
    <3>2. Cardinality(1 .. k - 1) = k - 1
      <4>1. Cardinality(1 .. k - 1) = IF 1 > k - 1 THEN 0 ELSE (k - 1) - 1 + 1
        BY FS_Interval
      <4> QED
        BY <4>1
    <3> QED
      BY <3>1, <3>2
  <2>2. Cardinality(1 .. n) = n
    <3>1. Cardinality(1 .. n) = IF 1 > n THEN 0 ELSE n - 1 + 1
      BY FS_Interval
    <3> QED
      BY <3>1
  <2> DEFINE IsNth(k) == Cardinality({j \in 1 .. n : j < k}) = i - 1
  <2>3. InOrder(1 .. n)[i] = CHOOSE k \in 1 .. n : IsNth(k)
    BY <2>2 DEF InOrder
  <2>4. \A k \in 1 .. n : IsNth(k) <=> k = i
    <3> SUFFICES ASSUME NEW k \in 1 .. n
                 PROVE  IsNth(k) <=> k = i
      OBVIOUS
    <3>1. Cardinality({j \in 1 .. n : j < k}) = k - 1
      BY <2>1
    <3> QED
      BY <3>1
  <2> HIDE DEF IsNth
  <2> QED
    BY <2>3, <2>4
<1>5. DOMAIN InOrder(1 .. n) = 1 .. n
  <2>1. Cardinality(1 .. n) = IF 1 > n THEN 0 ELSE n - 1 + 1
    BY FS_Interval
  <2>2. Cardinality(1 .. n) = n
    BY <2>1
  <2> QED
    BY <2>2 DEF InOrder
<1>6. PICK rest : rest = InOrder(1 .. n)
  OBVIOUS
<1>7. correct_backslash(s) = [i \in DOMAIN rest |-> s[rest[i]]]
  BY <1>3, <1>6 DEF correct_backslash, PartsAt, gone
<1>8. correct_backslash(s) = [i \in 1 .. n |-> s[i]]
  BY <1>4, <1>5, <1>6, <1>7
<1>9. s = [i \in 1 .. n |-> s[i]]
  BY <1>1
<1> QED
  BY <1>8, <1>9

-----------------------------------------------------------------------------
(* The parser reads what was written *)

\* As long as nobody changes the file, its text is as it was written.
LEMMA Unmoved ==
  ASSUME NEW P, Shape(P), UNCHANGED <<written, text>>
  PROVE  /\ Shape(P)' /\ M' = M /\ Count' = Count /\ N' = N
         /\ Scalar' = Scalar /\ Array' = Array /\ (Plain' <=> Plain)
         /\ \A j \in Nat : Part(j)' = Part(j)
<1>1. N' = N /\ M' = M /\ Count' = Count
  BY DEF N, M, Count
<1>2. Scalar' = Scalar /\ Array' = Array /\ \A j \in Nat : Part(j)' = Part(j)
  BY DEF Scalar, Array, Part
<1>3. Chars' = Chars
  BY DEF Chars, Values, Range
<1>4. Plain' <=> Plain
  BY <1>3 DEF Plain, Range
<1>5. Shape(P)'
  <2>1. NoMarks'
    BY <1>3 DEF Shape, NoMarks
  <2>2. AsWritten(P)'
    <3>1. AsWritten(P)
      BY DEF Shape
    <3> QED
      BY <1>1, <3>1 DEF AsWritten, IsLaidOut, AreElements, Width
  <2> QED
    BY <2>1, <2>2 DEF Shape
<1> QED
  BY <1>1, <1>2, <1>4, <1>5

\* What the writer adds, in its places.
IsMarked(m, n) ==
  /\ m \in Nat /\ n \in Nat /\ m = M /\ n = N /\ m + 17 <= n
  /\ text[1] = "#" /\ text[2] = NL /\ text[3] = "#" /\ text[4] = " " /\ text[5] = "a" /\ text[6] = NL
  /\ text[7] = "k" /\ text[8] = "=" /\ text[9] = Quote
  /\ \A i \in 1 .. m : text[i + 9] = written.scalar[i] /\ text[i + 9] \notin {Quote, Slash, NL}
  /\ text[m + 10] = Quote /\ text[m + 11] = NL /\ text[m + 12] = NL
  /\ text[m + 13] = "l" /\ text[m + 14] = "=" /\ text[m + 15] = "[" /\ text[n] = NL
  /\ \A i \in 1 .. n : text[i] # Slash

\* They are there.
LEMMA MarksAre ==
  ASSUME NEW P, Shape(P)
  PROVE  \E m, n \in Nat : IsMarked(m, n)
<1>1. /\ M \in Nat /\ Count \in Nat /\ N \in Nat /\ N = P[Count + 1] + 1
      /\ P \in [1 .. Count + 1 -> Nat]
      /\ \A i \in 1 .. Count + 1 : M + 16 <= P[i]
      /\ text[N] = NL
  BY PlacesAre
<1>2. PICK m \in Nat : m = M
  BY <1>1
<1>3. PICK n \in Nat : n = N
  BY <1>1
<1>4. m + 17 <= n
  <2>1. Count + 1 \in 1 .. Count + 1
    BY <1>1
  <2>2. PICK e \in Nat : e = P[Count + 1]
    BY <1>1, <2>1
  <2>3. m + 16 <= e /\ n = e + 1
    BY <1>1, <1>2, <1>3, <2>1, <2>2, Zenon
  <2> QED
    BY <2>3
<1>5. /\ text[1] = "#" /\ text[2] = NL /\ text[3] = "#" /\ text[4] = " " /\ text[5] = "a" /\ text[6] = NL
      /\ text[7] = "k" /\ text[8] = "=" /\ text[9] = Quote
      /\ text[m + 10] = Quote /\ text[m + 11] = NL /\ text[m + 12] = NL
      /\ text[m + 13] = "l" /\ text[m + 14] = "=" /\ text[m + 15] = "["
      /\ \A i \in 1 .. m : text[i + 9] = written.scalar[i]
      /\ \A i \in 1 .. n : text[i] # Slash
  BY <1>2, <1>3, Zenon DEF Shape, AsWritten, IsLaidOut, M
<1>6. \A i \in 1 .. m : text[i + 9] \notin {Quote, Slash, NL}
  <2>1. \A i \in 1 .. m : text[i + 9] \in Chars
    BY <1>2, <1>5, ValuesAre DEF Shape
  <2>2. Chars \cap {Quote, Slash, NL} = {}
    BY DEF Shape, NoMarks
  <2> QED
    BY <2>1, <2>2
<1>7. IsMarked(m, n)
  BY <1>1, <1>2, <1>3, <1>4, <1>5, <1>6, Zenon DEF IsMarked
<1> QED
  BY <1>7

\* Lines without a key: the comment, and the ends of lines.
LEMMA SkipLineReads ==
  ASSUME NEW P, Shape(P), Reads(P), SkipLine
  PROVE  Reads(P)'
<1>1. /\ phase = "parse" /\ phase' = phase /\ pos' = NextLine /\ pos <= N /\ text[pos] \in {NL, "#"}
      /\ UNCHANGED <<written, text, edits, begin, end, node, cache>>
  BY DEF SkipLine, At, Here
<1>2. /\ M' = M /\ Count' = Count /\ N' = N /\ Scalar' = Scalar /\ Array' = Array
  BY <1>1, Unmoved
<1>3. PICK m \in Nat, n \in Nat : IsMarked(m, n)
  BY MarksAre
<1>4. /\ m = M /\ n = N /\ m + 17 <= n
      /\ text[1] = "#" /\ text[2] = NL /\ text[3] = "#" /\ text[4] = " " /\ text[5] = "a" /\ text[6] = NL
      /\ text[7] = "k" /\ text[m + 11] = NL /\ text[m + 12] = NL /\ text[m + 13] = "l" /\ text[n] = NL
  BY <1>3 DEF IsMarked
<1>5. 2 <= n /\ 6 <= n /\ 2 \in 1 .. n /\ 6 \in 3 .. n
  <2>1. m + 17 <= n
    BY <1>4
  <2> QED
    BY <2>1
<1>6. Line(1) = 2
  <2>1. N \in Nat /\ 1 \in Nat /\ 2 \in 1 .. N
    BY <1>4, <1>5, Zenon
  <2>2. \A j \in 1 .. 2 - 1 : j = 1
    OBVIOUS
  <2>3. text[2] \in {NL} /\ \A j \in 1 .. 2 - 1 : text[j] \notin {NL}
    BY <1>4, <2>2 DEF NL
  <2> QED
    BY <2>1, <2>3, FirstOfAt DEF Line
<1>7. Line(3) = 6
  <2>1. N \in Nat /\ 3 \in Nat /\ 6 \in 3 .. N
    BY <1>4, <1>5, Zenon
  <2>2. \A j \in 3 .. 6 - 1 : j = 3 \/ j = 4 \/ j = 5
    OBVIOUS
  <2>3. text[6] \in {NL} /\ \A j \in 3 .. 6 - 1 : text[j] \notin {NL}
    BY <1>4, <2>2 DEF NL
  <2> QED
    BY <2>1, <2>3, FirstOfAt DEF Line
<1>8. \A x \in Nat : x <= n => Min({x, N}) = x
  <2> SUFFICES ASSUME NEW x \in Nat, x <= n
               PROVE  Min({x, n}) = x
    BY <1>4
  <2>1. x \in {x, n} /\ \A y \in {x, n} : x <= y
    OBVIOUS
  <2>2. \A y \in {x, n} : (\A z \in {x, n} : y <= z) => y = x
    OBVIOUS
  <2> QED
    BY <2>1, <2>2, Zenon DEF Min
<1>9. text[pos] = NL => pos' = pos + 1
  BY <1>1 DEF NextLine, Here
<1>10. text[pos] # NL => pos' = Min({Line(pos), N}) + 1
  BY <1>1 DEF NextLine, Here
<1>11. CASE ReadsScalar
  <2>1. pos \in {1, 3, 7} /\ cache = <<>>
    BY <1>1, <1>11 DEF ReadsScalar
  <2>2. pos # 7
    BY <1>1, <1>4 DEF NL
  <2>3. pos' \in {3, 7}
    <3>1. Min({2, N}) = 2 /\ Min({6, N}) = 6
      BY <1>8, <1>5
    <3>2. pos = 1 => pos' = 2 + 1
      BY <1>4, <1>6, <1>10, <3>1, Zenon DEF NL
    <3>3. pos = 3 => pos' = 6 + 1
      BY <1>4, <1>7, <1>10, <3>1, Zenon DEF NL
    <3> QED
      BY <2>1, <2>2, <3>2, <3>3
  <2>4. ReadsScalar'
    BY <1>1, <2>1, <2>3 DEF ReadsScalar
  <2> QED
    BY <2>4 DEF Reads
<1>12. CASE ReadsArray(P)
  <2>1. pos \in {m + 11, m + 12, m + 13} /\ cache = <<Scalar>>
    BY <1>1, <1>4, <1>12 DEF ReadsArray, ReadsElements
  <2>2. pos # m + 13
    BY <1>1, <1>4 DEF NL
  <2>3. pos' \in {m + 12, m + 13}
    <3>1. pos' = pos + 1
      BY <1>4, <1>9, <2>1, <2>2
    <3> QED
      BY <2>1, <2>2, <3>1
  <2>4. pos' \in {M' + 12, M' + 13}
    BY <1>2, <1>4, <2>3
  <2>5. ReadsArray(P)'
    BY <1>1, <1>2, <2>1, <2>4 DEF ReadsArray
  <2> QED
    BY <2>5 DEF Reads
<1>13. CASE HasRead
  <2>1. pos \in {n, n + 1} /\ pos <= n /\ cache = <<Scalar, Array>>
    BY <1>1, <1>4, <1>13, Zenon DEF HasRead
  <2>2. pos = n
    BY <2>1
  <2>3. pos' = N' + 1
    BY <1>2, <1>4, <1>9, <2>2, Zenon
  <2>4. HasRead'
    BY <1>1, <1>2, <2>1, <2>3 DEF HasRead
  <2> QED
    BY <2>4 DEF Reads
<1> QED
  BY <1>1, <1>11, <1>12, <1>13 DEF Reads

\* The keys.
LEMMA GetKeyReads ==
  ASSUME IInv, NEW P, Shape(P), Reads(P), get_key
  PROVE  Reads(P)'
<1> DEFINE equals == FirstOf(pos, {"=", NL})
<1>1. /\ phase = "parse" /\ pos <= N /\ text[pos] \notin {NL, "#"}
      /\ UNCHANGED <<written, text, edits>>
  BY DEF get_key, At, Here
<1>2. M' = M /\ Count' = Count /\ N' = N /\ Scalar' = Scalar /\ Array' = Array
  BY <1>1, Unmoved
<1>3. PICK m \in Nat, n \in Nat : IsMarked(m, n)
  BY MarksAre
<1>4. /\ m = M /\ n = N
      /\ text[1] = "#" /\ text[3] = "#" /\ text[7] = "k" /\ text[8] = "="
      /\ text[m + 11] = NL /\ text[m + 12] = NL /\ text[m + 13] = "l" /\ text[m + 14] = "="
      /\ text[n] = NL
  BY <1>3 DEF IsMarked
<1>5. m + 17 <= n
  BY <1>3 DEF IsMarked
<1>6. text \in Seq(Symbol) /\ N = Len(text)
  BY DEF IInv, InText, N
\* One letter and an equals sign, not at the end of the file.
<1>7. ASSUME NEW p \in Nat \ {0}, p + 1 < n, pos = p, text[p] \in {"k", "l"}, text[p + 1] = "="
      PROVE  /\ node' = [NoNode EXCEPT !.key = <<text[p]>>]
             /\ begin' = p + 2 /\ pos' = p + 2 /\ phase' = "value" /\ cache' = cache
  <2>1. equals = p + 1
    <3>1. N \in Nat /\ p \in Nat /\ p + 1 \in p .. n
      BY <1>4, <1>7
    <3>2. \A j \in p .. (p + 1) - 1 : j = p
      OBVIOUS
    <3>3. text[p + 1] \in {"=", NL} /\ \A j \in p .. (p + 1) - 1 : text[j] \notin {"=", NL}
      BY <1>7, <3>2 DEF NL
    <3>4. FirstOf(p, {"=", NL}) = p + 1
      BY <1>4, <3>1, <3>3, FirstOfAt
    <3> QED
      BY <1>7, <3>4
  <2>2. SubSeq(text, p, (p + 1) - 1) = <<text[p]>>
    <3>1. PICK c \in Symbol : c = text[p]
      <4>1. p \in 1 .. Len(text)
        BY <1>4, <1>6, <1>7
      <4> QED
        BY <1>6, <4>1
    <3>2. PICK s \in Seq(Symbol) : s = <<c>> /\ Len(s) = 1 /\ s[1] = c
      BY OneIs, Zenon
    <3>3. SubSeq(text, p, p + 1 - 1) = s
      <4>1. p + 1 <= Len(text) + 1
        BY <1>4, <1>6, <1>7
      <4>2. \A k \in 1 .. 1 : p + (k - 1) = p /\ k = 1
        OBVIOUS
      <4>3. \A k \in 1 .. 1 : text[p + (k - 1)] = s[k]
        BY <3>1, <3>2, <4>2, Zenon
      <4> QED
        BY <1>6, <3>2, <4>1, <4>3, PartAt
    <3> QED
      BY <3>1, <3>2, <3>3
  <2>3. \A i \in p .. (p + 1) - 1 : text[i] \in KeyChars
    <3>1. \A i \in p .. (p + 1) - 1 : i = p
      OBVIOUS
    <3> QED
      BY <1>7, <3>1 DEF KeyChars
  <2>4. ~(p + 1 = p) /\ ~(p + 1 > n) /\ ~(p + 1 = n) /\ (p + 1) + 1 = p + 2
    BY <1>7
  <2>5. /\ node' = [NoNode EXCEPT !.key = SubSeq(text, pos, equals - 1)]
        /\ begin' = equals + 1 /\ pos' = begin' /\ phase' = "value" /\ cache' = cache
    <3>1. /\ ~(equals = pos) /\ ~(equals > N) /\ text[equals] = "=" /\ ~(equals = N)
          /\ \A i \in pos .. equals - 1 : text[i] \in KeyChars
      BY <1>4, <1>7, <2>1, <2>3, <2>4, Zenon
    <3> HIDE DEF equals
    <3> QED
      BY <3>1 DEF get_key, equals
  <2> HIDE DEF equals
  <2> QED
    BY <1>7, <2>1, <2>2, <2>4, <2>5, Zenon
<1>8. CASE ReadsScalar
  <2>1. pos = 7 /\ cache = <<>>
    <3>1. pos \in {1, 3, 7} /\ cache = <<>>
      BY <1>1, <1>8 DEF ReadsScalar
    <3> QED
      BY <1>1, <1>4, <3>1
  <2>2. 7 + 1 < n /\ 7 + 1 = 8 /\ 7 + 2 = 9 /\ 7 \in Nat \ {0}
    BY <1>5
  <2>3. text[7] \in {"k", "l"} /\ text[7 + 1] = "=" /\ <<text[7]>> = <<"k">>
    BY <1>4, <2>2
  <2>4. /\ node' = [NoNode EXCEPT !.key = <<"k">>]
        /\ begin' = 9 /\ pos' = 9 /\ phase' = "value" /\ cache' = <<>>
    BY <1>7, <2>1, <2>2, <2>3
  <2>5. ReadsScalar'
    BY <2>4 DEF ReadsScalar
  <2> QED
    BY <2>5 DEF Reads
<1>9. CASE ReadsArray(P)
  <2>1. pos = m + 13 /\ cache = <<Scalar>>
    <3>1. pos \in {m + 11, m + 12, m + 13} /\ cache = <<Scalar>>
      BY <1>1, <1>4, <1>9 DEF ReadsArray, ReadsElements
    <3> QED
      BY <1>1, <1>4, <3>1
  <2>2. /\ (m + 13) + 1 < n /\ (m + 13) + 1 = m + 14 /\ (m + 13) + 2 = m + 15
        /\ m + 13 \in Nat \ {0}
    BY <1>5
  <2>3. text[m + 13] \in {"k", "l"} /\ text[(m + 13) + 1] = "=" /\ <<text[m + 13]>> = <<"l">>
    BY <1>4, <2>2
  <2>4. /\ node' = [NoNode EXCEPT !.key = <<text[m + 13]>>]
        /\ begin' = (m + 13) + 2 /\ pos' = (m + 13) + 2 /\ phase' = "value" /\ cache' = cache
    BY <1>7, <2>1, <2>2, <2>3, Zenon
  <2>5. /\ node' = [NoNode EXCEPT !.key = <<"l">>]
        /\ begin' = M' + 15 /\ pos' = M' + 15 /\ phase' = "value" /\ cache' = <<Scalar'>>
    BY <1>2, <1>4, <2>1, <2>2, <2>3, <2>4, Zenon
  <2>6. ReadsArray(P)'
    BY <2>5 DEF ReadsArray
  <2> QED
    BY <2>6 DEF Reads
<1>10. CASE HasRead
  <2>1. pos \in {n, n + 1} /\ pos <= n
    BY <1>1, <1>4, <1>10, Zenon DEF HasRead
  <2>2. pos = n
    BY <2>1
  <2> QED
    BY <1>1, <1>4, <2>2
<1> QED
  BY <1>1, <1>8, <1>9, <1>10 DEF Reads

\* An empty value.
LEMMA GetNullReads ==
  ASSUME IInv, NEW P, Shape(P), Reads(P), get_null
  PROVE  Reads(P)'
<1>1. /\ phase = "value" /\ UNCHANGED <<written, text, edits>>
  BY DEF get_null, At
<1>2. M' = M /\ Count' = Count /\ N' = N /\ Scalar' = Scalar /\ Array' = Array
  BY <1>1, Unmoved
<1>3. PICK m \in Nat, n \in Nat : IsMarked(m, n)
  BY MarksAre
<1>4. /\ m = M /\ n = N /\ text[9] = Quote /\ text[m + 15] = "["
      /\ \A i \in 1 .. m : text[i + 9] # Quote
      /\ Quote # "[" /\ Quote # "]"
  BY <1>3 DEF IsMarked, Quote
<1>5. CASE ReadsScalar
  <2>1. pos = 9 /\ begin = 9 /\ node = [NoNode EXCEPT !.key = <<"k">>] /\ cache = <<>>
    BY <1>1, <1>5 DEF ReadsScalar
  <2>2. NullScalar /\ Got([node EXCEPT !.empty = TRUE], pos + 2)
    BY <1>4, <2>1 DEF get_null, NullArray, Here
  <2>3. m = 0
    <3>1. text[9 + 1] = Quote
      BY <2>1, <2>2 DEF NullScalar
    <3>2. m # 0 => 1 \in 1 .. m /\ 1 + 9 = 9 + 1
      OBVIOUS
    <3> QED
      BY <1>4, <3>1, <3>2
  <2>4. written.scalar = <<>>
    <3>1. PICK s \in Seq(STRING) : s = written.scalar
      BY DEF Shape
    <3>2. Len(s) = 0
      BY <1>4, <2>3, <3>1 DEF M
    <3> QED
      BY <3>1, <3>2
  <2>5. pos' = M' + 11 /\ begin' = 9 /\ phase' = "behind" /\ cache' = <<>>
    <3>1. pos + 2 = m + 11
      BY <2>1, <2>3
    <3> QED
      BY <1>2, <1>4, <2>1, <2>2, <3>1, Zenon DEF Got
  <2>6. node' = Scalar'
    <3>1. node' = [NoNode EXCEPT !.key = <<"k">>, !.empty = TRUE]
      BY <2>1, <2>2 DEF Got, NoNode
    <3>2. node' = Scalar
      BY <2>4, <3>1 DEF Scalar, NoNode
    <3> QED
      BY <1>2, <3>2
  <2>7. ReadsScalar'
    BY <2>5, <2>6 DEF ReadsScalar
  <2> QED
    BY <2>7 DEF Reads
<1>6. CASE ReadsArray(P)
  <2>1. /\ pos = m + 15 /\ begin = m + 15 /\ node = [NoNode EXCEPT !.key = <<"l">>]
        /\ cache = <<Scalar>>
    BY <1>1, <1>4, <1>6, Zenon DEF ReadsArray, ReadsElements
  <2>2. PICK q : /\ q = Skip(pos + 1, N, {" ", NL}) /\ text[q] = "]"
                 /\ Got([node EXCEPT !.empty = TRUE, !.type = "array"], q + 1)
    <3>1. ~NullScalar
      BY <1>4, <2>1 DEF NullScalar, Here
    <3> QED
      BY <3>1 DEF get_null, NullArray
  <2>3. /\ M \in Nat /\ Count \in Nat /\ N \in Nat /\ P[1] = M + 16
        /\ N = P[Count + 1] + 1 /\ text[P[Count + 1]] = "]"
    BY PlacesAre
  <2>4. text[m + 16] = IF Count = 0 THEN "]" ELSE Quote
    <3>1. CASE Count = 0
      <4>1. Count + 1 = 1
        BY <3>1
      <4> QED
        BY <1>4, <2>3, <3>1, <4>1
    <3>2. CASE Count # 0
      <4>1. 1 \in 1 .. Count
        BY <2>3, <3>2
      <4>2. PICK p \in Nat, l \in Nat : IsElement(P, 1, p, l)
        BY <4>1, ElementIs
      <4>3. text[P[1]] = Quote
        BY <4>2 DEF IsElement
      <4> QED
        BY <1>4, <2>3, <3>2, <4>3
    <3> QED
      BY <3>1, <3>2
  <2>5. q = m + 16
    <3>1. m + 17 <= n
      BY <1>3 DEF IsMarked
    <3>2. m + 16 \in Nat /\ n \in Nat /\ m + 16 <= n + 1 /\ (m + 15) + 1 = m + 16
      BY <3>1
    <3>3. text[m + 16] \notin {" ", NL}
      BY <2>4 DEF NL, Quote
    <3>4. Skip(m + 16, n, {" ", NL}) = m + 16
      BY <3>2, <3>3, SkipAt
    <3> QED
      BY <1>4, <2>1, <2>2, <3>2, <3>4, Zenon
  <2>6. Count = 0
    BY <1>4, <2>2, <2>4, <2>5
  <2>7. written.array = <<>>
    <3>1. PICK a \in Seq(Seq(STRING)) : a = written.array
      BY DEF Shape
    <3>2. Len(a) = 0
      BY <2>6, <3>1 DEF Count
    <3> QED
      BY <3>1, <3>2
  <2>8. pos' = N' /\ begin' = M' + 15 /\ phase' = "behind" /\ cache' = <<Scalar'>>
    <3>1. N = q + 1
      <4>1. Count + 1 = 1
        BY <2>6
      <4> QED
        BY <1>4, <2>3, <2>5, <4>1, Zenon
    <3> QED
      BY <1>2, <1>4, <2>1, <2>2, <3>1, Zenon DEF Got
  <2>9. node' = Array'
    <3>1. node' = [NoNode EXCEPT !.key = <<"l">>, !.empty = TRUE, !.type = "array"]
      BY <2>1, <2>2 DEF Got, NoNode
    <3>2. node' = Array
      BY <2>7, <3>1 DEF Array, NoNode
    <3> QED
      BY <1>2, <3>2
  <2>10. ReadsArray(P)'
    BY <2>8, <2>9 DEF ReadsArray
  <2> QED
    BY <2>10 DEF Reads
<1> QED
  BY <1>1, <1>5, <1>6 DEF Reads, HasRead

\* The scalar, to its second quote.
LEMMA GetScalarReads ==
  ASSUME IInv, NEW P, Shape(P), Reads(P), get_scalar
  PROVE  Reads(P)'
<1>1. /\ phase = "value" /\ text[pos] = Quote /\ ~NullScalar /\ UNCHANGED <<written, text, edits>>
  BY DEF get_scalar, At, Here
<1>2. M' = M /\ Scalar' = Scalar
  BY <1>1, Unmoved
<1>3. PICK m \in Nat, n \in Nat : IsMarked(m, n)
  BY MarksAre
<1>4. /\ m = M /\ n = N /\ text[9] = Quote /\ text[m + 10] = Quote /\ text[m + 11] = NL
      /\ text[m + 15] = "[" /\ Quote # NL /\ Quote # "["
      /\ \A i \in 1 .. m : text[i + 9] = written.scalar[i] /\ text[i + 9] # Quote /\ text[i + 9] # NL
      /\ \A i \in 1 .. n : text[i] # Slash
  BY <1>3 DEF IsMarked, Quote, NL
<1>5. m + 17 <= n
  BY <1>3 DEF IsMarked
<1>6. CASE ReadsScalar
  <2>1. pos = 9 /\ begin = 9 /\ node = [NoNode EXCEPT !.key = <<"k">>] /\ cache = <<>>
    BY <1>1, <1>6 DEF ReadsScalar
  <2>2. m # 0
    <3>1. 9 < n
      BY <1>5
    <3>2. text[9 + 1] # Quote
      BY <1>1, <1>4, <2>1, <3>1 DEF NullScalar, Here
    <3>3. m = 0 => m + 10 = 9 + 1
      OBVIOUS
    <3> QED
      BY <1>4, <3>2, <3>3
  <2>3. /\ 10 \in Nat \ {0} /\ n \in Nat /\ m + 10 \in 10 .. n /\ m + 11 \in 9 .. n /\ 9 + 1 = 10
        /\ \A j \in 10 .. (m + 10) - 1 : j - 9 \in 1 .. m /\ (j - 9) + 9 = j
        /\ \A j \in 9 .. (m + 11) - 1 : j = 9 \/ j = m + 10 \/ (j - 9 \in 1 .. m /\ (j - 9) + 9 = j)
    BY <1>5
  <2>4. ScalarEnd = m + 10
    <3>1. \A j \in 10 .. (m + 10) - 1 : text[j] # Quote
      BY <1>4, <2>3
    <3>2. Close(10, n, Quote) = m + 10
      BY <1>4, <2>3, <3>1, CloseAt
    <3> QED
      BY <1>4, <2>1, <2>3, <3>2, Zenon DEF ScalarEnd
  <2>5. Line(9) = m + 11
    <3>1. \A j \in 9 .. (m + 11) - 1 : text[j] \notin {NL}
      BY <1>4, <2>3
    <3>2. 9 \in Nat /\ N \in Nat /\ m + 11 \in 9 .. N /\ text[m + 11] \in {NL}
      BY <1>4, <2>3
    <3> QED
      BY <3>1, <3>2, FirstOfAt DEF Line
  <2>6. ~(m + 10 > n) /\ ~(m + 10 > m + 11) /\ (m + 10) + 1 = m + 11 /\ (m + 10) - 1 = 10 + m - 1
    BY <1>5
  <2>7. Got([node EXCEPT !.val = SubSeq(text, 9 + 1, (m + 10) - 1)], (m + 10) + 1)
    <3>1. ~(m + 10 > N) /\ ~(m + 10 > Line(pos))
      BY <1>4, <2>1, <2>5, <2>6, Zenon
    <3> QED
      BY <2>1, <2>4, <3>1, Zenon DEF get_scalar
  <2>8. SubSeq(text, 10, 10 + m - 1) = written.scalar
    <3>1. text \in Seq(Symbol) /\ n = Len(text)
      BY <1>4 DEF IInv, InText, N
    <3>2. written.scalar \in Seq(Symbol) /\ m = Len(written.scalar)
      <4>1. written.scalar \in Seq(STRING) /\ STRING \subseteq Symbol
        BY DEF Shape, Symbol
      <4> QED
        BY <1>4, <4>1, Wider DEF M
    <3>3. \A k \in 1 .. m : 10 + (k - 1) = k + 9
      OBVIOUS
    <3>4. \A k \in 1 .. m : text[10 + (k - 1)] = written.scalar[k]
      BY <1>4, <3>3
    <3>5. 10 + m <= Len(text) + 1
      BY <1>5, <3>1
    <3> QED
      BY <2>3, <3>1, <3>2, <3>4, <3>5, PartAt
  <2>9. node' = Scalar'
    <3>1. node' = [node EXCEPT !.val = written.scalar]
      BY <2>3, <2>6, <2>7, <2>8, Zenon DEF Got
    <3>2. written.scalar # <<>>
      <4>1. PICK s \in Seq(STRING) : s = written.scalar
        BY DEF Shape
      <4>2. Len(s) # 0
        BY <1>4, <2>2, <4>1 DEF M
      <4> QED
        BY <4>1, <4>2
    <3>3. node' = Scalar
      BY <2>1, <3>1, <3>2 DEF Scalar, NoNode
    <3> QED
      BY <1>2, <3>3
  <2>10. pos' = M' + 11 /\ begin' = 9 /\ phase' = "behind" /\ cache' = <<>>
    BY <1>2, <1>4, <2>1, <2>6, <2>7, Zenon DEF Got
  <2>11. ReadsScalar'
    BY <2>9, <2>10 DEF ReadsScalar
  <2> QED
    BY <2>11 DEF Reads
<1>7. CASE ReadsArray(P)
  <2>1. pos = m + 15
    BY <1>1, <1>4, <1>7, Zenon DEF ReadsArray, ReadsElements
  <2> QED
    BY <1>1, <1>4, <2>1
<1> QED
  BY <1>1, <1>6, <1>7 DEF Reads, HasRead

\* The array, to the first bracket.
LEMMA GetArrayReads ==
  ASSUME IInv, NEW P, Shape(P), Reads(P), get_array
  PROVE  Reads(P)'
<1>1. /\ phase = "value" /\ text[pos] = "[" /\ ~NullArray /\ UNCHANGED <<written, text, edits>>
      /\ Here({"["})
  BY DEF get_array, At, Here
<1>2. M' = M /\ Count' = Count /\ Scalar' = Scalar /\ (Plain' <=> Plain) /\ \A j \in Nat : Part(j)' = Part(j)
  BY <1>1, Unmoved
<1>3. PICK m \in Nat, n \in Nat : IsMarked(m, n)
  BY MarksAre
<1>4. /\ m = M /\ n = N /\ text[9] = Quote /\ Quote # "[" /\ \A i \in 1 .. n : text[i] # Slash
  BY <1>3 DEF IsMarked, Quote
<1>5. m + 17 <= n
  BY <1>3 DEF IsMarked
<1>6. CASE ReadsScalar
  <2>1. pos = 9
    BY <1>1, <1>6 DEF ReadsScalar
  <2> QED
    BY <1>1, <1>4, <2>1
<1>7. CASE ReadsArray(P)
  <2>1. /\ pos = m + 15 /\ begin = m + 15 /\ node = [NoNode EXCEPT !.key = <<"l">>]
        /\ cache = <<Scalar>>
    BY <1>1, <1>4, <1>7, Zenon DEF ReadsArray, ReadsElements
  <2>2. /\ Count \in Nat /\ P \in [1 .. Count + 1 -> Nat] /\ P[1] = m + 16 /\ n = P[Count + 1] + 1
        /\ text[P[Count + 1]] = "]" /\ m + 16 <= P[Count + 1]
    <3>1. /\ Count \in Nat /\ P \in [1 .. Count + 1 -> Nat] /\ P[1] = m + 16 /\ n = P[Count + 1] + 1
          /\ text[P[Count + 1]] = "]" /\ \A i \in 1 .. Count + 1 : m + 16 <= P[i]
      BY <1>4, PlacesAre, Zenon
    <3>2. Count + 1 \in 1 .. Count + 1
      BY <3>1
    <3> QED
      BY <3>1, <3>2
  <2>3. PICK e \in Nat : e = P[Count + 1] /\ m + 16 <= e /\ n = e + 1 /\ text[e] = "]"
    <3>1. Count + 1 \in 1 .. Count + 1
      BY <2>2
    <3>2. P[Count + 1] \in Nat
      BY <2>2, <3>1
    <3> QED
      BY <2>2, <3>2, Zenon
  <2>4. Count # 0
    <3> SUFFICES ASSUME Count = 0
                 PROVE  FALSE
      OBVIOUS
    <3>1. e = m + 16
      <4>1. Count + 1 = 1
        OBVIOUS
      <4> QED
        BY <2>2, <2>3, <4>1, Zenon
    <3>2. Skip(m + 16, n, {" ", NL}) = m + 16
      <4>1. m + 16 \in Nat /\ n \in Nat /\ m + 16 <= n + 1
        BY <1>5
      <4>2. text[m + 16] \notin {" ", NL}
        BY <2>3, <3>1 DEF NL
      <4> QED
        BY <4>1, <4>2, SkipAt
    <3>3. m + 16 <= n /\ (m + 15) + 1 = m + 16
      BY <1>5
    <3> QED
      BY <1>1, <1>4, <2>1, <2>3, <3>1, <3>2, <3>3, Zenon DEF NullArray
  <2>5. PICK close : close = Close(m + 16, n, "]")
    OBVIOUS
  <2>6. close \in m + 16 .. n + 1 /\ (close <= n => text[close] = "]")
    <3>1. m + 16 \in Nat /\ n \in Nat /\ m + 16 <= n + 1
      BY <1>5
    <3> QED
      BY <2>5, <3>1, CloseIs
  <2>7. close <= e
    <3>1. \A j \in m + 16 .. close - 1 : ~Unescaped(text, m + 16, j, "]")
      <4>1. m + 16 \in Nat /\ n \in Nat /\ m + 16 <= n + 1
        BY <1>5
      <4> QED
        BY <2>5, <4>1, CloseIs
    <3>2. Unescaped(text, m + 16, e, "]")
      <4>1. e = m + 16 \/ e - 1 \in 1 .. n
        BY <2>3
      <4> QED
        BY <1>4, <2>3, <4>1 DEF Unescaped, Escaped
    <3>3. ~(close <= e) => e \in m + 16 .. close - 1
      BY <2>3, <2>6
    <3> QED
      BY <3>1, <3>2, <3>3
  <2>8. close <= n /\ ~(close > n) /\ close \in m + 16 .. e /\ text[close] = "]"
    <3>1. close <= n /\ ~(close > n) /\ close \in m + 16 .. e
      BY <2>3, <2>6, <2>7
    <3> QED
      BY <2>6, <3>1
  <2>9. /\ end' = close /\ pos' = m + 16 /\ phase' = "element" /\ cache' = <<Scalar>>
        /\ node' = [node EXCEPT !.type = "array"] /\ begin' = m + 15
    <3>1. (m + 15) + 1 = m + 16
      OBVIOUS
    <3> QED
      BY <1>4, <2>1, <2>5, <2>8, <3>1, Zenon DEF get_array
  <2>10. node' = Part(0)'
    <3>1. SubSeq(written.array, 1, 0) = <<>>
      <4>1. PICK a \in Seq(Seq(STRING)) : a = written.array
        BY DEF Shape
      <4>2. SubSeq(a, 1, 0) = <<>>
        OBVIOUS
      <4> QED
        BY <4>1, <4>2
    <3>2. node' = Part(0)
      BY <2>1, <2>9, <3>1 DEF Part, NoNode
    <3> QED
      BY <1>2, <3>2
  <2>11. close # e => ~Plain
    <3>1. close \in Nat /\ m + 16 <= close /\ (close # e => close < e)
      BY <2>8
    <3> QED
      BY <1>4, <2>3, <2>8, <3>1, BracketIsInElement
  <2>12. ReadsElements(P)'
    <3>1. 0 \in 0 .. Count' /\ Count' # 0 /\ 0 + 1 = 1 /\ 0 \in Nat
      BY <1>2, <2>2, <2>4
    <3>2. /\ phase' = "element" /\ begin' = M' + 15 /\ pos' = P[0 + 1] /\ node' = Part(0)'
          /\ end' \in P[0 + 1] .. P[Count' + 1] /\ text'[end'] = "]"
          /\ end' # P[Count' + 1] => ~Plain'
      BY <1>1, <1>2, <1>4, <2>2, <2>3, <2>8, <2>9, <2>10, <2>11, <3>1, Zenon
    <3> QED
      BY <3>1, <3>2, Zenon DEF ReadsElements
  <2>13. ReadsArray(P)'
    BY <1>2, <2>9, <2>12 DEF ReadsArray
  <2> QED
    BY <2>13 DEF Reads
<1> QED
  BY <1>1, <1>6, <1>7 DEF Reads, HasRead

\* There is no other value.
LEMMA GetOtherReads ==
  ASSUME IInv, NEW P, Shape(P), Reads(P), get_other
  PROVE  FALSE
<1>1. phase = "value" /\ ~Here({Quote, "["})
  BY DEF get_other, At
<1>2. PICK m \in Nat, n \in Nat : IsMarked(m, n)
  BY MarksAre
<1>3. m = M /\ n = N /\ text[9] = Quote /\ text[m + 15] = "["
  BY <1>2 DEF IsMarked
<1>4. 9 <= n /\ m + 15 <= n
  <2>1. m + 17 <= n
    BY <1>2 DEF IsMarked
  <2> QED
    BY <2>1
<1>5. pos = 9 \/ pos = m + 15
  BY <1>1, <1>3, Zenon DEF Reads, ReadsScalar, ReadsArray, ReadsElements, HasRead
<1> QED
  BY <1>1, <1>3, <1>4, <1>5, Zenon DEF Here

\* One more element is one more part of the array.
LEMMA PartGrows ==
  ASSUME NEW S, NEW a \in Seq(S), NEW j \in Nat, j < Len(a)
  PROVE  Append(SubSeq(a, 1, j), a[j + 1]) = SubSeq(a, 1, j + 1)
<1>1. PICK s : s = SubSeq(a, 1, j)
  OBVIOUS
<1>2. PICK t : t = SubSeq(a, 1, j + 1)
  OBVIOUS
<1>3. /\ s \in Seq(S) /\ Len(s) = j /\ \A i \in 1 .. j : s[i] = a[i]
  <2>1. \A i \in 1 .. j : a[i] \in S
    OBVIOUS
  <2>2. /\ s \in Seq(S) /\ Len(s) = IF 1 <= j THEN j - 1 + 1 ELSE 0
        /\ \A i \in 1 .. j - 1 + 1 : s[i] = a[1 + i - 1]
    BY <1>1, <2>1, SubSeqProperties
  <2> QED
    BY <2>2
<1>4. /\ t \in Seq(S) /\ Len(t) = j + 1 /\ \A i \in 1 .. j + 1 : t[i] = a[i]
  <2>1. \A i \in 1 .. j + 1 : a[i] \in S
    OBVIOUS
  <2>2. /\ t \in Seq(S) /\ Len(t) = IF 1 <= j + 1 THEN (j + 1) - 1 + 1 ELSE 0
        /\ \A i \in 1 .. (j + 1) - 1 + 1 : t[i] = a[1 + i - 1]
    BY <1>2, <2>1, SubSeqProperties
  <2> QED
    BY <2>2
<1>5. PICK c \in S : c = a[j + 1]
  OBVIOUS
<1>6. PICK w \in Seq(S) : w = Append(s, c)
  BY <1>3, <1>5, AppendProperties, Zenon
<1>7. Len(w) = j + 1 /\ w[j + 1] = c /\ \A i \in 1 .. j : w[i] = s[i]
  BY <1>3, <1>6, AppendProperties
<1>8. \A i \in 1 .. j + 1 : w[i] = t[i]
  BY <1>3, <1>4, <1>5, <1>7
<1>9. w = t
  <2>1. w = [i \in 1 .. j + 1 |-> w[i]] /\ t = [i \in 1 .. j + 1 |-> t[i]]
    BY <1>4, <1>7
  <2> QED
    BY <1>8, <2>1
<1> QED
  BY <1>1, <1>2, <1>5, <1>6, <1>9

\* An element, from its quote to the next; what is behind it is another, or the end.
LEMMA GetElementReads ==
  ASSUME IInv, NEW P, Shape(P), Reads(P), get_element
  PROVE  Reads(P)'
<1>1. /\ phase = "element" /\ pos < end /\ UNCHANGED <<written, text, edits>>
  BY DEF get_element, At
<1>2. M' = M /\ Count' = Count /\ Scalar' = Scalar /\ (Plain' <=> Plain) /\ \A j \in Nat : Part(j)' = Part(j)
  BY <1>1, Unmoved
<1>3. cache = <<Scalar>> /\ ReadsElements(P)
  BY <1>1, Zenon DEF Reads, ReadsScalar, ReadsArray, HasRead
<1>4. PICK j \in 0 .. Count :
        /\ Count # 0 /\ begin = M + 15 /\ pos = P[j + 1] /\ node = Part(j)
        /\ end \in P[j + 1] .. P[Count + 1] /\ text[end] = "]" /\ (end # P[Count + 1] => ~Plain)
  BY <1>3, Zenon DEF ReadsElements
<1>5. PICK c \in Nat : c = Count
  BY PlacesAre
<1>6. j \in 0 .. c /\ j + 1 \in Nat /\ j \in Nat /\ j + 1 \in 1 .. c + 1
  BY <1>5
<1>7. PICK last \in Nat : last = P[c + 1]
  <2>1. P \in [1 .. Count + 1 -> Nat]
    BY PlacesAre
  <2>2. Count + 1 \in 1 .. Count + 1
    BY <1>5
  <2>3. P[Count + 1] \in Nat
    BY <2>1, <2>2
  <2> QED
    BY <1>5, <2>3, Zenon
<1>8. j < c
  <2>1. P[j + 1] < end /\ end \in P[j + 1] .. last
    BY <1>1, <1>4, <1>5, <1>7
  <2>2. j = c => P[j + 1] = last
    BY <1>7
  <2>3. P[j + 1] \in Nat
    <3>1. P \in [1 .. Count + 1 -> Nat]
      BY PlacesAre
    <3> QED
      BY <1>5, <1>6, <3>1
  <2>4. P[j + 1] # last
    BY <1>7, <2>1, <2>3
  <2> QED
    BY <1>6, <2>2, <2>4
<1>9. j + 1 \in 1 .. Count
  BY <1>5, <1>6, <1>8
<1>10. PICK p \in Nat, l \in Nat : IsElement(P, j + 1, p, l)
  BY <1>9, ElementIs
<1>11. /\ p = P[j + 1] /\ l = Len(written.array[j + 1])
       /\ text[p] = Quote /\ text[p + l + 1] = Quote
       /\ \A k \in 1 .. l : text[p + k] = written.array[j + 1][k] /\ text[p + k] # Quote
       /\ j + 1 = c => P[(j + 1) + 1] = p + l + 2
       /\ j + 1 # c => /\ P[(j + 1) + 1] = p + l + 3 /\ text[p + l + 2] = ","
                       /\ text[P[(j + 1) + 1]] = Quote
  BY <1>5, <1>10, Zenon DEF IsElement
<1>12. PICK e \in Nat : e = end /\ p < e /\ e <= last /\ text[e] = "]" /\ (e # last => ~Plain)
  <2>1. end \in p .. last /\ p < end
    BY <1>1, <1>4, <1>5, <1>7, <1>11, Zenon
  <2>2. end \in Nat /\ end <= last
    BY <2>1
  <2> QED
    BY <1>4, <1>5, <1>7, <2>1, <2>2, Zenon
<1>13. p + l + 2 <= last /\ last <= N /\ 16 <= p
  <2>1. M + 16 <= p /\ p + l + 2 <= last /\ last <= N
    BY <1>5, <1>7, <1>10, Zenon DEF IsElement
  <2>2. PICK m \in Nat : m = M
    BY PlacesAre
  <2>3. m + 16 <= p
    BY <2>1, <2>2, Zenon
  <2>4. 16 <= p
    BY <2>3
  <2> QED
    BY <2>1, <2>4, Zenon
<1>14. Quote # "]" /\ Quote # " " /\ Quote # NL /\ "," # " " /\ "," # NL /\ "," # "]"
  BY DEF Quote, NL
<1>15. pos = p /\ end = e
  BY <1>4, <1>11, <1>12
<1>16. PICK close : close = Close(p + 1, e - 1, Quote)
  OBVIOUS
<1>17. PICK sep : sep = Skip(close + 1, e - 1, {" ", NL})
  OBVIOUS
<1>18. PICK next : next = Skip(sep + 1, e - 1, {" ", NL})
  OBVIOUS
<1>19. Skip(p, e - 1, {" ", NL}) = p
  <2>1. p \in Nat /\ e - 1 \in Nat /\ p <= (e - 1) + 1
    BY <1>12
  <2>2. text[p] \notin {" ", NL}
    BY <1>11, <1>14
  <2> QED
    BY <2>1, <2>2, SkipAt
<1>20. \/ /\ Stop("refused")
          /\ \/ ~ElementEnds(p, close)
             \/ sep < e /\ (text[sep] \notin {",", ";"} \/ next >= e)
       \/ /\ ElementEnds(p, close)
          /\ ~(sep < e /\ (text[sep] \notin {",", ";"} \/ next >= e))
          /\ node' = [node EXCEPT !.val = Append(@, SubSeq(text, p + 1, close - 1))]
          /\ pos' = IF sep < e THEN next ELSE e
          /\ UNCHANGED <<phase, begin, end, cache>>
  <2>1. PICK o : o = Skip(pos, end - 1, {" ", NL})
    OBVIOUS
  <2>2. PICK q : q = Close(o + 1, end - 1, Quote)
    OBVIOUS
  <2>3. PICK r : r = Skip(q + 1, end - 1, {" ", NL})
    OBVIOUS
  <2>4. PICK x : x = Skip(r + 1, end - 1, {" ", NL})
    OBVIOUS
  <2>5. \/ /\ Stop("refused")
           /\ \/ text[o] # Quote \/ ~ElementEnds(o, q)
              \/ r < end /\ (text[r] \notin {",", ";"} \/ x >= end)
        \/ /\ ElementEnds(o, q)
           /\ ~(r < end /\ (text[r] \notin {",", ";"} \/ x >= end))
           /\ node' = [node EXCEPT !.val = Append(@, SubSeq(text, o + 1, q - 1))]
           /\ pos' = IF r < end THEN x ELSE end
           /\ UNCHANGED <<phase, begin, end, cache>>
    <3> DEFINE Bad == \/ text[o] # Quote \/ ~ElementEnds(o, q)
                      \/ r < end /\ (text[r] \notin {",", ";"} \/ x >= end)
    <3>1. IF Bad THEN Stop("refused")
          ELSE /\ node' = [node EXCEPT !.val = Append(@, SubSeq(text, o + 1, q - 1))]
               /\ pos' = IF r < end THEN x ELSE end
               /\ UNCHANGED <<phase, begin, end, cache>>
      BY <2>1, <2>2, <2>3, <2>4 DEF get_element
    <3> QED
      BY <3>1, Zenon
  <2>6. o = p /\ q = close /\ r = sep /\ x = next
    BY <1>15, <1>16, <1>17, <1>18, <1>19, <2>1, <2>2, <2>3, <2>4, Zenon
  <2> QED
    BY <1>11, <1>15, <2>5, <2>6, Zenon
\* The array ends within the element, or the element is empty.
<1>21. CASE e <= p + l + 1 \/ l = 0
  <2>1. ~Plain
    <3>1. CASE l = 0
      <4>1. written.array[j + 1] \in Range(written.array) /\ written.array[j + 1] \in Seq(STRING)
        BY <1>9, ValuesAre DEF Shape
      <4>2. written.array[j + 1] = <<>>
        <5>1. PICK v \in Seq(STRING) : v = written.array[j + 1]
          BY <4>1
        <5>2. Len(v) = 0
          BY <1>11, <3>1, <5>1, Zenon
        <5> QED
          BY <5>1, <5>2
      <4> QED
        BY <4>1, <4>2 DEF Plain
    <3>2. CASE e <= p + l + 1
      BY <1>12, <1>13, <3>2
    <3> QED
      BY <1>21, <3>1, <3>2
  <2>2. ~ElementEnds(p, close)
    <3>1. CASE e <= p + l + 1
      <4>1. \A i \in p + 1 .. e - 1 : i - p \in 1 .. l /\ p + (i - p) = i
        BY <3>1
      <4>2. \A i \in p + 1 .. e - 1 : text[i] # Quote
        BY <1>11, <4>1
      <4>3. p + 1 \in Nat /\ e - 1 \in Nat /\ p + 1 <= (e - 1) + 1 /\ (e - 1) + 1 = e
        BY <1>12
      <4>4. close = e
        BY <1>16, <4>2, <4>3, CloseIsBehind
      <4> QED
        BY <1>12, <4>4 DEF ElementEnds
    <3>2. CASE ~(e <= p + l + 1) /\ l = 0
      <4>1. p + 1 \in p + 1 .. e - 1 /\ e - 1 \in Nat /\ p + 1 \in Nat \ {0}
        BY <3>2
      <4>2. text[p + 1] = Quote
        <5>1. p + l + 1 = p + 1
          BY <3>2
        <5> QED
          BY <1>11, <5>1, Zenon
      <4>3. \A i \in 1 .. e - 1 : text[i] # Slash
        <5>1. \A i \in 1 .. N : text[i] # Slash
          BY DEF Shape, AsWritten
        <5>2. \A i \in 1 .. e - 1 : i \in 1 .. N
          <6>1. N \in Nat
            BY PlacesAre
          <6> QED
            BY <1>12, <1>13, <6>1
        <5> QED
          BY <5>1, <5>2
      <4>4. \A i \in p + 1 .. (p + 1) - 1 : text[i] # Quote
        OBVIOUS
      <4>5. close = p + 1
        BY <1>16, <4>1, <4>2, <4>3, <4>4, CloseAt
      <4> QED
        BY <4>5 DEF ElementEnds
    <3> QED
      BY <1>21, <3>1, <3>2
  <2>3. Stop("refused")
    BY <1>20, <2>2
  <2>4. phase' = "refused" /\ ~Plain'
    BY <1>2, <2>1, <2>3 DEF Stop
  <2> QED
    BY <2>4 DEF Reads
\* It does not.
<1>22. CASE ~(e <= p + l + 1) /\ l # 0
  <2>1. close = p + l + 1
    <3>1. p + l + 1 \in p + 1 .. e - 1 /\ e - 1 \in Nat /\ p + 1 \in Nat \ {0}
      BY <1>22
    <3>2. \A i \in 1 .. e - 1 : text[i] # Slash
      <4>1. \A i \in 1 .. N : text[i] # Slash
        BY DEF Shape, AsWritten
      <4>2. \A i \in 1 .. e - 1 : i \in 1 .. N
        <5>1. N \in Nat
          BY PlacesAre
        <5> QED
          BY <1>12, <1>13, <5>1
      <4> QED
        BY <4>1, <4>2
    <3>3. \A i \in p + 1 .. (p + l + 1) - 1 : i - p \in 1 .. l /\ p + (i - p) = i
      OBVIOUS
    <3>4. \A i \in p + 1 .. (p + l + 1) - 1 : text[i] # Quote
      BY <1>11, <3>3
    <3>5. text[p + l + 1] = Quote
      BY <1>11
    <3> QED
      BY <1>16, <3>1, <3>2, <3>4, <3>5, CloseAt
  <2>2. ElementEnds(p, close)
    <3>1. p + l + 1 < e /\ p + l + 1 > p + 1
      BY <1>22
    <3>2. close < e /\ close > p + 1
      BY <2>1, <3>1, Zenon
    <3> QED
      BY <1>15, <3>2, Zenon DEF ElementEnds
  <2>3. SubSeq(text, p + 1, close - 1) = written.array[j + 1]
    <3>1. text \in Seq(Symbol) /\ N = Len(text)
      BY DEF IInv, InText, N
    <3>2. PICK v \in Seq(Symbol) : v = written.array[j + 1]
      <4>1. written.array[j + 1] \in Seq(STRING) /\ STRING \subseteq Symbol
        BY <1>9, ValuesAre DEF Shape, Symbol
      <4> QED
        BY <4>1, Wider
    <3>3. \A k \in 1 .. l : (p + 1) + (k - 1) = p + k
      OBVIOUS
    <3>4. \A k \in 1 .. l : text[(p + 1) + (k - 1)] = v[k]
      BY <1>11, <3>2, <3>3
    <3>5. (p + 1) + l <= Len(text) + 1 /\ p + 1 \in Nat \ {0} /\ (p + 1) + l - 1 = close - 1
      <4>1. Len(text) \in Nat /\ p + l + 2 <= Len(text)
        BY <1>13, <3>1
      <4> QED
        BY <2>1, <4>1
    <3>6. l = Len(v)
      BY <1>11, <3>2
    <3>7. SubSeq(text, p + 1, (p + 1) + l - 1) = v
      BY <3>1, <3>4, <3>5, <3>6, PartAt
    <3> QED
      BY <3>2, <3>5, <3>7
  <2>4. /\ pos' = P[(j + 1) + 1] /\ e \in P[(j + 1) + 1] .. last
        /\ ~(sep < e /\ (text[sep] \notin {",", ";"} \/ next >= e))
    <3>1. CASE j + 1 = c
      <4>1. e = last /\ last = p + l + 2
        <5>1. P[(j + 1) + 1] = p + l + 2 /\ P[(j + 1) + 1] = last
          BY <1>7, <1>11, <3>1
        <5> QED
          BY <1>12, <1>22, <5>1
      <4>2. sep = e
        <5>1. close + 1 = e /\ e - 1 \in Nat /\ e <= (e - 1) + 1 /\ ~(e <= e - 1)
          BY <2>1, <4>1
        <5> QED
          BY <1>12, <1>17, <5>1, SkipAt
      <4>3. ~(sep < e)
        BY <1>12, <4>2
      <4>4. pos' = e
        BY <1>20, <2>2, <4>3
      <4>5. P[(j + 1) + 1] = e /\ e \in e .. last
        <5>1. P[(j + 1) + 1] = last
          BY <1>7, <3>1, Zenon
        <5> QED
          BY <1>12, <4>1, <5>1
      <4> QED
        BY <4>3, <4>4, <4>5, Zenon
    <3>2. CASE j + 1 # c
      <4>1. P[(j + 1) + 1] = p + l + 3 /\ text[p + l + 2] = "," /\ text[p + l + 3] = Quote
        BY <1>11, <3>2
      <4>2. e # p + l + 2 /\ e # p + l + 3
        BY <1>12, <1>14, <4>1
      <4>3. p + l + 3 < e
        BY <1>22, <4>2
      <4>4. sep = p + l + 2
        <5>1. close + 1 = p + l + 2 /\ p + l + 2 \in Nat /\ e - 1 \in Nat /\ p + l + 2 <= (e - 1) + 1
          BY <2>1, <4>3
        <5>2. text[p + l + 2] \notin {" ", NL}
          BY <1>14, <4>1
        <5> QED
          BY <1>17, <5>1, <5>2, SkipAt
      <4>5. next = p + l + 3
        <5>1. sep + 1 = p + l + 3 /\ p + l + 3 \in Nat /\ e - 1 \in Nat /\ p + l + 3 <= (e - 1) + 1
          BY <4>3, <4>4
        <5>2. text[p + l + 3] \notin {" ", NL}
          BY <1>14, <4>1
        <5> QED
          BY <1>18, <5>1, <5>2, SkipAt
      <4>6. sep < e /\ ~(next >= e) /\ text[sep] = ","
        <5>1. p + l + 2 < e /\ ~(p + l + 3 >= e)
          BY <4>3
        <5> QED
          BY <4>1, <4>4, <4>5, <5>1, Zenon
      <4>7. pos' = next
        BY <1>20, <2>2, <4>6
      <4>8. e \in p + l + 3 .. last
        BY <1>12, <4>3
      <4> QED
        BY <4>1, <4>5, <4>6, <4>7, <4>8
    <3> QED
      BY <3>1, <3>2
  <2>5. /\ node' = [node EXCEPT !.val = Append(@, written.array[j + 1])]
        /\ UNCHANGED <<phase, begin, end, cache>>
    BY <1>20, <2>2, <2>3, <2>4
  <2>6. node' = Part(j + 1)'
    <3>1. Append(SubSeq(written.array, 1, j), written.array[j + 1]) = SubSeq(written.array, 1, j + 1)
      <4>1. written.array \in Seq(Seq(STRING)) /\ j < Len(written.array)
        BY <1>5, <1>8 DEF Shape, Count
      <4> QED
        BY <1>6, <4>1, PartGrows
    <3>2. node.val = SubSeq(written.array, 1, j)
      BY <1>4 DEF Part
    <3>3. node' = [node EXCEPT !.val = SubSeq(written.array, 1, j + 1)]
      BY <2>5, <3>1, <3>2
    <3>4. node' = Part(j + 1)
      BY <1>4, <3>3 DEF Part
    <3> QED
      BY <1>2, <1>6, <3>4
  <2>7. ReadsElements(P)'
    <3>1. j + 1 \in 0 .. Count' /\ Count' # 0
      BY <1>2, <1>4, <1>9
    <3>2. /\ phase' = "element" /\ begin' = M' + 15 /\ pos' = P[(j + 1) + 1] /\ node' = Part(j + 1)'
          /\ end' \in P[(j + 1) + 1] .. P[Count' + 1] /\ text'[end'] = "]"
          /\ end' # P[Count' + 1] => ~Plain'
      BY <1>1, <1>2, <1>4, <1>5, <1>7, <1>12, <2>4, <2>5, <2>6, Zenon
    <3> QED
      BY <3>1, <3>2, Zenon DEF ReadsElements
  <2>8. ReadsArray(P)'
    BY <1>2, <1>3, <2>5, <2>7 DEF ReadsArray
  <2> QED
    BY <2>8 DEF Reads
<1> QED
  BY <1>21, <1>22

\* The end of the array.
LEMMA GetArrayEndReads ==
  ASSUME IInv, NEW P, Shape(P), Reads(P), get_array_end
  PROVE  Reads(P)'
<1>1. /\ phase = "element" /\ pos = end /\ Got(node, end + 1) /\ UNCHANGED <<written, text, edits>>
  BY DEF get_array_end, At
<1>2. M' = M /\ N' = N /\ Scalar' = Scalar /\ Array' = Array
  BY <1>1, Unmoved
<1>3. cache = <<Scalar>> /\ ReadsElements(P)
  BY <1>1, Zenon DEF Reads, ReadsScalar, ReadsArray, HasRead
<1>4. PICK j \in 0 .. Count :
        Count # 0 /\ begin = M + 15 /\ pos = P[j + 1] /\ node = Part(j) /\ text[end] = "]"
  BY <1>3, Zenon DEF ReadsElements
<1>5. Count \in Nat /\ N = P[Count + 1] + 1
  BY PlacesAre
<1>6. j = Count
  <2> SUFFICES ASSUME j # Count
               PROVE  FALSE
    OBVIOUS
  <2>1. j + 1 \in 1 .. Count
    BY <1>5
  <2>2. PICK p \in Nat, l \in Nat : IsElement(P, j + 1, p, l)
    BY <2>1, ElementIs
  <2>3. text[P[j + 1]] = Quote
    BY <2>2 DEF IsElement
  <2> QED
    BY <1>1, <1>4, <2>3 DEF Quote
<1>7. node = Array
  <2>1. PICK a \in Seq(Seq(STRING)) : a = written.array
    BY DEF Shape
  <2>2. Len(a) = Count /\ a # <<>>
    BY <1>4, <2>1 DEF Count
  <2>3. SubSeq(a, 1, Len(a)) = a
    OBVIOUS
  <2> QED
    BY <1>4, <1>6, <2>1, <2>2, <2>3 DEF Part, Array
<1>8. /\ node' = Array' /\ pos' = N' /\ phase' = "behind" /\ begin' = M' + 15 /\ cache' = <<Scalar'>>
  BY <1>1, <1>2, <1>3, <1>4, <1>5, <1>6, <1>7, Zenon DEF Got
<1>9. ReadsArray(P)'
  BY <1>8 DEF ReadsArray
<1> QED
  BY <1>9 DEF Reads

\* Behind a value there is the end of its line, and its key is a new one.
LEMMA AddToCacheReads ==
  ASSUME IInv, NEW P, Shape(P), Reads(P), AddToCache
  PROVE  Reads(P)'
<1>1. /\ phase = "behind" /\ UNCHANGED <<written, text, edits>>
  BY DEF AddToCache, At
<1>2. M' = M /\ N' = N /\ Scalar' = Scalar /\ Array' = Array
  BY <1>1, Unmoved
<1>3. PICK m \in Nat, n \in Nat : IsMarked(m, n)
  BY MarksAre
<1>4. m = M /\ n = N /\ text[m + 11] = NL /\ text[n] = NL
  BY <1>3 DEF IsMarked
<1>5. m + 17 <= n
  BY <1>3 DEF IsMarked
\* The value is put into the list.
<1>6. ASSUME NEW p \in Nat, pos = p, p <= n, text[p] = NL, ~Duplicate, node.empty \/ node.val # <<>>
      PROVE  pos' = p /\ phase' = "parse" /\ cache' = Append(cache, node)
  <2>1. Skip(pos, N, {" "}) = p
    <3>1. text[p] \notin {" "} /\ p \in Nat /\ n \in Nat /\ p <= n + 1
      BY <1>6 DEF NL
    <3>2. Skip(p, n, {" "}) = p
      BY <3>1, SkipAt
    <3> QED
      BY <1>4, <1>6, <3>2, Zenon
  <2>2. PICK b : b = Skip(pos, N, {" "})
    OBVIOUS
  <2>3. PICK next : next = IF b > N THEN b ELSE IF text[b] = "#" THEN Line(begin) ELSE b
    OBVIOUS
  <2>4. IF next <= N /\ ~(text[next] = NL) THEN Stop("refused")
        ELSE IF node.val = <<>> /\ ~node.empty THEN Stop("internal error")
        ELSE IF Duplicate THEN Stop("refused")
        ELSE /\ pos' = next /\ phase' = "parse" /\ cache' = Append(cache, node)
             /\ UNCHANGED <<begin, end, node>>
    BY <2>2, <2>3 DEF AddToCache
  <2>5. b = p /\ ~(p > n) /\ text[p] # "#"
    <3>1. ~(p > n)
      BY <1>6
    <3> QED
      BY <1>6, <2>1, <2>2, <3>1, Zenon DEF NL
  <2>6. next = p
    BY <1>4, <2>3, <2>5, Zenon
  <2> QED
    BY <1>6, <2>4, <2>6, Zenon
<1>7. CASE ReadsScalar
  <2>1. pos = m + 11 /\ node = Scalar /\ cache = <<>>
    BY <1>1, <1>4, <1>7, Zenon DEF ReadsScalar
  <2>2. ~Duplicate
    BY <2>1 DEF Duplicate
  <2>3. node.empty \/ node.val # <<>>
    BY <2>1 DEF Scalar
  <2>4. m + 11 \in Nat /\ m + 11 <= n
    BY <1>5
  <2>5. pos' = m + 11 /\ phase' = "parse" /\ cache' = Append(cache, node)
    BY <1>4, <1>6, <2>1, <2>2, <2>3, <2>4
  <2>6. cache' = <<Scalar'>>
    <3>1. \A x : Append(<<>>, x) = <<x>>
      OBVIOUS
    <3> QED
      BY <1>2, <2>1, <2>5, <3>1, Zenon
  <2>7. pos' \in {M' + 11, M' + 12, M' + 13}
    BY <1>2, <1>4, <2>5
  <2>8. ReadsArray(P)'
    BY <2>5, <2>6, <2>7 DEF ReadsArray
  <2> QED
    BY <2>8 DEF Reads
<1>8. CASE ReadsArray(P)
  <2>1. pos = n /\ node = Array /\ cache = <<Scalar>>
    BY <1>1, <1>4, <1>8, Zenon DEF ReadsArray, ReadsElements
  <2>2. ~Duplicate
    <3>1. Scalar.key = <<"k">> /\ Array.key = <<"l">> /\ <<"k">> # <<"l">>
      BY DEF Scalar, Array
    <3>2. DOMAIN cache = {1} /\ cache[1] = Scalar
      <4>1. \A x : DOMAIN <<x>> = {1} /\ <<x>>[1] = x
        OBVIOUS
      <4> QED
        BY <2>1, <4>1, Zenon
    <3> QED
      BY <2>1, <3>1, <3>2 DEF Duplicate
  <2>3. node.empty \/ node.val # <<>>
    BY <2>1 DEF Array
  <2>4. pos' = n /\ phase' = "parse" /\ cache' = Append(cache, node)
    <3>1. n <= n
      OBVIOUS
    <3> QED
      BY <1>4, <1>6, <2>1, <2>2, <2>3, <3>1
  <2>5. cache' = <<Scalar', Array'>>
    <3>1. ASSUME NEW x, NEW y
          PROVE  Append(<<x>>, y) = <<x, y>>
      <4>1. PICK T : T = {x, y}
        OBVIOUS
      <4>2. PICK u \in Seq(T) : u = <<x>> /\ Len(u) = 1 /\ u[1] = x
        BY <4>1, OneIs, Zenon
      <4>3. PICK w \in Seq(T) : w = Append(u, y)
        BY <4>1, AppendProperties, Zenon
      <4>4. Len(w) = 2 /\ w[2] = y /\ w[1] = x
        BY <4>1, <4>2, <4>3, AppendProperties
      <4>5. w = [i \in 1 .. 2 |-> IF i = 1 THEN x ELSE y]
        BY <4>4
      <4>6. <<x, y>> = [i \in 1 .. 2 |-> IF i = 1 THEN x ELSE y]
        OBVIOUS
      <4> QED
        BY <4>2, <4>3, <4>5, <4>6, Zenon
    <3> QED
      BY <1>2, <2>1, <2>4, <3>1, Zenon
  <2>6. pos' \in {N', N' + 1}
    BY <1>2, <1>4, <2>4
  <2>7. HasRead'
    BY <2>4, <2>5, <2>6 DEF HasRead
  <2> QED
    BY <2>7 DEF Reads
<1> QED
  BY <1>1, <1>7, <1>8 DEF Reads, HasRead

\* No value has a backslash that goes.
LEMMA ValuesStay ==
  ASSUME NEW P, Shape(P)
  PROVE  CorrectNode(Scalar) = Scalar /\ CorrectNode(Array) = Array
<1>1. Chars \cap {Slash} = {}
  BY DEF Shape, NoMarks
<1>2. STRING \subseteq Symbol
  BY DEF Symbol
<1>3. CorrectNode(Scalar) = Scalar
  <2>1. written.scalar \in Seq(Symbol)
    BY <1>2, Wider DEF Shape
  <2>2. \A i \in 1 .. Len(written.scalar) : written.scalar[i] # Slash
    BY <1>1, ValuesAre DEF Shape, M
  <2>3. correct_backslash(written.scalar) = written.scalar
    BY <2>1, <2>2, Uncorrected
  <2>4. CASE Scalar.empty
    BY <2>4 DEF CorrectNode
  <2>5. CASE ~Scalar.empty
    <3>1. CorrectNode(Scalar) = [Scalar EXCEPT !.val = correct_backslash(@)]
      BY <2>5 DEF CorrectNode, Scalar
    <3> QED
      BY <2>3, <3>1 DEF Scalar
  <2> QED
    BY <2>4, <2>5
<1>4. CorrectNode(Array) = Array
  <2>1. PICK a \in Seq(Seq(STRING)) : a = written.array
    BY DEF Shape
  <2>2. ASSUME NEW i \in DOMAIN a
        PROVE  correct_backslash(a[i]) = a[i]
    <3>1. i \in 1 .. Count
      BY <2>1 DEF Count
    <3>2. PICK v \in Seq(STRING) : v = a[i] /\ \A k \in 1 .. Len(v) : v[k] \in Chars
      BY <2>1, <3>1, ValuesAre DEF Shape
    <3>3. v \in Seq(Symbol)
      BY <1>2, Wider
    <3>4. \A k \in 1 .. Len(v) : v[k] # Slash
      BY <1>1, <3>2
    <3> QED
      BY <3>2, <3>3, <3>4, Uncorrected
  <2>3. [i \in DOMAIN a |-> correct_backslash(a[i])] = a
    <3>1. a = [i \in DOMAIN a |-> a[i]]
      OBVIOUS
    <3> QED
      BY <2>2, <3>1
  <2>4. CASE Array.empty
    BY <2>4 DEF CorrectNode
  <2>5. CASE ~Array.empty
    <3>1. CorrectNode(Array) = [Array EXCEPT !.val = [i \in DOMAIN @ |-> correct_backslash(@[i])]]
      BY <2>5 DEF CorrectNode, Array
    <3> QED
      BY <2>1, <2>3, <3>1 DEF Array
  <2> QED
    BY <2>4, <2>5
<1> QED
  BY <1>3, <1>4

\* The end of the file.
LEMMA FinishReads ==
  ASSUME IInv, NEW P, Shape(P), Reads(P), Finish
  PROVE  Reads(P)'
<1>1. /\ phase = "parse" /\ phase' = "done" /\ pos > N /\ UNCHANGED <<written, text, edits>>
      /\ cache' = [i \in DOMAIN cache |-> CorrectNode(cache[i])]
  BY DEF Finish, At
<1>2. Scalar' = Scalar /\ Array' = Array
  BY <1>1, Unmoved
<1>3. PICK m \in Nat, n \in Nat : IsMarked(m, n)
  BY MarksAre
<1>4. m = M /\ n = N /\ m + 17 <= n
  BY <1>3 DEF IsMarked
<1>5. pos \notin {1, 3, 7} /\ pos \notin {m + 11, m + 12, m + 13}
  <2>1. ~(1 > n) /\ ~(3 > n) /\ ~(7 > n) /\ ~(m + 11 > n) /\ ~(m + 12 > n) /\ ~(m + 13 > n)
    BY <1>4
  <2> QED
    BY <1>1, <1>4, <2>1, Zenon
<1>6. cache = <<Scalar, Array>>
  BY <1>1, <1>4, <1>5, Zenon DEF Reads, ReadsScalar, ReadsArray, ReadsElements, HasRead
<1>7. cache' = <<Scalar', Array'>>
  <2>1. PICK x : x = Scalar
    OBVIOUS
  <2>2. PICK y : y = Array
    OBVIOUS
  <2>3. CorrectNode(x) = x /\ CorrectNode(y) = y
    BY <2>1, <2>2, ValuesStay
  <2>4. cache = <<x, y>>
    BY <1>6, <2>1, <2>2
  <2>5. DOMAIN cache = {1, 2} /\ cache[1] = x /\ cache[2] = y
    BY <2>4
  <2>6. cache' = [i \in {1, 2} |-> IF i = 1 THEN x ELSE y]
    BY <1>1, <2>3, <2>5
  <2>7. <<x, y>> = [i \in {1, 2} |-> IF i = 1 THEN x ELSE y]
    OBVIOUS
  <2> QED
    BY <1>2, <2>1, <2>2, <2>6, <2>7, Zenon
<1>8. HasRead'
  BY <1>1, <1>7 DEF HasRead
<1> QED
  BY <1>8 DEF Reads

\* The beginning.
LEMMA OpenFileReads ==
  ASSUME NEW P, Shape(P), Reads(P), OpenFile
  PROVE  Reads(P)'
<1>1. /\ phase = "edit" /\ phase' = "parse" /\ pos' = pos /\ cache' = cache
      /\ UNCHANGED <<written, text, edits>>
  BY DEF OpenFile, At
<1>2. pos = 1 /\ cache = <<>>
  BY <1>1 DEF Reads, ReadsScalar, ReadsArray, ReadsElements, HasRead
<1>3. ReadsScalar'
  BY <1>1, <1>2 DEF ReadsScalar
<1> QED
  BY <1>3 DEF Reads

\* A file nobody has read yet.
LEMMA InitReads == Init => ReadInv
<1> SUFFICES ASSUME Init
             PROVE  ReadInv
  OBVIOUS
<1>1. written \in [scalar : Seq(STRING), array : Seq(Seq(STRING))] /\ text = File(written)
  BY K2v3Assumption DEF Init
<1>2. ASSUME NoMarks
      PROVE  \E P : AsWritten(P) /\ Reads(P)
  \* Every character is one the writer adds, or one of a value: none is a backslash.
  <2> DEFINE C == Symbol \ {Slash}
  <2>1. Added \subseteq C
    BY DEF Added, Symbol, NL, Quote, Slash
  <2>2. Slash \notin Chars
    BY <1>2 DEF NoMarks
  <2>3. written.scalar \in Seq(C)
    <3>1. PICK s \in Seq(STRING) : s = written.scalar
      BY <1>1
    <3>2. \A i \in 1 .. Len(s) : s[i] \in Chars /\ s[i] \in STRING
      BY <1>1, <3>1, ValuesAre DEF M
    <3>3. \A i \in 1 .. Len(s) : s[i] \in C
      BY <2>2, <3>2 DEF Symbol
    <3> HIDE DEF C
    <3> QED
      BY <3>1, <3>3
  <2>4. written.array \in Seq(Seq(C))
    <3>1. PICK a \in Seq(Seq(STRING)) : a = written.array
      BY <1>1
    <3>2. ASSUME NEW j \in 1 .. Len(a)
          PROVE  a[j] \in Seq(C)
      <4>1. PICK s \in Seq(STRING) : s = a[j]
        OBVIOUS
      <4>2. \A i \in 1 .. Len(s) : s[i] \in Chars /\ s[i] \in STRING
        <5>1. \A i \in 1 .. Len(written.array[j]) : written.array[j][i] \in Chars
          BY <1>1, <3>1, ValuesAre DEF Count
        <5> QED
          BY <3>1, <4>1, <5>1
      <4>3. \A i \in 1 .. Len(s) : s[i] \in C
        BY <2>2, <4>2 DEF Symbol
      <4> HIDE DEF C
      <4> QED
        BY <4>1, <4>3
    <3> HIDE DEF C
    <3>3. PICK D : D = Seq(C)
      OBVIOUS
    <3>4. a \in Seq(D)
      <4>1. PICK T : T = Seq(STRING)
        OBVIOUS
      <4>2. a \in Seq(T) /\ \A j \in 1 .. Len(a) : a[j] \in D
        BY <3>2, <3>3, <4>1
      <4> QED
        BY <4>2
    <3> QED
      BY <3>1, <3>3, <3>4
  <2>5. text \in Seq(C) /\ \E P : IsLaidOut(text, written.scalar, written.array, P)
    <3> HIDE DEF C
    <3> QED
      BY <1>1, <2>1, <2>3, <2>4, FileIsLaidOut
  <2>6. \A i \in 1 .. N : text[i] # Slash
    BY <2>5 DEF N
  <2>7. PICK P : IsLaidOut(text, written.scalar, written.array, P)
    BY <2>5
  <2>8. ReadsScalar
    BY DEF Init, ReadsScalar
  <2> QED
    BY <2>6, <2>7, <2>8 DEF AsWritten, Reads
<1> QED
  BY <1>1, <1>2 DEF ReadInv

\* As long as nobody changes the file, the parser reads what was written, or refuses what
\* a bracket or an empty element spoils.
LEMMA StepReads == IInv /\ ReadInv /\ [Next]_vars => ReadInv'
<1>1. ASSUME IInv, ReadInv, Next
      PROVE  ReadInv'
  <2>1. written' = written
    BY <1>1 DEF Next, EditFile, OpenFile, k2v3_parse, SkipLine, get_key, get_null, get_scalar, get_array,
                get_other, get_element, get_array_end, AddToCache, Finish, At
  <2>2. CASE EditFile
    <3>1. edits' # 0
      <4>1. edits \in Nat /\ edits' = edits + 1
        BY <1>1, <2>2, K2v3Assumption DEF IInv, InText, EditFile
      <4> QED
        BY <4>1
    <3> QED
      BY <1>1, <2>1, <3>1 DEF ReadInv
  <2>3. CASE OpenFile \/ k2v3_parse
    <3>1. UNCHANGED <<written, text, edits>>
      BY <2>3 DEF OpenFile, k2v3_parse, SkipLine, get_key, get_null, get_scalar, get_array,
                  get_other, get_element, get_array_end, AddToCache, Finish, At
    <3>2. NoMarks' <=> NoMarks
      BY <3>1 DEF NoMarks, Chars, Values, Range
    <3>3. ASSUME edits = 0, NoMarks
          PROVE  \E P : AsWritten(P)' /\ Reads(P)'
      <4>1. PICK P : AsWritten(P) /\ Reads(P)
        BY <1>1, <3>3 DEF ReadInv
      <4>2. Shape(P)
        BY <1>1, <3>3, <4>1 DEF ReadInv, Shape
      <4>3. Reads(P)'
        BY <1>1, <2>3, <4>1, <4>2, OpenFileReads, SkipLineReads, GetKeyReads, GetNullReads, GetScalarReads,
           GetArrayReads, GetOtherReads, GetElementReads, GetArrayEndReads, AddToCacheReads, FinishReads
           DEF k2v3_parse
      <4>4. AsWritten(P)'
        BY <3>1, <4>2, Unmoved DEF Shape
      <4> QED
        BY <4>3, <4>4
    <3> QED
      BY <1>1, <3>1, <3>2, <3>3 DEF ReadInv
  <2> QED
    BY <1>1, <2>2, <2>3 DEF Next
<1>2. ASSUME ReadInv, UNCHANGED vars
      PROVE  ReadInv'
  <2>1. UNCHANGED <<written, text, edits, phase, pos, begin, end, node, cache>>
    BY <1>2 DEF vars
  <2>2. NoMarks' <=> NoMarks
    BY <2>1 DEF NoMarks, Chars, Values, Range
  <2>3. ASSUME edits = 0, NoMarks
        PROVE  \E P : AsWritten(P)' /\ Reads(P)'
    <3>1. PICK P : AsWritten(P) /\ Reads(P)
      BY <1>2, <2>3 DEF ReadInv
    <3>2. Shape(P)
      BY <1>2, <2>3, <3>1 DEF ReadInv, Shape
    <3>3. /\ Shape(P)' /\ M' = M /\ Count' = Count /\ N' = N
          /\ Scalar' = Scalar /\ Array' = Array /\ (Plain' <=> Plain)
          /\ \A j \in Nat : Part(j)' = Part(j)
      BY <2>1, <3>2, Unmoved
    <3>4. ReadsScalar => ReadsScalar'
      BY <2>1, <3>3 DEF ReadsScalar
    <3>5. ReadsElements(P) => ReadsElements(P)'
      <4>1. \A j \in 0 .. Count : j \in Nat
        <5>1. Count \in Nat
          BY <3>2, PlacesAre
        <5> QED
          BY <5>1
      <4> QED
        BY <2>1, <3>3, <4>1, Zenon DEF ReadsElements
    <3>6. ReadsArray(P) => ReadsArray(P)'
      BY <2>1, <3>3, <3>5 DEF ReadsArray
    <3>7. HasRead => HasRead'
      BY <2>1, <3>3 DEF HasRead
    <3>8. Reads(P)'
      BY <2>1, <3>1, <3>3, <3>4, <3>6, <3>7 DEF Reads
    <3> QED
      BY <3>3, <3>8 DEF Shape
  <2> QED
    BY <1>2, <2>1, <2>2, <2>3 DEF ReadInv
<1> QED
  BY <1>1, <1>2

\* ruri -c, and whoever reads .rurienv, takes a file with plain values as it was written,
\* whatever their length and number: k2v3_parse() finds what char_array_to_k2v3() and its
\* like wrote.  With brackets and empty values it finds it or refuses the file.
THEOREM PlainIsReadBack == Spec => []ReadBackOrRefused
<1>1. IInv /\ ReadInv => ReadBackOrRefused
  <2> SUFFICES ASSUME IInv, ReadInv, edits = 0, Chars \cap {Quote, Slash, NL} = {}, phase \in Ended
               PROVE  /\ Plain => phase = "done"
                      /\ phase = "done" => Holds("scalar", written.scalar) /\ Holds("array", written.array)
    BY DEF ReadBackOrRefused
  <2>1. PICK P : AsWritten(P) /\ Reads(P)
    BY DEF ReadInv, NoMarks
  <2>2. \/ phase = "done" /\ cache = <<Scalar, Array>>
        \/ phase = "refused" /\ ~Plain
    BY <2>1 DEF Ended, Reads, ReadsScalar, ReadsArray, ReadsElements, HasRead
  <2>3. ASSUME phase = "done"
        PROVE  Holds("scalar", written.scalar) /\ Holds("array", written.array)
    <3>1. DOMAIN cache = {1, 2} /\ cache[1] = Scalar /\ cache[2] = Array
      <4>1. \A x, y : DOMAIN <<x, y>> = {1, 2} /\ <<x, y>>[1] = x /\ <<x, y>>[2] = y
        OBVIOUS
      <4> QED
        BY <2>2, <2>3, <4>1
    <3>2. 1 \in Found("scalar") /\ 2 \in Found("array")
      BY <3>1 DEF Found, KeyOf, Scalar, Array
    <3>3. Holds("scalar", written.scalar)
      BY <3>1, <3>2 DEF Holds, Scalar
    <3>4. Holds("array", written.array)
      BY <3>1, <3>2 DEF Holds, Array
    <3> QED
      BY <3>3, <3>4
  <2> QED
    BY <2>2, <2>3
<1>2. Spec => []ReadInv
  BY InitIsIn, StepKeeps, InitReads, StepReads, PTL DEF Spec
<1> QED
  BY <1>1, <1>2, Invariant, PTL

-----------------------------------------------------------------------------
(* Positions in order *)

\* What lists positions from the first to the last.
Rises(f, n) ==
  f \in [1 .. n -> Nat] /\ \A i, j \in 1 .. n : i < j => f[i] < f[j]
Lists(f, n, S) == n \in Nat /\ Rises(f, n) /\ S = {f[i] : i \in 1 .. n}

\* A set has as many positions as its list.
LEMMA CountIs ==
  ASSUME NEW n, NEW f, NEW S, Lists(f, n, S)
  PROVE  IsFiniteSet(S) /\ Cardinality(S) = n
<1>1. n \in Nat /\ f \in [1 .. n -> S]
  BY DEF Lists, Rises
<1>2. \A i, j \in 1 .. n : f[i] = f[j] => i = j
  <2> SUFFICES ASSUME NEW i \in 1 .. n, NEW j \in 1 .. n, f[i] = f[j], i # j
               PROVE  FALSE
    OBVIOUS
  <2>1. i < j \/ j < i
    BY <1>1
  <2>2. f[i] < f[j] \/ f[j] < f[i]
    BY <2>1 DEF Lists, Rises
  <2>3. f[i] \in Nat /\ f[j] \in Nat
    BY DEF Lists, Rises
  <2> QED
    BY <2>2, <2>3
<1>3. \A x \in S : \E i \in 1 .. n : f[i] = x
  BY DEF Lists
<1>4. f \in Bijection(1 .. n, S)
  <2>1. f \in Injection(1 .. n, S)
    BY <1>1, <1>2 DEF Injection, IsInjective
  <2>2. f \in Surjection(1 .. n, S)
    BY <1>1, <1>3 DEF Surjection
  <2> QED
    BY <2>1, <2>2 DEF Bijection
<1>5. ExistsBijection(1 .. n, S)
  BY <1>4 DEF ExistsBijection
<1> QED
  BY <1>1, <1>5, FS_NatBijection, FS_CountingElements

\* As many as are listed before a position are before it.
LEMMA CountUpto ==
  ASSUME NEW n, NEW f, NEW S, Lists(f, n, S), NEW m \in 0 .. n, NEW x \in Nat,
         m # 0 => f[m] <= x, m # n => x < f[m + 1]
  PROVE  Cardinality({y \in S : y <= x}) = m
<1> DEFINE g == [i \in 1 .. m |-> f[i]]
           T == {y \in S : y <= x}
<1>1. n \in Nat /\ m \in Nat /\ f \in [1 .. n -> Nat] /\ 1 .. m \subseteq 1 .. n
  BY DEF Lists, Rises
<1>2. \A i, j \in 1 .. n : i < j => f[i] < f[j]
  BY DEF Lists, Rises
<1>3. ASSUME NEW i \in 1 .. n
      PROVE  f[i] <= x <=> i <= m
  <2>1. f[i] \in Nat
    BY <1>1
  <2>2. CASE i <= m
    <3>1. m \in 1 .. n /\ f[m] \in Nat /\ f[m] <= x
      BY <1>1, <2>2
    <3>2. i = m \/ f[i] < f[m]
      BY <1>1, <1>2, <2>2, <3>1
    <3> QED
      BY <2>1, <2>2, <3>1, <3>2
  <2>3. CASE ~(i <= m)
    <3>1. m # n /\ m + 1 \in 1 .. n
      BY <1>1, <2>3
    <3>2. f[m + 1] \in Nat /\ x < f[m + 1]
      BY <1>1, <3>1
    <3>3. i = m + 1 \/ m + 1 < i
      BY <1>1, <2>3
    <3>4. i = m + 1 \/ f[m + 1] < f[i]
      BY <1>2, <3>1, <3>3
    <3> QED
      BY <2>1, <2>3, <3>2, <3>4
  <2> QED
    BY <2>2, <2>3
<1>4. Rises(g, m)
  BY <1>1, <1>2 DEF Rises
<1>5. T = {f[i] : i \in 1 .. m}
  <2>1. S = {f[i] : i \in 1 .. n}
    BY DEF Lists
  <2>2. \A i \in 1 .. n : i <= m <=> i \in 1 .. m
    BY <1>1
  <2> QED
    BY <1>1, <1>3, <2>1, <2>2
<1>6. T = {g[i] : i \in 1 .. m}
  BY <1>5
<1>7. Lists(g, m, T)
  <2> HIDE DEF g, T
  <2> QED
    BY <1>1, <1>4, <1>6 DEF Lists
<1> HIDE DEF g, T
<1>8. Cardinality(T) = m
  BY <1>7, CountIs
<1> QED
  BY <1>8 DEF T

\* InOrder() lists the positions of a set.
LEMMA InOrderIs ==
  ASSUME NEW n, NEW f, NEW S, Lists(f, n, S)
  PROVE  InOrder(S) = f
<1>1. n \in Nat /\ f \in [1 .. n -> Nat] /\ (\A i \in 1 .. n : f[i] \in S)
  BY DEF Lists, Rises
<1>2. \A i, j \in 1 .. n : i < j => f[i] < f[j]
  BY DEF Lists, Rises
<1>3. ASSUME NEW i \in 1 .. n
      PROVE  Cardinality({y \in S : y < f[i]}) = i - 1
  <2>1. PICK a \in Nat : a = f[i]
    BY <1>1
  <2>2. i - 1 \in 0 .. n /\ i - 1 # n /\ (i - 1) + 1 = i
    BY <1>1
  <2>3. i = 1 \/ f[i - 1] < a
    <3>1. i # 1 => i - 1 \in 1 .. n /\ i - 1 < i
      BY <1>1
    <3> QED
      BY <1>2, <2>1, <3>1
  <2>4. CASE i = 1
    <3>1. \A y \in S : ~(y < a)
      <4> SUFFICES ASSUME NEW k \in 1 .. n
                   PROVE  ~(f[k] < a)
        BY DEF Lists
      <4>1. k = 1 \/ 1 < k
        BY <1>1
      <4>2. f[k] \in Nat /\ (k = 1 \/ a < f[k])
        BY <1>1, <1>2, <2>1, <2>4, <4>1
      <4> QED
        BY <2>1, <2>4, <4>2
    <3>2. {y \in S : y < f[i]} = {}
      BY <2>1, <3>1
    <3> QED
      BY <2>4, <3>2, FS_EmptySet
  <2>5. CASE i # 1
    <3>1. i - 1 \in 1 .. n /\ f[i - 1] \in Nat
      BY <1>1, <2>5
    <3>2. a - 1 \in Nat /\ f[i - 1] <= a - 1 /\ a - 1 < a
      BY <2>3, <2>5, <3>1
    <3>3. Cardinality({y \in S : y <= a - 1}) = i - 1
      <4>1. PICK b \in Nat : b = a - 1
        BY <3>2
      <4>2. PICK m : m = i - 1
        OBVIOUS
      <4>3. m \in 0 .. n /\ f[m] <= b /\ m + 1 = i
        BY <2>2, <3>2, <4>1, <4>2
      <4>4. b < f[m + 1]
        BY <2>1, <3>2, <4>1, <4>3
      <4>5. Cardinality({y \in S : y <= b}) = m
        BY <4>3, <4>4, CountUpto
      <4> QED
        BY <4>1, <4>2, <4>5, Zenon
    <3>4. \A y \in S : y <= a - 1 <=> y < a
      <4>1. S \subseteq Nat
        BY <1>1 DEF Lists
      <4> QED
        BY <4>1
    <3>5. {y \in S : y < f[i]} = {y \in S : y <= a - 1}
      BY <2>1, <3>4
    <3> QED
      BY <3>3, <3>5
  <2> QED
    BY <2>4, <2>5
<1>4. Cardinality(S) = n
  BY CountIs
<1>5. ASSUME NEW i \in 1 .. n
      PROVE  InOrder(S)[i] = f[i]
  <2> DEFINE IsNth(k) == Cardinality({j \in S : j < k}) = i - 1
  <2>1. InOrder(S)[i] = CHOOSE k \in S : IsNth(k)
    BY <1>4 DEF InOrder
  <2>2. \A k \in S : IsNth(k) <=> k = f[i]
    <3> SUFFICES ASSUME NEW k \in 1 .. n
                 PROVE  IsNth(f[k]) <=> f[k] = f[i]
      BY DEF Lists
    <3>1. Cardinality({j \in S : j < f[k]}) = k - 1
      BY <1>3
    <3>2. IsNth(f[k]) <=> k = i
      BY <1>1, <3>1
    <3>3. f[k] = f[i] => k = i
      <4>1. k < i \/ i < k \/ k = i
        BY <1>1
      <4>2. f[k] \in Nat /\ f[i] \in Nat
        BY <1>1
      <4> QED
        BY <1>2, <4>1, <4>2
    <3> HIDE DEF IsNth
    <3> QED
      BY <3>2, <3>3
  <2> HIDE DEF IsNth
  <2> QED
    BY <1>1, <2>1, <2>2
<1>6. InOrder(S) = [i \in 1 .. n |-> InOrder(S)[i]]
  <2> DEFINE Nth(i) == CHOOSE k \in S : Cardinality({j \in S : j < k}) = i - 1
  <2>1. PICK g : g = [i \in 1 .. n |-> Nth(i)]
    OBVIOUS
  <2>2. InOrder(S) = g
    BY <1>4, <2>1 DEF InOrder
  <2> HIDE DEF Nth
  <2>3. g = [i \in 1 .. n |-> g[i]]
    BY <2>1
  <2> QED
    BY <2>2, <2>3
<1>7. f = [i \in 1 .. n |-> f[i]]
  BY <1>1
<1> QED
  BY <1>5, <1>6, <1>7

\* What PartsAt() takes.
LEMMA PartsAtIs ==
  ASSUME NEW s, NEW n, NEW f, NEW S, Lists(f, n, S)
  PROVE  PartsAt(s, S) = [i \in 1 .. n |-> s[f[i]]]
<1>1. InOrder(S) = f
  BY InOrderIs
<1>2. DOMAIN f = 1 .. n
  BY DEF Lists, Rises
<1> QED
  BY <1>1, <1>2 DEF PartsAt

HasList(S) == \E n, f : Lists(f, n, S)

\* One position more, behind all others.
LEMMA ListGrows ==
  ASSUME NEW S, NEW k \in Nat, \A x \in S : x < k, HasList(S)
  PROVE  HasList(S \cup {k})
<1>1. PICK n, f : Lists(f, n, S)
  BY DEF HasList
<1>2. n \in Nat /\ f \in [1 .. n -> Nat] /\ S = {f[i] : i \in 1 .. n}
  BY <1>1 DEF Lists, Rises
<1>3. \A i, j \in 1 .. n : i < j => f[i] < f[j]
  BY <1>1 DEF Lists, Rises
<1> DEFINE g == [i \in 1 .. n + 1 |-> IF i = n + 1 THEN k ELSE f[i]]
<1>4. /\ g \in [1 .. n + 1 -> Nat] /\ g[n + 1] = k
      /\ \A i \in 1 .. n : g[i] = f[i] /\ f[i] < k
  BY <1>2
<1>5. \A i \in 1 .. n + 1 : i \in 1 .. n \/ i = n + 1
  BY <1>2
<1>6. n + 1 \in 1 .. n + 1 /\ n + 1 \in Nat /\ \A i \in 1 .. n : i \in 1 .. n + 1
  BY <1>2
<1> HIDE DEF g
<1>7. \A i, j \in 1 .. n + 1 : i < j => g[i] < g[j]
  <2> SUFFICES ASSUME NEW i \in 1 .. n + 1, NEW j \in 1 .. n + 1, i < j
               PROVE  g[i] < g[j]
    OBVIOUS
  <2>1. i \in 1 .. n
    BY <1>2
  <2> QED
    BY <1>3, <1>4, <1>5, <2>1
<1>8. S \cup {k} = {g[i] : i \in 1 .. n + 1}
  <2>1. \A i \in 1 .. n + 1 : g[i] \in S \cup {k}
    BY <1>2, <1>4, <1>5
  <2>2. \A x \in S \cup {k} : \E i \in 1 .. n + 1 : x = g[i]
    <3> SUFFICES ASSUME NEW x \in S \cup {k}
                 PROVE  \E i \in 1 .. n + 1 : x = g[i]
      OBVIOUS
    <3>1. CASE x = k
      BY <1>4, <1>6, <3>1
    <3>2. CASE x \in S
      <4>1. PICK i \in 1 .. n : x = f[i]
        BY <1>2, <3>2
      <4>2. i \in 1 .. n + 1 /\ x = g[i]
        BY <1>4, <1>6, <4>1
      <4> QED
        BY <4>2
    <3> QED
      BY <3>1, <3>2
  <2> QED
    BY <2>1, <2>2
<1>9. Lists(g, n + 1, S \cup {k})
  BY <1>4, <1>6, <1>7, <1>8, Zenon DEF Lists, Rises
<1> QED
  BY <1>9 DEF HasList

\* Every set of positions in a text has a list.
LEMMA ListExists ==
  ASSUME NEW k \in Nat, NEW S, S \subseteq 1 .. k
  PROVE  HasList(S)
<1> DEFINE T(m) == {x \in S : x <= m}
           G == {m \in 1 .. k : HasList(T(m))}
<1>0. \A x \in S : x \in Nat /\ 1 <= x /\ x <= k
  OBVIOUS
<1>1. HasList({})
  <2> DEFINE f == [i \in 1 .. 0 |-> 0]
  <2>1. Lists(f, 0, {})
    BY DEF Lists, Rises
  <2> QED
    BY <2>1 DEF HasList
<1>2. ASSUME NEW m \in 1 .. k, m = 1 \/ m - 1 \in G
      PROVE  m \in G
  <2>1. PICK l \in Nat : l = m - 1 /\ l + 1 = m
    <3>1. m - 1 \in Nat /\ (m - 1) + 1 = m
      OBVIOUS
    <3> QED
      BY <3>1
  <2>2. HasList(T(l))
    <3>1. CASE m = 1
      <4>1. \A x \in S : ~(x <= l)
        BY <1>0, <2>1, <3>1
      <4>2. T(l) = {}
        BY <4>1
      <4> QED
        BY <1>1, <4>2
    <3>2. CASE m # 1
      BY <1>2, <2>1, <3>2
    <3> QED
      BY <3>1, <3>2
  <2>3. CASE m \in S
    <3>0. \A x \in S : x <= m <=> x <= l \/ x = m
      BY <1>0, <2>1
    <3>1. T(m) = T(l) \cup {m}
      BY <2>3, <3>0
    <3>2. \A x \in T(l) : x < m
      BY <2>1
    <3>3. HasList(T(l) \cup {m})
      <4> HIDE DEF T
      <4>1. m \in Nat
        OBVIOUS
      <4> QED
        BY <2>2, <3>2, <4>1, ListGrows
    <3> HIDE DEF T
    <3> QED
      BY <3>1, <3>3
  <2>4. CASE m \notin S
    <3>0. \A x \in S : x <= m <=> x <= l
      BY <1>0, <2>1, <2>4
    <3>1. T(m) = T(l)
      BY <3>0
    <3> HIDE DEF T
    <3> QED
      BY <2>2, <3>1
  <2> QED
    BY <2>3, <2>4
<1>3. CASE k = 0
  <2>1. S = {}
    BY <1>3
  <2> QED
    BY <1>1, <2>1
<1>4. CASE k # 0
  <2>1. k \in 1 .. k
    BY <1>4
  <2>2. T(k) = S
    BY <1>0
  <2>3. \A m \in 1 .. k : m \in G
    <3> HIDE DEF G
    <3> QED
      BY <1>2, Upward
  <2>4. HasList(T(k))
    <3>1. k \in G
      <4> HIDE DEF G
      <4> QED
        BY <2>1, <2>3
    <3> HIDE DEF T
    <3> QED
      BY <3>1
  <2> HIDE DEF T
  <2> QED
    BY <2>2, <2>4
<1> QED
  BY <1>3, <1>4

\* The next one in the list is the next one there is.
LEMMA NextIs ==
  ASSUME NEW n, NEW f, NEW S, Lists(f, n, S), NEW i \in 0 .. n, NEW x \in S,
         i # 0 => f[i] < x,
         \A y \in S : y < x => i # 0 /\ y <= f[i]
  PROVE  i + 1 \in 1 .. n /\ f[i + 1] = x
<1>1. n \in Nat /\ f \in [1 .. n -> Nat] /\ S = {f[k] : k \in 1 .. n}
  BY DEF Lists, Rises
<1>2. \A k, j \in 1 .. n : k < j => f[k] < f[j]
  BY DEF Lists, Rises
<1>3. PICK j \in 1 .. n : x = f[j]
  BY <1>1
<1>4. i < j
  <2>1. i = 0 \/ i \in 1 .. n
    BY <1>1
  <2>2. i \in 1 .. n => f[i] \in Nat /\ f[j] \in Nat /\ f[i] < f[j]
    BY <1>1, <1>3
  <2>3. i \in 1 .. n => ~(j < i) /\ j # i
    BY <1>2, <2>2
  <2> QED
    BY <1>1, <2>1, <2>3
<1>5. i + 1 \in 1 .. n
  BY <1>1, <1>4
<1>6. CASE i + 1 < j
  <2>1. f[i + 1] < x /\ f[i + 1] \in S
    BY <1>1, <1>2, <1>3, <1>5, <1>6
  <2>2. i # 0 /\ f[i + 1] <= f[i]
    BY <2>1
  <2>3. i \in 1 .. n /\ i < i + 1
    BY <1>1, <2>2
  <2>4. f[i] < f[i + 1] /\ f[i] \in Nat /\ f[i + 1] \in Nat
    BY <1>1, <1>2, <1>5, <2>3
  <2> QED
    BY <2>2, <2>4
<1>7. CASE ~(i + 1 < j)
  <2>1. i + 1 = j
    BY <1>1, <1>4, <1>7
  <2> QED
    BY <1>3, <1>5, <2>1
<1> QED
  BY <1>6, <1>7

\* Behind the last one there is none.
LEMMA LastIs ==
  ASSUME NEW n, NEW f, NEW S, Lists(f, n, S), NEW i \in 1 .. n,
         \A y \in S : y <= f[i]
  PROVE  n = i
<1>1. n \in Nat /\ f \in [1 .. n -> Nat] /\ S = {f[k] : k \in 1 .. n}
  BY DEF Lists, Rises
<1>2. \A k, j \in 1 .. n : k < j => f[k] < f[j]
  BY DEF Lists, Rises
<1>3. n \in 1 .. n /\ f[n] <= f[i] /\ f[n] \in Nat /\ f[i] \in Nat
  BY <1>1
<1>4. i = n \/ i < n
  BY <1>1
<1> QED
  BY <1>2, <1>3, <1>4

-----------------------------------------------------------------------------
(* Parts of a line *)

\* A text without a backslash.
Clear(s) == s \in Seq(Symbol) /\ \A i \in 1 .. Len(s) : s[i] # Slash

\* A part of it.
IsCut(v, t, a, b) ==
  /\ v = SubSeq(t, a, b) /\ Clear(v) /\ Len(v) = b - a + 1
  /\ \A i \in 1 .. b - a + 1 : v[i] = t[a + i - 1]

\* SubSeq() makes one.
LEMMA CutIs ==
  ASSUME NEW t, Clear(t), NEW a \in Nat \ {0}, NEW b \in Nat, a <= b + 1, b <= Len(t)
  PROVE  IsCut(SubSeq(t, a, b), t, a, b)
<1>1. t \in Seq(Symbol) /\ Len(t) \in Nat
  BY DEF Clear
<1>2. \A i \in a .. b : t[i] \in Symbol /\ t[i] # Slash
  <2>1. \A i \in a .. b : i \in 1 .. Len(t)
    BY <1>1
  <2> QED
    BY <1>1, <2>1 DEF Clear
<1>3. PICK v : v = SubSeq(t, a, b)
  OBVIOUS
<1>4. /\ v \in Seq(Symbol) /\ Len(v) = IF a <= b THEN b - a + 1 ELSE 0
      /\ \A i \in 1 .. b - a + 1 : v[i] = t[a + i - 1]
  BY <1>2, <1>3, SubSeqProperties
<1>5. Len(v) = b - a + 1
  BY <1>4
<1>6. \A i \in 1 .. Len(v) : v[i] # Slash
  <2> SUFFICES ASSUME NEW i \in 1 .. Len(v)
               PROVE  v[i] # Slash
    OBVIOUS
  <2>1. i \in 1 .. b - a + 1 /\ a + i - 1 \in a .. b
    BY <1>5
  <2> QED
    BY <1>2, <1>4, <2>1
<1> QED
  BY <1>3, <1>4, <1>5, <1>6 DEF IsCut, Clear

\* The whole of it.
LEMMA CutWhole ==
  ASSUME NEW t, Clear(t)
  PROVE  SubSeq(t, 1, Len(t)) = t
<1>1. t \in Seq(Symbol)
  BY DEF Clear
<1> QED
  BY <1>1

\* Where the first position of some is, there is no other.
LEMMA FirstIsOne ==
  ASSUME NEW from \in Nat, NEW last \in Nat, NEW W, NEW p \in from .. last + 1,
         p = last + 1 \/ p \in W, \A j \in from .. p - 1 : j \notin W
  PROVE  \A k \in from .. last + 1 :
           ((k = last + 1 \/ k \in W) /\ \A j \in from .. k - 1 : j \notin W) <=> k = p
<1> SUFFICES ASSUME NEW k \in from .. last + 1, k = last + 1 \/ k \in W,
                    \A j \in from .. k - 1 : j \notin W
             PROVE  k = p
  OBVIOUS
<1>1. k < p => k \in from .. p - 1 /\ k # last + 1
  OBVIOUS
<1>2. p < k => p \in from .. k - 1 /\ p # last + 1
  OBVIOUS
<1>3. k < p \/ p < k \/ k = p
  OBVIOUS
<1> QED
  BY <1>1, <1>2, <1>3

\* The character that is trimmed.
Space == " "

\* A text that begins with something else than a space keeps its beginning.
LEMMA TrimmedIs ==
  ASSUME NEW s, Clear(s), Len(s) # 0, s[1] # Space
  PROVE  Trimmed(s) = s
<1>1. PICK n \in Nat : n = Len(s) /\ 1 <= n
  <2>1. Len(s) \in Nat
    BY DEF Clear
  <2>2. 1 <= Len(s)
    BY <2>1
  <2> QED
    BY <2>1, <2>2
<1> DEFINE IsFirst(i) == /\ i = n + 1 \/ s[i] # Space
                         /\ \A j \in 1 .. i - 1 : ~(s[j] # Space)
           W == {i \in 1 .. n : s[i] # Space}
           open == First(1, Len(s), LAMBDA i : s[i] # Space)
<1>2. open = CHOOSE k \in 1 .. n + 1 : IsFirst(k)
  BY <1>1 DEF First
<1>3. 1 \in W
  BY <1>1
<1>4. \A k \in 1 .. n + 1 : ((k = n + 1 \/ k \in W) /\ \A j \in 1 .. k - 1 : j \notin W) <=> k = 1
  <2> HIDE DEF W
  <2>1. 1 \in 1 .. n + 1 /\ 1 \in Nat /\ 1 .. 1 - 1 = {}
    BY <1>1
  <2> QED
    BY <1>3, <2>1, FirstIsOne
<1>5. \A k \in 1 .. n + 1 : IsFirst(k) <=> k = 1
  <2> SUFFICES ASSUME NEW k \in 1 .. n + 1
               PROVE  IsFirst(k) <=> k = 1
    OBVIOUS
  <2>1. (k = n + 1 \/ k \in W) <=> (k = n + 1 \/ s[k] # Space)
    BY <1>1
  <2>2. \A j \in 1 .. k - 1 : j \notin W <=> s[j] = Space
    BY <1>1
  <2> HIDE DEF W
  <2> QED
    BY <1>4, <2>1, <2>2
<1>6. open = 1
  <2>1. 1 \in 1 .. n + 1
    BY <1>1
  <2> HIDE DEF IsFirst, open
  <2> QED
    BY <1>2, <1>5, <2>1
<1>7. Trimmed(s) = IF open > Len(s) THEN s ELSE SubSeq(s, open, Len(s))
  BY Zenon DEF Trimmed, Space
<1> HIDE DEF open
<1>8. Trimmed(s) = SubSeq(s, 1, Len(s))
  BY <1>1, <1>6, <1>7
<1> QED
  BY <1>8, CutWhole

\* The greatest of some numbers.
LEMMA MaxIs ==
  ASSUME NEW S, S \subseteq Nat, NEW m \in S, \A x \in S : x <= m
  PROVE  Max(S) = m
<1> DEFINE IsMax(x) == \A y \in S : x >= y
<1>1. Max(S) = CHOOSE x \in S : IsMax(x)
  BY DEF Max
<1>2. \A x \in S : IsMax(x) <=> x = m
  <2>1. \A x, y \in S : x >= y <=> y <= x
    OBVIOUS
  <2>2. \A x, y \in S : x <= y /\ y <= x => x = y
    OBVIOUS
  <2> QED
    BY <2>1, <2>2
<1> HIDE DEF IsMax
<1> QED
  BY <1>1, <1>2

\* A text that ends with something else keeps its end.
LEMMA TrimmedEndIs ==
  ASSUME NEW s, Clear(s), Len(s) # 0, s[Len(s)] # Space
  PROVE  TrimmedEnd(s) = s
<1>1. PICK n \in Nat : n = Len(s) /\ 1 <= n
  <2>1. Len(s) \in Nat
    BY DEF Clear
  <2>2. 1 <= Len(s)
    BY <2>1
  <2> QED
    BY <2>1, <2>2
<1> DEFINE solid == {i \in 2 .. Len(s) : s[i] # Space}
<1>2. TrimmedEnd(s) = IF solid = {} THEN s ELSE SubSeq(s, 1, Max(solid))
  BY Zenon DEF TrimmedEnd, Space
<1>3. ASSUME solid # {}
      PROVE  Max(solid) = n
  <2>1. solid \subseteq Nat /\ (\A x \in solid : x <= n) /\ 2 <= n
    BY <1>1, <1>3
  <2>2. n \in solid
    BY <1>1, <2>1
  <2> HIDE DEF solid
  <2> QED
    BY <2>1, <2>2, MaxIs
<1> HIDE DEF solid
<1> QED
  BY <1>1, <1>2, <1>3, CutWhole

\* What is not behind a backslash is not escaped.
LEMMA UnescapedIs ==
  ASSUME NEW s, Clear(s), NEW from \in Nat \ {0}, NEW i \in from .. Len(s), NEW c
  PROVE  Unescaped(s, from, i, c) <=> s[i] = c
<1>1. i = from \/ i - 1 \in 1 .. Len(s)
  BY DEF Clear
<1>2. i = from \/ s[i - 1] # Slash
  BY <1>1 DEF Clear
<1> QED
  BY <1>2 DEF Unescaped, Escaped

\* The characters that mean something.
LEMMA MarksIs ==
  ASSUME NEW v, Clear(v), NEW chars, NEW m, m = Len(v)
  PROVE  Marks(v, chars) = {i \in 1 .. m : v[i] \in chars}
<1>1. DOMAIN v = 1 .. Len(v) /\ Len(v) \in Nat
  BY DEF Clear
<1>2. ASSUME NEW i \in 1 .. Len(v)
      PROVE  ~Escaped(v, 1, i)
  <2>1. i = 1 \/ i - 1 \in 1 .. Len(v)
    BY <1>1
  <2>2. i = 1 \/ v[i - 1] # Slash
    BY <2>1 DEF Clear
  <2> QED
    BY <2>2 DEF Escaped
<1> QED
  BY <1>1, <1>2 DEF Marks

-----------------------------------------------------------------------------
(* A line *)

\* A line with a key of one character, and what is behind its equals sign.
IsRow(s, n, v, c) ==
  /\ Clear(s) /\ n \in Nat /\ n = Len(s) /\ 4 <= n /\ c \notin {Space, "=", Quote}
  /\ s[1] = c /\ s[2] = "=" /\ s[n] # Space
  /\ IsCut(v, s, 3, n) /\ v[1] # Space

\* Where its key ends.
LEMMA KeyEndIs ==
  ASSUME NEW s, NEW n, NEW v, NEW c, IsRow(s, n, v, c)
  PROVE  KeyEnd(s) = 2
<1>1. Clear(s) /\ n \in Nat /\ n = Len(s) /\ 4 <= n /\ s[1] # "=" /\ s[2] = "="
  BY Zenon DEF IsRow
<1> DEFINE IsFirst(i) == /\ i = n + 1 \/ Unescaped(s, 1, i, "=")
                         /\ \A j \in 1 .. i - 1 : ~Unescaped(s, 1, j, "=")
           W == {i \in 1 .. n : s[i] = "="}
<1>2. KeyEnd(s) = CHOOSE k \in 1 .. n + 1 : IsFirst(k)
  BY <1>1 DEF First, KeyEnd
<1>3. 2 \in W /\ 1 \notin W
  BY <1>1
<1>4. \A k \in 1 .. n + 1 : ((k = n + 1 \/ k \in W) /\ \A j \in 1 .. k - 1 : j \notin W) <=> k = 2
  <2> HIDE DEF W
  <2>1. 2 \in 1 .. n + 1 /\ 1 \in Nat /\ \A j \in 1 .. 2 - 1 : j = 1
    BY <1>1
  <2> QED
    BY <1>1, <1>3, <2>1, FirstIsOne
<1>5. \A k \in 1 .. n + 1 : IsFirst(k) <=> k = 2
  <2> SUFFICES ASSUME NEW k \in 1 .. n + 1
               PROVE  IsFirst(k) <=> k = 2
    OBVIOUS
  <2>0. \A i \in 1 .. n : i \in W <=> Unescaped(s, 1, i, "=")
    <3>1. \A i \in 1 .. n : Unescaped(s, 1, i, "=") <=> s[i] = "="
      BY <1>1, UnescapedIs
    <3> QED
      BY <3>1
  <2>1. (k = n + 1 \/ k \in W) <=> (k = n + 1 \/ Unescaped(s, 1, k, "="))
    <3>1. k = n + 1 \/ k \in 1 .. n
      BY <1>1
    <3> HIDE DEF W
    <3> QED
      BY <2>0, <3>1
  <2>2. \A j \in 1 .. k - 1 : j \notin W <=> ~Unescaped(s, 1, j, "=")
    <3>1. \A j \in 1 .. k - 1 : j \in 1 .. n
      BY <1>1
    <3> HIDE DEF W
    <3> QED
      BY <2>0, <3>1
  <2> HIDE DEF W
  <2> QED
    BY <1>4, <2>1, <2>2
<1>6. 2 \in 1 .. n + 1
  BY <1>1
<1> HIDE DEF IsFirst
<1> QED
  BY <1>2, <1>5, <1>6

\* What is behind it.
LEMMA RawRightIs ==
  ASSUME NEW s, NEW n, NEW v, NEW c, IsRow(s, n, v, c)
  PROVE  /\ Trimmed(s) = s /\ RawRight(s) = v
         /\ Clear(v) /\ Len(v) = n - 2 /\ \A i \in 1 .. n - 2 : v[i] = s[i + 2]
<1>1. /\ Clear(s) /\ n \in Nat /\ n = Len(s) /\ 4 <= n /\ s[1] # Space
      /\ IsCut(v, s, 3, n) /\ v[1] # Space
  BY Zenon DEF IsRow
<1>2. Trimmed(s) = s
  <2>1. Len(s) # 0
    BY <1>1
  <2> QED
    BY <1>1, <2>1, TrimmedIs
<1>3. Clear(v) /\ v = SubSeq(s, 3, n) /\ Len(v) = n - 3 + 1 /\ \A i \in 1 .. n - 3 + 1 : v[i] = s[3 + i - 1]
  BY <1>1 DEF IsCut
<1>4. Len(v) = n - 2 /\ \A i \in 1 .. n - 2 : v[i] = s[i + 2]
  <2>1. n - 3 + 1 = n - 2 /\ \A i \in 1 .. n - 2 : 3 + i - 1 = i + 2
    BY <1>1
  <2> QED
    BY <1>3, <2>1
<1>5. Trimmed(v) = v
  <2>1. Len(v) # 0
    BY <1>1, <1>4
  <2> QED
    BY <1>1, <1>3, <2>1, TrimmedIs
<1>6. RawRight(s) = v
  <2>1. KeyEnd(s) + 1 = 3
    BY KeyEndIs
  <2>2. RawRight(s) = Trimmed(SubSeq(s, 3, Len(s)))
    BY <2>1, Zenon DEF RawRight
  <2> QED
    BY <1>1, <1>3, <1>5, <2>2, Zenon
<1> QED
  BY <1>2, <1>3, <1>4, <1>6

\* Its key.
LEMMA LeftIs ==
  ASSUME NEW s, NEW n, NEW v, NEW c, IsRow(s, n, v, c)
  PROVE  line_get_left(s) = <<c>>
<1>1. Clear(s) /\ n \in Nat /\ n = Len(s) /\ 4 <= n /\ s[1] = c /\ c # Space
  BY Zenon DEF IsRow
<1>2. Trimmed(s) = s /\ KeyEnd(s) = 2
  BY RawRightIs, KeyEndIs
<1>3. PICK k : k = SubSeq(s, 1, 1)
  OBVIOUS
<1>4. Clear(k) /\ Len(k) = 1 /\ k[1] = c
  <2>1. IsCut(SubSeq(s, 1, 1), s, 1, 1)
    <3>1. 1 \in Nat \ {0} /\ 1 \in Nat /\ 1 <= 1 + 1 /\ 1 <= Len(s)
      BY <1>1
    <3> QED
      BY <1>1, <3>1, CutIs
  <2>2. Clear(k) /\ Len(k) = 1 - 1 + 1 /\ \A i \in 1 .. 1 - 1 + 1 : k[i] = s[1 + i - 1]
    BY <1>3, <2>1, Zenon DEF IsCut
  <2> QED
    BY <1>1, <2>2
<1>5. TrimmedEnd(k) = k
  <2>1. Len(k) # 0 /\ k[Len(k)] = c
    BY <1>4
  <2> QED
    BY <1>1, <1>4, <2>1, TrimmedEndIs
<1>6. line_get_left(s) = TrimmedEnd(k)
  <2>1. KeyEnd(s) - 1 = 1
    BY <1>2
  <2> QED
    BY <1>2, <1>3, <2>1, Zenon DEF line_get_left
<1>7. k = <<c>>
  <2>1. k \in Seq(Symbol)
    BY <1>4 DEF Clear
  <2>2. k = [i \in 1 .. 1 |-> k[i]]
    BY <1>4, <2>1
  <2>3. <<c>> = [i \in 1 .. 1 |-> c]
    OBVIOUS
  <2> QED
    BY <1>4, <2>2, <2>3
<1> QED
  BY <1>5, <1>6, <1>7

\* Its value.
LEMMA RightIs ==
  ASSUME NEW s, NEW n, NEW v, NEW c, IsRow(s, n, v, c)
  PROVE  line_get_right(s) = v
<1>1. Trimmed(s) = s /\ RawRight(s) = v /\ Clear(v) /\ Len(v) = n - 2 /\ \A i \in 1 .. n - 2 : v[i] = s[i + 2]
  BY RawRightIs
<1>2. n \in Nat /\ 4 <= n /\ s[n] # Space
  BY Zenon DEF IsRow
<1>3. TrimmedEnd(v) = v
  <2>1. Len(v) # 0 /\ n - 2 \in 1 .. n - 2 /\ (n - 2) + 2 = n
    BY <1>1, <1>2
  <2>2. v[Len(v)] # Space
    BY <1>1, <1>2, <2>1
  <2> QED
    BY <1>1, <2>1, <2>2, TrimmedEndIs
<1>4. correct_backslash(v) = v
  BY <1>1, Uncorrected DEF Clear
<1> QED
  BY <1>1, <1>3, <1>4, Zenon DEF line_get_right

\* A value that ends as it should.
LEMMA ClosesIs ==
  ASSUME NEW v, NEW m \in Nat, m = Len(v), 2 <= m, NEW c, v[m] = c, c # Space
  PROVE  Closes(v, c)
<1> DEFINE solid == {i \in 2 .. Len(v) : v[i] # Space}
<1>1. solid \subseteq Nat /\ m \in solid /\ \A x \in solid : x <= m
  OBVIOUS
<1>2. Max(solid) = m
  <2> HIDE DEF solid
  <2> QED
    BY <1>1, MaxIs
<1>3. Closes(v, c) <=> (solid = {} \/ v[Max(solid)] = c)
  BY Zenon DEF Closes, Space
<1> HIDE DEF solid
<1> QED
  BY <1>2, <1>3

\* Quotes or brackets around the value.
Enclosed(v, m) ==
  \/ v[1] = Quote /\ v[m] = Quote
  \/ v[1] = "[" /\ v[m] = "]"

\* The line looks right.
LEMMA BasicIs ==
  ASSUME NEW s, NEW n, NEW v, NEW c, IsRow(s, n, v, c), Enclosed(v, n - 2)
  PROVE  basic_lint(s)
<1>1. Trimmed(s) = s /\ RawRight(s) = v /\ Clear(v) /\ Len(v) = n - 2 /\ KeyEnd(s) = 2
  BY RawRightIs, KeyEndIs
<1>2. n \in Nat /\ n = Len(s) /\ 4 <= n /\ Clear(s) /\ s[1] = c /\ c # "=" /\ c # Quote /\ s[2] = "="
  BY Zenon DEF IsRow
<1>3. PICK m \in Nat : m = n - 2 /\ 2 <= m
  <2>1. n - 2 \in Nat /\ 2 <= n - 2
    BY <1>2
  <2> QED
    BY <2>1
<1> DEFINE equals == {i \in DOMAIN s : s[i] = "="}
<1>4. equals # {} /\ Min(equals) > 1
  <2> DEFINE IsMin(x) == \A y \in equals : x =< y
  <2>1. DOMAIN s = 1 .. n
    BY <1>2 DEF Clear
  <2>2. equals \subseteq Nat /\ equals \subseteq 1 .. n /\ 2 \in equals /\ 1 \notin equals
    BY <1>2, <2>1
  <2> HIDE DEF equals
  <2>3. Min(equals) = CHOOSE x \in equals : IsMin(x)
    BY DEF Min
  <2>4. \E x \in equals : IsMin(x)
    BY <2>2, Least
  <2>5. Min(equals) \in equals
    <3> HIDE DEF IsMin
    <3> QED
      BY <2>3, <2>4
  <2>6. Min(equals) \in 1 .. n /\ Min(equals) # 1
    BY <2>2, <2>5
  <2> QED
    BY <2>2, <2>6
<1>5. KeyEnd(s) < Len(s)
  BY <1>1, <1>2
<1>6. \A i \in 1 .. KeyEnd(s) - 1 : ~Unescaped(s, 1, i, Quote)
  <2>1. \A i \in 1 .. KeyEnd(s) - 1 : i = 1
    BY <1>1
  <2>2. ~Unescaped(s, 1, 1, Quote)
    BY <1>2 DEF Unescaped
  <2> QED
    BY <2>1, <2>2
<1>7. \/ v[1] = Quote /\ Closes(v, Quote)
      \/ v[1] = "[" /\ Closes(v, "]")
  <2>1. Quote # Space /\ "]" # Space
    BY Zenon DEF Quote, Space
  <2>2. (v[1] = Quote /\ v[m] = Quote) \/ (v[1] = "[" /\ v[m] = "]")
    BY <1>3 DEF Enclosed
  <2>3. v[m] = Quote => Closes(v, Quote)
    BY <1>1, <1>3, <2>1, ClosesIs
  <2>4. v[m] = "]" => Closes(v, "]")
    BY <1>1, <1>3, <2>1, ClosesIs
  <2> QED
    BY <2>2, <2>3, <2>4, Zenon
<1> QED
  BY <1>1, <1>4, <1>5, <1>6, <1>7, Zenon DEF basic_lint

\* It is not one with a comment.
LEMMA IsNoComment ==
  ASSUME NEW s, NEW n, NEW v, NEW c, IsRow(s, n, v, c), c # "#"
  PROVE  ~is_coment_line(s)
<1>1. n \in Nat /\ n = Len(s) /\ 4 <= n /\ Clear(s) /\ s[1] # "#" /\ s[1] # Space
  BY Zenon DEF IsRow
<1>2. DOMAIN s = 1 .. n /\ s # <<>>
  BY <1>1 DEF Clear
<1>3. \A i \in 1 .. n : i = 1 \/ 1 \in 1 .. i - 1
  BY <1>1
<1> QED
  BY <1>1, <1>2, <1>3, Zenon DEF is_coment_line, Space

-----------------------------------------------------------------------------
(* An array *)

\* An array in a line: its n elements are between the quotes at R and E.
Elements(v, n, R, E) ==
  \A j \in 1 .. n :
    /\ R[j] + 1 < E[j] /\ v[R[j]] = Quote /\ v[E[j]] = Quote
    /\ \A x \in Nat : R[j] < x /\ x < E[j] => v[x] \notin {Quote, "[", "]"}
    /\ IF j = n THEN R[j + 1] = E[j] + 1
       ELSE R[j + 1] = E[j] + 2 /\ v[E[j] + 1] = ","

IsList(v, m, n, R, E) ==
  /\ Clear(v) /\ m \in Nat /\ m = Len(v) /\ n \in Nat
  /\ R \in [1 .. n + 1 -> Nat] /\ E \in [1 .. n -> Nat]
  /\ R[1] = 2 /\ R[n + 1] = m /\ v[1] = "[" /\ v[m] = "]"
  /\ \A i, j \in 1 .. n + 1 : i < j => R[i] < R[j]
  /\ Elements(v, n, R, E)

\* An element of it: what is around it, and what is not in it.
IsField(v, n, R, E, j, r, e) ==
  /\ j \in 1 .. n /\ r \in Nat /\ e \in Nat /\ r = R[j] /\ e = E[j]
  /\ 2 <= r /\ r + 1 < e /\ e < Len(v) /\ v[r] = Quote /\ v[e] = Quote
  /\ \A x \in Nat : r < x /\ x < e => v[x] \notin {Quote, "[", "]"}
  /\ j = n => R[j + 1] = e + 1 /\ Len(v) = e + 1
  /\ j # n => R[j + 1] = e + 2 /\ v[e + 1] = "," /\ e + 2 < Len(v)

\* Every element is.
LEMMA FieldIs ==
  ASSUME NEW v, NEW m, NEW n, NEW R, NEW E, IsList(v, m, n, R, E), NEW j \in 1 .. n
  PROVE  IsField(v, n, R, E, j, R[j], E[j])
<1>1. /\ m \in Nat /\ m = Len(v) /\ n \in Nat
      /\ R \in [1 .. n + 1 -> Nat] /\ E \in [1 .. n -> Nat]
      /\ R[1] = 2 /\ R[n + 1] = m
      /\ \A i, k \in 1 .. n + 1 : i < k => R[i] < R[k]
  BY Zenon DEF IsList
<1>2. j \in 1 .. n + 1 /\ j + 1 \in 1 .. n + 1 /\ 1 \in 1 .. n + 1 /\ n + 1 \in 1 .. n + 1
  BY <1>1
<1>3. PICK r \in Nat, e \in Nat, b \in Nat : r = R[j] /\ e = E[j] /\ b = R[j + 1]
  BY <1>1, <1>2
<1>4. /\ r + 1 < e /\ v[r] = Quote /\ v[e] = Quote
      /\ \A x \in Nat : r < x /\ x < e => v[x] \notin {Quote, "[", "]"}
      /\ IF j = n THEN b = e + 1 ELSE b = e + 2 /\ v[e + 1] = ","
  BY <1>3, Zenon DEF IsList, Elements
<1>5. 2 <= r
  <2>1. j = 1 \/ 1 < j
    BY <1>1
  <2>2. j = 1 \/ R[1] < r
    BY <1>1, <1>2, <1>3, <2>1
  <2> QED
    BY <1>1, <1>3, <2>2
<1>6. b = m \/ b < m
  <2>1. j + 1 = n + 1 \/ j + 1 < n + 1
    BY <1>1
  <2> QED
    BY <1>1, <1>2, <1>3, <2>1
<1>7. j = n => b = m
  BY <1>1, <1>3
<1>8. j # n => b < m
  <2>1. j # n => j + 1 < n + 1
    BY <1>1
  <2> QED
    BY <1>1, <1>2, <1>3, <2>1
<1>9. e < m /\ (j = n => b = e + 1 /\ m = e + 1) /\ (j # n => b = e + 2 /\ v[e + 1] = "," /\ e + 2 < m)
  <2>1. CASE j = n
    <3>1. b = e + 1
      BY <1>4, <2>1, Zenon
    <3> QED
      BY <1>3, <1>7, <2>1, <3>1
  <2>2. CASE j # n
    <3>1. b = e + 2 /\ v[e + 1] = ","
      BY <1>4, <2>2, Zenon
    <3>2. e < m /\ e + 2 < m
      <4>1. m \in Nat /\ b < m /\ b = e + 2 /\ e \in Nat
        BY <1>1, <1>3, <1>8, <2>2, <3>1, Zenon
      <4> QED
        BY <4>1
    <3> QED
      BY <2>2, <3>1, <3>2
  <2> QED
    BY <2>1, <2>2
<1> QED
  BY <1>1, <1>3, <1>4, <1>5, <1>9, Zenon DEF IsField

\* Every position is at one of the brackets, or at an element or the comma behind it.
LEMMA FieldAt ==
  ASSUME NEW v, NEW m, NEW n, NEW R, NEW E, IsList(v, m, n, R, E), NEW x \in 1 .. m
  PROVE  x = 1 \/ x = m \/ \E j \in 1 .. n : R[j] <= x /\ x < R[j + 1]
<1>1. m \in Nat /\ n \in Nat /\ R \in [1 .. n + 1 -> Nat] /\ R[1] = 2 /\ R[n + 1] = m
  BY Zenon DEF IsList
<1> DEFINE G == {k \in 1 .. n + 1 : x < R[k] => x = 1 \/ \E i \in 1 .. n : R[i] <= x /\ x < R[i + 1]}
<1>2. ASSUME NEW k \in 1 .. n + 1, k = 1 \/ k - 1 \in G
      PROVE  k \in G
  <2>1. CASE k = 1
    BY <1>1, <2>1
  <2>2. CASE k # 1
    <3>1. k - 1 \in G /\ k - 1 \in 1 .. n /\ (k - 1) + 1 = k
      BY <1>1, <1>2, <2>2
    <3>2. R[k - 1] \in Nat
      BY <1>1, <3>1
    <3>3. x < R[k - 1] \/ R[k - 1] <= x
      BY <3>2
    <3>4. CASE x < R[k - 1]
      BY <3>1, <3>4
    <3>5. CASE R[k - 1] <= x
      <4>1. x < R[k] => \E i \in 1 .. n : R[i] <= x /\ x < R[i + 1]
        BY <3>1, <3>5
      <4> QED
        BY <4>1
    <3> QED
      BY <3>3, <3>4, <3>5
  <2> QED
    BY <2>1, <2>2
<1>3. n + 1 \in G
  <2>1. n + 1 \in Nat /\ n + 1 \in 1 .. n + 1
    BY <1>1
  <2> HIDE DEF G
  <2> QED
    BY <1>2, <2>1, Upward
<1> QED
  BY <1>1, <1>3

\* What is at a position.
IsPlace(v, m, n, R, E, x) ==
  \/ x = 1 /\ v[x] = "["
  \/ x = m /\ v[x] = "]"
  \/ \E j \in 1 .. n : (x = R[j] \/ x = E[j]) /\ v[x] = Quote
  \/ \E j \in 1 .. n : R[j] < x /\ x < E[j] /\ v[x] \notin {Quote, "[", "]"}
  \/ \E j \in 1 .. n : j # n /\ x = E[j] + 1 /\ v[x] = ","

\* There is nothing else.
LEMMA PlaceIs ==
  ASSUME NEW v, NEW m, NEW n, NEW R, NEW E, IsList(v, m, n, R, E), NEW x \in 1 .. m
  PROVE  IsPlace(v, m, n, R, E, x)
<1>1. m \in Nat /\ v[1] = "[" /\ v[m] = "]"
  BY Zenon DEF IsList
<1>2. CASE \E j \in 1 .. n : R[j] <= x /\ x < R[j + 1]
  <2>1. PICK j \in 1 .. n : R[j] <= x /\ x < R[j + 1]
    BY <1>2
  <2>2. PICK r, e, b : r = R[j] /\ e = E[j] /\ b = R[j + 1]
    OBVIOUS
  <2>3. /\ r \in Nat /\ e \in Nat /\ r + 1 < e /\ v[r] = Quote /\ v[e] = Quote
        /\ \A y \in Nat : r < y /\ y < e => v[y] \notin {Quote, "[", "]"}
        /\ j = n => b = e + 1
        /\ j # n => b = e + 2 /\ v[e + 1] = ","
    <3>1. IsField(v, n, R, E, j, r, e)
      BY <2>2, FieldIs, Zenon
    <3> QED
      BY <2>2, <3>1, Zenon DEF IsField
  <2>4. r <= x /\ x < b /\ x \in Nat
    BY <1>1, <2>1, <2>2
  <2>5. x = r \/ (r < x /\ x < e) \/ x = e \/ (j # n /\ x = e + 1)
    <3>1. r \in Nat /\ e \in Nat /\ (j = n => b = e + 1) /\ (j # n => b = e + 2)
      BY <2>3
    <3> QED
      BY <2>4, <3>1
  <2>6. CASE x = r \/ x = e
    BY <2>2, <2>3, <2>6, Zenon DEF IsPlace
  <2>7. CASE r < x /\ x < e
    BY <2>2, <2>3, <2>4, <2>7, Zenon DEF IsPlace
  <2>8. CASE j # n /\ x = e + 1
    BY <2>2, <2>3, <2>8, Zenon DEF IsPlace
  <2> QED
    BY <2>5, <2>6, <2>7, <2>8
<1> QED
  BY <1>1, <1>2, FieldAt DEF IsPlace

\* The quotes of an array, in order.
QuotesOf(n, R, E) == [i \in 1 .. 2 * n |-> IF i % 2 = 1 THEN R[(i + 1) \div 2] ELSE E[i \div 2]]

\* Every number is odd or even.
LEMMA Halves ==
  ASSUME NEW n \in Nat, NEW i \in 1 .. 2 * n
  PROVE  \E j \in 1 .. n : \/ i = 2 * j - 1 /\ i % 2 = 1 /\ (i + 1) \div 2 = j
                           \/ i = 2 * j /\ i % 2 = 0 /\ i \div 2 = j
<1>1. CASE i % 2 = 1
  <2>1. (i + 1) \div 2 \in 1 .. n /\ i = 2 * ((i + 1) \div 2) - 1
    BY <1>1
  <2> QED
    BY <1>1, <2>1
<1>2. CASE i % 2 = 0
  <2>1. i \div 2 \in 1 .. n /\ i = 2 * (i \div 2)
    BY <1>2
  <2> QED
    BY <1>2, <2>1
<1>3. i % 2 = 0 \/ i % 2 = 1
  OBVIOUS
<1> QED
  BY <1>1, <1>2, <1>3

\* Both are in the list.
LEMMA Doubles ==
  ASSUME NEW n \in Nat, NEW j \in 1 .. n
  PROVE  /\ 2 * j - 1 \in 1 .. 2 * n /\ (2 * j - 1) % 2 = 1 /\ (2 * j - 1 + 1) \div 2 = j
         /\ 2 * j \in 1 .. 2 * n /\ (2 * j) % 2 = 0 /\ (2 * j) \div 2 = j
OBVIOUS

\* Opening ones and closing ones, one after the other.
AreQuotes(f, n, R, E) ==
  /\ \A j \in 1 .. n : f[2 * j - 1] = R[j] /\ f[2 * j] = E[j]
  /\ \A i \in 1 .. 2 * n : \E j \in 1 .. n :
       (i = 2 * j - 1 /\ f[i] = R[j]) \/ (i = 2 * j /\ f[i] = E[j])

\* The opening ones and the closing ones.
LEMMA QuotesAt ==
  ASSUME NEW n \in Nat, NEW R, NEW E
  PROVE  AreQuotes(QuotesOf(n, R, E), n, R, E)
<1>1. PICK f : f = QuotesOf(n, R, E)
  OBVIOUS
<1>2. \A i \in 1 .. 2 * n : f[i] = IF i % 2 = 1 THEN R[(i + 1) \div 2] ELSE E[i \div 2]
  BY <1>1 DEF QuotesOf
<1>3. ASSUME NEW j \in 1 .. n
      PROVE  f[2 * j - 1] = R[j] /\ f[2 * j] = E[j]
  <2>1. PICK a : a = 2 * j - 1
    OBVIOUS
  <2>2. PICK b : b = 2 * j
    OBVIOUS
  <2>3. a \in 1 .. 2 * n /\ a % 2 = 1 /\ (a + 1) \div 2 = j /\ b \in 1 .. 2 * n /\ b % 2 = 0 /\ b \div 2 = j
    BY <2>1, <2>2, Doubles
  <2>4. 0 # 1
    OBVIOUS
  <2>5. f[a] = R[j] /\ f[b] = E[j]
    BY <1>2, <2>3, <2>4, Zenon
  <2> QED
    BY <2>1, <2>2, <2>5, Zenon
<1>4. ASSUME NEW i \in 1 .. 2 * n
      PROVE  \E j \in 1 .. n :
       (i = 2 * j - 1 /\ f[i] = R[j]) \/ (i = 2 * j /\ f[i] = E[j])
  <2>1. PICK j \in 1 .. n : i = 2 * j - 1 \/ i = 2 * j
    BY Halves
  <2> QED
    BY <1>3, <2>1, Zenon
<1>5. AreQuotes(f, n, R, E)
  BY <1>3, <1>4 DEF AreQuotes
<1> QED
  BY <1>1, <1>5, Zenon

\* They are all the quotes there are, from the first to the last.
LEMMA QuotesListed ==
  ASSUME NEW v, NEW m, NEW n, NEW R, NEW E, IsList(v, m, n, R, E)
  PROVE  Lists(QuotesOf(n, R, E), 2 * n, Marks(v, {Quote}))
<1>1. /\ m \in Nat /\ m = Len(v) /\ n \in Nat /\ Clear(v)
      /\ R \in [1 .. n + 1 -> Nat] /\ E \in [1 .. n -> Nat]
      /\ \A i, k \in 1 .. n + 1 : i < k => R[i] < R[k]
  BY Zenon DEF IsList
<1>2. PICK f : f = QuotesOf(n, R, E)
  OBVIOUS
<1>3. AreQuotes(f, n, R, E)
  BY <1>1, <1>2, QuotesAt
<1>4. \A i \in 1 .. 2 * n : \E j \in 1 .. n : (i = 2 * j - 1 /\ f[i] = R[j]) \/ (i = 2 * j /\ f[i] = E[j])
  BY <1>3, Zenon DEF AreQuotes
<1>5. \A j \in 1 .. n : j \in 1 .. n + 1 /\ j + 1 \in 1 .. n + 1 /\ R[j] \in Nat /\ E[j] \in Nat /\ R[j + 1] \in Nat
  BY <1>1
<1>6. \A i \in 1 .. 2 * n : f[i] \in Nat
  BY <1>4, <1>5, Zenon
<1>7. \A j \in 1 .. n : R[j] < E[j] /\ E[j] < R[j + 1]
  <2> SUFFICES ASSUME NEW j \in 1 .. n
               PROVE  R[j] < E[j] /\ E[j] < R[j + 1]
    OBVIOUS
  <2>1. PICK r, e, b : r = R[j] /\ e = E[j] /\ b = R[j + 1]
    OBVIOUS
  <2>2. IsField(v, n, R, E, j, r, e)
    BY <2>1, FieldIs, Zenon
  <2>3. r \in Nat /\ e \in Nat /\ r + 1 < e /\ (b = e + 1 \/ b = e + 2)
    BY <2>1, <2>2, Zenon DEF IsField
  <2>4. r < e /\ e < b
    BY <2>3
  <2> QED
    BY <2>1, <2>4
<1>8. ASSUME NEW i \in 1 .. 2 * n, NEW k \in 1 .. 2 * n, i < k
      PROVE  f[i] < f[k]
  <2>1. PICK a \in 1 .. n : (i = 2 * a - 1 /\ f[i] = R[a]) \/ (i = 2 * a /\ f[i] = E[a])
    BY <1>4
  <2>2. PICK b \in 1 .. n : (k = 2 * b - 1 /\ f[k] = R[b]) \/ (k = 2 * b /\ f[k] = E[b])
    BY <1>4
  <2>3. a < b \/ (a = b /\ i = 2 * a - 1 /\ k = 2 * b)
    <3>1. (i = 2 * a - 1 \/ i = 2 * a) /\ (k = 2 * b - 1 \/ k = 2 * b)
      BY <2>1, <2>2
    <3> QED
      BY <1>8, <3>1
  <2>4. CASE a < b
    <3>1. f[i] <= E[a]
      BY <1>5, <1>7, <2>1
    <3>2. R[b] <= f[k]
      BY <1>5, <1>7, <2>2
    <3>3. R[a + 1] <= R[b]
      <4>1. a + 1 = b \/ a + 1 < b
        BY <2>4
      <4> QED
        <5>1. a + 1 \in 1 .. n + 1 /\ b \in 1 .. n + 1 /\ R[a + 1] \in Nat /\ R[b] \in Nat
          BY <1>5
        <5>2. R[a + 1] = R[b] \/ R[a + 1] < R[b]
          BY <1>1, <4>1, <5>1, Zenon
        <5> QED
          BY <5>1, <5>2
    <3>4. E[a] < R[a + 1]
      BY <1>7
    <3> QED
      BY <1>5, <1>6, <3>1, <3>2, <3>3, <3>4
  <2>5. CASE a = b /\ i = 2 * a - 1 /\ k = 2 * b
    <3>1. i # 2 * a /\ k # 2 * b - 1
      BY <2>5
    <3>2. f[i] = R[a] /\ f[k] = E[a]
      BY <2>1, <2>2, <2>5, <3>1
    <3> QED
      BY <1>7, <3>2
  <2> QED
    BY <2>3, <2>4, <2>5
<1>9. f \in [1 .. 2 * n -> Nat]
  <2>1. f = [i \in 1 .. 2 * n |-> f[i]]
    <3> DEFINE Nth(i) == IF i % 2 = 1 THEN R[(i + 1) \div 2] ELSE E[i \div 2]
    <3>1. f = [i \in 1 .. 2 * n |-> Nth(i)]
      BY <1>2 DEF QuotesOf
    <3> HIDE DEF Nth
    <3> QED
      BY <3>1
  <2> QED
    BY <1>6, <2>1
<1>10. Marks(v, {Quote}) = {f[i] : i \in 1 .. 2 * n}
  <2>1. Marks(v, {Quote}) = {x \in 1 .. m : v[x] = Quote}
    BY <1>1, MarksIs
  <2>2. ASSUME NEW x \in 1 .. m, v[x] = Quote
        PROVE  \E i \in 1 .. 2 * n : x = f[i]
    <3>1. "[" # Quote /\ "]" # Quote /\ "," # Quote
      BY DEF Quote
    <3>2. PICK j \in 1 .. n : x = R[j] \/ x = E[j]
      <4>1. IsPlace(v, m, n, R, E, x)
        BY PlaceIs
      <4> QED
        BY <2>2, <3>1, <4>1 DEF IsPlace
    <3>3. f[2 * j - 1] = R[j] /\ f[2 * j] = E[j]
      BY <1>3, Zenon DEF AreQuotes
    <3>4. 2 * j - 1 \in 1 .. 2 * n /\ 2 * j \in 1 .. 2 * n
      BY <1>1, Doubles
    <3> QED
      BY <3>2, <3>3, <3>4, Zenon
  <2>3. ASSUME NEW i \in 1 .. 2 * n
        PROVE  f[i] \in 1 .. m /\ v[f[i]] = Quote
    <3>1. PICK j \in 1 .. n : f[i] = R[j] \/ f[i] = E[j]
      BY <1>4
    <3>2. PICK r, e : r = R[j] /\ e = E[j]
      OBVIOUS
    <3>3. IsField(v, n, R, E, j, r, e)
      BY <3>2, FieldIs, Zenon
    <3>4. r \in Nat /\ e \in Nat /\ 2 <= r /\ r + 1 < e /\ e < Len(v) /\ v[r] = Quote /\ v[e] = Quote
      BY <3>3, Zenon DEF IsField
    <3>5. r \in 1 .. m /\ e \in 1 .. m
      BY <1>1, <3>4
    <3> QED
      BY <3>1, <3>2, <3>4, <3>5, Zenon
  <2>4. {x \in 1 .. m : v[x] = Quote} = {f[i] : i \in 1 .. 2 * n}
    BY <2>2, <2>3
  <2> QED
    BY <2>1, <2>4
<1>11. 2 * n \in Nat
  BY <1>1
<1>12. Lists(f, 2 * n, Marks(v, {Quote}))
  BY <1>8, <1>9, <1>10, <1>11 DEF Lists, Rises
<1> QED
  BY <1>2, <1>12

\* How many quotes there are before a position.
LEMMA BeforeIs ==
  ASSUME NEW v, NEW m, NEW n, NEW R, NEW E, IsList(v, m, n, R, E), NEW j \in 1 .. n, NEW x \in Nat
  PROVE  /\ R[j] <= x /\ x < E[j] => Before(x, Marks(v, {Quote})) = 2 * j - 1
         /\ E[j] <= x /\ (j # n => x < R[j + 1]) => Before(x, Marks(v, {Quote})) = 2 * j
<1>1. n \in Nat
  BY Zenon DEF IsList
<1>2. PICK f : f = QuotesOf(n, R, E)
  OBVIOUS
<1>3. AreQuotes(f, n, R, E) /\ Lists(f, 2 * n, Marks(v, {Quote}))
  BY <1>1, <1>2, QuotesAt, QuotesListed
<1>4. \A k \in 1 .. n : f[2 * k - 1] = R[k] /\ f[2 * k] = E[k]
  BY <1>3, Zenon DEF AreQuotes
<1>5. CASE R[j] <= x /\ x < E[j]
  <2>1. PICK k \in Nat : k = 2 * j - 1 /\ k + 1 = 2 * j /\ k # 2 * n /\ k # 0 /\ k <= 2 * n
    <3>1. 2 * j - 1 \in Nat /\ 2 * j - 1 + 1 = 2 * j /\ 2 * j - 1 # 2 * n /\ 2 * j - 1 # 0 /\ 2 * j - 1 <= 2 * n
      BY <1>1
    <3> QED
      BY <3>1
  <2>2. k \in 0 .. 2 * n /\ f[k] <= x /\ x < f[k + 1]
    BY <1>1, <1>4, <1>5, <2>1
  <2>3. Before(x, Marks(v, {Quote})) = k
    BY <1>3, <2>2, CountUpto DEF Before
  <2>4. x < E[j] /\ E[j] \in Nat
    BY <1>5, Zenon DEF IsList
  <2>5. ~(E[j] <= x)
    BY <2>4
  <2> QED
    BY <2>1, <2>3, <2>5
<1>6. CASE E[j] <= x /\ (j # n => x < R[j + 1])
  <2>1. PICK k \in Nat : k = 2 * j /\ k # 0 /\ k <= 2 * n /\ (k = 2 * n <=> j = n)
    <3>1. 2 * j \in Nat /\ 2 * j # 0 /\ 2 * j <= 2 * n /\ (2 * j = 2 * n <=> j = n)
      BY <1>1
    <3> QED
      BY <3>1
  <2>2. k \in 0 .. 2 * n /\ f[k] <= x
    BY <1>1, <1>4, <1>6, <2>1
  <2>3. k # 2 * n => x < f[k + 1]
    <3>1. j # n => j + 1 \in 1 .. n /\ k + 1 = 2 * (j + 1) - 1
      BY <1>1, <2>1
    <3>2. j # n => f[k + 1] = R[j + 1]
      BY <1>4, <3>1
    <3> QED
      BY <1>6, <2>1, <3>2
  <2>4. Before(x, Marks(v, {Quote})) = k
    <3>1. PICK l : l = 2 * n
      OBVIOUS
    <3>2. Lists(f, l, Marks(v, {Quote})) /\ k \in 0 .. l /\ (k # 0 => f[k] <= x) /\ (k # l => x < f[k + 1])
      BY <1>3, <2>2, <2>3, <3>1, Zenon
    <3>3. Cardinality({y \in Marks(v, {Quote}) : y <= x}) = k
      BY <3>2, CountUpto
    <3> QED
      BY <3>3, Zenon DEF Before
  <2>5. E[j] \in Nat
    BY Zenon DEF IsList
  <2>6. ~(x < E[j])
    BY <1>6, <2>5
  <2> QED
    BY <2>1, <2>4, <2>6
<1> QED
  BY <1>5, <1>6

\* The commas between the elements.
CommasOf(n, E) == [j \in 1 .. n - 1 |-> E[j] + 1]

\* They are those that are not between two quotes.
LEMMA CommasListed ==
  ASSUME NEW v, NEW m, NEW n, NEW R, NEW E, IsList(v, m, n, R, E), NEW l \in Nat,
         n = 0 => l = 0, n # 0 => l = n - 1
  PROVE  Lists(CommasOf(n, E), l, Commas(v, Marks(v, {Quote})))
<1>1. /\ m \in Nat /\ m = Len(v) /\ n \in Nat /\ Clear(v) /\ E \in [1 .. n -> Nat]
  BY Zenon DEF IsList
<1>2. 1 .. n - 1 = 1 .. l /\ \A j \in 1 .. l : j \in 1 .. n /\ j + 1 \in 1 .. n /\ j # n
  BY <1>1
<1> DEFINE g == [j \in 1 .. l |-> E[j] + 1]
<1>3. CommasOf(n, E) = g
  BY <1>2 DEF CommasOf
<1>4. ASSUME NEW j \in 1 .. l
      PROVE  /\ E[j] \in Nat /\ E[j] + 1 \in 1 .. m /\ v[E[j] + 1] = ","
             /\ Before(E[j] + 1, Marks(v, {Quote})) = 2 * j
             /\ R[j + 1] = E[j] + 2
  <2>1. PICK r, e : r = R[j] /\ e = E[j]
    OBVIOUS
  <2>2. IsField(v, n, R, E, j, r, e) /\ j # n /\ j \in 1 .. n
    BY <1>2, <2>1, FieldIs, Zenon
  <2>3. e \in Nat /\ R[j + 1] = e + 2 /\ v[e + 1] = "," /\ e + 2 < Len(v)
    BY <2>2, Zenon DEF IsField
  <2>4. PICK y \in Nat : y = e + 1 /\ e <= y /\ y < e + 2
    <3>1. e \in Nat
      BY <2>3
    <3>2. e + 1 \in Nat /\ e <= e + 1 /\ e + 1 < e + 2
      BY <3>1
    <3> QED
      BY <3>2
  <2>5. Before(y, Marks(v, {Quote})) = 2 * j
    <3>1. E[j] <= y /\ y < R[j + 1]
      BY <2>1, <2>3, <2>4
    <3> QED
      BY <2>2, <3>1, BeforeIs
  <2>6. e + 1 \in 1 .. m
    <3>1. e \in Nat /\ m \in Nat /\ e + 2 < m
      BY <1>1, <2>3, Zenon
    <3> QED
      BY <3>1
  <2> QED
    BY <2>1, <2>3, <2>4, <2>5, <2>6, Zenon
<1>5. \A i, j \in 1 .. l : i < j => E[i] + 1 < E[j] + 1
  <2> SUFFICES ASSUME NEW i \in 1 .. l, NEW j \in 1 .. l, i < j
               PROVE  E[i] + 1 < E[j] + 1
    OBVIOUS
  <2>1. PICK a \in Nat, b \in Nat, c \in Nat, d \in Nat : a = E[i] /\ b = R[i + 1] /\ c = R[j] /\ d = E[j]
    <3>1. E[i] \in Nat /\ E[j] \in Nat /\ R[i + 1] \in Nat /\ R[j] \in Nat
      <4>1. R \in [1 .. n + 1 -> Nat]
        BY Zenon DEF IsList
      <4>2. i + 1 \in 1 .. n + 1 /\ j \in 1 .. n + 1
        BY <1>1, <1>2
      <4> QED
        BY <1>4, <4>1, <4>2
    <3> QED
      BY <3>1
  <2>2. b = a + 2
    BY <1>4, <2>1, Zenon
  <2>3. b <= c
    <3>1. \A x, y \in 1 .. n + 1 : x < y => R[x] < R[y]
      BY Zenon DEF IsList
    <3>2. i + 1 \in 1 .. n + 1 /\ j \in 1 .. n + 1 /\ (i + 1 = j \/ i + 1 < j)
      BY <1>1, <1>2
    <3>3. b = c \/ b < c
      BY <2>1, <3>1, <3>2, Zenon
    <3> QED
      BY <3>3
  <2>4. c < d
    <3>1. IsField(v, n, R, E, j, c, d)
      BY <1>2, <2>1, FieldIs, Zenon
    <3>2. c + 1 < d
      BY <3>1, Zenon DEF IsField
    <3> QED
      BY <3>2
  <2>5. a + 1 < d + 1
    BY <2>2, <2>3, <2>4
  <2> QED
    BY <2>1, <2>5, Zenon
<1>6. Rises(g, l)
  <2>1. g \in [1 .. l -> Nat]
    <3>1. \A j \in 1 .. l : E[j] \in Nat
      BY <1>4
    <3>2. \A j \in 1 .. l : E[j] + 1 \in Nat
      BY <3>1
    <3> QED
      BY <3>2
  <2>2. \A i \in 1 .. l : g[i] = E[i] + 1
    OBVIOUS
  <2> HIDE DEF g
  <2> QED
    BY <1>5, <2>1, <2>2 DEF Rises
<1>7. ASSUME NEW x \in 1 .. m, v[x] = ",", Before(x, Marks(v, {Quote})) % 2 = 0
      PROVE  \E j \in 1 .. l : x = E[j] + 1
  <2>1. "[" # "," /\ "]" # "," /\ Quote # ","
    BY DEF Quote
  <2>2. IsPlace(v, m, n, R, E, x)
    BY PlaceIs
  <2>3. \/ \E j \in 1 .. n : R[j] < x /\ x < E[j]
        \/ \E j \in 1 .. n : j # n /\ x = E[j] + 1
    BY <1>7, <2>1, <2>2 DEF IsPlace
  <2>4. ~(\E j \in 1 .. n : R[j] < x /\ x < E[j])
    <3> SUFFICES ASSUME NEW j \in 1 .. n, R[j] < x, x < E[j]
                 PROVE  FALSE
      OBVIOUS
    <3>1. R[j] \in Nat /\ x \in Nat
      <4>1. R \in [1 .. n + 1 -> Nat]
        BY Zenon DEF IsList
      <4> QED
        BY <1>1, <4>1
    <3>2. R[j] <= x
      BY <3>1
    <3>3. Before(x, Marks(v, {Quote})) = 2 * j - 1
      BY <3>1, <3>2, BeforeIs
    <3>4. (2 * j - 1) % 2 # 0
      OBVIOUS
    <3> QED
      BY <1>7, <3>3, <3>4
  <2>5. PICK j \in 1 .. n : j # n /\ x = E[j] + 1
    BY <2>3, <2>4
  <2>6. j \in 1 .. l
    BY <1>1, <2>5
  <2> QED
    BY <2>5, <2>6
<1>8. Commas(v, Marks(v, {Quote})) = {g[j] : j \in 1 .. l}
  <2>1. Marks(v, {","}) = {x \in 1 .. m : v[x] = ","}
    <3>1. PICK chars : chars = {","}
      OBVIOUS
    <3>2. Marks(v, chars) = {x \in 1 .. m : v[x] \in chars}
      BY <1>1, MarksIs
    <3>3. \A x \in 1 .. m : v[x] \in chars <=> v[x] = ","
      BY <3>1
    <3> QED
      BY <3>1, <3>2, <3>3
  <2>2. PICK Q : Q = Marks(v, {Quote})
    OBVIOUS
  <2>3. Commas(v, Q) = {x \in 1 .. m : v[x] = "," /\ Before(x, Q) % 2 = 0}
    <3>1. Commas(v, Q) = {x \in Marks(v, {","}) : Before(x, Q) % 2 = 0}
      BY DEF Commas
    <3> QED
      BY <2>1, <3>1
  <2>4. \A j \in 1 .. l : Before(E[j] + 1, Q) % 2 = 0
    <3> SUFFICES ASSUME NEW j \in 1 .. l
                 PROVE  Before(E[j] + 1, Q) % 2 = 0
      OBVIOUS
    <3>1. Before(E[j] + 1, Q) = 2 * j
      BY <1>4, <2>2, Zenon
    <3>2. (2 * j) % 2 = 0
      OBVIOUS
    <3> QED
      BY <3>1, <3>2
  <2>5. \A x \in 1 .. m : v[x] = "," /\ Before(x, Q) % 2 = 0 => \E j \in 1 .. l : x = E[j] + 1
    BY <1>7, <2>2
  <2>6. \A j \in 1 .. l : E[j] + 1 \in 1 .. m /\ v[E[j] + 1] = ","
    BY <1>4
  <2>7. {x \in 1 .. m : v[x] = "," /\ Before(x, Q) % 2 = 0} = {g[j] : j \in 1 .. l}
    BY <2>4, <2>5, <2>6
  <2> QED
    BY <2>2, <2>3, <2>7, Zenon
<1> HIDE DEF g
<1>9. Lists(g, l, Commas(v, Marks(v, {Quote})))
  BY <1>6, <1>8 DEF Lists
<1> QED
  BY <1>3, <1>9

\* Two positions are two.
LEMMA TwoAre ==
  ASSUME NEW a, NEW b, a # b
  PROVE  Cardinality({a, b}) = 2
<1>1. IsFiniteSet({a}) /\ Cardinality({a}) = 1
  BY FS_Singleton, Zenon
<1>2. Cardinality({a} \cup {b}) = IF b \in {a} THEN Cardinality({a}) ELSE Cardinality({a}) + 1
  BY <1>1, FS_AddElement, Zenon
<1>3. {a} \cup {b} = {a, b} /\ b \notin {a}
  OBVIOUS
<1>4. Cardinality({a, b}) = Cardinality({a}) + 1
  BY <1>2, <1>3, Zenon
<1> QED
  BY <1>1, <1>4

\* A scalar looks right.
LEMMA ScalarLooksRight ==
  ASSUME NEW s, NEW n, NEW v, NEW c, IsRow(s, n, v, c),
         v[1] = Quote, v[n - 2] = Quote, \A i \in 2 .. n - 3 : v[i] # Quote
  PROVE  LooksRight(s)
<1>1. RawRight(s) = v /\ Clear(v) /\ Len(v) = n - 2
  BY RawRightIs
<1>2. n \in Nat /\ 4 <= n
  BY Zenon DEF IsRow
<1>3. basic_lint(s)
  <2>1. Enclosed(v, n - 2)
    BY DEF Enclosed
  <2> QED
    BY <2>1, BasicIs
<1>4. ~is_array(s)
  <2>1. v[1] # "["
    BY DEF Quote
  <2> QED
    BY <1>1, <2>1, Zenon DEF is_array
<1>5. scalar_lint(s)
  <2>1. Marks(v, {Quote}) = {i \in 1 .. n - 2 : v[i] = Quote}
    <3>1. Marks(v, {Quote}) = {i \in 1 .. n - 2 : v[i] \in {Quote}}
      BY <1>1, MarksIs
    <3> QED
      BY <3>1
  <2>2. \A i \in 1 .. n - 2 : i = 1 \/ i = n - 2 \/ i \in 2 .. n - 3
    BY <1>2
  <2>3. 1 \in 1 .. n - 2 /\ n - 2 \in 1 .. n - 2 /\ 1 # n - 2
    BY <1>2
  <2>4. {i \in 1 .. n - 2 : v[i] = Quote} = {1, n - 2}
    BY <2>2, <2>3
  <2> QED
    <3>1. Cardinality({1, n - 2}) = 2
      BY <2>3, TwoAre
    <3> QED
      BY <1>1, <2>1, <2>4, <3>1, Zenon DEF scalar_lint
<1> QED
  BY <1>3, <1>4, <1>5, Zenon DEF LooksRight

\* An array looks right.
LEMMA ArrayLooksRight ==
  ASSUME NEW s, NEW k, NEW v, NEW c, IsRow(s, k, v, c),
         NEW m, NEW n, NEW R, NEW E, IsList(v, m, n, R, E)
  PROVE  LooksRight(s)
<1>1. RawRight(s) = v /\ Clear(v) /\ Len(v) = k - 2
  BY RawRightIs
<1>2. k \in Nat /\ 4 <= k
  BY Zenon DEF IsRow
<1>3. m \in Nat /\ m = Len(v) /\ n \in Nat /\ v[1] = "[" /\ v[m] = "]" /\ R[1] = 2
  BY Zenon DEF IsList
<1>4. basic_lint(s)
  <2>1. Enclosed(v, k - 2)
    BY <1>1, <1>3 DEF Enclosed
  <2> QED
    BY <2>1, BasicIs
<1>5. is_array(s)
  <2>1. v # <<>>
    <3>1. Len(v) # 0
      BY <1>1, <1>2
    <3> QED
      BY <3>1
  <2> QED
    BY <1>1, <1>3, <2>1, Zenon DEF is_array
<1>6. PICK Q : Q = Marks(v, {Quote})
  OBVIOUS
<1>7. PICK f : f = QuotesOf(n, R, E)
  OBVIOUS
<1>8. AreQuotes(f, n, R, E) /\ Lists(f, 2 * n, Q)
  BY <1>3, <1>6, <1>7, QuotesAt, QuotesListed
<1>9. Cardinality(Q) = 2 * n
  BY <1>8, CountIs
<1>10. Cardinality(Marks(v, {"[", "]"})) = 2
  <2>1. Marks(v, {"[", "]"}) = {i \in 1 .. m : v[i] \in {"[", "]"}}
    BY <1>1, <1>3, MarksIs
  <2>2. 1 \in 1 .. m /\ m \in 1 .. m /\ 1 # m
    BY <1>1, <1>2, <1>3
  <2>3. ASSUME NEW i \in 1 .. m, v[i] \in {"[", "]"}
        PROVE  i = 1 \/ i = m
    <3>1. IsPlace(v, m, n, R, E, i)
      BY PlaceIs
    <3>2. Quote \notin {"[", "]"} /\ "," \notin {"[", "]"}
      BY DEF Quote
    <3> QED
      BY <2>3, <3>1, <3>2 DEF IsPlace
  <2>4. {i \in 1 .. m : v[i] \in {"[", "]"}} = {1, m}
    BY <1>3, <2>2, <2>3
  <2> QED
    <3>1. Cardinality({1, m}) = 2
      BY <2>2, TwoAre
    <3> QED
      BY <2>1, <2>4, <3>1, Zenon
<1>11. Cardinality(Q) % 2 = 0
  BY <1>3, <1>9
<1>12. PICK p \in Nat : p = Pairs(Q) /\ (n = 0 => p = 1) /\ (n # 0 => p = n)
  <2>1. Pairs(Q) = IF Q = {} THEN 1 ELSE Cardinality(Q) \div 2
    BY DEF Pairs
  <2>2. Q = {} <=> n = 0
    <3>1. IsFiniteSet(Q)
      BY <1>8, CountIs
    <3>2. Cardinality(Q) = 0 <=> Q = {}
      BY <3>1, FS_EmptySet
    <3> QED
      BY <1>3, <1>9, <3>2
  <2>3. Cardinality(Q) \div 2 = n
    BY <1>3, <1>9
  <2> QED
    BY <1>3, <2>1, <2>2, <2>3
<1>13. Cardinality(Commas(v, Q)) = Pairs(Q) - 1
  <2>1. PICK l \in Nat : l = p - 1 /\ (n = 0 => l = 0) /\ (n # 0 => l = n - 1)
    <3>1. p - 1 \in Nat /\ (n = 0 => p - 1 = 0) /\ (n # 0 => p - 1 = n - 1)
      BY <1>3, <1>12
    <3> QED
      BY <3>1
  <2>2. Lists(CommasOf(n, E), l, Commas(v, Q))
    BY <1>6, <2>1, CommasListed
  <2>3. Cardinality(Commas(v, Q)) = l
    BY <2>2, CountIs
  <2> QED
    BY <1>12, <2>1, <2>3
<1>14. n # 0 => v[2] = Quote
  <2>1. n # 0 => 1 \in 1 .. n
    BY <1>3
  <2>2. n # 0 => v[R[1]] = Quote
    BY <2>1, Zenon DEF IsList, Elements
  <2> QED
    BY <1>3, <2>2
<1>15. ASSUME NEW i \in Q, Before(i, Q) % 2 = 1
       PROVE  i + 1 \notin Q
  <2>1. PICK z \in 1 .. 2 * n : i = f[z]
    BY <1>8 DEF Lists
  <2>2. PICK j \in 1 .. n : i = R[j] \/ i = E[j]
    BY <1>8, <2>1 DEF AreQuotes
  <2>3. PICK r, e : r = R[j] /\ e = E[j]
    OBVIOUS
  <2>4. IsField(v, n, R, E, j, r, e)
    BY <2>3, FieldIs, Zenon
  <2>5. /\ r \in Nat /\ e \in Nat /\ r + 1 < e
        /\ \A x \in Nat : r < x /\ x < e => v[x] \notin {Quote, "[", "]"}
    BY <2>4, Zenon DEF IsField
  <2>6. CASE i = e
    <3>1. j # n => e < R[j + 1]
      <4>1. j # n => R[j + 1] = e + 2
        BY <2>4, Zenon DEF IsField
      <4>2. e \in Nat
        BY <2>5
      <4> QED
        BY <4>1, <4>2
    <3>2. E[j] <= e /\ e \in Nat
      BY <2>3, <2>5
    <3>3. Before(i, Q) = 2 * j
      BY <1>6, <2>6, <3>1, <3>2, BeforeIs
    <3>4. (2 * j) % 2 # 1
      OBVIOUS
    <3> QED
      BY <1>15, <3>3, <3>4
  <2>7. CASE i = r
    <3>1. r + 1 \in Nat /\ r < r + 1 /\ r + 1 < e
      <4>1. r \in Nat /\ r + 1 < e
        BY <2>5
      <4> QED
        BY <4>1
    <3>2. v[r + 1] \notin {Quote, "[", "]"}
      BY <2>5, <3>1, Zenon
    <3>3. Q = {x \in 1 .. m : v[x] \in {Quote}}
      BY <1>1, <1>3, <1>6, MarksIs
    <3> QED
      BY <2>7, <3>2, <3>3
  <2> QED
    BY <2>2, <2>3, <2>6, <2>7
<1>16. array_lint(s)
  <2>1. Pairs(Q) > 1 => v[2] = Quote
    BY <1>12, <1>14
  <2> QED
    BY <1>1, <1>6, <1>10, <1>11, <1>13, <1>15, <2>1, Zenon DEF array_lint
<1> QED
  BY <1>4, <1>5, <1>16, Zenon DEF LooksRight

-----------------------------------------------------------------------------
(* Element by element *)

\* What an array is read as from k characters before its end, when each element is
\* followed by fewer characters than it.
IsReadFrom(h, L, C, val, rest) ==
  h = [k \in 0 .. L |-> IF k \in C THEN <<val[k]>> \o h[rest[k]] ELSE <<>>]

\* There is such a reading.
LEMMA ReadingExists ==
  ASSUME NEW L \in Nat, NEW C, NEW val, NEW rest, \A k \in 0 .. L : k \in C => rest[k] \in 0 .. k - 1
  PROVE  \E h : IsReadFrom(h, L, C, val, rest)
<1> DEFINE Upto(m) == \E h : IsReadFrom(h, m, C, val, rest)
           G == {m \in 1 .. L : Upto(m)}
<1>1. Upto(0)
  <2> DEFINE h == [k \in 0 .. 0 |-> <<>>]
  <2>1. 0 \notin C
    <3>1. 0 \in C => rest[0] \in 0 .. 0 - 1
      OBVIOUS
    <3>2. 0 .. 0 - 1 = {}
      OBVIOUS
    <3> QED
      BY <3>1, <3>2
  <2>2. \A k \in 0 .. 0 : k \notin C
    BY <2>1
  <2>3. IsReadFrom(h, 0, C, val, rest)
    BY <2>2 DEF IsReadFrom
  <2> QED
    BY <2>3
<1>2. ASSUME NEW m \in 1 .. L, m = 1 \/ m - 1 \in G
      PROVE  m \in G
  <2>1. PICK l \in Nat : l = m - 1 /\ l + 1 = m
    <3>1. m - 1 \in Nat /\ (m - 1) + 1 = m
      OBVIOUS
    <3> QED
      BY <3>1
  <2>2. Upto(l)
    <3>1. CASE m = 1
      <4>1. l = 0
        BY <2>1, <3>1
      <4> HIDE DEF Upto
      <4> QED
        BY <1>1, <4>1
    <3>2. CASE m # 1
      <4> HIDE DEF Upto
      <4> QED
        BY <1>2, <2>1, <3>2
    <3> QED
      BY <3>1, <3>2
  <2>3. PICK h : IsReadFrom(h, l, C, val, rest)
    BY <2>2
  <2> DEFINE Entry(g, k) == IF k \in C THEN <<val[k]>> \o g[rest[k]] ELSE <<>>
  <2>4. h = [k \in 0 .. l |-> Entry(h, k)]
    BY <2>3 DEF IsReadFrom
  <2> DEFINE g == [k \in 0 .. m |-> IF k = m THEN Entry(h, m) ELSE h[k]]
  <2>5. \A k \in 0 .. m : k = m \/ k \in 0 .. l
    BY <2>1
  <2>6. \A k \in 0 .. l : k \in 0 .. m /\ k # m
    BY <2>1
  <2>7. \A k \in 0 .. m : k \in C => rest[k] \in 0 .. l
    <3>1. \A k \in 0 .. m : k \in 0 .. L
      BY <2>1
    <3>2. \A k \in 0 .. m : 0 .. k - 1 \subseteq 0 .. l
      BY <2>1
    <3> QED
      BY <3>1, <3>2
  <2>8. \A k \in 0 .. l : g[k] = h[k]
    <3> HIDE DEF Entry
    <3> QED
      BY <2>6
  <2>9. g[m] = Entry(h, m)
    <3>1. m \in 0 .. m
      OBVIOUS
    <3> HIDE DEF Entry
    <3> QED
      BY <3>1
  <2>10. \A k \in 0 .. m : Entry(g, k) = Entry(h, k)
    <3> HIDE DEF g
    <3> QED
      BY <2>7, <2>8
  <2>11. \A k \in 0 .. m : g[k] = Entry(g, k)
    <3>1. \A k \in 0 .. l : h[k] = Entry(h, k)
      <4> HIDE DEF Entry
      <4> QED
        BY <2>4
    <3> HIDE DEF g, Entry
    <3> QED
      BY <2>5, <2>6, <2>8, <2>9, <2>10, <3>1
  <2>12. g = [k \in 0 .. m |-> Entry(g, k)]
    <3>1. g = [k \in 0 .. m |-> g[k]]
      <4> HIDE DEF Entry
      <4> QED
        OBVIOUS
    <3> HIDE DEF g, Entry
    <3> QED
      BY <2>11, <3>1
  <2>13. IsReadFrom(g, m, C, val, rest)
    <3> HIDE DEF g
    <3> QED
      BY <2>12 DEF IsReadFrom
  <2>14. Upto(m)
    <3> HIDE DEF g
    <3> QED
      BY <2>13
  <2> HIDE DEF Upto
  <2> QED
    BY <2>14
<1>3. CASE L = 0
  BY <1>1, <1>3
<1>4. CASE L # 0
  <2>1. L \in 1 .. L
    BY <1>4
  <2>2. \A m \in 1 .. L : m \in G
    <3> HIDE DEF G
    <3> QED
      BY <1>2, Upward
  <2>3. Upto(L)
    <3> HIDE DEF Upto
    <3> QED
      BY <2>1, <2>2
  <2> QED
    BY <2>3
<1> QED
  BY <1>3, <1>4

\* The greatest of some positions is one of them.
LEMMA MaxExists ==
  ASSUME NEW k \in Nat, NEW S, S \subseteq 1 .. k, S # {}
  PROVE  Max(S) \in S
<1>1. PICK n, f : Lists(f, n, S)
  BY ListExists DEF HasList
<1>2. n \in Nat /\ f \in [1 .. n -> Nat] /\ S = {f[i] : i \in 1 .. n}
  BY <1>1 DEF Lists, Rises
<1>3. n \in 1 .. n
  <2>1. n # 0
    BY <1>2
  <2> QED
    BY <1>2, <2>1
<1>4. \A x \in S : x <= f[n]
  <2> SUFFICES ASSUME NEW i \in 1 .. n
               PROVE  f[i] <= f[n]
    BY <1>2
  <2>1. i = n \/ i < n
    BY <1>2
  <2>2. i = n \/ f[i] < f[n]
    BY <1>1, <1>3, <2>1 DEF Lists, Rises
  <2> QED
    BY <1>2, <1>3, <2>2
<1>5. f[n] \in S /\ S \subseteq Nat
  BY <1>2, <1>3
<1>6. Max(S) = f[n]
  BY <1>4, <1>5, MaxIs
<1> QED
  BY <1>5, <1>6

\* Without characters there is no element.
LEMMA NothingIsRead ==
  ASSUME NEW s, Len(s) = 0
  PROVE  ~has_current_val(s)
<1>1. QuoteIn(s) = 1
  BY DEF QuoteIn, First
<1>2. ~(1 <= 0)
  OBVIOUS
<1> QED
  BY <1>1, <1>2, Zenon DEF has_current_val

\* The positions of quotes in a text are listed.
LEMMA QuotesHaveList ==
  ASSUME NEW s, Clear(s)
  PROVE  /\ Marks(s, {Quote}) = {i \in 1 .. Len(s) : s[i] = Quote}
         /\ \E n, f : Lists(f, n, Marks(s, {Quote}))
<1>1. Len(s) \in Nat
  BY DEF Clear
<1>2. Marks(s, {Quote}) = {i \in 1 .. Len(s) : s[i] = Quote}
  <2>1. PICK chars : chars = {Quote}
    OBVIOUS
  <2>2. PICK m \in Nat : m = Len(s)
    BY <1>1
  <2>3. Marks(s, chars) = {i \in 1 .. m : s[i] \in chars}
    BY <2>2, MarksIs
  <2>4. \A i \in 1 .. m : s[i] \in chars <=> s[i] = Quote
    BY <2>1
  <2>5. Marks(s, chars) = {i \in 1 .. m : s[i] = Quote}
    BY <2>3, <2>4
  <2> QED
    BY <2>1, <2>2, <2>5, Zenon
<1>3. Marks(s, {Quote}) \subseteq 1 .. Len(s)
  BY <1>2
<1> QED
  BY <1>1, <1>2, <1>3, ListExists DEF HasList

\* Where the next comma is looked for.
Between(s, q) ==
  LET last == IF Len(q) < 3 THEN Len(s) ELSE q[3] - 1
  IN  {i \in q[2] .. last : s[i] # Slash /\ ~Escaped(s, 1, i)}
CommaIn(s, from) == First(from, Len(s), LAMBDA i : s[i] = ",")
EndsIn(s) == First(1, Len(s), LAMBDA i : i % 2 = 1 /\ s[i] # " ")

\* What next_val() returns.
LEMMA NextValIs ==
  ASSUME NEW s, NEW q, q = InOrder(Marks(s, {Quote})),
         NEW comma, comma = CommaIn(s, Max(Between(s, q)))
  PROVE  next_val(s) = IF Len(q) < 2 \/ (EndsIn(s) <= Len(s) /\ s[EndsIn(s)] = "]") \/ comma > Len(s)
                       THEN <<>> ELSE SubSeq(s, comma + 1, Len(s))
BY Zenon DEF next_val, Between, CommaIn, EndsIn

\* A list is as long as it says.
LEMMA LenOfList ==
  ASSUME NEW f, NEW n, NEW S, Lists(f, n, S)
  PROVE  Len(f) = n
<1>1. n \in Nat /\ f \in [1 .. n -> Nat]
  BY DEF Lists, Rises
<1>2. f \in Seq(Nat) /\ DOMAIN f = 1 .. n
  BY <1>1
<1> QED
  BY <1>1, <1>2

\* Behind an element there is less than before.
LEMMA ShorterIs ==
  ASSUME NEW s, Clear(s), has_current_val(s)
  PROVE  Len(next_val(s)) \in 0 .. Len(s) - 1
<1>1. PICK l \in Nat : l = Len(s)
  BY DEF Clear
<1>2. l # 0
  BY <1>1, NothingIsRead
<1>3. Marks(s, {Quote}) = {i \in 1 .. l : s[i] = Quote}
  BY <1>1, QuotesHaveList
<1>4. PICK n, f : Lists(f, n, Marks(s, {Quote}))
  BY QuotesHaveList
<1>5. n \in Nat /\ f \in [1 .. n -> Nat] /\ \A i \in 1 .. n : f[i] \in Marks(s, {Quote})
  BY <1>4 DEF Lists, Rises
<1>6. InOrder(Marks(s, {Quote})) = f /\ Len(f) = n
  BY <1>4, InOrderIs, LenOfList
<1>7. PICK comma : comma = CommaIn(s, Max(Between(s, f)))
  OBVIOUS
<1>8. next_val(s) = IF n < 2 \/ (EndsIn(s) <= Len(s) /\ s[EndsIn(s)] = "]") \/ comma > l
                    THEN <<>> ELSE SubSeq(s, comma + 1, l)
  BY <1>1, <1>6, <1>7, NextValIs
<1>9. CASE next_val(s) = <<>>
  <2>1. Len(next_val(s)) = 0
    BY <1>9
  <2> QED
    BY <1>1, <1>2, <2>1
<1>10. CASE next_val(s) # <<>>
  <2>1. ~(n < 2) /\ ~(comma > l) /\ next_val(s) = SubSeq(s, comma + 1, l)
    BY <1>8, <1>10, Zenon
  <2>2. PICK b : b = Between(s, f)
    OBVIOUS
  <2>3. 2 \in 1 .. n /\ f[2] \in 1 .. l /\ s[f[2]] = Quote
    <3>1. 2 \in 1 .. n
      BY <1>5, <2>1
    <3> QED
      BY <1>3, <1>5, <3>1
  <2>4. PICK last : last = IF n < 3 THEN l ELSE f[3] - 1
    OBVIOUS
  <2>5. last \in 1 .. l /\ f[2] <= last
    <3>1. CASE n < 3
      BY <1>2, <2>3, <2>4, <3>1
    <3>2. CASE ~(n < 3)
      <4>1. 3 \in 1 .. n /\ 2 < 3
        BY <1>5, <3>2
      <4>2. f[3] \in 1 .. l
        BY <1>3, <1>5, <4>1
      <4>3. f[2] < f[3]
        BY <1>4, <2>3, <4>1 DEF Lists, Rises
      <4> QED
        BY <2>3, <2>4, <3>2, <4>2, <4>3
    <3> QED
      BY <3>1, <3>2
  <2>6. b = {i \in f[2] .. last : s[i] # Slash /\ ~Escaped(s, 1, i)}
    BY <1>1, <1>6, <2>2, <2>4 DEF Between
  <2>7. b \subseteq 1 .. l
    <3>1. \A i \in f[2] .. last : i \in 1 .. l
      BY <2>3, <2>5
    <3> QED
      BY <2>6, <3>1
  <2>8. f[2] \in b
    <3>1. Unescaped(s, 1, f[2], Quote)
      BY <1>1, <2>3, UnescapedIs
    <3>2. s[f[2]] # Slash
      BY <2>3 DEF Quote, Slash
    <3>3. f[2] \in f[2] .. last
      BY <2>3, <2>5
    <3> QED
      BY <2>6, <3>1, <3>2, <3>3 DEF Unescaped
  <2>9. PICK x \in 1 .. l : x = Max(b)
    <3>1. Max(b) \in b
      BY <2>7, <2>8, MaxExists
    <3> QED
      BY <2>7, <3>1
  <2>10. comma \in x .. l + 1
    <3> DEFINE IsFirst(i) == (i = l + 1 \/ s[i] = ",") /\ \A j \in x .. i - 1 : ~(s[j] = ",")
               W == {i \in x .. l : s[i] = ","}
    <3>1. comma = CHOOSE i \in x .. l + 1 : IsFirst(i)
      <4>1. comma = First(x, l, LAMBDA i : s[i] = ",")
        BY <1>1, <1>7, <2>2, <2>9, Zenon DEF CommaIn
      <4>2. ~(x > l)
        OBVIOUS
      <4> QED
        BY <4>1, <4>2, Zenon DEF First
    <3>2. \E i \in x .. l + 1 : (i = l + 1 \/ i \in W) /\ \A j \in x .. i - 1 : j \notin W
      <4> HIDE DEF W
      <4>1. x \in Nat /\ x <= l
        OBVIOUS
      <4> QED
        BY <4>1, FirstExists
    <3>3. \E i \in x .. l + 1 : IsFirst(i)
      <4>1. PICK i \in x .. l + 1 : (i = l + 1 \/ i \in W) /\ \A j \in x .. i - 1 : j \notin W
        BY <3>2
      <4>2. i = l + 1 \/ s[i] = ","
        BY <4>1
      <4>3. \A j \in x .. i - 1 : j \in x .. l
        BY <1>1
      <4>4. \A j \in x .. i - 1 : ~(s[j] = ",")
        BY <4>1, <4>3
      <4>5. IsFirst(i)
        BY <4>2, <4>4
      <4> HIDE DEF IsFirst
      <4> QED
        BY <4>1, <4>5
    <3> HIDE DEF IsFirst
    <3> QED
      BY <3>1, <3>3
  <2>11. comma \in Nat /\ 1 <= comma /\ comma <= l
    BY <2>1, <2>10
  <2>12. comma + 1 \in Nat \ {0} /\ comma + 1 <= l + 1
    BY <2>11
  <2>13. IsCut(SubSeq(s, comma + 1, l), s, comma + 1, l)
    BY <1>1, <2>12, CutIs
  <2>14. Len(next_val(s)) = l - (comma + 1) + 1
    BY <2>1, <2>13 DEF IsCut
  <2> QED
    BY <1>1, <2>11, <2>14
<1> QED
  BY <1>9, <1>10

\* What is left of an array from an element's opening quote on, when its closing
\* quote is the p-th of the k characters left, and d are left behind the comma.
IsHead(s, k, p, d) ==
  /\ Clear(s) /\ k \in Nat /\ p \in Nat /\ k = Len(s) /\ 3 <= p /\ p < k
  /\ s[1] = Quote /\ s[p] = Quote
  /\ \A x \in Nat : 1 < x /\ x < p => s[x] \notin {Quote, "[", "]"}
  /\ d = 0 => k = p + 1 /\ s[k] = "]"
  /\ d # 0 => p + 2 < k /\ s[p + 1] = "," /\ s[p + 2] = Quote /\ d = k - p - 1

\* Its first quote.
LEMMA QuoteInIs ==
  ASSUME NEW s, NEW k, NEW p, NEW d, IsHead(s, k, p, d)
  PROVE  QuoteIn(s) = 1
<1>1. Clear(s) /\ k \in Nat /\ k = Len(s) /\ 3 <= k /\ s[1] = Quote
  <2>1. Clear(s) /\ k \in Nat /\ p \in Nat /\ k = Len(s) /\ 3 <= p /\ p < k /\ s[1] = Quote
    BY Zenon DEF IsHead
  <2> QED
    BY <2>1
<1> DEFINE IsFirst(i) == (i = k + 1 \/ s[i] = Quote) /\ \A j \in 1 .. i - 1 : ~(s[j] = Quote)
           W == {i \in 1 .. k : s[i] = Quote}
<1>2. QuoteIn(s) = CHOOSE i \in 1 .. k + 1 : IsFirst(i)
  <2>1. ~(1 > k)
    BY <1>1
  <2> QED
    BY <1>1, <2>1, Zenon DEF QuoteIn, First
<1>3. 1 \in W
  BY <1>1
<1>4. \A i \in 1 .. k + 1 : ((i = k + 1 \/ i \in W) /\ \A j \in 1 .. i - 1 : j \notin W) <=> i = 1
  <2> HIDE DEF W
  <2>1. 1 \in 1 .. k + 1 /\ 1 \in Nat /\ 1 .. 1 - 1 = {}
    BY <1>1
  <2> QED
    BY <1>1, <1>3, <2>1, FirstIsOne
<1>5. \A i \in 1 .. k + 1 : IsFirst(i) <=> i = 1
  <2> SUFFICES ASSUME NEW i \in 1 .. k + 1
               PROVE  IsFirst(i) <=> i = 1
    OBVIOUS
  <2>1. (i = k + 1 \/ i \in W) <=> (i = k + 1 \/ s[i] = Quote)
    BY <1>1
  <2>2. \A j \in 1 .. i - 1 : j \in W <=> s[j] = Quote
    BY <1>1
  <2> HIDE DEF W
  <2> QED
    BY <1>4, <2>1, <2>2
<1>6. 1 \in 1 .. k + 1
  BY <1>1
<1> HIDE DEF IsFirst
<1> QED
  BY <1>2, <1>5, <1>6

\* The element it begins with.
LEMMA HeadReads ==
  ASSUME NEW s, NEW k, NEW p, NEW d, IsHead(s, k, p, d)
  PROVE  has_current_val(s) /\ current_val(s) = SubSeq(s, 2, p - 1)
<1>1. /\ Clear(s) /\ k \in Nat /\ p \in Nat /\ k = Len(s) /\ 3 <= p /\ p < k
      /\ s[1] = Quote /\ s[p] = Quote
      /\ \A x \in Nat : 1 < x /\ x < p => s[x] # Quote
      /\ \A x \in Nat : 1 < x /\ x < p => s[x] # "]"
  <2>1. \A c : c \notin {Quote, "[", "]"} => c # Quote /\ c # "]"
    OBVIOUS
  <2> QED
    BY <2>1, Zenon DEF IsHead
<1>2. QuoteIn(s) = 1
  BY QuoteInIs
<1>3. has_current_val(s)
  <2>1. s[2] # "]"
    <3>1. 2 \in Nat /\ 1 < 2 /\ 2 < p
      BY <1>1
    <3> QED
      BY <1>1, <3>1
  <2>2. QuoteIn(s) <= Len(s) /\ s[QuoteIn(s) + 1] # "]"
    <3>1. 1 + 1 = 2 /\ 1 <= k
      BY <1>1
    <3> QED
      BY <1>1, <1>2, <2>1, <3>1, Zenon
  <2> QED
    BY <2>2, Zenon DEF has_current_val
<1> DEFINE IsFirst(i) == /\ i = k + 1 \/ Unescaped(s, 2, i, Quote)
                         /\ \A j \in 2 .. i - 1 : ~Unescaped(s, 2, j, Quote)
           W == {i \in 2 .. k : s[i] = Quote}
           close == First(QuoteIn(s) + 1, Len(s), LAMBDA i : Unescaped(s, QuoteIn(s) + 1, i, Quote))
<1>4. close = CHOOSE i \in 2 .. k + 1 : IsFirst(i)
  <2>1. ~(2 > k) /\ 1 + 1 = 2
    BY <1>1
  <2> QED
    BY <1>1, <1>2, <2>1 DEF First
<1>5. p \in W /\ \A j \in 2 .. p - 1 : j \notin W
  BY <1>1
<1>6. p \in 2 .. k + 1
  BY <1>1
<1>7. \A i \in 2 .. k + 1 : ((i = k + 1 \/ i \in W) /\ \A j \in 2 .. i - 1 : j \notin W) <=> i = p
  <2> HIDE DEF W
  <2> QED
    BY <1>1, <1>5, <1>6, FirstIsOne
<1>8. \A i \in 2 .. k + 1 : IsFirst(i) <=> i = p
  <2> SUFFICES ASSUME NEW i \in 2 .. k + 1
               PROVE  IsFirst(i) <=> i = p
    OBVIOUS
  <2>0. \A j \in 2 .. k : j \in W <=> Unescaped(s, 2, j, Quote)
    <3>1. \A j \in 2 .. k : Unescaped(s, 2, j, Quote) <=> s[j] = Quote
      BY <1>1, UnescapedIs
    <3> QED
      BY <3>1
  <2>1. (i = k + 1 \/ i \in W) <=> (i = k + 1 \/ Unescaped(s, 2, i, Quote))
    <3>1. i = k + 1 \/ i \in 2 .. k
      BY <1>1
    <3> HIDE DEF W
    <3> QED
      BY <2>0, <3>1
  <2>2. \A j \in 2 .. i - 1 : j \in W <=> Unescaped(s, 2, j, Quote)
    <3>1. \A j \in 2 .. i - 1 : j \in 2 .. k
      BY <1>1
    <3> HIDE DEF W
    <3> QED
      BY <2>0, <3>1
  <2> HIDE DEF W
  <2> QED
    BY <1>7, <2>1, <2>2
<1>9. close = p
  <2> HIDE DEF IsFirst, close
  <2> QED
    BY <1>4, <1>6, <1>8
<1>10. current_val(s) = SubSeq(s, QuoteIn(s) + 1, close - 1)
  BY Zenon DEF current_val
<1> HIDE DEF close
<1>11. current_val(s) = SubSeq(s, 2, p - 1)
  <2>1. 1 + 1 = 2
    OBVIOUS
  <2> QED
    BY <1>2, <1>9, <1>10, <2>1, Zenon
<1> QED
  BY <1>3, <1>11

\* What is behind it.
LEMMA HeadLeaves ==
  ASSUME NEW s, NEW k, NEW p, NEW d, IsHead(s, k, p, d)
  PROVE  Len(next_val(s)) = d
<1>1. /\ Clear(s) /\ k \in Nat /\ p \in Nat /\ k = Len(s) /\ 3 <= p /\ p < k
      /\ d = 0 => k = p + 1
      /\ d # 0 => p + 2 < k /\ d = k - p - 1
  BY Zenon DEF IsHead
<1>25. s[1] = Quote /\ s[p] = Quote /\ \A x \in Nat : 1 < x /\ x < p => s[x] # Quote
  <2>1. \A c : c \notin {Quote, "[", "]"} => c # Quote
    OBVIOUS
  <2> QED
    BY <2>1, Zenon DEF IsHead
<1>26. /\ d = 0 => s[k] # Quote /\ s[k] # ","
       /\ d # 0 => s[p + 1] = "," /\ s[p + 2] = Quote /\ s[p + 1] # Quote
  <2>1. "]" # Quote /\ "," # Quote /\ "]" # ","
    BY DEF Quote
  <2> QED
    BY <2>1, Zenon DEF IsHead
<1>2. PICK mk : mk = Marks(s, {Quote})
  OBVIOUS
<1>3. mk = {i \in 1 .. k : s[i] = Quote}
  BY <1>1, <1>2, QuotesHaveList
<1>4. PICK n, f : Lists(f, n, mk)
  BY <1>1, <1>2, QuotesHaveList
<1>5. n \in Nat /\ f \in [1 .. n -> Nat] /\ \A i \in 1 .. n : f[i] \in mk
  BY <1>4 DEF Lists, Rises
<1>6. InOrder(mk) = f /\ Len(f) = n
  BY <1>4, InOrderIs, LenOfList
<1>7. 1 \in mk /\ p \in mk
  BY <1>1, <1>3, <1>25
<1>8. 1 \in 1 .. n /\ f[1] = 1
  <2>1. 0 \in 0 .. n /\ \A y \in mk : ~(y < 1)
    BY <1>3, <1>5
  <2>2. 0 + 1 \in 1 .. n /\ f[0 + 1] = 1
    BY <1>4, <1>7, <2>1, NextIs
  <2> QED
    BY <2>2
<1>9. 2 \in 1 .. n /\ f[2] = p
  <2>1. 1 \in 0 .. n /\ f[1] < p
    BY <1>1, <1>8, <1>5
  <2>2. \A y \in mk : y < p => y <= f[1]
    <3>1. \A y \in mk : y \in Nat /\ s[y] = Quote /\ (y = 1 \/ 1 < y)
      BY <1>1, <1>3
    <3> QED
      BY <1>1, <1>8, <1>25, <3>1
  <2>3. 1 + 1 \in 1 .. n /\ f[1 + 1] = p
    BY <1>4, <1>7, <2>1, <2>2, NextIs
  <2> QED
    BY <2>3
<1>10. PICK last : last = IF n < 3 THEN k ELSE f[3] - 1
  OBVIOUS
<1>11. last = IF d = 0 THEN k ELSE p + 1
  <2>1. CASE d = 0
    <3>1. \A y \in mk : y <= f[2]
      <4>1. \A y \in mk : y \in 1 .. k /\ s[y] = Quote
        BY <1>3
      <4>2. s[k] # Quote
        BY <1>26, <2>1
      <4>3. \A y \in mk : y # k
        BY <4>1, <4>2
      <4> QED
        BY <1>1, <1>9, <2>1, <4>1, <4>3
    <3>2. n = 2
      BY <1>4, <1>9, <3>1, LastIs
    <3> QED
      BY <1>10, <2>1, <3>2
  <2>2. CASE d # 0
    <3>1. PICK x \in Nat : x = p + 2
      BY <1>1
    <3>2. x \in mk
      <4>1. s[x] = Quote
        BY <1>26, <2>2, <3>1
      <4>2. x \in 1 .. k
        BY <1>1, <2>2, <3>1
      <4> QED
        BY <1>3, <4>1, <4>2
    <3>3. 2 \in 0 .. n /\ f[2] < x
      BY <1>1, <1>5, <1>9, <3>1
    <3>4. \A y \in mk : y < x => y <= f[2]
      <4>1. \A y \in mk : y \in Nat /\ s[y] = Quote
        BY <1>3
      <4>2. s[p + 1] # Quote
        BY <1>26, <2>2
      <4>3. \A y \in mk : y # p + 1
        BY <4>1, <4>2
      <4>4. p \in Nat
        BY <1>1
      <4>5. \A y \in Nat : y # p + 1 /\ y < p + 2 => y <= p
        BY <4>4
      <4> QED
        BY <1>9, <3>1, <4>1, <4>3, <4>5, Zenon
    <3>5. 2 + 1 \in 1 .. n /\ f[2 + 1] = x
      <4>1. PICK i \in 0 .. n : i = 2
        BY <3>3
      <4>2. PICK z \in mk : z = x
        BY <3>2
      <4>3. i # 0 => f[i] < z
        BY <3>3, <4>1, <4>2, Zenon
      <4>4. \A y \in mk : y < z => i # 0 /\ y <= f[i]
        <5>1. 2 # 0
          OBVIOUS
        <5> QED
          BY <3>4, <4>1, <4>2, <5>1, Zenon
      <4>5. i + 1 \in 1 .. n /\ f[i + 1] = z
        BY <1>4, <4>3, <4>4, NextIs
      <4> QED
        BY <4>1, <4>2, <4>5, Zenon
    <3>6. 3 \in 1 .. n /\ f[3] = x
      BY <3>5
    <3> QED
      BY <1>1, <1>5, <1>10, <2>2, <3>1, <3>6
  <2> QED
    BY <2>1, <2>2
<1>12. last \in p .. k
  BY <1>1, <1>11
<1>13. PICK b : b = Between(s, f)
  OBVIOUS
<1>14. b = {i \in p .. last : s[i] # Slash /\ ~Escaped(s, 1, i)}
  BY <1>1, <1>6, <1>9, <1>10, <1>13 DEF Between
<1>15. last \in b
  <2>1. last \in 1 .. k
    BY <1>1, <1>12
  <2>2. s[last] # Slash
    BY <1>1, <2>1 DEF Clear
  <2>3. ~Escaped(s, 1, last)
    <3>1. 1 \in Nat \ {0} /\ last \in 1 .. Len(s)
      BY <1>1, <2>1
    <3>2. Unescaped(s, 1, last, s[last])
      BY <1>1, <3>1, UnescapedIs
    <3> QED
      BY <3>2 DEF Unescaped
  <2>4. last \in p .. last
    BY <1>1, <1>12
  <2> QED
    BY <1>14, <2>2, <2>3, <2>4
<1>16. Max(b) = last
  <2>1. \A x \in p .. last : x \in Nat /\ x <= last
    BY <1>1, <1>12
  <2>2. b \subseteq Nat /\ \A x \in b : x <= last
    BY <1>14, <2>1
  <2> QED
    BY <1>15, <2>2, MaxIs
<1>17. PICK comma : comma = CommaIn(s, Max(Between(s, f)))
  OBVIOUS
<1>18. next_val(s) = IF n < 2 \/ (EndsIn(s) <= k /\ s[EndsIn(s)] = "]") \/ comma > k
                     THEN <<>> ELSE SubSeq(s, comma + 1, k)
  BY <1>1, <1>2, <1>6, <1>17, NextValIs
<1> DEFINE q == IF d = 0 THEN k + 1 ELSE p + 1
           IsFirst(i) == (i = k + 1 \/ s[i] = ",") /\ \A j \in last .. i - 1 : ~(s[j] = ",")
           W == {i \in last .. k : s[i] = ","}
<1>19. comma = q
  <2>1. comma = CHOOSE i \in last .. k + 1 : IsFirst(i)
    <3>1. comma = First(last, k, LAMBDA i : s[i] = ",")
      BY <1>1, <1>13, <1>16, <1>17, Zenon DEF CommaIn
    <3>2. ~(last > k)
      BY <1>1, <1>12
    <3> QED
      BY <3>1, <3>2, Zenon DEF First
  <2>2. last \in Nat /\ k \in Nat
    BY <1>1, <1>12
  <2>3. q \in last .. k + 1
    BY <1>1, <1>11
  <2>4. q = k + 1 \/ q \in W
    <3>1. d # 0 => s[q] = ","
      BY <1>26
    <3>2. d # 0 => q \in last .. k
      BY <1>1, <1>11
    <3>3. d = 0 => q = k + 1
      OBVIOUS
    <3> HIDE DEF q
    <3> QED
      BY <3>1, <3>2, <3>3
  <2>5. \A j \in last .. q - 1 : j \notin W
    <3>1. CASE d = 0
      <4>1. \A j \in last .. q - 1 : j = k
        BY <1>1, <1>11, <3>1
      <4>2. s[k] # ","
        BY <1>26, <3>1
      <4> HIDE DEF q
      <4> QED
        BY <4>1, <4>2
    <3>2. CASE d # 0
      <4>1. last .. q - 1 = {}
        BY <1>1, <1>11, <3>2
      <4> QED
        BY <4>1
    <3> QED
      BY <3>1, <3>2
  <2>6. \A i \in last .. k + 1 : ((i = k + 1 \/ i \in W) /\ \A j \in last .. i - 1 : j \notin W) <=> i = q
    <3> HIDE DEF q, W
    <3> QED
      BY <2>2, <2>3, <2>4, <2>5, FirstIsOne
  <2>7. \A i \in last .. k + 1 : IsFirst(i) <=> i = q
    <3> SUFFICES ASSUME NEW i \in last .. k + 1
                 PROVE  IsFirst(i) <=> i = q
      OBVIOUS
    <3>1. (i = k + 1 \/ i \in W) <=> (i = k + 1 \/ s[i] = ",")
      <4>1. i = k + 1 \/ i \in last .. k
        BY <2>2
      <4> QED
        BY <4>1
    <3>2. \A j \in last .. i - 1 : j \in W <=> s[j] = ","
      <4>1. \A j \in last .. i - 1 : j \in last .. k
        BY <2>2
      <4> QED
        BY <4>1
    <3> HIDE DEF W, q
    <3> QED
      BY <2>6, <3>1, <3>2
  <2> HIDE DEF IsFirst, q
  <2> QED
    BY <2>1, <2>3, <2>7
<1>20. EndsIn(s) = 1
  <2> DEFINE Is(i) == /\ i = k + 1 \/ (i % 2 = 1 /\ s[i] # " ")
                      /\ \A j \in 1 .. i - 1 : ~(j % 2 = 1 /\ s[j] # " ")
             V == {i \in 1 .. k : i % 2 = 1 /\ s[i] # " "}
  <2>1. EndsIn(s) = CHOOSE i \in 1 .. k + 1 : Is(i)
    <3>1. ~(1 > k)
      BY <1>1
    <3> QED
      BY <1>1, <3>1, Zenon DEF EndsIn, First
  <2>2. 1 \in V
    <3>1. s[1] # " "
      BY <1>25, Zenon DEF Quote
    <3>2. 1 \in 1 .. k /\ 1 % 2 = 1
      BY <1>1
    <3> QED
      BY <3>1, <3>2, Zenon
  <2>3. \A i \in 1 .. k + 1 : ((i = k + 1 \/ i \in V) /\ \A j \in 1 .. i - 1 : j \notin V) <=> i = 1
    <3> HIDE DEF V
    <3>1. 1 \in 1 .. k + 1 /\ 1 \in Nat /\ 1 .. 1 - 1 = {}
      BY <1>1
    <3> QED
      BY <1>1, <2>2, <3>1, FirstIsOne
  <2>4. \A i \in 1 .. k + 1 : Is(i) <=> i = 1
    <3> SUFFICES ASSUME NEW i \in 1 .. k + 1
                 PROVE  Is(i) <=> i = 1
      OBVIOUS
    <3>1. (i = k + 1 \/ i \in 1 .. k) /\ \A j \in 1 .. i - 1 : j \in 1 .. k
      BY <1>1
    <3>2. \A j \in 1 .. k : j \in V <=> (j % 2 = 1 /\ s[j] # " ")
      BY Zenon
    <3> HIDE DEF V
    <3>3. ((i = k + 1 \/ i \in V) /\ \A j \in 1 .. i - 1 : j \notin V) <=> i = 1
      BY <2>3
    <3> QED
      BY <3>1, <3>2, <3>3, Zenon
  <2>5. 1 \in 1 .. k + 1
    BY <1>1
  <2> HIDE DEF Is
  <2> QED
    BY <2>1, <2>4, <2>5
<1>21. s[EndsIn(s)] # "]"
  BY <1>20, <1>25 DEF Quote
<1>22. ~(n < 2)
  BY <1>5, <1>9
<1>23. CASE d = 0
  <2>1. comma > k
    BY <1>1, <1>19, <1>23
  <2>2. next_val(s) = <<>>
    BY <1>18, <2>1, Zenon
  <2> QED
    BY <1>23, <2>2
<1>24. CASE d # 0
  <2>1. comma = p + 1 /\ ~(comma > k)
    BY <1>1, <1>19, <1>24
  <2>2. next_val(s) = SubSeq(s, comma + 1, k)
    BY <1>18, <1>21, <1>22, <2>1, Zenon
  <2>3. comma + 1 \in Nat \ {0} /\ comma + 1 <= k + 1 /\ k - (comma + 1) + 1 = k - p - 1
    BY <1>1, <2>1, <1>24
  <2>4. IsCut(SubSeq(s, comma + 1, k), s, comma + 1, k)
    BY <1>1, <2>3, CutIs
  <2>5. Len(next_val(s)) = k - (comma + 1) + 1
    BY <2>2, <2>4, Zenon DEF IsCut
  <2> QED
    BY <1>1, <1>24, <2>3, <2>5
<1> QED
  BY <1>23, <1>24

\* What is left of a list from an element on.
IsTail(s, v, b, m) == s = SubSeq(v, b, m)
Ahead(m, n, R, j) == IF j = n THEN 0 ELSE m - R[j + 1] + 1
\* It begins with that element.
LEMMA HeadIs ==
  ASSUME NEW v, NEW m, NEW n, NEW R, NEW E, IsList(v, m, n, R, E), NEW j \in 1 .. n,
         NEW s, IsTail(s, v, R[j], m)
  PROVE  /\ IsHead(s, m - R[j] + 1, E[j] - R[j] + 1, Ahead(m, n, R, j))
         /\ IsCut(s, v, R[j], m)
<1>1. Clear(v) /\ m \in Nat /\ m = Len(v) /\ n \in Nat
  BY Zenon DEF IsList
<1>2. PICK r \in Nat, e \in Nat : r = R[j] /\ e = E[j]
  BY FieldIs, Zenon DEF IsField
<1>0. IsField(v, n, R, E, j, r, e)
  BY <1>2, FieldIs, Zenon
<1>3. 2 <= r /\ r + 1 < e /\ e < m
  BY <1>0, <1>1, Zenon DEF IsField
<1>4. /\ v[r] = Quote /\ v[e] = Quote
      /\ \A x \in Nat : r < x /\ x < e => v[x] \notin {Quote, "[", "]"}
      /\ j # n => v[e + 1] = ","
  BY <1>0, Zenon DEF IsField
<1>5. (j = n => m = e + 1) /\ (j # n => R[j + 1] = e + 2 /\ e + 2 < m)
  BY <1>0, <1>1, Zenon DEF IsField
<1>6. IsCut(s, v, r, m)
  <2>1. r \in Nat \ {0} /\ r <= m + 1 /\ m <= Len(v)
    BY <1>1, <1>2, <1>3
  <2>2. IsCut(SubSeq(v, r, m), v, r, m)
    BY <1>1, <2>1, CutIs
  <2> QED
    BY <1>2, <2>2, Zenon DEF IsTail
<1>7. PICK k \in Nat, p \in Nat : k = m - r + 1 /\ p = e - r + 1 /\ 3 <= p /\ p < k
  <2>1. m - r + 1 \in Nat /\ e - r + 1 \in Nat /\ 3 <= e - r + 1 /\ e - r + 1 < m - r + 1
    <3>1. m \in Nat /\ r + 1 < e /\ e < m /\ r \in Nat /\ e \in Nat
      BY <1>1, <1>2, <1>3, Zenon
    <3> QED
      BY <3>1
  <2> QED
    BY <2>1
<1>8. Clear(s) /\ Len(s) = k /\ \A i \in 1 .. k : s[i] = v[r + i - 1]
  BY <1>6, <1>7 DEF IsCut
<1>9. s[1] = Quote /\ s[p] = Quote
  <2>1. 1 \in 1 .. k /\ p \in 1 .. k /\ r + 1 - 1 = r /\ r + p - 1 = e
    BY <1>2, <1>7
  <2>2. s[1] = v[r + 1 - 1] /\ s[p] = v[r + p - 1]
    BY <1>8, <2>1
  <2> QED
    BY <1>4, <2>1, <2>2, Zenon
<1>10. ASSUME NEW x \in Nat, 1 < x, x < p
       PROVE  s[x] \notin {Quote, "[", "]"}
  <2>1. x \in 1 .. k /\ r + x - 1 \in Nat /\ r < r + x - 1 /\ r + x - 1 < e
    BY <1>2, <1>7, <1>10
  <2>2. s[x] = v[r + x - 1]
    BY <1>8, <2>1
  <2>3. v[r + x - 1] \notin {Quote, "[", "]"}
    BY <1>4, <2>1, Zenon
  <2> QED
    BY <2>2, <2>3, Zenon
<1>11. PICK d : d = Ahead(m, n, R, j)
  OBVIOUS
<1>12. CASE j = n
  <2>1. d = 0
    BY <1>11, <1>12 DEF Ahead
  <2>2. k = p + 1 /\ k \in 1 .. k /\ r + k - 1 = m
    <3>1. m \in Nat /\ r \in Nat /\ e \in Nat /\ k \in Nat /\ p \in Nat /\ m = e + 1
      BY <1>1, <1>2, <1>5, <1>7, <1>12, Zenon
    <3>2. k = m - r + 1 /\ p = e - r + 1 /\ 3 <= p /\ p < k
      BY <1>7
    <3> QED
      BY <3>1, <3>2
  <2>3. s[k] = v[r + k - 1]
    BY <1>8, <2>2
  <2>4. v[m] = "]"
    BY Zenon DEF IsList
  <2>5. s[k] = "]"
    BY <2>2, <2>3, <2>4, Zenon
  <2>6. IsHead(s, k, p, d)
    BY <1>7, <1>8, <1>9, <1>10, <2>1, <2>2, <2>5, Zenon DEF IsHead
  <2> QED
    BY <1>2, <1>6, <1>7, <1>11, <2>6, Zenon
<1>13. CASE j # n
  <2>1. PICK b \in Nat : b = e + 2 /\ b = R[j + 1]
    BY <1>2, <1>5, <1>13
  <2>2. d = m - b + 1
    BY <1>11, <1>13, <2>1 DEF Ahead
  <2>3. b < m
    BY <1>5, <1>13, <2>1
  <2>4. d # 0 /\ d = k - p - 1 /\ p + 2 < k /\ p + 1 \in 1 .. k /\ p + 2 \in 1 .. k
    <3>1. /\ m \in Nat /\ r \in Nat /\ e \in Nat /\ k \in Nat /\ p \in Nat /\ b \in Nat
          /\ b = e + 2 /\ d = m - b + 1 /\ b < m
      BY <1>1, <1>2, <1>7, <2>1, <2>2, <2>3, Zenon
    <3>2. k = m - r + 1 /\ p = e - r + 1 /\ 3 <= p /\ p < k
      BY <1>7
    <3> QED
      BY <3>1, <3>2
  <2>5. r + (p + 1) - 1 = e + 1 /\ r + (p + 2) - 1 = b
    BY <1>2, <1>7, <2>1
  <2>6. s[p + 1] = v[r + (p + 1) - 1] /\ s[p + 2] = v[r + (p + 2) - 1]
    BY <1>8, <2>4
  <2>7. j + 1 \in 1 .. n
    BY <1>1, <1>13
  <2>8. v[b] = Quote
    <3>1. v[R[j + 1]] = Quote
      BY <2>7, Zenon DEF IsList, Elements
    <3> QED
      BY <2>1, <3>1, Zenon
  <2>9. s[p + 1] = "," /\ s[p + 2] = Quote
    BY <1>4, <1>13, <2>5, <2>6, <2>8, Zenon
  <2>10. IsHead(s, k, p, d)
    BY <1>7, <1>8, <1>9, <1>10, <2>4, <2>9, Zenon DEF IsHead
  <2> QED
    BY <1>2, <1>6, <1>7, <1>11, <2>10, Zenon
<1> QED
  BY <1>12, <1>13

\* What the elements of a list are.
IsValue(w, v, r, e) ==
  /\ w \in Seq(Symbol) /\ Len(w) = e - r - 1
  /\ \A i \in 1 .. e - r - 1 : w[i] = v[r + i]
AreValues(a, v, n, R, E) ==
  /\ a \in Seq(Seq(Symbol)) /\ Len(a) = n
  /\ \A j \in 1 .. n : IsValue(a[j], v, R[j], E[j])

\* An element is read as it is.
LEMMA ValueIs ==
  ASSUME NEW v, NEW m, NEW n, NEW R, NEW E, IsList(v, m, n, R, E), NEW j \in 1 .. n,
         NEW s, IsTail(s, v, R[j], m), NEW w, IsValue(w, v, R[j], E[j])
  PROVE  has_current_val(s) /\ current_val(s) = w /\ Len(next_val(s)) = Ahead(m, n, R, j)
<1>0. /\ IsHead(s, m - R[j] + 1, E[j] - R[j] + 1, Ahead(m, n, R, j))
      /\ IsCut(s, v, R[j], m)
  BY HeadIs
<1>1. has_current_val(s) /\ current_val(s) = SubSeq(s, 2, (E[j] - R[j] + 1) - 1)
  <2>1. PICK k, p, d : k = m - R[j] + 1 /\ p = E[j] - R[j] + 1 /\ d = Ahead(m, n, R, j)
    OBVIOUS
  <2>2. IsHead(s, k, p, d)
    BY <1>0, <2>1, Zenon
  <2>3. has_current_val(s) /\ current_val(s) = SubSeq(s, 2, p - 1)
    BY <2>2, HeadReads
  <2>4. p - 1 = (E[j] - R[j] + 1) - 1
    BY <2>1, Zenon
  <2> QED
    BY <2>3, <2>4, Zenon
<1>2. Len(next_val(s)) = Ahead(m, n, R, j)
  BY <1>0, HeadLeaves
<1>3. m \in Nat /\ m = Len(v)
  BY Zenon DEF IsList
<1>4. PICK r \in Nat, e \in Nat : r = R[j] /\ e = E[j]
  BY FieldIs, Zenon DEF IsField
<1>5. 2 <= r /\ r + 1 < e /\ e < m
  BY <1>3, <1>4, FieldIs, Zenon DEF IsField
<1>6. PICK q \in Nat : q = (e - r + 1) - 1 /\ q = e - r /\ 2 <= q + 1 /\ q <= m - r + 1
  <2>1. e - r \in Nat /\ e - r = (e - r + 1) - 1 /\ 2 <= e - r + 1 /\ e - r <= m - r + 1
    BY <1>3, <1>4, <1>5
  <2> QED
    BY <2>1
<1>7. Clear(s) /\ Len(s) = m - r + 1 /\ \A i \in 1 .. m - r + 1 : s[i] = v[r + i - 1]
  BY <1>0, <1>4, Zenon DEF IsCut
<1>8. PICK c : c = SubSeq(s, 2, q)
  OBVIOUS
<1>9. IsCut(c, s, 2, q)
  <2>1. 2 \in Nat \ {0} /\ q <= Len(s)
    BY <1>6, <1>7
  <2>2. IsCut(SubSeq(s, 2, q), s, 2, q)
    BY <1>6, <1>7, <2>1, CutIs
  <2> QED
    BY <1>8, <2>2, Zenon
<1>10. c \in Seq(Symbol) /\ Len(c) = q - 2 + 1 /\ \A i \in 1 .. q - 2 + 1 : c[i] = s[2 + i - 1]
  BY <1>9 DEF IsCut, Clear
<1>11. q - 2 + 1 = e - r - 1
  BY <1>4, <1>6
<1>12. PICK l \in Nat : l = e - r - 1
  BY <1>4, <1>5
<1>13. w \in Seq(Symbol) /\ Len(w) = l /\ \A i \in 1 .. l : w[i] = v[r + i]
  BY <1>4, <1>12 DEF IsValue
<1>14. ASSUME NEW i \in 1 .. l
       PROVE  c[i] = w[i]
  <2>1. 2 + i - 1 \in 1 .. m - r + 1 /\ r + (2 + i - 1) - 1 = r + i
    <3>1. m \in Nat /\ r \in Nat /\ e \in Nat /\ l \in Nat /\ 2 <= r /\ e < m /\ i \in 1 .. l
      BY <1>3, <1>4, <1>5, <1>12, Zenon
    <3>2. l = e - r - 1
      BY <1>12
    <3> QED
      BY <3>1, <3>2
  <2>2. c[i] = s[2 + i - 1]
    BY <1>10, <1>11, <1>12
  <2>3. s[2 + i - 1] = v[r + (2 + i - 1) - 1]
    BY <1>7, <2>1
  <2>4. w[i] = v[r + i]
    BY <1>13
  <2> QED
    BY <2>1, <2>2, <2>3, <2>4, Zenon
<1>15. c = w
  <2>1. c = [i \in 1 .. l |-> c[i]] /\ w = [i \in 1 .. l |-> w[i]]
    BY <1>10, <1>11, <1>12, <1>13
  <2> QED
    BY <1>14, <2>1
<1>16. current_val(s) = SubSeq(s, 2, q)
  BY <1>1, <1>4, <1>6, Zenon
<1> QED
  BY <1>1, <1>2, <1>8, <1>15, <1>16, Zenon

\* What is read from an element on.
LEMMA TailGrows ==
  ASSUME NEW S, NEW a \in Seq(S), NEW n, n = Len(a), NEW j \in 1 .. n
  PROVE  /\ <<a[j]>> \o SubSeq(a, j + 1, n) = SubSeq(a, j, n)
         /\ j = n => <<a[j]>> \o <<>> = SubSeq(a, j, n)
<1>1. n \in Nat
  OBVIOUS
<1>2. PICK t \in Seq(S) : /\ t = SubSeq(a, j + 1, n) /\ Len(t) = n - j
                          /\ \A i \in 1 .. n - j : t[i] = a[j + i]
  <2>1. \A i \in j + 1 .. n : a[i] \in S
    BY <1>1
  <2>2. j + 1 \in Nat
    BY <1>1
  <2>3. PICK t : t = SubSeq(a, j + 1, n)
    OBVIOUS
  <2>4. /\ t \in Seq(S) /\ Len(t) = IF j + 1 <= n THEN n - (j + 1) + 1 ELSE 0
        /\ \A i \in 1 .. n - (j + 1) + 1 : t[i] = a[j + 1 + i - 1]
    BY <1>1, <2>1, <2>2, <2>3, SubSeqProperties
  <2>5. n - (j + 1) + 1 = n - j /\ \A i \in 1 .. n - j : j + 1 + i - 1 = j + i
    BY <1>1
  <2>6. Len(t) = n - j
    BY <1>1, <2>4
  <2>7. \A i \in 1 .. n - j : t[i] = a[j + i]
    BY <2>4, <2>5
  <2> QED
    BY <2>3, <2>4, <2>6, <2>7
<1>3. PICK u \in Seq(S) : /\ u = SubSeq(a, j, n) /\ Len(u) = n - j + 1
                          /\ \A i \in 1 .. n - j + 1 : u[i] = a[j + i - 1]
  <2>1. \A i \in j .. n : a[i] \in S
    BY <1>1
  <2>3. PICK u : u = SubSeq(a, j, n)
    OBVIOUS
  <2>4. /\ u \in Seq(S) /\ Len(u) = IF j <= n THEN n - j + 1 ELSE 0
        /\ \A i \in 1 .. n - j + 1 : u[i] = a[j + i - 1]
    BY <1>1, <2>1, <2>3, SubSeqProperties
  <2>5. Len(u) = n - j + 1
    BY <1>1, <2>4
  <2> QED
    BY <2>3, <2>4, <2>5, Zenon
<1>4. PICK x \in S : x = a[j]
  OBVIOUS
<1>5. PICK o \in Seq(S) : o = <<x>> /\ Len(o) = 1 /\ o[1] = x
  BY OneIs
<1>6. ASSUME NEW z \in Seq(S), NEW g \in Nat, g = n - j, Len(z) = g, \A i \in 1 .. g : z[i] = a[j + i]
      PROVE  o \o z = u
  <2>1. PICK w \in Seq(S) : Joined(w, o, 1, z, g)
    BY <1>5, <1>6, Behind
  <2>2. w = o \o z /\ Len(w) = 1 + g /\ w[1] = o[1] /\ \A i \in 1 .. g : w[1 + i] = z[i]
    <3>1. 1 \in 1 .. 1
      OBVIOUS
    <3> QED
      BY <2>1, <3>1, Zenon DEF Joined
  <2>3. PICK l \in Nat : l = 1 + g /\ l = n - j + 1
    <3>1. g = n - j /\ g \in Nat
      BY <1>6
    <3>2. 1 + g = n - j + 1 /\ 1 + g \in Nat
      BY <1>1, <3>1
    <3> QED
      BY <3>1, <3>2
  <2>4. ASSUME NEW i \in 1 .. l
        PROVE  w[i] = u[i]
    <3>1. u[i] = a[j + i - 1]
      BY <1>3, <2>3
    <3>2. CASE i = 1
      <4>1. j + i - 1 = j
        BY <1>1, <3>2
      <4> QED
        BY <1>4, <1>5, <2>2, <3>1, <3>2, <4>1
    <3>3. CASE i # 1
      <4>1. PICK y \in 1 .. g : 1 + y = i /\ j + y = j + i - 1
        BY <1>1, <1>6, <2>3, <3>3
      <4>2. w[1 + y] = z[y] /\ z[y] = a[j + y]
        BY <1>6, <2>2
      <4> QED
        BY <3>1, <4>1, <4>2
    <3> QED
      BY <3>2, <3>3
  <2>5. Len(w) = l /\ Len(u) = l
    BY <1>3, <2>2, <2>3
  <2>6. w = [i \in 1 .. l |-> w[i]] /\ u = [i \in 1 .. l |-> u[i]]
    BY <2>5
  <2>7. w = u
    BY <2>4, <2>6
  <2> QED
    BY <2>2, <2>7
<1>7. <<a[j]>> \o SubSeq(a, j + 1, n) = SubSeq(a, j, n)
  <2>0. n - j \in Nat
    BY <1>1
  <2>1. o \o t = u
    BY <1>2, <1>6, <2>0
  <2> QED
    BY <1>2, <1>3, <1>4, <1>5, <2>1, Zenon
<1>8. ASSUME j = n
      PROVE  <<a[j]>> \o <<>> = SubSeq(a, j, n)
  <2>1. PICK z \in Seq(S) : z = <<>> /\ Len(z) = 0
    <3>1. <<>> \in Seq(S) /\ Len(<<>>) = 0
      OBVIOUS
    <3> QED
      BY <3>1, Zenon
  <2>2. 0 = n - j /\ 0 \in Nat /\ 1 .. 0 = {}
    BY <1>1, <1>8
  <2>3. o \o z = u
    BY <1>6, <2>1, <2>2
  <2> QED
    BY <1>3, <1>4, <1>5, <2>1, <2>3, Zenon
<1> QED
  BY <1>7, <1>8

\* How array_to_str_array() goes through an array.
LeftOf(v, k) == SubSeq(v, Len(v) - k + 1, Len(v))
IsReading(h, v) ==
  h = [k \in 0 .. Len(v) |->
         IF ~has_current_val(LeftOf(v, k)) THEN <<>>
         ELSE <<current_val(LeftOf(v, k))>> \o h[Len(next_val(LeftOf(v, k)))]]
\* That is what it does.
LEMMA ReadingIs ==
  ASSUME NEW v
  PROVE  array_to_str_array(v) =
           IF v \in {<<"[", "]">>, <<"[", Quote, Quote, "]">>} \/ v[1] # "[" THEN <<>>
           ELSE (CHOOSE h : IsReading(h, v))[Len(v) - 1]
BY Zenon DEF array_to_str_array, IsReading, LeftOf

\* It goes through it once.
LEMMA ReadsOnce ==
  ASSUME NEW v, Clear(v)
  PROVE  \E h : IsReading(h, v)
<1>1. PICK m \in Nat : m = Len(v)
  BY DEF Clear
<1> DEFINE C == {k \in 0 .. m : has_current_val(LeftOf(v, k))}
           val == [k \in 0 .. m |-> current_val(LeftOf(v, k))]
           rest == [k \in 0 .. m |-> Len(next_val(LeftOf(v, k)))]
<1>2. ASSUME NEW k \in 0 .. m, k \in C
      PROVE  rest[k] \in 0 .. k - 1
  <2>1. m - k + 1 \in Nat \ {0} /\ m - k + 1 <= m + 1 /\ m <= Len(v)
    BY <1>1
  <2>2. IsCut(SubSeq(v, m - k + 1, m), v, m - k + 1, m)
    BY <2>1, CutIs
  <2>3. PICK s : s = LeftOf(v, k)
    OBVIOUS
  <2>4. Clear(s) /\ Len(s) = m - (m - k + 1) + 1
    BY <1>1, <2>2, <2>3, Zenon DEF IsCut, LeftOf
  <2>5. Len(s) = k
    BY <2>4
  <2>6. has_current_val(s)
    BY <1>2, <2>3
  <2>7. Len(next_val(s)) \in 0 .. k - 1
    BY <2>4, <2>5, <2>6, ShorterIs
  <2>8. rest[k] = Len(next_val(LeftOf(v, k)))
    OBVIOUS
  <2> QED
    BY <2>3, <2>7, <2>8, Zenon
<1>3. PICK h : IsReadFrom(h, m, C, val, rest)
  <2> HIDE DEF C, rest, val
  <2> QED
    BY <1>2, ReadingExists
<1> DEFINE Entry(k) == IF k \in C THEN <<val[k]>> \o h[rest[k]] ELSE <<>>
           Link(k) == IF ~has_current_val(LeftOf(v, k)) THEN <<>>
                      ELSE <<current_val(LeftOf(v, k))>> \o h[Len(next_val(LeftOf(v, k)))]
<1>4. h = [k \in 0 .. m |-> Entry(k)]
  BY <1>3, Zenon DEF IsReadFrom
<1>5. ASSUME NEW k \in 0 .. m
      PROVE  Entry(k) = Link(k)
  <2>1. val[k] = current_val(LeftOf(v, k)) /\ rest[k] = Len(next_val(LeftOf(v, k)))
    BY Zenon
  <2>2. k \in C <=> has_current_val(LeftOf(v, k))
    BY Zenon
  <2> HIDE DEF C, val, rest
  <2>3. CASE k \in C
    BY <2>1, <2>2, <2>3, Zenon
  <2>4. CASE k \notin C
    BY <2>2, <2>4, Zenon
  <2> QED
    BY <2>3, <2>4
<1>6. h = [k \in 0 .. m |-> Link(k)]
  <2> HIDE DEF Entry, Link
  <2> QED
    BY <1>4, <1>5
<1>7. IsReading(h, v)
  BY <1>1, <1>6, Zenon DEF IsReading
<1> QED
  BY <1>7

\* Each element is the one that was meant.
LEMMA ListIsRead ==
  ASSUME NEW v, NEW m, NEW n, NEW R, NEW E, IsList(v, m, n, R, E),
         NEW a, AreValues(a, v, n, R, E)
  PROVE  array_to_str_array(v) = a
<1>1. Clear(v) /\ m \in Nat /\ m = Len(v) /\ n \in Nat /\ R \in [1 .. n + 1 -> Nat] /\ E \in [1 .. n -> Nat]
  BY Zenon DEF IsList
<1>2. R[1] = 2 /\ R[n + 1] = m /\ v[1] = "[" /\ v[m] = "]"
  BY Zenon DEF IsList
<1>3. a \in Seq(Seq(Symbol)) /\ Len(a) = n
  BY DEF AreValues
<1>4. CASE n = 0
  <2>1. m = 2
    BY <1>2, <1>4
  <2>2. v = <<"[", "]">>
    <3>1. v \in Seq(Symbol) /\ Len(v) = 2
      BY <1>1, <2>1 DEF Clear
    <3>2. PICK x, y : x = "[" /\ y = "]"
      OBVIOUS
    <3>3. v[1] = x /\ v[2] = y
      BY <1>2, <2>1, <3>2
    <3>4. v = <<x, y>>
      BY <3>1, <3>3
    <3> QED
      BY <3>2, <3>4, Zenon
  <2>3. array_to_str_array(v) = <<>>
    BY <2>2, ReadingIs, Zenon
  <2>4. a = <<>>
    BY <1>3, <1>4
  <2> QED
    BY <2>3, <2>4
<1>5. CASE n # 0
  <2>1. 1 \in 1 .. n /\ n \in 1 .. n
    BY <1>1, <1>5
  <2>2. 5 <= m
    <3>1. IsField(v, n, R, E, 1, R[1], E[1])
      BY <2>1, FieldIs
    <3>2. PICK e \in Nat : e = E[1]
      BY <3>1, Zenon DEF IsField
    <3>3. 2 + 1 < e /\ e < m
      BY <1>1, <1>2, <3>1, <3>2, Zenon DEF IsField
    <3> QED
      BY <1>1, <3>2, <3>3
  <2>3. ~(v \in {<<"[", "]">>, <<"[", Quote, Quote, "]">>} \/ v[1] # "[")
    <3>1. Len(<<"[", "]">>) = 2 /\ Len(<<"[", Quote, Quote, "]">>) = 4
      OBVIOUS
    <3>2. Len(v) # 2 /\ Len(v) # 4
      <4>1. m \in Nat /\ m = Len(v)
        BY <1>1
      <4>2. m # 2 /\ m # 4
        BY <2>2, <4>1
      <4> QED
        BY <4>1, <4>2, Zenon
    <3> QED
      BY <1>2, <3>1, <3>2, Zenon
  <2>4. PICK h : h = CHOOSE g : IsReading(g, v)
    OBVIOUS
  <2>5. array_to_str_array(v) = h[m - 1]
    BY <1>1, <2>3, <2>4, ReadingIs, Zenon
  <2>6. IsReading(h, v)
    <3>1. \E g : IsReading(g, v)
      BY <1>1, ReadsOnce
    <3> QED
      BY <2>4, <3>1, Zenon
  <2>7. ASSUME NEW k \in 0 .. m
        PROVE  h[k] = IF ~has_current_val(LeftOf(v, k)) THEN <<>>
                      ELSE <<current_val(LeftOf(v, k))>> \o h[Len(next_val(LeftOf(v, k)))]
    <3> DEFINE Link(i) == IF ~has_current_val(LeftOf(v, i)) THEN <<>>
                          ELSE <<current_val(LeftOf(v, i))>> \o h[Len(next_val(LeftOf(v, i)))]
    <3>1. h = [i \in 0 .. m |-> Link(i)]
      BY <1>1, <2>6, Zenon DEF IsReading
    <3>2. h[k] = Link(k)
      <4> HIDE DEF Link
      <4> QED
        BY <3>1
    <3> QED
      BY <3>2
  <2>8. ASSUME NEW j \in 1 .. n
        PROVE  /\ m - R[j] + 1 \in 0 .. m
               /\ h[m - R[j] + 1] = <<a[j]>> \o h[Ahead(m, n, R, j)]
    <3>1. IsField(v, n, R, E, j, R[j], E[j])
      BY FieldIs
    <3>2. PICK r \in Nat : r = R[j]
      BY <3>1, Zenon DEF IsField
    <3>3. 2 <= r /\ r <= m
      <4>1. PICK e \in Nat : e = E[j]
        BY <3>1, Zenon DEF IsField
      <4>2. 2 <= r /\ r + 1 < e /\ e < m
        BY <1>1, <3>1, <3>2, <4>1, Zenon DEF IsField
      <4> QED
        BY <1>1, <4>2
    <3>4. PICK k \in 0 .. m : k = m - r + 1 /\ m - k + 1 = r
      <4>1. m - r + 1 \in 0 .. m /\ m - (m - r + 1) + 1 = r
        BY <1>1, <3>3
      <4> QED
        BY <4>1
    <3>5. IsTail(LeftOf(v, k), v, R[j], m)
      BY <1>1, <3>2, <3>4, Zenon DEF IsTail, LeftOf
    <3>6. IsValue(a[j], v, R[j], E[j])
      BY DEF AreValues
    <3>7. /\ has_current_val(LeftOf(v, k)) /\ current_val(LeftOf(v, k)) = a[j]
          /\ Len(next_val(LeftOf(v, k))) = Ahead(m, n, R, j)
      BY <3>5, <3>6, ValueIs
    <3>8. h[k] = <<current_val(LeftOf(v, k))>> \o h[Len(next_val(LeftOf(v, k)))]
      BY <2>7, <3>7, Zenon
    <3>9. h[k] = <<a[j]>> \o h[Ahead(m, n, R, j)]
      BY <3>7, <3>8, Zenon
    <3> QED
      BY <3>2, <3>4, <3>9, Zenon
  <2>9. h[0] = <<>>
    <3>1. 0 \in 0 .. m /\ m - 0 + 1 = m + 1
      BY <1>1
    <3>2. PICK s : s = LeftOf(v, 0)
      OBVIOUS
    <3>3. m + 1 \in Nat \ {0} /\ m + 1 <= m + 1 /\ m <= Len(v)
      BY <1>1
    <3>4. IsCut(SubSeq(v, m + 1, m), v, m + 1, m)
      BY <1>1, <3>3, CutIs
    <3>5. Len(s) = m - (m + 1) + 1
      BY <1>1, <3>1, <3>2, <3>4, Zenon DEF LeftOf, IsCut
    <3>6. Len(s) = 0
      BY <1>1, <3>5
    <3>7. ~has_current_val(s)
      BY <3>6, NothingIsRead
    <3> QED
      BY <2>7, <3>1, <3>2, <3>7, Zenon
  <2> DEFINE G == {i \in 1 .. n : h[m - R[n - i + 1] + 1] = SubSeq(a, n - i + 1, n)}
  <2>10. ASSUME NEW i \in 1 .. n, i = 1 \/ i - 1 \in G
         PROVE  i \in G
    <3>1. PICK j \in 1 .. n : j = n - i + 1
      BY <1>1
    <3>2. h[m - R[j] + 1] = <<a[j]>> \o h[Ahead(m, n, R, j)]
      BY <2>8
    <3>3. h[m - R[j] + 1] = SubSeq(a, j, n)
      <4>1. CASE j = n
        <5>1. Ahead(m, n, R, j) = 0
          BY <4>1 DEF Ahead
        <5>2. <<a[j]>> \o <<>> = SubSeq(a, j, n)
          BY <1>3, <4>1, TailGrows
        <5> QED
          BY <2>9, <3>2, <5>1, <5>2, Zenon
      <4>2. CASE j # n
        <5>1. i - 1 \in 1 .. n /\ n - (i - 1) + 1 = j + 1 /\ i # 1
          BY <1>1, <3>1, <4>2
        <5>2. i - 1 \in G
          BY <2>10, <5>1, Zenon
        <5>3. h[m - R[n - (i - 1) + 1] + 1] = SubSeq(a, n - (i - 1) + 1, n)
          BY <5>2, Zenon
        <5>4. h[m - R[j + 1] + 1] = SubSeq(a, j + 1, n)
          BY <5>1, <5>3, Zenon
        <5>5. Ahead(m, n, R, j) = m - R[j + 1] + 1
          BY <4>2, Zenon DEF Ahead
        <5>6. <<a[j]>> \o SubSeq(a, j + 1, n) = SubSeq(a, j, n)
          BY <1>3, TailGrows
        <5> QED
          BY <3>2, <5>4, <5>5, <5>6, Zenon
      <4> QED
        BY <4>1, <4>2
    <3> QED
      BY <3>1, <3>3, Zenon
  <2>11. n \in G
    <3> HIDE DEF G
    <3> QED
      BY <1>1, <2>1, <2>10, Upward
  <2>12. n - n + 1 = 1 /\ m - 2 + 1 = m - 1
    BY <1>1
  <2>13. h[m - R[n - n + 1] + 1] = SubSeq(a, n - n + 1, n)
    BY <2>11, Zenon
  <2>14. h[m - 1] = SubSeq(a, 1, n)
    BY <1>2, <2>12, <2>13, Zenon
  <2>15. SubSeq(a, 1, n) = a
    <3>1. PICK T : T = Seq(Symbol)
      OBVIOUS
    <3>2. a \in Seq(T) /\ n = Len(a)
      BY <1>3, <3>1
    <3> QED
      BY <3>2
  <2> QED
    BY <2>5, <2>14, <2>15, Zenon
<1> QED
  BY <1>4, <1>5

-----------------------------------------------------------------------------
(* The file that ruri -C reads *)

\* Where the array of the file is.
IsArrayText(v, m, n) ==
  /\ Clear(v) /\ Len(v) = n - (m + 15)
  /\ \A i \in 1 .. n - (m + 15) : v[i] = text[m + 14 + i]

\* An element is where the writer put it.
IsPut(v, o, c, P, j, r, l) ==
  /\ r \in Nat /\ l \in Nat /\ r = P[j] - o /\ l = Len(written.array[j]) /\ 2 <= r /\ 1 <= l
  /\ v[r] = Quote /\ v[r + l + 1] = Quote
  /\ \A k \in 1 .. l : v[r + k] = written.array[j][k] /\ v[r + k] \notin {Quote, "[", "]"}
  /\ j = c => P[j + 1] - o = r + l + 2
  /\ j # c => P[j + 1] - o = r + l + 3 /\ v[r + l + 2] = ","

\* All elements are.
LEMMA PutIs ==
  ASSUME NEW P, Shape(P), Plain, NEW m \in Nat, NEW n \in Nat, m = M, n = N,
         NEW v, IsArrayText(v, m, n), NEW j \in 1 .. Count, NEW o \in Nat, o = m + 14
  PROVE  \E r, l : IsPut(v, o, Count, P, j, r, l)
<1>1. PICK c \in Nat : c = Count
  BY PlacesAre
<1>2. PICK p \in Nat, l \in Nat : IsElement(P, j, p, l)
  BY ElementIs
<1>3. PICK z \in Nat : z = P[c + 1]
  <2>1. P \in [1 .. c + 1 -> Nat] /\ c + 1 \in 1 .. c + 1
    BY <1>1, PlacesAre
  <2> QED
    BY <2>1
<1>4. n = z + 1 /\ m + 16 <= p /\ p + l + 2 <= z
  <2>1. N = P[Count + 1] + 1
    BY PlacesAre
  <2> QED
    BY <1>1, <1>2, <1>3, <2>1, Zenon DEF IsElement
<1>5. PICK r \in Nat : r = p - o /\ o + r = p /\ 2 <= r
  <2>1. p - o \in Nat /\ o + (p - o) = p /\ 2 <= p - o
    BY <1>4
  <2> QED
    BY <2>1
<1>6. l # 0
  <2>1. written.array[j] \in Range(written.array) /\ written.array[j] \in Seq(STRING)
    BY ValuesAre DEF Shape
  <2>2. written.array[j] # <<>>
    BY <2>1 DEF Plain
  <2>3. Len(written.array[j]) # 0
    BY <2>1, <2>2
  <2> QED
    BY <1>2, <2>3, Zenon DEF IsElement
<1>7. ASSUME NEW i \in 0 .. l + 2
      PROVE  v[r + i] = text[p + i]
  <2>1. r + i \in 1 .. n - (m + 15) /\ m + 14 + (r + i) = p + i
    BY <1>4, <1>5
  <2>2. v[r + i] = text[m + 14 + (r + i)]
    BY <2>1 DEF IsArrayText
  <2> QED
    BY <2>1, <2>2, Zenon
<1>8. v[r] = Quote /\ v[r + l + 1] = Quote /\ (j # c => v[r + l + 2] = ",")
  <2>1. /\ 0 \in 0 .. l + 2 /\ l + 1 \in 0 .. l + 2 /\ l + 2 \in 0 .. l + 2
        /\ r + 0 = r /\ p + 0 = p /\ r + (l + 1) = r + l + 1 /\ p + (l + 1) = p + l + 1
        /\ r + (l + 2) = r + l + 2 /\ p + (l + 2) = p + l + 2
    OBVIOUS
  <2>2. v[r + 0] = text[p + 0] /\ v[r + (l + 1)] = text[p + (l + 1)] /\ v[r + (l + 2)] = text[p + (l + 2)]
    BY <1>7, <2>1, Zenon
  <2>3. v[r] = text[p] /\ v[r + l + 1] = text[p + l + 1] /\ v[r + l + 2] = text[p + l + 2]
    BY <2>1, <2>2, Zenon
  <2> QED
    BY <1>1, <1>2, <2>3, Zenon DEF IsElement
<1>9. ASSUME NEW k \in 1 .. l
      PROVE  v[r + k] = written.array[j][k] /\ v[r + k] \notin {Quote, "[", "]"}
  <2>1. v[r + k] = text[p + k]
    BY <1>7
  <2>2. text[p + k] = written.array[j][k] /\ text[p + k] \in Chars
    BY <1>2, Zenon DEF IsElement
  <2>3. Chars \cap {Quote, Slash, NL, "[", "]"} = {}
    BY DEF Plain
  <2>4. \A x : x \in Chars => x \notin {Quote, "[", "]"}
    BY <2>3
  <2> QED
    BY <2>1, <2>2, <2>4, Zenon
<1>10. PICK q : q = P[j + 1]
  OBVIOUS
<1>11. (j = c => q = p + l + 2) /\ (j # c => q = p + l + 3)
  BY <1>1, <1>2, <1>10, Zenon DEF IsElement
<1>12. (j = c => q - o = r + l + 2) /\ (j # c => q - o = r + l + 3)
  BY <1>5, <1>11
<1>13. r = P[j] - o /\ l = Len(written.array[j])
  BY <1>2, <1>5, Zenon DEF IsElement
<1>14. 1 <= l
  BY <1>6
<1>15. IsPut(v, o, c, P, j, r, l)
  BY <1>5, <1>8, <1>9, <1>10, <1>12, <1>13, <1>14, Zenon DEF IsPut
<1> QED
  BY <1>1, <1>15, Zenon

\* The array of the file is a list of its elements.
LEMMA ListInText ==
  ASSUME NEW P, Shape(P), Plain, NEW m \in Nat, NEW n \in Nat, m = M, n = N, IsMarked(m, n),
         NEW v, IsArrayText(v, m, n), NEW g, g = n - (m + 15)
  PROVE  \E R, E : IsList(v, g, Count, R, E) /\ AreValues(written.array, v, Count, R, E)
<1>1. PICK c \in Nat : c = Count
  BY PlacesAre
<1>2. /\ P \in [1 .. c + 1 -> Nat] /\ P[1] = m + 16 /\ n = P[c + 1] + 1 /\ text[P[c + 1]] = "]"
      /\ \A i \in 1 .. c + 1 : m + 16 <= P[i] /\ P[i] <= P[c + 1]
  BY <1>1, PlacesAre, Zenon
<1>3. PICK o \in Nat : o = m + 14
  OBVIOUS
<1>4. PICK a : a = written.array
  OBVIOUS
<1>5. \A j \in 1 .. c : \E r, l : IsPut(v, o, c, P, j, r, l)
  BY <1>1, <1>3, PutIs
<1> DEFINE R == [j \in 1 .. c + 1 |-> P[j] - o]
           E == [j \in 1 .. c |-> P[j] - o + (Len(a[j]) + 1)]
<1>6. R \in [1 .. c + 1 -> Nat]
  <2>1. \A j \in 1 .. c + 1 : P[j] - o \in Nat
    BY <1>2, <1>3
  <2> QED
    BY <2>1
<1>7. 1 \in 1 .. c + 1 /\ c + 1 \in 1 .. c + 1 /\ \A j \in 1 .. c : j \in 1 .. c + 1 /\ j + 1 \in 1 .. c + 1
  OBVIOUS
<1>8. g \in Nat /\ R[1] = 2 /\ R[c + 1] = g
  <2>1. PICK z \in Nat : z = P[c + 1]
    BY <1>2, <1>7
  <2>2. n = z + 1 /\ m + 16 <= z
    BY <1>2, <1>7, <2>1
  <2>3. z - o = g /\ g \in Nat
    BY <1>3, <2>2
  <2>4. R[1] = (m + 16) - o /\ R[c + 1] = z - o
    BY <1>2, <1>7, <2>1
  <2>5. (m + 16) - o = 2
    BY <1>3
  <2> QED
    BY <2>3, <2>4, <2>5
<1>9. ASSUME NEW j \in 1 .. c
      PROVE  /\ IsPut(v, o, c, P, j, R[j], Len(a[j])) /\ R[j] \in Nat /\ Len(a[j]) \in Nat
             /\ E[j] = R[j] + (Len(a[j]) + 1) /\ R[j + 1] = P[j + 1] - o
  <2>1. PICK r, l : IsPut(v, o, c, P, j, r, l)
    BY <1>5
  <2>2. R[j] = P[j] - o /\ R[j + 1] = P[j + 1] - o /\ E[j] = P[j] - o + (Len(a[j]) + 1)
    BY <1>7
  <2> HIDE DEF R, E
  <2>3. r = R[j] /\ l = Len(a[j]) /\ r \in Nat /\ l \in Nat
    BY <1>4, <2>1, <2>2, Zenon DEF IsPut
  <2> QED
    BY <2>1, <2>2, <2>3, Zenon
<1>10. E \in [1 .. c -> Nat]
  <2>1. ASSUME NEW j \in 1 .. c
        PROVE  E[j] \in Nat
    <3> HIDE DEF R, E
    <3>1. PICK x \in Nat, y \in Nat : x = R[j] /\ y = Len(a[j])
      BY <1>9
    <3>2. E[j] = x + (y + 1)
      BY <1>9, <3>1, Zenon
    <3> QED
      BY <3>2
  <2> QED
    BY <2>1
<1> HIDE DEF R, E
<1>11. ASSUME NEW j \in 1 .. c
       PROVE  /\ R[j] + 1 < E[j] /\ v[R[j]] = Quote /\ v[E[j]] = Quote
              /\ \A x \in Nat : R[j] < x /\ x < E[j] => v[x] \notin {Quote, "[", "]"}
              /\ IF j = c THEN R[j + 1] = E[j] + 1
                 ELSE R[j + 1] = E[j] + 2 /\ v[E[j] + 1] = ","
  <2>1. PICK r \in Nat, l \in Nat : r = R[j] /\ l = Len(a[j])
    BY <1>9
  <2>2. PICK e \in Nat : e = E[j]
    BY <1>10
  <2>3. e = r + (l + 1) /\ e = r + l + 1
    <3>1. e = r + (l + 1)
      BY <1>9, <2>1, <2>2, Zenon
    <3> QED
      BY <3>1
  <2>4. IsPut(v, o, c, P, j, r, l)
    BY <1>9, <2>1, Zenon
  <2>5. 1 <= l /\ v[r] = Quote /\ v[r + l + 1] = Quote
    BY <2>4, Zenon DEF IsPut
  <2>6. r + 1 < e
    <3>1. 1 <= l
      BY <2>5
    <3> QED
      BY <2>3, <3>1
  <2>7. ASSUME NEW x \in Nat, r < x, x < e
        PROVE  v[x] \notin {Quote, "[", "]"}
    <3>1. PICK k \in 1 .. l : x = r + k
      <4>1. x - r \in 1 .. l /\ x = r + (x - r)
        BY <2>3, <2>7
      <4> QED
        BY <4>1
    <3>2. v[r + k] \notin {Quote, "[", "]"}
      BY <2>4, Zenon DEF IsPut
    <3> QED
      BY <3>1, <3>2, Zenon
  <2>8. PICK q : q = R[j + 1]
    OBVIOUS
  <2>9. (j = c => q = r + l + 2) /\ (j # c => q = r + l + 3 /\ v[r + l + 2] = ",")
    BY <1>9, <2>4, <2>8, Zenon DEF IsPut
  <2>10. r + l + 2 = e + 1 /\ r + l + 3 = e + 2
    BY <2>3
  <2>11. (j = c => q = e + 1) /\ (j # c => q = e + 2 /\ v[e + 1] = ",")
    BY <2>9, <2>10, Zenon
  <2>12. v[e] = Quote
    BY <2>3, <2>5, Zenon
  <2>13. IF j = c THEN q = e + 1 ELSE q = e + 2 /\ v[e + 1] = ","
    BY <2>11, Zenon
  <2> QED
    BY <2>1, <2>2, <2>5, <2>6, <2>7, <2>8, <2>12, <2>13, Zenon
<1>12. Elements(v, c, R, E)
  BY <1>11, Zenon DEF Elements
<1>13. ASSUME NEW i \in 1 .. c + 1, NEW j \in 1 .. c + 1, i < j
       PROVE  R[i] < R[j]
  <2>1. i \in 1 .. c /\ i + 1 \in 1 .. c + 1 /\ i + 1 <= j
    BY <1>13
  <2>2. R[i] \in Nat /\ R[i + 1] \in Nat /\ R[j] \in Nat /\ E[i] \in Nat
    BY <1>6, <1>10, <2>1
  <2>3. R[i] < R[i + 1]
    <3>1. R[i] + 1 < E[i] /\ (R[i + 1] = E[i] + 1 \/ R[i + 1] = E[i] + 2)
      BY <1>11, <2>1, Zenon
    <3> QED
      BY <2>2, <3>1
  <2>4. R[i + 1] <= R[j]
    <3>1. written.array \in Seq(Seq(STRING)) /\ AreElements(text, written.array, P)
      BY DEF Shape, AsWritten, IsLaidOut
    <3>2. \A x, y \in 1 .. c + 1 : x <= y => P[x] <= P[y]
      BY <1>1, <3>1, ElementsGrow, Zenon DEF Count
    <3>3. P[i + 1] <= P[j]
      BY <2>1, <3>2
    <3>4. R[i + 1] = P[i + 1] - o /\ R[j] = P[j] - o
      BY <2>1 DEF R
    <3>5. P[i + 1] \in Nat /\ P[j] \in Nat
      BY <1>2, <2>1
    <3> QED
      BY <3>3, <3>4, <3>5
  <2> QED
    BY <2>2, <2>3, <2>4
<1>14. v[1] = "[" /\ v[g] = "]"
  <2>1. m + 14 + 1 = m + 15 /\ 1 \in 1 .. g /\ g \in 1 .. g /\ m + 14 + g = n - 1
    <3>1. m + 17 <= n
      BY DEF IsMarked
    <3> QED
      BY <3>1
  <2>2. v[1] = text[m + 14 + 1] /\ v[g] = text[m + 14 + g]
    BY <2>1 DEF IsArrayText
  <2>3. text[m + 15] = "["
    BY Zenon DEF IsMarked
  <2>4. n - 1 = P[c + 1]
    <3>1. P[c + 1] \in Nat
      BY <1>2, <1>7
    <3>2. n = P[c + 1] + 1
      BY <1>2
    <3> QED
      BY <3>1, <3>2
  <2> QED
    BY <1>2, <2>1, <2>2, <2>3, <2>4, Zenon
<1>15. Clear(v) /\ g = Len(v)
  BY DEF IsArrayText
<1>16. IsList(v, g, c, R, E)
  BY <1>6, <1>8, <1>10, <1>12, <1>13, <1>14, <1>15, Zenon DEF IsList
<1>17. ASSUME NEW j \in 1 .. c
       PROVE  IsValue(a[j], v, R[j], E[j])
  <2>1. a[j] \in Seq(STRING)
    BY <1>1, <1>4, ValuesAre DEF Shape
  <2>2. a[j] \in Seq(Symbol)
    BY <2>1 DEF Symbol
  <2>3. PICK r \in Nat, l \in Nat : r = R[j] /\ l = Len(a[j])
    BY <1>9
  <2>4. PICK e \in Nat : e = E[j]
    BY <1>10
  <2>5. e = r + (l + 1)
    BY <1>9, <2>3, <2>4, Zenon
  <2>6. e - r - 1 = l
    BY <2>5
  <2>7. IsPut(v, o, c, P, j, r, l)
    BY <1>9, <2>3, Zenon
  <2>8. \A i \in 1 .. l : a[j][i] = v[r + i]
    BY <1>4, <2>7, Zenon DEF IsPut
  <2> QED
    BY <2>2, <2>3, <2>4, <2>6, <2>8, Zenon DEF IsValue
<1>18. a \in Seq(Seq(Symbol)) /\ Len(a) = c
  <2>1. a \in Seq(Seq(STRING)) /\ Len(a) = c
    BY <1>1, <1>4 DEF Shape, Count
  <2>2. \A j \in 1 .. c : a[j] \in Seq(Symbol)
    BY <1>17, Zenon DEF IsValue
  <2>3. PICK T : T = Seq(Symbol)
    OBVIOUS
  <2>4. \A j \in 1 .. Len(a) : a[j] \in T
    BY <2>1, <2>2, <2>3
  <2>5. a \in Seq(T)
    BY <2>1, <2>4
  <2> QED
    BY <2>1, <2>3, <2>5
<1>19. AreValues(a, v, c, R, E)
  BY <1>17, <1>18, Zenon DEF AreValues
<1> QED
  BY <1>1, <1>4, <1>16, <1>19, Zenon

\* The ends of the lines of the file.
EndsOf(m, n) == [i \in 1 .. 5 |-> IF i = 1 THEN 2 ELSE IF i = 2 THEN 6
                                  ELSE IF i = 3 THEN m + 11 ELSE IF i = 4 THEN m + 12 ELSE n]

\* No line ends in the array.
LEMMA NoEndInArray ==
  ASSUME NEW P, Shape(P), Plain, NEW m \in Nat, NEW n \in Nat, m = M, n = N, IsMarked(m, n),
         NEW v, IsArrayText(v, m, n), NEW x \in 1 .. n - (m + 15)
  PROVE  v[x] # NL
<1>1. PICK g \in Nat : g = n - (m + 15)
  <2>1. m + 17 <= n
    BY DEF IsMarked
  <2> QED
    BY <2>1
<1>2. PICK c \in Nat : c = Count
  BY PlacesAre
<1>3. PICK R, E : IsList(v, g, c, R, E) /\ AreValues(written.array, v, c, R, E)
  BY <1>1, <1>2, ListInText
<1>4. IsPlace(v, g, c, R, E, x)
  BY <1>1, <1>3, PlaceIs
<1>5. NL # Quote /\ NL # "[" /\ NL # "]" /\ NL # ","
  BY Zenon DEF NL, Quote
<1>6. ASSUME NEW j \in 1 .. c, R[j] < x, x < E[j]
      PROVE  v[x] # NL
  <2>1. PICK r \in Nat, e \in Nat : r = R[j] /\ e = E[j]
    BY <1>3, FieldIs, Zenon DEF IsField
  <2>2. IsValue(written.array[j], v, r, e)
    BY <1>3, <2>1, Zenon DEF AreValues
  <2>3. PICK i \in 1 .. e - r - 1 : r + i = x
    <3>1. x - r \in 1 .. e - r - 1 /\ r + (x - r) = x
      BY <1>1, <1>6, <2>1
    <3> QED
      BY <3>1
  <2>4. written.array[j][i] = v[x] /\ Len(written.array[j]) = e - r - 1
    BY <2>2, <2>3, Zenon DEF IsValue
  <2>5. written.array[j][i] \in Chars
    BY <1>2, <2>3, <2>4, ValuesAre DEF Shape
  <2>6. Chars \cap {Quote, Slash, NL, "[", "]"} = {}
    BY DEF Plain
  <2>7. \A y : y \in Chars => y # NL
    BY <2>6
  <2> QED
    BY <2>4, <2>5, <2>7, Zenon
<1> QED
  BY <1>4, <1>5, <1>6, Zenon DEF IsPlace

\* The lines of the file end there.
LEMMA EndsAre ==
  ASSUME NEW P, Shape(P), Plain, NEW m \in Nat, NEW n \in Nat, m = M, n = N, IsMarked(m, n),
         text \in Seq(Symbol)
  PROVE  Lists(EndsOf(m, n), 5, {i \in 1 .. n : text[i] = NL})
<1>1. m + 17 <= n
  BY DEF IsMarked
<1>2. Clear(text) /\ Len(text) = n
  <2>1. Len(text) = n /\ \A i \in 1 .. n : text[i] # Slash
    BY Zenon DEF IsMarked, N
  <2> QED
    BY <2>1, Zenon DEF Clear
<1>3. PICK v : IsArrayText(v, m, n)
  <2>1. m + 15 \in Nat \ {0} /\ n - 1 \in Nat /\ m + 15 <= (n - 1) + 1 /\ n - 1 <= Len(text)
    BY <1>1, <1>2
  <2>2. PICK v : IsCut(v, text, m + 15, n - 1)
    BY <1>2, <2>1, CutIs
  <2>3. (n - 1) - (m + 15) + 1 = n - (m + 15)
    OBVIOUS
  <2>4. Clear(v) /\ Len(v) = n - (m + 15)
    BY <2>2, <2>3 DEF IsCut
  <2>5. ASSUME NEW i \in 1 .. n - (m + 15)
        PROVE  v[i] = text[m + 14 + i]
    <3>1. v[i] = text[m + 15 + i - 1]
      BY <2>2, <2>3 DEF IsCut
    <3>2. m + 15 + i - 1 = m + 14 + i
      OBVIOUS
    <3> QED
      BY <3>1, <3>2, Zenon
  <2> QED
    BY <2>4, <2>5 DEF IsArrayText
<1>4. PICK nl : nl = NL
  OBVIOUS
<1>5. /\ nl # Quote /\ nl # "[" /\ nl # "#" /\ nl # "=" /\ nl # " " /\ nl # "a" /\ nl # "k" /\ nl # "l"
  BY <1>4, Zenon DEF NL, Quote
<1>6. /\ text[2] = nl /\ text[6] = nl /\ text[m + 11] = nl /\ text[m + 12] = nl /\ text[n] = nl
      /\ text[1] # nl /\ text[3] # nl /\ text[4] # nl /\ text[5] # nl /\ text[7] # nl /\ text[8] # nl
      /\ text[9] # nl /\ text[m + 10] # nl /\ text[m + 13] # nl /\ text[m + 14] # nl
  BY <1>4, <1>5, Zenon DEF IsMarked
<1>7. \A i \in 1 .. m : text[i + 9] # nl
  BY <1>4, Zenon DEF IsMarked
<1>8. \A x \in 1 .. n - (m + 15) : text[m + 14 + x] # nl
  <2>1. \A x \in 1 .. n - (m + 15) : v[x] # NL
    BY <1>3, NoEndInArray
  <2> QED
    BY <1>3, <1>4, <2>1 DEF IsArrayText
<1>9. ASSUME NEW i \in 1 .. n, text[i] = nl
      PROVE  i \in {2, 6, m + 11, m + 12, n}
  <2>1. i # 1 /\ i # 3 /\ i # 4 /\ i # 5 /\ i # 7 /\ i # 8 /\ i # 9 /\ i # m + 10 /\ i # m + 13 /\ i # m + 14
    BY <1>6, <1>9, Zenon
  <2>2. ~(10 <= i /\ i <= m + 9)
    <3> SUFFICES ASSUME 10 <= i, i <= m + 9
                 PROVE  FALSE
      OBVIOUS
    <3>1. PICK y \in 1 .. m : y + 9 = i
      <4>1. i - 9 \in 1 .. m /\ (i - 9) + 9 = i
        OBVIOUS
      <4> QED
        BY <4>1
    <3> QED
      BY <1>7, <1>9, <3>1, Zenon
  <2>3. ~(m + 15 <= i /\ i <= n - 1)
    <3> SUFFICES ASSUME m + 15 <= i, i <= n - 1
                 PROVE  FALSE
      OBVIOUS
    <3>1. PICK y \in 1 .. n - (m + 15) : m + 14 + y = i
      <4>1. i - (m + 14) \in 1 .. n - (m + 15) /\ m + 14 + (i - (m + 14)) = i
        OBVIOUS
      <4> QED
        BY <4>1
    <3> QED
      BY <1>8, <1>9, <3>1, Zenon
  <2> QED
    BY <2>1, <2>2, <2>3
<1> DEFINE f == EndsOf(m, n)
<1>10. /\ f \in [1 .. 5 -> Nat] /\ f[1] = 2 /\ f[2] = 6 /\ f[3] = m + 11 /\ f[4] = m + 12 /\ f[5] = n
  BY DEF EndsOf
<1> HIDE DEF f
<1>11. ASSUME NEW i \in 1 .. 5, NEW j \in 1 .. 5, i < j
       PROVE  f[i] < f[j]
  <2>1. 2 < 6 /\ 6 < m + 11 /\ m + 11 < m + 12 /\ m + 12 < n
    BY <1>1
  <2>2. i \in {1, 2, 3, 4, 5} /\ j \in {1, 2, 3, 4, 5}
    OBVIOUS
  <2> QED
    BY <1>1, <1>10, <1>11, <2>1, <2>2
<1>12. {i \in 1 .. n : text[i] = NL} = {f[i] : i \in 1 .. 5}
  <2>1. \A i \in 1 .. n : text[i] = nl => \E j \in 1 .. 5 : i = f[j]
    <3>1. 1 \in 1 .. 5 /\ 2 \in 1 .. 5 /\ 3 \in 1 .. 5 /\ 4 \in 1 .. 5 /\ 5 \in 1 .. 5
      OBVIOUS
    <3>2. \A i \in 1 .. n : text[i] = nl => i = f[1] \/ i = f[2] \/ i = f[3] \/ i = f[4] \/ i = f[5]
      BY <1>9, <1>10
    <3> QED
      BY <3>1, <3>2, Zenon
  <2>2. \A j \in 1 .. 5 : f[j] \in 1 .. n /\ text[f[j]] = nl
    <3>1. \A j \in 1 .. 5 : j = 1 \/ j = 2 \/ j = 3 \/ j = 4 \/ j = 5
      OBVIOUS
    <3>2. 2 \in 1 .. n /\ 6 \in 1 .. n /\ m + 11 \in 1 .. n /\ m + 12 \in 1 .. n /\ n \in 1 .. n
      BY <1>1
    <3> QED
      BY <1>6, <1>10, <3>1, <3>2, Zenon
  <2>3. \A i \in 1 .. n : text[i] = NL <=> text[i] = nl
    BY <1>4, Zenon
  <2>4. {i \in 1 .. n : text[i] = nl} = {f[i] : i \in 1 .. 5}
    <3> DEFINE L == {i \in 1 .. n : text[i] = nl}
               K == {f[i] : i \in 1 .. 5}
    <3>1. \A x : x \in L => x \in K
      BY <2>1, Zenon
    <3>2. \A x : x \in K => x \in L
      BY <2>2, Zenon
    <3> HIDE DEF L, K
    <3>3. L = K
      BY <3>1, <3>2
    <3> QED
      BY <3>3 DEF L, K
  <2>5. {i \in 1 .. n : text[i] = nl} = {i \in 1 .. n : text[i] = NL}
    BY <1>4, Zenon
  <2> QED
    BY <2>4, <2>5, Zenon
<1>13. Lists(f, 5, {i \in 1 .. n : text[i] = NL})
  BY <1>10, <1>11, <1>12 DEF Lists, Rises
<1> QED
  BY <1>13 DEF f

\* The lines of the file.
IsLines(L, m, n) ==
  /\ DOMAIN L = 1 .. 5
  /\ L[1] = SubSeq(text, 1, 1) /\ L[2] = SubSeq(text, 3, 5) /\ L[3] = SubSeq(text, 7, m + 10)
  /\ L[4] = SubSeq(text, m + 12, m + 11) /\ L[5] = SubSeq(text, m + 13, n - 1)

\* They are between the ends.
LEMMA LinesAre ==
  ASSUME NEW P, Shape(P), Plain, NEW m \in Nat, NEW n \in Nat, m = M, n = N, IsMarked(m, n),
         text \in Seq(Symbol)
  PROVE  IsLines(LinesOf(text), m, n)
<1>1. m + 17 <= n
  BY DEF IsMarked
<1>2. Len(text) = n /\ DOMAIN text = 1 .. n
  BY DEF N
<1> DEFINE f == EndsOf(m, n)
<1>3. InOrder({i \in 1 .. n : text[i] = NL}) = f
  BY EndsAre, InOrderIs
<1>4. /\ f \in [1 .. 5 -> Nat] /\ f[1] = 2 /\ f[2] = 6 /\ f[3] = m + 11 /\ f[4] = m + 12 /\ f[5] = n
  BY DEF EndsOf
<1>5. Len(f) = 5
  BY EndsAre, LenOfList
<1> HIDE DEF f
<1> DEFINE Begin(i) == IF i = 1 THEN 1 ELSE f[i - 1] + 1
           End(i) == IF i > Len(f) THEN Len(text) ELSE f[i] - 1
           count == Len(f) + (IF text # <<>> /\ text[Len(text)] # NL THEN 1 ELSE 0)
<1>6. LinesOf(text) = [i \in 1 .. count |-> SubSeq(text, Begin(i), End(i))]
  BY <1>2, <1>3, Zenon DEF LinesOf
<1>7. count = 5
  <2>1. text[Len(text)] = NL
    BY <1>2, Zenon DEF IsMarked
  <2>2. count = 5 + 0
    BY <1>5, <2>1, Zenon
  <2> QED
    BY <2>2
<1>8. /\ Begin(1) = 1 /\ Begin(2) = 3 /\ Begin(3) = 7 /\ Begin(4) = m + 12 /\ Begin(5) = m + 13
  BY <1>4
<1>9. /\ End(1) = 1 /\ End(2) = 5 /\ End(3) = m + 10 /\ End(4) = m + 11 /\ End(5) = n - 1
  BY <1>4, <1>5
<1> HIDE DEF Begin, End, count
<1>10. LinesOf(text) = [i \in 1 .. 5 |-> SubSeq(text, Begin(i), End(i))]
  BY <1>6, <1>7, Zenon
<1>11. /\ DOMAIN LinesOf(text) = 1 .. 5
       /\ \A i \in 1 .. 5 : LinesOf(text)[i] = SubSeq(text, Begin(i), End(i))
  BY <1>10, Zenon
<1>12. 1 \in 1 .. 5 /\ 2 \in 1 .. 5 /\ 3 \in 1 .. 5 /\ 4 \in 1 .. 5 /\ 5 \in 1 .. 5
  OBVIOUS
<1> QED
  BY <1>8, <1>9, <1>11, <1>12, Zenon DEF IsLines

\* What PartsAt() takes, one by one.
LEMMA PartsAtHas ==
  ASSUME NEW s, NEW n, NEW f, NEW S, Lists(f, n, S)
  PROVE  DOMAIN PartsAt(s, S) = 1 .. n /\ \A i \in 1 .. n : PartsAt(s, S)[i] = s[f[i]]
<1>1. PICK t : t = PartsAt(s, S)
  OBVIOUS
<1>2. t = [i \in 1 .. n |-> s[f[i]]]
  BY <1>1, PartsAtIs
<1>3. DOMAIN t = 1 .. n /\ \A i \in 1 .. n : t[i] = s[f[i]]
  BY <1>2
<1> QED
  BY <1>1, <1>3, Zenon

\* The two with a key.
KeyLine(m) == SubSeq(text, 7, m + 10)
ArrayLine(m, n) == SubSeq(text, m + 13, n - 1)
HasTwo(t, x, y) == DOMAIN t = 1 .. 2 /\ t[1] = x /\ t[2] = y

\* What remains are they.
LEMMA CommentsGo ==
  ASSUME NEW P, Shape(P), Plain, NEW m \in Nat, NEW n \in Nat, m = M, n = N, IsMarked(m, n),
         text \in Seq(Symbol), ~is_coment_line(KeyLine(m)), ~is_coment_line(ArrayLine(m, n))
  PROVE  HasTwo(remove_comment(text), KeyLine(m), ArrayLine(m, n))
<1>1. m + 17 <= n
  BY DEF IsMarked
<1>2. Clear(text) /\ Len(text) = n
  <2>1. Len(text) = n /\ \A i \in 1 .. n : text[i] # Slash
    BY Zenon DEF IsMarked, N
  <2> QED
    BY <2>1, Zenon DEF Clear
<1>3. PICK L : L = LinesOf(text)
  OBVIOUS
<1>4. IsLines(L, m, n)
  BY <1>3, LinesAre
<1>5. L[3] = KeyLine(m) /\ L[5] = ArrayLine(m, n)
  BY <1>4, Zenon DEF IsLines, KeyLine, ArrayLine
<1>6. is_coment_line(L[1])
  <2>1. IsCut(SubSeq(text, 1, 1), text, 1, 1)
    BY <1>1, <1>2, CutIs
  <2>2. IsCut(L[1], text, 1, 1)
    BY <1>4, <2>1, Zenon DEF IsLines
  <2>3. PICK s : s = L[1]
    OBVIOUS
  <2>4. Clear(s) /\ Len(s) = 1 /\ s[1] = text[1]
    BY <2>2, <2>3 DEF IsCut
  <2>5. 1 \in DOMAIN s /\ 1 .. 1 - 1 = {}
    BY <2>4 DEF Clear
  <2>6. text[1] = "#"
    BY DEF IsMarked
  <2>7. \E i \in DOMAIN s : s[i] = "#" /\ \A j \in 1 .. i - 1 : s[j] = " "
    BY <2>4, <2>5, <2>6, Zenon
  <2> QED
    BY <2>3, <2>7, Zenon DEF is_coment_line
<1>7. is_coment_line(L[2])
  <2>1. IsCut(SubSeq(text, 3, 5), text, 3, 5)
    BY <1>1, <1>2, CutIs
  <2>2. IsCut(L[2], text, 3, 5)
    BY <1>4, <2>1, Zenon DEF IsLines
  <2>3. PICK s : s = L[2]
    OBVIOUS
  <2>4. Clear(s) /\ Len(s) = 3 /\ s[1] = text[3]
    BY <2>2, <2>3 DEF IsCut
  <2>5. 1 \in DOMAIN s /\ 1 .. 1 - 1 = {}
    BY <2>4 DEF Clear
  <2>6. text[3] = "#"
    BY DEF IsMarked
  <2>7. \E i \in DOMAIN s : s[i] = "#" /\ \A j \in 1 .. i - 1 : s[j] = " "
    BY <2>4, <2>5, <2>6, Zenon
  <2> QED
    BY <2>3, <2>7, Zenon DEF is_coment_line
<1>8. is_coment_line(L[4])
  <2>1. PICK a \in Nat \ {0}, b \in Nat : a = m + 12 /\ b = m + 11 /\ a <= b + 1 /\ b <= n
    <3>1. m + 12 \in Nat \ {0} /\ m + 11 \in Nat /\ m + 12 <= (m + 11) + 1 /\ m + 11 <= n
      BY <1>1
    <3> QED
      BY <3>1
  <2>2. IsCut(SubSeq(text, a, b), text, a, b)
    BY <1>2, <2>1, CutIs
  <2>3. PICK s : s = L[4]
    OBVIOUS
  <2>4. IsCut(s, text, a, b)
    BY <1>4, <2>1, <2>2, <2>3, Zenon DEF IsLines
  <2>5. s \in Seq(Symbol) /\ Len(s) = b - a + 1
    BY <2>4 DEF IsCut, Clear
  <2>6. b - a + 1 = 0
    BY <2>1
  <2>7. s = <<>>
    BY <2>5, <2>6
  <2> QED
    BY <2>3, <2>7, Zenon DEF is_coment_line
<1> DEFINE K == {i \in DOMAIN L : ~is_coment_line(L[i])}
           f == [i \in 1 .. 2 |-> IF i = 1 THEN 3 ELSE 5]
<1>9. f \in [1 .. 2 -> Nat] /\ f[1] = 3 /\ f[2] = 5
  OBVIOUS
<1>10. K = {3, 5}
  <2>1. \A i \in 1 .. 5 : i = 1 \/ i = 2 \/ i = 3 \/ i = 4 \/ i = 5
    OBVIOUS
  <2>2. DOMAIN L = 1 .. 5
    BY <1>4 DEF IsLines
  <2>3. 3 \in 1 .. 5 /\ 5 \in 1 .. 5
    OBVIOUS
  <2>4. ~is_coment_line(L[3]) /\ ~is_coment_line(L[5])
    BY <1>5, Zenon
  <2>5. \A i : i \in K => i \in {3, 5}
    BY <1>6, <1>7, <1>8, <2>1, <2>2, Zenon
  <2>6. 3 \in K /\ 5 \in K
    BY <2>2, <2>3, <2>4, Zenon
  <2> HIDE DEF K
  <2> QED
    BY <2>5, <2>6
<1> HIDE DEF f, K
<1>11. Lists(f, 2, K)
  <2>1. \A i, j \in 1 .. 2 : i < j => i = 1 /\ j = 2
    OBVIOUS
  <2>2. \A i, j \in 1 .. 2 : i < j => f[i] < f[j]
    BY <1>9, <2>1
  <2>3. {3, 5} = {f[i] : i \in 1 .. 2}
    <3>1. \A i \in 1 .. 2 : i = 1 \/ i = 2
      OBVIOUS
    <3>2. 1 \in 1 .. 2 /\ 2 \in 1 .. 2
      OBVIOUS
    <3> QED
      BY <1>9, <3>1, <3>2
  <2> QED
    BY <1>9, <1>10, <2>2, <2>3 DEF Lists, Rises
<1>12. remove_comment(text) = PartsAt(L, K)
  BY <1>3, Zenon DEF remove_comment, K
<1>13. DOMAIN PartsAt(L, K) = 1 .. 2 /\ \A i \in 1 .. 2 : PartsAt(L, K)[i] = L[f[i]]
  <2>1. PICK g, S, z : g = f /\ S = K /\ z = 2
    OBVIOUS
  <2>2. Lists(g, z, S)
    BY <1>11, <2>1, Zenon
  <2>3. DOMAIN PartsAt(L, S) = 1 .. z /\ \A i \in 1 .. z : PartsAt(L, S)[i] = L[g[i]]
    BY <2>2, PartsAtHas
  <2> QED
    BY <2>1, <2>3, Zenon
<1>14. 1 \in 1 .. 2 /\ 2 \in 1 .. 2
  OBVIOUS
<1>15. HasTwo(PartsAt(L, K), L[3], L[5])
  BY <1>9, <1>13, <1>14, Zenon DEF HasTwo
<1> QED
  BY <1>5, <1>12, <1>15, Zenon

\* A line of a text that is one with a key.
LEMMA RowIs ==
  ASSUME NEW t, Clear(t), NEW a \in Nat \ {0}, NEW b \in Nat, NEW k \in Nat, k = b - a + 1, 4 <= k,
         b <= Len(t), NEW c, c \notin {Space, "=", Quote}, t[a] = c, t[a + 1] = "=",
         t[a + 2] # Space, t[b] # Space, NEW s, IsTail(s, t, a, b)
  PROVE  \E v : IsRow(s, k, v, c) /\ \A i \in 1 .. k - 2 : v[i] = t[a + 1 + i]
<1>1. a <= b + 1
  OBVIOUS
<1>2. IsCut(SubSeq(t, a, b), t, a, b)
  BY <1>1, CutIs
<1>3. IsCut(s, t, a, b)
  BY <1>2, Zenon DEF IsTail
<1>4. Clear(s) /\ Len(s) = k /\ \A i \in 1 .. k : s[i] = t[a + i - 1]
  BY <1>3 DEF IsCut
<1>5. 3 \in Nat \ {0} /\ 3 <= k + 1 /\ k <= Len(s)
  BY <1>4
<1>6. PICK v : v = SubSeq(s, 3, k)
  OBVIOUS
<1>7. IsCut(v, s, 3, k)
  BY <1>4, <1>5, <1>6, CutIs
<1>8. k - 3 + 1 = k - 2
  OBVIOUS
<1>9. ASSUME NEW i \in 1 .. k - 2
      PROVE  v[i] = t[a + 1 + i]
  <2>1. v[i] = s[3 + i - 1]
    BY <1>7, <1>8 DEF IsCut
  <2>2. PICK j \in 1 .. k : j = 3 + i - 1 /\ a + j - 1 = a + 1 + i
    <3>1. 3 + i - 1 \in 1 .. k /\ a + (3 + i - 1) - 1 = a + 1 + i
      OBVIOUS
    <3> QED
      BY <3>1
  <2>3. s[j] = t[a + j - 1]
    BY <1>4
  <2> QED
    BY <2>1, <2>2, <2>3, Zenon
<1>10. s[1] = c /\ s[2] = "=" /\ s[k] # Space
  <2>1. 1 \in 1 .. k /\ 2 \in 1 .. k /\ k \in 1 .. k /\ a + 1 - 1 = a /\ a + 2 - 1 = a + 1 /\ a + k - 1 = b
    OBVIOUS
  <2>2. s[1] = t[a + 1 - 1] /\ s[2] = t[a + 2 - 1] /\ s[k] = t[a + k - 1]
    BY <1>4, <2>1
  <2> QED
    BY <2>1, <2>2, Zenon
<1>11. v[1] # Space
  <2>1. 1 \in 1 .. k - 2 /\ a + 1 + 1 = a + 2
    OBVIOUS
  <2>2. v[1] = t[a + 1 + 1]
    BY <1>9, <2>1
  <2> QED
    BY <2>1, <2>2, Zenon
<1>12. IsRow(s, k, v, c)
  BY <1>4, <1>7, <1>10, <1>11, Zenon DEF IsRow
<1> QED
  BY <1>9, <1>12

\* The text has no backslash.
LEMMA TextIsClear ==
  ASSUME NEW m, NEW n, IsMarked(m, n), text \in Seq(Symbol)
  PROVE  Clear(text) /\ Len(text) = n /\ m + 17 <= n
<1>1. Len(text) = n /\ (\A i \in 1 .. n : text[i] # Slash) /\ m + 17 <= n
  BY Zenon DEF IsMarked, N
<1> QED
  BY <1>1, Zenon DEF Clear

\* The scalar of the file.
IsKeyText(v, m) ==
  /\ v[1] = Quote /\ v[m + 2] = Quote
  /\ \A i \in 1 .. m : v[1 + i] = written.scalar[i] /\ v[1 + i] # Quote
\* It is in its line.
LEMMA KeyRow ==
  ASSUME NEW m \in Nat, NEW n \in Nat, IsMarked(m, n), text \in Seq(Symbol)
  PROVE  \E v : IsRow(KeyLine(m), m + 4, v, "k") /\ IsKeyText(v, m)
<1>1. Clear(text) /\ Len(text) = n /\ m + 17 <= n
  BY TextIsClear
<1>2. PICK b \in Nat, k \in Nat : b = m + 10 /\ k = m + 4 /\ k = b - 7 + 1 /\ 4 <= k /\ b <= n
  <2>1. m + 10 \in Nat /\ m + 4 \in Nat /\ m + 4 = (m + 10) - 7 + 1 /\ 4 <= m + 4 /\ m + 10 <= n
    BY <1>1
  <2> QED
    BY <2>1
<1>3. /\ text[7] = "k" /\ text[7 + 1] = "=" /\ text[7 + 2] = Quote /\ text[b] = Quote
      /\ 7 \in Nat \ {0} /\ b <= Len(text)
  <2>1. 7 + 1 = 8 /\ 7 + 2 = 9
    OBVIOUS
  <2>2. text[7] = "k" /\ text[8] = "=" /\ text[9] = Quote /\ text[b] = Quote
    BY <1>2, Zenon DEF IsMarked
  <2>3. 7 \in Nat \ {0}
    OBVIOUS
  <2> QED
    BY <1>1, <1>2, <2>1, <2>2, <2>3, Zenon
<1>4. "k" \notin {Space, "=", Quote} /\ Quote # Space
  BY Zenon DEF Space, Quote
<1>5. PICK s : s = KeyLine(m)
  OBVIOUS
<1>6. IsTail(s, text, 7, b)
  BY <1>2, <1>5, Zenon DEF IsTail, KeyLine
<1>7. PICK c : c = "k"
  OBVIOUS
<1>8. PICK q : q = Quote
  OBVIOUS
<1>9. c \notin {Space, "=", Quote} /\ text[7] = c /\ text[7 + 2] # Space /\ text[b] # Space
  BY <1>3, <1>4, <1>7, Zenon
<1>10. PICK v : IsRow(s, k, v, c) /\ \A i \in 1 .. k - 2 : v[i] = text[7 + 1 + i]
  <2>1. PICK a \in Nat \ {0} : a = 7
    OBVIOUS
  <2>2. k = b - a + 1
    BY <1>2, <2>1
  <2>3. IsTail(s, text, a, b) /\ text[a] = c /\ text[a + 1] = "=" /\ text[a + 2] # Space
    BY <1>3, <1>6, <1>9, <2>1, Zenon
  <2>4. PICK v : IsRow(s, k, v, c) /\ \A i \in 1 .. k - 2 : v[i] = text[a + 1 + i]
    BY <1>1, <1>2, <1>3, <1>9, <2>2, <2>3, RowIs
  <2> QED
    BY <2>1, <2>4, Zenon
<1>11. v[1] = Quote /\ v[m + 2] = Quote
  <2>1. 1 \in 1 .. k - 2 /\ m + 2 \in 1 .. k - 2 /\ 7 + 1 + 1 = 7 + 2 /\ 7 + 1 + (m + 2) = b
    BY <1>2
  <2>2. v[1] = text[7 + 1 + 1] /\ v[m + 2] = text[7 + 1 + (m + 2)]
    BY <1>10, <2>1, Zenon
  <2> QED
    BY <1>3, <2>1, <2>2, Zenon
<1>12. ASSUME NEW i \in 1 .. m
       PROVE  v[1 + i] = written.scalar[i] /\ v[1 + i] # Quote
  <2>1. 1 + i \in 1 .. k - 2 /\ 7 + 1 + (1 + i) = i + 9
    BY <1>2
  <2>2. v[1 + i] = text[7 + 1 + (1 + i)]
    BY <1>10, <2>1, Zenon
  <2>3. text[i + 9] = written.scalar[i] /\ text[i + 9] # Quote
    BY Zenon DEF IsMarked
  <2> QED
    BY <2>1, <2>2, <2>3, Zenon
<1>13. IsKeyText(v, m)
  BY <1>11, <1>12, Zenon DEF IsKeyText
<1> QED
  BY <1>2, <1>5, <1>7, <1>10, <1>13, Zenon

\* The array of the file.
LEMMA ArrayRow ==
  ASSUME NEW m \in Nat, NEW n \in Nat, IsMarked(m, n), text \in Seq(Symbol), text[n - 1] = "]"
  PROVE  \E v : IsRow(ArrayLine(m, n), n - (m + 13), v, "l") /\ IsArrayText(v, m, n)
<1>1. Clear(text) /\ Len(text) = n /\ m + 17 <= n
  BY TextIsClear
<1>2. PICK a \in Nat \ {0}, b \in Nat, k \in Nat :
        a = m + 13 /\ b = n - 1 /\ k = n - (m + 13) /\ k = b - a + 1 /\ 4 <= k /\ b <= n
  <2>1. /\ m + 13 \in Nat \ {0} /\ n - 1 \in Nat /\ n - (m + 13) \in Nat
        /\ n - (m + 13) = (n - 1) - (m + 13) + 1 /\ 4 <= n - (m + 13) /\ n - 1 <= n
    BY <1>1
  <2> QED
    BY <2>1
<1>3. a + 1 = m + 14 /\ a + 2 = m + 15 /\ b <= Len(text)
  BY <1>1, <1>2
<1>4. "l" \notin {Space, "=", Quote} /\ "[" # Space /\ "]" # Space
  BY Zenon DEF Space, Quote
<1>5. text[m + 13] = "l" /\ text[m + 14] = "=" /\ text[m + 15] = "["
  BY Zenon DEF IsMarked
<1>6. PICK s : s = ArrayLine(m, n)
  OBVIOUS
<1>7. IsTail(s, text, a, b)
  BY <1>2, <1>6, Zenon DEF IsTail, ArrayLine
<1>8. PICK c : c = "l"
  OBVIOUS
<1>9. /\ c \notin {Space, "=", Quote} /\ text[a] = c /\ text[a + 1] = "="
      /\ text[a + 2] # Space /\ text[b] # Space
  BY <1>2, <1>3, <1>4, <1>5, <1>8, Zenon
<1>10. PICK v : IsRow(s, k, v, c) /\ \A i \in 1 .. k - 2 : v[i] = text[a + 1 + i]
  BY <1>1, <1>2, <1>3, <1>7, <1>9, RowIs
<1>11. k - 2 = n - (m + 15)
  BY <1>2
<1>12. Clear(v) /\ Len(v) = k - 2
  BY <1>10, RawRightIs
<1>13. \A i \in 1 .. n - (m + 15) : v[i] = text[m + 14 + i]
  BY <1>3, <1>10, <1>11, Zenon
<1>14. IsArrayText(v, m, n)
  BY <1>11, <1>12, <1>13, Zenon DEF IsArrayText
<1> QED
  BY <1>2, <1>6, <1>8, <1>10, <1>14, Zenon

\* What PartsAt() takes when it takes one, or both, of two.
LEMMA OneOfTwo ==
  ASSUME NEW L, NEW x, NEW y, HasTwo(L, x, y)
  PROVE  /\ HasTwo(PartsAt(L, {1, 2}), x, y)
         /\ \A i \in 1 .. 2 : PartsAt(L, {i}) # <<>> /\ PartsAt(L, {i})[1] = L[i]
<1>1. HasTwo(PartsAt(L, {1, 2}), x, y)
  <2> DEFINE f == [i \in 1 .. 2 |-> i]
  <2>1. f \in [1 .. 2 -> Nat] /\ f[1] = 1 /\ f[2] = 2 /\ \A i \in 1 .. 2 : f[i] = i
    OBVIOUS
  <2>2. {1, 2} = {f[i] : i \in 1 .. 2}
    <3>1. \A i \in 1 .. 2 : i = 1 \/ i = 2
      OBVIOUS
    <3>2. 1 \in 1 .. 2 /\ 2 \in 1 .. 2
      OBVIOUS
    <3> HIDE DEF f
    <3> QED
      BY <2>1, <3>1, <3>2
  <2> HIDE DEF f
  <2>3. PICK S, z, g : S = {1, 2} /\ z = 2 /\ g = f
    OBVIOUS
  <2>4. Lists(g, z, S)
    BY <2>1, <2>2, <2>3 DEF Lists, Rises
  <2>5. DOMAIN PartsAt(L, S) = 1 .. z /\ \A i \in 1 .. z : PartsAt(L, S)[i] = L[g[i]]
    BY <2>4, PartsAtHas
  <2>6. 1 \in 1 .. 2 /\ 2 \in 1 .. 2
    OBVIOUS
  <2>7. HasTwo(PartsAt(L, S), x, y)
    BY <2>1, <2>3, <2>5, <2>6, Zenon DEF HasTwo
  <2> QED
    BY <2>3, <2>7, Zenon
<1>2. ASSUME NEW i \in 1 .. 2
      PROVE  PartsAt(L, {i}) # <<>> /\ PartsAt(L, {i})[1] = L[i]
  <2> DEFINE f == [j \in 1 .. 1 |-> i]
  <2>1. f \in [1 .. 1 -> Nat] /\ f[1] = i /\ \A j \in 1 .. 1 : j = 1
    OBVIOUS
  <2>2. {i} = {f[j] : j \in 1 .. 1}
    <3>1. 1 \in 1 .. 1
      OBVIOUS
    <3> HIDE DEF f
    <3> QED
      BY <2>1, <3>1
  <2> HIDE DEF f
  <2>3. PICK S, z, g : S = {i} /\ z = 1 /\ g = f
    OBVIOUS
  <2>4. Lists(g, z, S)
    <3>1. \A a, b \in 1 .. 1 : ~(a < b)
      OBVIOUS
    <3> QED
      BY <2>1, <2>2, <2>3, <3>1 DEF Lists, Rises
  <2>5. DOMAIN PartsAt(L, S) = 1 .. z /\ \A j \in 1 .. z : PartsAt(L, S)[j] = L[g[j]]
    BY <2>4, PartsAtHas
  <2>6. 1 \in 1 .. 1
    OBVIOUS
  <2>7. PartsAt(L, S)[1] = L[i] /\ 1 \in DOMAIN PartsAt(L, S)
    BY <2>1, <2>3, <2>5, <2>6, Zenon
  <2>8. \A t : 1 \in DOMAIN t => t # <<>>
    <3>1. DOMAIN <<>> = {}
      OBVIOUS
    <3> QED
      BY <3>1, Zenon
  <2> QED
    BY <2>3, <2>7, <2>8, Zenon
<1> QED
  BY <1>1, <1>2

\* What is chosen among two.
LEMMA ChosenOfTwo ==
  ASSUME NEW L, NEW x, NEW y, HasTwo(L, x, y), NEW S, S \subseteq DOMAIN L
  PROVE  /\ 1 \in S /\ 2 \in S => S = {1, 2}
         /\ 1 \in S /\ 2 \notin S => S = {1}
         /\ 1 \notin S /\ 2 \in S => S = {2}
<1>1. DOMAIN L = 1 .. 2
  BY DEF HasTwo
<1>2. \A i \in 1 .. 2 : i = 1 \/ i = 2
  OBVIOUS
<1>3. \A i \in S : i = 1 \/ i = 2
  BY <1>1, <1>2
<1> QED
  BY <1>3

\* k2v_auto_tidy() leaves both lines.
IsTidy(t, x, y) ==
  /\ HasTwo(k2v_auto_tidy(t), x, y)
  /\ line_get_left(x) = <<"k">> /\ line_get_left(y) = <<"l">>

\* Then each key has its line.
LEMMA LinesWithKeys ==
  ASSUME NEW t, NEW x, NEW y, IsTidy(t, x, y)
  PROVE  /\ have_key(<<"k">>, t) /\ LinesWith(<<"k">>, t)[1] = x
         /\ have_key(<<"l">>, t) /\ LinesWith(<<"l">>, t)[1] = y
<1>1. PICK L : L = k2v_auto_tidy(t)
  OBVIOUS
<1>2. HasTwo(L, x, y) /\ DOMAIN L = 1 .. 2 /\ L[1] = x /\ L[2] = y
  BY <1>1, Zenon DEF IsTidy, HasTwo
<1>3. <<"k">> # <<"l">>
  <2>1. \A u, w : <<u>> = <<w>> => u = w
    OBVIOUS
  <2> QED
    BY <2>1, Zenon
<1>4. 1 \in 1 .. 2 /\ 2 \in 1 .. 2
  OBVIOUS
<1>5. \A i \in 1 .. 2 : PartsAt(L, {i}) # <<>> /\ PartsAt(L, {i})[1] = L[i]
  BY <1>2, OneOfTwo
<1>6. have_key(<<"k">>, t) /\ LinesWith(<<"k">>, t)[1] = x
  <2> DEFINE S == {i \in DOMAIN L : line_get_left(L[i]) = <<"k">>}
  <2>1. LinesWith(<<"k">>, t) = PartsAt(L, S)
    BY <1>1, Zenon DEF LinesWith
  <2>2. S \subseteq DOMAIN L /\ 1 \in S /\ 2 \notin S
    BY <1>2, <1>3, <1>4, Zenon DEF IsTidy
  <2>3. S = {1}
    <3> HIDE DEF S
    <3> QED
      BY <1>2, <2>2, ChosenOfTwo
  <2> HIDE DEF S
  <2>4. LinesWith(<<"k">>, t) # <<>> /\ LinesWith(<<"k">>, t)[1] = L[1]
    <3>1. PICK w : w = PartsAt(L, {1})
      OBVIOUS
    <3>2. w # <<>> /\ w[1] = L[1]
      BY <1>4, <1>5, <3>1
    <3>3. LinesWith(<<"k">>, t) = w
      BY <2>1, <2>3, <3>1, Zenon
    <3> QED
      BY <3>2, <3>3
  <2> QED
    BY <1>2, <2>4, Zenon DEF have_key
<1>7. have_key(<<"l">>, t) /\ LinesWith(<<"l">>, t)[1] = y
  <2> DEFINE S == {i \in DOMAIN L : line_get_left(L[i]) = <<"l">>}
  <2>1. LinesWith(<<"l">>, t) = PartsAt(L, S)
    BY <1>1, Zenon DEF LinesWith
  <2>2. S \subseteq DOMAIN L /\ 2 \in S /\ 1 \notin S
    BY <1>2, <1>3, <1>4, Zenon DEF IsTidy
  <2>3. S = {2}
    <3> HIDE DEF S
    <3> QED
      BY <1>2, <2>2, ChosenOfTwo
  <2> HIDE DEF S
  <2>4. LinesWith(<<"l">>, t) # <<>> /\ LinesWith(<<"l">>, t)[1] = L[2]
    BY <1>4, <1>5, <2>1, <2>3, Zenon
  <2> QED
    BY <1>2, <2>4, Zenon DEF have_key
<1> QED
  BY <1>6, <1>7

\* What k2v_auto_tidy() leaves when both lines look right.
LEMMA TidyIs ==
  ASSUME NEW t, NEW x, NEW y, HasTwo(remove_comment(t), x, y), LooksRight(x), LooksRight(y)
  PROVE  HasTwo(k2v_auto_tidy(t), x, y)
<1>1. PICK L : L = remove_comment(t)
  OBVIOUS
<1>2. HasTwo(L, x, y) /\ DOMAIN L = 1 .. 2 /\ L[1] = x /\ L[2] = y
  BY <1>1, Zenon DEF HasTwo
<1> DEFINE S == {i \in DOMAIN L : LooksRight(L[i])}
<1>3. k2v_auto_tidy(t) = PartsAt(L, S)
  BY <1>1, Zenon DEF k2v_auto_tidy
<1>4. S \subseteq DOMAIN L /\ 1 \in S /\ 2 \in S
  <2>1. 1 \in 1 .. 2 /\ 2 \in 1 .. 2
    OBVIOUS
  <2> QED
    BY <1>2, <2>1, Zenon
<1> HIDE DEF S
<1>5. S = {1, 2}
  BY <1>2, <1>4, ChosenOfTwo
<1>6. HasTwo(PartsAt(L, {1, 2}), x, y)
  BY <1>2, OneOfTwo
<1> QED
  BY <1>3, <1>5, <1>6, Zenon

\* A line with a scalar, of m characters.
HasScalar(x, k, v, m, s) ==
  /\ k \in Nat /\ m \in Nat /\ k = m + 4 /\ IsRow(x, k, v, "k")
  /\ s \in Seq(Symbol) /\ m = Len(s) /\ \A i \in 1 .. m : v[1 + i] = s[i]

\* A scalar is read as it was written.
LEMMA KeyIsRead ==
  ASSUME NEW t, NEW x, NEW y, IsTidy(t, x, y),
         NEW k, NEW v, NEW m, NEW s, HasScalar(x, k, v, m, s)
  PROVE  key_get_char(<<"k">>, t) = s
<1>0. /\ k \in Nat /\ m \in Nat /\ k = m + 4 /\ IsRow(x, k, v, "k")
      /\ s \in Seq(Symbol) /\ m = Len(s) /\ \A i \in 1 .. m : v[1 + i] = s[i]
  BY Zenon DEF HasScalar
<1>1. have_key(<<"k">>, t) /\ LinesWith(<<"k">>, t)[1] = x
  BY LinesWithKeys
<1>2. line_get_right(x) = v
  BY <1>0, RightIs
<1>3. k - 2 = m + 2
  BY <1>0
<1>4. Clear(v) /\ Len(v) = k - 2
  BY <1>0, RawRightIs
<1>5. Len(v) = m + 2 /\ v \in Seq(Symbol)
  BY <1>3, <1>4 DEF Clear
<1>6. SubSeq(v, 2, 2 + m - 1) = s
  <2>1. 2 \in Nat \ {0} /\ 2 + m <= Len(v) + 1
    BY <1>0, <1>5
  <2>2. \A i \in 1 .. m : v[2 + (i - 1)] = s[i]
    <3>1. \A i \in 1 .. m : 2 + (i - 1) = 1 + i
      BY <1>0
    <3> QED
      BY <1>0, <3>1
  <2> QED
    BY <1>0, <1>5, <2>1, <2>2, PartAt
<1>7. Len(v) - 1 = 2 + m - 1
  BY <1>0, <1>5
<1>8. Inner(v) = s
  BY <1>6, <1>7, Zenon DEF Inner
<1> QED
  BY <1>1, <1>2, <1>8, Zenon DEF key_get_char

\* An array is read as it was written.
LEMMA ArrayKeyIsRead ==
  ASSUME NEW t, NEW x, NEW y, IsTidy(t, x, y), NEW k, NEW v, IsRow(y, k, v, "l"),
         NEW a, a \in Seq(Seq(Symbol)), array_to_str_array(v) = a
  PROVE  key_get_char_array(<<"l">>, t, Len(a)) = a
<1>1. have_key(<<"l">>, t) /\ LinesWith(<<"l">>, t)[1] = y
  BY LinesWithKeys
<1>2. line_get_right(y) = v
  BY RightIs
<1>3. key_get_char_array(<<"l">>, t, Len(a)) =
        SubSeq(a, 1, IF Len(a) < Len(a) THEN Len(a) ELSE Len(a))
  BY <1>1, <1>2, Zenon DEF key_get_char_array
<1>4. key_get_char_array(<<"l">>, t, Len(a)) = SubSeq(a, 1, Len(a))
  <2>1. (IF Len(a) < Len(a) THEN Len(a) ELSE Len(a)) = Len(a)
    BY Zenon
  <2> QED
    BY <1>3, <2>1, Zenon
<1>5. SubSeq(a, 1, Len(a)) = a
  <2>1. PICK T : T = Seq(Symbol)
    OBVIOUS
  <2>2. a \in Seq(T)
    BY <2>1
  <2> QED
    BY <2>2
<1> QED
  BY <1>4, <1>5, Zenon

\* Both keys of the file are found, with what was written.
LEMMA FileIsCorrected ==
  ASSUME NEW P, Shape(P), Plain, text \in Seq(Symbol)
  PROVE  /\ have_key(<<"k">>, text) /\ key_get_char(<<"k">>, text) = written.scalar
         /\ have_key(<<"l">>, text)
         /\ key_get_char_array(<<"l">>, text, Len(written.array)) = written.array
<1>1. PICK m \in Nat, n \in Nat : IsMarked(m, n)
  BY MarksAre
<1>2. m = M /\ n = N /\ m + 17 <= n
  BY <1>1, Zenon DEF IsMarked
<1>3. PICK v : IsRow(KeyLine(m), m + 4, v, "k") /\ IsKeyText(v, m)
  BY <1>1, KeyRow
<1>4. text[n - 1] = "]"
  <2>1. PICK z : z = P[Count + 1]
    OBVIOUS
  <2>2. z \in Nat
    <3>1. Count + 1 \in 1 .. Count + 1 /\ P \in [1 .. Count + 1 -> Nat]
      BY PlacesAre
    <3> QED
      BY <2>1, <3>1
  <2>3. n = z + 1 /\ text[z] = "]"
    BY <1>2, <2>1, PlacesAre, Zenon
  <2>4. n - 1 = z
    BY <2>2, <2>3
  <2> QED
    BY <2>3, <2>4, Zenon
<1>5. PICK w : IsRow(ArrayLine(m, n), n - (m + 13), w, "l") /\ IsArrayText(w, m, n)
  BY <1>1, <1>4, ArrayRow
<1>6. PICK g : g = n - (m + 15)
  OBVIOUS
<1>7. PICK R, E : IsList(w, g, Count, R, E) /\ AreValues(written.array, w, Count, R, E)
  BY <1>1, <1>2, <1>5, <1>6, ListInText
<1>8. PICK x, y : x = KeyLine(m) /\ y = ArrayLine(m, n)
  OBVIOUS
<1>9. PICK k \in Nat, q \in Nat : k = m + 4 /\ k - 2 = m + 2 /\ k - 3 = m + 1 /\ q = n - (m + 13)
  <2>1. m + 4 \in Nat /\ (m + 4) - 2 = m + 2 /\ (m + 4) - 3 = m + 1 /\ n - (m + 13) \in Nat
    BY <1>2
  <2> QED
    BY <2>1, Zenon
<1>10. IsRow(x, k, v, "k") /\ IsRow(y, q, w, "l")
  BY <1>3, <1>5, <1>8, <1>9, Zenon
<1>11. ~is_coment_line(x) /\ ~is_coment_line(y)
  <2>1. "k" # "#" /\ "l" # "#"
    OBVIOUS
  <2>2. PICK c, d : c = "k" /\ d = "l"
    OBVIOUS
  <2>3. IsRow(x, k, v, c) /\ IsRow(y, q, w, d) /\ c # "#" /\ d # "#"
    BY <1>10, <2>1, <2>2, Zenon
  <2> QED
    BY <2>3, IsNoComment
<1>12. HasTwo(remove_comment(text), x, y)
  BY <1>1, <1>2, <1>8, <1>11, CommentsGo
<1>13. LooksRight(x)
  <2>1. v[1] = Quote /\ v[k - 2] = Quote
    BY <1>3, <1>9, Zenon DEF IsKeyText
  <2>2. \A i \in 2 .. k - 3 : v[i] # Quote
    <3>1. \A i \in 2 .. m + 1 : \E j \in 1 .. m : i = 1 + j
      <4>1. \A i \in 2 .. m + 1 : i - 1 \in 1 .. m /\ i = 1 + (i - 1)
        OBVIOUS
      <4> QED
        BY <4>1
    <3>2. \A j \in 1 .. m : v[1 + j] # Quote
      BY <1>3, Zenon DEF IsKeyText
    <3> QED
      BY <1>9, <3>1, <3>2, Zenon
  <2> QED
    BY <1>10, <2>1, <2>2, ScalarLooksRight
<1>14. LooksRight(y)
  BY <1>7, <1>10, ArrayLooksRight
<1>15. IsTidy(text, x, y)
  <2>1. HasTwo(k2v_auto_tidy(text), x, y)
    BY <1>12, <1>13, <1>14, TidyIs
  <2>2. line_get_left(x) = <<"k">> /\ line_get_left(y) = <<"l">>
    BY <1>10, LeftIs
  <2> QED
    BY <2>1, <2>2, Zenon DEF IsTidy
<1>16. PICK s : s = written.scalar
  OBVIOUS
<1>17. s \in Seq(Symbol) /\ m = Len(s)
  <2>1. s \in Seq(STRING) /\ m = Len(s)
    BY <1>2, <1>16 DEF Shape, M
  <2> QED
    BY <2>1 DEF Symbol
<1>18. \A i \in 1 .. m : v[1 + i] = s[i]
  BY <1>3, <1>16, Zenon DEF IsKeyText
<1>19. key_get_char(<<"k">>, text) = s
  <2>1. HasScalar(x, k, v, m, s)
    BY <1>9, <1>10, <1>17, <1>18, Zenon DEF HasScalar
  <2> QED
    BY <1>15, <2>1, KeyIsRead
<1>20. array_to_str_array(w) = written.array
  BY <1>7, ListIsRead
<1>21. written.array \in Seq(Seq(Symbol))
  BY <1>7, Zenon DEF AreValues
<1>22. key_get_char_array(<<"l">>, text, Len(written.array)) = written.array
  BY <1>10, <1>15, <1>20, <1>21, ArrayKeyIsRead
<1>23. have_key(<<"k">>, text) /\ have_key(<<"l">>, text)
  BY <1>15, LinesWithKeys
<1> QED
  BY <1>16, <1>19, <1>22, <1>23, Zenon

\* What ruri -D and .rurienv write as text, with plain values, ruri -C reads as it was
\* written: k2v_auto_tidy() leaves both lines, and k2v_get_key() finds both values.
THEOREM PlainIsReadByC == Spec => []PlainIsCorrected
<1>1. IInv /\ ReadInv => PlainIsCorrected
  <2> SUFFICES ASSUME IInv, ReadInv, Plain, edits = 0
               PROVE  /\ have_key(KeyOf("scalar"), text)
                      /\ key_get_char(KeyOf("scalar"), text) = written.scalar
                      /\ have_key(KeyOf("array"), text)
                      /\ key_get_char_array(KeyOf("array"), text, Len(written.array)) = written.array
    BY DEF PlainIsCorrected
  <2>1. NoMarks
    BY DEF Plain, NoMarks
  <2>2. PICK P : AsWritten(P)
    BY <2>1 DEF ReadInv
  <2>3. Shape(P)
    BY <2>1, <2>2 DEF Shape, ReadInv
  <2>4. text \in Seq(Symbol)
    BY DEF IInv, InText
  <2>5. KeyOf("scalar") = <<"k">> /\ KeyOf("array") = <<"l">>
    BY DEF KeyOf
  <2>6. /\ have_key(<<"k">>, text) /\ key_get_char(<<"k">>, text) = written.scalar
        /\ have_key(<<"l">>, text)
        /\ key_get_char_array(<<"l">>, text, Len(written.array)) = written.array
    BY <2>3, <2>4, FileIsCorrected
  <2> QED
    BY <2>5, <2>6, Zenon
<1>2. Spec => []ReadInv
  BY InitIsIn, StepKeeps, InitReads, StepReads, PTL DEF Spec
<1> QED
  BY <1>1, <1>2, Invariant, PTL

===============================================================================
