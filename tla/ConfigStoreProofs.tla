-------------------------- MODULE ConfigStoreProofs -------------------------
(***************************************************************************)
(* ConfigStore keeps its tables sound, and implements ConfigTree, for      *)
(* every set of names, values and requests and any number of writes,       *)
(* faults and crashes.  What the recursive definitions PathOf and ReadKeys *)
(* compute is shown by looking at the least row where it would be wrong.   *)
(***************************************************************************)
EXTENDS ConfigStoreTree, SequenceTheorems, WellFoundedInduction, TLAPS

USE DEF Tables, FileTime

-----------------------------------------------------------------------------
(* The paths a key table spells. *)

\* A set of numbers that is not empty has a least element.
LEMMA Least ==
    ASSUME NEW T \in SUBSET Nat, T # {}
    PROVE  \E m \in T : \A k \in T : m <= k
<1>1. PICK m \in T : \A k \in T : <<k, m>> \notin OpToRel(<, Nat)
  BY WFMin, NatLessThanWellFounded, Zenon
<1>2. \A k \in T : ~(k < m)
  BY <1>1, Zenon DEF OpToRel
<1> QED
  BY SMTT(60), <1>2

\* A row has a name, and a parent that comes before it.
LEMMA RowType ==
    ASSUME NEW K, IsKeyTable(K)
    PROVE  /\ Len(K) \in Nat
           /\ \A i \in 1..Len(K) :
                /\ K[i].name \in Names /\ K[i].parent \in Nat /\ K[i].parent < i
                /\ K[i].parent # 0 => K[i].parent \in 1..Len(K)
                /\ K[i] = Row(K[i].name, K[i].parent)
<1>1. K \in Seq([name : Names, parent : Nat]) /\ Len(K) \in Nat
  BY Zenon, LenProperties DEF IsKeyTable
<1> SUFFICES ASSUME NEW i \in 1..Len(K)
             PROVE  /\ K[i].name \in Names /\ K[i].parent \in Nat /\ K[i].parent < i
                    /\ K[i].parent # 0 => K[i].parent \in 1..Len(K)
                    /\ K[i] = Row(K[i].name, K[i].parent)
  BY Zenon, <1>1
<1>2. K[i] \in [name : Names, parent : Nat]
  BY Zenon, <1>1, ElementOfSeq
<1>3. K[i].parent < i
  BY Zenon DEF IsKeyTable
<1>4. K[i].name \in Names /\ K[i].parent \in Nat /\ K[i] = Row(K[i].name, K[i].parent)
  BY SMTT(60), <1>2 DEF Row
<1> QED
  BY SMTT(60), <1>1, <1>3, <1>4

\* The defining equation of PathOf, on the first m rows.
Spells(K, m, f) ==
    f = [i \in 1..m |-> IF K[i].parent = 0 THEN <<K[i].name>>
                        ELSE Append(f[K[i].parent], K[i].name)]

LEMMA SpellsOne ==
    ASSUME NEW K, IsKeyTable(K), NEW m \in 1..Len(K), NEW f, Spells(K, m - 1, f)
    PROVE  \E g : Spells(K, m, g)
<1> DEFINE last == IF K[m].parent = 0 THEN <<K[m].name>> ELSE Append(f[K[m].parent], K[m].name)
           g == [i \in 1..m |-> IF i = m THEN last ELSE f[i]]
<1>1. Len(K) \in Nat /\ \A i \in 1..Len(K) : K[i].parent \in Nat /\ K[i].parent < i
  BY Zenon, RowType
<1>2. \A i \in 1..(m-1) : f[i] = IF K[i].parent = 0 THEN <<K[i].name>>
                        ELSE Append(f[K[i].parent], K[i].name)
  BY Zenon DEF Spells
<1>3. \A i \in 1..m : K[i].parent # 0 => K[i].parent \in 1..m /\ g[K[i].parent] = f[K[i].parent]
  BY SMTT(60), <1>1
<1>4. \A i \in 1..m : g[i] = IF K[i].parent = 0 THEN <<K[i].name>>
                        ELSE Append(g[K[i].parent], K[i].name)
  <2> TAKE i \in 1..m
  <2>1. CASE i = m
    BY Zenon, <1>3, <2>1
  <2>2. CASE i # m
    <3>1. i \in 1..(m-1) /\ g[i] = f[i]
      BY SMTT(60), <1>1, <2>2
    <3> QED
      BY Zenon, <1>2, <1>3, <3>1
  <2> QED
    BY Zenon, <2>1, <2>2
<1>5. g = [i \in 1..m |-> g[i]]
  BY Zenon
<1> HIDE DEF g
<1>6. Spells(K, m, g)
  BY Zenon, <1>4, <1>5 DEF Spells
<1> QED
  BY Zenon, <1>6

LEMMA SpellsSome ==
    ASSUME NEW K, IsKeyTable(K)
    PROVE  \E f : Spells(K, Len(K), f)
<1>1. Len(K) \in Nat
  BY SMTT(60) DEF IsKeyTable
<1> DEFINE T == {m \in 0..Len(K) : ~ \E f : Spells(K, m, f)}
<1> SUFFICES ASSUME T # {} PROVE FALSE
  <2>1. Len(K) \in 0..Len(K)
    BY SMTT(60), <1>1
  <2> QED BY Zenon, <2>1
<1>2. PICK m \in T : \A k \in T : m <= k
  <2>1. T \in SUBSET Nat
    BY SMTT(60), <1>1
  <2> HIDE DEF T
  <2> QED
    BY Zenon, <2>1, Least
<1>3. CASE m = 0
  <2>1. Spells(K, 0, [i \in 1..0 |-> 0])
    BY SMTT(60) DEF Spells
  <2> QED BY Zenon, <1>3, <2>1
<1>4. CASE m # 0
  <2>1. m \in 1..Len(K) /\ m - 1 \in 0..Len(K) /\ ~(m <= m - 1)
    BY SMTT(60), <1>1, <1>4
  <2>2. PICK f : Spells(K, m - 1, f)
    BY Zenon, <1>2, <2>1
  <2> QED
    BY Zenon, <2>1, <2>2, SpellsOne
<1> QED
  BY Zenon, <1>3, <1>4

LEMMA PathOfSpells ==
    ASSUME NEW K, IsKeyTable(K)
    PROVE  Spells(K, Len(K), PathOf(K))
<1> DEFINE P(f) == Spells(K, Len(K), f)
<1>1. \E f : P(f)
  BY Zenon, SpellsSome
<1>2. PathOf(K) = CHOOSE f : P(f)
  BY Zenon DEF PathOf, Spells
<1> HIDE DEF P
<1>3. P(PathOf(K))
  BY Zenon, <1>1, <1>2
<1> QED
  BY Zenon, <1>3 DEF P

\* What a key's path is made of.
LEMMA PathType ==
    ASSUME NEW K, IsKeyTable(K)
    PROVE  \A i \in 1..Len(K) :
             /\ PathOf(K)[i] = IF K[i].parent = 0 THEN <<K[i].name>>
                              ELSE Append(PathOf(K)[K[i].parent], K[i].name)
             /\ PathOf(K)[i] \in Seq(Names)
             /\ Len(PathOf(K)[i]) >= 1
<1>1. PICK P : P = PathOf(K)
  BY Zenon
<1>2. \A i \in 1..Len(K) : P[i] = IF K[i].parent = 0 THEN <<K[i].name>>
                                  ELSE Append(P[K[i].parent], K[i].name)
  BY Zenon, <1>1, PathOfSpells DEF Spells
<1> DEFINE T == {i \in 1..Len(K) : ~(P[i] \in Seq(Names) /\ Len(P[i]) >= 1)}
<1>3. ASSUME T # {} PROVE FALSE
  <2>1. PICK m \in T : \A k \in T : m <= k
    <3>1. T \in SUBSET Nat
      BY SMTT(60), RowType
    <3> HIDE DEF T
    <3> QED
      BY Zenon, <1>3, <3>1, Least
  <2>2. m \in 1..Len(K) /\ K[m].name \in Names /\ K[m].parent \in Nat
    BY Zenon, RowType
  <2>3. CASE K[m].parent = 0
    <3>1. P[m] = <<K[m].name>>
      BY Zenon, <1>2, <2>2, <2>3
    <3>2. <<K[m].name>> \in Seq(Names) /\ Len(<<K[m].name>>) = 1
      BY SMTT(60), <2>2
    <3>3. Len(P[m]) >= 1
      BY SMTT(60), <3>1, <3>2
    <3> QED
      BY Zenon, <3>1, <3>2, <3>3
  <2>4. CASE K[m].parent # 0
    <3>1. PICK j \in 1..Len(K) : j = K[m].parent /\ j < m
      BY Zenon, <2>2, <2>4, RowType
    <3>2. P[j] \in Seq(Names)
      BY SMTT(60), <2>1, <2>2, <3>1, RowType
    <3>3. P[m] = Append(P[j], K[m].name)
      BY Zenon, <1>2, <2>2, <2>4, <3>1
    <3>4. Append(P[j], K[m].name) \in Seq(Names) /\ Len(Append(P[j], K[m].name)) >= 1
      BY SMTT(60), <2>2, <3>2
    <3> QED
      BY Zenon, <3>3, <3>4
  <2> QED
    BY Zenon, <2>3, <2>4
<1>4. \A i \in 1..Len(K) : P[i] \in Seq(Names) /\ Len(P[i]) >= 1
  BY Zenon, <1>3
<1> QED
  BY Zenon, <1>1, <1>2, <1>4

\* One path is the beginning of another, name by name.
Begins(p, q) == Len(p) <= Len(q) /\ \A n \in 1..Len(p) : p[n] = q[n]

\* ConfigTree's Prefix says the same.
LEMMA PrefixBegins ==
    ASSUME NEW p \in Seq(Names), NEW q \in Seq(Names)
    PROVE  Len(p) <= Len(q) /\ p = SubSeq(q, 1, Len(p)) <=> Begins(p, q)
<1>1. Len(p) \in Nat /\ Len(q) \in Nat
  BY Zenon, LenProperties
<1>2. CASE ~(Len(p) <= Len(q))
  BY Zenon, <1>2 DEF Begins
<1>3. CASE Len(p) <= Len(q)
  <2>1. \A n \in 1..Len(p) : q[n] \in Names
    BY SMTT(60), <1>1, <1>3
  <2>2. PICK s : s = SubSeq(q, 1, Len(p))
    BY Zenon
  <2>3. s \in Seq(Names) /\ Len(s) = Len(p) /\ \A n \in 1..Len(p) : s[n] = q[n]
    BY SMTT(60), <1>1, <1>3, <2>1, <2>2
  <2>4. p = s <=> \A n \in 1..Len(p) : p[n] = s[n]
    BY Zenon, <2>3, SeqEqual
  <2> QED
    BY Zenon, <1>3, <2>2, <2>3, <2>4 DEF Begins
<1> QED
  BY Zenon, <1>2, <1>3

LEMMA BeginsFacts ==
    ASSUME NEW p \in Seq(Names), NEW q \in Seq(Names), NEW r \in Seq(Names)
    PROVE  /\ Begins(p, p)
           /\ Begins(p, q) /\ Begins(q, r) => Begins(p, r)
           /\ Begins(p, q) /\ Len(p) = Len(q) => p = q
           /\ Begins(p, r) /\ Begins(q, r) /\ Len(p) <= Len(q) => Begins(p, q)
<1>1. Len(p) \in Nat /\ Len(q) \in Nat /\ Len(r) \in Nat
  BY Zenon, LenProperties
<1>2. Begins(p, q) /\ Len(p) = Len(q) => p = q
  BY Zenon, SeqEqual DEF Begins
<1>3. Begins(p, p)
  BY SMTT(60), <1>1 DEF Begins
<1>4. Begins(p, q) /\ Begins(q, r) => Begins(p, r)
  BY SMTT(60), <1>1 DEF Begins
<1>5. Begins(p, r) /\ Begins(q, r) /\ Len(p) <= Len(q) => Begins(p, q)
  BY SMTT(60), <1>1 DEF Begins
<1> QED
  BY Zenon, <1>2, <1>3, <1>4, <1>5

\* A key and its parent: the parent's path, and one name more.
LEMMA PathParent ==
    ASSUME NEW K, IsKeyTable(K), NEW i \in 1..Len(K)
    PROVE  /\ PathOf(K)[i] \in Seq(Names) /\ Len(PathOf(K)[i]) \in Nat \ {0}
           /\ PathOf(K)[i][Len(PathOf(K)[i])] = K[i].name
           /\ K[i].parent = 0 <=> Len(PathOf(K)[i]) = 1
           /\ K[i].parent # 0 =>
                /\ K[i].parent \in 1..Len(K) /\ K[i].parent < i
                /\ Len(PathOf(K)[i]) = Len(PathOf(K)[K[i].parent]) + 1
                /\ Begins(PathOf(K)[K[i].parent], PathOf(K)[i])
<1>1. PICK p : p = PathOf(K)[i]
  BY Zenon
<1>2. PICK e \in Names : e = K[i].name
  BY Zenon, RowType
<1>3. p \in Seq(Names) /\ Len(p) >= 1
  BY Zenon, <1>1, PathType
<1>4. CASE K[i].parent = 0
  <2>1. p = <<e>>
    BY Zenon, <1>1, <1>2, <1>4, PathType
  <2>2. Len(p) = 1 /\ Len(p) \in Nat \ {0} /\ p[Len(p)] = e
    BY SMTT(60), <2>1
  <2> QED
    BY Zenon, <1>1, <1>2, <1>3, <1>4, <2>2
<1>5. CASE K[i].parent # 0
  <2>1. PICK j \in 1..Len(K) : j = K[i].parent /\ j < i
    BY Zenon, <1>5, RowType
  <2>2. PICK q : q = PathOf(K)[j] /\ q \in Seq(Names) /\ Len(q) >= 1
    BY Zenon, PathType
  <2>3. p = Append(q, e)
    BY Zenon, <1>1, <1>2, <1>5, <2>1, <2>2, PathType
  <2>4. /\ Len(p) = Len(q) + 1 /\ p[Len(q) + 1] = e
        /\ \A n \in 1..Len(q) : p[n] = q[n]
    BY SMTT(60), <2>2, <2>3
  <2>5. Len(p) # 1 /\ Len(p) \in Nat \ {0} /\ Begins(q, p)
    BY SMTT(60), <2>2, <2>4 DEF Begins
  <2>6. /\ PathOf(K)[i] \in Seq(Names) /\ Len(PathOf(K)[i]) \in Nat \ {0}
        /\ PathOf(K)[i][Len(PathOf(K)[i])] = K[i].name /\ Len(PathOf(K)[i]) # 1
    BY Zenon, <1>1, <1>2, <1>3, <2>4, <2>5
  <2>7. /\ K[i].parent \in 1..Len(K) /\ K[i].parent < i
        /\ Len(PathOf(K)[i]) = Len(PathOf(K)[K[i].parent]) + 1
        /\ Begins(PathOf(K)[K[i].parent], PathOf(K)[i])
    BY Zenon, <1>1, <2>1, <2>2, <2>4, <2>5
  <2> QED
    BY Zenon, <1>5, <2>6, <2>7
<1> QED
  BY Zenon, <1>4, <1>5

\* A table keeps the paths of its rows as it grows.
LEMMA PathGrows ==
    ASSUME NEW K, IsKeyTable(K), NEW M, IsKeyTable(M), Len(K) <= Len(M),
           \A i \in 1..Len(K) : M[i] = K[i]
    PROVE  \A i \in 1..Len(K) : PathOf(M)[i] = PathOf(K)[i]
<1> DEFINE T == {i \in 1..Len(K) : PathOf(M)[i] # PathOf(K)[i]}
<1> SUFFICES ASSUME T # {} PROVE FALSE
  BY Zenon
<1>1. Len(K) \in Nat /\ Len(M) \in Nat
  BY Zenon, RowType
<1>2. PICK m \in T : \A k \in T : m <= k
  <2>1. T \in SUBSET Nat
    BY SMTT(60), <1>1
  <2> HIDE DEF T
  <2> QED
    BY Zenon, <2>1, Least
<1>3. m \in 1..Len(K) /\ m \in 1..Len(M) /\ M[m] = K[m]
  BY SMTT(60), <1>1
<1>4. K[m].parent # 0 => PathOf(M)[K[m].parent] = PathOf(K)[K[m].parent]
  <2> SUFFICES ASSUME NEW k, k = K[m].parent, k # 0 PROVE PathOf(M)[k] = PathOf(K)[k]
    BY Zenon
  <2>1. k \in 1..Len(K) /\ k < m
    BY Zenon, <1>3, RowType
  <2>2. ~(m <= k)
    BY SMTT(60), <1>1, <1>3, <2>1
  <2> QED
    BY Zenon, <1>2, <2>1, <2>2
<1>5. PathOf(M)[m] = PathOf(K)[m]
  <2>1. /\ PathOf(M)[m] = IF M[m].parent = 0 THEN <<M[m].name>>
                          ELSE Append(PathOf(M)[M[m].parent], M[m].name)
        /\ PathOf(K)[m] = IF K[m].parent = 0 THEN <<K[m].name>>
                          ELSE Append(PathOf(K)[K[m].parent], K[m].name)
    BY Zenon, <1>3, PathType
  <2> QED
    BY Zenon, <1>3, <1>4, <2>1
<1> QED
  BY Zenon, <1>5

\* No two keys spell the same path.
LEMMA PathInjective ==
    ASSUME NEW K, IsKeyTable(K), Unique(K)
    PROVE  \A i, j \in 1..Len(K) : PathOf(K)[i] = PathOf(K)[j] => i = j
<1> DEFINE T == {i \in 1..Len(K) : \E j \in 1..Len(K) : PathOf(K)[i] = PathOf(K)[j] /\ i # j}
<1> SUFFICES ASSUME T # {} PROVE FALSE
  BY Zenon
<1>1. Len(K) \in Nat
  BY Zenon, RowType
<1>2. PICK i \in T : \A k \in T : i <= k
  <2>1. T \in SUBSET Nat
    BY SMTT(60), <1>1
  <2> HIDE DEF T
  <2> QED
    BY Zenon, <2>1, Least
<1>3. PICK j \in 1..Len(K) : PathOf(K)[i] = PathOf(K)[j] /\ i # j
  BY Zenon
<1>4. i \in 1..Len(K) /\ K[i].name = K[j].name /\ (K[i].parent = 0 <=> K[j].parent = 0)
  BY SMTT(60), <1>3, PathParent
<1>5. K[i].parent = K[j].parent
  <2>1. CASE K[i].parent = 0
    BY Zenon, <1>4, <2>1
  <2>2. CASE K[i].parent # 0
    <3>1. PICK a \in 1..Len(K) : a = K[i].parent /\ a < i
      BY Zenon, <1>4, <2>2, RowType
    <3>2. PICK b \in 1..Len(K) : b = K[j].parent
      BY Zenon, <1>4, <2>2, RowType
    <3>3. /\ PathOf(K)[i] = Append(PathOf(K)[a], K[i].name)
          /\ PathOf(K)[i] = Append(PathOf(K)[b], K[i].name)
      BY Zenon, <1>3, <1>4, <2>2, <3>1, <3>2, PathType
    <3>4. PICK p, q, e : p = PathOf(K)[a] /\ q = PathOf(K)[b] /\ e = K[i].name
      BY Zenon
    <3>5. p \in Seq(Names) /\ q \in Seq(Names) /\ e \in Names
      BY Zenon, <1>4, <3>4, PathType, RowType
    <3>6. p = q
      <4>1. Append(p, e) = Append(q, e)
        BY Zenon, <3>3, <3>4
      <4> QED
        BY SMTT(60), <3>5, <4>1, AppendInjective
    <3>7. ~(i <= a)
      BY SMTT(60), <1>4, <3>1
    <3> QED
      BY Zenon, <1>2, <3>1, <3>2, <3>4, <3>6, <3>7
  <2> QED
    BY Zenon, <2>1, <2>2
<1>6. K[i] = K[j]
  BY SMTT(60), <1>3, <1>4, <1>5, RowType
<1> QED
  BY Zenon, <1>3, <1>4, <1>6 DEF Unique

\* The keys of a chain spell the beginnings of its path.
LEMMA ChainPath ==
    ASSUME NEW K, IsKeyTable(K), NEW p \in Seq(Names), NEW c, IsChain(K, p, c)
    PROVE  \A n \in 1..Len(p) :
             /\ c[n] \in 1..Len(K) /\ Len(PathOf(K)[c[n]]) = n
             /\ Begins(PathOf(K)[c[n]], p)
<1> DEFINE T == {n \in 1..Len(p) : ~(/\ Len(PathOf(K)[c[n]]) = n
                                     /\ Begins(PathOf(K)[c[n]], p))}
<1>1. \A n \in 1..Len(p) : c[n] \in 1..Len(K)
  BY Zenon DEF IsChain
<1> SUFFICES ASSUME T # {} PROVE FALSE
  BY Zenon, <1>1
<1>2. Len(p) \in Nat
  BY Zenon, LenProperties
<1>3. PICK n \in T : \A k \in T : n <= k
  <2>1. T \in SUBSET Nat
    BY SMTT(60), <1>2
  <2> HIDE DEF T
  <2> QED
    BY Zenon, <2>1, Least
<1>4. n \in 1..Len(p) /\ c[n] \in 1..Len(K)
  BY Zenon, <1>1
<1>5. PICK i \in 1..Len(K) : i = c[n]
  BY Zenon, <1>4
<1>6. K[i] = Row(p[n], IF n = 1 THEN 0 ELSE c[n - 1])
  BY Zenon, <1>4, <1>5 DEF IsChain
<1>7. K[i].name = p[n] /\ K[i].parent = IF n = 1 THEN 0 ELSE c[n - 1]
  BY SMTT(60), <1>6 DEF Row
<1>8. PICK q : q = PathOf(K)[i]
  BY Zenon
<1>9. q \in Seq(Names) /\ q[Len(q)] = p[n] /\ Len(q) \in Nat \ {0}
  BY Zenon, <1>7, <1>8, PathParent
<1>10. CASE n = 1
  <2>1. Len(q) = 1
    BY SMTT(60), <1>7, <1>8, <1>10, PathParent
  <2>2. Begins(q, p)
    BY SMTT(60), <1>2, <1>4, <1>9, <1>10, <2>1 DEF Begins
  <2> QED
    BY Zenon, <1>5, <1>8, <1>10, <2>1, <2>2
<1>11. CASE n # 1
  <2>1. n - 1 \in 1..Len(p) /\ ~(n <= n - 1)
    BY SMTT(60), <1>2, <1>4, <1>11
  <2>2. PICK j \in 1..Len(K) : j = c[n - 1] /\ Len(PathOf(K)[j]) = n - 1 /\ Begins(PathOf(K)[j], p)
    BY Zenon, <1>1, <1>3, <2>1
  <2>3. K[i].parent = j
    BY Zenon, <1>7, <1>11, <2>2
  <2>4. j # 0
    BY SMTT(60), <2>2
  <2>5. PICK r : r = PathOf(K)[j]
    BY Zenon
  <2>6. Len(q) = Len(r) + 1 /\ Begins(r, q) /\ Len(r) = n - 1 /\ Begins(r, p)
    <3>1. K[i].parent # 0
      BY Zenon, <2>3, <2>4
    <3>2. /\ Len(PathOf(K)[i]) = Len(PathOf(K)[K[i].parent]) + 1
          /\ Begins(PathOf(K)[K[i].parent], PathOf(K)[i])
      BY Zenon, <3>1, PathParent
    <3> QED
      BY Zenon, <1>8, <2>2, <2>3, <2>5, <3>2
  <2>7. Len(q) = n /\ Begins(q, p)
    BY SMTT(60), <1>2, <1>4, <1>9, <2>6 DEF Begins
  <2> QED
    BY Zenon, <1>5, <1>8, <2>7
<1> QED
  BY Zenon, <1>10, <1>11

\* Every beginning of a key's path is the path of a key above it.
LEMMA Ancestor ==
    ASSUME NEW K, IsKeyTable(K)
    PROVE  \A j \in 1..Len(K) : \A n \in 1..Len(PathOf(K)[j]) :
             \E i \in 1..Len(K) :
                /\ Len(PathOf(K)[i]) = n /\ Begins(PathOf(K)[i], PathOf(K)[j])
                /\ n # Len(PathOf(K)[j]) => HasChild(K, i)
<1> DEFINE Above(i, n, j) ==
               /\ Len(PathOf(K)[i]) = n /\ Begins(PathOf(K)[i], PathOf(K)[j])
               /\ n # Len(PathOf(K)[j]) => HasChild(K, i)
           T == {j \in 1..Len(K) : \E n \in 1..Len(PathOf(K)[j]) :
                    ~ \E i \in 1..Len(K) : Above(i, n, j)}
<1> SUFFICES ASSUME T # {} PROVE FALSE
  BY Zenon
<1>1. Len(K) \in Nat
  BY Zenon, RowType
<1>2. PICK j \in T : \A k \in T : j <= k
  <2>1. T \in SUBSET Nat
    BY SMTT(60), <1>1
  <2> HIDE DEF T
  <2> QED
    BY Zenon, <2>1, Least
<1>3. PICK n \in 1..Len(PathOf(K)[j]) : ~ \E i \in 1..Len(K) : Above(i, n, j)
  BY Zenon
<1>4. PICK q : q = PathOf(K)[j] /\ q \in Seq(Names) /\ Len(q) \in Nat \ {0}
  BY Zenon, PathParent
<1>5. n # Len(q)
  <2> SUFFICES ASSUME n = Len(q) PROVE FALSE
    BY Zenon
  <2>1. Begins(q, q)
    BY Zenon, <1>4, BeginsFacts
  <2> QED
    BY Zenon, <1>3, <1>4, <2>1
<1>6. Len(q) # 1 /\ n \in 1..Len(q)
  <2>1. n \in 1..Len(q)
    BY Zenon, <1>3, <1>4
  <2>2. ASSUME Len(q) = 1 PROVE FALSE
    <3>1. n \in 1..1 /\ n # 1
      BY Zenon, <1>5, <2>1, <2>2
    <3> QED
      BY SMTT(60), <3>1
  <2> QED
    BY Zenon, <2>1, <2>2
<1>7. K[j].parent # 0
  BY Zenon, <1>4, <1>6, PathParent
<1>8. PICK k \in 1..Len(K) : k = K[j].parent /\ k < j
  BY Zenon, <1>7, RowType
<1>9. PICK r : r = PathOf(K)[k] /\ r \in Seq(Names) /\ Len(r) \in Nat \ {0}
  BY Zenon, PathParent
<1>10. Len(q) = Len(r) + 1 /\ Begins(r, q)
  BY Zenon, <1>4, <1>7, <1>8, <1>9, PathParent
<1>11. n \in 1..Len(r)
  BY SMTT(60), <1>4, <1>5, <1>6, <1>9, <1>10
<1>12. n # Len(r)
  <2> SUFFICES ASSUME n = Len(r) PROVE FALSE
    BY Zenon
  <2>1. HasChild(K, k)
    BY Zenon, <1>8 DEF HasChild
  <2> QED
    BY Zenon, <1>3, <1>4, <1>9, <1>10, <2>1
<1>13. k \notin T
  <2>1. ~(j <= k)
    BY SMTT(60), <1>1, <1>8
  <2> HIDE DEF T
  <2> QED
    BY Zenon, <1>2, <2>1
<1>14. PICK i \in 1..Len(K) : Above(i, n, k)
  BY Zenon, <1>9, <1>11, <1>13
<1>15. PICK s : s = PathOf(K)[i] /\ s \in Seq(Names)
  BY Zenon, PathParent
<1>16. Len(s) = n /\ Begins(s, r) /\ HasChild(K, i)
  BY Zenon, <1>9, <1>12, <1>14, <1>15
<1>17. Begins(s, q)
  BY Zenon, <1>4, <1>9, <1>10, <1>15, <1>16, BeginsFacts
<1> QED
  BY Zenon, <1>3, <1>4, <1>15, <1>16, <1>17

\* A key whose path is a proper beginning of another key's path has a child.
LEMMA PrefixHasChild ==
    ASSUME NEW K, IsKeyTable(K), Unique(K), NEW i \in 1..Len(K), NEW j \in 1..Len(K),
           Begins(PathOf(K)[i], PathOf(K)[j]), i # j
    PROVE  HasChild(K, i)
<1>1. PICK p, q : p = PathOf(K)[i] /\ q = PathOf(K)[j]
  BY Zenon
<1>2. /\ p \in Seq(Names) /\ q \in Seq(Names) /\ Len(p) \in Nat \ {0}
      /\ Len(q) \in Nat \ {0} /\ Begins(p, q) /\ p # q
  BY Zenon, <1>1, PathParent, PathInjective
<1>3. Len(p) # Len(q)
  BY Zenon, <1>2, BeginsFacts
<1>4. Len(p) \in 1..Len(q)
  BY SMTT(60), <1>2 DEF Begins
<1>5. PICK k \in 1..Len(K) : /\ Len(PathOf(K)[k]) = Len(p) /\ Begins(PathOf(K)[k], q)
                              /\ HasChild(K, k)
  BY Zenon, <1>1, <1>3, <1>4, Ancestor
<1>6. PICK r : r = PathOf(K)[k] /\ r \in Seq(Names) /\ Len(r) = Len(p) /\ Begins(r, q)
  BY Zenon, <1>5, PathParent
<1>7. Len(r) <= Len(p)
  BY SMTT(60), <1>2, <1>6
<1>8. r = p
  BY Zenon, <1>2, <1>6, <1>7, BeginsFacts
<1> QED
  BY Zenon, <1>1, <1>5, <1>6, <1>8, PathInjective

\* A path is found by get_key_ids if it is a key's.
LEMMA ChainExists ==
    ASSUME NEW K, IsKeyTable(K), Unique(K), NEW j \in 1..Len(K), NEW p, p = PathOf(K)[j]
    PROVE  Chains(K, p) # {}
<1> DEFINE At(n, i) == Len(PathOf(K)[i]) = n /\ Begins(PathOf(K)[i], p)
           c == [n \in 1..Len(p) |-> CHOOSE i \in 1..Len(K) : At(n, i)]
<1>1. p \in Seq(Names) /\ Len(p) \in Nat \ {0}
  BY Zenon, PathParent
<1>2. \A n \in 1..Len(p) : \E i \in 1..Len(K) : At(n, i)
  BY Zenon, Ancestor
<1>3. \A n \in 1..Len(p) : c[n] \in 1..Len(K) /\ At(n, c[n])
  <2> TAKE n \in 1..Len(p)
  <2>1. c[n] = CHOOSE i \in 1..Len(K) : At(n, i)
    BY Zenon
  <2>2. \E i \in 1..Len(K) : At(n, i)
    BY Zenon, <1>2
  <2> HIDE DEF At, c
  <2> QED
    BY Zenon, <2>1, <2>2
<1>4. c \in [1..Len(p) -> 1..Len(K)]
  <2> HIDE DEF At
  <2>1. \A n \in 1..Len(p) : (CHOOSE i \in 1..Len(K) : At(n, i)) \in 1..Len(K)
    BY Zenon, <1>2
  <2> QED
    BY Zenon, <2>1
<1>5. Len(c) = Len(p)
  BY SMTT(60), <1>1, <1>4
<1> HIDE DEF c
<1>6. ASSUME NEW n \in 1..Len(p)
      PROVE  K[c[n]] = Row(p[n], IF n = 1 THEN 0 ELSE c[n - 1])
  <2>1. PICK i \in 1..Len(K) : i = c[n] /\ At(n, i)
    BY Zenon, <1>3
  <2>2. PICK q : q = PathOf(K)[i] /\ q \in Seq(Names) /\ Len(q) = n /\ Begins(q, p)
    BY Zenon, <2>1, PathParent
  <2>3. n \in Nat \ {0} /\ p[n] = q[n]
    BY SMTT(60), <1>1, <2>2 DEF Begins
  <2>4. K[i].name = p[n]
    BY Zenon, <2>2, <2>3, PathParent
  <2>5. K[i].parent = IF n = 1 THEN 0 ELSE c[n - 1]
    <3>1. CASE n = 1
      BY Zenon, <2>2, <3>1, PathParent
    <3>2. CASE n # 1
      <4>1. K[i].parent # 0
        BY Zenon, <2>2, <3>2, PathParent
      <4>2. PICK k \in 1..Len(K) : k = K[i].parent
        BY Zenon, <4>1, RowType
      <4>3. PICK r : r = PathOf(K)[k] /\ r \in Seq(Names)
        BY Zenon, PathParent
      <4>4. Len(q) = Len(r) + 1 /\ Begins(r, q)
        BY Zenon, <2>2, <4>1, <4>2, <4>3, PathParent
      <4>5. Begins(r, p)
        BY Zenon, <1>1, <2>2, <4>3, <4>4, BeginsFacts
      <4>6. n - 1 \in 1..Len(p) /\ Len(r) = n - 1
        BY SMTT(60), <1>1, <2>2, <2>3, <3>2, <4>3, <4>4
      <4>7. PICK h \in 1..Len(K) : h = c[n - 1] /\ At(n - 1, h)
        BY Zenon, <1>3, <4>6
      <4>8. PICK s : s = PathOf(K)[h] /\ s \in Seq(Names) /\ Len(s) = n - 1 /\ Begins(s, p)
        BY Zenon, <4>7, PathParent
      <4>9. Len(s) <= Len(r) /\ Len(s) = Len(r)
        BY SMTT(60), <2>3, <4>6, <4>8
      <4>10. s = r
        BY Zenon, <1>1, <4>3, <4>5, <4>8, <4>9, BeginsFacts
      <4> QED
        BY Zenon, <3>2, <4>2, <4>3, <4>7, <4>8, <4>10, PathInjective
    <3> QED
      BY Zenon, <3>1, <3>2
  <2>6. K[i] = Row(K[i].name, K[i].parent)
    BY Zenon, RowType
  <2> QED
    BY Zenon, <2>1, <2>4, <2>5, <2>6
<1>7. IsChain(K, p, c)
  BY Zenon, <1>3, <1>5, <1>6 DEF IsChain
<1> QED
  BY Zenon, <1>4, <1>7 DEF Chains

\* If no key is empty, every key has a value at or below it.
LEMMA ValueBelow ==
    ASSUME NEW K, IsKeyTable(K), NEW V, DOMAIN V \subseteq 1..Len(K), Filled(K, V)
    PROVE  \A i \in 1..Len(K) : \E j \in DOMAIN V : Begins(PathOf(K)[i], PathOf(K)[j])
<1> DEFINE Leads(i) == \E j \in DOMAIN V : Begins(PathOf(K)[i], PathOf(K)[j])
           T == {d \in 0..Len(K) : Len(K) - d \in 1..Len(K) /\ ~Leads(Len(K) - d)}
<1>1. Len(K) \in Nat
  BY Zenon, RowType
<1>2. ASSUME NEW i \in 1..Len(K), ~Leads(i) PROVE T # {}
  <2>1. PICK d \in 0..Len(K) : Len(K) - d = i
    <3>1. Len(K) - i \in 0..Len(K) /\ Len(K) - (Len(K) - i) = i
      BY SMTT(60), <1>1
    <3> QED
      BY Zenon, <3>1
  <2>2. Len(K) - d \in 1..Len(K) /\ ~Leads(Len(K) - d)
    BY Zenon, <1>2, <2>1
  <2> HIDE DEF Leads
  <2> QED
    BY Zenon, <2>2
<1>3. T # {} => FALSE
  <2> SUFFICES ASSUME T # {} PROVE FALSE
    OBVIOUS
  <2> HIDE DEF Leads
  <2>1. PICK d \in T : \A k \in T : d <= k
    <3>1. T \in SUBSET Nat
      BY SMTT(60), <1>1
    <3> HIDE DEF T
    <3> QED
      BY Zenon, <3>1, Least
  <2>2. PICK i \in 1..Len(K) : i = Len(K) - d /\ ~Leads(i)
    BY Zenon
  <2>3. PICK p : p = PathOf(K)[i] /\ p \in Seq(Names)
    BY Zenon, PathParent
  <2>4. i \notin DOMAIN V
    <3>1. Begins(p, p)
      BY Zenon, <2>3, BeginsFacts
    <3> QED
      BY Zenon, <2>2, <2>3, <3>1 DEF Leads
  <2>5. PICK j \in 1..Len(K) : K[j].parent = i
    BY Zenon, <2>4 DEF Filled, HasChild
  <2>6. i # 0
    BY SMTT(60)
  <2>7. i < j
    BY Zenon, <2>5, RowType
  <2>8. Leads(j)
    <3>1. /\ Len(K) - j \in 0..Len(K) /\ Len(K) - (Len(K) - j) = j
          /\ ~(d <= Len(K) - j)
      BY SMTT(60), <1>1, <2>1, <2>2, <2>7
    <3> QED
      BY Zenon, <2>1, <3>1
  <2>9. PICK k \in DOMAIN V : Begins(PathOf(K)[j], PathOf(K)[k])
    BY Zenon, <2>8 DEF Leads
  <2>10. PICK q, r : q = PathOf(K)[j] /\ r = PathOf(K)[k]
    BY Zenon
  <2>11. q \in Seq(Names) /\ r \in Seq(Names)
    BY Zenon, <2>10, PathParent
  <2>12. Begins(p, q)
    BY Zenon, <2>3, <2>5, <2>6, <2>10, PathParent
  <2>13. Begins(p, r)
    BY Zenon, <2>3, <2>9, <2>10, <2>11, <2>12, BeginsFacts
  <2> QED
    BY Zenon, <2>2, <2>3, <2>10, <2>13 DEF Leads
<1> HIDE DEF T
<1> QED
  BY Zenon, <1>2, <1>3

\* The defining equation of read_key_recursive.
Visits(K, V, id, f) ==
    f = [i \in 1..Len(K) |->
            \/ i = id
            \/ /\ K[i].parent # 0 /\ K[i].parent \notin DOMAIN V
               /\ f[K[i].parent]]

\* A key is below another one if its parent is, or if it is that key.
LEMMA BelowStep ==
    ASSUME NEW K, IsKeyTable(K), Unique(K), NEW V, Exclusive(K, V),
           NEW id \in 1..Len(K), NEW i \in 1..Len(K)
    PROVE  Begins(PathOf(K)[id], PathOf(K)[i]) <=>
              \/ i = id
              \/ /\ K[i].parent # 0 /\ K[i].parent \notin DOMAIN V
                 /\ Begins(PathOf(K)[id], PathOf(K)[K[i].parent])
<1>1. PICK p, q : p = PathOf(K)[id] /\ q = PathOf(K)[i]
  BY Zenon
<1>2. /\ p \in Seq(Names) /\ q \in Seq(Names) /\ Len(p) \in Nat \ {0} /\ Len(q) \in Nat \ {0}
  BY Zenon, <1>1, PathParent
<1>3. CASE i = id
  BY Zenon, <1>1, <1>2, <1>3, BeginsFacts
<1>4. CASE i # id /\ K[i].parent = 0
  <2>1. Len(q) = 1
    BY Zenon, <1>1, <1>4, PathParent
  <2>2. ASSUME Begins(p, q) PROVE FALSE
    <3>1. Len(p) = Len(q)
      BY SMTT(60), <1>2, <2>1, <2>2 DEF Begins
    <3>2. p = q
      BY Zenon, <1>2, <2>2, <3>1, BeginsFacts
    <3> QED
      BY Zenon, <1>1, <1>4, <3>2, PathInjective
  <2> QED
    BY Zenon, <1>1, <1>4, <2>2
<1>5. CASE i # id /\ K[i].parent # 0
  <2>1. PICK k \in 1..Len(K) : k = K[i].parent
    BY Zenon, <1>5, RowType
  <2>2. PICK r : r = PathOf(K)[k] /\ r \in Seq(Names) /\ Len(r) \in Nat \ {0}
    BY Zenon, PathParent
  <2>3. Len(q) = Len(r) + 1 /\ Begins(r, q)
    BY Zenon, <1>1, <1>5, <2>1, <2>2, PathParent
  <2>4. k \notin DOMAIN V
    BY Zenon, <2>1 DEF Exclusive, HasChild
  <2>5. Begins(p, r) => Begins(p, q)
    BY Zenon, <1>2, <2>2, <2>3, BeginsFacts
  <2>6. ASSUME Begins(p, q) PROVE Begins(p, r)
    <3>1. Len(p) # Len(q)
      <4>1. p # q
        BY Zenon, <1>1, <1>5, PathInjective
      <4> QED
        BY Zenon, <1>2, <2>6, <4>1, BeginsFacts
    <3>2. Len(p) <= Len(q)
      BY Zenon, <2>6 DEF Begins
    <3>3. Len(p) <= Len(r)
      BY SMTT(60), <1>2, <2>2, <2>3, <3>1, <3>2
    <3> QED
      BY Zenon, <1>2, <2>2, <2>3, <2>6, <3>3, BeginsFacts
  <2> QED
    BY Zenon, <1>1, <1>5, <2>1, <2>2, <2>4, <2>5, <2>6
<1> QED
  BY Zenon, <1>3, <1>4, <1>5

\* What a read visits is what lies below the key.
LEMMA ReadKeysBelow ==
    ASSUME NEW K, IsKeyTable(K), Unique(K), NEW V, Exclusive(K, V), NEW id \in 1..Len(K)
    PROVE  ReadKeys(K, V, id) = {i \in 1..Len(K) : Begins(PathOf(K)[id], PathOf(K)[i])}
<1> DEFINE B(i) == Begins(PathOf(K)[id], PathOf(K)[i])
           R == [i \in 1..Len(K) |-> B(i)]
           P(f) == Visits(K, V, id, f)
<1>1. Len(K) \in Nat /\ \A i \in 1..Len(K) : K[i].parent # 0 =>
                              K[i].parent \in 1..Len(K) /\ K[i].parent < i
  BY Zenon, RowType
<1>2. \A i \in 1..Len(K) : B(i) <=> \/ i = id
                                    \/ /\ K[i].parent # 0 /\ K[i].parent \notin DOMAIN V
                                       /\ B(K[i].parent)
  BY Zenon, BelowStep
<1>b. \A i : B(i) \in BOOLEAN
  BY Zenon DEF Begins
<1> HIDE DEF B
<1>3. P(R)
  <2>1. \A i \in 1..Len(K) : R[i] = (\/ i = id
                                    \/ /\ K[i].parent # 0 /\ K[i].parent \notin DOMAIN V
                                       /\ R[K[i].parent])
    <3> TAKE i \in 1..Len(K)
    <3>1. R[i] = B(i) /\ (K[i].parent # 0 => R[K[i].parent] = B(K[i].parent))
      BY Zenon, <1>1
    <3> HIDE DEF R
    <3> QED
      BY Zenon, <1>b, <1>2, <3>1
  <2>2. R = [i \in 1..Len(K) |-> R[i]]
    BY Zenon
  <2> HIDE DEF R
  <2> QED
    BY Zenon, <2>1, <2>2 DEF Visits
<1>4. ASSUME NEW f, P(f) PROVE \A i \in 1..Len(K) : f[i] <=> B(i)
  <2>1. \A i \in 1..Len(K) : f[i] <=> (\/ i = id
                                    \/ /\ K[i].parent # 0 /\ K[i].parent \notin DOMAIN V
                                       /\ f[K[i].parent])
    BY Zenon, <1>4 DEF Visits
  <2> DEFINE T == {i \in 1..Len(K) : ~(f[i] <=> B(i))}
  <2> SUFFICES ASSUME T # {} PROVE FALSE
    BY Zenon
  <2>2. PICK m \in T : \A k \in T : m <= k
    <3>1. T \in SUBSET Nat
      BY SMTT(60), <1>1
    <3> HIDE DEF T
    <3> QED
      BY Zenon, <3>1, Least
  <2>3. m \in 1..Len(K)
    BY Zenon
  <2>4. K[m].parent # 0 => (f[K[m].parent] <=> B(K[m].parent))
    <3> SUFFICES ASSUME NEW k, k = K[m].parent, k # 0 PROVE f[k] <=> B(k)
      BY Zenon
    <3>1. k \in 1..Len(K) /\ k < m
      BY Zenon, <1>1, <2>3
    <3>2. ~(m <= k)
      BY SMTT(60), <1>1, <2>3, <3>1
    <3> QED
      BY Zenon, <2>2, <3>1, <3>2
  <2> QED
    BY Zenon, <1>2, <2>1, <2>3, <2>4
<1>5. ReadKeys(K, V, id) = {i \in 1..Len(K) : (CHOOSE f : P(f))[i]}
  BY Zenon DEF ReadKeys, Visits
<1> HIDE DEF P, R
<1>6. PICK f : f = (CHOOSE g : P(g)) /\ P(f)
  BY Zenon, <1>3
<1>7. ReadKeys(K, V, id) = {i \in 1..Len(K) : f[i]}
  BY Zenon, <1>5, <1>6
<1>8. ReadKeys(K, V, id) = {i \in 1..Len(K) : B(i)}
  BY Zenon, <1>4, <1>6, <1>7
<1> QED
  BY Zenon, <1>8 DEF B

\* The tree the tables spell.
LEMMA TreeAt ==
    ASSUME NEW K, IsKeyTable(K), Unique(K), NEW V, DOMAIN V \subseteq 1..Len(K),
           NEW i \in DOMAIN V
    PROVE  TreeOf(K, V)[PathOf(K)[i]] = V[i]
<1>1. PICK p : p = PathOf(K)[i]
  BY Zenon
<1>2. TreeOf(K, V)[p] = V[CHOOSE j \in DOMAIN V : PathOf(K)[j] = p]
  BY Zenon, <1>1 DEF TreeOf
<1>3. PICK j \in DOMAIN V : j = (CHOOSE k \in DOMAIN V : PathOf(K)[k] = p) /\ PathOf(K)[j] = p
  BY Zenon, <1>1
<1>4. i = j
  BY Zenon, <1>1, <1>3, PathInjective
<1> QED
  BY Zenon, <1>1, <1>2, <1>3, <1>4

\* What get_key_ids finds, and that it finds what is there.
LEMMA Lookup ==
    ASSUME NEW K, IsKeyTable(K), Unique(K), NEW p \in Seq(Names), p # <<>>
    PROVE  /\ \A c \in Chains(K, p) : c[Len(p)] \in 1..Len(K) /\ PathOf(K)[c[Len(p)]] = p
           /\ \A j \in 1..Len(K) : Begins(p, PathOf(K)[j]) => Chains(K, p) # {}
<1>1. Len(p) \in Nat \ {0}
  BY Zenon, EmptySeq
<1>2. Len(p) \in 1..Len(p)
  BY SMTT(60), <1>1
<1>3. ASSUME NEW c \in Chains(K, p)
      PROVE  c[Len(p)] \in 1..Len(K) /\ PathOf(K)[c[Len(p)]] = p
  <2>1. IsChain(K, p, c)
    BY Zenon DEF Chains
  <2>2. /\ c[Len(p)] \in 1..Len(K) /\ Len(PathOf(K)[c[Len(p)]]) = Len(p)
        /\ Begins(PathOf(K)[c[Len(p)]], p)
    BY Zenon, <1>2, <2>1, ChainPath
  <2>3. PICK q : q = PathOf(K)[c[Len(p)]] /\ q \in Seq(Names)
    BY Zenon, <2>2, PathParent
  <2>4. q = p
    BY Zenon, <2>2, <2>3, BeginsFacts
  <2> QED
    BY Zenon, <2>2, <2>3, <2>4
<1>4. ASSUME NEW j \in 1..Len(K), Begins(p, PathOf(K)[j]) PROVE Chains(K, p) # {}
  <2>1. PICK q : q = PathOf(K)[j] /\ q \in Seq(Names)
    BY Zenon, PathParent
  <2>2. Len(p) \in 1..Len(q)
    <3>1. Len(q) \in Nat /\ Len(p) <= Len(q)
      BY Zenon, <1>4, <2>1, LenProperties DEF Begins
    <3> QED
      BY SMTT(60), <1>1, <3>1
  <2>3. PICK i \in 1..Len(K) : Len(PathOf(K)[i]) = Len(p) /\ Begins(PathOf(K)[i], q)
    BY Zenon, <2>1, <2>2, Ancestor
  <2>4. PICK r : r = PathOf(K)[i] /\ r \in Seq(Names)
    BY Zenon, PathParent
  <2>5. Len(r) <= Len(p) /\ Len(r) = Len(p)
    BY SMTT(60), <1>1, <2>3, <2>4
  <2>6. r = p
    BY Zenon, <1>4, <2>1, <2>3, <2>4, <2>5, BeginsFacts
  <2> QED
    BY Zenon, <2>4, <2>6, ChainExists
<1> QED
  BY Zenon, <1>3, <1>4

\* A read returns the values below the path, each with the rest of its path.
LEMMA ReadReturnsSubtree ==
    ASSUME NEW p \in Seq(Names), p # <<>>,
           IsKeyTable(keys), Unique(keys), DOMAIN vals \subseteq 1..Len(keys),
           Exclusive(keys, vals), Filled(keys, vals),
           schema < 2 => DOMAIN vals = {}
    PROVE  ReadResult(p).vals = Tree!Subtree(p)
<1>0. ASSUME NEW i \in DOMAIN vals PROVE TreeOf(keys, vals)[PathOf(keys)[i]] = vals[i]
  BY SMTT(60), TreeAt
<1> DEFINE K == keys  V == vals
           C == Chains(K, p)
           id == (CHOOSE c \in C : TRUE)[Len(p)]
           found == ReadKeys(K, V, id)
           empty == {i \in found : i \notin DOMAIN V /\ ~HasChild(K, i)}
           rest(i) == SubSeq(PathOf(K)[i], Len(p) + 1, Len(PathOf(K)[i]))
           Res == {<<rest(i), V[i].val>> : i \in found \cap DOMAIN V}
           Val(q) == <<SubSeq(q, Len(p) + 1, Len(q)), TreeOf(K, V)[q].val>>
           Qs == {r \in DOMAIN TreeOf(K, V) : Tree!Prefix(p, r)}
<1>1. Tree!Subtree(p) = {Val(q) : q \in Qs}
  BY Zenon DEF Tree!Subtree
<1>2. \A i \in DOMAIN V : Tree!Prefix(p, PathOf(K)[i]) <=> Begins(p, PathOf(K)[i])
  <2> TAKE i \in DOMAIN V
  <2>1. PICK q : q = PathOf(K)[i] /\ q \in Seq(Names)
    BY Zenon, PathParent
  <2>2. Tree!Prefix(p, q) <=> Begins(p, q)
    BY Zenon, <2>1, PrefixBegins DEF Tree!Prefix
  <2> QED
    BY Zenon, <2>1, <2>2
<1>3. Tree!Subtree(p) = {<<rest(i), V[i].val>> : i \in {j \in DOMAIN V : Begins(p, PathOf(K)[j])}}
  <2>1. Qs = {PathOf(K)[i] : i \in {j \in DOMAIN V : Begins(p, PathOf(K)[j])}}
    <3>1. DOMAIN TreeOf(K, V) = {PathOf(K)[i] : i \in DOMAIN V}
      BY Zenon DEF TreeOf
    <3> QED
      BY Zenon, <1>2, <3>1
  <2>2. \A i \in DOMAIN V : Val(PathOf(K)[i]) = <<rest(i), V[i].val>>
    <3> TAKE i \in DOMAIN V
    <3>1. TreeOf(K, V)[PathOf(K)[i]] = V[i]
      BY Zenon, <1>0
    <3> QED
      BY Zenon, <3>1
  <2> DEFINE S == {j \in DOMAIN V : Begins(p, PathOf(K)[j])}
             Pair(i) == <<rest(i), V[i].val>>
             Path(i) == PathOf(K)[i]
  <2>3. Qs = {Path(i) : i \in S} /\ \A i \in S : Val(Path(i)) = Pair(i)
    BY Zenon, <2>1, <2>2
  <2>4. {Val(q) : q \in Qs} = {Pair(i) : i \in S}
    <3> HIDE DEF Qs, Val, Pair, Path, S
    <3> QED
      BY Zenon, <2>3
  <2> QED
    BY Zenon, <1>1, <2>4
<1>4. CASE schema < 2
  <2>1. ReadResult(p) = [NoAnswer EXCEPT !.err = "FAILURE"]
    BY Zenon, <1>4 DEF ReadResult
  <2>2. ReadResult(p).vals = {}
    BY SMTT(60), <2>1 DEF NoAnswer
  <2> QED
    BY Zenon, <1>3, <1>4, <2>2
<1>5. CASE ~(schema < 2) /\ C = {}
  <2>1. ReadResult(p) = [NoAnswer EXCEPT !.err = "NOENTRY"]
    BY Zenon, <1>5 DEF ReadResult
  <2>2. ReadResult(p).vals = {}
    BY SMTT(60), <2>1 DEF NoAnswer
  <2>3. \A j \in DOMAIN V : ~Begins(p, PathOf(K)[j])
    BY Zenon, <1>5, Lookup
  <2> QED
    BY Zenon, <1>3, <2>2, <2>3
<1>6. CASE ~(schema < 2) /\ C # {}
  <2>1. id \in 1..Len(K) /\ PathOf(K)[id] = p
    <3>1. (CHOOSE c \in C : TRUE) \in C
      BY Zenon, <1>6
    <3> QED
      BY Zenon, <3>1, Lookup
  <2>2. found = {i \in 1..Len(K) : Begins(p, PathOf(K)[i])}
    <3> HIDE DEF id
    <3> QED
      BY Zenon, <2>1, ReadKeysBelow
  <2>3. empty = {}
    <3> HIDE DEF id
    <3> QED
      BY Zenon, <2>2 DEF Filled
  <2>4. ReadResult(p) = [err |-> "OK", vals |-> Res, complete |-> empty = {}]
    <3>1. ReadResult(p) =
            IF schema < 2 THEN [NoAnswer EXCEPT !.err = "FAILURE"]
            ELSE IF C = {} THEN [NoAnswer EXCEPT !.err = "NOENTRY"]
            ELSE IF id \in empty THEN [NoAnswer EXCEPT !.err = "FAILURE"]
            ELSE [err |-> "OK", vals |-> Res, complete |-> empty = {}]
      BY Zenon DEF ReadResult
    <3> HIDE DEF C, id, Res, empty
    <3> QED
      BY Zenon, <1>6, <2>3, <3>1
  <2>5. ReadResult(p).vals = Res
    <3> HIDE DEF Res, empty
    <3> QED
      BY SMTT(60), <2>4
  <2>6. found \cap DOMAIN V = {j \in DOMAIN V : Begins(p, PathOf(K)[j])}
    <3> HIDE DEF found
    <3> QED
      BY Zenon, <2>2
  <2> HIDE DEF found, rest
  <2> QED
    BY Zenon, <1>3, <2>5, <2>6
<1> HIDE DEF C
<1> QED
  BY Zenon, <1>4, <1>5, <1>6

-----------------------------------------------------------------------------
(* The inductive invariant of the tables. *)

\* What every step needs to know of the tables and of the open transaction.
Synced ==
    /\ tvals = vals
    /\ Len(keys) <= Len(tkeys)
    /\ pc # "create" => tkeys = keys

\* The walk is at a leaf while that leaf is being written.
AtLeaf ==
    pc \in {"create", "update", "notify"} =>
        todo # <<>> /\ Head(todo).arg \in Values

Creating ==
    pc = "create" =>
        /\ Len(ids) <= Len(key_path)
        /\ \A n \in 1..Len(ids) :
              tkeys[ids[n]] = Row(key_path[n], IF n = 1 THEN 0 ELSE ids[n - 1])
        /\ Parent \notin DOMAIN tvals
        /\ tkeys = keys => \A c \in Seq(1..Len(tkeys)) : ~IsChain(tkeys, key_path, c)
        /\ tkeys # keys => ids # <<>> /\ ~HasChild(tkeys, Parent)

Inv ==
    /\ TypeOK
    /\ Synced
    /\ AtLeaf
    /\ Unique(keys) /\ Unique(tkeys)
    /\ Exclusive(keys, vals) /\ Exclusive(tkeys, tvals)
    /\ Creating

\* The write in progress only changes its own bookkeeping.
Quiet ==
    /\ UNCHANGED <<keys, vals, tkeys, tvals>>
    /\ pc # "create" /\ pc' # "create"

LEMMA QuietLemma ==
  ASSUME Inv, Quiet, TypeOK', AtLeaf'
  PROVE  Inv'
BY SMTT(60) DEF Inv, Quiet, Synced, Creating, Unique, Exclusive, HasChild

LEMMA InitLemma == Init => Inv
<1> SUFFICES ASSUME Init PROVE Inv
  BY Zenon
<1>1. TypeOK
  BY SMTT(60), StoreAssumption DEF Init, TypeOK, IsKeyTable, IsValueTable, NoRequest
<1> QED
  BY SMTT(60), <1>1 DEF Init, Inv, AtLeaf, Synced, Creating, Unique, Exclusive

\* A step that leaves tables and subscriptions alone.
Local ==
    UNCHANGED <<keys, vals, tkeys, tvals, subs, open, handles, crashes>>

Typed ==
    /\ schema \in 0..Tables /\ (pc = "create_db" => schema < Tables)
    /\ pc \in {"open", "create_db", "idle", "map", "create", "update", "notify"}
    /\ file \in 1..(Len(ConfigFiles) + 1)
    /\ req \in [path : Seq(Names), ops : Seq(Op), ts : Times]
    /\ todo \in Seq(Op) /\ key_path \in Seq(Names)
    /\ ids \in Seq(1..Len(tkeys))
    /\ reply \in {"none", "ok", "error"}
    /\ writes \in 0..MaxWrites

LEMMA LocalTyped ==
  ASSUME TypeOK, Local, Typed'
  PROVE  TypeOK'
BY Zenon DEF TypeOK, Local, Typed, IsKeyTable, IsValueTable

LEMMA OpenLemma ==
  ASSUME Inv, OpenFound \/ CreateTable
  PROVE  Inv'
<1> USE DEF OpenFound, CreateTable, disk, txn, subscribers, request
<1>1. Typed' /\ Local
  BY SMTT(60) DEF Inv, TypeOK, Typed, Local
<1>2. TypeOK'
  BY Zenon, <1>1, LocalTyped DEF Inv
<1> QED
  BY Zenon, <1>2, QuietLemma DEF Quiet, AtLeaf

LEMMA LoadLemma ==
  ASSUME Inv, LoadFile
  PROVE  Inv'
<1> USE DEF LoadFile, StartWalk, disk, txn, subscribers, Booting
<1>1. file \in 1..Len(ConfigFiles)
  BY SMTT(60), StoreAssumption DEF Inv, TypeOK
<1>2. ConfigFiles[file] \in Seq(Op)
  BY SMTT(60), <1>1, StoreAssumption
<1>3. Typed' /\ Local
  <2>1. [path |-> <<>>, ops |-> ConfigFiles[file], ts |-> FileTime]
           \in [path : Seq(Names), ops : Seq(Op), ts : Times]
    BY SMTT(60), <1>2, StoreAssumption
  <2>2. Len(ConfigFiles) \in Nat
    BY SMTT(60), StoreAssumption
  <2>3. file' \in 1..(Len(ConfigFiles) + 1) /\ todo' \in Seq(Op)
    <3>1. CASE file' = file /\ todo' = ConfigFiles[file]
      BY SMTT(60), <1>1, <1>2, <2>2, <3>1
    <3>2. CASE file' = file + 1 /\ todo' = <<>>
      BY SMTT(60), <1>1, <2>2, <3>2
    <3> QED
      BY Zenon, <3>1, <3>2
  <2> QED
    BY Zenon, <2>1, <2>3 DEF Inv, TypeOK, Typed, Local
<1>4. TypeOK'
  BY Zenon, <1>3, LocalTyped DEF Inv
<1> QED
  BY Zenon, <1>4, QuietLemma DEF Quiet, AtLeaf

LEMMA ReceiveLemma ==
  ASSUME Inv, ReceiveWrite \/ RefuseWrite
  PROVE  Inv'
<1> USE DEF ReceiveWrite, RefuseWrite, StartWalk, disk, txn, subscribers
<1>1. Typed' /\ Local
  <2>1. CASE ReceiveWrite
    <3>1. PICK r \in Requests : StartWalk(r) /\ key_path' = r.path /\ todo' = r.ops
      BY Zenon, <2>1
    <3>2. r \in [path : Seq(Names), ops : Seq(Op), ts : Times]
      BY Zenon, StoreAssumption
    <3> QED
      BY SMTT(60), <2>1, <3>1, <3>2, StoreAssumption DEF Inv, TypeOK, Typed, Local
  <2>2. CASE RefuseWrite
    <3>1. req' \in [path : Seq(Names), ops : Seq(Op), ts : Times]
      BY Zenon, <2>2, StoreAssumption
    <3> QED
      BY SMTT(60), <2>2, <3>1, StoreAssumption DEF Inv, TypeOK, Typed, Local
  <2> QED
    BY Zenon, <2>1, <2>2
<1>2. TypeOK'
  BY Zenon, <1>1, LocalTyped DEF Inv
<1> QED
  BY Zenon, <1>2, QuietLemma DEF Quiet, AtLeaf

LEMMA HeadTail ==
  ASSUME TypeOK, todo # <<>>
  PROVE  /\ Tail(todo) \in Seq(Op)
         /\ Head(todo).op = "push" => Head(todo).arg \in Names
         /\ Head(todo).op = "leaf" => Head(todo).arg \in Values
<1>1. Head(todo) \in Op /\ Tail(todo) \in Seq(Op)
  BY SMTT(60) DEF TypeOK
<1> QED
  BY Zenon, <1>1 DEF Op

LEMMA FinishTyped ==
  ASSUME TypeOK, NEW result \in {"none", "ok", "error"}, Finish(result)
  PROVE  /\ file' \in 1..(Len(ConfigFiles) + 1)
         /\ todo' \in Seq(Op) /\ reply' \in {"none", "ok", "error"}
<1>1. Len(ConfigFiles) \in Nat
  BY SMTT(60), StoreAssumption
<1> QED
  BY SMTT(60), <1>1 DEF TypeOK, Finish, Booting

LEMMA WalkLemma ==
  ASSUME Inv, PushKey \/ PopKey \/ EncodeFails \/ FinishWrite
  PROVE  Inv'
<1> USE DEF disk, txn, subscribers
<1>1. Typed' /\ Local /\ pc = "map" /\ pc' \in {"map", "idle"}
  <2>1. CASE PushKey
    <3>1. Append(key_path, Head(todo).arg) \in Seq(Names)
      BY SMTT(60), <2>1, HeadTail DEF PushKey, Inv, TypeOK
    <3> QED
      BY Zenon, <2>1, <3>1, HeadTail DEF PushKey, Inv, TypeOK, Typed, Local
  <2>2. CASE PopKey
    <3>1. SubSeq(key_path, 1, Len(key_path) - 1) \in Seq(Names)
      BY SMTT(60) DEF Inv, TypeOK
    <3> QED
      BY Zenon, <2>2, <3>1, HeadTail DEF PopKey, Inv, TypeOK, Typed, Local
  <2>3. CASE EncodeFails
    BY Zenon, <2>3, FinishTyped DEF EncodeFails, Finish, Inv, TypeOK, Typed, Local
  <2>4. CASE FinishWrite
    BY Zenon, <2>4, FinishTyped DEF FinishWrite, Finish, Inv, TypeOK, Typed, Local
  <2> QED
    BY Zenon, <2>1, <2>2, <2>3, <2>4
<1>2. TypeOK'
  BY Zenon, <1>1, LocalTyped DEF Inv
<1> QED
  BY Zenon, <1>1, <1>2, QuietLemma DEF Quiet, AtLeaf, Local

LEMMA NoChain ==
  ASSUME TypeOK, Chains(tkeys, key_path) = {},
         NEW c \in Seq(1..Len(tkeys))
  PROVE  ~IsChain(tkeys, key_path, c)
<1> SUFFICES ASSUME IsChain(tkeys, key_path, c) PROVE FALSE
  BY Zenon
<1>1. c \in [1..Len(key_path) -> 1..Len(tkeys)]
  BY SMTT(60) DEF IsChain, TypeOK
<1> QED
  BY Zenon, <1>1 DEF Chains

LEMMA BeginLemma ==
  ASSUME Inv, BeginWrite
  PROVE  Inv'
<1> USE DEF disk, txn, subscribers
<1>1. todo # <<>> /\ Head(todo).arg \in Values /\ Local /\ pc = "map"
  BY Zenon, HeadTail DEF BeginWrite, Local, Inv
<1>2. CASE schema < Tables
  <2>1. Typed'
    BY Zenon, <1>2, FinishTyped DEF BeginWrite, Finish, Inv, TypeOK, Typed
  <2>2. TypeOK'
    BY Zenon, <1>1, <2>1, LocalTyped DEF Inv
  <2> QED
    BY Zenon, <1>1, <1>2, <2>2, QuietLemma DEF BeginWrite, Finish, Quiet, AtLeaf, Local
<1>3. CASE ~(schema < Tables)
  <2> DEFINE C == Chains(tkeys, key_path)
  <2>1. ids' \in Seq(1..Len(tkeys))
    <3>1. Len(key_path) \in Nat
      BY SMTT(60) DEF Inv, TypeOK
    <3>2. \A c \in C : c \in [1..Len(key_path) -> 1..Len(tkeys)]
      BY Zenon DEF Chains
    <3>3. \A c \in C : c \in Seq(1..Len(tkeys))
      BY Zenon, <3>1, <3>2, SeqDef
    <3>4. C # {} => (CHOOSE c \in C : TRUE) \in C
      BY Zenon
    <3>5. ids' = IF C = {} THEN <<>> ELSE CHOOSE c \in C : TRUE
      BY Zenon, <1>3 DEF BeginWrite
    <3> HIDE DEF C
    <3>6. CASE C = {}
      BY SMTT(60), <3>5, <3>6
    <3>7. CASE C # {}
      <4>1. ids' \in C
        BY <3>4, <3>5, <3>7, Zenon
      <4> QED
        BY Zenon, <3>3, <4>1
    <3> QED
      BY Zenon, <3>6, <3>7
  <2>2. Typed'
    BY Zenon, <1>1, <1>3, <2>1 DEF BeginWrite, Inv, TypeOK, Typed
  <2>3. TypeOK'
    BY Zenon, <1>1, <2>2, LocalTyped DEF Inv
  <2>4. AtLeaf'
    BY Zenon, <1>1, <1>3 DEF BeginWrite, AtLeaf
  <2>5. CASE C # {}
    BY Zenon, <1>1, <1>3, <2>3, <2>4, <2>5, QuietLemma DEF BeginWrite, Quiet, Local
  <2>6. CASE C = {}
    <3>1. ids' = <<>> /\ pc' = "create" /\ UNCHANGED <<key_path, keys, vals, tkeys, tvals>>
      BY Zenon, <1>3, <2>6 DEF BeginWrite
    <3>2. \A c \in Seq(1..Len(tkeys)) : ~IsChain(tkeys, key_path, c)
      BY Zenon, <2>6, NoChain DEF Inv
    <3>3. 0 \notin DOMAIN tvals
      BY SMTT(60) DEF Inv, TypeOK, IsValueTable
    <3>4. tkeys = keys /\ tvals = vals
      BY Zenon, <1>1 DEF Inv, Synced
    <3>5. Creating'
      BY SMTT(60), <3>1, <3>2, <3>3, <3>4 DEF Creating, Parent, IsChain, Inv, TypeOK
    <3>6. Synced'
      BY Zenon, <3>1, <3>4 DEF Synced, Inv
    <3> QED
      BY SMTT(60), <2>3, <2>4, <3>1, <3>5, <3>6 DEF Inv, Unique, Exclusive, HasChild
  <2> QED
    BY Zenon, <2>5, <2>6
<1> QED
  BY Zenon, <1>2, <1>3

LEMMA AbortLemma ==
  ASSUME Inv, FoundValue \/ InsertKeyFails \/ UpdateFails
  PROVE  Inv'
<1>1. Abort
  BY Zenon DEF FoundValue, InsertKeyFails, UpdateFails
<1> USE <1>1 DEF Abort, Rollback, disk, subscribers
<1>2. /\ UNCHANGED <<schema, keys, vals, subs, open, handles, req, key_path, writes, crashes>>
      /\ tkeys' = keys /\ tvals' = vals /\ pc' = "idle" /\ ids' = <<>>
  BY Zenon DEF Finish
<1>3. TypeOK'
  <2>1. /\ IsKeyTable(keys)' /\ IsValueTable(vals, keys)'
        /\ IsKeyTable(tkeys)' /\ IsValueTable(tvals, tkeys)'
    BY Zenon, <1>2 DEF Inv, TypeOK
  <2>2. ids' \in Seq(1..Len(tkeys'))
    BY SMTT(60), <1>2
  <2>3. /\ file' \in 1..(Len(ConfigFiles) + 1)
        /\ todo' \in Seq(Op) /\ reply' \in {"none", "ok", "error"}
    BY Zenon, FinishTyped DEF Inv
  <2> QED
    BY Zenon, <1>2, <2>1, <2>2, <2>3 DEF Inv, TypeOK
<1>4. Synced' /\ AtLeaf' /\ Creating'
  BY SMTT(60), <1>2 DEF Synced, AtLeaf, Creating, Inv, TypeOK, IsKeyTable
<1> QED
  BY Zenon, <1>2, <1>3, <1>4 DEF Inv, Unique, Exclusive, HasChild

LEMMA ParentType ==
  ASSUME TypeOK
  PROVE  /\ Parent \in 0..Len(tkeys)
         /\ ids # <<>> => Parent \in 1..Len(tkeys) /\ Parent = ids[Len(ids)]
<1>1. ids \in Seq(1..Len(tkeys)) /\ Len(tkeys) \in Nat
  BY SMTT(60) DEF TypeOK, IsKeyTable
<1>2. CASE ids = <<>>
  BY SMTT(60), <1>1, <1>2 DEF Parent
<1>3. CASE ids # <<>>
  <2>1. Len(ids) \in 1..Len(ids) /\ ids[Len(ids)] \in 1..Len(tkeys)
    BY SMTT(60), <1>1, <1>3
  <2> QED
    BY SMTT(60), <1>1, <1>3, <2>1 DEF Parent
<1> QED
  BY Zenon, <1>2, <1>3

\* A key the transaction has just made has no children to find.
LEMMA FoundIsOld ==
  ASSUME Inv, FindKey
  PROVE  tkeys = keys
<1>1. PICK id \in Existing(key_path[Len(ids) + 1], Parent) : TRUE
  BY Zenon DEF FindKey
<1>2. id \in 1..Len(tkeys) /\ tkeys[id] = Row(key_path[Len(ids) + 1], Parent) /\ pc = "create"
  BY Zenon, <1>1 DEF FindKey, Existing, Child
<1>3. tkeys[id].parent = Parent
  BY SMTT(60), <1>2 DEF Row
<1> QED
  BY Zenon, <1>2, <1>3 DEF Inv, Creating, HasChild

LEMMA FindLemma ==
  ASSUME Inv, FindKey
  PROVE  Inv'
<1> USE DEF disk, txn, subscribers, request
<1>1. PICK id \in Existing(key_path[Len(ids) + 1], Parent) :
         ~HoldsValue(id) /\ ids' = Append(ids, id)
  BY Zenon DEF FindKey
<1>2. /\ id \in 1..Len(tkeys) /\ id \notin DOMAIN tvals
      /\ tkeys[id] = Row(key_path[Len(ids) + 1], Parent)
      /\ pc = "create" /\ pc' = "create" /\ Len(ids) < Len(key_path) /\ Local
      /\ UNCHANGED <<key_path, todo>>
  BY Zenon, <1>1 DEF FindKey, Existing, Child, HoldsValue, Local
<1>3. TypeOK'
  <2>1. Typed'
    BY SMTT(60), <1>1, <1>2 DEF FindKey, Inv, TypeOK, Typed, Local
  <2> QED
    BY Zenon, <1>2, <2>1, LocalTyped DEF Inv
<1>4. tkeys = keys
  BY Zenon, FoundIsOld
<1>5. Creating'
  <2>1. ids \in Seq(1..Len(tkeys)) /\ key_path \in Seq(Names)
    BY Zenon DEF Inv, TypeOK
  <2>2. Len(ids') = Len(ids) + 1 /\ Len(ids') <= Len(key_path)
    BY SMTT(60), <1>1, <1>2, <2>1
  <2>3. Parent' = id
    BY SMTT(60), <1>1, <2>1 DEF Parent
  <2>4. ASSUME NEW n \in 1..Len(ids')
        PROVE tkeys[ids'[n]] = Row(key_path[n], IF n = 1 THEN 0 ELSE ids'[n - 1])
    <3>1. CASE n = Len(ids) + 1
      <4>1. ids'[n] = id /\ Parent = IF n = 1 THEN 0 ELSE ids'[n - 1]
        BY SMTT(60), <1>1, <2>1, <3>1 DEF Parent
      <4> QED
        BY Zenon, <1>2, <3>1, <4>1
    <3>2. CASE n # Len(ids) + 1
      <4>1. n \in 1..Len(ids) /\ ids'[n] = ids[n] /\ (n # 1 => ids'[n - 1] = ids[n - 1])
        BY SMTT(60), <1>1, <2>1, <2>2, <3>2
      <4> QED
        BY Zenon, <1>2, <4>1 DEF Inv, Creating
    <3> QED
      BY Zenon, <3>1, <3>2
  <2> QED
    BY SMTT(60), <1>2, <1>4, <2>2, <2>3, <2>4 DEF Creating, Inv, Local, IsChain
<1> QED
  BY SMTT(60), <1>2, <1>3, <1>4, <1>5 DEF Inv, Local, Synced, AtLeaf, Unique, Exclusive, HasChild

\* A new row differs from all others, because it was looked for, and nothing
\* refers to it yet, because a parent is older than its children.
LEMMA InsertLemma ==
  ASSUME Inv, InsertKey
  PROVE  Inv'
<1> USE DEF disk, txn, subscribers, request
<1> DEFINE name == key_path[Len(ids) + 1]
           new == Len(tkeys) + 1
<1>1. /\ pc = "create" /\ pc' = "create" /\ Len(ids) < Len(key_path)
      /\ tkeys' = Append(tkeys, Row(name, Parent)) /\ ids' = Append(ids, new)
      /\ \A i \in 1..Len(tkeys) : tkeys[i] # Row(name, Parent)
      /\ UNCHANGED <<schema, keys, vals, tvals, subs, open, handles, file, req, todo,
                     key_path, reply, writes, crashes>>
  BY Zenon DEF InsertKey, Existing, Child
<1>2. /\ IsKeyTable(tkeys) /\ Len(tkeys) \in Nat /\ IsValueTable(tvals, tkeys)
      /\ ids \in Seq(1..Len(tkeys)) /\ key_path \in Seq(Names) /\ IsKeyTable(keys)
      /\ Len(keys) \in Nat
  BY SMTT(60) DEF Inv, TypeOK, IsKeyTable
<1>3. Parent \in 0..Len(tkeys)
  BY Zenon, ParentType DEF Inv
<1>4. name \in Names
  BY SMTT(60), <1>1, <1>2
<1>5. Row(name, Parent) \in [name : Names, parent : Nat]
  BY SMTT(60), <1>3, <1>4 DEF Row
<1>6. /\ Len(tkeys') = new /\ tkeys'[new] = Row(name, Parent)
      /\ \A i \in 1..Len(tkeys) : tkeys'[i] = tkeys[i]
      /\ tkeys' \in Seq([name : Names, parent : Nat])
  BY SMTT(60), <1>1, <1>2, <1>5 DEF IsKeyTable
<1>7. Row(name, Parent).parent = Parent
  BY Zenon DEF Row
<1> HIDE DEF name
<1>8. IsKeyTable(tkeys')
  <2>1. ASSUME NEW i \in 1..new PROVE tkeys'[i].parent < i
    <3>1. CASE i = new
      BY SMTT(60), <1>2, <1>3, <1>6, <1>7, <3>1
    <3>2. CASE i # new
      <4>1. i \in 1..Len(tkeys)
        BY SMTT(60), <1>2, <3>2
      <4>2. tkeys[i].parent < i /\ tkeys'[i] = tkeys[i]
        BY Zenon, <1>2, <1>6, <4>1 DEF IsKeyTable
      <4> QED
        BY Zenon, <4>2
    <3> QED
      BY Zenon, <3>1, <3>2
  <2> QED
    BY Zenon, <1>6, <2>1 DEF IsKeyTable
<1>9. ~HasChild(tkeys', new)
  BY SMTT(60), <1>2, <1>6, <1>8 DEF IsKeyTable, HasChild
<1>10. TypeOK'
  <2>1. IsValueTable(tvals, tkeys')
    BY SMTT(60), <1>2, <1>6 DEF IsValueTable
  <2>2. ids' \in Seq(1..new)
    <3>1. ids \in Seq(1..new)
      BY SMTT(60), <1>2
    <3> QED
      BY SMTT(60), <1>1, <1>2, <3>1
  <2> QED
    BY Zenon, <1>1, <1>6, <1>8, <2>1, <2>2 DEF Inv, TypeOK, IsKeyTable, IsValueTable
<1>11. Unique(tkeys')
  <2> SUFFICES ASSUME NEW i \in 1..new, NEW j \in 1..new, tkeys'[i] = tkeys'[j]
               PROVE  i = j
    BY Zenon, <1>6 DEF Unique
  <2>1. \A k \in 1..new : k = new \/ k \in 1..Len(tkeys)
    BY SMTT(60), <1>2
  <2>2. \A k \in 1..Len(tkeys) : tkeys'[k] # tkeys'[new]
    BY Zenon, <1>1, <1>6
  <2>3. \A k, m \in 1..Len(tkeys) : tkeys[k] = tkeys[m] => k = m
    BY Zenon DEF Inv, Unique
  <2>4. CASE i \in 1..Len(tkeys) /\ j \in 1..Len(tkeys)
    <3>1. tkeys'[i] = tkeys[i] /\ tkeys'[j] = tkeys[j]
      BY Zenon, <1>6, <2>4
    <3> QED
      BY Zenon, <2>3, <2>4, <3>1
  <2> QED
    BY Zenon, <2>1, <2>2, <2>4
<1>12. Exclusive(tkeys', tvals')
  <2> SUFFICES ASSUME NEW i \in DOMAIN tvals, HasChild(tkeys', i) PROVE FALSE
    BY Zenon, <1>1 DEF Exclusive
  <2>1. PICK j \in 1..new : tkeys'[j].parent = i
    BY Zenon, <1>6 DEF HasChild
  <2>2. i # Parent /\ ~HasChild(tkeys, i)
    BY Zenon, <1>1 DEF Inv, Creating, Exclusive
  <2>3. CASE j = new
    BY Zenon, <1>6, <1>7, <2>1, <2>2, <2>3
  <2>4. CASE j # new
    <3>1. j \in 1..Len(tkeys)
      BY SMTT(60), <1>2, <2>4
    <3>2. tkeys[j].parent = i
      BY Zenon, <1>6, <2>1, <3>1
    <3> QED
      BY Zenon, <2>2, <3>1, <3>2 DEF HasChild
  <2> QED
    BY Zenon, <2>3, <2>4
<1>13. Creating'
  <2>1. Len(ids') = Len(ids) + 1 /\ Len(ids') <= Len(key_path) /\ ids' # <<>>
    BY SMTT(60), <1>1, <1>2
  <2>2. Parent' = new
    BY SMTT(60), <1>1, <1>2 DEF Parent
  <2>3. ASSUME NEW n \in 1..Len(ids')
        PROVE tkeys'[ids'[n]] = Row(key_path[n], IF n = 1 THEN 0 ELSE ids'[n - 1])
    <3>1. CASE n = Len(ids) + 1
      <4>1. ids'[n] = new /\ Parent = IF n = 1 THEN 0 ELSE ids'[n - 1]
        BY SMTT(60), <1>1, <1>2, <3>1 DEF Parent
      <4> QED
        BY Zenon, <1>6, <3>1, <4>1 DEF name
    <3>2. CASE n # Len(ids) + 1
      <4>1. n \in 1..Len(ids) /\ ids'[n] = ids[n] /\ (n # 1 => ids'[n - 1] = ids[n - 1])
        BY SMTT(60), <1>1, <1>2, <2>1, <3>2
      <4>2. ids[n] \in 1..Len(tkeys)
        BY SMTT(60), <1>2, <4>1
      <4> QED
        BY SMTT(60), <1>1, <1>6, <4>1, <4>2 DEF Inv, Creating
    <3> QED
      BY Zenon, <3>1, <3>2
  <2>4. new \notin DOMAIN tvals
    BY SMTT(60), <1>2 DEF IsValueTable
  <2>5. tkeys' # keys
    BY SMTT(60), <1>2, <1>6 DEF Inv, Synced
  <2> QED
    BY Zenon, <1>1, <1>9, <2>1, <2>2, <2>3, <2>4, <2>5 DEF Creating
<1>14. Synced' /\ AtLeaf'
  BY SMTT(60), <1>1, <1>2, <1>6 DEF Inv, Synced, AtLeaf
<1> QED
  BY SMTT(60), <1>1, <1>10, <1>11, <1>12, <1>13, <1>14 DEF Inv, Unique, Exclusive, HasChild

\* Had no key been made the path would have been found, so the key that gets
\* the value is new and has no subkeys.
LEMMA PathIsNew ==
  ASSUME Inv, pc = "create", Len(ids) = Len(key_path)
  PROVE  /\ ids # <<>> /\ ~HasChild(tkeys, Parent) /\ Parent \in 1..Len(tkeys)
         /\ IsChain(tkeys, key_path, ids)
<1>1. ids \in Seq(1..Len(tkeys))
  BY Zenon DEF Inv, TypeOK
<1>2. IsChain(tkeys, key_path, ids)
  <2>1. \A n \in 1..Len(key_path) : ids[n] \in 1..Len(tkeys)
    BY SMTT(60), <1>1
  <2> QED
    BY Zenon, <2>1 DEF IsChain, Inv, Creating
<1>3. tkeys # keys
  BY Zenon, <1>1, <1>2 DEF Inv, Creating
<1> QED
  BY Zenon, <1>2, <1>3, ParentType DEF Inv, Creating

\* What the two ways to store a value have in common.
LEMMA CommitStep ==
  ASSUME Inv, InsertValue \/ UpdateValue
  PROVE  /\ Head(todo).arg \in Values /\ req.ts \in Times
         /\ Parent \in 1..Len(tkeys) /\ ~HasChild(tkeys, Parent)
         /\ Parent \in DOMAIN tvals => tvals[Parent].ts <= req.ts
         /\ \/ tvals' = SetValue(tvals, Parent, Head(todo).arg, req.ts)
            \/ "insert_value" \in Faults /\ tvals' = tvals
         /\ keys' = tkeys /\ tkeys' = tkeys /\ vals' = tvals' /\ pc' = "notify"
         /\ told' = {} /\ answer' = NoAnswer
         /\ UNCHANGED <<schema, subs, open, handles, file, req, todo, key_path, ids,
                        reply, writes, crashes>>
<1> USE DEF disk, txn, subscribers, request
<1> DEFINE v == Head(todo).arg
<1>1. v \in Values /\ req.ts \in Times /\ Times \subseteq Nat
  BY Zenon, StoreAssumption DEF Inv, AtLeaf, TypeOK, InsertValue, UpdateValue
<1>2. tvals = vals /\ IsValueTable(tvals, tkeys) /\ IsKeyTable(tkeys)
  BY Zenon DEF Inv, Synced, TypeOK
<1>3. CASE InsertValue
  <2>1. Parent \notin DOMAIN tvals
    BY Zenon, <1>3 DEF InsertValue, Inv, Creating
  <2> QED
    BY Zenon, <1>1, <1>3, <2>1, PathIsNew DEF InsertValue, Inserted
<1>4. CASE UpdateValue
  <2>1. tkeys = keys /\ Parent \in DOMAIN tvals
    BY Zenon, <1>4 DEF UpdateValue, Inv, Synced
  <2>2. tvals[Parent].ts \in Nat
    BY Zenon, <1>1, <1>2, <2>1 DEF IsValueTable
  <2>3. tvals[Parent].ts <= req.ts
    <3>1. ~(tvals[Parent].ts > req.ts)
      BY Zenon, <1>4 DEF UpdateValue, IsNewer
    <3>2. req.ts \in Nat
      BY Zenon, <1>1
    <3> QED
      BY SMTT(60), <2>2, <3>1, <3>2
  <2> QED
    BY Zenon, <1>1, <1>2, <1>4, <2>1, <2>3 DEF UpdateValue, IsMap, IsValueTable
<1> QED
  BY Zenon, <1>3, <1>4

LEMMA CommitLemma ==
  ASSUME Inv, InsertValue \/ UpdateValue
  PROVE  /\ Inv'
         /\ \A i \in DOMAIN vals : i \in DOMAIN vals' /\ vals[i].ts <= vals'[i].ts
<1> DEFINE v == Head(todo).arg
<1>1. v \in Values /\ req.ts \in Times /\ Times \subseteq Nat
  BY Zenon, CommitStep, StoreAssumption
<1>2. tvals = vals /\ IsValueTable(tvals, tkeys) /\ IsKeyTable(tkeys)
  BY Zenon DEF Inv, Synced, TypeOK
<1>3. /\ Parent \in 1..Len(tkeys) /\ ~HasChild(tkeys, Parent)
      /\ Parent \in DOMAIN tvals => tvals[Parent].ts <= req.ts
      /\ tvals' = SetValue(tvals, Parent, v, req.ts) \/ tvals' = tvals
      /\ keys' = tkeys /\ tkeys' = tkeys /\ vals' = tvals' /\ pc' = "notify"
      /\ UNCHANGED <<schema, subs, open, handles, file, req, todo, key_path, ids,
                     reply, writes, crashes>>
  BY Zenon, CommitStep
<1> HIDE DEF v
<1>4. /\ IsValueTable(tvals', tkeys) /\ DOMAIN tvals \subseteq DOMAIN tvals'
      /\ DOMAIN tvals' \subseteq DOMAIN tvals \cup {Parent}
      /\ \A i \in DOMAIN tvals : tvals'[i] = tvals[i] \/ (i = Parent /\ tvals'[i].ts = req.ts)
  <2>1. CASE tvals' = tvals
    BY Zenon, <1>2, <2>1
  <2>2. CASE tvals' = SetValue(tvals, Parent, v, req.ts)
    <3>1. /\ IsValueTable(tvals', tkeys) /\ DOMAIN tvals' = DOMAIN tvals \cup {Parent}
          /\ \A i \in DOMAIN tvals : i # Parent => tvals'[i] = tvals[i]
          /\ tvals'[Parent] = [val |-> v, ts |-> req.ts]
      <4>1. /\ Parent \in 1..Len(tkeys) /\ v \in Values /\ req.ts \in Times
            /\ IsValueTable(tvals, tkeys)
        BY Zenon, <1>1, <1>2, <1>3
      <4>2. tvals' = [i \in DOMAIN tvals \cup {Parent} |->
                        IF i = Parent THEN [val |-> v, ts |-> req.ts] ELSE tvals[i]]
        BY Zenon, <2>2 DEF SetValue
      <4>3. [val |-> v, ts |-> req.ts] \in [val : Values, ts : Times]
        BY Zenon, <4>1
      <4> QED
        BY Zenon, <4>1, <4>2, <4>3 DEF IsValueTable
    <3>2. tvals'[Parent].ts = req.ts
      BY SMTT(60), <3>1
    <3>3. \A i \in DOMAIN tvals :
             tvals'[i] = tvals[i] \/ (i = Parent /\ tvals'[i].ts = req.ts)
      BY <3>1, <3>2, Zenon
    <3> QED
      BY Zenon, <3>1, <3>3
  <2> QED
    BY Zenon, <1>3, <2>1, <2>2
<1>5. \A i \in DOMAIN vals : i \in DOMAIN vals' /\ vals[i].ts <= vals'[i].ts
  <2> SUFFICES ASSUME NEW i \in DOMAIN tvals PROVE tvals[i].ts <= tvals'[i].ts
    BY Zenon, <1>2, <1>3, <1>4
  <2>1. tvals[i].ts \in Nat
    BY Zenon, <1>1, <1>2 DEF IsValueTable
  <2> QED
    BY SMTT(60), <1>3, <1>4, <2>1
<1>6. TypeOK'
  <2>1. \A s \in subs : s[1] \in 1..Len(tkeys)
    <3>1. Len(keys) \in Nat /\ Len(tkeys) \in Nat /\ Len(keys) <= Len(tkeys)
      <4>1. IsKeyTable(keys) /\ IsKeyTable(tkeys) /\ Len(keys) <= Len(tkeys)
        BY Zenon DEF Inv, TypeOK, Synced
      <4> QED
        BY SMTT(60), <4>1 DEF IsKeyTable
    <3>2. \A s \in subs : s[1] \in 1..Len(keys)
      BY Zenon DEF Inv, TypeOK
    <3> QED
      BY SMTT(60), <3>1, <3>2
  <2> QED
    BY Zenon, <1>2, <1>3, <1>4, <2>1 DEF Inv, TypeOK, IsKeyTable, IsValueTable
<1>7. Synced' /\ AtLeaf' /\ Creating'
  <2>1. Len(tkeys) <= Len(tkeys)
    BY SMTT(60), <1>2 DEF IsKeyTable
  <2>2. todo # <<>>
    BY Zenon DEF Inv, AtLeaf, InsertValue, UpdateValue
  <2>3. Head(todo).arg \in Values
    BY Zenon, <1>1 DEF v
  <2>4. Synced'
    BY Zenon, <1>3, <2>1 DEF Synced
  <2>5. AtLeaf'
    BY Zenon, <1>3, <2>2, <2>3 DEF AtLeaf
  <2>6. Creating'
    BY Zenon, <1>3 DEF Creating
  <2> QED
    BY Zenon, <2>4, <2>5, <2>6
<1>8. Unique(keys') /\ Unique(tkeys')
  BY Zenon, <1>3 DEF Inv
<1>9. Exclusive(keys', vals') /\ Exclusive(tkeys', tvals')
  BY Zenon, <1>3, <1>4 DEF Inv, Exclusive
<1> QED
  BY Zenon, <1>5, <1>6, <1>7, <1>8, <1>9 DEF Inv

LEMMA AfterLeafLemma ==
  ASSUME Inv, KeepNewer \/ Notify
  PROVE  Inv'
<1> USE DEF KeepNewer, Notify, disk, txn, subscribers
<1>1. todo # <<>> /\ Local /\ pc \in {"update", "notify"} /\ pc' = "map"
  BY Zenon DEF Inv, AtLeaf, Local
<1>2. Typed'
  BY Zenon, <1>1, HeadTail DEF Inv, TypeOK, Typed
<1>3. TypeOK'
  BY Zenon, <1>1, <1>2, LocalTyped DEF Inv
<1> QED
  BY Zenon, <1>1, <1>3, QuietLemma DEF Quiet, AtLeaf, Local

LEMMA CreatingUnchanged ==
  ASSUME Creating, UNCHANGED <<keys, tkeys, tvals, pc, ids, key_path>>
  PROVE  Creating'
<1>1. Parent' = Parent
  BY Zenon DEF Parent
<1> QED
  BY Zenon, <1>1 DEF Creating

LEMMA ClientLemma ==
  ASSUME Inv, Read \/ Subscribe \/ CloseSubscription
  PROVE  Inv'
<1> USE DEF disk, txn, subscribers, request
<1>1. CASE Read
  <2>1. Local /\ Typed'
    BY Zenon, <1>1 DEF Read, Inv, TypeOK, Typed, Local
  <2>2. TypeOK'
    BY Zenon, <2>1, LocalTyped DEF Inv
  <2> QED
    BY Zenon, <1>1, <2>2, QuietLemma DEF Read, Quiet, AtLeaf
<1>2. CASE Subscribe
  <2>0. PICK p \in ReadPaths :
           \E c \in Chains(keys, p) : subs' = subs \cup {<<c[Len(p)], handles + 1>>}
    BY Zenon, <1>2 DEF Subscribe
  <2>1. PICK c \in Chains(keys, p) : subs' = subs \cup {<<c[Len(p)], handles + 1>>}
    BY Zenon, <2>0
  <2>2. p \in Seq(Names) /\ p # <<>>
    BY Zenon, StoreAssumption
  <2>3. c \in [1..Len(p) -> 1..Len(keys)] /\ Len(p) \in 1..Len(p)
    BY SMTT(60), <2>2 DEF Chains
  <2>4. c[Len(p)] \in 1..Len(keys)
    BY Zenon, <2>3
  <2>5. handles \in Nat /\ handles + 1 \in 0..MaxHandles
    BY SMTT(60), <1>2, StoreAssumption DEF Subscribe, Inv, TypeOK
  <2>6. \A s \in subs' : s[1] \in 1..Len(keys) /\ s[2] \in 1..(handles + 1)
    BY SMTT(60), <2>1, <2>4, <2>5 DEF Inv, TypeOK
  <2>7. open' \subseteq 1..(handles + 1)
    BY SMTT(60), <1>2, <2>5 DEF Subscribe, Inv, TypeOK
  <2>8. TypeOK'
    BY Zenon, <1>2, <2>5, <2>6, <2>7 DEF Subscribe, Inv, TypeOK, IsKeyTable, IsValueTable
  <2> QED
    BY Zenon, <1>2, <2>8, QuietLemma DEF Subscribe, Quiet, AtLeaf
<1>3. CASE CloseSubscription
  <2>1. TypeOK'
    BY Zenon, <1>3 DEF CloseSubscription, Inv, TypeOK, IsKeyTable, IsValueTable
  <2>2. UNCHANGED <<keys, vals, tkeys, tvals, pc, ids, key_path, todo>>
    BY Zenon, <1>3 DEF CloseSubscription
  <2>3. Synced' /\ AtLeaf'
    BY Zenon, <2>2 DEF Inv, Synced, AtLeaf
  <2>4. Creating'
    BY Zenon, <2>2, CreatingUnchanged DEF Inv
  <2> QED
    BY SMTT(60), <2>1, <2>2, <2>3, <2>4 DEF Inv, Unique, Exclusive, HasChild
<1> QED
  BY Zenon, <1>1, <1>2, <1>3

LEMMA CrashLemma ==
  ASSUME Inv, Crash
  PROVE  Inv'
<1>1. /\ UNCHANGED <<schema, keys, vals, handles, writes>>
      /\ tkeys' = keys /\ tvals' = vals /\ subs' = {} /\ open' = {}
      /\ pc' = "open" /\ file' = 1 /\ req' = NoRequest /\ todo' = <<>>
      /\ key_path' = <<>> /\ ids' = <<>> /\ reply' = "none"
      /\ crashes < MaxCrashes /\ crashes' = crashes + 1
  BY Zenon DEF Crash, Rollback, disk
<1>2. IsKeyTable(keys) /\ IsValueTable(vals, keys)
  BY Zenon DEF Inv, TypeOK
<1>3. TypeOK'
  <2>1. Len(ConfigFiles) \in Nat
    BY SMTT(60), StoreAssumption
  <2>2. NoRequest \in [path : Seq(Names), ops : Seq(Op), ts : Times]
    <3>1. FileTime \in Times
      BY Zenon, StoreAssumption
    <3> QED
      BY SMTT(60), <3>1 DEF NoRequest
  <2>3. crashes' \in 0..MaxCrashes
    BY SMTT(60), <1>1, StoreAssumption DEF Inv, TypeOK
  <2> QED
    BY SMTT(60), <1>1, <1>2, <2>1, <2>2, <2>3 DEF Inv, TypeOK
<1>4. Synced'
  BY SMTT(60), <1>1, <1>2 DEF Synced, IsKeyTable
<1>5. AtLeaf' /\ Creating'
  BY Zenon, <1>1 DEF AtLeaf, Creating
<1> QED
  BY SMTT(60), <1>1, <1>3, <1>4, <1>5 DEF Inv, Unique, Exclusive, HasChild

LEMMA StutterLemma ==
  ASSUME Inv, UNCHANGED vars
  PROVE  Inv'
<1> USE DEF vars
<1>1. TypeOK'
  <2>1. Typed' /\ Local
    BY Zenon DEF Inv, TypeOK, Typed, Local
  <2> QED
    BY Zenon, <2>1, LocalTyped DEF Inv
<1>2. Synced' /\ AtLeaf'
  BY Zenon DEF Inv, Synced, AtLeaf
<1>3. Creating'
  BY Zenon, CreatingUnchanged DEF Inv
<1> QED
  BY SMTT(60), <1>1, <1>2, <1>3 DEF Inv, Unique, Exclusive, HasChild

LEMMA NextLemma == Inv /\ [Next]_vars => Inv'
BY Zenon, OpenLemma, LoadLemma, ReceiveLemma, WalkLemma, BeginLemma, FindLemma,
   AbortLemma, InsertLemma, CommitLemma, AfterLeafLemma, ClientLemma,
   CrashLemma, StutterLemma DEF Next

LEMMA Invariance == Spec => []Inv
BY InitLemma, NextLemma, PTL DEF Spec

-----------------------------------------------------------------------------
(* The store as a tree. *)

\* The open transaction only adds rows.
Grown == \A i \in 1..Len(keys) : tkeys[i] = keys[i]

\* The path is the one get_key_ids or create_key_path has followed.
Found == pc \in {"update", "notify"} => IsChain(tkeys, key_path, ids)

\* No row without the tables, no value without the last of them.
Ready ==
    /\ schema < Tables => keys = <<>>
    /\ pc \in {"create", "update", "notify"} => schema = Tables

\* Only the key being made has neither subkeys nor a value.
Full ==
    "insert_value" \notin Faults =>
        /\ Filled(keys, vals)
        /\ pc = "create" =>
              \A i \in 1..Len(tkeys) :
                 HasChild(tkeys, i) \/ i \in DOMAIN tvals \/ i = Parent

PathInv == Grown /\ Len(key_path) <= MaxDepth /\ Found /\ Ready /\ Full

LEMMA PathInit == Init => PathInv
<1> SUFFICES ASSUME Init PROVE PathInv
  BY Zenon
<1>1. Len(keys) = 0 /\ Len(key_path) = 0 /\ 0 <= MaxDepth
  BY SMTT(60), StoreAssumption DEF Init
<1>2. Grown /\ Filled(keys, vals)
  BY SMTT(60), <1>1 DEF Grown, Filled
<1> QED
  BY Zenon, <1>1, <1>2 DEF Init, PathInv, Found, Ready, Full

\* Outside the write of a leaf the transaction sees what is on disk.
LEMMA PathOutside ==
  ASSUME Inv, Inv', PathInv, UNCHANGED <<keys, vals>>,
         pc' \notin {"create", "update", "notify"},
         Len(key_path') <= MaxDepth, schema <= schema'
  PROVE  PathInv'
<1>1. tkeys' = keys'
  BY Zenon DEF Inv, Synced
<1>2. Grown'
  BY Zenon, <1>1 DEF Grown
<1>3. Found'
  BY Zenon DEF Found
<1>4. Ready'
  <2>1. schema \in Nat /\ schema' \in Nat
    BY SMTT(60) DEF Inv, TypeOK
  <2>2. schema' < Tables => schema < Tables
    BY SMTT(60), <2>1
  <2> QED
    BY Zenon, <2>2 DEF PathInv, Ready
<1>5. Full'
  BY Zenon DEF PathInv, Full, Filled, HasChild
<1> QED
  BY Zenon, <1>2, <1>3, <1>4, <1>5 DEF PathInv

LEMMA PathSame ==
  ASSUME PathInv, UNCHANGED <<schema, keys, vals, tkeys, tvals, pc, key_path, ids>>
  PROVE  PathInv'
<1>1. Parent' = Parent
  BY Zenon DEF Parent
<1> QED
  BY Zenon, <1>1 DEF PathInv, Grown, Found, Ready, Full, Filled, HasChild, IsChain

\* The steps outside the write of a leaf.
LEMMA PathWalk ==
  ASSUME Inv, Inv', PathInv,
         \/ OpenFound \/ CreateTable
         \/ LoadFile \/ ReceiveWrite \/ RefuseWrite \/ FinishWrite
         \/ PushKey \/ PopKey \/ EncodeFails
         \/ FoundValue \/ InsertKeyFails \/ UpdateFails \/ KeepNewer \/ Notify
         \/ Read \/ Subscribe \/ Crash
  PROVE  PathInv'
<1> USE DEF disk, txn, subscribers, request
<1>1. schema \in Nat /\ MaxDepth \in Nat /\ key_path \in Seq(Names)
  BY SMTT(60), StoreAssumption DEF Inv, TypeOK
<1>2. schema <= schema
  BY SMTT(60), <1>1
<1>3. CASE OpenFound \/ CreateTable
  <2>1. UNCHANGED <<keys, vals, key_path>> /\ pc' \in {"idle", "create_db"}
    BY Zenon, <1>3 DEF OpenFound, CreateTable
  <2>2. schema <= schema'
    BY SMTT(60), <1>1, <1>3 DEF OpenFound, CreateTable
  <2> QED
    BY Zenon, <2>1, <2>2, PathOutside DEF PathInv
<1>4. CASE LoadFile \/ Crash
  <2>1. UNCHANGED <<schema, keys, vals>> /\ pc' \in {"idle", "map", "open"} /\ key_path' = <<>>
    BY Zenon, <1>4 DEF LoadFile, StartWalk, Crash
  <2>2. Len(key_path') <= MaxDepth
    BY SMTT(60), <1>1, <2>1
  <2> QED
    BY Zenon, <1>2, <2>1, <2>2, PathOutside
<1>5. CASE ReceiveWrite
  BY Zenon, <1>2, <1>5, PathOutside DEF ReceiveWrite, StartWalk
<1>6. CASE FinishWrite \/ EncodeFails
  BY Zenon, <1>2, <1>6, PathOutside DEF FinishWrite, EncodeFails, Finish, PathInv
<1>7. CASE RefuseWrite \/ Read \/ Subscribe
  BY Zenon, <1>2, <1>7, PathOutside DEF RefuseWrite, Read, Subscribe, PathInv
<1>8. CASE PushKey \/ PopKey
  <2>1. UNCHANGED <<schema, keys, vals, pc>> /\ pc = "map"
    BY Zenon, <1>8 DEF PushKey, PopKey
  <2>2. Len(key_path) \in Nat /\ Len(key_path) <= MaxDepth
    BY Zenon, <1>1, LenProperties DEF PathInv
  <2>3. CASE PopKey
    <3>1. key_path' = SubSeq(key_path, 1, Len(key_path) - 1)
      BY Zenon, <2>3 DEF PopKey
    <3>2. Len(key_path') <= MaxDepth
      BY SMTT(60), <1>1, <2>2, <3>1
    <3> QED
      BY Zenon, <1>2, <2>1, <3>2, PathOutside
  <2>4. CASE PushKey
    <3>1. Len(key_path') <= MaxDepth
      <4>1. CASE VecHasRoom(key_path)
        <5>1. key_path' = Append(key_path, Head(todo).arg)
          BY Zenon, <2>4, <4>1 DEF PushKey
        <5>2. Len(key_path') = Len(key_path) + 1
          BY SMTT(60), <1>1, <5>1
        <5> QED
          BY SMTT(60), <1>1, <2>2, <4>1, <5>2 DEF VecHasRoom
      <4>2. CASE ~VecHasRoom(key_path)
        BY Zenon, <2>2, <2>4, <4>2 DEF PushKey
      <4> QED
        BY Zenon, <4>1, <4>2
    <3> QED
      BY Zenon, <1>2, <2>1, <3>1, PathOutside
  <2> QED
    BY Zenon, <1>8, <2>3, <2>4
<1>9. CASE FoundValue \/ InsertKeyFails \/ UpdateFails
  BY Zenon, <1>2, <1>9, PathOutside
     DEF FoundValue, InsertKeyFails, UpdateFails, Abort, Finish, PathInv
<1>10. CASE KeepNewer \/ Notify
  BY Zenon, <1>2, <1>10, PathOutside DEF KeepNewer, Notify, PathInv
<1> QED
  BY Zenon, <1>3, <1>4, <1>5, <1>6, <1>7, <1>8, <1>9, <1>10

LEMMA PathBegin ==
  ASSUME Inv, Inv', PathInv, BeginWrite
  PROVE  PathInv'
<1> USE DEF disk, txn, subscribers
<1>1. /\ UNCHANGED <<schema, keys, vals, tkeys, tvals, key_path>> /\ pc = "map"
      /\ tkeys = keys /\ tvals = vals
  BY Zenon DEF BeginWrite, Inv, Synced
<1>2. schema \in 0..Tables
  BY Zenon DEF Inv, TypeOK
<1>3. schema <= schema
  BY SMTT(60), <1>2
<1>4. CASE schema < Tables
  BY Zenon, <1>1, <1>3, <1>4, PathOutside DEF BeginWrite, Finish, PathInv
<1>5. CASE ~(schema < Tables)
  <2>1. schema = Tables
    BY SMTT(60), <1>2, <1>5
  <2>2. Grown' /\ Len(key_path') <= MaxDepth /\ Ready'
    BY Zenon, <1>1, <2>1 DEF PathInv, Grown, Ready
  <2>3. Found'
    <3> DEFINE C == Chains(tkeys, key_path)
    <3>1. /\ ids' = IF C = {} THEN <<>> ELSE CHOOSE c \in C : TRUE
          /\ pc' = IF C = {} THEN "create" ELSE "update"
      BY Zenon, <1>5 DEF BeginWrite
    <3>2. CASE C = {}
      BY Zenon, <3>1, <3>2 DEF Found
    <3>3. CASE C # {}
      <4>1. ids' \in C
        BY Zenon, <3>1, <3>3
      <4>2. IsChain(tkeys, key_path, ids')
        BY Zenon, <4>1 DEF Chains
      <4> QED
        BY Zenon, <1>1, <4>2 DEF Found
    <3> QED
      BY Zenon, <3>2, <3>3
  <2>4. Full'
    BY Zenon, <1>1 DEF PathInv, Full, Filled, HasChild
  <2> QED
    BY Zenon, <2>2, <2>3, <2>4 DEF PathInv
<1> QED
  BY Zenon, <1>4, <1>5

LEMMA PathFind ==
  ASSUME Inv, PathInv, FindKey
  PROVE  PathInv'
<1> USE DEF disk, txn, subscribers, request
<1>1. /\ UNCHANGED <<schema, keys, vals, tkeys, tvals, pc, key_path>> /\ pc = "create"
  BY Zenon DEF FindKey
<1>2. tkeys = keys /\ tvals = vals
  BY Zenon, FoundIsOld DEF Inv, Synced
<1>3. Full'
  BY Zenon, <1>1, <1>2 DEF PathInv, Full, Filled, HasChild
<1> QED
  BY Zenon, <1>1, <1>3 DEF PathInv, Grown, Found, Ready

LEMMA PathInsert ==
  ASSUME Inv, PathInv, InsertKey
  PROVE  PathInv'
<1> USE DEF disk, txn, subscribers, request
<1> DEFINE row == Row(key_path[Len(ids) + 1], Parent)
           new == Len(tkeys) + 1
<1>1. /\ UNCHANGED <<schema, keys, vals, tvals, pc, key_path>> /\ pc = "create"
      /\ tkeys' = Append(tkeys, row) /\ ids' = Append(ids, new)
  BY Zenon DEF InsertKey
<1>2. /\ Len(tkeys) \in Nat /\ Len(keys) \in Nat /\ Len(keys) <= Len(tkeys)
      /\ ids \in Seq(1..Len(tkeys)) /\ tkeys \in Seq([name : Names, parent : Nat])
  BY SMTT(60) DEF Inv, TypeOK, IsKeyTable, Synced
<1>3. row.parent = Parent
  BY Zenon DEF Row
<1> HIDE DEF row
<1>4. /\ Len(tkeys') = new /\ tkeys'[new] = row
      /\ \A i \in 1..Len(tkeys) : tkeys'[i] = tkeys[i]
  BY SMTT(60), <1>1, <1>2
<1>5. Parent' = new
  BY SMTT(60), <1>1, <1>2 DEF Parent
<1>6. Grown'
  BY SMTT(60), <1>1, <1>2, <1>4 DEF PathInv, Grown
<1>7. Full'
  <2> SUFFICES ASSUME "insert_value" \notin Faults, NEW i \in 1..new
               PROVE  HasChild(tkeys', i) \/ i \in DOMAIN tvals \/ i = new
    <3>1. Filled(keys, vals)' <=> Filled(keys, vals)
      BY Zenon, <1>1 DEF Filled, HasChild
    <3> QED
      BY Zenon, <1>1, <1>4, <1>5, <3>1 DEF PathInv, Full
  <2>1. CASE i = new
    BY Zenon, <2>1
  <2>2. CASE i # new
    <3>1. i \in 1..Len(tkeys) /\ new \in 1..new
      BY SMTT(60), <1>2, <2>2
    <3>2. HasChild(tkeys, i) \/ i \in DOMAIN tvals \/ i = Parent
      BY Zenon, <1>1, <3>1 DEF PathInv, Full
    <3>3. ASSUME HasChild(tkeys, i) PROVE HasChild(tkeys', i)
      <4>1. PICK k \in 1..Len(tkeys) : tkeys[k].parent = i
        BY Zenon, <3>3 DEF HasChild
      <4>2. k \in 1..new /\ tkeys'[k].parent = i
        BY SMTT(60), <1>2, <1>4, <4>1
      <4> QED
        BY Zenon, <1>4, <4>2 DEF HasChild
    <3>4. ASSUME i = Parent PROVE HasChild(tkeys', i)
      BY Zenon, <1>3, <1>4, <3>1, <3>4 DEF HasChild
    <3> QED
      BY Zenon, <3>2, <3>3, <3>4
  <2> QED
    BY Zenon, <2>1, <2>2
<1> QED
  BY Zenon, <1>1, <1>6, <1>7 DEF PathInv, Found, Ready

\* A value is stored at the end of the path the walk has reached.
LEMMA CommitPath ==
  ASSUME Inv, PathInv, InsertValue \/ UpdateValue
  PROVE  /\ IsChain(tkeys, key_path, ids) /\ ids # <<>> /\ key_path # <<>>
         /\ PathOf(tkeys)[Parent] = key_path
<1>1. IsChain(tkeys, key_path, ids)
  BY Zenon, PathIsNew DEF InsertValue, UpdateValue, PathInv, Found
<1>2. ids \in Seq(1..Len(tkeys)) /\ key_path \in Seq(Names) /\ IsKeyTable(tkeys)
  BY Zenon DEF Inv, TypeOK
<1>3. Parent # 0 /\ Parent \in 1..Len(tkeys)
  <2>1. Parent \in 1..Len(tkeys)
    BY Zenon, CommitStep
  <2> QED
    BY SMTT(60), <2>1
<1>4. ids # <<>> /\ Parent = ids[Len(ids)]
  BY Zenon, <1>3 DEF Parent
<1>5. Len(ids) = Len(key_path)
  BY Zenon, <1>1 DEF IsChain
<1>6. key_path # <<>> /\ Len(key_path) \in 1..Len(key_path)
  BY SMTT(60), <1>2, <1>4, <1>5
<1>7. Len(PathOf(tkeys)[Parent]) = Len(key_path) /\ Begins(PathOf(tkeys)[Parent], key_path)
  <2>1. PICK n \in 1..Len(key_path) : n = Len(key_path)
    BY Zenon, <1>6
  <2>2. Len(PathOf(tkeys)[ids[n]]) = n /\ Begins(PathOf(tkeys)[ids[n]], key_path)
    BY Zenon, <1>1, <1>2, ChainPath
  <2>3. Parent = ids[n]
    BY Zenon, <1>4, <1>5, <2>1
  <2> QED
    BY Zenon, <2>1, <2>2, <2>3
<1>8. PICK q : q = PathOf(tkeys)[Parent] /\ q \in Seq(Names)
  BY Zenon, <1>2, <1>3, PathParent
<1>9. q = key_path
  BY Zenon, <1>2, <1>7, <1>8, BeginsFacts
<1> QED
  BY Zenon, <1>1, <1>4, <1>6, <1>8, <1>9

LEMMA PathCommit ==
  ASSUME Inv, PathInv, InsertValue \/ UpdateValue
  PROVE  PathInv'
<1>1. /\ keys' = tkeys /\ tkeys' = tkeys /\ vals' = tvals' /\ pc' = "notify"
      /\ UNCHANGED <<schema, key_path, ids>>
  BY Zenon, CommitStep
<1>2. Grown' /\ Len(key_path') <= MaxDepth
  BY Zenon, <1>1 DEF PathInv, Grown
<1>3. Found'
  BY Zenon, <1>1, CommitPath DEF Found
<1>4. Ready'
  <2>1. schema = Tables
    BY Zenon DEF InsertValue, UpdateValue, PathInv, Ready
  <2>2. ~(schema < Tables)
    BY SMTT(60), <2>1
  <2> QED
    BY Zenon, <1>1, <2>1, <2>2 DEF Ready
<1>5. Full'
  <2> SUFFICES ASSUME "insert_value" \notin Faults, NEW i \in 1..Len(tkeys)
               PROVE  HasChild(tkeys, i) \/ i \in DOMAIN tvals'
    BY Zenon, <1>1 DEF Full, Filled
  <2>1. DOMAIN tvals' = DOMAIN tvals \cup {Parent}
    <3>1. tvals' = SetValue(tvals, Parent, Head(todo).arg, req.ts)
      BY Zenon, CommitStep
    <3> QED
      BY Zenon, <3>1 DEF SetValue
  <2>2. HasChild(tkeys, i) \/ i \in DOMAIN tvals \/ i = Parent
    <3>1. CASE pc = "create"
      BY Zenon, <3>1 DEF PathInv, Full
    <3>2. CASE pc # "create"
      BY Zenon, <3>2 DEF PathInv, Full, Filled, Inv, Synced
    <3> QED
      BY Zenon, <3>1, <3>2
  <2> QED
    BY Zenon, <2>1, <2>2
<1> QED
  BY Zenon, <1>2, <1>3, <1>4, <1>5 DEF PathInv

LEMMA PathNext == Inv /\ PathInv /\ [Next]_vars => PathInv'
<1> SUFFICES ASSUME Inv, PathInv, [Next]_vars PROVE PathInv'
  BY Zenon
<1>1. Inv'
  BY Zenon, NextLemma
<1>2. CASE CloseSubscription \/ UNCHANGED vars
  BY Zenon, <1>2, PathSame DEF CloseSubscription, vars, disk, txn, request
<1> QED
  BY Zenon, <1>1, <1>2, PathWalk, PathBegin, PathFind, PathInsert, PathCommit DEF Next

LEMMA PathInvariance == Spec => []PathInv
BY PathInit, PathNext, Invariance, PTL DEF Spec

LEMMA TreeStarts == Init => Tree!TreeInit
<1> SUFFICES ASSUME Init PROVE Tree!TreeInit
  BY Zenon
<1>1. TreeOf(keys, vals) = <<>>
  BY SMTT(60) DEF Init, TreeOf
<1>2. Watching = {} /\ Owed = {}
  BY Zenon DEF Init, Watching, Owed
<1>3. answer.vals = {} /\ told = {}
  BY SMTT(60) DEF Init, NoAnswer
<1> QED
  BY Zenon, <1>1, <1>2, <1>3 DEF Tree!TreeInit

\* The abstract state does not move.
Still == UNCHANGED <<TreeOf(keys, vals), Watching, Owed, told, answer.vals>>

LEMMA StillLemma ==
  ASSUME UNCHANGED <<keys, vals, subs, open, told, answer>>,
         (pc # "notify" /\ pc' # "notify") \/ UNCHANGED <<pc, key_path>>
  PROVE  Still
<1>1. UNCHANGED Watching
  BY Zenon DEF Watching
<1>2. UNCHANGED Owed
  BY Zenon, <1>1 DEF Owed
<1> QED
  BY Zenon, <1>1, <1>2 DEF Still

LEMMA StillSteps ==
  ASSUME Inv, \/ OpenFound \/ CreateTable
         \/ LoadFile \/ ReceiveWrite \/ RefuseWrite \/ FinishWrite
         \/ PushKey \/ PopKey \/ EncodeFails \/ BeginWrite
         \/ FindKey \/ FoundValue \/ InsertKey \/ InsertKeyFails
         \/ UpdateFails \/ KeepNewer \/ UNCHANGED vars
  PROVE  Still
<1> USE DEF disk, txn, subscribers, request
<1>1. UNCHANGED <<keys, vals, subs, open, told, answer>>
  BY Zenon DEF OpenFound, CreateTable, LoadFile, StartWalk, ReceiveWrite,
     RefuseWrite, FinishWrite, PushKey, PopKey, EncodeFails, BeginWrite, FindKey,
     FoundValue, InsertKey, InsertKeyFails, Abort, UpdateFails, KeepNewer, vars
<1>2. (pc # "notify" /\ pc' # "notify") \/ UNCHANGED <<pc, key_path>>
  <2>1. CASE OpenFound \/ CreateTable \/ LoadFile \/ ReceiveWrite \/ RefuseWrite
    BY Zenon, <2>1 DEF OpenFound, CreateTable, LoadFile, ReceiveWrite, RefuseWrite
  <2>2. CASE FinishWrite \/ PushKey \/ PopKey \/ EncodeFails \/ BeginWrite
    BY Zenon, <2>2 DEF FinishWrite, PushKey, PopKey, EncodeFails, BeginWrite, Finish
  <2>3. CASE FindKey \/ FoundValue \/ InsertKey \/ InsertKeyFails \/ UpdateFails \/ KeepNewer
    BY Zenon, <2>3 DEF FindKey, FoundValue, InsertKey, InsertKeyFails, Abort,
       UpdateFails, KeepNewer, Finish
  <2>4. CASE UNCHANGED vars
    BY Zenon, <2>4 DEF vars
  <2> QED
    BY Zenon, <2>1, <2>2, <2>3, <2>4
<1> QED
  BY Zenon, <1>1, <1>2, StillLemma

\* The tables satisfy what the lemmas on paths ask for.
LEMMA SoundTables ==
  ASSUME Inv
  PROVE  /\ IsKeyTable(keys) /\ Unique(keys) /\ DOMAIN vals \subseteq 1..Len(keys)
         /\ Exclusive(keys, vals)
         /\ IsKeyTable(tkeys) /\ Unique(tkeys) /\ DOMAIN tvals \subseteq 1..Len(tkeys)
         /\ Exclusive(tkeys, tvals)
BY Zenon DEF Inv, TypeOK, IsValueTable

LEMMA ReadStep ==
  ASSUME Inv, PathInv, "insert_value" \notin Faults, Read
  PROVE  \E p \in ReadPaths : Tree!Get(p)
<1> USE DEF disk, txn, subscribers, request
<1>1. PICK p \in ReadPaths : answer' = ReadResult(p)
  BY Zenon DEF Read
<1>2. /\ UNCHANGED <<keys, vals, subs, open, told, pc, key_path>> /\ pc = "idle"
  BY Zenon DEF Read
<1>3. p \in Seq(Names) /\ p # <<>>
  BY Zenon, StoreAssumption
<1>4. schema < 2 => DOMAIN vals = {}
  <2> SUFFICES ASSUME schema < 2 PROVE DOMAIN vals = {}
    BY Zenon
  <2>1. keys = <<>>
    <3>1. schema < 3
      BY SMTT(60) DEF Inv, TypeOK
    <3> QED
      BY Zenon, <3>1 DEF PathInv, Ready, Tables
  <2>2. 1..Len(keys) = {}
    BY SMTT(60), <2>1
  <2> QED
    BY Zenon, <2>2, SoundTables
<1>5. answer'.vals = Tree!Subtree(p)
  <2>1. ReadResult(p).vals = Tree!Subtree(p)
    BY Zenon, <1>3, <1>4, SoundTables, ReadReturnsSubtree DEF PathInv, Full
  <2> QED
    BY Zenon, <1>1, <2>1
<1>6. UNCHANGED Watching /\ Owed = {} /\ Owed' = {}
  BY Zenon, <1>2 DEF Watching, Owed
<1> QED
  BY Zenon, <1>2, <1>5, <1>6 DEF Tree!Get

LEMMA CloseStep ==
  ASSUME Inv, CloseSubscription
  PROVE  \E h \in 1..MaxHandles : Tree!Unwatch(h)
<1> USE DEF disk, txn, subscribers, request
<1>1. PICK h \in open : open' = open \ {h}
  BY Zenon DEF CloseSubscription
<1>2. UNCHANGED <<keys, vals, subs, told, answer, pc, key_path>>
  BY Zenon DEF CloseSubscription
<1>3. h \in 1..MaxHandles
  <2>1. handles \in 0..MaxHandles /\ h \in 1..handles /\ MaxHandles \in Nat
    BY Zenon, StoreAssumption DEF Inv, TypeOK
  <2> QED
    BY SMTT(60), <2>1
<1>4. Watching' = {w \in Watching : w[2] # h}
  <2> DEFINE W(s) == <<PathOf(keys)[s[1]], s[2]>>
  <2>1. \A s : W(s)[2] = s[2]
    BY Zenon
  <2>2. Watching = {W(s) : s \in {r \in subs : r[2] \in open}}
    BY Zenon DEF Watching
  <2>3. Watching' = {W(s) : s \in {r \in subs : r[2] \in open \ {h}}}
    BY Zenon, <1>1, <1>2 DEF Watching
  <2> HIDE DEF W
  <2> QED
    BY Zenon, <2>1, <2>2, <2>3
<1>5. Owed' = {o \in Owed : o[1] # h}
  <2>1. CASE pc # "notify"
    BY Zenon, <1>2, <2>1 DEF Owed
  <2>2. CASE pc = "notify"
    <3> DEFINE Is(x) == /\ Len(x[1]) <= Len(key_path)
                        /\ x[1] = SubSeq(key_path, 1, Len(x[1]))
               N(w) == <<w[2], key_path>>
    <3>1. \A w : N(w)[1] = w[2]
      BY Zenon
    <3>2. Owed = {N(w) : w \in {x \in Watching : Is(x)}}
      BY Zenon, <2>2 DEF Owed
    <3>3. Owed' = {N(w) : w \in {x \in Watching' : Is(x)}}
      BY Zenon, <1>2, <2>2 DEF Owed
    <3> HIDE DEF N, Is
    <3> QED
      BY Zenon, <1>4, <3>1, <3>2, <3>3
  <2> QED
    BY Zenon, <2>1, <2>2
<1> QED
  BY Zenon, <1>2, <1>3, <1>4, <1>5 DEF Tree!Unwatch

LEMMA CrashStep ==
  ASSUME Crash
  PROVE  Tree!Restart
<1>1. /\ UNCHANGED <<keys, vals>> /\ subs' = {} /\ pc' = "open" /\ told' = {}
      /\ answer' = NoAnswer
  BY Zenon DEF Crash, disk
<1>2. Watching' = {} /\ Owed' = {}
  BY Zenon, <1>1 DEF Watching, Owed
<1>3. answer'.vals = {}
  BY SMTT(60), <1>1 DEF NoAnswer
<1> QED
  BY Zenon, <1>1, <1>2, <1>3 DEF Tree!Restart

\* notify_nested_key reaches the subscriptions at or above the path.
LEMMA NotifyStep ==
  ASSUME Inv, PathInv, Notify
  PROVE  Tree!Tell
<1> USE DEF disk, txn, subscribers
<1>1. /\ UNCHANGED <<keys, vals, subs, open, answer>> /\ pc = "notify" /\ pc' = "map"
      /\ told' = {<<s[2], key_path>> :
                     s \in {r \in subs : r[1] \in NotifiedKeys /\ r[2] \in open}}
  BY Zenon DEF Notify
<1>2. UNCHANGED Watching /\ Owed' = {}
  BY Zenon, <1>1 DEF Watching, Owed
<1>3. tkeys = keys /\ IsChain(keys, key_path, ids) /\ key_path \in Seq(Names)
  BY Zenon, <1>1 DEF Inv, Synced, PathInv, Found, TypeOK
<1>4. ASSUME NEW r \in subs
      PROVE  r[1] \in NotifiedKeys <=>
                /\ Len(PathOf(keys)[r[1]]) <= Len(key_path)
                /\ PathOf(keys)[r[1]] = SubSeq(key_path, 1, Len(PathOf(keys)[r[1]]))
  <2>1. PICK i \in 1..Len(keys) : i = r[1]
    BY Zenon DEF Inv, TypeOK
  <2>2. PICK q : q = PathOf(keys)[i]
    BY Zenon
  <2>3. q \in Seq(Names) /\ Len(q) \in Nat \ {0}
    BY Zenon, <2>2, SoundTables, PathParent
  <2>4. Len(q) <= Len(key_path) /\ q = SubSeq(key_path, 1, Len(q)) <=> Begins(q, key_path)
    BY Zenon, <1>3, <2>3, PrefixBegins
  <2>5. Len(ids) = Len(key_path) /\ Len(key_path) \in Nat
    BY Zenon, <1>3, LenProperties DEF IsChain
  <2>6. ASSUME i \in NotifiedKeys PROVE Begins(q, key_path)
    <3>1. PICK n \in 1..Len(key_path) : i = ids[n]
      BY Zenon, <2>5, <2>6 DEF NotifiedKeys
    <3>2. Begins(PathOf(keys)[ids[n]], key_path)
      BY Zenon, <1>3, SoundTables, ChainPath
    <3> QED
      BY Zenon, <2>2, <3>1, <3>2
  <2>7. ASSUME Begins(q, key_path) PROVE i \in NotifiedKeys
    <3>1. PICK n \in 1..Len(key_path) : n = Len(q)
      <4>1. Len(q) \in 1..Len(key_path)
        BY SMTT(60), <2>3, <2>5, <2>7 DEF Begins
      <4> QED
        BY Zenon, <4>1
    <3>2. PICK j \in 1..Len(keys) : j = ids[n] /\ Len(PathOf(keys)[j]) = n
                                    /\ Begins(PathOf(keys)[j], key_path)
      BY Zenon, <1>3, SoundTables, ChainPath
    <3>3. PICK s : s = PathOf(keys)[j] /\ s \in Seq(Names)
      BY Zenon, SoundTables, PathParent
    <3>4. Len(s) = Len(q) /\ Begins(s, key_path)
      BY Zenon, <3>1, <3>2, <3>3
    <3>5. Len(s) <= Len(q)
      BY SMTT(60), <2>3, <3>4
    <3>6. s = q
      BY Zenon, <1>3, <2>3, <2>7, <3>3, <3>4, <3>5, BeginsFacts
    <3>7. i = j
      BY Zenon, <2>2, <3>3, <3>6, SoundTables, PathInjective
    <3> QED
      BY Zenon, <2>5, <3>2, <3>7 DEF NotifiedKeys
  <2> QED
    BY Zenon, <2>1, <2>2, <2>4, <2>6, <2>7
<1>5. told' = Owed
  <2> DEFINE W(s) == <<PathOf(keys)[s[1]], s[2]>>
             Is(q) == Len(q) <= Len(key_path) /\ q = SubSeq(key_path, 1, Len(q))
             N(h) == <<h, key_path>>
  <2>1. Watching = {W(s) : s \in {r \in subs : r[2] \in open}}
    BY Zenon DEF Watching
  <2>2. Owed = {N(w[2]) : w \in {x \in Watching : Is(x[1])}}
    BY Zenon, <1>1 DEF Owed
  <2>3. \A r \in subs : r[1] \in NotifiedKeys <=> Is(W(r)[1])
    BY Zenon, <1>4
  <2>4. \A s : W(s)[2] = s[2]
    BY Zenon
  <2>5. told' = {N(s[2]) : s \in {r \in subs : r[1] \in NotifiedKeys /\ r[2] \in open}}
    BY Zenon, <1>1
  <2> HIDE DEF W, Is, N
  <2>6. ASSUME NEW x \in told' PROVE x \in Owed
    <3>1. PICK s \in subs : s[1] \in NotifiedKeys /\ s[2] \in open /\ x = N(s[2])
      BY Zenon, <2>5
    <3>2. W(s) \in Watching /\ Is(W(s)[1]) /\ x = N(W(s)[2])
      BY Zenon, <2>1, <2>3, <2>4, <3>1
    <3> QED
      BY Zenon, <2>2, <3>2
  <2>7. ASSUME NEW x \in Owed PROVE x \in told'
    <3>1. PICK w \in Watching : Is(w[1]) /\ x = N(w[2])
      BY Zenon, <2>2
    <3>2. PICK s \in subs : s[2] \in open /\ w = W(s)
      BY Zenon, <2>1
    <3>3. s[1] \in NotifiedKeys /\ x = N(s[2])
      BY Zenon, <2>3, <2>4, <3>1, <3>2
    <3> QED
      BY Zenon, <2>5, <3>2, <3>3
  <2> QED
    BY Zenon, <2>6, <2>7
<1> QED
  BY Zenon, <1>1, <1>2, <1>5 DEF Tree!Tell

\* A subscription watches a path with a value at or below it; one whose
\* acceptance could not be sent watches nothing.
LEMMA SubscribeStep ==
  ASSUME Inv, PathInv, "insert_value" \notin Faults, Subscribe
  PROVE  (\E p \in ReadPaths : \E h \in 1..MaxHandles : Tree!Watch(p, h)) \/ Still
<1> USE DEF disk, txn, subscribers, request
<1> DEFINE h == handles + 1
           W(s) == <<PathOf(keys)[s[1]], s[2]>>
<1>1. PICK p \in ReadPaths : \E c \in Chains(keys, p) : subs' = subs \cup {<<c[Len(p)], h>>}
  BY Zenon DEF Subscribe
<1>2. PICK c \in Chains(keys, p) : subs' = subs \cup {<<c[Len(p)], h>>}
  BY Zenon, <1>1
<1>3. /\ UNCHANGED <<keys, vals, told, answer, pc, key_path>> /\ pc = "idle"
      /\ open' \in {open, open \cup {h}} /\ handles < MaxHandles
  BY Zenon DEF Subscribe
<1>4. p \in Seq(Names) /\ p # <<>>
  BY Zenon, StoreAssumption
<1>5. PICK i \in 1..Len(keys) : i = c[Len(p)] /\ PathOf(keys)[i] = p
  BY Zenon, <1>4, SoundTables, Lookup
<1>6. h \in 1..MaxHandles /\ h \notin open /\ \A s \in subs : s[2] # h
  <2>1. /\ handles \in 0..MaxHandles /\ MaxHandles \in Nat /\ open \subseteq 1..handles
        /\ \A s \in subs : s[2] \in 1..handles
    BY Zenon, StoreAssumption DEF Inv, TypeOK
  <2>2. h \in 1..MaxHandles /\ h \notin 1..handles
    BY SMTT(60), <1>3, <2>1
  <2> QED
    BY Zenon, <2>1, <2>2
<1>7. Owed = {} /\ Owed' = {}
  BY Zenon, <1>3 DEF Owed
<1>8. /\ Watching = {W(s) : s \in {r \in subs : r[2] \in open}}
      /\ Watching' = {W(s) : s \in {r \in subs' : r[2] \in open'}}
  BY Zenon, <1>3 DEF Watching
<1>9. PICK n : n = <<i, h>> /\ n[2] = h /\ W(n) = <<p, h>> /\ subs' = subs \cup {n}
  BY Zenon, <1>2, <1>5
<1> HIDE DEF W, h
<1>10. CASE open' = open
  <2>1. Watching' = Watching
    BY Zenon, <1>6, <1>8, <1>9, <1>10
  <2> QED
    BY Zenon, <1>3, <1>7, <2>1 DEF Still
<1>11. CASE open' = open \cup {h}
  <2>1. Watching' = Watching \cup {<<p, h>>}
    BY Zenon, <1>6, <1>8, <1>9, <1>11
  <2>2. \E q \in DOMAIN TreeOf(keys, vals) : Tree!Prefix(p, q)
    <3>1. PICK j \in DOMAIN vals : Begins(p, PathOf(keys)[j])
      BY Zenon, <1>5, SoundTables, ValueBelow DEF PathInv, Full
    <3>2. PICK q : q = PathOf(keys)[j] /\ q \in Seq(Names)
      BY Zenon, SoundTables, PathParent
    <3>3. Tree!Prefix(p, q)
      BY Zenon, <1>4, <3>1, <3>2, PrefixBegins DEF Tree!Prefix
    <3>4. q \in DOMAIN TreeOf(keys, vals)
      BY Zenon, <3>2 DEF TreeOf
    <3> QED
      BY Zenon, <3>3, <3>4
  <2> QED
    BY Zenon, <1>3, <1>6, <1>7, <2>1, <2>2 DEF Tree!Watch
<1> QED
  BY Zenon, <1>3, <1>10, <1>11

\* A commit changes the tree at one path.
PutAt(T, p, v) == [q \in DOMAIN T \cup {p} |-> IF q = p THEN v ELSE T[q]]

LEMMA TreeCommit ==
  ASSUME NEW K, IsKeyTable(K), Unique(K), NEW V, DOMAIN V \subseteq 1..Len(K),
         NEW M, IsKeyTable(M), Unique(M), Len(K) <= Len(M), \A i \in 1..Len(K) : M[i] = K[i],
         NEW id \in 1..Len(M), NEW val, NEW ts, NEW p, p = PathOf(M)[id]
  PROVE  TreeOf(M, SetValue(V, id, val, ts)) = PutAt(TreeOf(K, V), p, [val |-> val, ts |-> ts])
<1> DEFINE U == SetValue(V, id, val, ts)
           D == {PathOf(K)[i] : i \in DOMAIN V} \cup {p}
           F == [q \in D |-> IF q = p THEN [val |-> val, ts |-> ts] ELSE TreeOf(K, V)[q]]
<1>1. Len(K) \in Nat /\ Len(M) \in Nat
  BY Zenon, RowType
<1>2. /\ DOMAIN U = DOMAIN V \cup {id} /\ U[id] = [val |-> val, ts |-> ts]
      /\ \A i \in DOMAIN V : i # id => U[i] = V[i]
  BY Zenon DEF SetValue
<1>3. DOMAIN V \subseteq 1..Len(M) /\ DOMAIN U \subseteq 1..Len(M)
  <2>1. 1..Len(K) \subseteq 1..Len(M)
    BY SMTT(60), <1>1
  <2> QED
    BY Zenon, <1>2, <2>1
<1>4. \A i \in DOMAIN V : PathOf(M)[i] = PathOf(K)[i]
  BY Zenon, PathGrows
<1>5. DOMAIN TreeOf(K, V) = {PathOf(K)[i] : i \in DOMAIN V}
  BY Zenon DEF TreeOf
<1> HIDE DEF U
<1>6. DOMAIN TreeOf(M, U) = {PathOf(M)[i] : i \in DOMAIN U}
  BY Zenon DEF TreeOf
<1>7. DOMAIN TreeOf(M, U) = D
  <2> DEFINE A(i) == PathOf(M)[i]
             B(i) == PathOf(K)[i]
  <2>1. /\ DOMAIN TreeOf(M, U) = {A(i) : i \in DOMAIN V \cup {id}}
        /\ D = {B(i) : i \in DOMAIN V} \cup {A(id)}
        /\ \A i \in DOMAIN V : A(i) = B(i)
    BY Zenon, <1>2, <1>4, <1>6
  <2> HIDE DEF A, B, D
  <2> QED
    BY Zenon, <2>1
<1>8. ASSUME NEW q \in D PROVE TreeOf(M, U)[q] = F[q]
  <2>1. CASE q = p
    <3>1. TreeOf(M, U)[PathOf(M)[id]] = U[id]
      <4>1. id \in DOMAIN U
        BY Zenon, <1>2
      <4> QED
        BY SMTT(60), <1>3, <4>1, TreeAt
    <3> QED
      BY Zenon, <1>2, <2>1, <3>1
  <2>2. CASE q # p
    <3>1. PICK i \in DOMAIN V : q = PathOf(K)[i]
      BY Zenon, <2>2
    <3>2. q = PathOf(M)[i] /\ i # id /\ i \in DOMAIN U /\ U[i] = V[i]
      BY Zenon, <1>2, <1>4, <2>2, <3>1
    <3>3. TreeOf(M, U)[PathOf(M)[i]] = U[i]
      BY SMTT(60), <1>3, <3>2, TreeAt
    <3>4. TreeOf(K, V)[PathOf(K)[i]] = V[i]
      BY SMTT(60), TreeAt
    <3> QED
      BY Zenon, <2>2, <3>1, <3>2, <3>3, <3>4
  <2> QED
    BY Zenon, <2>1, <2>2
<1>9. TreeOf(M, U) = [q \in DOMAIN TreeOf(M, U) |-> TreeOf(M, U)[q]]
  <2> DEFINE S == {PathOf(M)[i] : i \in DOMAIN U}
             E(q) == U[CHOOSE i \in DOMAIN U : PathOf(M)[i] = q]
  <2>1. TreeOf(M, U) = [q \in S |-> E(q)]
    BY Zenon DEF TreeOf
  <2> HIDE DEF S, E
  <2> QED
    BY Zenon, <2>1
<1> HIDE DEF F
<1>10. F = [q \in D |-> F[q]]
  BY Zenon DEF F
<1>11. TreeOf(M, U) = F
  BY Zenon, <1>7, <1>8, <1>9, <1>10
<1> QED
  BY Zenon, <1>5, <1>11 DEF U, F, PutAt

\* Storing a value is one Put: at a path that is neither above nor below a
\* stored one, and not with an older timestamp.
LEMMA PutStep ==
  ASSUME Inv, PathInv, "insert_value" \notin Faults, InsertValue \/ UpdateValue
  PROVE  \E p \in Tree!Paths, v \in Values, ts \in Times : Tree!Put(p, v, ts)
<1> DEFINE v == Head(todo).arg
           ts == req.ts
<1>1. /\ v \in Values /\ ts \in Times
      /\ Parent \in 1..Len(tkeys) /\ ~HasChild(tkeys, Parent)
      /\ Parent \in DOMAIN tvals => tvals[Parent].ts <= ts
      /\ tvals' = SetValue(tvals, Parent, v, ts)
      /\ keys' = tkeys /\ vals' = tvals' /\ pc' = "notify"
      /\ told' = {} /\ answer' = NoAnswer
      /\ UNCHANGED <<subs, open, key_path>>
  BY Zenon, CommitStep
<1> HIDE DEF v, ts
<1>2. /\ key_path # <<>> /\ PathOf(tkeys)[Parent] = key_path
  BY Zenon, CommitPath
<1>3. /\ key_path \in Seq(Names) /\ tvals = vals /\ Len(keys) <= Len(tkeys)
      /\ \A i \in 1..Len(keys) : tkeys[i] = keys[i]
  BY Zenon DEF Inv, TypeOK, Synced, PathInv, Grown
<1>4. key_path \in Tree!Paths
  <2>1. Len(key_path) \in 1..MaxDepth
    <3>1. Len(key_path) \in Nat \ {0} /\ Len(key_path) <= MaxDepth /\ MaxDepth \in Nat
      BY Zenon, <1>2, <1>3, EmptySeq, StoreAssumption DEF PathInv
    <3> QED
      BY SMTT(60), <3>1
  <2>2. key_path \in [1..Len(key_path) -> Names]
    BY Zenon, <1>3, LenProperties
  <2> QED
    BY Zenon, <2>1, <2>2 DEF Tree!Paths
<1>5. \A i \in 1..Len(keys) : PathOf(tkeys)[i] = PathOf(keys)[i]
  BY Zenon, <1>3, SoundTables, PathGrows
<1>6. Owed = {}
  BY Zenon DEF Owed, InsertValue, UpdateValue
<1>7. DOMAIN TreeOf(keys, vals) = {PathOf(keys)[i] : i \in DOMAIN vals}
  BY Zenon DEF TreeOf
<1>8. ASSUME NEW q \in DOMAIN TreeOf(keys, vals)
      PROVE  ~Tree!Below(key_path, q) /\ ~Tree!Below(q, key_path)
  <2>1. PICK i \in DOMAIN vals : q = PathOf(keys)[i]
    BY Zenon, <1>7
  <2>2. i \in DOMAIN tvals /\ i \in 1..Len(keys) /\ i \in 1..Len(tkeys) /\ q = PathOf(tkeys)[i]
    BY Zenon, <1>3, <1>5, <2>1, SoundTables
  <2>3. q \in Seq(Names)
    BY Zenon, <2>2, SoundTables, PathParent
  <2>4. ASSUME Tree!Below(key_path, q) PROVE FALSE
    <3>1. Begins(key_path, q) /\ key_path # q
      BY Zenon, <1>3, <2>3, <2>4, PrefixBegins DEF Tree!Below, Tree!Prefix
    <3>2. HasChild(tkeys, Parent)
      BY Zenon, <1>1, <1>2, <2>2, <3>1, SoundTables, PrefixHasChild
    <3> QED
      BY Zenon, <1>1, <3>2
  <2>5. ASSUME Tree!Below(q, key_path) PROVE FALSE
    <3>1. Begins(q, key_path) /\ key_path # q
      BY Zenon, <1>3, <2>3, <2>5, PrefixBegins DEF Tree!Below, Tree!Prefix
    <3>2. HasChild(tkeys, i)
      BY Zenon, <1>1, <1>2, <2>2, <3>1, SoundTables, PrefixHasChild
    <3> QED
      BY Zenon, <2>2, <3>2, SoundTables DEF Exclusive
  <2> QED
    BY Zenon, <2>4, <2>5
<1>9. ASSUME key_path \in DOMAIN TreeOf(keys, vals)
      PROVE  TreeOf(keys, vals)[key_path].ts <= ts
  <2>1. PICK i \in DOMAIN vals : key_path = PathOf(keys)[i]
    BY Zenon, <1>7, <1>9
  <2>2. i \in 1..Len(keys) /\ i \in 1..Len(tkeys) /\ i \in DOMAIN tvals
    BY Zenon, <1>3, SoundTables
  <2>3. i = Parent
    BY Zenon, <1>1, <1>2, <1>5, <2>1, <2>2, SoundTables, PathInjective
  <2>4. TreeOf(keys, vals)[PathOf(keys)[i]] = vals[i]
    BY SMTT(60), SoundTables, TreeAt
  <2> QED
    BY Zenon, <1>1, <1>3, <2>1, <2>2, <2>3, <2>4
<1>10. TreeOf(keys, vals)' =
          [q \in DOMAIN TreeOf(keys, vals) \cup {key_path} |->
             IF q = key_path THEN [val |-> v, ts |-> ts] ELSE TreeOf(keys, vals)[q]]
  <2>1. TreeOf(keys, vals)' = TreeOf(tkeys, SetValue(vals, Parent, v, ts))
    BY Zenon, <1>1, <1>3
  <2>2. PICK p : p = key_path /\ p = PathOf(tkeys)[Parent]
    BY Zenon, <1>2
  <2>3. TreeOf(tkeys, SetValue(vals, Parent, v, ts)) =
           PutAt(TreeOf(keys, vals), p, [val |-> v, ts |-> ts])
    <3>1. /\ IsKeyTable(keys) /\ Unique(keys) /\ DOMAIN vals \subseteq 1..Len(keys)
          /\ IsKeyTable(tkeys) /\ Unique(tkeys)
      BY Zenon, SoundTables
    <3> QED
      BY SMTT(60), <1>1, <1>3, <2>2, <3>1, TreeCommit
  <2> QED
    BY Zenon, <2>1, <2>2, <2>3 DEF PutAt
<1>11. Watching' = Watching
  <2> DEFINE W(s) == <<PathOf(keys)[s[1]], s[2]>>
             X(s) == <<PathOf(tkeys)[s[1]], s[2]>>
             S == {r \in subs : r[2] \in open}
  <2>1. \A s \in S : W(s) = X(s)
    BY Zenon, <1>5 DEF Inv, TypeOK
  <2>2. Watching = {W(s) : s \in S} /\ Watching' = {X(s) : s \in S}
    BY Zenon, <1>1 DEF Watching
  <2> HIDE DEF W, X, S
  <2> QED
    BY Zenon, <2>1, <2>2
<1>12. Owed' = {<<w[2], key_path>> : w \in {x \in Watching : Tree!Prefix(x[1], key_path)}}
  BY Zenon, <1>1, <1>11 DEF Owed, Tree!Prefix
<1>13. answer'.vals = {}
  BY SMTT(60), <1>1 DEF NoAnswer
<1>14. Tree!Put(key_path, v, ts)
  BY Zenon, <1>1, <1>6, <1>8, <1>9, <1>10, <1>11, <1>12, <1>13 DEF Tree!Put
<1> QED
  BY Zenon, <1>1, <1>4, <1>14

\* Every step of the store is a step of the tree, or leaves it as it was.
LEMMA TreeStep ==
  ASSUME Inv, PathInv, "insert_value" \notin Faults, [Next]_vars
  PROVE  [Tree!TreeNext]_<<TreeOf(keys, vals), Watching, Owed, told, answer.vals>>
<1>1. CASE InsertValue \/ UpdateValue
  BY Zenon, <1>1, PutStep DEF Tree!TreeNext
<1>2. CASE Notify
  BY Zenon, <1>2, NotifyStep DEF Tree!TreeNext
<1>3. CASE Read
  BY Zenon, <1>3, ReadStep DEF Tree!TreeNext
<1>4. CASE Subscribe
  BY Zenon, <1>4, SubscribeStep DEF Tree!TreeNext, Still
<1>5. CASE CloseSubscription
  BY Zenon, <1>5, CloseStep DEF Tree!TreeNext
<1>6. CASE Crash
  BY Zenon, <1>6, CrashStep DEF Tree!TreeNext
<1>7. CASE \/ OpenFound \/ CreateTable
         \/ LoadFile \/ ReceiveWrite \/ RefuseWrite \/ FinishWrite
         \/ PushKey \/ PopKey \/ EncodeFails \/ BeginWrite
         \/ FindKey \/ FoundValue \/ InsertKey \/ InsertKeyFails
         \/ UpdateFails \/ KeepNewer \/ UNCHANGED vars
  BY Zenon, <1>7, StillSteps DEF Still
<1> QED
  BY Zenon, <1>1, <1>2, <1>3, <1>4, <1>5, <1>6, <1>7 DEF Next

-----------------------------------------------------------------------------
(* The theorems. *)

\* The tables and the server thread's state keep their types, and a relation
\* or value row always refers to a key that exists (create_db.sql).
THEOREM TypeCorrect == Spec => []TypeOK
<1>1. Inv => TypeOK
  BY Zenon DEF Inv
<1> QED
  BY <1>1, Invariance, PTL

\* No order of writes, failing statements and crashes leaves two keys with the
\* same name under the same parent (create_key_path).
THEOREM KeysAreUnique == Spec => []NoDuplicateKeys
<1>1. Inv => NoDuplicateKeys
  BY Zenon DEF Inv, NoDuplicateKeys
<1> QED
  BY <1>1, Invariance, PTL

\* No key has both a value and subkeys (ggconfig_write_value_at_key,
\* create_key_path).
THEOREM ValuesAreLeaves == Spec => []ValueOrMap
<1>1. Inv => ValueOrMap
  BY Zenon DEF Inv, ValueOrMap
<1> QED
  BY <1>1, Invariance, PTL

\* The key table is a tree with values at its leaves, whatever fails or crashes
\* (create_key_path, ggconfig_write_value_at_key).
THEOREM StoreStaysATree == Spec => []StoreIsATree
<1>1. NoDuplicateKeys /\ ValueOrMap => StoreIsATree
  BY Zenon DEF StoreIsATree
<1> QED
  BY <1>1, KeysAreUnique, ValuesAreLeaves, PTL

\* A stored timestamp never decreases and a stored value never disappears
\* (ggconfig_write_value_at_key).
THEOREM NewerIsKept == Spec => TimeNeverGoesBack
<1> DEFINE Forward ==
        \A i \in DOMAIN vals : i \in DOMAIN vals' /\ vals[i].ts <= vals'[i].ts
<1>1. Inv /\ [Next]_vars => [Forward]_vars
  <2> SUFFICES ASSUME Inv, Next PROVE Forward
    BY Zenon
  <2>1. CASE InsertValue \/ UpdateValue
    BY Zenon, <2>1, CommitLemma
  <2>2. CASE ~(InsertValue \/ UpdateValue)
    <3>1. vals' = vals
      BY Zenon, <2>2 DEF Next, disk, OpenFound, CreateTable, LoadFile, StartWalk, ReceiveWrite,
         RefuseWrite, FinishWrite, PushKey, PopKey, EncodeFails, BeginWrite, FindKey,
         FoundValue, InsertKey, InsertKeyFails, Abort, UpdateFails, KeepNewer, Notify,
         Read, Subscribe, CloseSubscription, Crash
    <3>2. \A i \in DOMAIN vals : vals[i].ts \in Nat
      BY Zenon, StoreAssumption DEF Inv, TypeOK, IsValueTable
    <3> QED
      BY SMTT(60), <3>1, <3>2
  <2> QED
    BY Zenon, <2>1, <2>2
<1> QED
  BY <1>1, Invariance, PTL DEF Spec, TimeNeverGoesBack

\* The tables, the subscriptions and the notifications to be sent behave as the
\* hierarchy gg_config.md describes, for every set of names, values and writes
\* and any number of failing statements and crashes, unless value_insert fails
\* unnoticed (ggconfig_write_value_at_key, ggconfig_get_value_from_key,
\* ggconfig_get_key_notification, notify_nested_key).
THEOREM StoreImplementsTree ==
  ASSUME "insert_value" \notin Faults
  PROVE  Spec => ImplementsTree
<1>1. Inv /\ PathInv /\ [Next]_vars =>
        [Tree!TreeNext]_<<TreeOf(keys, vals), Watching, Owed, told, answer.vals>>
  BY Zenon, TreeStep
<1> QED
  BY <1>1, TreeStarts, Invariance, PathInvariance, PTL DEF Spec, ImplementsTree, Tree!TreeSpec

\* No write leaves a key with neither subkeys nor a value behind, unless
\* value_insert fails unnoticed (create_key_path, ggconfig_write_value_at_key).
THEOREM KeysLeadToValues ==
  ASSUME "insert_value" \notin Faults
  PROVE  Spec => []NoEmptyKeys
<1>1. PathInv => NoEmptyKeys
  BY Zenon DEF PathInv, Full, NoEmptyKeys
<1> QED
  BY <1>1, PathInvariance, PTL
=============================================================================
