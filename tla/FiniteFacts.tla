---------------------------- MODULE FiniteFacts ----------------------------
(***************************************************************************)
(* The least of a set of natural numbers, the greatest of a finite one,    *)
(* the size of a finite set's image, and what is retained of a queue: what *)
(* a screen's size, a version's stamp, a cap on what a device keeps, and   *)
(* the lists a machine prunes are computed with.                           *)
(***************************************************************************)
EXTENDS Retain, FiniteSetTheorems, WellFoundedInduction, TLAPS

Below == {ss \in Nat \X Nat : ss[1] < ss[2]}

LEMMA BelowWellFounded == IsWellFoundedOn(Below, Nat)
  BY NatLessThanWellFounded DEF OpToRel, Below

\* A set of natural numbers has a least one.
LEMMA LeastNatural ==
    ASSUME NEW S \in SUBSET Nat, S # {}
    PROVE  \E m \in S : \A x \in S : m <= x
  <1>1. PICK m \in S : \A y \in S : ~ (<<y, m>> \in Below)
    BY BelowWellFounded, WFMin
  <1>2. ASSUME NEW x \in S, x < m PROVE FALSE
    <2>1. <<x, m>> \in Nat \X Nat /\ <<x, m>>[1] = x /\ <<x, m>>[2] = m
      OBVIOUS
    <2>2. <<x, m>> \in Below
      BY <1>2, <2>1 DEF Below
    <2> QED BY <1>1, <2>2
  <1> QED BY <1>2

\* A finite set of natural numbers has a greatest one: a smallest set without one would
\* lose it with one of its members.
LEMMA GreatestOfFinite ==
    ASSUME NEW S \in SUBSET Nat, IsFiniteSet(S), S # {}
    PROVE  \E m \in S : \A x \in S : x <= m
  <1> DEFINE Bad == {X \in SUBSET S : X # {} /\ ~ \E m \in X : \A x \in X : x <= m}
             Sizes == {Cardinality(X) : X \in Bad}
  <1>0. \A X \in SUBSET S : IsFiniteSet(X) /\ Cardinality(X) \in Nat
    BY FS_Subset, FS_CardinalityType
  <1>1. SUFFICES ASSUME Bad # {} PROVE FALSE
    OBVIOUS
  <1>2. Sizes \in SUBSET Nat /\ Sizes # {}
    BY <1>0, <1>1
  <1>3. PICK n \in Sizes : \A k \in Sizes : n <= k
    <2> HIDE DEF Sizes
    <2> QED BY <1>2, LeastNatural
  <1>4. PICK X \in Bad : n = Cardinality(X)
    OBVIOUS
  <1>5. PICK y \in X : TRUE
    OBVIOUS
  <1>6. IsFiniteSet(X \ {y}) /\ Cardinality(X \ {y}) = n - 1 /\ n \in Nat
    BY <1>0, <1>4, <1>5, FS_RemoveElement
  <1>7. X \ {y} \notin Bad
    <2>1. SUFFICES ASSUME X \ {y} \in Bad PROVE FALSE
      OBVIOUS
    <2>2. Cardinality(X \ {y}) \in Sizes
      BY <2>1
    <2> HIDE DEF Sizes, Bad
    <2>3. n <= Cardinality(X \ {y})
      BY <1>3, <2>2
    <2> QED BY <1>6, <2>3
  <1>8. CASE X \ {y} = {}
    <2>1. \A x \in X : x <= y
      BY <1>5, <1>8
    <2> QED BY <1>4, <1>5, <2>1
  <1>9. CASE X \ {y} # {}
    <2>1. PICK z \in X \ {y} : \A x \in X \ {y} : x <= z
      BY <1>4, <1>7, <1>9
    <2>2. CASE y <= z  BY <1>4, <2>1, <2>2
    <2>3. CASE ~(y <= z)
      <3>1. \A x \in X : x <= y
        BY <1>4, <1>5, <2>1, <2>3
      <3> QED BY <1>4, <1>5, <3>1
    <2> QED BY <2>2, <2>3
  <1> QED BY <1>8, <1>9

\* The values of a function over a finite set are finitely many, and no more than it has.
LEMMA FiniteImage ==
    ASSUME NEW S, IsFiniteSet(S), NEW f
    PROVE  /\ IsFiniteSet({f[x] : x \in S})
           /\ Cardinality({f[x] : x \in S}) <= Cardinality(S)
  <1> DEFINE T == {f[x] : x \in S}
             g == [x \in S |-> f[x]]
  <1>1. g \in Surjection(S, T)
    BY DEF Surjection
  <1> HIDE DEF T, g
  <1>2. IsFiniteSet(T) /\ Cardinality(T) <= Cardinality(S)
    BY <1>1, FS_Surjection
  <1> QED BY <1>2 DEF T

-----------------------------------------------------------------------------
(* What is retained of a queue. *)

\* What Vec::retain computes from the first n of a queue.
IsFilter(f, queue, kept, n) ==
    f = [i \in 0 .. n |-> IF i = 0 THEN <<>>
                          ELSE IF queue[i] \in kept THEN Append(f[i - 1], queue[i])
                          ELSE f[i - 1]]

\* A queue can be filtered from its front, one step at a time: the shortest part that could
\* not be would extend one that could.
LEMMA FilterExists ==
    ASSUME NEW queue, NEW kept, NEW n \in Nat
    PROVE  \E f : IsFilter(f, queue, kept, n)
<1> DEFINE Bad == {k \in Nat : ~ \E f : IsFilter(f, queue, kept, k)}
<1>1. SUFFICES ASSUME Bad # {} PROVE FALSE
    OBVIOUS
<1>2. PICK k \in Bad : \A j \in Bad : k <= j
    <2>1. Bad \in SUBSET Nat
        OBVIOUS
    <2> HIDE DEF Bad
    <2> QED BY <1>1, <2>1, LeastNatural
<1>3. k # 0
    <2>1. IsFilter([i \in 0 .. 0 |-> <<>>], queue, kept, 0)
        BY DEF IsFilter
    <2> QED BY <2>1
<1>4. k - 1 \in Nat /\ k - 1 \notin Bad
    BY <1>2, <1>3
<1>5. PICK f : IsFilter(f, queue, kept, k - 1)
    BY <1>4
<1> DEFINE last == IF queue[k] \in kept THEN Append(f[k - 1], queue[k]) ELSE f[k - 1]
           g == [i \in 0 .. k |-> IF i = k THEN last ELSE f[i]]
<1>6. ASSUME NEW i \in 0 .. k
      PROVE  g[i] = IF i = 0 THEN <<>>
                    ELSE IF queue[i] \in kept THEN Append(g[i - 1], queue[i])
                    ELSE g[i - 1]
    <2>1. k \in Nat
        OBVIOUS
    <2>2. \A j \in 0 .. k - 1 : g[j] = f[j]
        BY <2>1
    <2>3. CASE i = k
        <3>1. g[i] = last /\ g[i - 1] = f[k - 1] /\ i # 0
            BY <1>3, <1>4, <2>1, <2>2, <2>3
        <3> HIDE DEF g
        <3> QED BY <2>3, <3>1
    <2>4. CASE i # k
        <3>1. i \in 0 .. k - 1 /\ g[i] = f[i]
            BY <2>1, <2>2, <2>4
        <3>2. f[i] = IF i = 0 THEN <<>>
                     ELSE IF queue[i] \in kept THEN Append(f[i - 1], queue[i])
                     ELSE f[i - 1]
            BY <1>5, <3>1 DEF IsFilter
        <3>3. i # 0 => g[i - 1] = f[i - 1]
            BY <2>1, <2>2, <3>1
        <3> HIDE DEF g
        <3> QED BY <3>1, <3>2, <3>3
    <2> QED BY <2>3, <2>4
<1>7. g = [i \in 0 .. k |-> g[i]]
    OBVIOUS
<1> HIDE DEF g
<1>8. IsFilter(g, queue, kept, k)
    BY <1>6, <1>7, Zenon DEF IsFilter
<1> QED BY <1>8

\* What remains of a queue is what is to be kept of it, in its order.
Kept(part, queue, kept, n) ==
    \E at : /\ part \in Seq(kept) /\ at \in [DOMAIN part -> 1 .. n]
            /\ Len(part) <= n
            /\ \A i \in DOMAIN part : part[i] = queue[at[i]]
            /\ \A i, j \in DOMAIN part : i < j => at[i] < at[j]
            /\ \A p \in 1 .. n : queue[p] \in kept => \E i \in DOMAIN part : at[i] = p

\* By the least position where it would not.
LEMMA FilterKeeps ==
    ASSUME NEW queue, NEW kept, NEW n \in Nat, NEW f, IsFilter(f, queue, kept, n)
    PROVE  Kept(f[n], queue, kept, n)
<1> DEFINE Bad == {k \in 0 .. n : ~ Kept(f[k], queue, kept, k)}
<1>1. SUFFICES ASSUME Bad # {} PROVE FALSE
    <2>1. n \in 0 .. n
        OBVIOUS
    <2> QED BY <2>1
<1>2. PICK k \in Bad : \A j \in Bad : k <= j
    <2>1. Bad \in SUBSET Nat
        OBVIOUS
    <2> HIDE DEF Bad
    <2> QED BY <1>1, <2>1, LeastNatural
<1>3. k \in Nat /\ k \in 0 .. n
    OBVIOUS
<1>4. f[k] = IF k = 0 THEN <<>>
             ELSE IF queue[k] \in kept THEN Append(f[k - 1], queue[k])
             ELSE f[k - 1]
    BY <1>3 DEF IsFilter
<1>5. k # 0
    <2>1. SUFFICES ASSUME k = 0 PROVE Kept(f[k], queue, kept, k)
        OBVIOUS
    <2>2. f[k] = <<>>
        BY <1>4, <2>1
    <2> DEFINE none == [i \in {} |-> 0]
    <2>3. none \in [DOMAIN f[k] -> 1 .. k]
        BY <2>2
    <2> HIDE DEF none
    <2>4. f[k] \in Seq(kept) /\ Len(f[k]) = 0 /\ DOMAIN f[k] = {}
        BY <2>2
    <2> QED BY <1>3, <2>1, <2>3, <2>4 DEF Kept
<1>6. Kept(f[k - 1], queue, kept, k - 1)
    BY <1>2, <1>3, <1>5
<1>7. PICK part : part = f[k - 1]
    OBVIOUS
<1>8. PICK at : /\ part \in Seq(kept) /\ at \in [DOMAIN part -> 1 .. k - 1]
                /\ Len(part) <= k - 1
                /\ \A i \in DOMAIN part : part[i] = queue[at[i]]
                /\ \A i, j \in DOMAIN part : i < j => at[i] < at[j]
                /\ \A p \in 1 .. k - 1 : queue[p] \in kept => \E i \in DOMAIN part : at[i] = p
    BY <1>6, <1>7 DEF Kept
<1>9. CASE queue[k] \notin kept
    <2>1. f[k] = part /\ at \in [DOMAIN part -> 1 .. k] /\ Len(part) <= k
        BY <1>3, <1>4, <1>5, <1>7, <1>8, <1>9
    <2>2. \A p \in 1 .. k : queue[p] \in kept => p \in 1 .. k - 1
        BY <1>3, <1>9
    <2>3. \A p \in 1 .. k : queue[p] \in kept => \E i \in DOMAIN part : at[i] = p
        BY <1>8, <2>2
    <2>4. Kept(part, queue, kept, k)
        BY <1>8, <2>1, <2>3 DEF Kept
    <2> QED BY <2>1, <2>4
<1>10. CASE queue[k] \in kept
    <2> DEFINE more == Append(part, queue[k])
               to == [i \in DOMAIN more |-> IF i = Len(more) THEN k ELSE at[i]]
    <2>1. f[k] = more
        BY <1>4, <1>5, <1>7, <1>10
    <2>2. /\ more \in Seq(kept) /\ Len(more) = Len(part) + 1 /\ more[Len(more)] = queue[k]
          /\ DOMAIN more = 1 .. Len(more) /\ DOMAIN part = 1 .. Len(part) /\ Len(part) \in Nat
          /\ \A i \in DOMAIN part : more[i] = part[i]
        BY <1>8, <1>10
    <2>3. \A i \in DOMAIN more : i = Len(more) \/ i \in DOMAIN part
        BY <2>2
    <2>4. \A i \in DOMAIN more : to[i] = IF i = Len(more) THEN k ELSE at[i]
        BY Zenon
    <2>5. to \in [DOMAIN more -> 1 .. k]
        BY <1>3, <1>5, <1>8, <2>3
    <2> HIDE DEF to, more
    <2>6. \A i \in DOMAIN more : more[i] = queue[to[i]]
        BY <1>8, <2>2, <2>3, <2>4
    <2>7. \A i \in DOMAIN part : at[i] < k /\ i < Len(more) /\ to[i] = at[i]
        BY <1>3, <1>8, <2>2, <2>4
    <2>8. \A i, j \in DOMAIN more : i < j => to[i] < to[j]
        BY <1>8, <2>2, <2>3, <2>4, <2>7
    <2>10. ASSUME NEW p \in 1 .. k, queue[p] \in kept
          PROVE  \E i \in DOMAIN more : to[i] = p
        <3>1. CASE p = k
            <4>1. Len(more) \in DOMAIN more
                BY <2>2
            <4> QED BY <2>4, <3>1, <4>1
        <3>2. CASE p # k
            <4>1. p \in 1 .. k - 1
                BY <1>3, <3>2
            <4>2. PICK i \in DOMAIN part : at[i] = p
                BY <1>8, <2>10, <4>1
            <4>3. i \in DOMAIN more
                BY <2>2
            <4> QED BY <2>7, <4>2, <4>3
        <3> QED BY <3>1, <3>2
    <2>9. Len(more) <= k
        BY <1>3, <1>8, <2>2
    <2>11. Kept(more, queue, kept, k)
        BY <2>2, <2>5, <2>6, <2>8, <2>9, <2>10 DEF Kept
    <2> QED BY <2>1, <2>11
<1> QED BY <1>9, <1>10

\* Vec::retain leaves of a queue what is to be kept, in its order.
LEMMA RetainedKeeps ==
    ASSUME NEW S, NEW queue \in Seq(S), NEW kept
    PROVE  Kept(Retained(queue, kept), queue, kept, Len(queue))
<1> DEFINE n == Len(queue)
           F == CHOOSE f : IsFilter(f, queue, kept, n)
<1>1. n \in Nat
    OBVIOUS
<1>2. IsFilter(F, queue, kept, n)
    <2> HIDE DEF n
    <2> QED BY <1>1, FilterExists
<1>3. Retained(queue, kept) = F[n]
    BY DEF Retained, IsFilter
<1> HIDE DEF F, n
<1>4. Kept(F[n], queue, kept, n)
    BY <1>1, <1>2, FilterKeeps
<1> QED BY <1>3, <1>4 DEF n
=============================================================================
