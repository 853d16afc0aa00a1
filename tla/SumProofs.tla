------------------------------ MODULE SumProofs ------------------------------
(***************************************************************************)
(* What is known of SumOf(f), for every function f from a finite set into  *)
(* the naturals: it is a natural number, and how it changes when values of *)
(* f grow, when f is defined at another argument, and when its arguments   *)
(* are renamed.  At the end, induction on the naturals and the existence of*)
(* functions defined by recursion on them, stated with sets and functions. *)
(***************************************************************************)
EXTENDS Sums, TLAPS, FiniteSetTheorems, WellFoundedInduction

\* The union of the sets g[x], of x in a finite set, is finite if they are.
LEMMA UnionIsFinite ==
    ASSUME NEW S, IsFiniteSet(S), NEW g, \A x \in S : IsFiniteSet(g[x])
    PROVE  IsFiniteSet(UNION {g[x] : x \in S})
<1>. DEFINE T == {g[x] : x \in S}
            h == [x \in S |-> g[x]]
<1>1. h \in Surjection(S, T)
  BY DEF Surjection
<1>2. IsFiniteSet(T)
  BY <1>1, FS_Surjection
<1>. QED BY <1>2, FS_UNION

\* What the units of a function are.
LEMMA InUnits ==
    ASSUME NEW S, NEW f \in [S -> Nat], NEW u
    PROVE  u \in Units(f) <=> \E x \in S : \E k \in 1 .. f[x] : u = <<x, k>>
  BY DEF Units

\* What the pairs of indices of nested functions are.
LEMMA InPairs ==
    ASSUME NEW ff, NEW q
    PROVE  q \in Pairs(ff) <=> \E i \in DOMAIN ff : \E j \in DOMAIN ff[i] : q = <<i, j>>
  BY DEF Pairs

\* Finitely many finite functions have finitely many pairs.
LEMMA PairsAreFinite ==
    ASSUME NEW ff, IsFiniteSet(DOMAIN ff), \A i \in DOMAIN ff : IsFiniteSet(DOMAIN ff[i])
    PROVE  IsFiniteSet(Pairs(ff))
<1>. DEFINE g == [i \in DOMAIN ff |-> {i} \X DOMAIN ff[i]]
<1>1. ASSUME NEW i \in DOMAIN ff PROVE IsFiniteSet(g[i])
  <2>1. IsFiniteSet({i}) /\ IsFiniteSet(DOMAIN ff[i])
    BY FS_Singleton
  <2>2. IsFiniteSet({i} \X DOMAIN ff[i])
    BY <2>1, FS_Product, Zenon
  <2>. QED BY <2>2
<1>2. Pairs(ff) = UNION {g[i] : i \in DOMAIN ff}
  BY DEF Pairs
<1>. HIDE DEF g
<1>3. IsFiniteSet(UNION {g[i] : i \in DOMAIN ff})
  BY <1>1, UnionIsFinite
<1>. QED BY <1>2, <1>3

\* Of the functions ff[d], ff[e] is defined at another index in gg.
OneMore(ff, gg, e, n) ==
    /\ DOMAIN gg = DOMAIN ff /\ e \in DOMAIN ff
    /\ n \notin DOMAIN ff[e] /\ DOMAIN gg[e] = DOMAIN ff[e] \cup {n}
    /\ \A i \in DOMAIN ff[e] : gg[e][i] = ff[e][i]
    /\ \A d \in DOMAIN ff \ {e} : gg[d] = ff[d]

\* It makes one more pair.
LEMMA OnePairMore ==
    ASSUME NEW ff, NEW gg, NEW e, NEW n, OneMore(ff, gg, e, n)
    PROVE  /\ Pairs(gg) = Pairs(ff) \cup {<<e, n>>} /\ <<e, n>> \notin Pairs(ff)
           /\ \A q \in Pairs(ff) : gg[q[1]][q[2]] = ff[q[1]][q[2]]
<1>1. /\ DOMAIN gg = DOMAIN ff /\ e \in DOMAIN ff /\ DOMAIN gg[e] = DOMAIN ff[e] \cup {n}
      /\ \A d \in DOMAIN ff \ {e} : DOMAIN gg[d] = DOMAIN ff[d]
  BY DEF OneMore
<1>2. ASSUME NEW q PROVE q \in Pairs(gg) <=> q \in Pairs(ff) \/ q = <<e, n>>
  <2>1. q \in Pairs(ff) <=> \E d \in DOMAIN ff : \E i \in DOMAIN ff[d] : q = <<d, i>>
    BY InPairs
  <2>2. q \in Pairs(gg) <=> \E d \in DOMAIN ff : \E i \in DOMAIN gg[d] : q = <<d, i>>
    BY <1>1, InPairs
  <2>. QED BY <1>1, <2>1, <2>2, Zenon
<1>3. <<e, n>> \notin Pairs(ff)
  BY InPairs DEF OneMore
<1>4. ASSUME NEW q \in Pairs(ff) PROVE gg[q[1]][q[2]] = ff[q[1]][q[2]]
  <2>1. PICK d, i : d \in DOMAIN ff /\ i \in DOMAIN ff[d] /\ q = <<d, i>>
    BY InPairs
  <2>. QED BY <2>1 DEF OneMore
<1>. QED BY <1>2, <1>3, <1>4

\* A sum is a natural number.
LEMMA SumIsNat ==
    ASSUME NEW S, IsFiniteSet(S), NEW f \in [S -> Nat]
    PROVE  IsFiniteSet(Units(f)) /\ SumOf(f) \in Nat
<1>. DEFINE g == [x \in S |-> {x} \X (1 .. f[x])]
<1>1. ASSUME NEW x \in S PROVE IsFiniteSet(g[x])
  <2>1. f[x] \in Int /\ 1 \in Int
    OBVIOUS
  <2>2. IsFiniteSet(1 .. f[x])
    BY <2>1, FS_Interval
  <2>3. IsFiniteSet({x} \X (1 .. f[x]))
    BY <2>2, FS_Singleton, FS_Product, Zenon
  <2>. QED BY <2>3
<1>2. Units(f) = UNION {g[x] : x \in S}
  BY DEF Units
<1>. HIDE DEF g
<1>3. IsFiniteSet(UNION {g[x] : x \in S})
  BY <1>1, UnionIsFinite
<1>. QED BY <1>2, <1>3, FS_CardinalityType DEF SumOf

\* Larger values at more arguments have a larger sum.
LEMMA SumIsMonotone ==
    ASSUME NEW S, NEW T, IsFiniteSet(T), S \subseteq T,
           NEW f \in [S -> Nat], NEW g \in [T -> Nat], \A x \in S : f[x] <= g[x]
    PROVE  SumOf(f) <= SumOf(g)
<1>1. Units(f) \subseteq Units(g)
  <2>1. ASSUME NEW x \in S, NEW k \in 1 .. f[x] PROVE <<x, k>> \in Units(g)
    <3>1. k \in 1 .. g[x] /\ x \in T
      <4>1. f[x] \in Nat /\ g[x] \in Nat /\ f[x] <= g[x]
        OBVIOUS
      <4>. QED BY <4>1
    <3>. QED BY <3>1, InUnits
  <2>. QED BY <2>1, InUnits
<1>. QED BY <1>1, SumIsNat, FS_Subset DEF SumOf

\* A function that is zero everywhere has sum zero.
LEMMA SumOfZeros ==
    ASSUME NEW S, NEW f \in [S -> Nat], \A x \in S : f[x] = 0
    PROVE  SumOf(f) = 0
<1>1. Units(f) = {}
  BY InUnits
<1>. QED BY <1>1, FS_EmptySet DEF SumOf

\* The arguments of a sum can be split in two.
LEMMA SumSplits ==
    ASSUME NEW A, IsFiniteSet(A), NEW B, IsFiniteSet(B), A \cap B = {},
           NEW h \in [A \cup B -> Nat]
    PROVE  SumOf(h) = SumOf([x \in A |-> h[x]]) + SumOf([x \in B |-> h[x]])
<1>. DEFINE f == [x \in A |-> h[x]]
            g == [x \in B |-> h[x]]
            U == Units(f)
            W == Units(g)
<1>0. f \in [A -> Nat] /\ g \in [B -> Nat] /\ (\A x \in A : h[x] = f[x])
      /\ \A x \in B : h[x] = g[x]
  OBVIOUS
<1>. HIDE DEF f, g
<1>1. Units(h) = U \cup W
  <2>1. ASSUME NEW u PROVE u \in Units(h) <=> u \in U \/ u \in W
    <3>1. u \in Units(h) <=> \E x \in A \cup B : \E k \in 1 .. h[x] : u = <<x, k>>
      BY InUnits
    <3>2. u \in U <=> \E x \in A : \E k \in 1 .. f[x] : u = <<x, k>>
      BY <1>0, InUnits
    <3>3. u \in W <=> \E x \in B : \E k \in 1 .. g[x] : u = <<x, k>>
      BY <1>0, InUnits
    <3>. QED BY <1>0, <3>1, <3>2, <3>3, Zenon
  <2>. QED BY <2>1
<1>2. U \cap W = {}
  BY <1>0, InUnits
<1>3. /\ IsFiniteSet(U) /\ SumOf(f) \in Nat
      /\ IsFiniteSet(W) /\ SumOf(g) \in Nat
  BY <1>0, SumIsNat
<1>. HIDE DEF U, W
<1>4. Cardinality(U \cup W) = Cardinality(U) + Cardinality(W) - Cardinality(U \cap W)
  BY <1>3, FS_Union
<1>5. Cardinality(U \cap W) = 0
  BY <1>2, FS_EmptySet
<1>6. SumOf(f) = Cardinality(U) /\ SumOf(g) = Cardinality(W) /\ SumOf(h) = Cardinality(U \cup W)
  BY <1>1 DEF SumOf, U, W
<1>7. SumOf(h) = SumOf(f) + SumOf(g)
  BY <1>3, <1>4, <1>5, <1>6
<1>. QED BY <1>7 DEF f, g

\* The sum over one element is its value.
LEMMA SumOfOne ==
    ASSUME NEW x, NEW f \in [{x} -> Nat]
    PROVE  SumOf(f) = f[x]
<1>1. Units(f) = {x} \X (1 .. f[x])
  BY DEF Units
<1>2. IsFiniteSet({x}) /\ Cardinality({x}) = 1
  BY FS_Singleton, Zenon
<1>3. f[x] \in Nat
  OBVIOUS
<1>4. IsFiniteSet(1 .. f[x]) /\ Cardinality(1 .. f[x]) = f[x]
  BY <1>3, FS_Interval
<1>5. Cardinality({x} \X (1 .. f[x])) = Cardinality({x}) * Cardinality(1 .. f[x])
  BY <1>2, <1>4, FS_Product, Zenon
<1>. QED BY <1>1, <1>2, <1>3, <1>4, <1>5 DEF SumOf

\* Another argument adds its value.
LEMMA SumGrows ==
    ASSUME NEW S, IsFiniteSet(S), NEW x, x \notin S, NEW h \in [S \cup {x} -> Nat]
    PROVE  SumOf(h) = SumOf([y \in S |-> h[y]]) + h[x]
<1>1. IsFiniteSet({x}) /\ S \cap {x} = {}
  BY FS_Singleton
<1>2. SumOf(h) = SumOf([y \in S |-> h[y]]) + SumOf([y \in {x} |-> h[y]])
  BY <1>1, SumSplits
<1>3. SumOf([y \in {x} |-> h[y]]) = h[x]
  BY SumOfOne
<1>. QED BY <1>2, <1>3

\* Adding n to one value adds it to the sum.
LEMMA SumWithMore ==
    ASSUME NEW S, IsFiniteSet(S), NEW x \in S, NEW n \in Nat,
           NEW f \in [S -> Nat], NEW h \in [S -> Nat],
           h[x] = f[x] + n, \A y \in S \ {x} : h[y] = f[y]
    PROVE  SumOf(h) = SumOf(f) + n
<1>. DEFINE R == S \ {x}
            g == [y \in R |-> f[y]]
<1>1. IsFiniteSet(R) /\ R \cup {x} = S /\ x \notin R
  BY FS_RemoveElement
<1>2. g \in [R -> Nat] /\ g = [y \in R |-> h[y]]
  OBVIOUS
<1>3. f \in [R \cup {x} -> Nat] /\ h \in [R \cup {x} -> Nat]
  BY <1>1
<1>. HIDE DEF R
<1>4. SumOf(f) = SumOf(g) + f[x]
  BY <1>1, <1>3, SumGrows
<1>5. SumOf(h) = SumOf(g) + h[x]
  BY <1>1, <1>2, <1>3, SumGrows
<1>6. SumOf(g) \in Nat
  BY <1>1, <1>2, SumIsNat
<1>. QED BY <1>4, <1>5, <1>6

\* Renaming the arguments one to one does not change the sum.
LEMMA SumRenamed ==
    ASSUME NEW S, IsFiniteSet(S), NEW T, NEW b \in Bijection(S, T),
           NEW f \in [S -> Nat], NEW g \in [T -> Nat], \A x \in S : g[b[x]] = f[x]
    PROVE  SumOf(f) = SumOf(g)
<1>. DEFINE c == [u \in Units(f) |-> <<b[u[1]], u[2]>>]
<1>0. /\ b \in [S -> T] /\ \A t \in T : \E s \in S : b[s] = t
      /\ \A s, t \in S : b[s] = b[t] => s = t
  BY DEF Bijection, Injection, Surjection, IsInjective
<1>1. c \in [Units(f) -> Units(g)]
  <2>1. ASSUME NEW u \in Units(f) PROVE <<b[u[1]], u[2]>> \in Units(g)
    BY <1>0, InUnits
  <2>. QED BY <2>1
<1>2. \A u, v \in Units(f) : c[u] = c[v] => u = v
  <2>1. ASSUME NEW u \in Units(f), NEW v \in Units(f), c[u] = c[v] PROVE u = v
    <3>1. PICK x, k : x \in S /\ k \in 1 .. f[x] /\ u = <<x, k>>
      BY InUnits
    <3>2. PICK y, l : y \in S /\ l \in 1 .. f[y] /\ v = <<y, l>>
      BY InUnits
    <3>3. b[x] = b[y] /\ k = l
      BY <2>1, <3>1, <3>2
    <3>. QED BY <1>0, <3>1, <3>2, <3>3
  <2>. QED BY <2>1
<1>3. ASSUME NEW w \in Units(g) PROVE \E u \in Units(f) : c[u] = w
  <2>1. PICK t, k : t \in T /\ k \in 1 .. g[t] /\ w = <<t, k>>
    BY InUnits
  <2>2. PICK s \in S : b[s] = t
    BY <1>0, <2>1
  <2>3. <<s, k>> \in Units(f)
    <3>1. g[t] = f[s]
      BY <2>2
    <3>. QED BY <2>1, <3>1, InUnits
  <2>. QED BY <2>1, <2>2, <2>3
<1>. HIDE DEF c
<1>4. c \in Bijection(Units(f), Units(g))
  BY <1>1, <1>2, <1>3 DEF Bijection, Injection, Surjection, IsInjective
<1>. QED BY <1>4, SumIsNat, FS_Bijection DEF SumOf, ExistsBijection

\* Arguments with value zero do not count.
LEMMA SumOfRest ==
    ASSUME NEW S, IsFiniteSet(S), NEW T, T \subseteq S,
           NEW f \in [S -> Nat], \A x \in S \ T : f[x] = 0
    PROVE  SumOf(f) = SumOf([x \in T |-> f[x]])
<1>. DEFINE R == S \ T
            g == [x \in T |-> f[x]]
            h == [x \in R |-> f[x]]
<1>1. IsFiniteSet(T) /\ IsFiniteSet(R)
  BY FS_Subset
<1>2. T \cap R = {} /\ f \in [T \cup R -> Nat]
  <2>1. T \cup R = S
    OBVIOUS
  <2>. QED BY <2>1
<1>3. g \in [T -> Nat] /\ h \in [R -> Nat] /\ \A x \in R : h[x] = 0
  OBVIOUS
<1>. HIDE DEF R
<1>4. SumOf(f) = SumOf(g) + SumOf(h)
  BY <1>1, <1>2, SumSplits
<1>. HIDE DEF g, h
<1>5. SumOf(h) = 0 /\ SumOf(g) \in Nat
  BY <1>1, <1>3, SumOfZeros, SumIsNat
<1>6. SumOf(f) = SumOf(g)
  BY <1>4, <1>5
<1>. QED BY <1>6 DEF g

\* Arguments that map one to one to others with values as large.
LEMMA SumInjected ==
    ASSUME NEW S, IsFiniteSet(S), NEW T, IsFiniteSet(T),
           NEW b \in [S -> T], \A s, t \in S : b[s] = b[t] => s = t,
           NEW f \in [S -> Nat], NEW g \in [T -> Nat], \A x \in S : f[x] <= g[b[x]]
    PROVE  SumOf(f) <= SumOf(g)
<1>. DEFINE R == {b[x] : x \in S}
            h == [x \in S |-> g[b[x]]]
            k == [t \in R |-> g[t]]
<1>1. R \subseteq T /\ IsFiniteSet(R)
  <2>1. R \subseteq T
    OBVIOUS
  <2>. HIDE DEF R
  <2>. QED BY <2>1, FS_Subset
<1>2. b \in Bijection(S, R)
  BY DEF Bijection, Injection, Surjection, IsInjective
<1>3. /\ h \in [S -> Nat] /\ k \in [R -> Nat]
      /\ \A x \in S : k[b[x]] = h[x] /\ f[x] <= h[x]
      /\ \A t \in R : k[t] <= g[t]
  <2>1. \A x \in S : b[x] \in T /\ b[x] \in R
    OBVIOUS
  <2>2. \A t \in T : g[t] \in Nat /\ g[t] <= g[t]
    OBVIOUS
  <2>. QED BY <1>1, <2>1, <2>2
<1>. HIDE DEF R, h, k
<1>4. SumOf(h) = SumOf(k)
  BY <1>2, <1>3, SumRenamed
<1>5. SumOf(f) <= SumOf(h)
  BY <1>3, SumIsMonotone
<1>6. SumOf(k) <= SumOf(g)
  BY <1>1, <1>3, SumIsMonotone
<1>7. SumOf(f) \in Nat /\ SumOf(h) \in Nat /\ SumOf(g) \in Nat
  BY <1>3, SumIsNat
<1>. QED BY <1>4, <1>5, <1>6, <1>7

-----------------------------------------------------------------------------
(* Induction and recursion, step by step.                                  *)

\* Every set of naturals that is not empty has a least element.
LEMMA SmallestNat ==
    ASSUME NEW T, T \subseteq Nat, T # {}
    PROVE  \E x \in T : \A y \in T : ~(y < x)
<1>1. PICK x \in T : \A y \in T : ~(<<y, x>> \in OpToRel(<, Nat))
  BY NatLessThanWellFounded, WFMin
<1>2. \A y \in T : <<y, x>> \in OpToRel(<, Nat) <=> y < x
  BY DEF OpToRel
<1>. QED BY <1>1, <1>2

\* What holds of 0, and of the successor of whatever it holds of, holds of all.
LEMMA NatSetInduction ==
    ASSUME NEW T, 0 \in T, \A n \in Nat : n \in T => n + 1 \in T
    PROVE  Nat \subseteq T
<1>1. SUFFICES ASSUME Nat \ T # {} PROVE FALSE
  OBVIOUS
<1>2. PICK x \in Nat \ T : \A y \in Nat \ T : ~(y < x)
  BY <1>1, SmallestNat
<1>3. x # 0
  OBVIOUS
<1>4. x - 1 \in Nat /\ x - 1 < x /\ (x - 1) + 1 = x
  BY <1>3
<1>. QED BY <1>2, <1>4

\* The sum of the first k + 1 values.
LEMMA PartGrows ==
    ASSUME NEW n \in Nat, NEW d \in [1 .. n -> Nat], NEW k \in Nat, k + 1 <= n
    PROVE  /\ SumOf([i \in 1 .. k + 1 |-> d[i]]) = SumOf([i \in 1 .. k |-> d[i]]) + d[k + 1]
           /\ SumOf([i \in 1 .. k |-> d[i]]) \in Nat
<1>. DEFINE S == 1 .. k
            h == [i \in S \cup {k + 1} |-> d[i]]
            g == [i \in S |-> d[i]]
<1>1. k \in Int /\ 1 \in Int
  OBVIOUS
<1>2. IsFiniteSet(S) /\ k + 1 \notin S /\ S \cup {k + 1} = 1 .. k + 1
  <2>1. IsFiniteSet(1 .. k)
    BY <1>1, FS_Interval
  <2>2. k + 1 \notin 1 .. k /\ (1 .. k) \cup {k + 1} = 1 .. k + 1
    OBVIOUS
  <2>. QED BY <2>1, <2>2
<1>3. \A i \in S \cup {k + 1} : d[i] \in Nat
  OBVIOUS
<1>. HIDE DEF S
<1>4. h \in [S \cup {k + 1} -> Nat] /\ g \in [S -> Nat] /\ h[k + 1] = d[k + 1]
  BY <1>3
<1>5. [i \in S |-> h[i]] = g
  OBVIOUS
<1>6. SumOf(g) \in Nat
  BY <1>2, <1>4, SumIsNat
<1>. HIDE DEF h, g
<1>7. SumOf(h) = SumOf([i \in S |-> h[i]]) + h[k + 1]
  BY <1>2, <1>4, SumGrows
<1>8. SumOf(h) = SumOf(g) + d[k + 1]
  BY <1>4, <1>5, <1>7
<1>. QED BY <1>2, <1>6, <1>8 DEF h, g, S

\* A value that grows by d[k] in step k has grown by their sum.
LEMMA Accumulates ==
    ASSUME NEW n \in Nat, NEW v \in [0 .. n -> Nat], NEW d \in [1 .. n -> Nat],
           \A k \in 1 .. n : v[k] = v[k - 1] + d[k]
    PROVE  v[n] = v[0] + SumOf(d)
<1>. DEFINE part(k) == SumOf([i \in 1 .. k |-> d[i]])
            T == {k \in Nat : k <= n => v[k] = v[0] + part(k)}
<1>1. 0 \in T
  <2>1. part(0) = 0
    <3>1. [i \in 1 .. 0 |-> d[i]] \in [1 .. 0 -> Nat] /\ \A i \in 1 .. 0 : FALSE
      OBVIOUS
    <3>. QED BY <3>1, SumOfZeros
  <2>2. v[0] \in Nat
    OBVIOUS
  <2>. HIDE DEF part
  <2>. QED BY <2>1, <2>2
<1>2. ASSUME NEW k \in Nat, k \in T, k + 1 <= n PROVE v[k + 1] = v[0] + part(k + 1)
  <2>1. v[k] = v[0] + part(k)
    BY <1>2
  <2>2. v[k + 1] = v[k] + d[k + 1]
    BY <1>2
  <2>3. part(k + 1) = part(k) + d[k + 1] /\ part(k) \in Nat
    BY <1>2, PartGrows
  <2>4. v[0] \in Nat /\ d[k + 1] \in Nat
    BY <1>2
  <2>. HIDE DEF part
  <2>. QED BY <2>1, <2>2, <2>3, <2>4
<1>3. Nat \subseteq T
  <2>. HIDE DEF part
  <2>1. \A k \in Nat : k \in T => k + 1 \in T
    BY <1>2
  <2>. QED BY <1>1, <2>1, NatSetInduction
<1>4. v[n] = v[0] + part(n)
  BY <1>3
<1>. QED BY <1>4

\* A value that loses at most d[k] in step k has lost at most their sum.
LEMMA Drains ==
    ASSUME NEW n \in Nat, NEW v \in [0 .. n -> Nat], NEW d \in [1 .. n -> Nat],
           \A k \in 1 .. n : v[k - 1] <= v[k] + d[k]
    PROVE  v[0] <= v[n] + SumOf(d)
<1>. DEFINE part(k) == SumOf([i \in 1 .. k |-> d[i]])
            T == {k \in Nat : k <= n => v[0] <= v[k] + part(k)}
<1>1. 0 \in T
  <2>1. part(0) = 0
    <3>1. [i \in 1 .. 0 |-> d[i]] \in [1 .. 0 -> Nat] /\ \A i \in 1 .. 0 : FALSE
      OBVIOUS
    <3>. QED BY <3>1, SumOfZeros
  <2>2. v[0] \in Nat
    OBVIOUS
  <2>. HIDE DEF part
  <2>. QED BY <2>1, <2>2
<1>2. ASSUME NEW k \in Nat, k \in T, k + 1 <= n PROVE v[0] <= v[k + 1] + part(k + 1)
  <2>1. v[0] <= v[k] + part(k)
    BY <1>2
  <2>2. v[k] <= v[k + 1] + d[k + 1]
    BY <1>2
  <2>3. part(k + 1) = part(k) + d[k + 1] /\ part(k) \in Nat
    BY <1>2, PartGrows
  <2>4. v[0] \in Nat /\ v[k] \in Nat /\ v[k + 1] \in Nat /\ d[k + 1] \in Nat
    BY <1>2
  <2>. HIDE DEF part
  <2>5. \A a, b, c, e, q \in Nat : a <= b + q /\ b <= c + e => a <= c + (q + e)
    OBVIOUS
  <2>6. v[0] <= v[k + 1] + (part(k) + d[k + 1])
    BY <2>1, <2>2, <2>3, <2>4, <2>5
  <2>. QED BY <2>3, <2>6
<1>3. Nat \subseteq T
  <2>. HIDE DEF part
  <2>1. \A k \in Nat : k \in T => k + 1 \in T
    BY <1>2
  <2>. QED BY <1>1, <2>1, NatSetInduction
<1>4. v[0] <= v[n] + part(n)
  BY <1>3
<1>. QED BY <1>4

\* f is what n steps do, from b on.
IsRun(f, n, b, step) ==
    f = [k \in 0 .. n |-> IF k = 0 THEN b ELSE step[k][f[k - 1]]]

\* Steps that stay in X can be run, and the run is in X.
LEMMA RunExists ==
    ASSUME NEW n \in Nat, NEW X, NEW b \in X, NEW step,
           \A k \in 1 .. n : \A x \in X : step[k][x] \in X
    PROVE  \E f \in [0 .. n -> X] : IsRun(f, n, b, step)
<1>. DEFINE T == {m \in Nat : m <= n => \E f \in [0 .. m -> X] : IsRun(f, m, b, step)}
<1>1. 0 \in T
  <2>. DEFINE f == [k \in 0 .. 0 |-> b]
  <2>1. f \in [0 .. 0 -> X] /\ IsRun(f, 0, b, step)
    BY DEF IsRun
  <2>. HIDE DEF f
  <2>. QED BY <2>1
<1>2. ASSUME NEW m \in Nat, m \in T, m + 1 <= n
      PROVE  \E f \in [0 .. m + 1 -> X] : IsRun(f, m + 1, b, step)
  <2>1. PICK g \in [0 .. m -> X] : IsRun(g, m, b, step)
    BY <1>2
  <2>. DEFINE x == step[m + 1][g[m]]
              f == [k \in 0 .. m + 1 |-> IF k = m + 1 THEN x ELSE g[k]]
  <2>2. x \in X
    BY <1>2
  <2>. HIDE DEF x
  <2>3. f \in [0 .. m + 1 -> X]
    BY <2>2
  <2>4. ASSUME NEW k \in 0 .. m + 1
        PROVE  f[k] = IF k = 0 THEN b ELSE step[k][f[k - 1]]
    <3>1. CASE k = 0
      BY <2>1, <3>1 DEF IsRun
    <3>2. CASE k = m + 1
      BY <3>2 DEF x
    <3>3. CASE k # 0 /\ k # m + 1
      <4>1. k \in 0 .. m /\ k - 1 \in 0 .. m /\ k - 1 # m + 1 /\ f[k] = g[k] /\ f[k - 1] = g[k - 1]
        BY <3>3
      <4>2. g[k] = IF k = 0 THEN b ELSE step[k][g[k - 1]]
        BY <2>1, <4>1 DEF IsRun
      <4>. QED BY <3>3, <4>1, <4>2
    <3>. QED BY <3>1, <3>2, <3>3
  <2>. HIDE DEF f
  <2>5. IsRun(f, m + 1, b, step)
    BY <2>3, <2>4 DEF IsRun
  <2>. QED BY <2>3, <2>5
<1>3. Nat \subseteq T
  <2>1. \A k \in Nat : k \in T => k + 1 \in T
    BY <1>2
  <2>. QED BY <1>1, <2>1, NatSetInduction
<1>. QED BY <1>3

\* A run of more steps begins with the same values, and ends with what the last
\* step makes of them.
LEMMA RunGrows ==
    ASSUME NEW n \in Nat, NEW b, NEW step, NEW more, NEW f, NEW g,
           IsRun(f, n, b, step), IsRun(g, n + 1, b, more),
           \A k \in 1 .. n : more[k] = step[k]
    PROVE  g[n + 1] = more[n + 1][f[n]]
<1>. DEFINE T == {k \in Nat : k <= n => g[k] = f[k]}
<1>1. ASSUME NEW k \in 0 .. n
      PROVE  /\ f[k] = IF k = 0 THEN b ELSE step[k][f[k - 1]]
             /\ g[k] = IF k = 0 THEN b ELSE more[k][g[k - 1]]
  <2>1. k \in 0 .. n + 1
    OBVIOUS
  <2>. QED BY <2>1, Zenon DEF IsRun
<1>2. g[n + 1] = more[n + 1][g[n]]
  <2>1. n + 1 \in 0 .. n + 1 /\ n + 1 # 0 /\ (n + 1) - 1 = n
    OBVIOUS
  <2>. QED BY <2>1, Zenon DEF IsRun
<1>3. 0 \in T
  <2>1. 0 \in 0 .. n
    OBVIOUS
  <2>. QED BY <1>1, <2>1
<1>4. ASSUME NEW k \in Nat, k \in T, k + 1 <= n PROVE g[k + 1] = f[k + 1]
  <2>1. k + 1 \in 0 .. n /\ k + 1 # 0 /\ (k + 1) - 1 = k /\ k + 1 \in 1 .. n /\ k <= n
    BY <1>4
  <2>2. f[k + 1] = step[k + 1][f[k]] /\ g[k + 1] = more[k + 1][g[k]]
    BY <1>1, <2>1
  <2>3. more[k + 1] = step[k + 1] /\ g[k] = f[k]
    BY <1>4, <2>1
  <2>. QED BY <2>2, <2>3
<1>5. Nat \subseteq T
  <2>1. \A k \in Nat : k \in T => k + 1 \in T
    BY <1>4
  <2>. QED BY <1>3, <2>1, NatSetInduction
<1>6. g[n] = f[n]
  BY <1>5
<1>. QED BY <1>2, <1>6

=============================================================================
