------------------------------- MODULE SetLemmas -------------------------------
(***************************************************************************)
(* What the proofs of the components need to know of finite sets: that a    *)
(* set of numbers has a least and a greatest member, that a finite set can  *)
(* be put in any order, and what a sum over a finite set is.  The library   *)
(* states induction for a predicate that is a parameter; here each is an    *)
(* argument by a least counterexample, which is a set.                      *)
(***************************************************************************)
EXTENDS Integers, FiniteSets, FiniteSetsExt, FiniteSetTheorems, WellFoundedInduction, TLAPS

\* The order by which a set of numbers has a least one.
Below == {ab \in Nat \X Nat : ab[1] < ab[2]}

\* A set of numbers that has a member has a least one, which Min chooses.
LEMMA NatHasMin ==
    ASSUME NEW S \in SUBSET Nat, S # {}
    PROVE  Min(S) \in S /\ \A x \in S : Min(S) <= x
<1>1. IsWellFoundedOn(Below, Nat)
  BY NatLessThanWellFounded DEF Below, OpToRel
<1>2. PICK m \in S : \A x \in S : ~(<<x, m>> \in Below)
  BY <1>1, WFMin
<1>3. \A x \in S : m <= x
  <2> TAKE x \in S
  <2>1. x \in Nat /\ m \in Nat /\ ~(<<x, m>> \in Below)
    BY <1>2
  <2> QED
    BY <2>1 DEF Below
<1> QED
  BY <1>3 DEF Min

\* A set of numbers up to a bound has a greatest one, which Max chooses.
LEMMA BoundedHasMax ==
    ASSUME NEW n \in Nat, NEW S \in SUBSET (0 .. n), S # {}
    PROVE  Max(S) \in S /\ \A x \in S : Max(S) >= x
<1> DEFINE T == {n - x : x \in S}
<1>1. T \subseteq Nat /\ T # {}
  <2>1. \A x \in S : n - x \in Nat
    OBVIOUS
  <2> QED
    BY <2>1
<1>2. IsWellFoundedOn(Below, Nat)
  BY NatLessThanWellFounded DEF Below, OpToRel
<1>3. PICK t \in T : \A u \in T : ~(<<u, t>> \in Below)
  <2> HIDE DEF T
  <2> QED
    BY <1>1, <1>2, WFMin
<1>4. \A u \in T : t <= u
  <2> TAKE u \in T
  <2>1. u \in Nat /\ t \in Nat /\ ~(<<u, t>> \in Below)
    BY <1>1, <1>3
  <2> QED
    BY <2>1 DEF Below
<1>5. PICK m \in S : t = n - m
  OBVIOUS
<1>6. \A x \in S : m >= x
  <2> TAKE x \in S
  <2>1. n - x \in T /\ x \in 0 .. n /\ m \in 0 .. n
    OBVIOUS
  <2>2. t <= n - x
    BY <1>4, <2>1
  <2> QED
    BY <1>5, <2>1, <2>2
<1> QED
  BY <1>6 DEF Max

\* Among subsets of a finite set there is one with no other inside it.
LEMMA LeastSubset ==
    ASSUME NEW S, IsFiniteSet(S), NEW B \in SUBSET SUBSET S, B # {}
    PROVE  \E T \in B : \A U \in B : U \subseteq T => U = T
<1>1. IsWellFoundedOn(StrictSubsetOrdering(S), SUBSET S)
  BY FS_StrictSubsetOrderingWellFounded, FS_FiniteSubsetsOfFinite
<1>2. PICK T \in B : \A U \in B : ~(<<U, T>> \in StrictSubsetOrdering(S))
  BY <1>1, WFMin
<1>3. \A U \in B : U \subseteq T => U = T
  BY <1>2 DEF StrictSubsetOrdering
<1> QED
  BY <1>2, <1>3

-----------------------------------------------------------------------------
(* Order.                                                                   *)

\* R puts the members of S in one line.
Orders(R, S) ==
    /\ \A x \in S : <<x, x>> \notin R
    /\ \A x, y \in S : x # y => <<x, y>> \in R \/ <<y, x>> \in R
    /\ \A x, y, z \in S : <<x, y>> \in R /\ <<y, z>> \in R => <<x, z>> \in R

\* The sequence s is S in the order R.
Lists(s, S, R) ==
    /\ s \in [1 .. Cardinality(S) -> S]
    /\ \A i, j \in 1 .. Cardinality(S) : i < j => <<s[i], s[j]>> \in R

\* A finite set has a first member.
LEMMA HasFirst ==
    ASSUME NEW S, IsFiniteSet(S), NEW R, Orders(R, S), S # {}
    PROVE  \E m \in S : \A x \in S \ {m} : <<m, x>> \in R
<1> DEFINE First(T) == \E m \in T : \A x \in T \ {m} : <<m, x>> \in R
           B == {T \in SUBSET S : T # {} /\ ~First(T)}
<1>1. SUFFICES ASSUME B # {} PROVE FALSE
  BY DEF First
<1>2. PICK T \in B : \A U \in B : U \subseteq T => U = T
  <2> B \in SUBSET SUBSET S
    OBVIOUS
  <2> HIDE DEF B
  <2> QED
    BY <1>1, LeastSubset
<1>3. PICK x \in T : TRUE
  BY <1>2
<1>4. T \ {x} # {}
  BY <1>2, <1>3
<1>5. T \ {x} \notin B
  BY <1>2, <1>3
<1>6. PICK m \in T \ {x} : \A y \in (T \ {x}) \ {m} : <<m, y>> \in R
  BY <1>2, <1>4, <1>5
<1>7. CASE <<m, x>> \in R
  BY <1>2, <1>3, <1>6, <1>7
<1>8. CASE <<x, m>> \in R
  BY <1>2, <1>3, <1>6, <1>8 DEF Orders
<1> QED
  BY <1>2, <1>3, <1>6, <1>7, <1>8 DEF Orders

\* A finite set can be sorted.
LEMMA SetSorts ==
    ASSUME NEW S, IsFiniteSet(S), NEW R, Orders(R, S)
    PROVE  \E s : Lists(s, S, R)
<1> DEFINE B == {T \in SUBSET S : ~\E s : Lists(s, T, R)}
<1>1. SUFFICES ASSUME B # {} PROVE FALSE
  OBVIOUS
<1>2. PICK T \in B : \A U \in B : U \subseteq T => U = T
  <2> B \in SUBSET SUBSET S
    OBVIOUS
  <2> HIDE DEF B
  <2> QED
    BY <1>1, LeastSubset
<1>3. IsFiniteSet(T) /\ Cardinality(T) \in Nat /\ Orders(R, T)
  BY <1>2, FS_Subset, FS_CardinalityType DEF Orders
<1>4. CASE T = {}
  <2>1. Cardinality(T) = 0
    BY <1>4, FS_EmptySet
  <2>2. Lists([i \in {} |-> i], T, R)
    BY <1>4, <2>1 DEF Lists
  <2> QED
    BY <1>2, <2>2
<1>5. CASE T # {}
  <2>1. PICK m \in T : \A x \in T \ {m} : <<m, x>> \in R
    BY <1>3, <1>5, HasFirst
  <2> DEFINE n == Cardinality(T)
  <2>2. Cardinality(T \ {m}) = n - 1
    BY <1>3, FS_RemoveElement
  <2>3. PICK t : Lists(t, T \ {m}, R)
    BY <1>2, <2>1
  <2>4. /\ t \in [1 .. n - 1 -> T \ {m}]
        /\ \A i, j \in 1 .. n - 1 : i < j => <<t[i], t[j]>> \in R
    BY <2>2, <2>3 DEF Lists
  <2> DEFINE s == [i \in 1 .. n |-> IF i = 1 THEN m ELSE t[i - 1]]
  <2>5. n \in Nat
    BY <1>3
  <2> HIDE DEF n
  <2>6. \A i \in 1 .. n : i # 1 => i - 1 \in 1 .. n - 1
    BY <2>5
  <2>7. s \in [1 .. n -> T]
    BY <2>4, <2>6
  <2>8. ASSUME NEW i \in 1 .. n, NEW j \in 1 .. n, i < j PROVE <<s[i], s[j]>> \in R
    <3>1. j # 1 /\ s[j] = t[j - 1] /\ j - 1 \in 1 .. n - 1
      BY <2>5, <2>6, <2>8
    <3>2. CASE i = 1
      BY <2>1, <2>4, <3>1, <3>2
    <3>3. CASE i # 1
      <4>1. s[i] = t[i - 1] /\ i - 1 \in 1 .. n - 1 /\ i - 1 < j - 1
        BY <2>5, <2>6, <2>8, <3>3
      <4> QED
        BY <2>4, <3>1, <4>1
    <3> QED
      BY <3>2, <3>3
  <2>9. Lists(s, T, R)
    <3> HIDE DEF s
    <3> QED
      BY <2>7, <2>8 DEF Lists, n
  <2> QED
    BY <1>2, <2>9
<1> QED
  BY <1>4, <1>5

\* A sorted set is there as a whole, each member once.
LEMMA SortedIsAll ==
    ASSUME NEW S, IsFiniteSet(S), NEW R, Orders(R, S), NEW s, Lists(s, S, R)
    PROVE  /\ Cardinality(S) \in Nat
           /\ \A i, j \in 1 .. Cardinality(S) : s[i] = s[j] => i = j
           /\ \A x \in S : \E i \in 1 .. Cardinality(S) : s[i] = x
<1> DEFINE n == Cardinality(S)
           T == {s[i] : i \in 1 .. n}
<1>1. n \in Nat /\ s \in [1 .. n -> S] /\ \A i, j \in 1 .. n : i < j => <<s[i], s[j]>> \in R
  BY FS_CardinalityType DEF Lists
<1> HIDE DEF n
<1>2. \A i, j \in 1 .. n : s[i] = s[j] => i = j
  <2> TAKE i, j \in 1 .. n
  <2>1. i < j \/ j < i \/ i = j
    BY <1>1
  <2> QED
    BY <1>1, <2>1 DEF Orders
<1>3. T \in SUBSET S
  BY <1>1
<1>4. Cardinality(T) = n
  <2>1. IsFiniteSet(1 .. n) /\ Cardinality(1 .. n) = n
    BY <1>1, FS_Interval
  <2>2. s \in Bijection(1 .. n, T)
    BY <1>1, <1>2 DEF Bijection, Injection, Surjection, IsInjective
  <2> HIDE DEF T
  <2>3. ExistsBijection(1 .. n, T)
    BY <2>2 DEF ExistsBijection
  <2> QED
    BY <2>1, <2>3, FS_Bijection
<1>5. S = T
  BY <1>3, <1>4, FS_Subset DEF n
<1> QED
  BY <1>1, <1>2, <1>5 DEF n

-----------------------------------------------------------------------------
(* Sums.                                                                    *)

\* What the library's folds pick from a set.
Picked(T) == CHOOSE x \in T : TRUE

\* The table of partial sums that they ask for.
IsTable(g, f, S) == g = [T \in SUBSET S |-> IF T = {} THEN 0 ELSE f[Picked(T)] + g[T \ {Picked(T)}]]

\* The sum of f over S.
Total(f, S) == (CHOOSE g : IsTable(g, f, S))[S]

\* It is the library's.
LEMMA TotalIsFold ==
    ASSUME NEW S, NEW f
    PROVE  MapThenSumSet(LAMBDA x : f[x], S) = Total(f, S)
BY DEF MapThenSumSet, MapThenFoldSet, Total, IsTable, Picked

\* The entries of a table.
LEMMA TableEntries ==
    ASSUME NEW S, NEW f, NEW g, IsTable(g, f, S), NEW T \in SUBSET S
    PROVE  /\ T = {} => g[T] = 0
           /\ T # {} => g[T] = f[Picked(T)] + g[T \ {Picked(T)}]
<1>1. g[T] = IF T = {} THEN 0 ELSE f[Picked(T)] + g[T \ {Picked(T)}]
  BY DEF IsTable
<1> QED
  BY <1>1

\* What is picked from a set is in it.
LEMMA PickedIsIn ==
    ASSUME NEW T, T # {}
    PROVE  Picked(T) \in T /\ T \ {Picked(T)} # T
<1>1. Picked(T) \in T
  BY DEF Picked
<1> QED
  BY <1>1

\* Two tables agree where both have an entry.
LEMMA TablesAgree ==
    ASSUME NEW S, IsFiniteSet(S), NEW R, NEW f, NEW g, IsTable(g, f, S), NEW h, IsTable(h, f, R),
           NEW U \in SUBSET S, U \in SUBSET R
    PROVE  g[U] = h[U]
<1> DEFINE B == {T \in SUBSET S : T \in SUBSET R /\ g[T] # h[T]}
<1>1. SUFFICES ASSUME B # {} PROVE FALSE
  OBVIOUS
<1>2. PICK T \in B : \A V \in B : V \subseteq T => V = T
  <2> B \in SUBSET SUBSET S
    OBVIOUS
  <2> HIDE DEF B
  <2> QED
    BY <1>1, LeastSubset
<1>3. T \in SUBSET S /\ T \in SUBSET R /\ g[T] # h[T]
  BY <1>2
<1>4. T # {}
  BY <1>3, TableEntries
<1>5. /\ Picked(T) \in T /\ T \ {Picked(T)} # T
      /\ g[T] = f[Picked(T)] + g[T \ {Picked(T)}] /\ h[T] = f[Picked(T)] + h[T \ {Picked(T)}]
  <2> HIDE DEF B
  <2>1. g[T] = f[Picked(T)] + g[T \ {Picked(T)}]
    BY <1>3, <1>4, TableEntries
  <2>2. h[T] = f[Picked(T)] + h[T \ {Picked(T)}]
    BY <1>3, <1>4, TableEntries
  <2>3. Picked(T) \in T /\ T \ {Picked(T)} # T
    BY <1>4, PickedIsIn
  <2> QED
    BY <2>1, <2>2, <2>3
<1>6. T \ {Picked(T)} \notin B
  BY <1>2, <1>5
<1> QED
  BY <1>3, <1>5, <1>6

\* A finite set has a table.
LEMMA TableExists ==
    ASSUME NEW S, IsFiniteSet(S), NEW f
    PROVE  \E g : IsTable(g, f, S)
<1> DEFINE B == {T \in SUBSET S : ~\E g : IsTable(g, f, T)}
<1>1. SUFFICES ASSUME B # {} PROVE FALSE
  OBVIOUS
<1>2. PICK T \in B : \A V \in B : V \subseteq T => V = T
  <2> B \in SUBSET SUBSET S
    OBVIOUS
  <2> HIDE DEF B
  <2> QED
    BY <1>1, LeastSubset
<1>3. T \in SUBSET S /\ ~\E g : IsTable(g, f, T)
  BY <1>2
<1>4. \A V \in SUBSET T : V # T => /\ IsFiniteSet(V)
                                   /\ \E g : IsTable(g, f, V)
  <2>1. \A V \in SUBSET T : V # T => \E g : IsTable(g, f, V)
    BY <1>2
  <2>2. \A V \in SUBSET T : IsFiniteSet(V)
    BY <1>3, FS_Subset
  <2> QED
    BY <2>1, <2>2
<1> DEFINE v(V) == Total(f, V)
           g == [V \in SUBSET T |-> IF V = {} THEN 0 ELSE f[Picked(V)] + v(V \ {Picked(V)})]
<1>5. ASSUME NEW V \in SUBSET T, V # T
      PROVE  v(V) = IF V = {} THEN 0 ELSE f[Picked(V)] + v(V \ {Picked(V)})
  <2>1. PICK h : IsTable(h, f, V) /\ v(V) = h[V]
    BY <1>4, <1>5 DEF Total
  <2>2. CASE V = {}
    BY <2>1, <2>2, TableEntries, ZenonT(60)
  <2>3. CASE V # {}
    <3> DEFINE W == V \ {Picked(V)}
    <3>1. W \in SUBSET V /\ W # T /\ W \in SUBSET T /\ v(V) = f[Picked(V)] + h[W]
      <4>1. V \in SUBSET V /\ Picked(V) \in V
        BY <2>3, PickedIsIn
      <4>2. h[V] = f[Picked(V)] + h[W]
        BY <2>1, <2>3, <4>1, TableEntries
      <4> QED
        BY <1>5, <2>1, <4>1, <4>2
    <3>2. PICK k : IsTable(k, f, W) /\ v(W) = k[W]
      BY <1>4, <3>1 DEF Total
    <3>3. h[W] = k[W]
      <4>1. IsFiniteSet(V)
        BY <1>4, <1>5
      <4> HIDE DEF W
      <4> QED
        BY <2>1, <3>1, <3>2, <4>1, TablesAgree
    <3> QED
      BY <2>3, <3>1, <3>2, <3>3
  <2> QED
    BY <2>2, <2>3
<1>6. \A V \in SUBSET T : V # {} => V \ {Picked(V)} \in SUBSET T /\ V \ {Picked(V)} # T
  BY DEF Picked
<1>7. \A V \in SUBSET T : V # T => g[V] = v(V)
  <2> HIDE DEF v
  <2> QED
    BY <1>5
<1>8. IsTable(g, f, T)
  <2> HIDE DEF v
  <2>1. \A V \in SUBSET T : g[V] = IF V = {} THEN 0 ELSE f[Picked(V)] + g[V \ {Picked(V)}]
    BY <1>6, <1>7
  <2>2. g = [V \in SUBSET T |-> g[V]]
    OBVIOUS
  <2> HIDE DEF g
  <2> QED
    BY <2>1, <2>2 DEF IsTable
<1> QED
  BY <1>3, <1>8

\* The sum over nothing is nothing; one member may be set apart, the one that is
\* picked first.
LEMMA TotalPicks ==
    ASSUME NEW S, IsFiniteSet(S), NEW f
    PROVE  /\ S = {} => Total(f, S) = 0
           /\ S # {} => /\ Picked(S) \in S
                        /\ Total(f, S) = f[Picked(S)] + Total(f, S \ {Picked(S)})
<1>1. PICK g : IsTable(g, f, S) /\ Total(f, S) = g[S]
  BY TableExists DEF Total
<1>2. CASE S = {}
  BY <1>1, <1>2, TableEntries
<1>3. CASE S # {}
  <2> DEFINE T == S \ {Picked(S)}
  <2>1. Picked(S) \in S /\ T \in SUBSET S /\ Total(f, S) = f[Picked(S)] + g[T]
    <3>1. S \in SUBSET S /\ Picked(S) \in S
      BY <1>3, PickedIsIn
    <3>2. g[S] = f[Picked(S)] + g[T]
      BY <1>1, <1>3, <3>1, TableEntries
    <3> QED
      BY <1>1, <3>1, <3>2
  <2>2. IsFiniteSet(T)
    BY FS_RemoveElement
  <2> HIDE DEF T
  <2>3. PICK h : IsTable(h, f, T) /\ Total(f, T) = h[T]
    BY <2>2, TableExists DEF Total
  <2>4. g[T] = h[T]
    BY <1>1, <2>1, <2>3, TablesAgree
  <2> QED
    BY <2>1, <2>3, <2>4 DEF T
<1> QED
  BY <1>2, <1>3

\* The sum of numbers is a number, and nothing adds up to nothing.
LEMMA TotalIsNat ==
    ASSUME NEW S, IsFiniteSet(S), NEW f, \A x \in S : f[x] \in Nat
    PROVE  /\ Total(f, S) \in Nat
           /\ (\A x \in S : f[x] = 0) => Total(f, S) = 0
<1> DEFINE B == {T \in SUBSET S : \/ Total(f, T) \notin Nat
                                  \/ (\A x \in T : f[x] = 0) /\ Total(f, T) # 0}
<1>1. SUFFICES ASSUME B # {} PROVE FALSE
  OBVIOUS
<1>2. PICK T \in B : \A V \in B : V \subseteq T => V = T
  <2> B \in SUBSET SUBSET S
    OBVIOUS
  <2> HIDE DEF B
  <2> QED
    BY <1>1, LeastSubset
<1>3. T \in SUBSET S /\ IsFiniteSet(T)
  BY <1>2, FS_Subset
<1>4. T # {}
  <2>1. SUFFICES ASSUME T = {} PROVE FALSE
    OBVIOUS
  <2>2. Total(f, T) = 0
    BY <1>3, <2>1, TotalPicks
  <2> QED
    BY <1>2, <2>2
<1>5. Picked(T) \in T /\ Total(f, T) = f[Picked(T)] + Total(f, T \ {Picked(T)})
  BY <1>3, <1>4, TotalPicks
<1>6. T \ {Picked(T)} \notin B
  BY <1>2, <1>5
<1> QED
  BY <1>2, <1>3, <1>5, <1>6

\* Any member may be set apart.
LEMMA TotalTakes ==
    ASSUME NEW S, IsFiniteSet(S), NEW f, \A x \in S : f[x] \in Nat, NEW m \in S
    PROVE  Total(f, S) = f[m] + Total(f, S \ {m})
<1> DEFINE Wrong(T) == \E x \in T : Total(f, T) # f[x] + Total(f, T \ {x})
           B == {T \in SUBSET S : Wrong(T)}
<1>1. SUFFICES ASSUME B # {} PROVE FALSE
  OBVIOUS
<1>2. PICK T \in B : \A V \in B : V \subseteq T => V = T
  <2> B \in SUBSET SUBSET S
    OBVIOUS
  <2> HIDE DEF B
  <2> QED
    BY <1>1, LeastSubset
<1>3. PICK x \in T : T \in SUBSET S /\ Total(f, T) # f[x] + Total(f, T \ {x})
  BY <1>2
<1>4. \A U \in SUBSET S : IsFiniteSet(U) /\ Total(f, U) \in Nat
  <2> TAKE U \in SUBSET S
  <2>1. IsFiniteSet(U)
    BY FS_Subset
  <2> QED
    BY <2>1, TotalIsNat
<1> DEFINE p == Picked(T)
<1>5. p \in T /\ Total(f, T) = f[p] + Total(f, T \ {p})
  BY <1>3, <1>4, TotalPicks
<1> HIDE DEF p
<1>6. p # x
  BY <1>3, <1>5
<1>7. \A y \in T : ~Wrong(T \ {y})
  <2> TAKE y \in T
  <2>1. T \ {y} \in SUBSET S /\ T \ {y} # T /\ T \ {y} \subseteq T
    BY <1>3
  <2> HIDE DEF Wrong
  <2> QED
    BY <1>2, <2>1
<1>8. /\ Total(f, T \ {p}) = f[x] + Total(f, (T \ {p}) \ {x})
      /\ Total(f, T \ {x}) = f[p] + Total(f, (T \ {x}) \ {p})
  BY <1>3, <1>5, <1>6, <1>7
<1>9. (T \ {p}) \ {x} = (T \ {x}) \ {p} /\ (T \ {x}) \ {p} \in SUBSET S
  BY <1>3
<1>10. f[x] \in Nat /\ f[p] \in Nat /\ Total(f, (T \ {x}) \ {p}) \in Nat
  BY <1>3, <1>4, <1>5, <1>9
<1> QED
  BY <1>3, <1>5, <1>8, <1>9, <1>10

\* A sum depends on the members' numbers only.
LEMMA TotalOfSame ==
    ASSUME NEW S, IsFiniteSet(S), NEW f, NEW g, \A x \in S : f[x] = g[x]
    PROVE  Total(f, S) = Total(g, S)
<1> DEFINE B == {T \in SUBSET S : Total(f, T) # Total(g, T)}
<1>1. SUFFICES ASSUME B # {} PROVE FALSE
  OBVIOUS
<1>2. PICK T \in B : \A V \in B : V \subseteq T => V = T
  <2> B \in SUBSET SUBSET S
    OBVIOUS
  <2> HIDE DEF B
  <2> QED
    BY <1>1, LeastSubset
<1>3. T \in SUBSET S /\ IsFiniteSet(T) /\ Total(f, T) # Total(g, T)
  BY <1>2, FS_Subset
<1> DEFINE p == Picked(T)
<1>4. /\ T = {} => Total(f, T) = 0 /\ Total(g, T) = 0
      /\ T # {} => /\ p \in T /\ Total(f, T) = f[p] + Total(f, T \ {p})
                   /\ Total(g, T) = g[p] + Total(g, T \ {p})
  <2> HIDE DEF B
  <2>1. /\ T = {} => Total(f, T) = 0
        /\ T # {} => p \in T /\ Total(f, T) = f[p] + Total(f, T \ {p})
    BY <1>3, TotalPicks
  <2>2. /\ T = {} => Total(g, T) = 0
        /\ T # {} => Total(g, T) = g[p] + Total(g, T \ {p})
    BY <1>3, TotalPicks
  <2> QED
    BY <2>1, <2>2
<1> HIDE DEF p
<1>5. T # {} => T \ {p} \notin B
  BY <1>2, <1>4
<1> QED
  BY <1>3, <1>4, <1>5

\* What one member gains, the sum gains.
LEMMA TotalGrows ==
    ASSUME NEW S, IsFiniteSet(S), NEW f, NEW g, \A x \in S : f[x] \in Nat /\ g[x] \in Nat,
           NEW m \in S, \A x \in S \ {m} : g[x] = f[x]
    PROVE  Total(g, S) + f[m] = Total(f, S) + g[m]
<1>1. IsFiniteSet(S \ {m}) /\ f[m] \in Nat /\ g[m] \in Nat
  BY FS_RemoveElement
<1>2. Total(f, S) = f[m] + Total(f, S \ {m}) /\ Total(g, S) = g[m] + Total(g, S \ {m})
  <2>1. Total(f, S) = f[m] + Total(f, S \ {m})
    BY TotalTakes
  <2>2. Total(g, S) = g[m] + Total(g, S \ {m})
    BY TotalTakes
  <2> QED
    BY <2>1, <2>2
<1>3. Total(g, S \ {m}) = Total(f, S \ {m})
  BY <1>1, TotalOfSame
<1>4. Total(f, S \ {m}) \in Nat
  BY <1>1, TotalIsNat
<1> QED
  BY <1>1, <1>2, <1>3, <1>4

\* A part of a set adds up to no more, and to the same when the rest is nothing.
LEMMA TotalOfPart ==
    ASSUME NEW S, IsFiniteSet(S), NEW f, \A x \in S : f[x] \in Nat, NEW T \in SUBSET S
    PROVE  /\ Total(f, T) <= Total(f, S)
           /\ (\A x \in S \ T : f[x] = 0) => Total(f, T) = Total(f, S)
<1> DEFINE Wrong(U) == \/ ~(Total(f, T) <= Total(f, T \cup U))
                       \/ (\A x \in U : f[x] = 0) /\ Total(f, T) # Total(f, T \cup U)
           B == {U \in SUBSET (S \ T) : Wrong(U)}
<1>1. SUFFICES ASSUME B # {} PROVE FALSE
  <2>1. S \ T \in SUBSET (S \ T) /\ T \cup (S \ T) = S
    OBVIOUS
  <2>2. ~Wrong(S \ T) => /\ Total(f, T) <= Total(f, S)
                         /\ (\A x \in S \ T : f[x] = 0) => Total(f, T) = Total(f, S)
    BY <2>1
  <2>3. Wrong(S \ T) => B # {}
    <3> HIDE DEF Wrong
    <3> QED
      BY <2>1
  <2> QED
    BY <2>2, <2>3
<1>2. PICK U \in B : \A V \in B : V \subseteq U => V = U
  <2>1. B \in SUBSET SUBSET (S \ T) /\ IsFiniteSet(S \ T)
    BY FS_Subset
  <2> HIDE DEF B
  <2> QED
    BY <1>1, <2>1, LeastSubset
<1>3. U \in SUBSET (S \ T) /\ Wrong(U)
  BY <1>2
<1>4. \A V \in SUBSET S : IsFiniteSet(V) /\ Total(f, V) \in Nat
  <2> TAKE V \in SUBSET S
  <2>1. IsFiniteSet(V)
    BY FS_Subset
  <2> QED
    BY <2>1, TotalIsNat
<1>5. U # {}
  <2>1. SUFFICES ASSUME U = {} PROVE FALSE
    OBVIOUS
  <2>2. T \cup U = T /\ Total(f, T) \in Nat
    BY <1>4, <2>1
  <2> QED
    BY <1>3, <2>2
<1>6. PICK u \in U : TRUE
  BY <1>5
<1> DEFINE V == U \ {u}
<1>7. /\ T \cup U \in SUBSET S /\ (T \cup U) \ {u} = T \cup V /\ u \in T \cup U
      /\ V \in SUBSET (S \ T) /\ V \subseteq U /\ V # U /\ f[u] \in Nat
  BY <1>3
<1>8. Total(f, T \cup U) = f[u] + Total(f, T \cup V)
  <2>1. IsFiniteSet(T \cup U) /\ \A x \in T \cup U : f[x] \in Nat
    BY <1>4, <1>7
  <2>2. Total(f, T \cup U) = f[u] + Total(f, (T \cup U) \ {u})
    BY <1>7, <2>1, TotalTakes
  <2> QED
    BY <1>7, <2>2
<1>9. ~Wrong(V)
  <2> HIDE DEF Wrong, V
  <2> QED
    BY <1>2, <1>7
<1>10. Total(f, T) \in Nat /\ Total(f, T \cup V) \in Nat
  <2>1. T \cup V \in SUBSET S
    BY <1>7
  <2> QED
    BY <1>4, <2>1
<1> QED
  BY <1>3, <1>7, <1>8, <1>9, <1>10

-----------------------------------------------------------------------------
(* Sums of squares.                                                        *)

\* A function on the numbers that multiplies.
Multiplies(A) == /\ A \in [Nat -> Nat] /\ A[0] = 0
                 /\ \A u, v \in Nat : A[u + v] = A[u] + A[v]

\* Multiplication by a number does.
LEMMA TimesMultiplies ==
    ASSUME NEW a \in Nat
    PROVE  Multiplies([u \in Nat |-> a * u])
BY DEF Multiplies

\* A table that is a combination of two others adds up to that of their sums.
LEMMA TotalCombines ==
    ASSUME NEW S, IsFiniteSet(S), NEW f, NEW g, NEW h,
           NEW A, Multiplies(A), NEW B, Multiplies(B), NEW C, Multiplies(C),
           \A x \in S : f[x] \in Nat /\ g[x] \in Nat /\ h[x] \in Nat,
           \A x \in S : h[x] = (A[f[x]] - B[g[x]]) + C[1]
    PROVE  Total(h, S) = (A[Total(f, S)] - B[Total(g, S)]) + C[Cardinality(S)]
<1> DEFINE Wrong(T) == Total(h, T) # (A[Total(f, T)] - B[Total(g, T)]) + C[Cardinality(T)]
           W == {T \in SUBSET S : Wrong(T)}
<1>1. SUFFICES ASSUME W # {} PROVE FALSE
  OBVIOUS
<1>2. PICK T \in W : \A V \in W : V \subseteq T => V = T
  <2> W \in SUBSET SUBSET S
    OBVIOUS
  <2> HIDE DEF W
  <2> QED
    BY <1>1, LeastSubset
<1>3. T \in SUBSET S /\ Wrong(T)
  BY <1>2
<1>4. \A U \in SUBSET S : IsFiniteSet(U) /\ Cardinality(U) \in Nat
                          /\ Total(f, U) \in Nat /\ Total(g, U) \in Nat /\ Total(h, U) \in Nat
  <2> TAKE U \in SUBSET S
  <2>1. IsFiniteSet(U) /\ Cardinality(U) \in Nat
    BY FS_Subset, FS_CardinalityType
  <2>2. Total(f, U) \in Nat
    BY <2>1, TotalIsNat
  <2>3. Total(g, U) \in Nat
    BY <2>1, TotalIsNat
  <2>4. Total(h, U) \in Nat
    BY <2>1, TotalIsNat
  <2> QED
    BY <2>1, <2>2, <2>3, <2>4
<1>5. T # {}
  <2>1. SUFFICES ASSUME T = {} PROVE FALSE
    OBVIOUS
  <2>2. Total(f, T) = 0 /\ Total(g, T) = 0 /\ Total(h, T) = 0 /\ Cardinality(T) = 0
    <3>1. IsFiniteSet(T) /\ Cardinality(T) = 0
      BY <2>1, FS_EmptySet
    <3>2. Total(f, T) = 0
      BY <2>1, <3>1, TotalPicks
    <3>3. Total(g, T) = 0
      BY <2>1, <3>1, TotalPicks
    <3>4. Total(h, T) = 0
      BY <2>1, <3>1, TotalPicks
    <3> QED
      BY <3>1, <3>2, <3>3, <3>4
  <2> QED
    BY <1>3, <2>2 DEF Multiplies
<1>6. PICK x \in T : TRUE
  BY <1>5
<1>7. PICK U \in SUBSET S : U = T \ {x} /\ U \subseteq T /\ U # T
  <2>1. T \ {x} \in SUBSET S
    BY <1>3
  <2> QED
    BY <1>6, <2>1
<1>8. ~Wrong(U)
  <2> HIDE DEF Wrong
  <2> QED
    BY <1>2, <1>7
<1>9. IsFiniteSet(T) /\ Cardinality(T) = Cardinality(U) + 1
  BY <1>3, <1>4, <1>6, <1>7, FS_RemoveElement
<1>10. Total(f, T) = f[x] + Total(f, U) /\ Total(g, T) = g[x] + Total(g, U) /\ Total(h, T) = h[x] + Total(h, U)
  <2>1. \A y \in T : f[y] \in Nat /\ g[y] \in Nat /\ h[y] \in Nat
    BY <1>3
  <2>2. Total(f, T) = f[x] + Total(f, U)
    BY <1>7, <1>9, <2>1, TotalTakes
  <2>3. Total(g, T) = g[x] + Total(g, U)
    BY <1>7, <1>9, <2>1, TotalTakes
  <2>4. Total(h, T) = h[x] + Total(h, U)
    BY <1>7, <1>9, <2>1, TotalTakes
  <2> QED
    BY <2>2, <2>3, <2>4
<1>11. f[x] \in Nat /\ g[x] \in Nat /\ h[x] \in Nat /\ h[x] = (A[f[x]] - B[g[x]]) + C[1]
  BY <1>3
<1>12. Total(h, U) = (A[Total(f, U)] - B[Total(g, U)]) + C[Cardinality(U)]
  BY <1>8
<1>13. /\ A[f[x] + Total(f, U)] = A[f[x]] + A[Total(f, U)]
       /\ B[g[x] + Total(g, U)] = B[g[x]] + B[Total(g, U)]
       /\ C[Cardinality(U) + 1] = C[Cardinality(U)] + C[1]
  <2>1. /\ f[x] \in Nat /\ g[x] \in Nat /\ 1 \in Nat
        /\ Total(f, U) \in Nat /\ Total(g, U) \in Nat /\ Cardinality(U) \in Nat
    BY <1>4, <1>7, <1>11
  <2>2. A[f[x] + Total(f, U)] = A[f[x]] + A[Total(f, U)]
    BY <2>1, Zenon DEF Multiplies
  <2>3. B[g[x] + Total(g, U)] = B[g[x]] + B[Total(g, U)]
    BY <2>1, Zenon DEF Multiplies
  <2>4. C[Cardinality(U) + 1] = C[Cardinality(U)] + C[1]
    BY <2>1, Zenon DEF Multiplies
  <2> QED
    BY <2>2, <2>3, <2>4
<1>14. /\ A[f[x]] \in Nat /\ A[Total(f, U)] \in Nat /\ B[g[x]] \in Nat /\ B[Total(g, U)] \in Nat
       /\ C[Cardinality(U)] \in Nat /\ C[1] \in Nat
  BY <1>4, <1>7, <1>11 DEF Multiplies
<1> QED
  BY <1>3, <1>9, <1>10, <1>11, <1>12, <1>13, <1>14

\* The same number of every member adds up to a product.
LEMMA TotalOfEqual ==
    ASSUME NEW S, IsFiniteSet(S), NEW h, NEW c \in Nat, \A x \in S : h[x] = c
    PROVE  Total(h, S) = c * Cardinality(S)
<1> DEFINE Zero == [u \in Nat |-> 0 * u]
           C == [u \in Nat |-> c * u]
<1>1. Multiplies(Zero) /\ Multiplies(C)
  BY TimesMultiplies
<1>2. Total(h, S) \in Nat /\ Cardinality(S) \in Nat /\ \A x \in S : h[x] \in Nat
  BY TotalIsNat, FS_CardinalityType
<1>3. C[1] = c /\ C[Cardinality(S)] = c * Cardinality(S) /\ \A u \in Nat : Zero[u] = 0
  BY <1>2
<1> HIDE DEF Zero, C
<1>4. \A x \in S : h[x] = (Zero[h[x]] - Zero[h[x]]) + C[1]
  BY <1>2, <1>3
<1>5. Total(h, S) = (Zero[Total(h, S)] - Zero[Total(h, S)]) + C[Cardinality(S)]
  BY <1>1, <1>2, <1>4, TotalCombines
<1>6. c * Cardinality(S) \in Nat
  BY <1>2
<1> QED
  BY <1>2, <1>3, <1>5, <1>6

\* The m members that are p weigh m of the squares of which the spread is made.
LEMMA SquaresWeigh ==
    ASSUME NEW S, IsFiniteSet(S), NEW f, \A x \in S : f[x] \in Nat, NEW q, \A x \in S : q[x] = f[x] * f[x],
           NEW p \in Nat, NEW n \in Nat, n = Cardinality(S), NEW s \in Nat, s = Total(f, S),
           NEW m \in Nat, m = Cardinality({x \in S : f[x] = p})
    PROVE  m * ((n * p - s) * (n * p - s)) <= n * (n * Total(q, S) - s * s)
<1> DEFINE h == [x \in S |-> (n * f[x] - s) * (n * f[x] - s)]
           T == {x \in S : f[x] = p}
           d == (n * p - s) * (n * p - s)
           Q == Total(q, S)
<1>1. ASSUME NEW z \in Int PROVE z * z \in Nat
  BY <1>1
<1>2. \A x \in S : q[x] \in Nat /\ h[x] \in Nat
  <2> TAKE x \in S
  <2>1. f[x] \in Nat /\ n * f[x] - s \in Int
    OBVIOUS
  <2> QED
    BY <1>1, <2>1
<1>3. \A x \in S : h[x] = ((n * n) * q[x] - (2 * n * s) * f[x]) + s * s
  <2>1. ASSUME NEW y \in Nat PROVE (n * y - s) * (n * y - s) = ((n * n) * (y * y) - (2 * n * s) * y) + s * s
    BY <2>1
  <2> QED
    BY <2>1
<1>4. n * n \in Nat /\ 2 * n * s \in Nat /\ s * s \in Nat /\ d \in Nat /\ Q \in Nat
  <2>1. n * p - s \in Int
    OBVIOUS
  <2>2. Q \in Nat
    BY <1>2, TotalIsNat
  <2> QED
    BY <1>1, <2>1, <2>2
<1>5. \A x \in T : h[x] = d
  OBVIOUS
<1>6. T \in SUBSET S /\ IsFiniteSet(T)
  BY FS_Subset
<1> DEFINE A == [u \in Nat |-> (n * n) * u]
           B == [u \in Nat |-> (2 * n * s) * u]
           C == [u \in Nat |-> (s * s) * u]
<1>a. Multiplies(A) /\ Multiplies(B) /\ Multiplies(C)
  BY <1>4, TimesMultiplies
<1>b. /\ \A x \in S : h[x] = (A[q[x]] - B[f[x]]) + C[1]
      /\ A[Q] = (n * n) * Q /\ B[s] = (2 * n * s) * s /\ C[n] = (s * s) * n
  <2>1. C[1] = s * s
    OBVIOUS
  <2> QED
    BY <1>2, <1>3, <1>4, <2>1
<1> HIDE DEF h, T, d, Q, A, B, C
<1>7. Total(h, S) = ((n * n) * Q - (2 * n * s) * s) + (s * s) * n
  <2>1. Total(h, S) = (A[Total(q, S)] - B[Total(f, S)]) + C[Cardinality(S)]
    <3>1. \A x \in S : q[x] \in Nat /\ f[x] \in Nat /\ h[x] \in Nat
      BY <1>2
    <3>2. \A x \in S : h[x] = (A[q[x]] - B[f[x]]) + C[1]
      BY <1>b
    <3> QED
      BY <1>a, <3>1, <3>2, TotalCombines
  <2> QED
    BY <1>b, <2>1 DEF Q
<1>8. Total(h, T) = d * m
  BY <1>4, <1>5, <1>6, TotalOfEqual DEF T
<1>9. Total(h, T) <= Total(h, S)
  BY <1>2, <1>6, TotalOfPart
<1>10. ((n * n) * Q - (2 * n * s) * s) + (s * s) * n = n * (n * Q - s * s)
  BY <1>4
<1> QED
  BY <1>4, <1>7, <1>8, <1>9, <1>10 DEF d, Q
================================================================================
