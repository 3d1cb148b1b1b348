------------------------------- MODULE Lemmas --------------------------------
(***************************************************************************)
(* Lemmas that several proof modules share: sums over finite sets          *)
(* (SumFunction of the community modules), for the modules that keep       *)
(* totals, and the calendar of BillingDates.  The library's induction      *)
(* theorems take a predicate as a parameter; here the elements that have a *)
(* property are gathered in a set instead.                                 *)
(***************************************************************************)
EXTENDS BillingDates, FiniteSets, FiniteSetsExt, TLAPS, FiniteSetTheorems, FunctionTheorems,
        WellFoundedInduction

LEMMA LeastElement ==
  ASSUME NEW T \in SUBSET Nat, T # {}
  PROVE  \E n \in T : \A m \in T : n <= m
  <1> DEFINE R == {p \in Nat \X Nat : p[1] < p[2]}
  <1>1. IsWellFoundedOn(R, Nat)
    BY NatLessThanWellFounded DEF OpToRel
  <1>2. PICK n \in T : \A m \in T : <<m, n>> \notin R
    <2> HIDE DEF R
    <2> QED BY <1>1, WFMin
  <1>3. \A m \in T : ~(m < n)
    BY <1>2
  <1> QED BY <1>3

\* A set of numbers with 0 and the successor of each of its elements has them all.
LEMMA SetOfNaturals ==
  ASSUME NEW N, 0 \in N, \A n \in Nat : n \in N => n + 1 \in N
  PROVE  Nat \subseteq N
  <1> SUFFICES ASSUME NEW k \in Nat, k \notin N PROVE FALSE
    OBVIOUS
  <1>1. PICK n \in Nat \ N : \A m \in Nat \ N : n <= m
    <2>1. Nat \ N \in SUBSET Nat /\ Nat \ N # {}
      OBVIOUS
    <2> QED BY <2>1, LeastElement
  <1>2. n # 0 /\ n - 1 \in Nat /\ ~(n <= n - 1)
    BY <1>1
  <1>3. n - 1 \in N
    BY <1>1, <1>2
  <1> QED BY <1>1, <1>2, <1>3

\* A set of subsets of S that has every subset whose strict subsets it has, has them all.
LEMMA SetOfSubsets ==
  ASSUME NEW S, IsFiniteSet(S), NEW F,
         \A s \in SUBSET S : (\A t \in SUBSET s : t # s => t \in F) => s \in F
  PROVE  SUBSET S \subseteq F
  <1> DEFINE N == {n \in Nat : \A s \in SUBSET S : Cardinality(s) <= n => s \in F}
  <1>1. \A s \in SUBSET S : IsFiniteSet(s) /\ Cardinality(s) \in Nat
    BY FS_Subset, FS_CardinalityType
  <1>2. ASSUME NEW s \in SUBSET S, NEW t \in SUBSET s, t # s
        PROVE  t \in SUBSET S /\ Cardinality(t) < Cardinality(s)
    <2>1. t \in SUBSET S
      OBVIOUS
    <2>2. Cardinality(t) <= Cardinality(s) /\ Cardinality(t) # Cardinality(s)
      BY <1>1, <1>2, FS_Subset
    <2> QED BY <1>1, <2>1, <2>2
  <1>3. 0 \in N
    <2> SUFFICES ASSUME NEW s \in SUBSET S, Cardinality(s) <= 0 PROVE s \in F
      OBVIOUS
    <2>1. ASSUME NEW t \in SUBSET s, t # s PROVE FALSE
      BY <1>1, <1>2, <2>1
    <2> QED BY <2>1
  <1>4. ASSUME NEW n \in Nat, n \in N PROVE n + 1 \in N
    <2> SUFFICES ASSUME NEW s \in SUBSET S, Cardinality(s) <= n + 1 PROVE s \in F
      OBVIOUS
    <2>1. ASSUME NEW t \in SUBSET s, t # s PROVE t \in F
      <3>1. t \in SUBSET S /\ Cardinality(t) <= n
        BY <1>1, <1>2, <2>1
      <3> QED BY <1>4, <3>1
    <2> QED BY <2>1
  <1>5. Nat \subseteq N
    <2> HIDE DEF N
    <2> QED BY <1>3, <1>4, SetOfNaturals
  <1> QED BY <1>1, <1>5

-----------------------------------------------------------------------------
(* The recursion of MapThenFoldSet.                                        *)

Pick(s) == CHOOSE x \in s : TRUE

\* h[s] is the sum of f over s, for the subsets s of S.
Adds(h, f, S) ==
    h = [s \in SUBSET S |-> IF s = {} THEN 0 ELSE f[Pick(s)] + h[s \ {Pick(s)}]]

LEMMA Picked == \A s : s # {} => Pick(s) \in s
  BY DEF Pick

LEMMA FiniteSubsets ==
  ASSUME NEW S, IsFiniteSet(S), NEW s \in SUBSET S
  PROVE  /\ IsFiniteSet(s) /\ Cardinality(s) \in Nat
         /\ \A x \in s : s \ {x} \in SUBSET S /\ Cardinality(s \ {x}) = Cardinality(s) - 1
         /\ s # {} => Cardinality(s) # 0
  <1>1. IsFiniteSet(s) /\ Cardinality(s) \in Nat
    BY FS_Subset, FS_CardinalityType
  <1>2. \A x \in s : s \ {x} \in SUBSET S
    OBVIOUS
  <1>3. \A x \in s : Cardinality(s \ {x}) = Cardinality(s) - 1
    BY <1>1, FS_RemoveElement
  <1>4. s # {} => Cardinality(s) # 0
    BY <1>1, FS_EmptySet
  <1> QED BY <1>1, <1>2, <1>3, <1>4

LEMMA SumsExist ==
  ASSUME NEW f, NEW S, IsFiniteSet(S)
  PROVE  \E h : Adds(h, f, S)
  <1> DEFINE Rhs(h, s) == IF s = {} THEN 0 ELSE f[Pick(s)] + h[s \ {Pick(s)}]
             Upto(h, n) == \A s \in SUBSET S : Cardinality(s) <= n => h[s] = Rhs(h, s)
             N == {n \in Nat : \E h : Upto(h, n)}
  <1>1. 0 \in N
    <2>1. Upto([s \in SUBSET S |-> 0], 0)
      BY FiniteSubsets
    <2> QED BY <2>1
  <1>2. ASSUME NEW n \in Nat, n \in N PROVE n + 1 \in N
    <2>1. PICK h : Upto(h, n)
      BY <1>2
    <2> DEFINE g == [s \in SUBSET S |-> IF Cardinality(s) <= n THEN h[s] ELSE Rhs(h, s)]
    <2>2. ASSUME NEW s \in SUBSET S, Cardinality(s) <= n + 1 PROVE g[s] = Rhs(g, s)
      <3>1. g[s] = Rhs(h, s)
        BY <2>1
      <3>2. ASSUME s # {} PROVE g[s \ {Pick(s)}] = h[s \ {Pick(s)}]
        <4>1. Pick(s) \in s
          BY <3>2, Picked
        <4>2. s \ {Pick(s)} \in SUBSET S /\ Cardinality(s \ {Pick(s)}) <= n
          BY <2>2, <4>1, FiniteSubsets
        <4> QED BY <4>2
      <3> QED BY <3>1, <3>2
    <2> HIDE DEF g
    <2>3. Upto(g, n + 1)
      BY <2>2
    <2> HIDE DEF Upto
    <2> QED BY <2>3
  <1>3. Cardinality(S) \in N
    <2> HIDE DEF N
    <2>1. Nat \subseteq N
      BY <1>1, <1>2, SetOfNaturals
    <2> QED BY <2>1, FS_CardinalityType
  <1>4. PICK h : Upto(h, Cardinality(S))
    BY <1>3
  <1>5. \A s \in SUBSET S : h[s] = Rhs(h, s)
    BY <1>4, FS_Subset
  <1> DEFINE g == [s \in SUBSET S |-> h[s]]
  <1>6. \A s \in SUBSET S : g[s] = Rhs(g, s)
    BY <1>5
  <1>7. g = [s \in SUBSET S |-> Rhs(g, s)]
    BY <1>6
  <1> QED BY <1>7 DEF Adds

LEMMA SumAdds ==
  ASSUME NEW f, NEW S, IsFiniteSet(S)
  PROVE  \E h : Adds(h, f, S) /\ SumFunctionOnSet(f, S) = h[S]
  <1> DEFINE h == CHOOSE h : Adds(h, f, S)
  <1>1. Adds(h, f, S)
    BY SumsExist
  <1>2. SumFunctionOnSet(f, S) = h[S]
    BY DEF Adds, Pick, SumFunctionOnSet, FoldFunctionOnSet, MapThenFoldSet
  <1> QED BY <1>1, <1>2

\* Whatever element is picked.
LEMMA AddsAny ==
  ASSUME NEW S, IsFiniteSet(S), NEW f \in [S -> Int], NEW h, Adds(h, f, S)
  PROVE  \A s \in SUBSET S : h[s] \in Int /\ \A x \in s : h[s] = f[x] + h[s \ {x}]
  <1> DEFINE F == {s \in SUBSET S : h[s] \in Int /\ \A x \in s : h[s] = f[x] + h[s \ {x}]}
  <1>1. \A s \in SUBSET S : h[s] = IF s = {} THEN 0 ELSE f[Pick(s)] + h[s \ {Pick(s)}]
    BY DEF Adds
  <1>2. ASSUME NEW s \in SUBSET S, \A t \in SUBSET s : t # s => t \in F
        PROVE  s \in F
    <2>1. CASE s = {}
      <3>1. h[s] = 0
        BY <1>1, <2>1
      <3> QED BY <2>1, <3>1
    <2>2. CASE s # {}
      <3> DEFINE p == Pick(s)
      <3>1. p \in s
        BY <2>2, Picked
      <3> HIDE DEF p
      <3>2. h[s] = f[p] + h[s \ {p}]
        BY <1>1, <2>2 DEF p
      <3>3. \A x \in s : s \ {x} \in F /\ f[x] \in Int
        BY <1>2
      <3>4. h[s] \in Int
        <4>1. f[p] \in Int /\ h[s \ {p}] \in Int
          BY <3>1, <3>3
        <4> QED BY <3>2, <4>1
      <3>5. ASSUME NEW x \in s PROVE h[s] = f[x] + h[s \ {x}]
        <4>1. CASE x = p
          BY <3>2, <4>1
        <4>2. CASE x # p
          <5> DEFINE t == (s \ {p}) \ {x}
          <5>1. t = (s \ {x}) \ {p}
            OBVIOUS
          <5>2. h[s \ {p}] = f[x] + h[t]
            BY <3>1, <3>3, <4>2
          <5>3. h[s \ {x}] = f[p] + h[t]
            BY <3>1, <3>3, <4>2, <5>1
          <5>4. h[t] \in Int
            <6>1. t \in F
              BY <1>2, <3>1
            <6> QED BY <6>1
          <5> HIDE DEF t
          <5> QED BY <3>1, <3>2, <3>3, <5>2, <5>3, <5>4
        <4> QED BY <4>1, <4>2
      <3> QED BY <3>4, <3>5
    <2> QED BY <2>1, <2>2
  <1>3. SUBSET S \subseteq F
    <2> HIDE DEF F
    <2> QED BY <1>2, SetOfSubsets
  <1> QED BY <1>3

\* Only the values on S count.
LEMMA AddsSame ==
  ASSUME NEW S, IsFiniteSet(S), NEW T, IsFiniteSet(T), NEW f, NEW g, NEW h, NEW k,
         Adds(h, f, S), Adds(k, g, T), S \subseteq T, \A x \in S : f[x] = g[x]
  PROVE  \A s \in SUBSET S : h[s] = k[s]
  <1> DEFINE F == {s \in SUBSET S : h[s] = k[s]}
  <1>1. ASSUME NEW s \in SUBSET S, \A t \in SUBSET s : t # s => t \in F
        PROVE  s \in F
    <2>1. /\ h[s] = IF s = {} THEN 0 ELSE f[Pick(s)] + h[s \ {Pick(s)}]
          /\ k[s] = IF s = {} THEN 0 ELSE g[Pick(s)] + k[s \ {Pick(s)}]
      BY DEF Adds
    <2>2. CASE s = {}
      BY <2>1, <2>2
    <2>3. CASE s # {}
      <3>1. Pick(s) \in s
        BY <2>3, Picked
      <3>2. s \ {Pick(s)} \in F /\ f[Pick(s)] = g[Pick(s)]
        BY <1>1, <3>1
      <3> QED BY <2>1, <2>3, <3>2
    <2> QED BY <2>2, <2>3
  <1>2. SUBSET S \subseteq F
    <2> HIDE DEF F
    <2> QED BY <1>1, SetOfSubsets
  <1> QED BY <1>2

-----------------------------------------------------------------------------
(* Sums.                                                                   *)

\* Only the values of the elements count.
LEMMA SumSame ==
  ASSUME NEW S, IsFiniteSet(S), NEW f, NEW g, \A x \in S : f[x] = g[x]
  PROVE  SumFunctionOnSet(f, S) = SumFunctionOnSet(g, S)
  <1>1. PICK h : Adds(h, f, S) /\ SumFunctionOnSet(f, S) = h[S]
    BY SumAdds
  <1>2. PICK k : Adds(k, g, S) /\ SumFunctionOnSet(g, S) = k[S]
    BY SumAdds
  <1> QED BY <1>1, <1>2, AddsSame

\* A sum of integers, element by element.
LEMMA SumByElement ==
  ASSUME NEW S, IsFiniteSet(S), NEW f, \A x \in S : f[x] \in Int
  PROVE  /\ SumFunctionOnSet(f, S) \in Int
         /\ S = {} => SumFunctionOnSet(f, S) = 0
         /\ \A x \in S : SumFunctionOnSet(f, S) = f[x] + SumFunctionOnSet(f, S \ {x})
  <1> DEFINE g == [x \in S |-> f[x]]
  <1>0. g \in [S -> Int] /\ \A x \in S : f[x] = g[x]
    OBVIOUS
  <1> HIDE DEF g
  <1>1. PICK h : Adds(h, f, S) /\ SumFunctionOnSet(f, S) = h[S]
    BY SumAdds
  <1>2. PICK k : Adds(k, g, S)
    BY SumsExist
  <1>3. \A s \in SUBSET S : h[s] = k[s]
    BY <1>0, <1>1, <1>2, AddsSame
  <1>4. \A s \in SUBSET S : k[s] \in Int /\ \A x \in s : k[s] = g[x] + k[s \ {x}]
    BY <1>0, <1>2, AddsAny
  <1>5. S = {} => h[S] = 0
    BY <1>1 DEF Adds
  <1>6. ASSUME NEW x \in S PROVE SumFunctionOnSet(f, S) = f[x] + SumFunctionOnSet(f, S \ {x})
    <2>1. IsFiniteSet(S \ {x})
      BY FS_RemoveElement
    <2>2. PICK j : Adds(j, f, S \ {x}) /\ SumFunctionOnSet(f, S \ {x}) = j[S \ {x}]
      BY <2>1, SumAdds
    <2>3. j[S \ {x}] = h[S \ {x}]
      BY <1>1, <2>1, <2>2, AddsSame
    <2>4. h[S] = k[S] /\ h[S \ {x}] = k[S \ {x}]
      BY <1>3
    <2>5. k[S] = g[x] + k[S \ {x}]
      BY <1>4
    <2>6. g[x] = f[x]
      BY <1>0
    <2> QED BY ONLY <1>1, <2>2, <2>3, <2>4, <2>5, <2>6
  <1> QED BY <1>1, <1>3, <1>4, <1>5, <1>6

\* The sum of the values of a function.
LEMMA SumOfFunction ==
  ASSUME NEW S, IsFiniteSet(S), NEW f, DOMAIN f = S, \A x \in S : f[x] \in Int
  PROVE  /\ SumFunction(f) = SumFunctionOnSet(f, S)
         /\ SumFunction(f) \in Int
         /\ S = {} => SumFunction(f) = 0
  <1>1. SumFunction(f) = SumFunctionOnSet(f, S)
    BY DEF SumFunction
  <1> QED BY <1>1, SumByElement

LEMMA SumOfOneMore ==
  ASSUME NEW S, IsFiniteSet(S), NEW x, x \notin S,
         NEW f, DOMAIN f = S \cup {x}, NEW g, DOMAIN g = S,
         f[x] \in Int, \A y \in S : g[y] \in Int /\ f[y] = g[y]
  PROVE  SumFunction(f) = SumFunction(g) + f[x]
  <1> DEFINE T == S \cup {x}
  <1>1. IsFiniteSet(T) /\ T \ {x} = S /\ \A y \in T : f[y] \in Int
    BY FS_AddElement
  <1>2. SumFunction(f) = f[x] + SumFunctionOnSet(f, S)
    <2>1. SumFunctionOnSet(f, T) = f[x] + SumFunctionOnSet(f, T \ {x})
      <3> HIDE DEF T
      <3>1. x \in T
        BY DEF T
      <3> QED BY <1>1, <3>1, SumByElement
    <2> QED BY <1>1, <2>1 DEF SumFunction
  <1>3. SumFunctionOnSet(f, S) = SumFunctionOnSet(g, S)
    BY SumSame
  <1>4. SumFunctionOnSet(g, S) \in Int /\ SumFunction(g) = SumFunctionOnSet(g, S)
    BY SumOfFunction
  <1> QED BY <1>2, <1>3, <1>4

LEMMA SumOfOneChanged ==
  ASSUME NEW S, IsFiniteSet(S), NEW x \in S,
         NEW f, DOMAIN f = S, NEW g, DOMAIN g = S,
         f[x] \in Int, g[x] \in Int, \A y \in S : y # x => g[y] \in Int /\ f[y] = g[y]
  PROVE  SumFunction(f) = SumFunction(g) + (f[x] - g[x])
  <1> DEFINE T == S \ {x}
             h == [y \in T |-> g[y]]
  <1>1. IsFiniteSet(T) /\ x \notin T /\ T \cup {x} = S /\ DOMAIN h = T
    BY FS_RemoveElement
  <1>2. \A y \in T : h[y] \in Int /\ f[y] = h[y] /\ g[y] = h[y]
    OBVIOUS
  <1> HIDE DEF T, h
  <1>3. SumFunction(f) = SumFunction(h) + f[x]
    BY <1>1, <1>2, SumOfOneMore
  <1>4. SumFunction(g) = SumFunction(h) + g[x]
    BY <1>1, <1>2, SumOfOneMore
  <1>5. SumFunction(h) \in Int
    BY <1>1, <1>2, SumOfFunction
  <1> QED BY <1>3, <1>4, <1>5

\* Sums over two sets without a common element.
LEMMA SumOfUnion ==
  ASSUME NEW A, IsFiniteSet(A), NEW C, IsFiniteSet(C), A \cap C = {},
         NEW f, \A x \in A \cup C : f[x] \in Int
  PROVE  SumFunctionOnSet(f, A \cup C) = SumFunctionOnSet(f, A) + SumFunctionOnSet(f, C)
  <1> DEFINE F == {s \in SUBSET A : SumFunctionOnSet(f, s \cup C)
                                      = SumFunctionOnSet(f, s) + SumFunctionOnSet(f, C)}
  <1>1. ASSUME NEW s \in SUBSET A, \A t \in SUBSET s : t # s => t \in F
        PROVE  s \in F
    <2>1. IsFiniteSet(s) /\ IsFiniteSet(s \cup C)
      BY FS_Subset, FS_Union
    <2>2. /\ SumFunctionOnSet(f, s) \in Int /\ SumFunctionOnSet(f, C) \in Int
          /\ s = {} => SumFunctionOnSet(f, s) = 0
          /\ \A x \in s : SumFunctionOnSet(f, s) = f[x] + SumFunctionOnSet(f, s \ {x})
      BY <2>1, SumByElement
    <2>3. CASE s = {}
      <3>1. s \cup C = C
        BY <2>3
      <3>2. SumFunctionOnSet(f, s \cup C) = SumFunctionOnSet(f, s) + SumFunctionOnSet(f, C)
        BY <2>2, <2>3, <3>1
      <3> QED BY <3>2
    <2>4. CASE s # {}
      <3>1. PICK x \in s : TRUE
        BY <2>4
      <3> DEFINE t == s \ {x}
      <3>2. t \in F
        BY <1>1
      <3>3. SumFunctionOnSet(f, t \cup C) = SumFunctionOnSet(f, t) + SumFunctionOnSet(f, C)
        BY <3>2
      <3>4. (s \cup C) \ {x} = t \cup C
        OBVIOUS
      <3>5. SumFunctionOnSet(f, s \cup C) = f[x] + SumFunctionOnSet(f, (s \cup C) \ {x})
        <4>1. \A y \in s \cup C : f[y] \in Int
          OBVIOUS
        <4>2. x \in s \cup C
          OBVIOUS
        <4> QED BY <2>1, <4>1, <4>2, SumByElement
      <3>6. IsFiniteSet(t) /\ \A y \in t : f[y] \in Int
        BY <2>1, FS_RemoveElement
      <3>7. SumFunctionOnSet(f, t) \in Int /\ f[x] \in Int
        BY <3>6, SumByElement
      <3>8. SumFunctionOnSet(f, s) = f[x] + SumFunctionOnSet(f, t)
        BY <2>2
      <3> HIDE DEF t
      <3>9. SumFunctionOnSet(f, s \cup C) = SumFunctionOnSet(f, s) + SumFunctionOnSet(f, C)
        <4>1. SumFunctionOnSet(f, C) \in Int
          BY <2>2
        <4> DEFINE a == SumFunctionOnSet(f, t)   b == SumFunctionOnSet(f, C)
                   c == SumFunctionOnSet(f, s)   e == SumFunctionOnSet(f, s \cup C)
        <4>2. e = f[x] + (a + b)
          BY <3>3, <3>4, <3>5
        <4>3. c = f[x] + a /\ a \in Int /\ f[x] \in Int /\ b \in Int
          BY <3>7, <3>8, <4>1
        <4> HIDE DEF a, b, c, e
        <4>4. e = c + b
          BY ONLY <4>2, <4>3
        <4> QED BY <4>4 DEF b, c, e
      <3> QED BY <3>9
    <2> QED BY <2>3, <2>4
  <1>2. SUBSET A \subseteq F
    <2> HIDE DEF F
    <2> QED BY <1>1, SetOfSubsets
  <1> QED BY <1>2

LEMMA SumIsNatural ==
  ASSUME NEW S, IsFiniteSet(S), NEW f, \A x \in S : f[x] \in Nat
  PROVE  SumFunctionOnSet(f, S) \in Nat
  <1> DEFINE F == {s \in SUBSET S : SumFunctionOnSet(f, s) \in Nat}
  <1>1. ASSUME NEW s \in SUBSET S, \A t \in SUBSET s : t # s => t \in F
        PROVE  s \in F
    <2>1. IsFiniteSet(s) /\ \A x \in s : f[x] \in Int
      BY FS_Subset
    <2>2. /\ s = {} => SumFunctionOnSet(f, s) = 0
          /\ \A x \in s : SumFunctionOnSet(f, s) = f[x] + SumFunctionOnSet(f, s \ {x})
      BY <2>1, SumByElement
    <2>3. CASE s = {}
      BY <2>2, <2>3
    <2>4. CASE s # {}
      <3>1. PICK x \in s : TRUE
        BY <2>4
      <3>2. s \ {x} \in F
        BY <1>1
      <3>3. SumFunctionOnSet(f, s \ {x}) \in Nat /\ f[x] \in Nat
        BY <3>2
      <3> QED BY <2>2, <3>3
    <2> QED BY <2>3, <2>4
  <1>2. SUBSET S \subseteq F
    <2> HIDE DEF F
    <2> QED BY <1>1, SetOfSubsets
  <1> QED BY <1>2

\* What holds of each element holds of the sums.
LEMMA SumCompare ==
  ASSUME NEW S, IsFiniteSet(S), NEW p, NEW u, NEW d,
         \A x \in S : p[x] \in Int /\ u[x] \in Int /\ d[x] \in Int /\ p[x] >= u[x] - d[x]
  PROVE  SumFunctionOnSet(p, S) >= SumFunctionOnSet(u, S) - SumFunctionOnSet(d, S)
  <1> DEFINE F == {s \in SUBSET S : SumFunctionOnSet(p, s)
                                      >= SumFunctionOnSet(u, s) - SumFunctionOnSet(d, s)}
  <1>1. ASSUME NEW s \in SUBSET S, \A t \in SUBSET s : t # s => t \in F
        PROVE  s \in F
    <2>1. IsFiniteSet(s)
      BY FS_Subset
    <2>2. ASSUME NEW f, \A x \in s : f[x] \in Int
          PROVE  /\ s = {} => SumFunctionOnSet(f, s) = 0
                 /\ \A x \in s : /\ SumFunctionOnSet(f, s) = f[x] + SumFunctionOnSet(f, s \ {x})
                                 /\ f[x] \in Int /\ SumFunctionOnSet(f, s \ {x}) \in Int
      <3>1. \A x \in s : IsFiniteSet(s \ {x})
        BY <2>1, FS_RemoveElement
      <3>2. \A x \in s : SumFunctionOnSet(f, s \ {x}) \in Int
        BY <2>2, <3>1, SumByElement
      <3> QED BY <2>1, <2>2, <3>2, SumByElement
    <2>3. CASE s = {}
      <3>1. SumFunctionOnSet(p, s) = 0 /\ SumFunctionOnSet(u, s) = 0 /\ SumFunctionOnSet(d, s) = 0
        BY <2>2, <2>3
      <3> QED BY <3>1
    <2>4. CASE s # {}
      <3>1. PICK x \in s : TRUE
        BY <2>4
      <3> DEFINE t == s \ {x}
      <3>2. SumFunctionOnSet(p, t) >= SumFunctionOnSet(u, t) - SumFunctionOnSet(d, t)
        <4>1. t \in F
          BY <1>1
        <4> QED BY <4>1
      <3>3. SumFunctionOnSet(p, s) = p[x] + SumFunctionOnSet(p, t) /\ SumFunctionOnSet(p, t) \in Int
        BY <2>2
      <3>4. SumFunctionOnSet(u, s) = u[x] + SumFunctionOnSet(u, t) /\ SumFunctionOnSet(u, t) \in Int
        BY <2>2
      <3>5. SumFunctionOnSet(d, s) = d[x] + SumFunctionOnSet(d, t) /\ SumFunctionOnSet(d, t) \in Int
        BY <2>2
      <3>6. p[x] \in Int /\ u[x] \in Int /\ d[x] \in Int /\ p[x] >= u[x] - d[x]
        OBVIOUS
      <3> HIDE DEF t
      <3>7. SumFunctionOnSet(p, s) >= SumFunctionOnSet(u, s) - SumFunctionOnSet(d, s)
        BY ONLY <3>2, <3>3, <3>4, <3>5, <3>6
      <3> QED BY <3>7
    <2> QED BY <2>3, <2>4
  <1>2. SUBSET S \subseteq F
    <2> HIDE DEF F
    <2> QED BY <1>1, SetOfSubsets
  <1> QED BY <1>2

\* A sum taken part by part.
LEMMA SumOfParts ==
  ASSUME NEW B, IsFiniteSet(B), NEW S, IsFiniteSet(S), NEW P \in [B -> SUBSET S],
         \A b \in B, c \in B : b # c => P[b] \cap P[c] = {},
         NEW f, \A x \in S : f[x] \in Int
  PROVE  SumFunctionOnSet([b \in B |-> SumFunctionOnSet(f, P[b])], B)
           = SumFunctionOnSet(f, UNION {P[b] : b \in B})
  <1> DEFINE g == [b \in B |-> SumFunctionOnSet(f, P[b])]
             All(s) == UNION {P[b] : b \in s}
             F == {s \in SUBSET B : SumFunctionOnSet(g, s) = SumFunctionOnSet(f, All(s))}
  <1>1. ASSUME NEW b \in B PROVE g[b] = SumFunctionOnSet(f, P[b]) /\ g[b] \in Int
    <2>1. IsFiniteSet(P[b]) /\ \A x \in P[b] : f[x] \in Int
      BY FS_Subset
    <2> QED BY <2>1, SumByElement
  <1> HIDE DEF g
  <1>2. ASSUME NEW s \in SUBSET B, \A t \in SUBSET s : t # s => t \in F
        PROVE  s \in F
    <2>1. IsFiniteSet(s) /\ \A b \in s : g[b] \in Int
      BY <1>1, FS_Subset
    <2>2. /\ s = {} => SumFunctionOnSet(g, s) = 0
          /\ \A b \in s : SumFunctionOnSet(g, s) = g[b] + SumFunctionOnSet(g, s \ {b})
      BY <2>1, SumByElement
    <2>3. CASE s = {}
      <3>1. All(s) = {}
        BY <2>3
      <3>2. SumFunctionOnSet(f, {}) = 0
        BY FS_EmptySet, SumByElement
      <3> QED BY <2>2, <2>3, <3>1, <3>2
    <2>4. CASE s # {}
      <3>1. PICK b \in s : TRUE
        BY <2>4
      <3> DEFINE t == s \ {b}
      <3>2. t \in SUBSET s /\ t # s /\ b \in B /\ t \in SUBSET B
        OBVIOUS
      <3>3. SumFunctionOnSet(g, t) = SumFunctionOnSet(f, All(t))
        BY <1>2, <3>2
      <3>4. All(s) = P[b] \cup All(t)
        OBVIOUS
      <3>5. P[b] \cap All(t) = {}
        OBVIOUS
      <3>6. P[b] \in SUBSET S /\ All(t) \in SUBSET S
        OBVIOUS
      <3>7. SumFunctionOnSet(g, s) = g[b] + SumFunctionOnSet(g, t)
        BY <2>2
      <3> HIDE DEF t, All
      <3>8. IsFiniteSet(P[b]) /\ IsFiniteSet(All(t)) /\ \A x \in P[b] \cup All(t) : f[x] \in Int
        BY <3>6, FS_Subset
      <3>9. SumFunctionOnSet(f, P[b] \cup All(t)) = SumFunctionOnSet(f, P[b]) + SumFunctionOnSet(f, All(t))
        BY <3>5, <3>8, SumOfUnion
      <3>10. g[b] = SumFunctionOnSet(f, P[b])
        BY <1>1, <3>2
      <3>11. SumFunctionOnSet(g, s) = SumFunctionOnSet(f, All(s))
        BY ONLY <3>3, <3>4, <3>7, <3>9, <3>10
      <3> QED BY <3>11
    <2> QED BY <2>3, <2>4
  <1>3. SUBSET B \subseteq F
    <2> HIDE DEF F
    <2> QED BY <1>2, SetOfSubsets
  <1>4. B \in F
    BY <1>3
  <1> QED BY <1>4 DEF g

\* A sum taken by the values of a key.
LEMMA SumByKey ==
  ASSUME NEW S, IsFiniteSet(S), NEW f, \A x \in S : f[x] \in Int,
         NEW D, IsFiniteSet(D), NEW key, \A x \in S : key[x] \in D
  PROVE  SumFunctionOnSet([v \in D |-> SumFunctionOnSet(f, {x \in S : key[x] = v})], D)
           = SumFunctionOnSet(f, S)
  <1> DEFINE P == [v \in D |-> {x \in S : key[x] = v}]
             g == [v \in D |-> SumFunctionOnSet(f, P[v])]
  <1>1. P \in [D -> SUBSET S] /\ \A v \in D, w \in D : v # w => P[v] \cap P[w] = {}
    OBVIOUS
  <1>2. UNION {P[v] : v \in D} = S
    OBVIOUS
  <1>3. \A v \in D : P[v] = {x \in S : key[x] = v}
    OBVIOUS
  <1>4. g = [v \in D |-> SumFunctionOnSet(f, {x \in S : key[x] = v})]
    <2> HIDE DEF P
    <2> QED BY <1>3
  <1> HIDE DEF P
  <1>5. SumFunctionOnSet(g, D) = SumFunctionOnSet(f, UNION {P[v] : v \in D})
    BY <1>1, SumOfParts
  <1> QED BY <1>2, <1>4, <1>5

LEMMA FiniteImage ==
  ASSUME NEW S, IsFiniteSet(S), NEW f
  PROVE  IsFiniteSet({f[x] : x \in S})
  <1> DEFINE T == {f[x] : x \in S}
             g == [x \in S |-> f[x]]
  <1>1. g \in [S -> T] /\ \A t \in T : \E x \in S : g[x] = t
    OBVIOUS
  <1> HIDE DEF T, g
  <1>2. g \in Surjection(S, T)
    BY <1>1, Fun_IsSurj
  <1>3. IsFiniteSet(T)
    BY <1>2, FS_Surjection
  <1> QED BY <1>3 DEF T

-----------------------------------------------------------------------------
(* The calendar.                                                           *)

LEMMA LastDays ==
  ASSUME NEW y \in Nat, NEW m \in 1 .. 12
  PROVE  LastDay(y, m) \in 28 .. 31
  BY DEF LastDay

LEMMA MonthStarts == DaysBeforeMonth \in [1 .. 12 -> 0 .. 334]
  BY DEF DaysBeforeMonth

LEMMA DateFields ==
  ASSUME NEW d \in Date
  PROVE  d.year \in Nat /\ d.year >= 1 /\ d.month \in 1 .. 12 /\ d.day \in 1 .. 31
  BY DEF Date

LEMMA DateShape ==
  ASSUME NEW d \in Date
  PROVE  d = [year |-> d.year, month |-> d.month, day |-> d.day]
  BY DEF Date

LEMMA MadeDate ==
  ASSUME NEW y \in Nat, y >= 1, NEW m \in 1 .. 12, NEW x \in 1 .. 31
  PROVE  [year |-> y, month |-> m, day |-> x] \in Date
  BY DEF Date

LEMMA Redated ==
  ASSUME NEW d \in Date, NEW m, NEW x
  PROVE  [d EXCEPT !.month = m, !.day = x] = [year |-> d.year, month |-> m, day |-> x]
  <1> DEFINE e == [d EXCEPT !.month = m, !.day = x]
             f == [year |-> d.year, month |-> m, day |-> x]
  <1>1. DOMAIN d = {"year", "month", "day"}
    BY DEF Date
  <1>2. e = [i \in DOMAIN d |-> IF i = "day" THEN x ELSE IF i = "month" THEN m ELSE d[i]]
    OBVIOUS
  <1>3. f = [i \in {"year", "month", "day"} |->
               IF i = "year" THEN d.year ELSE IF i = "month" THEN m ELSE x]
    OBVIOUS
  <1> QED BY <1>1, <1>2, <1>3

LEMMA OtherDay ==
  ASSUME NEW d \in Date, NEW x
  PROVE  [d EXCEPT !.day = x] = [year |-> d.year, month |-> d.month, day |-> x]
  <1>1. DOMAIN d = {"year", "month", "day"}
    BY DEF Date
  <1>2. [d EXCEPT !.day = x] = [i \in DOMAIN d |-> IF i = "day" THEN x ELSE d[i]]
    OBVIOUS
  <1>3. [year |-> d.year, month |-> d.month, day |-> x]
          = [i \in {"year", "month", "day"} |->
                IF i = "year" THEN d.year ELSE IF i = "month" THEN d.month ELSE x]
    OBVIOUS
  <1> QED BY <1>1, <1>2, <1>3

LEMMA NextMonthIsDate ==
  ASSUME NEW d \in Date
  PROVE  /\ NextMonth(d) \in Date
         /\ NextMonth(d) = [year |-> IF d.month = 12 THEN d.year + 1 ELSE d.year,
                            month |-> IF d.month = 12 THEN 1 ELSE d.month + 1,
                            day |-> 1]
  <1>1. CASE d.month = 12
    BY <1>1, DateFields DEF NextMonth, Date
  <1>2. CASE d.month # 12
    <2>1. NextMonth(d) = [d EXCEPT !.month = d.month + 1, !.day = 1]
      BY <1>2 DEF NextMonth
    <2>2. NextMonth(d) = [year |-> d.year, month |-> d.month + 1, day |-> 1]
      BY <2>1, Redated
    <2>3. [year |-> d.year, month |-> d.month + 1, day |-> 1] \in Date
      <3>1. d.year \in Nat /\ d.year >= 1 /\ d.month + 1 \in 1 .. 12 /\ 1 \in 1 .. 31
        BY <1>2, DateFields
      <3> QED BY <3>1, MadeDate
    <2> QED BY <1>2, <2>2, <2>3
  <1> QED BY <1>1, <1>2

LEMMA PlusFields ==
  ASSUME NEW d \in Date, NEW k \in 0 .. 28
  PROVE  Plus(d, k) =
           IF d.day + k <= LastDay(d.year, d.month)
           THEN [year |-> d.year, month |-> d.month, day |-> d.day + k]
           ELSE [year |-> NextMonth(d).year, month |-> NextMonth(d).month,
                 day |-> d.day + k - LastDay(d.year, d.month)]
  <1>1. CASE d.day + k <= LastDay(d.year, d.month)
    <2>1. Plus(d, k) = [d EXCEPT !.day = d.day + k]
      BY <1>1 DEF Plus
    <2> QED BY <1>1, <2>1, DateShape
  <1>2. CASE ~(d.day + k <= LastDay(d.year, d.month))
    <2> DEFINE x == d.day + k - LastDay(d.year, d.month)
               e == NextMonth(d)
    <2>1. Plus(d, k) = [e EXCEPT !.day = x]
      BY <1>2 DEF Plus
    <2>2. e = [year |-> e.year, month |-> e.month, day |-> e.day]
      BY NextMonthIsDate, DateShape
    <2> HIDE DEF x, e
    <2>3. Plus(d, k) = [year |-> e.year, month |-> e.month, day |-> x]
      BY <2>1, <2>2
    <2> QED BY <1>2, <2>3 DEF x, e
  <1> QED BY <1>1, <1>2

LEMMA PlusIsDate ==
  ASSUME NEW d \in Date, NEW k \in 0 .. 28
  PROVE  Plus(d, k) \in Date /\ Plus(d, k).year >= d.year
  <1>1. LastDay(d.year, d.month) \in 28 .. 31
    BY DateFields, LastDays
  <1>2. CASE d.day + k <= LastDay(d.year, d.month)
    <2>1. d.day + k \in 1 .. 31
      BY <1>1, <1>2, DateFields
    <2> QED BY <1>2, <2>1, PlusFields, DateFields DEF Date
  <1>3. CASE ~(d.day + k <= LastDay(d.year, d.month))
    <2> DEFINE x == d.day + k - LastDay(d.year, d.month)
               e == NextMonth(d)
    <2>1. x \in 1 .. 31
      BY <1>1, <1>3, DateFields
    <2>2. Plus(d, k) = [year |-> e.year, month |-> e.month, day |-> x]
      BY <1>3, PlusFields
    <2>3. e.year \in Nat /\ e.year >= 1 /\ e.month \in 1 .. 12 /\ e.year >= d.year
      <3>1. e \in Date
        BY NextMonthIsDate
      <3>2. e.year >= d.year
        BY NextMonthIsDate, DateFields
      <3> HIDE DEF e
      <3> QED BY <3>1, <3>2, DateFields
    <2> HIDE DEF x, e
    <2> QED BY <2>1, <2>2, <2>3 DEF Date
  <1> QED BY <1>2, <1>3

LEMMA YesterdayIsDate ==
  ASSUME NEW d \in Date, d.year > 1
  PROVE  Yesterday(d) \in Date
  <1>1. CASE d.day > 1
    <2>1. Yesterday(d) = [d EXCEPT !.day = d.day - 1]
      BY <1>1 DEF Yesterday
    <2>2. Yesterday(d) = [year |-> d.year, month |-> d.month, day |-> d.day - 1]
      BY <2>1, DateShape
    <2> QED BY <1>1, <2>2, DateFields DEF Date
  <1>2. CASE d.day = 1 /\ d.month > 1
    <2> DEFINE x == LastDay(d.year, d.month - 1)
    <2>1. d.month - 1 \in 1 .. 12
      BY <1>2, DateFields
    <2>2. x \in 28 .. 31
      BY <2>1, DateFields, LastDays
    <2>3. Yesterday(d) = [d EXCEPT !.month = d.month - 1, !.day = x]
      BY <1>2 DEF Yesterday
    <2> HIDE DEF x
    <2>4. Yesterday(d) = [year |-> d.year, month |-> d.month - 1, day |-> x]
      BY <2>3, Redated
    <2>5. x \in 1 .. 31 /\ d.year \in Nat /\ d.year >= 1
      BY <2>2, DateFields
    <2> QED BY <2>1, <2>4, <2>5, MadeDate
  <1>3. CASE d.day = 1 /\ d.month = 1
    <2>1. Yesterday(d) = [year |-> d.year - 1, month |-> 12, day |-> 31]
      BY <1>3 DEF Yesterday
    <2> QED BY <2>1, DateFields DEF Date
  <1> QED BY <1>1, <1>2, <1>3, DateFields

-----------------------------------------------------------------------------
(* Ordinals.                                                               *)

\* The leap days of the first y years.
LeapDays(y) == y \div 4 - y \div 100 + y \div 400

LEMMA LeapDaysAreNatural ==
  ASSUME NEW y \in Nat
  PROVE  LeapDays(y) \in Nat
  <1>1. y \div 4 - y \div 100 >= 0
    BY SMTT(30)
  <1>2. y \div 4 \in Int /\ y \div 100 \in Int /\ y \div 400 \in Nat
    OBVIOUS
  <1> QED BY <1>1, <1>2 DEF LeapDays

LEMMA LeapDaysGrow ==
  ASSUME NEW y \in Nat
  PROVE  LeapDays(y + 1) - LeapDays(y) = IF IsLeap(y + 1) THEN 1 ELSE 0
  <1> DEFINE a == y \div 4   b == y \div 100   c == y \div 400
             p == y % 4      q == y % 100      r == y % 400
  <1>1. y = 4 * a + p /\ p \in 0 .. 3 /\ a \in Int
    OBVIOUS
  <1>2. (y + 1) \div 4 = (IF p = 3 THEN a + 1 ELSE a) /\ ((y + 1) % 4 = 0 <=> p = 3)
    BY SMTT(30)
  <1>3. (y + 1) \div 100 = (IF q = 99 THEN b + 1 ELSE b) /\ ((y + 1) % 100 = 0 <=> q = 99)
    BY SMTT(30)
  <1>4. (y + 1) \div 400 = (IF r = 399 THEN c + 1 ELSE c) /\ ((y + 1) % 400 = 0 <=> r = 399)
    BY SMTT(30)
  <1>5. (q = 99 => p = 3) /\ (r = 399 => q = 99)
    BY SMTT(30)
  <1>6. a \in Int /\ b \in Int /\ c \in Int
    OBVIOUS
  <1>7. IsLeap(y + 1) <=> p = 3 /\ (q # 99 \/ r = 399)
    BY <1>2, <1>3, <1>4 DEF IsLeap
  <1>8. LeapDays(y) = a - b + c
    BY DEF LeapDays
  <1>9. LeapDays(y + 1) = (IF p = 3 THEN a + 1 ELSE a) - (IF q = 99 THEN b + 1 ELSE b)
                          + (IF r = 399 THEN c + 1 ELSE c)
    BY <1>2, <1>3, <1>4 DEF LeapDays
  <1> HIDE DEF a, b, c, p, q, r
  <1> QED BY <1>5, <1>6, <1>7, <1>8, <1>9

\* The leap day of a year, once it has passed.
LeapDay(d) == IF d.month > 2 /\ IsLeap(d.year) THEN 1 ELSE 0

LEMMA OrdinalFields ==
  ASSUME NEW d \in Date
  PROVE  /\ DaysBeforeMonth[d.month] \in Int /\ DaysBeforeMonth[d.month] >= 0
         /\ LeapDay(d) \in Int /\ LeapDay(d) >= 0
         /\ LeapDays(d.year - 1) \in Int /\ LeapDays(d.year - 1) >= 0
         /\ Ordinal(d) = 365 * (d.year - 1) + LeapDays(d.year - 1) + DaysBeforeMonth[d.month]
                         + LeapDay(d) + d.day
  <1>1. d.year - 1 \in Nat
    BY DateFields
  <1>2. LeapDays(d.year - 1) \in Nat
    BY <1>1, LeapDaysAreNatural
  <1>3. DaysBeforeMonth[d.month] \in 0 .. 334
    BY DateFields, MonthStarts
  <1>4. (d.year - 1) \div 4 \in Int /\ (d.year - 1) \div 100 \in Int
        /\ (d.year - 1) \div 400 \in Int
    BY <1>1
  <1>5. LeapDay(d) \in {0, 1}
    BY DEF LeapDay
  <1>6. Ordinal(d) = 365 * (d.year - 1) + LeapDays(d.year - 1) + DaysBeforeMonth[d.month]
                     + LeapDay(d) + d.day
    BY <1>1, <1>2, <1>3, <1>4, <1>5, DateFields DEF Ordinal, LeapDays, LeapDay
  <1> QED BY <1>2, <1>3, <1>5, <1>6

LEMMA OrdinalIsNatural ==
  ASSUME NEW d \in Date
  PROVE  Ordinal(d) \in Nat
  <1> DEFINE y == d.year - 1
             l == LeapDays(y)
             m == DaysBeforeMonth[d.month]
             p == LeapDay(d)
  <1>1. y \in Nat /\ d.day \in 1 .. 31
    BY DateFields
  <1>2. l \in Int /\ l >= 0 /\ m \in Int /\ m >= 0 /\ p \in Int /\ p >= 0
        /\ Ordinal(d) = 365 * y + l + m + p + d.day
    BY OrdinalFields
  <1> HIDE DEF y, l, m, p
  <1> QED BY <1>1, <1>2

\* A month has as many days as lie between its start and the start of the next.
LEMMA MonthLengths ==
  ASSUME NEW y \in Nat, NEW m \in 1 .. 11
  PROVE  DaysBeforeMonth[m + 1] + (IF m + 1 > 2 /\ IsLeap(y) THEN 1 ELSE 0)
         = DaysBeforeMonth[m] + (IF m > 2 /\ IsLeap(y) THEN 1 ELSE 0) + LastDay(y, m)
  BY DEF DaysBeforeMonth, LastDay

\* A day later is one more, whatever month or year it falls in.
LEMMA OrdinalOfPlus ==
  ASSUME NEW d \in Date, NEW k \in 0 .. 28
  PROVE  Ordinal(Plus(d, k)) = Ordinal(d) + k
  <1> DEFINE e == Plus(d, k)
             n == LastDay(d.year, d.month)
             y == d.year - 1
             l == LeapDays(y)
             m == DaysBeforeMonth[d.month]
             p == LeapDay(d)
  <1>0. n \in Int /\ n >= 28
    BY DateFields, LastDays
  <1>1. y \in Nat /\ d.year = y + 1 /\ d.day \in Int
    BY DateFields
  <1>2. l \in Int /\ m \in Int /\ p \in Int /\ Ordinal(d) = 365 * y + l + m + p + d.day
    BY OrdinalFields
  <1>3. e \in Date /\ e.day \in Int
    BY PlusIsDate, DateFields
  <1>4. CASE d.day + k <= n
    <2>1. e.year = d.year /\ e.month = d.month /\ e.day = d.day + k
      <3>1. e = [year |-> d.year, month |-> d.month, day |-> d.day + k]
        BY <1>4, PlusFields
      <3> QED BY <3>1
    <2>2. LeapDay(e) = p /\ LeapDays(e.year - 1) = l /\ DaysBeforeMonth[e.month] = m
          /\ e.year - 1 = y
      BY <2>1 DEF LeapDay
    <2>3. Ordinal(e) = 365 * y + l + m + p + e.day
      <3>1. Ordinal(e) = 365 * (e.year - 1) + LeapDays(e.year - 1) + DaysBeforeMonth[e.month]
                         + LeapDay(e) + e.day
        BY <1>3, OrdinalFields
      <3> QED BY <2>2, <3>1
    <2>4. e.day = d.day + k
      BY <2>1
    <2> HIDE DEF e, n, y, l, m, p
    <2>5. Ordinal(e) = Ordinal(d) + k
      BY <1>1, <1>2, <2>3, <2>4
    <2> QED BY <2>5 DEF e
  <1>5. CASE d.day + k > n /\ d.month # 12
    <2>1. e.year = d.year /\ e.month = d.month + 1 /\ e.day = d.day + k - n
      <3>1. e = [year |-> NextMonth(d).year, month |-> NextMonth(d).month, day |-> d.day + k - n]
        <4>1. ~(d.day + k <= n)
          BY <1>0, <1>1, <1>5
        <4> QED BY <4>1, PlusFields
      <3>2. NextMonth(d).year = d.year /\ NextMonth(d).month = d.month + 1
        BY <1>5, NextMonthIsDate
      <3> HIDE DEF e, n
      <3> QED BY <3>1, <3>2
    <2>2. d.month \in 1 .. 11 /\ d.year \in Nat
      BY <1>5, DateFields
    <2>3. DaysBeforeMonth[e.month] + LeapDay(e) = m + p + n
      BY <2>1, <2>2, MonthLengths DEF LeapDay
    <2>4. LeapDays(e.year - 1) = l /\ e.year - 1 = y
      BY <2>1
    <2> DEFINE f == DaysBeforeMonth[e.month]
               q == LeapDay(e)
    <2>5. f \in Int /\ q \in Int /\ Ordinal(e) = 365 * y + l + f + q + e.day
      <3>1. f \in Int /\ q \in Int
            /\ Ordinal(e) = 365 * (e.year - 1) + LeapDays(e.year - 1) + f + q + e.day
        BY <1>3, OrdinalFields
      <3> HIDE DEF f, q
      <3> QED BY <2>4, <3>1
    <2>6. f + q = m + p + n /\ e.day = d.day + k - n
      BY <2>1, <2>3
    <2> HIDE DEF e, n, y, l, m, p, f, q
    <2>7. Ordinal(e) = Ordinal(d) + k
      BY <1>0, <1>1, <1>2, <1>3, <2>5, <2>6
    <2> QED BY <2>7 DEF e
  <1>6. CASE d.day + k > n /\ d.month = 12
    <2>0. n = 31
      BY <1>6 DEF LastDay
    <2>1. e.year = d.year + 1 /\ e.month = 1 /\ e.day = d.day + k - n
      <3>1. e = [year |-> NextMonth(d).year, month |-> NextMonth(d).month, day |-> d.day + k - n]
        <4>1. ~(d.day + k <= n)
          BY <1>0, <1>1, <1>6
        <4> QED BY <4>1, PlusFields
      <3>2. NextMonth(d).year = d.year + 1 /\ NextMonth(d).month = 1
        BY <1>6, NextMonthIsDate
      <3> HIDE DEF e, n
      <3> QED BY <3>1, <3>2
    <2>2. m = 334 /\ DaysBeforeMonth[e.month] = 0 /\ LeapDay(e) = 0
      BY <1>6, <2>1 DEF DaysBeforeMonth, LeapDay
    <2>3. p = IF IsLeap(y + 1) THEN 1 ELSE 0
      BY <1>1, <1>6 DEF LeapDay
    <2>4. LeapDays(y + 1) - l = p
      BY <1>1, <2>3, LeapDaysGrow
    <2>5. LeapDays(y + 1) \in Int
      BY <1>1, LeapDaysAreNatural
    <2>6. e.year - 1 = y + 1
      BY <1>1, <2>1
    <2>7. Ordinal(e) = 365 * (y + 1) + LeapDays(y + 1) + e.day
      <3>1. Ordinal(e) = 365 * (e.year - 1) + LeapDays(e.year - 1) + DaysBeforeMonth[e.month]
                         + LeapDay(e) + e.day
        BY <1>3, OrdinalFields
      <3>2. Ordinal(e) = 365 * (y + 1) + LeapDays(y + 1) + 0 + 0 + e.day
        BY <2>2, <2>6, <3>1
      <3> HIDE DEF e, y
      <3> QED BY <1>1, <1>3, <2>5, <3>2
    <2>8. e.day = d.day + k - n
      BY <2>1
    <2> HIDE DEF e, n, y, l, m, p
    <2>9. Ordinal(e) = Ordinal(d) + k
      BY <1>1, <1>2, <1>3, <2>0, <2>2, <2>4, <2>5, <2>7, <2>8
    <2> QED BY <2>9 DEF e
  <1>7. d.day + k <= n \/ d.day + k > n
    BY <1>0, <1>1
  <1> QED BY <1>4, <1>5, <1>6, <1>7

LEMMA InMonthIsDay ==
  ASSUME NEW s, HasSchedule(s), NEW y \in Nat, y >= 1, NEW m \in 1 .. 12
  PROVE  /\ CalendarDay(InMonth(s, y, m))
         /\ Clamped(s, y, m) \in 1 .. 31 /\ Clamped(s, y, m) <= LastDay(y, m)
  <1>1. LastDay(y, m) \in 28 .. 31 /\ s.day \in 1 .. 31
    BY LastDays DEF HasSchedule
  <1> DEFINE c == Clamped(s, y, m)
  <1>2. c \in 1 .. 31 /\ c <= LastDay(y, m)
    BY <1>1 DEF Clamped
  <1> HIDE DEF c
  <1>3. InMonth(s, y, m) = [year |-> y, month |-> m, day |-> c]
    BY DEF InMonth, c
  <1>4. [year |-> y, month |-> m, day |-> c] \in Date
    BY <1>2 DEF Date
  <1> QED BY <1>2, <1>3, <1>4 DEF CalendarDay, c

\* Tomorrow is the next day of the month, or the first of the next month.
LEMMA TomorrowFields ==
  ASSUME NEW d, CalendarDay(d)
  PROVE  /\ CalendarDay(Tomorrow(d))
         /\ d.day < LastDay(d.year, d.month) =>
               /\ Tomorrow(d).year = d.year /\ Tomorrow(d).month = d.month
               /\ Tomorrow(d).day = d.day + 1
         /\ d.day = LastDay(d.year, d.month) =>
               /\ Tomorrow(d).year = NextMonth(d).year
               /\ Tomorrow(d).month = NextMonth(d).month
               /\ Tomorrow(d).day = 1
  <1> DEFINE n == LastDay(d.year, d.month)
             e == Tomorrow(d)
  <1>0. d \in Date /\ d.day <= n
    BY DEF CalendarDay
  <1>1. n \in Int /\ n >= 28 /\ d.day \in Int
    BY <1>0, DateFields, LastDays
  <1>2. e \in Date
    BY <1>0, PlusIsDate DEF Tomorrow
  <1>3. CASE d.day < n
    <2>1. d.day + 1 <= n
      BY <1>1, <1>3
    <2>2. e = [year |-> d.year, month |-> d.month, day |-> d.day + 1]
      BY <1>0, <2>1, PlusFields DEF Tomorrow
    <2>3. e.year = d.year /\ e.month = d.month /\ e.day = d.day + 1
      BY <2>2
    <2>4. LastDay(e.year, e.month) = n
      BY <2>3
    <2> HIDE DEF e, n
    <2>5. e.day <= LastDay(e.year, e.month)
      BY <2>1, <2>3, <2>4
    <2> QED BY <1>1, <1>2, <1>3, <2>3, <2>5 DEF CalendarDay, e, n
  <1>4. CASE d.day = n
    <2>1. ~(d.day + 1 <= n) /\ d.day + 1 - n = 1
      BY <1>1, <1>4
    <2>2. e = [year |-> NextMonth(d).year, month |-> NextMonth(d).month, day |-> d.day + 1 - n]
      BY <1>0, <2>1, PlusFields DEF Tomorrow
    <2>3. e.year = NextMonth(d).year /\ e.month = NextMonth(d).month /\ e.day = 1
      BY <2>1, <2>2
    <2> HIDE DEF e, n
    <2>4. LastDay(e.year, e.month) \in 28 .. 31
      BY <1>2, DateFields, LastDays
    <2>5. e.day <= LastDay(e.year, e.month)
      BY <2>3, <2>4
    <2> QED BY <1>1, <1>2, <1>4, <2>3, <2>5 DEF CalendarDay, e, n
  <1> QED BY <1>0, <1>1, <1>3, <1>4

LEMMA Weekdays ==
  ASSUME NEW d \in Date
  PROVE  Weekday(d) \in 0 .. 6
  BY OrdinalIsNatural DEF Weekday

\* Midnight comes once a day: the date after the next midnight is one day later, and its
\* yesterday, which the batch makes up for, is the day before (timedelta(days=1)).
THEOREM MidnightsAreDays ==
  ASSUME NEW d, CalendarDay(d)
  PROVE  Ordinal(Tomorrow(d)) = Ordinal(d) + 1 /\ Yesterday(Tomorrow(d)) = d
  <1> DEFINE t == Tomorrow(d)
             n == LastDay(d.year, d.month)
  <1>1. d \in Date /\ d.year \in Nat /\ d.month \in 1 .. 12 /\ d.day \in 1 .. 31 /\ d.day <= n
        /\ n \in Int
    BY DateFields, LastDays DEF CalendarDay
  <1>2. Ordinal(t) = Ordinal(d) + 1
    BY <1>1, OrdinalOfPlus DEF Tomorrow
  <1>3. CASE d.day < n
    <2>1. t.year = d.year /\ t.month = d.month /\ t.day = d.day + 1
      BY <1>3, TomorrowFields
    <2>2. t \in Date
      BY TomorrowFields DEF CalendarDay
    <2>3. t.day > 1 /\ t.day - 1 = d.day
      BY <1>1, <2>1
    <2>4. Yesterday(t) = [t EXCEPT !.day = t.day - 1]
      BY <2>3 DEF Yesterday
    <2>5. t = [year |-> t.year, month |-> t.month, day |-> t.day]
      BY <2>2, DateShape
    <2> HIDE DEF t
    <2>6. Yesterday(t) = [year |-> t.year, month |-> t.month, day |-> t.day - 1]
      BY <2>4, <2>5
    <2>7. Yesterday(t) = [year |-> d.year, month |-> d.month, day |-> d.day]
      BY <2>1, <2>3, <2>6
    <2> QED BY <1>1, <1>2, <2>7, DateShape DEF t
  <1>4. CASE d.day = n
    <2>1. t.year = NextMonth(d).year /\ t.month = NextMonth(d).month /\ t.day = 1
      BY <1>4, TomorrowFields
    <2>2. CASE d.month = 12
      <3>1. t.year = d.year + 1 /\ t.month = 1
        BY <1>1, <2>1, <2>2, NextMonthIsDate
      <3>2. Yesterday(t) = [year |-> t.year - 1, month |-> 12, day |-> 31]
        BY <2>1, <3>1 DEF Yesterday
      <3>3. d.day = 31
        BY <1>4, <2>2 DEF LastDay
      <3>4. t.year - 1 = d.year
        BY <1>1, <3>1
      <3>5. Yesterday(t) = [year |-> d.year, month |-> d.month, day |-> d.day]
        BY <2>2, <3>2, <3>3, <3>4
      <3> QED BY <1>1, <1>2, <3>5, DateShape
    <2>3. CASE d.month # 12
      <3>1. t.year = d.year /\ t.month = d.month + 1
        BY <1>1, <2>1, <2>3, NextMonthIsDate
      <3>2. t.month > 1 /\ t.month - 1 = d.month
        BY <1>1, <3>1
      <3> DEFINE x == LastDay(t.year, t.month - 1)
      <3>3. Yesterday(t) = [t EXCEPT !.month = t.month - 1, !.day = x]
        BY <2>1, <3>2 DEF Yesterday
      <3>4. x = d.day
        BY <1>4, <3>1, <3>2
      <3>5. t = [year |-> t.year, month |-> t.month, day |-> t.day]
        BY TomorrowFields, DateShape DEF CalendarDay
      <3> HIDE DEF t, x
      <3>6. Yesterday(t) = [year |-> t.year, month |-> t.month - 1, day |-> x]
        BY <3>3, <3>5
      <3>7. Yesterday(t) = [year |-> d.year, month |-> d.month, day |-> d.day]
        BY <3>1, <3>2, <3>4, <3>6
      <3> QED BY <1>1, <1>2, <3>7, DateShape DEF t
    <2> QED BY <2>2, <2>3
  <1> QED BY <1>1, <1>3, <1>4

\* A date that a schedule is billed on next is a date.
LEMMA NextIsDate ==
  ASSUME NEW s, HasSchedule(s), NEW ref \in Date
  PROVE  NextBillingDate(s, ref) \in Date
  <1>1. s.start \in Date /\ s.cycle \in {"MONTHLY", "YEARLY", "WEEKLY"}
    BY DEF HasSchedule
  <1>2. ref.year \in Nat /\ ref.year >= 1 /\ ref.month \in 1 .. 12 /\ s.start.month \in 1 .. 12
    BY <1>1, DateFields
  <1>3. CASE s.cycle = "MONTHLY"
    <2>1. NextMonth(ref).year \in Nat /\ NextMonth(ref).year >= 1 /\ NextMonth(ref).month \in 1 .. 12
      <3>1. NextMonth(ref) \in Date
        BY NextMonthIsDate
      <3> QED BY <3>1, DateFields
    <2>2. /\ InMonth(s, ref.year, ref.month) \in Date
          /\ InMonth(s, NextMonth(ref).year, NextMonth(ref).month) \in Date
      BY <1>2, <2>1, InMonthIsDay DEF CalendarDay
    <2> QED BY <1>3, <2>2 DEF NextBillingDate, NextMonthly
  <1>4. CASE s.cycle = "YEARLY"
    <2>1. ref.year + 1 \in Nat /\ ref.year + 1 >= 1
      BY <1>2
    <2>2. /\ InMonth(s, ref.year, s.start.month) \in Date
          /\ InMonth(s, ref.year + 1, s.start.month) \in Date
      BY <1>2, <2>1, InMonthIsDay DEF CalendarDay
    <2> QED BY <1>4, <2>2 DEF NextBillingDate, NextYearly
  <1>5. CASE s.cycle = "WEEKLY"
    <2> DEFINE a == Weekday(s.start) - Weekday(ref)
               k == IF a < 0 THEN a + 7 ELSE a
    <2>1. Weekday(s.start) \in 0 .. 6 /\ Weekday(ref) \in 0 .. 6
      BY <1>1, Weekdays
    <2>2. k \in 0 .. 28
      BY <2>1
    <2>3. NextBillingDate(s, ref) = Plus(ref, k)
      BY <1>5 DEF NextBillingDate, NextWeekly
    <2> HIDE DEF k
    <2> QED BY <2>2, <2>3, PlusIsDate
  <1> QED BY <1>1, <1>3, <1>4, <1>5

-----------------------------------------------------------------------------
(* Sums of several functions, and division.                              *)

\* The floor of a quotient and its remainder.
LEMMA Division ==
  ASSUME NEW a \in Int, NEW b \in Int, b > 0
  PROVE  /\ a \div b \in Int /\ a % b \in Int /\ 0 <= a % b /\ a % b < b
         /\ a = b * (a \div b) + (a % b)
  <1>1. a \div b \in Int /\ a % b \in Int /\ 0 <= a % b /\ a % b < b
    OBVIOUS
  <1>2. ASSUME NEW q, q = a \div b, NEW r, r = a % b
        PROVE  r = a - b * q
    BY <1>2
  <1>3. a % b = a - b * (a \div b)
    BY <1>2
  <1> DEFINE r == a % b   p == b * (a \div b)
  <1>4. p \in Int /\ r \in Int /\ r = a - p
    BY <1>1, <1>3
  <1> HIDE DEF p, r
  <1>5. a = p + r
    BY <1>4
  <1> QED BY <1>1, <1>5 DEF p, r

\* A sum of sums of two terms, one of them multiplied.
LEMMA SumOfTerms ==
  ASSUME NEW S, IsFiniteSet(S), NEW c \in Int, NEW f, NEW g, NEW h,
         \A x \in S : g[x] \in Int /\ h[x] \in Int /\ f[x] = g[x] + c * h[x]
  PROVE  SumFunctionOnSet(f, S) = SumFunctionOnSet(g, S) + c * SumFunctionOnSet(h, S)
  <1> DEFINE F == {s \in SUBSET S : SumFunctionOnSet(f, s)
                                      = SumFunctionOnSet(g, s) + c * SumFunctionOnSet(h, s)}
  <1>1. ASSUME NEW s \in SUBSET S, \A t \in SUBSET s : t # s => t \in F
        PROVE  s \in F
    <2>1. IsFiniteSet(s)
      BY FS_Subset
    <2>2. ASSUME NEW k, \A x \in s : k[x] \in Int
          PROVE  /\ s = {} => SumFunctionOnSet(k, s) = 0
                 /\ \A x \in s : /\ SumFunctionOnSet(k, s) = k[x] + SumFunctionOnSet(k, s \ {x})
                                 /\ k[x] \in Int /\ SumFunctionOnSet(k, s \ {x}) \in Int
      <3>1. \A x \in s : IsFiniteSet(s \ {x})
        BY <2>1, FS_RemoveElement
      <3>2. \A x \in s : SumFunctionOnSet(k, s \ {x}) \in Int
        BY <2>2, <3>1, SumByElement
      <3> QED BY <2>1, <2>2, <3>2, SumByElement
    <2>3. \A x \in s : f[x] \in Int /\ g[x] \in Int /\ h[x] \in Int /\ f[x] = g[x] + c * h[x]
      OBVIOUS
    <2>4. CASE s = {}
      <3>1. SumFunctionOnSet(f, s) = 0 /\ SumFunctionOnSet(g, s) = 0 /\ SumFunctionOnSet(h, s) = 0
        BY <2>2, <2>3, <2>4
      <3> QED BY <3>1
    <2>5. CASE s # {}
      <3>1. PICK x \in s : TRUE
        BY <2>5
      <3> DEFINE t == s \ {x}
                 fs == SumFunctionOnSet(f, s)   ft == SumFunctionOnSet(f, t)
                 gs == SumFunctionOnSet(g, s)   gt == SumFunctionOnSet(g, t)
                 hs == SumFunctionOnSet(h, s)   ht == SumFunctionOnSet(h, t)
      <3>2. ft = gt + c * ht
        <4>1. t \in F
          BY <1>1
        <4> QED BY <4>1
      <3>3. fs = f[x] + ft /\ gs = g[x] + gt /\ hs = h[x] + ht
            /\ ft \in Int /\ gt \in Int /\ ht \in Int
        BY <2>2, <2>3
      <3>4. f[x] \in Int /\ g[x] \in Int /\ h[x] \in Int /\ f[x] = g[x] + c * h[x]
        BY <2>3
      <3>5. c \in Int
        OBVIOUS
      <3> DEFINE fx == f[x]   gx == g[x]   hx == h[x]
      <3>6. /\ fs = fx + ft /\ gs = gx + gt /\ hs = hx + ht /\ ft = gt + c * ht /\ fx = gx + c * hx
            /\ gx \in Int /\ hx \in Int /\ gt \in Int /\ ht \in Int
        BY <3>2, <3>3, <3>4
      <3> HIDE DEF t, fs, ft, gs, gt, hs, ht, fx, gx, hx
      <3>7. c * (hx + ht) = c * hx + c * ht
        BY ONLY <3>5, <3>6
      <3>8. fs = gs + c * hs
        BY ONLY <3>5, <3>6, <3>7
      <3> QED BY <3>8 DEF fs, gs, hs
    <2> QED BY <2>4, <2>5
  <1>2. SUBSET S \subseteq F
    <2> HIDE DEF F
    <2> QED BY <1>1, SetOfSubsets
  <1> QED BY <1>2

\* A sum of differences.
LEMMA SumOfDifferences ==
  ASSUME NEW S, IsFiniteSet(S), NEW f, NEW g, NEW h,
         \A x \in S : g[x] \in Int /\ h[x] \in Int /\ f[x] = g[x] - h[x]
  PROVE  SumFunctionOnSet(f, S) = SumFunctionOnSet(g, S) - SumFunctionOnSet(h, S)
  <1> DEFINE c == 0 - 1
  <1>1. \A x \in S : g[x] \in Int /\ h[x] \in Int /\ f[x] = g[x] + c * h[x]
    OBVIOUS
  <1>2. c \in Int
    OBVIOUS
  <1> HIDE DEF c
  <1>3. SumFunctionOnSet(f, S) = SumFunctionOnSet(g, S) + c * SumFunctionOnSet(h, S)
    BY <1>1, <1>2, SumOfTerms
  <1>4. SumFunctionOnSet(g, S) \in Int /\ SumFunctionOnSet(h, S) \in Int
    BY SumByElement
  <1> QED BY <1>3, <1>4 DEF c

\* A sum of zeros, of multiples, and of terms that are no larger.
LEMMA SumOfNothing ==
  ASSUME NEW S, IsFiniteSet(S), NEW f, \A x \in S : f[x] = 0
  PROVE  SumFunctionOnSet(f, S) = 0
  <1> DEFINE c == 1
  <1>1. \A x \in S : f[x] \in Int /\ f[x] = f[x] + c * f[x]
    OBVIOUS
  <1>2. SumFunctionOnSet(f, S) = SumFunctionOnSet(f, S) + c * SumFunctionOnSet(f, S)
    <2>1. c \in Int
      OBVIOUS
    <2> HIDE DEF c
    <2> QED BY <1>1, <2>1, SumOfTerms
  <1>3. SumFunctionOnSet(f, S) \in Int
    BY <1>1, SumByElement
  <1> DEFINE v == SumFunctionOnSet(f, S)
  <1>4. v = v + c * v /\ v \in Int
    BY <1>2, <1>3
  <1> HIDE DEF v
  <1>5. v = 0
    BY <1>4
  <1> QED BY <1>5 DEF v

LEMMA SumOfProducts ==
  ASSUME NEW S, IsFiniteSet(S), NEW c \in Int, NEW f, NEW h,
         \A x \in S : h[x] \in Int /\ f[x] = c * h[x]
  PROVE  SumFunctionOnSet(f, S) = c * SumFunctionOnSet(h, S)
  <1> DEFINE g == [x \in S |-> 0]
  <1>1. \A x \in S : g[x] = 0
    OBVIOUS
  <1> HIDE DEF g
  <1>2. \A x \in S : g[x] \in Int /\ h[x] \in Int /\ f[x] = g[x] + c * h[x]
    BY <1>1
  <1>3. SumFunctionOnSet(f, S) = SumFunctionOnSet(g, S) + c * SumFunctionOnSet(h, S)
    <2>1. IsFiniteSet(S) /\ c \in Int
      OBVIOUS
    <2> QED BY ONLY <1>2, <2>1, SumOfTerms
  <1>4. SumFunctionOnSet(g, S) = 0 /\ SumFunctionOnSet(h, S) \in Int
    BY <1>1, SumOfNothing, SumByElement
  <1> QED BY <1>3, <1>4

LEMMA SumInOrder ==
  ASSUME NEW S, IsFiniteSet(S), NEW f, NEW g,
         \A x \in S : f[x] \in Int /\ g[x] \in Int /\ f[x] <= g[x]
  PROVE  SumFunctionOnSet(f, S) <= SumFunctionOnSet(g, S)
  <1> DEFINE d == [x \in S |-> 0]
  <1>1. \A x \in S : d[x] = 0
    OBVIOUS
  <1> HIDE DEF d
  <1>2. \A x \in S : g[x] \in Int /\ f[x] \in Int /\ d[x] \in Int /\ g[x] >= f[x] - d[x]
    BY <1>1
  <1>3. SumFunctionOnSet(g, S) >= SumFunctionOnSet(f, S) - SumFunctionOnSet(d, S)
    BY <1>2, SumCompare
  <1>4. SumFunctionOnSet(d, S) = 0
    BY <1>1, SumOfNothing
  <1>5. SumFunctionOnSet(f, S) \in Int /\ SumFunctionOnSet(g, S) \in Int
    BY <1>2, SumByElement
  <1> QED BY <1>3, <1>4, <1>5
=============================================================================
