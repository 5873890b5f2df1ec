----------------------------- MODULE SumTheorems -----------------------------
(***************************************************************************)
(* Facts about SumFunctionOnSet and SumFunction, the sums the properties   *)
(* of this project count with, and the induction they need. A property to  *)
(* be shown by induction is given as a set: the provers do not instantiate *)
(* an operator.                                                            *)
(***************************************************************************)
EXTENDS Functions, Integers, FiniteSets, FiniteSetTheorems, WellFoundedInduction, TLAPS

-----------------------------------------------------------------------------
(* Induction                                                               *)

LEMMA NatInduct ==
    ASSUME NEW T \in SUBSET Nat, 0 \in T, \A n \in T : n + 1 \in T
    PROVE  T = Nat
<1> SUFFICES ASSUME Nat \ T # {} PROVE FALSE
  OBVIOUS
<1> DEFINE R == OpToRel(<, Nat)
<1>1. PICK n \in Nat \ T : \A m \in Nat \ T : << m, n >> \notin R
  <2> HIDE DEF R
  <2>1. IsWellFoundedOn(R, Nat)
    BY NatLessThanWellFounded DEF R
  <2> QED  BY <2>1, WFMin
<1>2. n # 0 /\ n - 1 \in Nat
  OBVIOUS
<1>3. << n - 1, n >> \in R
  BY <1>2 DEF OpToRel
<1>4. n - 1 \in T
  BY <1>1, <1>2, <1>3
<1>5. n \in T
  BY <1>2, <1>4
<1> QED  BY <1>5

\* Every set of numbers that is not empty has a least one.
LEMMA LeastNat ==
    ASSUME NEW S \in SUBSET Nat, S # {}
    PROVE  \E n \in S : \A m \in S : n <= m
<1> DEFINE R == OpToRel(<, Nat)
<1>1. PICK n \in S : \A m \in S : << m, n >> \notin R
  <2> HIDE DEF R
  <2>1. IsWellFoundedOn(R, Nat)
    BY NatLessThanWellFounded DEF R
  <2> QED  BY <2>1, WFMin
<1>2. \A m \in S : ~(m < n)
  BY <1>1 DEF OpToRel
<1> QED  BY <1>2

\* What holds of the empty set, and of a set when it holds of the set without
\* any one of its elements, holds of every subset of a finite set.
LEMMA FiniteInduct ==
    ASSUME NEW S, IsFiniteSet(S), NEW T, {} \in T,
           \A s \in SUBSET S : s # {} /\ (\A x \in s : s \ {x} \in T) => s \in T
    PROVE  SUBSET S \subseteq T
<1> DEFINE N == { n \in Nat : \A s \in SUBSET S : Cardinality(s) = n => s \in T }
<1>1. \A s \in SUBSET S : IsFiniteSet(s) /\ Cardinality(s) \in Nat
  BY FS_Subset, FS_CardinalityType
<1>2. 0 \in N
  <2>1. \A s \in SUBSET S : Cardinality(s) = 0 => s = {}
    BY <1>1, FS_EmptySet
  <2> QED  BY <2>1
<1>3. ASSUME NEW n \in N PROVE n + 1 \in N
  <2> SUFFICES ASSUME NEW s \in SUBSET S, Cardinality(s) = n + 1 PROVE s \in T
    OBVIOUS
  <2>1. s # {}
    BY FS_EmptySet
  <2>2. ASSUME NEW x \in s PROVE s \ {x} \in T
    <3>1. Cardinality(s \ {x}) = n
      BY <1>1, FS_RemoveElement
    <3> QED  BY <3>1
  <2> QED  BY <2>1, <2>2
<1> HIDE DEF N
<1>4. N \in SUBSET Nat
  BY DEF N
<1>5. N = Nat
  BY <1>2, <1>3, <1>4, NatInduct
<1> QED  BY <1>1, <1>5 DEF N

-----------------------------------------------------------------------------
(* The recursion behind a sum                                              *)

Chosen(s) == CHOOSE x \in s : TRUE

\* g holds the sums of v over the subsets of S.
AreSums(v, S, g) ==
    g = [s \in SUBSET S |-> IF s = {} THEN 0 ELSE v[Chosen(s)] + g[s \ {Chosen(s)}]]

LEMMA ChosenIn == \A s : s # {} => Chosen(s) \in s
BY DEF Chosen

\* The recursion is well founded: it can be followed up to any size of a set.
LEMMA SumsExist ==
    ASSUME NEW v, NEW S, IsFiniteSet(S)
    PROVE  \E g : AreSums(v, S, g)
<1> DEFINE Small(n) == { s \in SUBSET S : Cardinality(s) <= n }
           Next1(s, g) == IF s = {} THEN 0 ELSE v[Chosen(s)] + g[s \ {Chosen(s)}]
           N == { n \in Nat : \E g : g = [s \in Small(n) |-> Next1(s, g)] }
<1>1. \A s \in SUBSET S : IsFiniteSet(s) /\ Cardinality(s) \in Nat
  BY FS_Subset, FS_CardinalityType
<1>2. 0 \in N
  <2> DEFINE g == [s \in Small(0) |-> 0]
  <2>1. \A s \in Small(0) : s = {}
    BY <1>1, FS_EmptySet
  <2>2. g = [s \in Small(0) |-> Next1(s, g)]
    BY <2>1
  <2> QED  BY <2>2
<1>3. ASSUME NEW n \in N PROVE n + 1 \in N
  <2>1. PICK g : g = [s \in Small(n) |-> Next1(s, g)]
    OBVIOUS
  <2> DEFINE h == [s \in Small(n + 1) |-> Next1(s, g)]
  <2>2. \A s \in Small(n + 1) : s # {} => s \ {Chosen(s)} \in Small(n)
    BY <1>1, ChosenIn, FS_RemoveElement
  <2>3. \A s \in Small(n) : s \in Small(n + 1) /\ h[s] = g[s]
    <3>1. \A s \in Small(n) : s \in Small(n + 1)
      BY <1>1
    <3>2. \A s \in Small(n) : g[s] = Next1(s, g)
      BY <2>1
    <3> HIDE DEF Small, Next1
    <3> QED  BY <3>1, <3>2
  <2>4. \A s \in Small(n + 1) : Next1(s, g) = Next1(s, h)
    BY <2>2, <2>3
  <2>5. h = [s \in Small(n + 1) |-> Next1(s, h)]
    BY <2>4
  <2>6. \E f : f = [s \in Small(n + 1) |-> Next1(s, f)]
    <3> HIDE DEF h, Small, Next1
    <3> QED  BY <2>5
  <2> HIDE DEF Small, Next1
  <2> QED  BY <2>6
<1>4. Cardinality(S) \in N
  <2> HIDE DEF N
  <2>1. N \in SUBSET Nat
    BY DEF N
  <2>2. N = Nat
    BY <1>2, <1>3, <2>1, NatInduct
  <2> QED  BY <2>2, FS_CardinalityType
<1>5. Small(Cardinality(S)) = SUBSET S
  BY <1>1, FS_Subset
<1> QED  BY <1>4, <1>5 DEF AreSums

LEMMA SumIsOfSums ==
    ASSUME NEW v, NEW S, IsFiniteSet(S)
    PROVE  \E g : AreSums(v, S, g) /\ SumFunctionOnSet(v, S) = g[S]
<1> DEFINE g == CHOOSE g : AreSums(v, S, g)
<1>1. AreSums(v, S, g)
  BY SumsExist
<1>2. SumFunctionOnSet(v, S) = g[S]
  BY DEF SumFunctionOnSet, FoldFunctionOnSet, MapThenFoldSet, AreSums, Chosen
<1> QED  BY <1>1, <1>2

\* The sums are the same when the values are.
LEMMA SumsAgree ==
    ASSUME NEW U, IsFiniteSet(U), NEW S \in SUBSET U, NEW v, NEW w,
           \A y \in S : v[y] = w[y],
           NEW g, AreSums(v, S, g), NEW h, AreSums(w, U, h)
    PROVE  \A s \in SUBSET S : g[s] = h[s]
<1> DEFINE T == { s \in SUBSET S : g[s] = h[s] }
<1>1. IsFiniteSet(S)
  BY FS_Subset
<1>2. {} \in T
  BY DEF AreSums
<1>3. ASSUME NEW s \in SUBSET S, s # {}, \A x \in s : s \ {x} \in T
      PROVE  s \in T
  <2>1. Chosen(s) \in s /\ s \ {Chosen(s)} \in T
    BY <1>3, ChosenIn
  <2>2. g[s] = v[Chosen(s)] + g[s \ {Chosen(s)}]
    BY <1>3 DEF AreSums
  <2>3. h[s] = w[Chosen(s)] + h[s \ {Chosen(s)}]
    BY <1>3 DEF AreSums
  <2> QED  BY <2>1, <2>2, <2>3
<1> HIDE DEF T
<1>4. SUBSET S \subseteq T
  BY <1>1, <1>2, <1>3, FiniteInduct
<1> QED  BY <1>4 DEF T

\* Any element may be added first.
LEMMA SumsAnyOrder ==
    ASSUME NEW S, IsFiniteSet(S), NEW v, \A y \in S : v[y] \in Int,
           NEW g, AreSums(v, S, g)
    PROVE  /\ g[S] \in Int
           /\ \A x \in S : g[S \ {x}] \in Int /\ g[S] = v[x] + g[S \ {x}]
<1> DEFINE First(s, x) == g[s \ {x}] \in Int /\ g[s] = v[x] + g[s \ {x}]
           T == { s \in SUBSET S : g[s] \in Int /\ \A x \in s : First(s, x) }
<1>1. {} \in T
  BY DEF AreSums
<1>2. ASSUME NEW s \in SUBSET S, s # {}, \A x \in s : s \ {x} \in T
      PROVE  s \in T
  <2> DEFINE c == Chosen(s)
  <2>1. c \in s /\ g[s \ {c}] \in Int /\ v[c] \in Int
    BY <1>2, ChosenIn
  <2>2. g[s] = v[c] + g[s \ {c}]
    BY <1>2 DEF AreSums
  <2> HIDE DEF c
  <2>3. ASSUME NEW x \in s, x # c PROVE First(s, x)
    <3>1. g[(s \ {c}) \ {x}] \in Int /\ g[s \ {c}] = v[x] + g[(s \ {c}) \ {x}]
      BY <1>2, <2>1, <2>3
    <3>2. g[s \ {x}] = v[c] + g[(s \ {x}) \ {c}]
      BY <1>2, <2>1, <2>3
    <3>3. (s \ {x}) \ {c} = (s \ {c}) \ {x}
      OBVIOUS
    <3>4. g[s \ {x}] \in Int /\ v[x] \in Int
      BY <1>2
    <3>5. g[s \ {x}] = v[c] + g[(s \ {c}) \ {x}]
      BY <3>2, <3>3
    <3>6. g[s] = v[x] + g[s \ {x}]
      BY ONLY <2>1, <2>2, <3>1, <3>4, <3>5
    <3> QED  BY <3>4, <3>6
  <2>4. First(s, c)
    BY <2>1, <2>2
  <2>5. \A x \in s : First(s, x)
    <3> HIDE DEF First
    <3> QED  BY <2>3, <2>4
  <2>6. g[s] \in Int
    BY <2>1, <2>2
  <2> QED  BY <2>5, <2>6
<1> HIDE DEF T
<1>3. SUBSET S \subseteq T
  BY <1>1, <1>2, FiniteInduct
<1> QED  BY <1>3 DEF T

-----------------------------------------------------------------------------
(* Sums                                                                    *)

\* Nothing adds up to nothing.
LEMMA SumEmpty == \A v : SumFunctionOnSet(v, {}) = 0
<1> TAKE v
<1>1. PICK g : AreSums(v, {}, g) /\ SumFunctionOnSet(v, {}) = g[{}]
  BY SumIsOfSums, FS_EmptySet
<1> QED  BY <1>1 DEF AreSums

\* A sum depends on the values it adds up, and on nothing else of the function.
LEMMA SumSame ==
    ASSUME NEW S, IsFiniteSet(S), NEW v, NEW w, \A y \in S : v[y] = w[y]
    PROVE  SumFunctionOnSet(v, S) = SumFunctionOnSet(w, S)
<1>1. PICK g : AreSums(v, S, g) /\ SumFunctionOnSet(v, S) = g[S]
  BY SumIsOfSums
<1>2. PICK h : AreSums(w, S, h) /\ SumFunctionOnSet(w, S) = h[S]
  BY SumIsOfSums
<1>3. \A s \in SUBSET S : g[s] = h[s]
  BY <1>1, <1>2, SumsAgree
<1> QED  BY <1>1, <1>2, <1>3

LEMMA SumRemove ==
    ASSUME NEW S, IsFiniteSet(S), NEW v, \A y \in S : v[y] \in Int
    PROVE  /\ SumFunctionOnSet(v, S) \in Int
           /\ \A x \in S : SumFunctionOnSet(v, S) = v[x] + SumFunctionOnSet(v, S \ {x})
<1>1. PICK g : AreSums(v, S, g) /\ SumFunctionOnSet(v, S) = g[S]
  BY SumIsOfSums
<1>2. /\ g[S] \in Int
      /\ \A x \in S : g[S \ {x}] \in Int /\ g[S] = v[x] + g[S \ {x}]
  BY <1>1, SumsAnyOrder
<1>3. ASSUME NEW x \in S PROVE SumFunctionOnSet(v, S \ {x}) = g[S \ {x}]
  <2>1. IsFiniteSet(S \ {x})
    BY FS_RemoveElement
  <2>2. PICK h : AreSums(v, S \ {x}, h) /\ SumFunctionOnSet(v, S \ {x}) = h[S \ {x}]
    BY <2>1, SumIsOfSums
  <2>3. \A s \in SUBSET (S \ {x}) : h[s] = g[s]
    BY <1>1, <2>2, SumsAgree
  <2> QED  BY <2>2, <2>3
<1> QED  BY <1>1, <1>2, <1>3

\* One more element adds its value.
LEMMA SumAdd ==
    ASSUME NEW S, IsFiniteSet(S), NEW x, x \notin S, NEW v,
           \A y \in S \cup {x} : v[y] \in Int
    PROVE  SumFunctionOnSet(v, S \cup {x}) = SumFunctionOnSet(v, S) + v[x]
<1>1. IsFiniteSet(S \cup {x}) /\ (S \cup {x}) \ {x} = S
  BY FS_AddElement
<1>2. SumFunctionOnSet(v, S \cup {x}) = v[x] + SumFunctionOnSet(v, S)
  BY <1>1, SumRemove
<1> QED  BY <1>2, SumRemove

\* A sum of natural numbers is one.
LEMMA SumNat ==
    ASSUME NEW S, IsFiniteSet(S), NEW v, \A y \in S : v[y] \in Nat
    PROVE  SumFunctionOnSet(v, S) \in Nat
<1> DEFINE T == { s \in SUBSET S : SumFunctionOnSet(v, s) \in Nat }
<1>1. {} \in T
  BY SumEmpty
<1>2. ASSUME NEW s \in SUBSET S, s # {}, \A x \in s : s \ {x} \in T
      PROVE  s \in T
  <2>1. PICK x \in s : TRUE
    BY <1>2
  <2>2. SumFunctionOnSet(v, s) = v[x] + SumFunctionOnSet(v, s \ {x})
    BY FS_Subset, SumRemove
  <2> QED  BY <1>2, <2>2
<1> HIDE DEF T
<1>3. SUBSET S \subseteq T
  BY <1>1, <1>2, FiniteInduct
<1> QED  BY <1>3 DEF T

\* A sum changes by as much as the one value that changes.
LEMMA SumChange ==
    ASSUME NEW S, IsFiniteSet(S), NEW v, NEW w, NEW x \in S, NEW d \in Int,
           \A y \in S : v[y] \in Int,
           \A y \in S \ {x} : w[y] = v[y], w[x] = v[x] + d
    PROVE  SumFunctionOnSet(w, S) = SumFunctionOnSet(v, S) + d
<1>1. IsFiniteSet(S \ {x})
  BY FS_RemoveElement
<1>2. SumFunctionOnSet(v, S \ {x}) = SumFunctionOnSet(w, S \ {x})
  BY <1>1, SumSame
<1>3. SumFunctionOnSet(v, S \ {x}) \in Int
  BY <1>1, SumRemove
<1>4. \A y \in S : w[y] \in Int
  <2>1. ASSUME NEW y \in S, y # x PROVE w[y] \in Int
    BY <2>1
  <2>2. w[x] \in Int
    OBVIOUS
  <2> QED  BY <2>1, <2>2
<1>5. SumFunctionOnSet(v, S) = v[x] + SumFunctionOnSet(v, S \ {x})
  BY SumRemove
<1>6. SumFunctionOnSet(w, S) = w[x] + SumFunctionOnSet(w, S \ {x})
  BY <1>4, SumRemove
<1> QED  BY <1>2, <1>3, <1>5, <1>6

\* One is counted more.
LEMMA SumCount ==
    ASSUME NEW S, IsFiniteSet(S), NEW v, NEW w, NEW x \in S, \A y \in S : v[y] \in Int,
           \A y \in S \ {x} : w[y] = v[y], w[x] = v[x] + 1
    PROVE  SumFunctionOnSet(w, S) = SumFunctionOnSet(v, S) + 1
<1>1. 1 \in Int
  OBVIOUS
<1> QED  BY ONLY <1>1, SumChange, IsFiniteSet(S), x \in S, \A y \in S : v[y] \in Int,
                 \A y \in S \ {x} : w[y] = v[y], w[x] = v[x] + 1

\* Two sums are added value by value.
LEMMA SumPlus ==
    ASSUME NEW S, IsFiniteSet(S), NEW u, NEW v, NEW w,
           \A y \in S : u[y] \in Int /\ v[y] \in Int /\ w[y] = u[y] + v[y]
    PROVE  SumFunctionOnSet(w, S) = SumFunctionOnSet(u, S) + SumFunctionOnSet(v, S)
<1> DEFINE Plus(s) ==
        SumFunctionOnSet(w, s) = SumFunctionOnSet(u, s) + SumFunctionOnSet(v, s)
           T == { s \in SUBSET S : Plus(s) }
<1>1. {} \in T
  BY SumEmpty
<1>2. ASSUME NEW s \in SUBSET S, s # {}, \A x \in s : s \ {x} \in T
      PROVE  s \in T
  <2>1. PICK x \in s : TRUE
    BY <1>2
  <2>2. IsFiniteSet(s) /\ IsFiniteSet(s \ {x})
    BY FS_Subset
  <2>3. /\ SumFunctionOnSet(u, s) = u[x] + SumFunctionOnSet(u, s \ {x})
        /\ SumFunctionOnSet(v, s) = v[x] + SumFunctionOnSet(v, s \ {x})
        /\ SumFunctionOnSet(w, s) = w[x] + SumFunctionOnSet(w, s \ {x})
    BY <2>2, SumRemove
  <2>4. /\ SumFunctionOnSet(u, s \ {x}) \in Int
        /\ SumFunctionOnSet(v, s \ {x}) \in Int
    BY <2>2, SumRemove
  <2>5. Plus(s \ {x})
    BY <1>2
  <2>6. Plus(s)
    BY <2>3, <2>4, <2>5
  <2> QED  BY <2>6
<1> HIDE DEF T
<1>3. SUBSET S \subseteq T
  BY <1>1, <1>2, FiniteInduct
<1> QED  BY <1>3 DEF T

LEMMA SumZero ==
    ASSUME NEW S, IsFiniteSet(S), NEW v, \A y \in S : v[y] = 0
    PROVE  SumFunctionOnSet(v, S) = 0
<1>1. SumFunctionOnSet(v, S) = SumFunctionOnSet(v, S) + SumFunctionOnSet(v, S)
  BY SumPlus
<1>2. SumFunctionOnSet(v, S) \in Int
  BY SumRemove
<1>3. \A n \in Int : n = n + n => n = 0
  OBVIOUS
<1> QED  BY ONLY <1>1, <1>2, <1>3

\* A sum of equal values.
LEMMA SumConstant ==
    ASSUME NEW S, IsFiniteSet(S), NEW v, NEW r \in Int, \A y \in S : v[y] = r
    PROVE  SumFunctionOnSet(v, S) = Cardinality(S) * r
<1> DEFINE T == { s \in SUBSET S : SumFunctionOnSet(v, s) = Cardinality(s) * r }
<1>1. {} \in T
  <2>1. Cardinality({}) * r = 0
    BY FS_EmptySet
  <2> QED  BY <2>1, SumEmpty
<1>2. ASSUME NEW s \in SUBSET S, s # {}, \A x \in s : s \ {x} \in T
      PROVE  s \in T
  <2>1. PICK x \in s : TRUE
    BY <1>2
  <2>2. IsFiniteSet(s) /\ Cardinality(s) \in Nat /\ Cardinality(s \ {x}) = Cardinality(s) - 1
    BY FS_Subset, FS_CardinalityType, FS_RemoveElement
  <2>3. SumFunctionOnSet(v, s) = v[x] + SumFunctionOnSet(v, s \ {x}) /\ v[x] = r
    BY <2>2, SumRemove
  <2>4. SumFunctionOnSet(v, s \ {x}) = Cardinality(s \ {x}) * r
    BY <1>2
  <2>5. r + (Cardinality(s) - 1) * r = Cardinality(s) * r
    BY <2>2
  <2> QED  BY <2>2, <2>3, <2>4, <2>5
<1> HIDE DEF T
<1>3. SUBSET S \subseteq T
  BY <1>1, <1>2, FiniteInduct
<1> QED  BY <1>3 DEF T

\* A sum may be taken in any order: over the places a bijection moves the
\* values to.
LEMMA SumMoved ==
    ASSUME NEW S, NEW T, IsFiniteSet(S), NEW f \in Bijection(S, T), NEW v, NEW w,
           \A x \in S : v[x] \in Int /\ w[f[x]] = v[x]
    PROVE  SumFunctionOnSet(w, T) = SumFunctionOnSet(v, S)
<1>1. /\ f \in [S -> T] /\ \A x, y \in S : f[x] = f[y] => x = y
      /\ \A z \in T : \E x \in S : f[x] = z
  BY DEF Bijection, Injection, Surjection, IsInjective
<1> DEFINE Image(s) == { f[x] : x \in s }
           Moved(s) == /\ IsFiniteSet(Image(s))
                       /\ SumFunctionOnSet(w, Image(s)) = SumFunctionOnSet(v, s)
           A == { s \in SUBSET S : Moved(s) }
<1>2. {} \in A
  <2>1. Image({}) = {}
    OBVIOUS
  <2>2. Moved({})
    BY <2>1, SumEmpty, FS_EmptySet
  <2> QED  BY <2>2
<1>3. ASSUME NEW s \in SUBSET S, s # {}, \A x \in s : s \ {x} \in A
      PROVE  s \in A
  <2>1. PICK x \in s : TRUE
    BY <1>3
  <2>2. Moved(s \ {x})
    BY <1>3
  <2>3. Image(s) = Image(s \ {x}) \cup {f[x]} /\ f[x] \notin Image(s \ {x})
    BY <1>1
  <2>4. \A z \in Image(s) : w[z] \in Int
    OBVIOUS
  <2>a. /\ IsFiniteSet(Image(s \ {x})) /\ \A z \in Image(s \ {x}) \cup {f[x]} : w[z] \in Int
        /\ SumFunctionOnSet(w, Image(s \ {x})) = SumFunctionOnSet(v, s \ {x})
    BY <2>2, <2>3, <2>4
  <2> HIDE DEF Image
  <2>5. SumFunctionOnSet(w, Image(s)) = SumFunctionOnSet(w, Image(s \ {x})) + w[f[x]]
    <3>1. SumFunctionOnSet(w, Image(s \ {x}) \cup {f[x]})
            = SumFunctionOnSet(w, Image(s \ {x})) + w[f[x]]
      <4> DEFINE rest == Image(s \ {x})
                 y == f[x]
      <4>1. IsFiniteSet(rest) /\ y \notin rest /\ \A z \in rest \cup {y} : w[z] \in Int
        BY <2>3, <2>a
      <4> HIDE DEF rest, y
      <4>2. SumFunctionOnSet(w, rest \cup {y}) = SumFunctionOnSet(w, rest) + w[y]
        BY ONLY <4>1, SumAdd, Zenon
      <4> QED  BY <4>2 DEF rest, y
    <3> QED  BY <2>3, <3>1
  <2>6. IsFiniteSet(s)
    BY FS_Subset
  <2>7. /\ SumFunctionOnSet(v, s) = v[x] + SumFunctionOnSet(v, s \ {x})
        /\ SumFunctionOnSet(v, s \ {x}) \in Int
    BY <2>6, SumRemove, FS_RemoveElement
  <2>8. IsFiniteSet(Image(s))
    <3>1. IsFiniteSet(Image(s \ {x}) \cup {f[x]})
      BY <2>a, FS_AddElement
    <3> QED  BY <2>3, <3>1
  <2>9. Moved(s)
    BY <2>a, <2>5, <2>7, <2>8
  <2> QED  BY <2>9
<1> HIDE DEF A
<1>4. SUBSET S \subseteq A
  BY <1>2, <1>3, FiniteInduct
<1>5. Image(S) = T
  BY <1>1
<1> QED  BY <1>4, <1>5 DEF A

\* The sum over one more place of a sequence.
LEMMA SumNext ==
    ASSUME NEW n \in Nat, NEW v, \A i \in 1..(n + 1) : v[i] \in Int
    PROVE  SumFunctionOnSet(v, 1..(n + 1)) = SumFunctionOnSet(v, 1..n) + v[n + 1]
<1> DEFINE S == 1..n
           x == n + 1
<1>1. 1..(n + 1) = S \cup {x} /\ x \notin S
  OBVIOUS
<1>2. IsFiniteSet(S)
  BY FS_Interval
<1>3. \A i \in S \cup {x} : v[i] \in Int
  BY <1>1
<1>4. SumFunctionOnSet(v, S \cup {x}) = SumFunctionOnSet(v, S) + v[x]
  <2> HIDE DEF S, x
  <2> QED  BY <1>1, <1>2, <1>3, SumAdd
<1> QED  BY <1>1, <1>4

\* Places that hold nothing add nothing.
LEMMA SumWithZeros ==
    ASSUME NEW S, IsFiniteSet(S), NEW T \in SUBSET S, NEW v,
           \A y \in S : v[y] \in Int, \A y \in S \ T : v[y] = 0
    PROVE  SumFunctionOnSet(v, S) = SumFunctionOnSet(v, T)
<1> DEFINE R == S \ T
           A == { s \in SUBSET R : SumFunctionOnSet(v, T \cup s) = SumFunctionOnSet(v, T) }
<1>1. IsFiniteSet(R) /\ IsFiniteSet(T) /\ SumFunctionOnSet(v, T) \in Int
  <2>1. IsFiniteSet(R) /\ IsFiniteSet(T)
    BY FS_Subset
  <2> QED  BY <2>1, SumRemove
<1>2. {} \in A
  <2>1. T \cup {} = T
    OBVIOUS
  <2> QED  BY <2>1
<1>3. ASSUME NEW s \in SUBSET R, s # {}, \A x \in s : s \ {x} \in A
      PROVE  s \in A
  <2>1. PICK x \in s : TRUE
    BY <1>3
  <2> DEFINE U == T \cup (s \ {x})
  <2>2. U \in SUBSET S /\ x \notin U /\ U \cup {x} = T \cup s /\ v[x] = 0
    BY <2>1
  <2>3. IsFiniteSet(U) /\ \A y \in U \cup {x} : v[y] \in Int
    <3>1. x \in S
      BY <2>1
    <3> HIDE DEF U
    <3>2. IsFiniteSet(U)
      BY <2>2, FS_Subset
    <3> QED  BY <2>2, <3>1, <3>2
  <2>4. SumFunctionOnSet(v, U) = SumFunctionOnSet(v, T)
    BY <1>3, <2>1
  <2> HIDE DEF U
  <2>5. SumFunctionOnSet(v, U \cup {x}) = SumFunctionOnSet(v, U) + v[x]
    BY <2>2, <2>3, SumAdd
  <2>6. SumFunctionOnSet(v, T \cup s) = SumFunctionOnSet(v, T)
    <3>1. SumFunctionOnSet(v, U \cup {x}) = SumFunctionOnSet(v, T) + 0
      BY <2>2, <2>4, <2>5
    <3>2. SumFunctionOnSet(v, U \cup {x}) = SumFunctionOnSet(v, T)
      BY <1>1, <3>1
    <3> QED  BY <2>2, <3>2, Zenon
  <2> QED  BY <2>6
<1> HIDE DEF A
<1>4. SUBSET R \subseteq A
  BY <1>1, <1>2, <1>3, FiniteInduct
<1>5. T \cup R = S /\ R \in A
  BY <1>4
<1> QED  BY <1>5 DEF A

=============================================================================
