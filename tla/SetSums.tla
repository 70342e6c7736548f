------------------------------- MODULE SetSums ------------------------------
(***************************************************************************)
(* Lemmas about sums over finite sets (MapThenSumSet), for the proofs      *)
(* about money.  Induction is a minimal counterexample: a set of subsets   *)
(* of a finite set has a minimal one.                                      *)
(***************************************************************************)
EXTENDS Integers, FiniteSets, FiniteSetsExt, Functions, FiniteSetTheorems, TLAPS

\* The sum of v[x] for the elements x of S.
SumOf(v, S) == MapThenSumSet(LAMBDA x : v[x], S)

\* The element the sum takes first.
Elt(s) == CHOOSE x \in s : TRUE

\* g is the function MapThenSumSet defines by recursion.
IsSum(g, v, S) ==
  g = [s \in SUBSET S |-> IF s = {} THEN 0 ELSE v[Elt(s)] + g[s \ {Elt(s)}]]

\* A set of subsets of a finite set has a minimal one.
LEMMA MinimalSubset ==
  ASSUME NEW S, IsFiniteSet(S), NEW Q \in SUBSET (SUBSET S), Q # {}
  PROVE  \E A \in Q : \A B \in Q : B \subseteq A => B = A
<1>1. /\ IsWellFoundedOn(StrictSubsetOrdering(S), FiniteSubsetsOf(S))
      /\ FiniteSubsetsOf(S) = SUBSET S
  BY FS_StrictSubsetOrderingWellFounded, FS_FiniteSubsetsOfFinite
<1>2. PICK A \in Q : \A B \in Q : <<B, A>> \notin StrictSubsetOrdering(S)
  BY <1>1, WFMin
<1> QED
  BY <1>2 DEF StrictSubsetOrdering

\* The first element is an element.
LEMMA EltIn == \A s : s # {} => Elt(s) \in s
  BY DEF Elt

\* Two such functions agree where both are defined.
LEMMA SumUnique ==
  ASSUME NEW v, NEW S, IsFiniteSet(S), NEW T, NEW g, NEW h, IsSum(g, v, S), IsSum(h, v, T)
  PROVE  \A s \in SUBSET S : s \in SUBSET T => g[s] = h[s]
<1> DEFINE Q == {s \in SUBSET S : s \in SUBSET T /\ g[s] # h[s]}
<1>1. SUFFICES ASSUME Q # {} PROVE FALSE
  OBVIOUS
<1>2. PICK A \in Q : \A B \in Q : B \subseteq A => B = A
  <2>1. Q \in SUBSET (SUBSET S)
    OBVIOUS
  <2> HIDE DEF Q
  <2> QED
    BY <1>1, <2>1, MinimalSubset
<1>3. A # {}
  BY <1>2 DEF IsSum
<1>4. Elt(A) \in A
  BY <1>3, EltIn
<1>5. g[A \ {Elt(A)}] = h[A \ {Elt(A)}]
  BY <1>2, <1>4
<1>6. g[A] = v[Elt(A)] + g[A \ {Elt(A)}] /\ h[A] = v[Elt(A)] + h[A \ {Elt(A)}]
  BY <1>2, <1>3 DEF IsSum
<1> QED
  BY <1>2, <1>5, <1>6

\* The sum is the value at S of such a function, if there is one.
LEMMA SumIs ==
  ASSUME NEW v, NEW S, NEW g, IsSum(g, v, S)
  PROVE  \E h : IsSum(h, v, S) /\ SumOf(v, S) = h[S]
<1> DEFINE it == CHOOSE h : IsSum(h, v, S)
<1>1. IsSum(it, v, S)
  BY Zenon
<1>2. SumOf(v, S) = it[S]
  BY DEF SumOf, MapThenSumSet, MapThenFoldSet, IsSum, Elt
<1> QED
  BY <1>1, <1>2

\* What the sums of the smaller sets say about each other.
LEMMA SumStep ==
  ASSUME NEW v, NEW S, IsFiniteSet(S), S # {}, NEW g, IsSum(g, v, S),
         NEW h, IsSum(h, v, S \ {Elt(S)})
  PROVE  SumOf(v, S) = v[Elt(S)] + SumOf(v, S \ {Elt(S)})
<1> DEFINE R == S \ {Elt(S)}
<1>1. PICK k : IsSum(k, v, S) /\ SumOf(v, S) = k[S]
  BY SumIs
<1>2. PICK l : IsSum(l, v, R) /\ SumOf(v, R) = l[R]
  BY SumIs
<1>3. k[R] = l[R]
  <2>1. R \in SUBSET S /\ R \in SUBSET R
    OBVIOUS
  <2> QED
    BY <1>1, <1>2, <2>1, SumUnique
<1>4. k[S] = v[Elt(S)] + k[R]
  BY <1>1 DEF IsSum
<1> QED
  BY <1>1, <1>2, <1>3, <1>4

\* There is such a function for every finite set.
LEMMA SumExists ==
  ASSUME NEW v, NEW S, IsFiniteSet(S)
  PROVE  \E g : IsSum(g, v, S)
<1> DEFINE Q == {A \in SUBSET S : ~ \E g : IsSum(g, v, A)}
<1>1. SUFFICES ASSUME Q # {} PROVE FALSE
  OBVIOUS
<1>2. PICK A \in Q : \A B \in Q : B \subseteq A => B = A
  <2>1. Q \in SUBSET (SUBSET S)
    OBVIOUS
  <2> HIDE DEF Q
  <2> QED
    BY <1>1, <2>1, MinimalSubset
<1>3. \A B \in SUBSET A : B # A => \E g : IsSum(g, v, B)
  BY <1>2
<1>4. \A B \in SUBSET A : IsFiniteSet(B)
  BY FS_Subset
<1>5. \A B \in SUBSET A : B # A /\ B # {} => SumOf(v, B) = v[Elt(B)] + SumOf(v, B \ {Elt(B)})
  <2> SUFFICES ASSUME NEW B \in SUBSET A, B # A, B # {}
               PROVE  SumOf(v, B) = v[Elt(B)] + SumOf(v, B \ {Elt(B)})
    OBVIOUS
  <2>1. PICK g : IsSum(g, v, B)
    BY <1>3
  <2>2. B \ {Elt(B)} \in SUBSET A /\ B \ {Elt(B)} # A
    OBVIOUS
  <2>3. PICK h : IsSum(h, v, B \ {Elt(B)})
    BY <1>3, <2>2
  <2> QED
    BY <1>4, <2>1, <2>3, SumStep
<1>6. A # {} => SumOf(v, {}) = 0
  <2>1. ASSUME A # {} PROVE SumOf(v, {}) = 0
    <3>1. PICK g : IsSum(g, v, {})
      BY <1>3, <2>1
    <3>2. PICK h : IsSum(h, v, {}) /\ SumOf(v, {}) = h[{}]
      BY <3>1, SumIs
    <3> QED
      BY <3>2 DEF IsSum
  <2> QED
    BY <2>1
<1> DEFINE whole == IF A = {} THEN 0 ELSE v[Elt(A)] + SumOf(v, A \ {Elt(A)})
           G == [s \in SUBSET A |-> IF s = A THEN whole ELSE SumOf(v, s)]
<1>7. ASSUME NEW s \in SUBSET A
      PROVE  G[s] = IF s = {} THEN 0 ELSE v[Elt(s)] + G[s \ {Elt(s)}]
  <2>1. CASE s = {}
    BY <1>6, <2>1
  <2>2. CASE s # {}
    <3>1. Elt(s) \in s
      BY <2>2, EltIn
    <3>2. G[s \ {Elt(s)}] = SumOf(v, s \ {Elt(s)})
      BY <3>1
    <3>3. G[s] = v[Elt(s)] + SumOf(v, s \ {Elt(s)})
      BY <1>5, <2>2
    <3> QED
      BY <2>2, <3>2, <3>3
  <2> QED
    BY <2>1, <2>2
<1>8. IsSum(G, v, A)
  <2>1. G = [s \in SUBSET A |-> G[s]]
    OBVIOUS
  <2> HIDE DEF G
  <2>2. [s \in SUBSET A |-> G[s]]
        = [s \in SUBSET A |-> IF s = {} THEN 0 ELSE v[Elt(s)] + G[s \ {Elt(s)}]]
    BY <1>7
  <2> QED
    BY <2>1, <2>2 DEF IsSum
<1> QED
  BY <1>2, <1>8

\* The sum by its recursion.
LEMMA SumRec ==
  ASSUME NEW v, NEW S, IsFiniteSet(S)
  PROVE  SumOf(v, S) = IF S = {} THEN 0 ELSE v[Elt(S)] + SumOf(v, S \ {Elt(S)})
<1>1. CASE S = {}
  <2>1. PICK g : IsSum(g, v, S) /\ SumOf(v, S) = g[S]
    BY SumExists, SumIs
  <2> QED
    BY <1>1, <2>1 DEF IsSum
<1>2. CASE S # {}
  <2>1. IsFiniteSet(S \ {Elt(S)})
    BY FS_Subset
  <2>2. PICK g : IsSum(g, v, S)
    BY SumExists
  <2>3. PICK h : IsSum(h, v, S \ {Elt(S)})
    BY <2>1, SumExists
  <2> QED
    BY <1>2, <2>2, <2>3, SumStep
<1> QED
  BY <1>1, <1>2

\* A sum of members of N is one, when N is closed under addition.
LEMMA SumClosed ==
  ASSUME NEW v, NEW S, IsFiniteSet(S), NEW N, 0 \in N, \A a, b \in N : a + b \in N,
         \A x \in S : v[x] \in N
  PROVE  SumOf(v, S) \in N
<1> DEFINE Q == {A \in SUBSET S : SumOf(v, A) \notin N}
<1>1. SUFFICES ASSUME Q # {} PROVE FALSE
  OBVIOUS
<1>2. PICK A \in Q : \A B \in Q : B \subseteq A => B = A
  <2>1. Q \in SUBSET (SUBSET S)
    OBVIOUS
  <2> HIDE DEF Q
  <2> QED
    BY <1>1, <2>1, MinimalSubset
<1>3. IsFiniteSet(A)
  BY FS_Subset
<1>4. A # {}
  BY <1>2, <1>3, SumRec
<1>5. Elt(A) \in A
  BY <1>4, EltIn
<1>6. SumOf(v, A \ {Elt(A)}) \in N /\ v[Elt(A)] \in N
  BY <1>2, <1>5
<1>7. SumOf(v, A) = v[Elt(A)] + SumOf(v, A \ {Elt(A)})
  BY <1>3, <1>4, SumRec
<1> QED
  BY <1>2, <1>6, <1>7

\* A sum of integers is one, and a sum of natural numbers.
LEMMA SumType ==
  ASSUME NEW v, NEW S, IsFiniteSet(S)
  PROVE  /\ (\A x \in S : v[x] \in Int) => SumOf(v, S) \in Int
         /\ (\A x \in S : v[x] \in Nat) => SumOf(v, S) \in Nat
<1>1. 0 \in Int /\ (\A a, b \in Int : a + b \in Int) /\ 0 \in Nat /\ \A a, b \in Nat : a + b \in Nat
  OBVIOUS
<1> QED
  BY <1>1, SumClosed

\* Any element can be taken out of the sum.
LEMMA SumRemove ==
  ASSUME NEW v, NEW S, IsFiniteSet(S), \A x \in S : v[x] \in Int, NEW x \in S
  PROVE  SumOf(v, S) = v[x] + SumOf(v, S \ {x})
<1> DEFINE Q == {A \in SUBSET S : \E y \in A : SumOf(v, A) # v[y] + SumOf(v, A \ {y})}
<1>1. SUFFICES ASSUME Q # {} PROVE FALSE
  OBVIOUS
<1>2. PICK A \in Q : \A B \in Q : B \subseteq A => B = A
  <2>1. Q \in SUBSET (SUBSET S)
    OBVIOUS
  <2> HIDE DEF Q
  <2> QED
    BY <1>1, <2>1, MinimalSubset
<1>3. PICK y \in A : SumOf(v, A) # v[y] + SumOf(v, A \ {y})
  BY <1>2
<1> DEFINE e == Elt(A)
<1>4. e \in A /\ A # {}
  BY <1>3, EltIn
<1>5. \A B \in SUBSET A : IsFiniteSet(B) /\ SumOf(v, B) \in Int
  BY FS_Subset, SumType
<1>6. SumOf(v, A) = v[e] + SumOf(v, A \ {e})
  BY <1>4, <1>5, SumRec
<1>7. e # y
  BY <1>3, <1>6
<1>8. \A B \in SUBSET A : \A z \in B : B # A => SumOf(v, B) = v[z] + SumOf(v, B \ {z})
  BY <1>2
<1>9. SumOf(v, A \ {e}) = v[y] + SumOf(v, (A \ {e}) \ {y})
  BY <1>4, <1>7, <1>8
<1>10. SumOf(v, A \ {y}) = v[e] + SumOf(v, (A \ {y}) \ {e})
  BY <1>4, <1>7, <1>8
<1>11. (A \ {e}) \ {y} = (A \ {y}) \ {e}
  OBVIOUS
<1>12. v[e] \in Int /\ v[y] \in Int /\ SumOf(v, (A \ {y}) \ {e}) \in Int
  BY <1>4, <1>5
<1> DEFINE r == SumOf(v, (A \ {y}) \ {e})
<1>13. SumOf(v, A) = v[e] + (v[y] + r) /\ v[y] + SumOf(v, A \ {y}) = v[y] + (v[e] + r)
  BY <1>6, <1>9, <1>10, <1>11
<1>14. v[e] + (v[y] + r) = v[y] + (v[e] + r)
  <2> HIDE DEF r, e
  <2> QED
    BY <1>12 DEF r
<1> QED
  BY <1>3, <1>13, <1>14

\* An element can be added to the sum.
LEMMA SumAdd ==
  ASSUME NEW v, NEW S, IsFiniteSet(S), \A x \in S : v[x] \in Int,
         NEW x, x \notin S, v[x] \in Int
  PROVE  SumOf(v, S \cup {x}) = v[x] + SumOf(v, S)
<1>1. IsFiniteSet(S \cup {x}) /\ (S \cup {x}) \ {x} = S
  BY FS_AddElement
<1> QED
  BY <1>1, SumRemove

\* The sum over two sets that have nothing in common.
LEMMA SumUnion ==
  ASSUME NEW v, NEW S, NEW T, IsFiniteSet(S), IsFiniteSet(T), S \cap T = {},
         \A x \in S \cup T : v[x] \in Int
  PROVE  SumOf(v, S \cup T) = SumOf(v, S) + SumOf(v, T)
<1> DEFINE Q == {A \in SUBSET T : SumOf(v, S \cup A) # SumOf(v, S) + SumOf(v, A)}
<1>1. SUFFICES ASSUME Q # {} PROVE FALSE
  OBVIOUS
<1>2. PICK A \in Q : \A B \in Q : B \subseteq A => B = A
  <2>1. Q \in SUBSET (SUBSET T)
    OBVIOUS
  <2> HIDE DEF Q
  <2> QED
    BY <1>1, <2>1, MinimalSubset
<1>3. IsFiniteSet(S \cup T)
  BY FS_Union
<1>4. \A B \in SUBSET (S \cup T) : IsFiniteSet(B) /\ SumOf(v, B) \in Int
  BY <1>3, FS_Subset, SumType
<1>5. A # {}
  <2>1. S \cup {} = S /\ SumOf(v, {}) = 0 /\ SumOf(v, S) \in Int
    BY <1>4, FS_EmptySet, SumRec
  <2>2. SumOf(v, S) + 0 = SumOf(v, S)
    BY <2>1
  <2> QED
    BY <1>2, <2>1, <2>2
<1>6. PICK x \in A : TRUE
  BY <1>5
<1> DEFINE B == A \ {x}
<1>7. SumOf(v, S \cup B) = SumOf(v, S) + SumOf(v, B)
  BY <1>2
<1>8. SumOf(v, A) = v[x] + SumOf(v, B)
  BY <1>4, SumRemove
<1>9. SumOf(v, S \cup A) = v[x] + SumOf(v, S \cup B)
  <2>1. (S \cup A) \ {x} = S \cup B /\ x \in S \cup A /\ S \cup A \in SUBSET (S \cup T)
    OBVIOUS
  <2> QED
    BY <1>4, <2>1, SumRemove
<1>10. SumOf(v, S) \in Int /\ SumOf(v, B) \in Int /\ v[x] \in Int
  BY <1>4
<1>11. SumOf(v, S \cup A) # SumOf(v, S) + SumOf(v, A)
  BY <1>2
<1> HIDE DEF B
<1> QED
  BY <1>7, <1>8, <1>9, <1>10, <1>11

\* The sum depends on the values of the elements only.
LEMMA SumSame ==
  ASSUME NEW v, NEW w, NEW S, IsFiniteSet(S), \A x \in S : v[x] = w[x]
  PROVE  SumOf(v, S) = SumOf(w, S)
<1> DEFINE Q == {A \in SUBSET S : SumOf(v, A) # SumOf(w, A)}
<1>1. SUFFICES ASSUME Q # {} PROVE FALSE
  OBVIOUS
<1>2. PICK A \in Q : \A B \in Q : B \subseteq A => B = A
  <2>1. Q \in SUBSET (SUBSET S)
    OBVIOUS
  <2> HIDE DEF Q
  <2> QED
    BY <1>1, <2>1, MinimalSubset
<1>3. IsFiniteSet(A)
  BY FS_Subset
<1>4. A # {}
  BY <1>2, <1>3, SumRec
<1>5. Elt(A) \in A
  BY <1>4, EltIn
<1>6. SumOf(v, A \ {Elt(A)}) = SumOf(w, A \ {Elt(A)}) /\ v[Elt(A)] = w[Elt(A)]
  BY <1>2, <1>5
<1>7. /\ SumOf(v, A) = v[Elt(A)] + SumOf(v, A \ {Elt(A)})
      /\ SumOf(w, A) = w[Elt(A)] + SumOf(w, A \ {Elt(A)})
  BY <1>3, <1>4, SumRec
<1> QED
  BY <1>2, <1>6, <1>7

\* The sum of a function's values.
LEMMA SumFunctionIs == ASSUME NEW f PROVE SumFunction(f) = SumOf(f, DOMAIN f)
BY DEF SumFunction, SumFunctionOnSet, FoldFunctionOnSet, SumOf, MapThenSumSet, MapThenFoldSet

\* The sum of nothing.
LEMMA SumEmpty == ASSUME NEW v PROVE SumOf(v, {}) = 0
BY FS_EmptySet, SumRec

\* A sum in which one summand changes.
LEMMA SumChange ==
  ASSUME NEW v, NEW w, NEW S, IsFiniteSet(S), \A y \in S : v[y] \in Int /\ w[y] \in Int,
         NEW x \in S, \A y \in S : y # x => v[y] = w[y]
  PROVE  SumOf(w, S) = SumOf(v, S) - v[x] + w[x]
<1>1. SumOf(v, S) = v[x] + SumOf(v, S \ {x}) /\ SumOf(w, S) = w[x] + SumOf(w, S \ {x})
  BY SumRemove
<1>2. IsFiniteSet(S \ {x})
  BY FS_RemoveElement
<1>3. SumOf(v, S \ {x}) = SumOf(w, S \ {x})
  BY <1>2, SumSame
<1>4. SumOf(v, S \ {x}) \in Int /\ v[x] \in Int /\ w[x] \in Int
  BY <1>2, SumType
<1> QED
  BY <1>1, <1>3, <1>4

\* The sum of sums.
LEMMA SumPlus ==
  ASSUME NEW u, NEW v, NEW w, NEW S, IsFiniteSet(S),
         \A x \in S : v[x] \in Int /\ w[x] \in Int /\ u[x] = v[x] + w[x]
  PROVE  SumOf(u, S) = SumOf(v, S) + SumOf(w, S)
<1> DEFINE Q == {A \in SUBSET S : SumOf(u, A) # SumOf(v, A) + SumOf(w, A)}
<1>1. SUFFICES ASSUME Q # {} PROVE FALSE
  OBVIOUS
<1>2. PICK A \in Q : \A B \in Q : B \subseteq A => B = A
  <2>1. Q \in SUBSET (SUBSET S)
    OBVIOUS
  <2> HIDE DEF Q
  <2> QED
    BY <1>1, <2>1, MinimalSubset
<1>3. IsFiniteSet(A) /\ A \in SUBSET S
  BY FS_Subset
<1>4. A # {}
  <2>1. SumOf(u, {}) = 0 /\ SumOf(v, {}) = 0 /\ SumOf(w, {}) = 0
    BY SumEmpty
  <2>2. SumOf(u, {}) = SumOf(v, {}) + SumOf(w, {})
    BY <2>1
  <2> QED
    BY <1>2, <2>2, Zenon
<1>5. Elt(A) \in A
  BY <1>4, EltIn
<1>6. SumOf(u, A \ {Elt(A)}) = SumOf(v, A \ {Elt(A)}) + SumOf(w, A \ {Elt(A)})
  BY <1>2, <1>5
<1>7. /\ SumOf(u, A) = u[Elt(A)] + SumOf(u, A \ {Elt(A)})
      /\ SumOf(v, A) = v[Elt(A)] + SumOf(v, A \ {Elt(A)})
      /\ SumOf(w, A) = w[Elt(A)] + SumOf(w, A \ {Elt(A)})
  BY <1>3, <1>4, SumRec
<1>8. SumOf(v, A \ {Elt(A)}) \in Int /\ SumOf(w, A \ {Elt(A)}) \in Int
  <2>1. IsFiniteSet(A \ {Elt(A)}) /\ \A x \in A \ {Elt(A)} : v[x] \in Int /\ w[x] \in Int
    BY <1>3, FS_RemoveElement
  <2> QED
    BY <2>1, SumType
<1>9. v[Elt(A)] \in Int /\ w[Elt(A)] \in Int /\ u[Elt(A)] = v[Elt(A)] + w[Elt(A)]
  BY <1>3, <1>5
<1> QED
  BY <1>2, <1>6, <1>7, <1>8, <1>9

\* The sum of a constant.
LEMMA SumConst ==
  ASSUME NEW v, NEW S, IsFiniteSet(S), NEW c \in Int, \A x \in S : v[x] = c
  PROVE  SumOf(v, S) = Cardinality(S) * c
<1> DEFINE Q == {A \in SUBSET S : SumOf(v, A) # Cardinality(A) * c}
<1>1. SUFFICES ASSUME Q # {} PROVE FALSE
  OBVIOUS
<1>2. PICK A \in Q : \A B \in Q : B \subseteq A => B = A
  <2>1. Q \in SUBSET (SUBSET S)
    OBVIOUS
  <2> HIDE DEF Q
  <2> QED
    BY <1>1, <2>1, MinimalSubset
<1>3. IsFiniteSet(A) /\ A \in SUBSET S
  BY FS_Subset
<1>4. A # {}
  <2>1. SumOf(v, {}) = 0 /\ Cardinality({}) = 0
    BY FS_EmptySet, SumEmpty
  <2>2. SumOf(v, {}) = Cardinality({}) * c
    BY <2>1
  <2> QED
    BY <1>2, <2>2, Zenon
<1>5. Elt(A) \in A
  BY <1>4, EltIn
<1>6. SumOf(v, A \ {Elt(A)}) = Cardinality(A \ {Elt(A)}) * c
  BY <1>2, <1>5
<1>7. SumOf(v, A) = c + SumOf(v, A \ {Elt(A)})
  BY <1>3, <1>4, <1>5, SumRec
<1>8. PICK n \in Nat : n = Cardinality(A \ {Elt(A)}) /\ Cardinality(A) = n + 1
  <2>1. Cardinality(A \ {Elt(A)}) = Cardinality(A) - 1 /\ Cardinality(A) \in Nat
        /\ Cardinality(A \ {Elt(A)}) \in Nat
    BY <1>3, <1>5, FS_RemoveElement, FS_CardinalityType
  <2> QED
    BY <2>1
<1>9. (n + 1) * c = n * c + c /\ n * c \in Int
  OBVIOUS
<1> QED
  BY <1>2, <1>6, <1>7, <1>8, <1>9

\* A sum over disjoint sets, by set.
LEMMA SumDisjoint ==
  ASSUME NEW v, NEW S, IsFiniteSet(S), \A x \in S : v[x] \in Int, NEW K, IsFiniteSet(K),
         NEW P \in [K -> SUBSET S], \A k, l \in K : k # l => P[k] \cap P[l] = {},
         NEW u, \A k \in K : u[k] = SumOf(v, P[k])
  PROVE  SumOf(u, K) = SumOf(v, UNION {P[k] : k \in K})
<1> DEFINE U(A) == UNION {P[k] : k \in A}
           Q == {A \in SUBSET K : SumOf(u, A) # SumOf(v, U(A))}
<1>1. SUFFICES ASSUME Q # {} PROVE FALSE
  OBVIOUS
<1>2. PICK A \in Q : \A B \in Q : B \subseteq A => B = A
  <2>1. Q \in SUBSET (SUBSET K)
    OBVIOUS
  <2> HIDE DEF Q
  <2> QED
    BY <1>1, <2>1, MinimalSubset
<1>3. IsFiniteSet(A) /\ A \in SUBSET K
  BY FS_Subset
<1>4. A # {}
  <2>1. SumOf(u, {}) = 0 /\ SumOf(v, {}) = 0 /\ U({}) = {}
    BY FS_EmptySet, SumEmpty
  <2> QED
    BY <1>2, <2>1
<1>5. PICK k \in K : k = Elt(A) /\ k \in A
  BY <1>3, <1>4, EltIn
<1>6. SumOf(u, A \ {k}) = SumOf(v, U(A \ {k}))
  BY <1>2, <1>5
<1>7. SumOf(u, A) = u[k] + SumOf(u, A \ {k})
  BY <1>3, <1>4, <1>5, SumRec
<1>8. /\ U(A) = U(A \ {k}) \cup P[k] /\ U(A \ {k}) \cap P[k] = {}
      /\ U(A \ {k}) \subseteq S /\ P[k] \subseteq S
  BY <1>3, <1>5
<1> HIDE DEF U
<1>9. SumOf(v, U(A)) = SumOf(v, U(A \ {k})) + SumOf(v, P[k])
  <2>1. IsFiniteSet(U(A \ {k})) /\ IsFiniteSet(P[k])
    BY <1>8, FS_Subset
  <2>2. \A x \in U(A \ {k}) \cup P[k] : v[x] \in Int
    BY <1>8
  <2>3. PICK B, C : B = U(A \ {k}) /\ C = P[k]
    OBVIOUS
  <2>4. /\ IsFiniteSet(B) /\ IsFiniteSet(C) /\ B \cap C = {}
        /\ \A x \in B \cup C : v[x] \in Int
    BY <1>8, <2>1, <2>2, <2>3
  <2>5. SumOf(v, B \cup C) = SumOf(v, B) + SumOf(v, C)
    BY ONLY <2>4, SumUnion
  <2> QED
    BY <1>8, <2>3, <2>5
<1>10. SumOf(v, U(A \ {k})) \in Int /\ SumOf(v, P[k]) \in Int
  <2>1. IsFiniteSet(U(A \ {k})) /\ IsFiniteSet(P[k])
    BY <1>8, FS_Subset
  <2>2. \A x \in U(A \ {k}) \cup P[k] : v[x] \in Int
    BY <1>8
  <2> QED
    BY <2>1, <2>2, SumType
<1> QED
  BY <1>2, <1>5, <1>6, <1>7, <1>9, <1>10

\* The image of a finite set is finite.
LEMMA FiniteImage ==
  ASSUME NEW S, NEW T, NEW f \in [S -> T], \A z \in T : \E x \in S : f[x] = z, IsFiniteSet(S)
  PROVE  IsFiniteSet(T)
<1>1. f \in Surjection(S, T)
  BY DEF Surjection
<1> QED
  BY <1>1, FS_Surjection

\* A sum over other names.
LEMMA SumBijection ==
  ASSUME NEW v, NEW w, NEW S, NEW T, IsFiniteSet(S), NEW f \in [S -> T],
         \A x, y \in S : f[x] = f[y] => x = y, \A z \in T : \E x \in S : f[x] = z,
         \A x \in S : v[x] \in Int /\ v[x] = w[f[x]]
  PROVE  SumOf(v, S) = SumOf(w, T)
<1> DEFINE Im(A) == {f[x] : x \in A}
           Q == {A \in SUBSET S : SumOf(v, A) # SumOf(w, Im(A))}
<1>0. Im(S) = T
  OBVIOUS
<1>1. SUFFICES ASSUME Q # {} PROVE FALSE
  BY <1>0
<1>2. PICK A \in Q : \A B \in Q : B \subseteq A => B = A
  <2>1. Q \in SUBSET (SUBSET S)
    OBVIOUS
  <2> HIDE DEF Q
  <2> QED
    BY <1>1, <2>1, MinimalSubset
<1>3. IsFiniteSet(A) /\ A \in SUBSET S
  BY FS_Subset
<1>4. A # {}
  <2>1. SumOf(v, {}) = 0 /\ SumOf(w, {}) = 0 /\ Im({}) = {}
    BY FS_EmptySet, SumEmpty
  <2> QED
    BY <1>2, <2>1
<1>5. PICK x \in S : x = Elt(A) /\ x \in A
  BY <1>3, <1>4, EltIn
<1>6. SumOf(v, A \ {x}) = SumOf(w, Im(A \ {x}))
  BY <1>2, <1>5
<1>7. SumOf(v, A) = v[x] + SumOf(v, A \ {x})
  BY <1>3, <1>4, <1>5, SumRec
<1>8. Im(A) = Im(A \ {x}) \cup {f[x]} /\ f[x] \notin Im(A \ {x})
  BY <1>3, <1>5
<1>9. IsFiniteSet(Im(A \ {x}))
  <2>1. IsFiniteSet(A \ {x})
    BY <1>3, FS_RemoveElement
  <2>2. PICK B : B = A \ {x}
    OBVIOUS
  <2>3. PICK g : g = [y \in B |-> f[y]]
    OBVIOUS
  <2>4. g \in [B -> Im(B)] /\ \A z \in Im(B) : \E y \in B : g[y] = z
    BY <1>3, <2>2, <2>3
  <2> HIDE DEF Im
  <2>5. PICK I : I = Im(B)
    OBVIOUS
  <2>6. IsFiniteSet(I)
    BY <2>1, <2>2, <2>4, <2>5, FiniteImage
  <2> QED
    BY <2>2, <2>5, <2>6
<1>10. \A y \in Im(A \ {x}) : w[y] \in Int
  BY <1>3
<1> HIDE DEF Im
<1>11. SumOf(w, Im(A)) = w[f[x]] + SumOf(w, Im(A \ {x}))
  <2>1. w[f[x]] \in Int
    BY <1>5
  <2>2. SumOf(w, Im(A \ {x}) \cup {f[x]}) = w[f[x]] + SumOf(w, Im(A \ {x}))
    BY <1>8, <1>9, <1>10, <2>1, SumAdd
  <2> QED
    BY <1>8, <2>2
<1> QED
  BY <1>2, <1>6, <1>7, <1>11

\* A sum in which the summands of some elements grow by one.
LEMMA SumCount ==
  ASSUME NEW v, NEW w, NEW S, IsFiniteSet(S), NEW A \in SUBSET S,
         \A x \in S : v[x] \in Int /\ w[x] = v[x] + (IF x \in A THEN 1 ELSE 0)
  PROVE  SumOf(w, S) = SumOf(v, S) + Cardinality(A)
<1>1. PICK u : u = [x \in S |-> IF x \in A THEN 1 ELSE 0]
  OBVIOUS
<1>2. /\ \A x \in A : u[x] = 1
      /\ \A x \in S \ A : u[x] = 0
      /\ \A x \in S : v[x] \in Int /\ u[x] \in Int /\ w[x] = v[x] + u[x]
  BY <1>1
<1>3. SumOf(w, S) = SumOf(v, S) + SumOf(u, S)
  BY <1>2, SumPlus
<1>4. IsFiniteSet(A) /\ IsFiniteSet(S \ A)
  <2>1. S \ A \in SUBSET S
    OBVIOUS
  <2> QED
    BY <2>1, FS_Subset
<1>5. Cardinality(A) \in Nat /\ Cardinality(S \ A) \in Nat
  BY <1>4, FS_CardinalityType
<1>6. SumOf(u, A) = Cardinality(A) * 1
  BY <1>2, <1>4, SumConst
<1>7. SumOf(u, S \ A) = Cardinality(S \ A) * 0
  BY <1>2, <1>4, SumConst
<1>8. \A n \in Nat : n * 1 = n /\ n * 0 = 0
  OBVIOUS
<1>9. A \cap (S \ A) = {} /\ S = A \cup (S \ A) /\ \A x \in A \cup (S \ A) : u[x] \in Int
  BY <1>2
<1>10. SumOf(u, A \cup (S \ A)) = SumOf(u, A) + SumOf(u, S \ A)
  BY <1>4, <1>9, SumUnion
<1>11. SumOf(u, A) = Cardinality(A) /\ SumOf(u, S \ A) = 0
  BY <1>5, <1>6, <1>7, <1>8
<1>12. SumOf(u, S) = Cardinality(A)
  BY <1>5, <1>9, <1>10, <1>11
<1> QED
  BY <1>3, <1>12
=============================================================================
