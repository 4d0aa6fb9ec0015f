--------------------------- MODULE LRUCacheProofs ---------------------------
(***************************************************************************)
(* Proofs about LRUCache for any keys, values and sizes, any number of     *)
(* Gets under way and any interleaving with Clear and the cleanup loop.    *)
(***************************************************************************)
EXTENDS LRUCache, FiniteSetTheorems, TLAPS

-----------------------------------------------------------------------------
(* Sums over finite sets.  The library's sum is a recursive function on the  *)
(* subsets; what it computes is proved with a smallest counterexample.       *)

\* A set of natural numbers has a least one.
LEMMA Least ==
  ASSUME NEW T, T \subseteq Nat, T # {}
  PROVE  \E x \in T : \A y \in T : x <= y
<1>1. PICK x \in T : \A y \in T : ~(<<y, x>> \in OpToRel(<, Nat))
  BY NatLessThanWellFounded, WFMin
<1>2. \A y \in T : <<y, x>> \in Nat \X Nat /\ ~(<<y, x>>[1] < <<y, x>>[2])
  BY <1>1 DEF OpToRel
<1>3. \A y \in T : x \in Nat /\ y \in Nat /\ ~(y < x)
  BY <1>2
<1>4. QED
  BY <1>3

\* Weights of the members of S.
One(T) == CHOOSE x \in T : TRUE

\* f is the function that MapThenFoldSet defines, on the sets in D.
IsSum(f, w, D) ==
  f = [T \in D |-> IF T = {} THEN 0 ELSE w[One(T)] + f[T \ {One(T)}]]

LEMMA OneIn == ASSUME NEW T, T # {} PROVE One(T) \in T
BY DEF One

\* The subsets of S with at most n members.
UpTo(S, n) == {T \in SUBSET S : Cardinality(T) <= n}

LEMMA SumExists ==
  ASSUME NEW S, IsFiniteSet(S), NEW w
  PROVE  \E f : IsSum(f, w, SUBSET S)
<1>1. ASSUME NEW T \in SUBSET S
      PROVE  /\ IsFiniteSet(T) /\ Cardinality(T) \in Nat /\ Cardinality(T) <= Cardinality(S)
             /\ T # {} => /\ T \ {One(T)} \in SUBSET S
                          /\ Cardinality(T \ {One(T)}) = Cardinality(T) - 1
  BY FS_Subset, FS_CardinalityType, FS_RemoveElement, OneIn
<1>2. ASSUME NEW n \in Nat, NEW f, IsSum(f, w, UpTo(S, n))
      PROVE  \E g : IsSum(g, w, UpTo(S, n + 1))
  <2> DEFINE g == [T \in UpTo(S, n + 1) |->
                     IF T = {} THEN 0 ELSE w[One(T)] + f[T \ {One(T)}]]
  <2>1. ASSUME NEW T \in UpTo(S, n + 1), T # {}
        PROVE  f[T \ {One(T)}] = g[T \ {One(T)}]
    <3>1. PICK U : U = T \ {One(T)}
      OBVIOUS
    <3>2. U \in UpTo(S, n) /\ U \in UpTo(S, n + 1)
      BY <3>1, <2>1, <1>1 DEF UpTo
    <3>3. f[U] = IF U = {} THEN 0 ELSE w[One(U)] + f[U \ {One(U)}]
      BY <3>2, <1>2 DEF IsSum
    <3>4. g[U] = IF U = {} THEN 0 ELSE w[One(U)] + f[U \ {One(U)}]
      BY <3>2
    <3>5. QED
      BY <3>1, <3>3, <3>4
  <2>2. g = [T \in UpTo(S, n + 1) |-> IF T = {} THEN 0 ELSE w[One(T)] + g[T \ {One(T)}]]
    BY <2>1
  <2>3. QED
    BY <2>2 DEF IsSum
<1>3. \E f : IsSum(f, w, UpTo(S, 0))
  <2>1. UpTo(S, 0) = {{}}
    <3>1. ASSUME NEW T \in SUBSET S, Cardinality(T) <= 0 PROVE T = {}
      <4>1. IsFiniteSet(T) /\ Cardinality(T) \in Nat
        BY <1>1
      <4>2. Cardinality(T) = 0
        BY <3>1, <4>1
      <4>3. QED
        BY <4>1, <4>2, FS_EmptySet
    <3>2. QED
      BY <3>1, FS_EmptySet DEF UpTo
  <2> DEFINE f == [T \in {{}} |-> 0]
  <2>2. f = [T \in {{}} |-> IF T = {} THEN 0 ELSE w[One(T)] + f[T \ {One(T)}]]
    OBVIOUS
  <2>3. QED
    BY <2>1, <2>2 DEF IsSum
<1> DEFINE Bad == {n \in Nat : ~\E f : IsSum(f, w, UpTo(S, n))}
<1>4. Bad = {}
  <2> SUFFICES ASSUME Bad # {} PROVE FALSE
    OBVIOUS
  <2>1. PICK x \in Bad : \A y \in Bad : x <= y
    BY Least
  <2>2. x # 0
    BY <1>3
  <2>3. x - 1 \in Nat /\ ~(x <= x - 1)
    BY <2>2
  <2>4. x - 1 \notin Bad
    BY <2>1, <2>3
  <2>5. \E f : IsSum(f, w, UpTo(S, x - 1))
    BY <2>3, <2>4
  <2>6. \E g : IsSum(g, w, UpTo(S, (x - 1) + 1))
    BY <2>3, <2>5, <1>2
  <2>7. (x - 1) + 1 = x
    BY <2>1
  <2>8. QED
    BY <2>6, <2>7
<1>5. UpTo(S, Cardinality(S)) = SUBSET S
  BY <1>1 DEF UpTo
<1>6. Cardinality(S) \in Nat
  BY FS_CardinalityType
<1>7. \E f : IsSum(f, w, UpTo(S, Cardinality(S)))
  BY <1>4, <1>6
<1>8. QED
  BY <1>5, <1>7

\* The sum in Accounting, with the weights as a function.
Sum(s, S) == MapThenSumSet(LAMBDA k : Bytes(s, k), S)

LEMMA SumOfBytes ==
  ASSUME NEW s, NEW S, IsFiniteSet(S), NEW w, w = [k \in S |-> Bytes(s, k)]
  PROVE  \E f : IsSum(f, w, SUBSET S) /\ Sum(s, S) = f[S]
<1> DEFINE IsBytes(f) ==
             f = [T \in SUBSET S |->
                    IF T = {} THEN 0
                    ELSE Bytes(s, CHOOSE x \in T : TRUE) + f[T \ {CHOOSE x \in T : TRUE}]]
<1>1. Sum(s, S) = (CHOOSE f : IsBytes(f))[S]
  BY DEF Sum, MapThenSumSet, MapThenFoldSet
<1>2. ASSUME NEW T \in SUBSET S, T # {} PROVE w[One(T)] = Bytes(s, CHOOSE x \in T : TRUE)
  BY <1>2, OneIn DEF One
<1>3. ASSUME NEW f PROVE IsBytes(f) <=> IsSum(f, w, SUBSET S)
  BY <1>2 DEF IsSum, One
<1>4. PICK g : IsSum(g, w, SUBSET S)
  BY SumExists
<1>5. IsBytes(g)
  BY <1>3, <1>4
<1>6. PICK f : f = CHOOSE h : IsBytes(h)
  OBVIOUS
<1>7. IsBytes(f)
  <2> HIDE DEF IsBytes
  <2>1. QED
    BY <1>5, <1>6, Zenon
<1>8. IsSum(f, w, SUBSET S)
  BY <1>3, <1>7
<1>9. QED
  BY <1>1, <1>6, <1>8

\* The sum over a set that has members takes one of them off.
TakesOne(f, w, T) ==
  IF T = {} THEN f[T] = 0 ELSE One(T) \in T /\ f[T] = w[One(T)] + f[T \ {One(T)}]

Counts(T) ==
  IsFiniteSet(T) /\ Cardinality(T) \in Nat
    /\ \A x \in T : Cardinality(T \ {x}) = Cardinality(T) - 1

LEMMA SumStep ==
  ASSUME NEW S, IsFiniteSet(S), NEW w, NEW f, IsSum(f, w, SUBSET S),
         NEW T \in SUBSET S
  PROVE  TakesOne(f, w, T)
<1>1. f[T] = IF T = {} THEN 0 ELSE w[One(T)] + f[T \ {One(T)}]
  BY DEF IsSum
<1>2. QED
  BY <1>1, OneIn DEF TakesOne

LEMMA Counting ==
  ASSUME NEW S, IsFiniteSet(S), NEW T \in SUBSET S
  PROVE  Counts(T)
<1>1. IsFiniteSet(T) /\ Cardinality(T) \in Nat
  BY FS_Subset, FS_CardinalityType
<1>2. QED
  BY <1>1, FS_RemoveElement DEF Counts

\* The sum is a natural number.
LEMMA SumNat ==
  ASSUME NEW S, IsFiniteSet(S), NEW w \in [S -> Nat], NEW f, IsSum(f, w, SUBSET S)
  PROVE  \A T \in SUBSET S : f[T] \in Nat
<1> DEFINE Bad == {n \in Nat : \E T \in SUBSET S : Cardinality(T) = n /\ f[T] \notin Nat}
<1>1. Bad = {}
  <2> SUFFICES ASSUME Bad # {} PROVE FALSE
    OBVIOUS
  <2>1. PICK n \in Bad : \A y \in Bad : n <= y
    BY Least
  <2>2. PICK T \in SUBSET S : Cardinality(T) = n /\ f[T] \notin Nat
    BY <2>1
  <2>3. PICK x, U : x = One(T) /\ U = T \ {x}
    OBVIOUS
  <2>4. /\ T # {} /\ x \in T /\ f[T] = w[x] + f[U]
        /\ Cardinality(U) = n - 1
    <3>1. TakesOne(f, w, T) /\ Counts(T)
      BY SumStep, Counting
    <3>2. QED
      BY <2>2, <2>3, <3>1 DEF TakesOne, Counts
  <2>5. U \in SUBSET S /\ Cardinality(U) \in Nat
    <3>1. U \in SUBSET S
      BY <2>3
    <3>2. QED
      BY <3>1, Counting DEF Counts
  <2>6. f[U] \in Nat
    BY <2>1, <2>4, <2>5
  <2>7. QED
    BY <2>2, <2>4, <2>6
<1>2. \A T \in SUBSET S : Cardinality(T) \in Nat
  BY Counting DEF Counts
<1>3. QED
  BY <1>1, <1>2

\* Any member may be taken off first.
TakesAny(f, w, S) == \A T \in SUBSET S : \A y \in T : f[T] = w[y] + f[T \ {y}]

LEMMA SumAny ==
  ASSUME NEW S, IsFiniteSet(S), NEW w \in [S -> Nat], NEW f, IsSum(f, w, SUBSET S)
  PROVE  TakesAny(f, w, S)
<1> DEFINE Bad == {n \in Nat : \E T \in SUBSET S : \E y \in T :
                                 Cardinality(T) = n /\ f[T] # w[y] + f[T \ {y}]}
<1>1. Bad = {}
  <2> SUFFICES ASSUME Bad # {} PROVE FALSE
    OBVIOUS
  <2>1. PICK n \in Bad : \A z \in Bad : n <= z
    BY Least
  <2>2. PICK T \in SUBSET S : \E y \in T : Cardinality(T) = n /\ f[T] # w[y] + f[T \ {y}]
    BY <2>1
  <2>3. PICK y \in T : Cardinality(T) = n /\ f[T] # w[y] + f[T \ {y}]
    BY <2>2
  <2>4. PICK x, U, V, W : x = One(T) /\ U = T \ {x} /\ V = T \ {y} /\ W = U \ {y}
    OBVIOUS
  <2>5. /\ x \in T /\ f[T] = w[x] + f[U] /\ x # y
        /\ Cardinality(U) = n - 1 /\ Cardinality(V) = n - 1
    <3>1. TakesOne(f, w, T) /\ Counts(T)
      BY SumStep, Counting
    <3>2. QED
      BY <2>3, <2>4, <3>1 DEF TakesOne, Counts
  <2>6. /\ U \in SUBSET S /\ V \in SUBSET S /\ W \in SUBSET S /\ W = V \ {x}
        /\ y \in U /\ x \in V
    BY <2>4, <2>5
  <2>7. n - 1 \in Nat /\ n - 1 \notin Bad
    <3>1. Cardinality(U) \in Nat
      BY <2>6, Counting DEF Counts
    <3>2. n - 1 \in Nat /\ ~(n <= n - 1)
      BY <2>5, <3>1
    <3>3. QED
      BY <2>1, <3>2
  <2>8. f[U] = w[y] + f[W] /\ f[V] = w[x] + f[W]
    <3>1. \A X \in SUBSET S : \A z \in X :
            Cardinality(X) = n - 1 => f[X] = w[z] + f[X \ {z}]
      BY <2>7
    <3> HIDE DEF Bad
    <3>2. f[U] = w[y] + f[U \ {y}]
      BY <2>5, <2>6, <3>1
    <3>3. f[V] = w[x] + f[V \ {x}]
      BY <2>5, <2>6, <3>1
    <3>4. QED
      BY <2>4, <2>6, <3>2, <3>3
  <2>9. f[W] \in Nat /\ w[x] \in Nat /\ w[y] \in Nat
    BY <2>5, <2>6, SumNat
  <2>10. f[T] # w[y] + f[V] /\ f[T] = w[x] + f[U]
    BY <2>3, <2>4, <2>5
  <2> HIDE DEF Bad
  <2>11. QED
    BY <2>8, <2>9, <2>10
<1>2. \A T \in SUBSET S : Cardinality(T) \in Nat
  BY Counting DEF Counts
<1>3. QED
  BY <1>1, <1>2 DEF TakesAny

\* The sum over a set depends on the weights of its members only.
Agree(w, v, A) == \A x \in A : w[x] = v[x]

SameAt(f, g, A) == f[A] = g[A]

LEMMA SumSame ==
  ASSUME NEW S, IsFiniteSet(S), NEW w, NEW f, IsSum(f, w, SUBSET S),
         NEW R, IsFiniteSet(R), NEW v, NEW g, IsSum(g, v, SUBSET R),
         NEW A, A \subseteq S, A \subseteq R, Agree(w, v, A)
  PROVE  SameAt(f, g, A)
<1> DEFINE Bad == {n \in Nat : \E T \in SUBSET A : Cardinality(T) = n /\ f[T] # g[T]}
<1>1. Bad = {}
  <2> SUFFICES ASSUME Bad # {} PROVE FALSE
    OBVIOUS
  <2>1. PICK n \in Bad : \A z \in Bad : n <= z
    BY Least
  <2>2. PICK T \in SUBSET A : Cardinality(T) = n /\ f[T] # g[T]
    BY <2>1
  <2>3. PICK x, U : x = One(T) /\ U = T \ {x}
    OBVIOUS
  <2>4. T \in SUBSET S /\ T \in SUBSET R /\ U \in SUBSET A /\ U \in SUBSET S
    BY <2>3
  <2>5. /\ x \in T /\ f[T] = w[x] + f[U] /\ Cardinality(U) = n - 1
        /\ g[T] = v[x] + g[U]
    <3>1. TakesOne(f, w, T) /\ Counts(T)
      BY <2>4, SumStep, Counting
    <3>2. TakesOne(g, v, T)
      BY <2>4, SumStep
    <3>3. QED
      BY <2>2, <2>3, <3>1, <3>2 DEF TakesOne, Counts
  <2>7. Cardinality(U) \in Nat
    BY <2>4, Counting DEF Counts
  <2>8. f[U] = g[U]
    BY <2>1, <2>4, <2>5, <2>7
  <2>9. QED
    BY <2>2, <2>5, <2>8 DEF Agree
<1>2. A \in SUBSET S /\ Cardinality(A) \in Nat
  BY Counting DEF Counts
<1>3. QED
  BY <1>1, <1>2 DEF SameAt

-----------------------------------------------------------------------------
(* usedBytes *)

LEMMA SumEmpty == ASSUME NEW s PROVE Sum(s, {}) = 0
<1>1. PICK w : w = [k \in {} |-> Bytes(s, k)]
  OBVIOUS
<1>2. PICK f : IsSum(f, w, SUBSET {}) /\ Sum(s, {}) = f[{}]
  BY <1>1, SumOfBytes, FS_EmptySet
<1>3. IsFiniteSet({}) /\ {} \in SUBSET {}
  BY FS_EmptySet
<1>4. QED
  <2>1. IsSum(f, w, SUBSET {}) 
    BY <1>2
  <2>2. TakesOne(f, w, {})
    BY <1>3, <2>1, SumStep, Zenon
  <2>3. QED
    BY <1>2, <2>2 DEF TakesOne

\* One more key.
LEMMA SumAdd ==
  ASSUME NEW s, NEW t, NEW S, IsFiniteSet(S), NEW k, k \notin S,
         \A j \in S : Bytes(t, j) = Bytes(s, j) /\ Bytes(s, j) \in Nat, Bytes(t, k) \in Nat
  PROVE  Sum(s, S) \in Nat /\ Sum(t, S \cup {k}) = Sum(s, S) + Bytes(t, k)
<1>1. PICK R : R = S \cup {k}
  OBVIOUS
<1>2. IsFiniteSet(R) /\ S \in SUBSET R /\ k \in R /\ R \ {k} = S /\ R \in SUBSET R
  BY <1>1, FS_AddElement
<1>3. PICK v : v = [j \in S |-> Bytes(s, j)]
  OBVIOUS
<1>4. PICK w : w = [j \in R |-> Bytes(t, j)]
  OBVIOUS
<1>5. v \in [S -> Nat] /\ w \in [R -> Nat] /\ w[k] = Bytes(t, k) /\ \A j \in S : w[j] = v[j]
  BY <1>1, <1>2, <1>3, <1>4
<1>6. PICK f : IsSum(f, v, SUBSET S) /\ Sum(s, S) = f[S]
  BY <1>3, SumOfBytes
<1>7. PICK g : IsSum(g, w, SUBSET R) /\ Sum(t, R) = g[R]
  BY <1>2, <1>4, SumOfBytes
<1>8. g[R] = w[k] + g[S]
  <2>1. TakesAny(g, w, R)
    <3>1. IsFiniteSet(R) /\ w \in [R -> Nat] /\ IsSum(g, w, SUBSET R)
      BY <1>2, <1>5, <1>7
    <3>2. QED
      BY <3>1, SumAny, Zenon
  <2>2. g[R] = w[k] + g[R \ {k}]
    BY <1>2, <2>1 DEF TakesAny
  <2>3. QED
    BY <1>2, <2>2
<1>9. g[S] = f[S]
  <2>1. S \subseteq S /\ S \subseteq R
    BY <1>2
  <2>2. QED
    <3>1. IsFiniteSet(R) /\ IsSum(g, w, SUBSET R) /\ IsSum(f, v, SUBSET S)
      BY <1>2, <1>6, <1>7
    <3>2. Agree(v, w, S)
      BY <1>5 DEF Agree
    <3>3. SameAt(f, g, S)
      BY <2>1, <3>1, <3>2, SumSame, Zenon
    <3>4. QED
      BY <3>3 DEF SameAt
<1>10. f[S] \in Nat
  BY <1>5, <1>6, SumNat
<1>11. QED
  BY <1>1, <1>5, <1>6, <1>7, <1>8, <1>9, <1>10

-----------------------------------------------------------------------------
(* Rings *)

\* The links n and p among the elements in R lead back and forth.
Inverses(n, p, R) ==
  /\ Root \in R
  /\ \A e \in R : n[e] \in R /\ p[n[e]] = e /\ p[e] \in R /\ n[p[e]] = e

\* There is only one ring: what can be reached from the sentinel is everything.
OneRing(n, R) ==
  \A S \in SUBSET R : Root \in S /\ (\A e \in S : n[e] \in S) => S = R

IsRing(n, p, R) == Inverses(n, p, R) /\ OneRing(n, R)

\* The links after e has been taken out of the ring.
Without(n, p, e, n2, p2, R) ==
  \A x \in R \ {e} : /\ n2[x] = IF x = p[e] THEN n[e] ELSE n[x]
                     /\ p2[x] = IF x = n[e] THEN p[e] ELSE p[x]

LEMMA UnlinkRing ==
  ASSUME NEW n, NEW p, NEW R, IsRing(n, p, R), NEW e \in R, e # Root,
         NEW n2, NEW p2, Without(n, p, e, n2, p2, R)
  PROVE  IsRing(n2, p2, R \ {e})
<1>1. n[e] \in R /\ p[e] \in R /\ p[n[e]] = e /\ n[p[e]] = e /\ Root \in R
  BY DEF IsRing, Inverses
<1>2. n[e] # e /\ p[e] # e
  <2>1. SUFFICES ASSUME n[e] = e \/ p[e] = e PROVE FALSE
    OBVIOUS
  <2>2. \A x \in R \ {e} : n[x] \in R \ {e}
    BY <1>1, <2>1 DEF IsRing, Inverses
  <2>3. R \ {e} = R
    BY <1>1, <2>2 DEF IsRing, OneRing
  <2>4. QED
    BY <2>3
<1>3. Inverses(n2, p2, R \ {e})
  <2>1. ASSUME NEW x \in R \ {e} PROVE n2[x] \in R \ {e} /\ p2[n2[x]] = x
    <3>1. n[x] \in R /\ p[n[x]] = x
      BY DEF IsRing, Inverses
    <3>2. CASE x = p[e]
      BY <1>1, <1>2, <3>2 DEF Without
    <3>3. CASE x # p[e]
      <4>1. n[x] # e /\ n[x] # n[e]
        BY <1>1, <3>1, <3>3
      <4>2. QED
        BY <3>1, <3>3, <4>1 DEF Without
    <3>4. QED
      BY <3>2, <3>3
  <2>2. ASSUME NEW x \in R \ {e} PROVE p2[x] \in R \ {e} /\ n2[p2[x]] = x
    <3>1. p[x] \in R /\ n[p[x]] = x
      BY DEF IsRing, Inverses
    <3>2. CASE x = n[e]
      BY <1>1, <1>2, <3>2 DEF Without
    <3>3. CASE x # n[e]
      <4>1. p[x] # e /\ p[x] # p[e]
        BY <1>1, <3>1, <3>3
      <4>2. QED
        BY <3>1, <3>3, <4>1 DEF Without
    <3>4. QED
      BY <3>2, <3>3
  <2>3. QED
    BY <1>1, <2>1, <2>2 DEF Inverses
<1>4. OneRing(n2, R \ {e})
  <2> SUFFICES ASSUME NEW S \in SUBSET (R \ {e}), Root \in S, \A x \in S : n2[x] \in S
               PROVE  S = R \ {e}
    BY DEF OneRing
  <2>1. CASE p[e] \in S
    <3>1. n[e] \in S
      BY <1>1, <2>1 DEF Without
    <3>2. \A x \in S \cup {e} : n[x] \in S \cup {e}
      BY <1>1, <3>1 DEF Without
    <3>3. S \cup {e} = R
      <4>1. S \cup {e} \in SUBSET R /\ Root \in S \cup {e}
        OBVIOUS
      <4>2. QED
        BY <3>2, <4>1 DEF IsRing, OneRing
    <3>4. QED
      BY <3>3
  <2>2. CASE p[e] \notin S
    <3>1. \A x \in S : n[x] \in S
      BY <2>2 DEF Without
    <3>2. S = R
      BY <3>1 DEF IsRing, OneRing
    <3>3. QED
      BY <3>2
  <2>3. QED
    BY <2>1, <2>2
<1>5. QED
  BY <1>3, <1>4 DEF IsRing

\* The links after e has been put at the back of the ring.
With(n, p, e, n2, p2, R) ==
  \A x \in R \cup {e} :
    /\ n2[x] = IF x = e THEN Root ELSE IF x = p[Root] THEN e ELSE n[x]
    /\ p2[x] = IF x = e THEN p[Root] ELSE IF x = Root THEN e ELSE p[x]

LEMMA LinkRing ==
  ASSUME NEW n, NEW p, NEW R, IsRing(n, p, R), NEW e, e \notin R,
         NEW n2, NEW p2, With(n, p, e, n2, p2, R)
  PROVE  IsRing(n2, p2, R \cup {e})
<1>1. Root \in R /\ p[Root] \in R /\ n[p[Root]] = Root
  BY DEF IsRing, Inverses
<1>2. Inverses(n2, p2, R \cup {e})
  <2>1. ASSUME NEW x \in R \cup {e} PROVE n2[x] \in R \cup {e} /\ p2[n2[x]] = x
    <3>1. CASE x = e \/ x = p[Root]
      BY <1>1, <3>1 DEF With
    <3>2. CASE x # e /\ x # p[Root]
      <4>1. n[x] \in R /\ p[n[x]] = x
        BY <3>2 DEF IsRing, Inverses
      <4>2. n[x] # Root /\ n[x] # e
        BY <3>2, <4>1
      <4>3. QED
        BY <3>2, <4>1, <4>2 DEF With
    <3>3. QED
      BY <3>1, <3>2
  <2>2. ASSUME NEW x \in R \cup {e} PROVE p2[x] \in R \cup {e} /\ n2[p2[x]] = x
    <3>1. CASE x = e \/ x = Root
      BY <1>1, <3>1 DEF With
    <3>2. CASE x # e /\ x # Root
      <4>1. p[x] \in R /\ n[p[x]] = x
        BY <3>2 DEF IsRing, Inverses
      <4>2. p[x] # p[Root] /\ p[x] # e
        BY <1>1, <3>2, <4>1
      <4>3. QED
        BY <3>2, <4>1, <4>2 DEF With
    <3>3. QED
      BY <3>1, <3>2
  <2>3. QED
    BY <1>1, <2>1, <2>2 DEF Inverses
<1>3. OneRing(n2, R \cup {e})
  <2> SUFFICES ASSUME NEW S \in SUBSET (R \cup {e}), Root \in S, \A x \in S : n2[x] \in S
               PROVE  S = R \cup {e}
    BY DEF OneRing
  <2>1. ASSUME NEW x \in S \ {e} PROVE n[x] \in S \ {e}
    <3>1. x \in R /\ n[x] \in R /\ n[x] # e
      BY DEF IsRing, Inverses
    <3>2. QED
      BY <1>1, <3>1 DEF With
  <2>2. Root \in S \ {e} /\ S \ {e} \in SUBSET R
    BY <1>1
  <2>3. S \ {e} = R
    BY <2>1, <2>2 DEF IsRing, OneRing
  <2>4. p[Root] \in S /\ n2[p[Root]] = e
    BY <1>1, <2>3 DEF With
  <2>5. QED
    BY <2>3, <2>4
<1>4. QED
  BY <1>2, <1>3 DEF IsRing

-----------------------------------------------------------------------------
(* What the operations do to the fields *)

Links == [Nodes -> Nodes \cup {None}]

\* CacheType, before it is known that the counters are not negative.
Fields ==
  [nxt : Links, prv : Links, own : [Elems -> BOOLEAN], len : Int,
   entry : [Elems -> [k : Keys, v : Values] \cup {None}],
   items : [Keys -> Elems \cup {None}], expires : [Keys -> Nat \cup {None}],
   usedBytes : Int, maxBytes : Limits]

\* The fields that list operations leave alone.
SameMaps(s, t) ==
  /\ t.entry = s.entry /\ t.items = s.items /\ t.expires = s.expires
  /\ t.usedBytes = s.usedBytes /\ t.maxBytes = s.maxBytes

LEMMA UnlinkFields ==
  ASSUME NEW s \in Fields, NEW e \in Elems, NEW t, t = Unlink(s, e)
  PROVE  /\ t \in Fields /\ SameMaps(s, t) /\ t.own = s.own /\ t.len = s.len
         /\ \A x \in Nodes : /\ t.nxt[x] = IF x = s.prv[e] THEN s.nxt[e] ELSE s.nxt[x]
                             /\ t.prv[x] = IF x = s.nxt[e] THEN s.prv[e] ELSE s.prv[x]
<1>1. PICK n, p : /\ n = [s.nxt EXCEPT ![s.prv[e]] = s.nxt[e]]
                  /\ p = [s.prv EXCEPT ![s.nxt[e]] = s.prv[e]]
  OBVIOUS
<1>2. s.nxt \in Links /\ s.prv \in Links /\ e \in Nodes
  BY DEF Fields, Nodes
<1>3. /\ n \in Links /\ p \in Links
      /\ \A x \in Nodes : /\ n[x] = IF x = s.prv[e] THEN s.nxt[e] ELSE s.nxt[x]
                          /\ p[x] = IF x = s.nxt[e] THEN s.prv[e] ELSE s.prv[x]
  BY <1>1, <1>2 DEF Links
<1>4. t = [s EXCEPT !.nxt = n, !.prv = p]
  BY <1>1 DEF Unlink, Fields
<1>5. QED
  BY <1>3, <1>4 DEF Fields, SameMaps

LEMMA LinkAfterFields ==
  ASSUME NEW s \in Fields, NEW e \in Elems, NEW at \in Nodes, at # e,
         NEW t, t = LinkAfter(s, e, at)
  PROVE  /\ t \in Fields /\ SameMaps(s, t) /\ t.own = s.own /\ t.len = s.len
         /\ \A x \in Nodes :
              /\ t.nxt[x] = IF x = at THEN e ELSE IF x = e THEN s.nxt[at] ELSE s.nxt[x]
              /\ t.prv[x] = IF x = s.nxt[at] THEN e ELSE IF x = e THEN at ELSE s.prv[x]
<1>1. PICK n1, n, p1, p :
        /\ n1 = [s.nxt EXCEPT ![e] = s.nxt[at]] /\ n = [n1 EXCEPT ![at] = e]
        /\ p1 = [s.prv EXCEPT ![e] = at] /\ p = [p1 EXCEPT ![n[e]] = e]
  OBVIOUS
<1>2. s.nxt \in Links /\ s.prv \in Links /\ e \in Nodes /\ Elems \subseteq Nodes
  BY DEF Fields, Nodes
<1>3. n1 \in Links /\ p1 \in Links /\ n \in Links /\ n[e] = s.nxt[at]
  BY <1>1, <1>2 DEF Links
<1>4. /\ n \in Links /\ p \in Links
      /\ \A x \in Nodes :
           /\ n[x] = IF x = at THEN e ELSE IF x = e THEN s.nxt[at] ELSE s.nxt[x]
           /\ p[x] = IF x = s.nxt[at] THEN e ELSE IF x = e THEN at ELSE s.prv[x]
  BY <1>1, <1>2, <1>3 DEF Links
<1>5. PICK s1 : s1 = [s EXCEPT !.prv = p1, !.nxt = n1]
  OBVIOUS
<1>6. s1 = [s EXCEPT !.prv[e] = at, !.nxt[e] = s.nxt[at]]
  BY <1>1, <1>5 DEF Fields
<1>7. s1 \in Fields /\ s1.nxt = n1 /\ s1.prv = p1
  BY <1>3, <1>5 DEF Fields
<1>8. PICK s2 : s2 = [s EXCEPT !.prv = p1, !.nxt = n]
  OBVIOUS
<1>9. s2 = [s1 EXCEPT !.nxt[at] = e]
  BY <1>1, <1>5, <1>7, <1>8 DEF Fields
<1>10. s2 \in Fields /\ s2.nxt = n /\ s2.prv = p1
  BY <1>3, <1>8 DEF Fields
<1>11. t = [s2 EXCEPT !.prv[s2.nxt[e]] = e]
  BY <1>6, <1>9 DEF LinkAfter
<1>12. t = [s EXCEPT !.prv = p, !.nxt = n]
  BY <1>1, <1>8, <1>10, <1>11 DEF Fields
<1>13. QED
  BY <1>4, <1>12 DEF Fields, SameMaps

\* removeElement of an element of the list.
RemoveFacts(s, e, t) ==
  LET k == s.entry[e].k
  IN  /\ t \in Fields
      /\ \A x \in Nodes \ {e} : /\ t.nxt[x] = IF x = s.prv[e] THEN s.nxt[e] ELSE s.nxt[x]
                                /\ t.prv[x] = IF x = s.nxt[e] THEN s.prv[e] ELSE s.prv[x]
      /\ \A x \in Elems : t.own[x] = (x # e /\ s.own[x])
      /\ \A x \in Elems : t.entry[x] = IF x = e THEN None ELSE s.entry[x]
      /\ \A j \in Keys : /\ t.items[j] = IF j = k THEN None ELSE s.items[j]
                         /\ t.expires[j] = IF j = k THEN None ELSE s.expires[j]
      /\ t.len = s.len - 1
      /\ t.usedBytes = s.usedBytes - (KeyLen + Size[s.entry[e].v])
      /\ t.maxBytes = s.maxBytes

LEMMA RemoveFields ==
  ASSUME NEW s \in Fields, NEW e \in Elems, s.own[e], s.entry[e] # None,
         NEW t, t = removeElement(s, e)
  PROVE  RemoveFacts(s, e, t)
<1>1. PICK u, k, b : /\ u = Unlink(s, e) /\ k = s.entry[e].k
                     /\ b = KeyLen + Size[s.entry[e].v]
  OBVIOUS
<1>2. /\ u \in Fields /\ SameMaps(s, u) /\ u.own = s.own /\ u.len = s.len
      /\ \A x \in Nodes : /\ u.nxt[x] = IF x = s.prv[e] THEN s.nxt[e] ELSE s.nxt[x]
                          /\ u.prv[x] = IF x = s.nxt[e] THEN s.prv[e] ELSE s.prv[x]
  BY <1>1, UnlinkFields
<1>3. k \in Keys /\ s.entry[e].v \in Values /\ b \in Nat /\ e \in Nodes
  BY <1>1, LRUCacheAssumption DEF Fields, Nodes
<1>4. PICK n, p, o : /\ n = [u.nxt EXCEPT ![e] = None] /\ p = [u.prv EXCEPT ![e] = None]
                     /\ o = [u.own EXCEPT ![e] = FALSE]
  OBVIOUS
<1>5. /\ n \in Links /\ p \in Links /\ o \in [Elems -> BOOLEAN]
      /\ \A x \in Nodes \ {e} : n[x] = u.nxt[x] /\ p[x] = u.prv[x]
      /\ \A x \in Elems : o[x] = (x # e /\ s.own[x])
  <2>1. u.nxt \in Links /\ u.prv \in Links /\ u.own \in [Elems -> BOOLEAN]
    BY <1>2 DEF Fields
  <2>2. n \in Links /\ p \in Links /\ \A x \in Nodes \ {e} : n[x] = u.nxt[x] /\ p[x] = u.prv[x]
    BY <1>3, <1>4, <2>1 DEF Links
  <2>3. o \in [Elems -> BOOLEAN] /\ \A x \in Elems : o[x] = (x # e /\ u.own[x])
    BY <1>4, <2>1
  <2>4. QED
    BY <1>2, <2>2, <2>3
<1>6. PICK l : l = [u EXCEPT !.own = o, !.len = u.len - 1, !.nxt = n, !.prv = p]
  OBVIOUS
<1>7. l = ListRemove(s, e)
  BY <1>1, <1>4, <1>6, <1>2 DEF ListRemove, Fields
<1>8. /\ l \in Fields /\ SameMaps(s, l) /\ l.own = o /\ l.len = s.len - 1
      /\ l.nxt = n /\ l.prv = p
  <2>1. u \in Fields /\ u.len - 1 \in Int /\ u.len = s.len
    BY <1>2 DEF Fields
  <2>2. l \in Fields
    BY <1>5, <1>6, <2>1 DEF Fields
  <2>3. l.own = o /\ l.len = s.len - 1 /\ l.nxt = n /\ l.prv = p
    BY <1>6, <2>1 DEF Fields
  <2>4. SameMaps(u, l)
    BY <1>6, <2>1 DEF Fields, SameMaps
  <2>5. QED
    BY <1>2, <2>2, <2>3, <2>4 DEF SameMaps
<1>9. PICK i, x, y : /\ i = [l.items EXCEPT ![k] = None] /\ x = [l.expires EXCEPT ![k] = None]
                     /\ y = [l.entry EXCEPT ![e] = None]
  OBVIOUS
<1>10. /\ i \in [Keys -> Elems \cup {None}] /\ x \in [Keys -> Nat \cup {None}]
       /\ y \in [Elems -> [k : Keys, v : Values] \cup {None}]
       /\ \A j \in Keys : /\ i[j] = IF j = k THEN None ELSE s.items[j]
                          /\ x[j] = IF j = k THEN None ELSE s.expires[j]
       /\ \A z \in Elems : y[z] = IF z = e THEN None ELSE s.entry[z]
  <2>1. /\ l.items = s.items /\ l.expires = s.expires /\ l.entry = s.entry
        /\ s.items \in [Keys -> Elems \cup {None}] /\ s.expires \in [Keys -> Nat \cup {None}]
        /\ s.entry \in [Elems -> [k : Keys, v : Values] \cup {None}]
    BY <1>8 DEF Fields, SameMaps
  <2>2. QED
    BY <1>3, <1>9, <2>1
<1>11. t = [l EXCEPT !.items = i, !.expires = x, !.entry = y, !.usedBytes = l.usedBytes - b]
  BY <1>1, <1>7, <1>9, <1>8 DEF removeElement, Fields
<1>12. /\ t \in Fields /\ t.nxt = n /\ t.prv = p /\ t.own = o /\ t.len = s.len - 1
       /\ t.items = i /\ t.expires = x /\ t.entry = y /\ t.maxBytes = s.maxBytes
       /\ t.usedBytes = s.usedBytes - b
  <2>1. l \in Fields /\ l.usedBytes - b \in Int
    BY <1>3, <1>8 DEF Fields
  <2>2. /\ i \in [Keys -> Elems \cup {None}] /\ x \in [Keys -> Nat \cup {None}]
        /\ y \in [Elems -> [k : Keys, v : Values] \cup {None}]
    BY <1>10
  <2>3. t \in Fields
    BY <1>11, <2>1, <2>2 DEF Fields
  <2>4. /\ t.nxt = l.nxt /\ t.prv = l.prv /\ t.own = l.own /\ t.len = l.len
        /\ t.items = i /\ t.expires = x /\ t.entry = y /\ t.maxBytes = l.maxBytes
        /\ t.usedBytes = l.usedBytes - b
    BY <1>11, <2>1 DEF Fields
  <2>5. QED
    BY <1>8, <2>3, <2>4 DEF SameMaps
<1>13. QED
  BY <1>1, <1>2, <1>5, <1>10, <1>12 DEF RemoveFacts

-----------------------------------------------------------------------------
(* The invariant of the fields *)

\* The map leads to elements of the list, each with the entry of its key.
InMap(s) ==
  \A k \in PresentIn(s) :
    s.own[s.items[k]] /\ s.entry[s.items[k]] # None /\ s.entry[s.items[k]].k = k

ListOf(s) == {Root} \cup Elements(s)

Linked(s) == IsRing(s.nxt, s.prv, ListOf(s))

Counted(s) ==
  /\ IsFiniteSet(PresentIn(s)) /\ s.len = Cardinality(PresentIn(s))
  /\ s.usedBytes = Sum(s, PresentIn(s))

Timed(s) == \A k \in Keys : s.expires[k] # None => k \in PresentIn(s)

CacheOK(s) == s \in Fields /\ InMap(s) /\ Linked(s) /\ Counted(s) /\ Timed(s)

LEMMA PresentFacts ==
  ASSUME NEW s \in Fields, InMap(s)
  PROVE  /\ \A k \in PresentIn(s) : k \in Keys /\ s.items[k] \in Elems /\ Bytes(s, k) \in Nat
         /\ \A j, k \in PresentIn(s) : s.items[j] = s.items[k] => j = k
<1>1. ASSUME NEW k \in PresentIn(s)
      PROVE  k \in Keys /\ s.items[k] \in Elems /\ Bytes(s, k) \in Nat
  <2>1. k \in Keys /\ s.items[k] \in Elems
    BY DEF PresentIn, Fields
  <2>2. s.entry[s.items[k]] \in [k : Keys, v : Values]
    BY <2>1 DEF InMap, Fields
  <2>3. QED
    BY <2>1, <2>2, LRUCacheAssumption DEF Bytes
<1>2. \A j, k \in PresentIn(s) : s.items[j] = s.items[k] => j = k
  BY DEF InMap
<1>3. QED
  BY <1>1, <1>2

\* A list that is not empty has a front.
LEMMA FrontIsElement ==
  ASSUME NEW s, CacheOK(s), s.len > 0
  PROVE  s.nxt[Root] \in Elements(s)
<1>1. PresentIn(s) # {}
  BY FS_EmptySet DEF CacheOK, Counted
<1>2. PICK k : k \in PresentIn(s)
  BY <1>1
<1>3. s.items[k] \in Elements(s) /\ s.items[k] # Root
  <2>1. s.items[k] \in Elems
    BY <1>2, PresentFacts DEF CacheOK
  <2>2. QED
    BY <1>2, <2>1, LRUCacheAssumption DEF Elements
<1>4. s.nxt[Root] \in ListOf(s) /\ Root \in ListOf(s)
  BY DEF CacheOK, Linked, IsRing, Inverses, ListOf
<1>5. s.nxt[Root] # Root
  <2>1. SUFFICES ASSUME s.nxt[Root] = Root PROVE FALSE
    OBVIOUS
  <2>2. {Root} \in SUBSET ListOf(s) /\ \A x \in {Root} : s.nxt[x] \in {Root}
    BY <1>4, <2>1
  <2>3. {Root} = ListOf(s)
    BY <2>2 DEF CacheOK, Linked, IsRing, OneRing
  <2>4. QED
    BY <1>3, <2>3 DEF ListOf
<1>6. QED
  BY <1>4, <1>5 DEF ListOf

\* Without keys there are no bytes.
LEMMA EmptyHasNoBytes ==
  ASSUME NEW s, CacheOK(s)
  PROVE  s.len \in Nat /\ s.usedBytes \in Nat /\ (s.len = 0 => s.usedBytes = 0)
<1>1. /\ IsFiniteSet(PresentIn(s)) /\ s.len = Cardinality(PresentIn(s))
      /\ s.usedBytes = Sum(s, PresentIn(s))
  BY DEF CacheOK, Counted
<1>2. s.len \in Nat /\ (s.len = 0 => PresentIn(s) = {})
  BY <1>1, FS_CardinalityType, FS_EmptySet
<1>3. s.len = 0 => s.usedBytes = 0
  BY <1>1, <1>2, SumEmpty
<1>4. CASE PresentIn(s) = {}
  BY <1>1, <1>2, <1>4, SumEmpty
<1>5. CASE PresentIn(s) # {}
  <2>1. PICK k, S : k \in PresentIn(s) /\ S = PresentIn(s) \ {k}
    BY <1>5
  <2>2. IsFiniteSet(S) /\ k \notin S /\ S \cup {k} = PresentIn(s)
    BY <1>1, <2>1, FS_RemoveElement
  <2>3. \A j \in PresentIn(s) : Bytes(s, j) \in Nat
    BY PresentFacts DEF CacheOK
  <2>4. Sum(s, S) \in Nat /\ Sum(s, S \cup {k}) = Sum(s, S) + Bytes(s, k)
    <3>1. PICK t : t = s
      OBVIOUS
    <3>2. \A j \in S : Bytes(t, j) = Bytes(s, j) /\ Bytes(s, j) \in Nat
      BY <2>1, <2>3, <3>1
    <3>3. Bytes(t, k) \in Nat
      BY <2>1, <2>3, <3>1
    <3>4. IsFiniteSet(S) /\ k \notin S
      BY <2>2
    <3>5. Sum(s, S) \in Nat /\ Sum(t, S \cup {k}) = Sum(s, S) + Bytes(t, k)
      BY <3>2, <3>3, <3>4, SumAdd
    <3>6. QED
      BY <3>1, <3>5
  <2>5. Bytes(s, k) \in Nat
    BY <2>1, <2>3
  <2>6. s.usedBytes = Sum(s, S) + Bytes(s, k)
    BY <1>1, <2>2, <2>4
  <2>7. QED
    BY <1>2, <1>3, <2>4, <2>5, <2>6
<1>6. QED
  BY <1>4, <1>5

\* What removeElement leaves.
Removes(s, e, t) ==
  LET k == s.entry[e].k
  IN  /\ CacheOK(t)
      /\ k \in PresentIn(s) /\ PresentIn(t) = PresentIn(s) \ {k}
      /\ Elements(t) = Elements(s) \ {e}
      /\ t.len = s.len - 1 /\ t.usedBytes <= s.usedBytes /\ t.maxBytes = s.maxBytes
      /\ \A x \in Elems : t.own[x] = (x # e /\ s.own[x])

LEMMA RemoveOK ==
  ASSUME NEW s, CacheOK(s), NEW e \in Elements(s), NEW t, t = removeElement(s, e)
  PROVE  Removes(s, e, t)
<1>1. PICK k \in PresentIn(s) : e = s.items[k]
  BY DEF Elements
<1>2. s \in Fields /\ InMap(s) /\ Linked(s) /\ Counted(s) /\ Timed(s)
  BY DEF CacheOK
<1>3. /\ \A j \in PresentIn(s) : j \in Keys /\ s.items[j] \in Elems /\ Bytes(s, j) \in Nat
      /\ \A i, j \in PresentIn(s) : s.items[i] = s.items[j] => i = j
  BY <1>2, PresentFacts
<1>4. e \in Elems /\ s.own[e] /\ s.entry[e] # None /\ s.entry[e].k = k /\ e # Root
  BY <1>1, <1>2, <1>3, LRUCacheAssumption DEF InMap
<1>5. RemoveFacts(s, e, t)
  BY <1>2, <1>4, RemoveFields
<1>6. /\ t \in Fields
      /\ \A x \in Nodes \ {e} : /\ t.nxt[x] = IF x = s.prv[e] THEN s.nxt[e] ELSE s.nxt[x]
                                /\ t.prv[x] = IF x = s.nxt[e] THEN s.prv[e] ELSE s.prv[x]
      /\ \A x \in Elems : t.own[x] = (x # e /\ s.own[x])
      /\ \A x \in Elems : t.entry[x] = IF x = e THEN None ELSE s.entry[x]
      /\ \A j \in Keys : /\ t.items[j] = IF j = k THEN None ELSE s.items[j]
                         /\ t.expires[j] = IF j = k THEN None ELSE s.expires[j]
      /\ t.len = s.len - 1 /\ t.maxBytes = s.maxBytes
      /\ t.usedBytes = s.usedBytes - Bytes(s, k)
  <2>1. Bytes(s, k) = KeyLen + Size[s.entry[e].v]
    BY <1>1 DEF Bytes
  <2>2. s.entry[e].k = k
    BY <1>4
  <2>3. QED
    BY <1>5, <2>1, <2>2, Zenon DEF RemoveFacts
<1>7. PresentIn(t) = PresentIn(s) \ {k}
  BY <1>3, <1>6 DEF PresentIn
<1>8. \A j \in PresentIn(t) : t.items[j] = s.items[j] /\ t.items[j] # e /\ j \in PresentIn(s)
  BY <1>1, <1>3, <1>6, <1>7
<1>9. Elements(t) = Elements(s) \ {e}
  BY <1>1, <1>3, <1>7, <1>8 DEF Elements
<1>10. InMap(t)
  <2>1. ASSUME NEW j \in PresentIn(t)
        PROVE  t.own[t.items[j]] /\ t.entry[t.items[j]] # None /\ t.entry[t.items[j]].k = j
    <3>1. s.items[j] \in Elems /\ s.own[s.items[j]] /\ s.entry[s.items[j]] # None
      BY <1>2, <1>3, <1>8 DEF InMap
    <3>2. s.entry[s.items[j]].k = j
      BY <1>2, <1>8 DEF InMap
    <3>3. t.items[j] = s.items[j] /\ t.entry[s.items[j]] = s.entry[s.items[j]] /\ t.own[s.items[j]]
      <4>1. t.items[j] = s.items[j] /\ s.items[j] # e
        BY <1>8
      <4>2. t.own[s.items[j]] = (s.items[j] # e /\ s.own[s.items[j]])
        BY <1>6, <3>1
      <4>3. t.entry[s.items[j]] = s.entry[s.items[j]]
        BY <1>6, <3>1, <4>1
      <4>4. QED
        BY <3>1, <4>1, <4>2, <4>3, Zenon
    <3>4. QED
      BY <3>1, <3>2, <3>3
  <2>2. QED
    BY <2>1 DEF InMap
<1>11. Linked(t)
  <2>1. ListOf(s) \subseteq Nodes
    BY <1>3 DEF ListOf, Elements, Nodes
  <2>2. Without(s.nxt, s.prv, e, t.nxt, t.prv, ListOf(s))
    BY <1>6, <2>1 DEF Without
  <2>3. IsRing(t.nxt, t.prv, ListOf(s) \ {e})
    BY <1>2, <1>4, <2>2, UnlinkRing DEF Linked, ListOf
  <2>4. ListOf(t) = ListOf(s) \ {e}
    BY <1>4, <1>9 DEF ListOf
  <2>5. QED
    BY <2>3, <2>4 DEF Linked
<1>12. Counted(t) /\ t.usedBytes <= s.usedBytes
  <2>1. PICK S : S = PresentIn(t)
    OBVIOUS
  <2>2. IsFiniteSet(S) /\ Cardinality(S) = Cardinality(PresentIn(s)) - 1
    BY <1>1, <1>2, <1>7, <2>1, FS_RemoveElement DEF Counted
  <2>3. S \cup {k} = PresentIn(s) /\ k \notin S
    BY <1>1, <1>7, <2>1
  <2>4. \A j \in S : Bytes(s, j) = Bytes(t, j) /\ Bytes(t, j) \in Nat
    <3>1. ASSUME NEW j \in S PROVE Bytes(s, j) = Bytes(t, j)
      <4>1. s.items[j] \in Elems /\ t.items[j] = s.items[j] /\ t.items[j] # e
        BY <1>3, <1>8, <2>1
      <4>2. t.entry[s.items[j]] = s.entry[s.items[j]]
        BY <1>6, <4>1
      <4>3. QED
        BY <4>1, <4>2 DEF Bytes
    <3>2. QED
      BY <1>3, <1>8, <2>1, <3>1
  <2>5. Bytes(s, k) \in Nat
    BY <1>1, <1>3
  <2>6. Sum(t, S) \in Nat /\ Sum(s, S \cup {k}) = Sum(t, S) + Bytes(s, k)
    BY <2>2, <2>3, <2>4, <2>5, SumAdd
  <2>7. s.usedBytes = Sum(t, S) + Bytes(s, k) /\ s.len = Cardinality(PresentIn(s))
    BY <1>2, <2>3, <2>6 DEF Counted
  <2>8. t.usedBytes = Sum(t, S) /\ t.usedBytes <= s.usedBytes
    BY <1>6, <2>5, <2>6, <2>7
  <2>9. QED
    BY <1>6, <2>1, <2>2, <2>7, <2>8 DEF Counted
<1>13. Timed(t)
  BY <1>2, <1>6, <1>7 DEF Timed
<1>14. CacheOK(t)
  BY <1>6, <1>10, <1>11, <1>12, <1>13 DEF CacheOK
<1>15. QED
  BY <1>1, <1>4, <1>6, <1>7, <1>9, <1>12, <1>14 DEF Removes

-----------------------------------------------------------------------------
(* Eviction *)

\* An element of the list, or of none: MoveToBack leaves the others alone.
Tame(s, e) == e \in Elements(s) \/ ~s.own[e]

\* t is a cache in order, and what was removed is no longer marked as a member.
Shrinks(s, t) ==
  CacheOK(t) /\ t.maxBytes = s.maxBytes /\ \A e \in Elems : Tame(s, e) => Tame(t, e)

\* There is nothing left to evict.
Settled(s) == evictOne(s) = s /\ ~Exceeds(s)

LEMMA RemoveShrinks ==
  ASSUME NEW s, CacheOK(s), NEW e \in Elements(s), NEW t, t = removeElement(s, e)
  PROVE  Shrinks(s, t) /\ t.len = s.len - 1
<1>1. Removes(s, e, t)
  BY RemoveOK
<1>2. /\ CacheOK(t) /\ Elements(t) = Elements(s) \ {e} /\ t.len = s.len - 1
      /\ t.maxBytes = s.maxBytes
      /\ \A x \in Elems : t.own[x] = (x # e /\ s.own[x])
  BY <1>1 DEF Removes
<1>3. ASSUME NEW x \in Elems, Tame(s, x) PROVE Tame(t, x)
  <2>1. t.own[x] = (x # e /\ s.own[x])
    BY <1>2
  <2>2. x \in Elements(s) /\ x # e => x \in Elements(t)
    BY <1>2
  <2>3. QED
    BY <1>3, <2>1, <2>2, Zenon DEF Tame
<1>4. QED
  BY <1>2, <1>3 DEF Shrinks

LEMMA EvictOneOK ==
  ASSUME NEW s, CacheOK(s), NEW t, t = evictOne(s)
  PROVE  Shrinks(s, t) /\ (t.len = s.len - 1 \/ (t = s /\ Settled(s)))
<1>1. CASE ExpiredIn(s) # {}
  <2>1. PICK k : k = CHOOSE j \in ExpiredIn(s) : TRUE
    OBVIOUS
  <2>2. k \in PresentIn(s)
    BY <1>1, <2>1 DEF ExpiredIn
  <2>3. s.items[k] \in Elements(s) /\ t = removeElement(s, s.items[k])
    BY <1>1, <2>1, <2>2 DEF Elements, evictOne
  <2>4. Shrinks(s, t) /\ t.len = s.len - 1
    BY <2>3, RemoveShrinks, Zenon
  <2>5. QED
    BY <2>4
<1>2. CASE ExpiredIn(s) = {} /\ Exceeds(s) /\ s.len > 0
  <2>1. s.nxt[Root] \in Elements(s) /\ t = removeElement(s, s.nxt[Root])
    BY <1>2, FrontIsElement DEF evictOne
  <2>2. Shrinks(s, t) /\ t.len = s.len - 1
    BY <2>1, RemoveShrinks, Zenon
  <2>3. QED
    BY <2>2
<1>3. CASE ExpiredIn(s) = {} /\ ~(Exceeds(s) /\ s.len > 0)
  <2>1. t = s
    BY <1>3 DEF evictOne
  <2>2. ~Exceeds(s)
    <3>1. s.len \in Nat /\ (s.len = 0 => s.usedBytes = 0) /\ s.maxBytes \in Nat
      BY EmptyHasNoBytes, LRUCacheAssumption DEF CacheOK, Fields
    <3>2. QED
      BY <1>3, <3>1 DEF Exceeds
  <2>3. QED
    BY <2>1, <2>2 DEF Shrinks, Settled
<1>4. QED
  BY <1>1, <1>2, <1>3

\* f is the function that evict defines, for n turns.
Turns(f, s, n) == f = [i \in 0..n |-> IF i = 0 THEN s ELSE evictOne(f[i - 1])]

LEMMA TurnsExist ==
  ASSUME NEW s, NEW n \in Nat
  PROVE  \E f : Turns(f, s, n)
<1> DEFINE T == {i \in Nat : ~\E f : Turns(f, s, i)}
<1> SUFFICES ASSUME T # {} PROVE FALSE
  OBVIOUS
<1>1. PICK x \in T : \A y \in T : x <= y
  BY Least
<1>2. \E f : Turns(f, s, 0)
  <2> DEFINE f == [i \in 0..0 |-> s]
  <2>1. f = [i \in 0..0 |-> IF i = 0 THEN s ELSE evictOne(f[i - 1])]
    OBVIOUS
  <2>2. QED
    BY <2>1 DEF Turns
<1>3. x - 1 \in Nat /\ x - 1 \notin T
  BY <1>1, <1>2
<1>4. PICK f : Turns(f, s, x - 1)
  BY <1>3
<1> DEFINE g == [i \in 0..x |-> IF i = 0 THEN s ELSE evictOne(f[i - 1])]
<1>5. ASSUME NEW i \in 0..x, i # 0 PROVE g[i - 1] = f[i - 1]
  <2>1. i - 1 \in 0..(x - 1) /\ i - 1 \in 0..x
    BY <1>3, <1>5
  <2>2. f[i - 1] = IF i - 1 = 0 THEN s ELSE evictOne(f[(i - 1) - 1])
    BY <1>4, <2>1 DEF Turns
  <2>3. g[i - 1] = IF i - 1 = 0 THEN s ELSE evictOne(f[(i - 1) - 1])
    BY <2>1
  <2>4. QED
    BY <2>2, <2>3
<1>6. g = [i \in 0..x |-> IF i = 0 THEN s ELSE evictOne(g[i - 1])]
  BY <1>5
<1>7. Turns(g, s, x)
  BY <1>6 DEF Turns
<1>8. QED
  BY <1>7

\* evict leaves a cache in order that is within its limit.
LEMMA EvictOK ==
  ASSUME NEW s, CacheOK(s), NEW t, t = evict(s)
  PROVE  Shrinks(s, t) /\ ~Exceeds(t)
<1>1. s.len \in Nat
  BY EmptyHasNoBytes
<1>2. PICK n : n = s.len
  OBVIOUS
<1>3. t = (CHOOSE f : Turns(f, s, n))[n]
  BY <1>2 DEF evict, Turns
<1>4. \E f : Turns(f, s, n)
  BY <1>1, <1>2, TurnsExist
<1>5. PICK f : f = CHOOSE h : Turns(h, s, n)
  OBVIOUS
<1>6. Turns(f, s, n)
  BY <1>4, <1>5, Zenon
<1>7. t = f[n] /\ n \in Nat
  BY <1>1, <1>2, <1>3, <1>5
<1> DEFINE Good(i) == Shrinks(s, f[i]) /\ (f[i].len = n - i \/ Settled(f[i]))
           Bad == {i \in 0..n : ~Good(i)}
<1>8. f[0] = s /\ \A i \in 0..n : i # 0 => f[i] = evictOne(f[i - 1])
  BY <1>6, <1>7 DEF Turns
<1>9. Good(0)
  BY <1>2, <1>7, <1>8 DEF Shrinks
<1>10. Bad = {}
  <2> SUFFICES ASSUME Bad # {} PROVE FALSE
    OBVIOUS
  <2>1. PICK x \in Bad : \A y \in Bad : x <= y
    <3>1. Bad \subseteq Nat
      BY <1>7
    <3> HIDE DEF Bad
    <3>2. QED
      BY <3>1, Least
  <2>2. x # 0 /\ x \in 0..n
    BY <1>9
  <2>3. x - 1 \in 0..n /\ ~(x <= x - 1)
    BY <1>7, <2>2
  <2>4. Good(x - 1)
    BY <2>1, <2>3
  <2>5. PICK a, b : a = f[x - 1] /\ b = f[x]
    OBVIOUS
  <2>6. Shrinks(s, a) /\ (a.len = n - (x - 1) \/ Settled(a)) /\ b = evictOne(a)
    BY <1>8, <2>2, <2>4, <2>5
  <2>7. Shrinks(a, b) /\ (b.len = a.len - 1 \/ (b = a /\ Settled(a)))
    BY <2>6, EvictOneOK DEF Shrinks
  <2>8. Shrinks(s, b)
    BY <2>6, <2>7 DEF Shrinks
  <2>9. b.len = n - x \/ Settled(b)
    <3>1. CASE Settled(a)
      BY <2>6, <3>1 DEF Settled
    <3>2. CASE a.len = n - (x - 1) /\ b.len = a.len - 1
      BY <1>7, <2>2, <3>2
    <3>3. CASE b = a /\ Settled(a)
      BY <3>3
    <3>4. QED
      BY <2>6, <2>7, <3>1, <3>2, <3>3
  <2>10. Good(x)
    BY <2>5, <2>8, <2>9
  <2>11. QED
    BY <2>1, <2>10
<1>11. Shrinks(s, t) /\ (t.len = n - n \/ Settled(t))
  BY <1>7, <1>10
<1>12. CASE t.len = n - n
  <2>1. CacheOK(t) /\ t.len = 0
    BY <1>7, <1>11, <1>12 DEF Shrinks
  <2>2. t.usedBytes = 0 /\ t.maxBytes \in Nat
    BY <2>1, EmptyHasNoBytes, LRUCacheAssumption DEF CacheOK, Fields
  <2>3. QED
    BY <1>11, <2>2 DEF Exceeds
<1>13. CASE Settled(t)
  BY <1>11, <1>13 DEF Settled
<1>14. QED
  BY <1>11, <1>12, <1>13

-----------------------------------------------------------------------------
(* Steps that keep the keys *)

LEMMA SumSameBytes ==
  ASSUME NEW s, NEW t, NEW S, IsFiniteSet(S), \A k \in S : Bytes(t, k) = Bytes(s, k)
  PROVE  Sum(t, S) = Sum(s, S)
<1>1. PICK v : v = [k \in S |-> Bytes(s, k)]
  OBVIOUS
<1>2. PICK w : w = [k \in S |-> Bytes(t, k)]
  OBVIOUS
<1>3. PICK f : IsSum(f, v, SUBSET S) /\ Sum(s, S) = f[S]
  BY <1>1, SumOfBytes
<1>4. PICK g : IsSum(g, w, SUBSET S) /\ Sum(t, S) = g[S]
  BY <1>2, SumOfBytes
<1>5. Agree(v, w, S) /\ S \subseteq S
  BY <1>1, <1>2 DEF Agree
<1>6. SameAt(f, g, S)
  <2>1. IsSum(f, v, SUBSET S) /\ IsSum(g, w, SUBSET S)
    BY <1>3, <1>4
  <2>2. QED
    BY <1>5, <2>1, SumSame, Zenon
<1>7. QED
  BY <1>3, <1>4, <1>6 DEF SameAt

LEMMA RingSame ==
  ASSUME NEW n, NEW p, NEW R, IsRing(n, p, R),
         NEW n2, NEW p2, \A x \in R : n2[x] = n[x] /\ p2[x] = p[x]
  PROVE  IsRing(n2, p2, R)
<1>1. Inverses(n2, p2, R)
  BY DEF IsRing, Inverses
<1>2. OneRing(n2, R)
  BY DEF IsRing, OneRing
<1>3. QED
  BY <1>1, <1>2 DEF IsRing

\* t differs from s in the order of the list at most, and in what is not in it.
SameList(s, t) ==
  /\ t.items = s.items /\ t.len = s.len /\ t.usedBytes = s.usedBytes
  /\ \A e \in Elements(s) : t.own[e] /\ t.entry[e] = s.entry[e]
  /\ IsRing(t.nxt, t.prv, ListOf(s))

LEMMA SameListOK ==
  ASSUME NEW s, CacheOK(s), NEW t \in Fields, SameList(s, t), Timed(t)
  PROVE  /\ CacheOK(t) /\ PresentIn(t) = PresentIn(s) /\ Elements(t) = Elements(s)
<1>1. t.items = s.items /\ t.len = s.len /\ t.usedBytes = s.usedBytes
  BY DEF SameList
<1>2. PresentIn(t) = PresentIn(s) /\ Elements(t) = Elements(s) /\ ListOf(t) = ListOf(s)
  BY <1>1 DEF PresentIn, Elements, ListOf
<1>3. \A k \in PresentIn(s) : s.items[k] \in Elements(s)
  BY DEF Elements
<1>4. InMap(t)
  BY <1>1, <1>2, <1>3 DEF InMap, SameList, CacheOK
<1>5. Linked(t)
  BY <1>2 DEF Linked, SameList
<1>6. \A k \in PresentIn(s) : Bytes(t, k) = Bytes(s, k)
  BY <1>1, <1>3 DEF Bytes, SameList
<1>7. Counted(t)
  <2>1. PICK S : S = PresentIn(s)
    OBVIOUS
  <2>2. IsFiniteSet(S) /\ s.len = Cardinality(S) /\ s.usedBytes = Sum(s, S)
    BY <2>1 DEF CacheOK, Counted
  <2>3. Sum(t, S) = Sum(s, S)
    BY <1>6, <2>1, <2>2, SumSameBytes
  <2>4. QED
    BY <1>1, <1>2, <2>1, <2>2, <2>3 DEF Counted
<1>8. QED
  BY <1>2, <1>4, <1>5, <1>7 DEF CacheOK

\* MoveToBack of any element: the maps stay.
LEMMA MoveFields ==
  ASSUME NEW s \in Fields, s.prv[Root] \in Nodes, NEW e \in Elems, NEW t, t = MoveToBack(s, e)
  PROVE  t \in Fields /\ SameMaps(s, t) /\ t.own = s.own /\ t.len = s.len
<1>1. CASE t = s
  BY <1>1 DEF SameMaps
<1>2. CASE t # s
  <2>1. PICK u, at : u = Unlink(s, e) /\ at = s.prv[Root]
    OBVIOUS
  <2>2. t = LinkAfter(u, e, at) /\ at # e /\ at \in Nodes
    BY <1>2, <2>1 DEF MoveToBack
  <2>3. u \in Fields /\ SameMaps(s, u) /\ u.own = s.own /\ u.len = s.len
    BY <2>1, UnlinkFields
  <2>4. t \in Fields /\ SameMaps(u, t) /\ t.own = u.own /\ t.len = u.len
    BY <2>2, <2>3, LinkAfterFields
  <2>5. QED
    BY <2>3, <2>4 DEF SameMaps
<1>3. QED
  BY <1>1, <1>2

\* MoveToBack of an element of the list.
LEMMA MoveOK ==
  ASSUME NEW s, CacheOK(s), NEW e \in Elements(s), NEW t, t = MoveToBack(s, e)
  PROVE  /\ CacheOK(t) /\ SameMaps(s, t) /\ t.own = s.own
         /\ PresentIn(t) = PresentIn(s) /\ Elements(t) = Elements(s)
<1>1. s \in Fields /\ InMap(s) /\ Linked(s) /\ Timed(s)
  BY DEF CacheOK
<1>2. \A k \in PresentIn(s) : k \in Keys /\ s.items[k] \in Elems
  BY <1>1, PresentFacts
<1>3. ListOf(s) \subseteq Nodes /\ e \in Elems /\ e # Root /\ e \in ListOf(s)
  BY <1>2, LRUCacheAssumption DEF ListOf, Elements, Nodes
<1>4. PICK R, at : R = ListOf(s) /\ at = s.prv[Root]
  OBVIOUS
<1>5. /\ IsRing(s.nxt, s.prv, R) /\ Root \in R /\ at \in R /\ at \in Nodes /\ s.nxt[at] = Root
      /\ s.prv[s.nxt[e]] = e /\ s.nxt[e] \in R /\ s.prv[e] \in R /\ s.nxt[s.prv[e]] = e
  BY <1>1, <1>3, <1>4 DEF Linked, IsRing, Inverses
<1>6. t \in Fields /\ SameMaps(s, t) /\ t.own = s.own /\ t.len = s.len
  BY <1>1, <1>3, <1>4, <1>5, MoveFields
<1>7. IsRing(t.nxt, t.prv, R)
  <2>1. CASE t = s
    BY <1>5, <2>1
  <2>2. CASE t # s
    <3>1. PICK u : u = Unlink(s, e)
      OBVIOUS
    <3>2. t = LinkAfter(u, e, at) /\ at # e
      BY <1>4, <2>2, <3>1 DEF MoveToBack
    <3>3. /\ u \in Fields
          /\ \A x \in Nodes : /\ u.nxt[x] = IF x = s.prv[e] THEN s.nxt[e] ELSE s.nxt[x]
                              /\ u.prv[x] = IF x = s.nxt[e] THEN s.prv[e] ELSE s.prv[x]
      BY <1>1, <1>3, <3>1, UnlinkFields
    <3>4. Without(s.nxt, s.prv, e, u.nxt, u.prv, R)
      BY <1>3, <1>4, <3>3 DEF Without
    <3>5. IsRing(u.nxt, u.prv, R \ {e})
      BY <1>3, <1>4, <1>5, <3>4, UnlinkRing
    <3>6. /\ Root \in R \ {e} /\ R \ {e} \subseteq Nodes /\ at \in R \ {e}
          /\ u.prv[Root] = at /\ u.nxt[at] = Root
      <4>1. s.nxt[e] # Root /\ s.prv[e] # at
        BY <1>3, <1>4, <1>5, <3>2
      <4>2. QED
        BY <1>3, <1>4, <1>5, <3>2, <3>3, <4>1
    <3>7. \A x \in Nodes :
            /\ t.nxt[x] = IF x = at THEN e ELSE IF x = e THEN u.nxt[at] ELSE u.nxt[x]
            /\ t.prv[x] = IF x = u.nxt[at] THEN e ELSE IF x = e THEN at ELSE u.prv[x]
      BY <1>3, <1>5, <3>2, <3>3, LinkAfterFields
    <3>8. With(u.nxt, u.prv, e, t.nxt, t.prv, R \ {e})
      BY <1>3, <3>2, <3>6, <3>7 DEF With, Nodes
    <3>9. IsRing(t.nxt, t.prv, (R \ {e}) \cup {e})
      BY <3>5, <3>8, LinkRing
    <3>10. (R \ {e}) \cup {e} = R
      BY <1>3, <1>4
    <3>11. QED
      BY <3>9, <3>10
  <2>3. QED
    BY <2>1, <2>2
<1>8. SameList(s, t)
  <2>1. \A x \in Elements(s) : s.own[x]
    BY <1>1 DEF InMap, Elements
  <2>2. QED
    BY <1>4, <1>6, <1>7, <2>1 DEF SameList, SameMaps
<1>9. Timed(t)
  BY <1>1, <1>6 DEF Timed, SameMaps, PresentIn
<1>10. CacheOK(t) /\ PresentIn(t) = PresentIn(s) /\ Elements(t) = Elements(s)
  BY <1>6, <1>8, <1>9, SameListOK
<1>11. QED
  BY <1>6, <1>10

\* A new expiration of a key.
LEMMA ExpirationFields ==
  ASSUME NEW s \in Fields, clock \in Nat, NEW k \in Keys, NEW ttl \in TTLs,
         NEW t, t = WithExpiration(s, k, ttl)
  PROVE  /\ t \in Fields /\ t.nxt = s.nxt /\ t.prv = s.prv /\ t.own = s.own /\ t.len = s.len
         /\ t.entry = s.entry /\ t.items = s.items /\ t.usedBytes = s.usedBytes
         /\ t.maxBytes = s.maxBytes /\ \A j \in Keys \ {k} : t.expires[j] = s.expires[j]
<1>1. PICK x : x = [s.expires EXCEPT ![k] = IF ttl > 0 THEN clock + ttl ELSE None]
  OBVIOUS
<1>2. (IF ttl > 0 THEN clock + ttl ELSE None) \in Nat \cup {None}
  BY LRUCacheAssumption
<1>3. x \in [Keys -> Nat \cup {None}] /\ \A j \in Keys \ {k} : x[j] = s.expires[j]
  BY <1>1, <1>2 DEF Fields
<1>4. t = [s EXCEPT !.expires = x]
  BY <1>1 DEF WithExpiration, Fields
<1>5. QED
  BY <1>3, <1>4 DEF Fields

\* In a cache in order the list and the map are as they should be.
LEMMA SameListSelf ==
  ASSUME NEW s, CacheOK(s), NEW t, t.nxt = s.nxt, t.prv = s.prv, t.own = s.own,
         t.len = s.len, t.entry = s.entry, t.items = s.items, t.usedBytes = s.usedBytes
  PROVE  SameList(s, t)
<1>1. \A x \in Elements(s) : s.own[x]
  BY DEF CacheOK, InMap, Elements
<1>2. QED
  BY <1>1 DEF SameList, CacheOK, Linked

LEMMA ExpirationOK ==
  ASSUME NEW s, CacheOK(s), clock \in Nat, NEW k \in PresentIn(s), NEW ttl \in TTLs,
         NEW t, t = WithExpiration(s, k, ttl)
  PROVE  /\ CacheOK(t) /\ PresentIn(t) = PresentIn(s) /\ Elements(t) = Elements(s)
         /\ t.own = s.own /\ t.items = s.items /\ t.entry = s.entry
         /\ t.usedBytes = s.usedBytes /\ t.maxBytes = s.maxBytes
<1>1. s \in Fields /\ Timed(s) /\ k \in Keys
  BY DEF CacheOK, PresentIn
<1>2. /\ t \in Fields /\ t.nxt = s.nxt /\ t.prv = s.prv /\ t.own = s.own /\ t.len = s.len
      /\ t.entry = s.entry /\ t.items = s.items /\ t.usedBytes = s.usedBytes
      /\ t.maxBytes = s.maxBytes /\ \A j \in Keys \ {k} : t.expires[j] = s.expires[j]
  BY <1>1, ExpirationFields
<1>3. SameList(s, t)
  BY <1>2, SameListSelf
<1>4. Timed(t)
  BY <1>1, <1>2 DEF Timed, PresentIn
<1>5. CacheOK(t) /\ PresentIn(t) = PresentIn(s) /\ Elements(t) = Elements(s)
  BY <1>2, <1>3, <1>4, SameListOK
<1>6. QED
  BY <1>2, <1>5

\* Another limit.
LEMMA LimitOK ==
  ASSUME NEW s, CacheOK(s), NEW limit \in Limits, NEW t, t = [s EXCEPT !.maxBytes = limit]
  PROVE  /\ CacheOK(t) /\ PresentIn(t) = PresentIn(s) /\ Elements(t) = Elements(s)
         /\ t.own = s.own /\ t.maxBytes = limit
<1>1. s \in Fields /\ Timed(s)
  BY DEF CacheOK
<1>2. /\ t \in Fields /\ t.nxt = s.nxt /\ t.prv = s.prv /\ t.own = s.own /\ t.len = s.len
      /\ t.entry = s.entry /\ t.items = s.items /\ t.usedBytes = s.usedBytes
      /\ t.maxBytes = limit /\ t.expires = s.expires
  BY <1>1 DEF Fields
<1>3. SameList(s, t)
  BY <1>2, SameListSelf
<1>4. Timed(t)
  BY <1>1, <1>2 DEF Timed, PresentIn
<1>5. CacheOK(t) /\ PresentIn(t) = PresentIn(s) /\ Elements(t) = Elements(s)
  BY <1>2, <1>3, <1>4, SameListOK
<1>6. QED
  BY <1>2, <1>5

\* What garbage collection leaves.
CollectFacts(s, t) ==
  /\ CacheOK(t) /\ PresentIn(t) = PresentIn(s) /\ Elements(t) = Elements(s)
  /\ t.items = s.items /\ t.usedBytes = s.usedBytes /\ t.maxBytes = s.maxBytes
  /\ t.prv[Root] = s.prv[Root]
  /\ \A e \in Elems : Tame(s, e) => Tame(t, e)

LEMMA CollectOK ==
  ASSUME NEW s, CacheOK(s), NEW held, NEW t, t = Collect(s, held)
  PROVE  CollectFacts(s, t)
<1>1. CASE ~(held \subseteq Elements(s))
  <2>1. t = s
    BY <1>1 DEF Collect
  <2>2. QED
    BY <2>1 DEF CollectFacts
<1>2. CASE held \subseteq Elements(s)
  <2> DEFINE Old(e) == e \in Elems \ Elements(s)
  <2>1. PICK n, p, o, y :
          /\ n = [e \in Nodes |-> IF Old(e) THEN None ELSE s.nxt[e]]
          /\ p = [e \in Nodes |-> IF Old(e) THEN None ELSE s.prv[e]]
          /\ o = [e \in Elems |-> s.own[e] /\ ~Old(e)]
          /\ y = [e \in Elems |-> IF Old(e) THEN None ELSE s.entry[e]]
    OBVIOUS
  <2>2. t = [s EXCEPT !.nxt = n, !.prv = p, !.own = o, !.entry = y]
    BY <1>2, <2>1 DEF Collect
  <2>3. s \in Fields /\ InMap(s) /\ Timed(s) /\ Linked(s)
    BY DEF CacheOK
  <2>4. n \in Links /\ p \in Links /\ y \in [Elems -> [k : Keys, v : Values] \cup {None}]
    BY <2>1, <2>3 DEF Fields, Links
  <2>5. o \in [Elems -> BOOLEAN]
    BY <2>1
  <2>6. /\ t \in Fields /\ t.nxt = n /\ t.prv = p /\ t.own = o /\ t.entry = y
        /\ t.items = s.items /\ t.len = s.len /\ t.usedBytes = s.usedBytes
        /\ t.maxBytes = s.maxBytes /\ t.expires = s.expires
    BY <2>2, <2>3, <2>4, <2>5 DEF Fields
  <2>7. \A k \in PresentIn(s) : k \in Keys /\ s.items[k] \in Elems
    BY <2>3, PresentFacts
  <2>8. Elements(s) \subseteq Elems /\ ListOf(s) \subseteq Nodes /\ Root \in ListOf(s)
    BY <2>7 DEF ListOf, Elements, Nodes
  <2>9. \A e \in ListOf(s) : n[e] = s.nxt[e] /\ p[e] = s.prv[e]
    BY <2>1, <2>8, LRUCacheAssumption DEF ListOf
  <2>10. IsRing(n, p, ListOf(s))
    BY <2>3, <2>9, RingSame DEF Linked
  <2>11. ASSUME NEW e \in Elements(s) PROVE o[e] /\ y[e] = s.entry[e]
    <3>1. s.own[e] /\ e \in Elems /\ ~Old(e)
      BY <2>3, <2>8 DEF InMap, Elements
    <3>2. o[e] = (s.own[e] /\ ~Old(e)) /\ y[e] = IF Old(e) THEN None ELSE s.entry[e]
      BY <2>1, <3>1
    <3> HIDE DEF Old
    <3>3. QED
      BY <3>1, <3>2
  <2>12. SameList(s, t)
    BY <2>6, <2>10, <2>11 DEF SameList
  <2>13. Timed(t)
    BY <2>3, <2>6 DEF Timed, PresentIn
  <2>14. CacheOK(t) /\ PresentIn(t) = PresentIn(s) /\ Elements(t) = Elements(s)
    BY <2>6, <2>12, <2>13, SameListOK
  <2>15. ASSUME NEW e \in Elems, Tame(s, e) PROVE Tame(t, e)
    <3>1. t.own[e] = (s.own[e] /\ ~Old(e))
      BY <2>1, <2>6
    <3> HIDE DEF Old
    <3>2. QED
      BY <2>14, <2>15, <3>1 DEF Tame
  <2>16. t.prv[Root] = s.prv[Root]
    BY <2>6, <2>8, <2>9
  <2>17. QED
    BY <2>6, <2>14, <2>15, <2>16 DEF CollectFacts
<1>3. QED
  BY <1>1, <1>2

-----------------------------------------------------------------------------
(* Set and Clear *)

\* SetWithExpiration of a new key, before evict.
Inserted(s, k, v, ttl, e) ==
  [PushBack(WithExpiration(s, k, ttl), e) EXCEPT
     !.entry[e] = [k |-> k, v |-> v], !.items[k] = e, !.usedBytes = @ + KeyLen + Size[v]]

InsertFacts(s, k, v, e, t) ==
  /\ t \in Fields /\ t.maxBytes = s.maxBytes /\ t.len = s.len + 1
  /\ t.usedBytes = s.usedBytes + (KeyLen + Size[v])
  /\ \A x \in Elems : t.own[x] = (x = e \/ s.own[x])
  /\ \A x \in Elems : t.entry[x] = IF x = e THEN [k |-> k, v |-> v] ELSE s.entry[x]
  /\ \A j \in Keys : t.items[j] = IF j = k THEN e ELSE s.items[j]
  /\ \A j \in Keys \ {k} : t.expires[j] = s.expires[j]
  /\ With(s.nxt, s.prv, e, t.nxt, t.prv, ListOf(s))

LEMMA InsertFields ==
  ASSUME NEW s, CacheOK(s), clock \in Nat, NEW k \in Keys, NEW v \in Values, NEW ttl \in TTLs,
         NEW e \in Elems, e \notin Elements(s), NEW t, t = Inserted(s, k, v, ttl, e)
  PROVE  InsertFacts(s, k, v, e, t)
<1>1. PICK a, at, b, d : /\ a = WithExpiration(s, k, ttl) /\ at = a.prv[Root]
                         /\ b = LinkAfter(a, e, at) /\ d = PushBack(a, e)
  OBVIOUS
<1>2. s \in Fields /\ InMap(s) /\ Linked(s)
  BY DEF CacheOK
<1>3. /\ a \in Fields /\ a.nxt = s.nxt /\ a.prv = s.prv /\ a.own = s.own /\ a.len = s.len
      /\ a.entry = s.entry /\ a.items = s.items /\ a.usedBytes = s.usedBytes
      /\ a.maxBytes = s.maxBytes /\ \A j \in Keys \ {k} : a.expires[j] = s.expires[j]
  BY <1>1, <1>2, ExpirationFields
<1>4. \A j \in PresentIn(s) : j \in Keys /\ s.items[j] \in Elems
  BY <1>2, PresentFacts
<1>5. ListOf(s) \subseteq Nodes /\ e \notin ListOf(s) /\ Root \in ListOf(s) /\ e \in Nodes
  BY <1>4, LRUCacheAssumption DEF ListOf, Elements, Nodes
<1>6. at = s.prv[Root] /\ at \in ListOf(s) /\ at \in Nodes /\ at # e /\ s.nxt[at] = Root
  BY <1>1, <1>2, <1>3, <1>5 DEF Linked, IsRing, Inverses
<1>7. /\ b \in Fields /\ SameMaps(a, b) /\ b.own = a.own /\ b.len = a.len
      /\ \A x \in Nodes :
           /\ b.nxt[x] = IF x = at THEN e ELSE IF x = e THEN a.nxt[at] ELSE a.nxt[x]
           /\ b.prv[x] = IF x = a.nxt[at] THEN e ELSE IF x = e THEN at ELSE a.prv[x]
  BY <1>1, <1>3, <1>6, LinkAfterFields
<1>8. With(s.nxt, s.prv, e, b.nxt, b.prv, ListOf(s))
  BY <1>3, <1>5, <1>6, <1>7 DEF With
<1>9. PICK o : o = [b.own EXCEPT ![e] = TRUE]
  OBVIOUS
<1>10. o \in [Elems -> BOOLEAN] /\ \A x \in Elems : o[x] = (x = e \/ s.own[x])
  <2>1. b.own \in [Elems -> BOOLEAN]
    BY <1>7 DEF Fields
  <2>2. o \in [Elems -> BOOLEAN] /\ \A x \in Elems : o[x] = (x = e \/ b.own[x])
    BY <1>9, <2>1
  <2>3. QED
    BY <1>3, <1>7, <2>2
<1>11. d = [b EXCEPT !.own = o, !.len = b.len + 1]
  BY <1>1, <1>7, <1>9 DEF PushBack, Fields
<1>12. /\ d \in Fields /\ d.own = o /\ d.len = s.len + 1 /\ d.nxt = b.nxt /\ d.prv = b.prv
       /\ SameMaps(a, d)
  <2>1. b.len + 1 \in Int /\ b.len = s.len
    BY <1>3, <1>7 DEF Fields
  <2>2. /\ d \in Fields /\ d.own = o /\ d.len = b.len + 1 /\ d.nxt = b.nxt /\ d.prv = b.prv
        /\ SameMaps(b, d)
    BY <1>7, <1>10, <1>11, <2>1 DEF Fields, SameMaps
  <2>3. QED
    BY <1>7, <2>1, <2>2 DEF SameMaps
<1>13. PICK i, y, u : /\ i = [d.items EXCEPT ![k] = e]
                      /\ y = [d.entry EXCEPT ![e] = [k |-> k, v |-> v]]
                      /\ u = d.usedBytes + KeyLen + Size[v]
  OBVIOUS
<1>14. /\ i \in [Keys -> Elems \cup {None}]
       /\ y \in [Elems -> [k : Keys, v : Values] \cup {None}]
       /\ \A j \in Keys : i[j] = IF j = k THEN e ELSE s.items[j]
       /\ \A x \in Elems : y[x] = IF x = e THEN [k |-> k, v |-> v] ELSE s.entry[x]
  <2>1. /\ d.items = s.items /\ d.entry = s.entry
        /\ s.items \in [Keys -> Elems \cup {None}]
        /\ s.entry \in [Elems -> [k : Keys, v : Values] \cup {None}]
    BY <1>2, <1>3, <1>12 DEF Fields, SameMaps
  <2>2. QED
    BY <1>13, <2>1
<1>15. u \in Int /\ u = s.usedBytes + (KeyLen + Size[v])
  <2>1. d.usedBytes = s.usedBytes /\ s.usedBytes \in Int /\ KeyLen \in Int /\ Size[v] \in Int
    BY <1>2, <1>3, <1>12, LRUCacheAssumption DEF Fields, SameMaps
  <2>2. QED
    BY <1>13, <2>1
<1>16. t = [d EXCEPT !.entry = y, !.items = i, !.usedBytes = u]
  BY <1>1, <1>12, <1>13 DEF Inserted, Fields
<1>17. /\ t \in Fields /\ t.entry = y /\ t.items = i /\ t.usedBytes = u
       /\ t.own = d.own /\ t.len = d.len /\ t.nxt = d.nxt /\ t.prv = d.prv
       /\ t.expires = d.expires /\ t.maxBytes = d.maxBytes
  BY <1>12, <1>14, <1>15, <1>16 DEF Fields
<1>18. QED
  BY <1>3, <1>8, <1>10, <1>12, <1>14, <1>15, <1>17 DEF InsertFacts, SameMaps

LEMMA InsertOK ==
  ASSUME NEW s, CacheOK(s), clock \in Nat, NEW k \in Keys, s.items[k] = None,
         NEW v \in Values, NEW ttl \in TTLs,
         NEW e \in Elems, e \notin Elements(s), NEW t, t = Inserted(s, k, v, ttl, e)
  PROVE  /\ CacheOK(t) /\ t.maxBytes = s.maxBytes
         /\ \A x \in Elems \ {e} : Tame(s, x) => Tame(t, x)
<1>1. s \in Fields /\ InMap(s) /\ Linked(s) /\ Counted(s) /\ Timed(s)
  BY DEF CacheOK
<1>2. InsertFacts(s, k, v, e, t)
  BY InsertFields
<1>3. \A j \in PresentIn(s) : j \in Keys /\ s.items[j] \in Elems /\ Bytes(s, j) \in Nat
  BY <1>1, PresentFacts
<1>4. PresentIn(t) = PresentIn(s) \cup {k} /\ k \notin PresentIn(s)
  BY <1>2, LRUCacheAssumption DEF InsertFacts, PresentIn
<1>5. \A j \in PresentIn(s) : /\ t.items[j] = s.items[j] /\ s.items[j] # e
                              /\ t.entry[s.items[j]] = s.entry[s.items[j]]
  BY <1>2, <1>3, <1>4 DEF InsertFacts, Elements
<1>6. t.items[k] = e /\ t.entry[e] = [k |-> k, v |-> v]
  BY <1>2 DEF InsertFacts
<1>7. Elements(t) = Elements(s) \cup {e}
  BY <1>4, <1>5, <1>6 DEF Elements
<1>8. InMap(t)
  <2>1. ASSUME NEW j \in PresentIn(s)
        PROVE  t.own[t.items[j]] /\ t.entry[t.items[j]] # None /\ t.entry[t.items[j]].k = j
    <3>1. t.own[s.items[j]] = (s.items[j] = e \/ s.own[s.items[j]])
      BY <1>2, <1>3 DEF InsertFacts
    <3>2. s.own[s.items[j]] /\ s.entry[s.items[j]] # None /\ s.entry[s.items[j]].k = j
      BY <1>1 DEF InMap
    <3>3. t.own[s.items[j]]
      BY <3>1, <3>2
    <3>4. QED
      BY <1>5, <3>2, <3>3
  <2>2. t.own[e]
    <3>1. t.own[e] = (e = e \/ s.own[e])
      BY <1>2 DEF InsertFacts
    <3>2. QED
      BY <3>1
  <2>3. [k |-> k, v |-> v] # None
    BY LRUCacheAssumption
  <2>4. QED
    BY <1>4, <1>6, <2>1, <2>2, <2>3 DEF InMap
<1>9. Linked(t)
  <2>1. e \notin ListOf(s)
    BY LRUCacheAssumption DEF ListOf
  <2>2. IsRing(t.nxt, t.prv, ListOf(s) \cup {e})
    BY <1>1, <1>2, <2>1, LinkRing DEF Linked, InsertFacts
  <2>3. ListOf(t) = ListOf(s) \cup {e}
    BY <1>7 DEF ListOf
  <2>4. QED
    BY <2>2, <2>3 DEF Linked
<1>10. Counted(t)
  <2>1. PICK S : S = PresentIn(s)
    OBVIOUS
  <2>2. IsFiniteSet(S) /\ s.len = Cardinality(S) /\ s.usedBytes = Sum(s, S) /\ k \notin S
    BY <1>1, <1>4, <2>1 DEF Counted
  <2>3. IsFiniteSet(S \cup {k}) /\ Cardinality(S \cup {k}) = Cardinality(S) + 1
    BY <2>2, FS_AddElement
  <2>4. \A j \in S : Bytes(t, j) = Bytes(s, j) /\ Bytes(s, j) \in Nat
    BY <1>3, <1>5, <2>1 DEF Bytes
  <2>5. Bytes(t, k) = KeyLen + Size[v] /\ Bytes(t, k) \in Nat
    BY <1>6, LRUCacheAssumption DEF Bytes
  <2>6. IsFiniteSet(S) /\ k \notin S /\ Bytes(t, k) \in Nat
    BY <2>2, <2>5
  <2>7. Sum(s, S) \in Nat /\ Sum(t, S \cup {k}) = Sum(s, S) + Bytes(t, k)
    BY <2>4, <2>6, SumAdd
  <2>8. t.len = s.len + 1 /\ t.usedBytes = s.usedBytes + (KeyLen + Size[v])
    BY <1>2 DEF InsertFacts
  <2>9. PresentIn(t) = S \cup {k}
    BY <1>4, <2>1
  <2>10. QED
    BY <2>2, <2>3, <2>5, <2>7, <2>8, <2>9 DEF Counted
<1>11. Timed(t)
  <2>1. \A j \in Keys \ {k} : t.expires[j] = s.expires[j]
    BY <1>2 DEF InsertFacts
  <2>2. QED
    BY <1>1, <1>4, <2>1 DEF Timed
<1>12. ASSUME NEW x \in Elems \ {e}, Tame(s, x) PROVE Tame(t, x)
  <2>1. t.own[x] = (x = e \/ s.own[x])
    BY <1>2 DEF InsertFacts
  <2>2. x \in Elements(s) => x \in Elements(t)
    BY <1>7
  <2>3. QED
    BY <1>12, <2>1, <2>2 DEF Tame
<1>13. t \in Fields /\ t.maxBytes = s.maxBytes
  BY <1>2 DEF InsertFacts
<1>14. QED
  BY <1>8, <1>9, <1>10, <1>11, <1>12, <1>13 DEF CacheOK

\* SetWithExpiration of a key that is there, before MoveToBack.
Updated(s, k, v, ttl) ==
  [WithExpiration(s, k, ttl) EXCEPT
     !.usedBytes = @ + Size[v] - Size[s.entry[s.items[k]].v], !.entry[s.items[k]].v = v]

LEMMA UpdateOK ==
  ASSUME NEW s, CacheOK(s), clock \in Nat, NEW k \in PresentIn(s), NEW v \in Values,
         NEW ttl \in TTLs, NEW t, t = Updated(s, k, v, ttl)
  PROVE  /\ CacheOK(t) /\ PresentIn(t) = PresentIn(s) /\ Elements(t) = Elements(s)
         /\ t.own = s.own /\ t.maxBytes = s.maxBytes
<1>1. PICK a, e : a = WithExpiration(s, k, ttl) /\ e = s.items[k]
  OBVIOUS
<1>2. /\ CacheOK(a) /\ PresentIn(a) = PresentIn(s) /\ Elements(a) = Elements(s)
      /\ a.own = s.own /\ a.items = s.items /\ a.entry = s.entry
      /\ a.usedBytes = s.usedBytes /\ a.maxBytes = s.maxBytes
  BY <1>1, ExpirationOK
<1>3. a \in Fields /\ InMap(a) /\ Linked(a) /\ Counted(a) /\ Timed(a)
  BY <1>2 DEF CacheOK
<1>4. /\ \A j \in PresentIn(a) : j \in Keys /\ a.items[j] \in Elems /\ Bytes(a, j) \in Nat
      /\ \A i, j \in PresentIn(a) : a.items[i] = a.items[j] => i = j
  BY <1>3, PresentFacts
<1>5. /\ e \in Elems /\ e = a.items[k] /\ a.entry[e] # None /\ a.entry[e].k = k
      /\ a.entry[e] \in [k : Keys, v : Values]
  BY <1>1, <1>2, <1>3, <1>4 DEF InMap, Fields
<1>6. PICK y, u : /\ y = [a.entry EXCEPT ![e] = [a.entry[e] EXCEPT !.v = v]]
                  /\ u = a.usedBytes + Size[v] - Size[a.entry[e].v]
  OBVIOUS
<1>7. /\ y \in [Elems -> [k : Keys, v : Values] \cup {None}]
      /\ \A x \in Elems \ {e} : y[x] = a.entry[x]
      /\ y[e] # None /\ y[e].k = k /\ y[e].v = v
  <2>1. a.entry \in [Elems -> [k : Keys, v : Values] \cup {None}]
    BY <1>3 DEF Fields
  <2>2. y[e] = [a.entry[e] EXCEPT !.v = v]
    BY <1>5, <1>6, <2>1
  <2>3. y[e] \in [k : Keys, v : Values] /\ y[e].k = k /\ y[e].v = v
    BY <1>5, <2>2
  <2>4. QED
    BY <1>5, <1>6, <2>1, <2>2, <2>3, LRUCacheAssumption
<1>8. u \in Int /\ Size[v] \in Nat /\ Size[a.entry[e].v] \in Nat /\ a.usedBytes \in Int
  <2>1. Size[v] \in Nat /\ Size[a.entry[e].v] \in Nat /\ a.usedBytes \in Int
    BY <1>3, <1>5, LRUCacheAssumption DEF Fields
  <2>2. QED
    BY <1>6, <2>1
<1>9. t = [a EXCEPT !.usedBytes = u, !.entry = y]
  BY <1>1, <1>2, <1>3, <1>6 DEF Updated, Fields
<1>10. /\ t \in Fields /\ t.usedBytes = u /\ t.entry = y /\ t.nxt = a.nxt /\ t.prv = a.prv
       /\ t.own = a.own /\ t.len = a.len /\ t.items = a.items /\ t.expires = a.expires
       /\ t.maxBytes = a.maxBytes
  BY <1>3, <1>7, <1>8, <1>9 DEF Fields
<1>11. PresentIn(t) = PresentIn(a) /\ Elements(t) = Elements(a) /\ ListOf(t) = ListOf(a)
  BY <1>10 DEF PresentIn, Elements, ListOf
<1>12. \A j \in PresentIn(a) : j # k => a.items[j] # e
  BY <1>2, <1>4, <1>5
<1>13. InMap(t)
  <2>1. ASSUME NEW j \in PresentIn(a)
        PROVE  t.own[t.items[j]] /\ t.entry[t.items[j]] # None /\ t.entry[t.items[j]].k = j
    <3>1. a.own[a.items[j]] /\ a.entry[a.items[j]] # None /\ a.entry[a.items[j]].k = j
      BY <1>3 DEF InMap
    <3>2. CASE j = k
      BY <1>5, <1>7, <1>10, <3>1, <3>2
    <3>3. CASE j # k
      <4>1. a.items[j] \in Elems \ {e}
        BY <1>4, <1>12, <3>3
      <4>2. QED
        BY <1>7, <1>10, <3>1, <4>1
    <3>4. QED
      BY <3>2, <3>3
  <2>2. QED
    BY <1>11, <2>1 DEF InMap
<1>14. Linked(t) /\ Timed(t)
  BY <1>3, <1>10, <1>11 DEF Linked, Timed
<1>15. Counted(t)
  <2>1. PICK P, S : P = PresentIn(a) /\ S = P \ {k}
    OBVIOUS
  <2>2. IsFiniteSet(P) /\ a.len = Cardinality(P) /\ a.usedBytes = Sum(a, P) /\ k \in P
    BY <1>2, <1>3, <2>1 DEF Counted
  <2>3. IsFiniteSet(S) /\ k \notin S
    BY <2>1, <2>2, FS_RemoveElement
  <2>4. S \cup {k} = P
    BY <2>1, <2>2
  <2>5. \A j \in S : Bytes(t, j) = Bytes(a, j) /\ Bytes(a, j) \in Nat
    <3>1. ASSUME NEW j \in S PROVE Bytes(t, j) = Bytes(a, j)
      <4>1. a.items[j] \in Elems \ {e}
        BY <1>4, <1>12, <2>1
      <4>2. QED
        BY <1>7, <1>10, <4>1 DEF Bytes
    <3>2. QED
      BY <1>4, <2>1, <3>1
  <2>6. Bytes(a, k) = KeyLen + Size[a.entry[e].v] /\ Bytes(t, k) = KeyLen + Size[v]
    BY <1>5, <1>7, <1>10 DEF Bytes
  <2>7. Bytes(a, k) \in Nat /\ Bytes(t, k) \in Nat
    BY <1>8, <2>6, LRUCacheAssumption
  <2>8. Sum(a, S) \in Nat /\ Sum(t, S \cup {k}) = Sum(a, S) + Bytes(t, k)
    BY <2>3, <2>5, <2>7, SumAdd
  <2>9. Sum(a, S \cup {k}) = Sum(a, S) + Bytes(a, k)
    <3>1. PICK b : b = a
      OBVIOUS
    <3>2. \A j \in S : Bytes(b, j) = Bytes(a, j) /\ Bytes(a, j) \in Nat
      BY <2>5, <3>1
    <3>3. Bytes(b, k) \in Nat
      BY <2>7, <3>1
    <3>4. Sum(a, S) \in Nat /\ Sum(b, S \cup {k}) = Sum(a, S) + Bytes(b, k)
      BY <2>3, <3>2, <3>3, SumAdd
    <3>5. QED
      BY <3>1, <3>4
  <2>10. a.usedBytes = Sum(a, S) + Bytes(a, k)
    BY <2>2, <2>4, <2>9
  <2>11. u = Sum(a, S) + Bytes(t, k)
    BY <1>6, <1>8, <2>6, <2>8, <2>10, LRUCacheAssumption
  <2>12. t.usedBytes = Sum(t, P) /\ t.len = Cardinality(P) /\ PresentIn(t) = P
    BY <1>10, <1>11, <2>1, <2>2, <2>4, <2>8, <2>11
  <2>13. QED
    BY <2>2, <2>12 DEF Counted
<1>16. QED
  BY <1>2, <1>10, <1>11, <1>13, <1>14, <1>15 DEF CacheOK

\* Clear, before garbage collection.
Cleared(s) ==
  [ListInit(s) EXCEPT !.items = [k \in Keys |-> None], !.expires = [k \in Keys |-> None],
                      !.usedBytes = 0]

LEMMA EmptyOK ==
  ASSUME NEW s \in Fields, s.items = [k \in Keys |-> None], s.expires = [k \in Keys |-> None],
         s.usedBytes = 0, s.len = 0, s.nxt[Root] = Root, s.prv[Root] = Root
  PROVE  CacheOK(s) /\ PresentIn(s) = {} /\ Elements(s) = {}
<1>1. PresentIn(s) = {}
  BY DEF PresentIn
<1>2. Elements(s) = {} /\ ListOf(s) = {Root}
  BY <1>1 DEF Elements, ListOf
<1>3. InMap(s) /\ Timed(s)
  BY <1>1 DEF InMap, Timed
<1>4. Linked(s)
  BY <1>2 DEF Linked, IsRing, Inverses, OneRing
<1>5. Counted(s)
  BY <1>1, FS_EmptySet, SumEmpty DEF Counted
<1>6. QED
  BY <1>1, <1>2, <1>3, <1>4, <1>5 DEF CacheOK

LEMMA ClearOK ==
  ASSUME NEW s, CacheOK(s), NEW t, t = Cleared(s)
  PROVE  CacheOK(t) /\ t.maxBytes = s.maxBytes /\ t.usedBytes = 0
<1>1. s \in Fields
  BY DEF CacheOK
<1>2. PICK n, p, i, x : /\ n = [s.nxt EXCEPT ![Root] = Root] /\ p = [s.prv EXCEPT ![Root] = Root]
                        /\ i = [k \in Keys |-> None] /\ x = [k \in Keys |-> None]
  OBVIOUS
<1>3. n \in Links /\ p \in Links /\ n[Root] = Root /\ p[Root] = Root
  BY <1>1, <1>2 DEF Fields, Links, Nodes
<1>4. i \in [Keys -> Elems \cup {None}] /\ x \in [Keys -> Nat \cup {None}]
  BY <1>2
<1>5. t = [s EXCEPT !.nxt = n, !.prv = p, !.len = 0, !.items = i, !.expires = x, !.usedBytes = 0]
  BY <1>1, <1>2 DEF Cleared, ListInit, Fields
<1>6. s.own \in [Elems -> BOOLEAN]
  BY <1>1, Zenon DEF Fields
<1>7. t \in Fields
  <2>1. PICK o : o = s.own
    OBVIOUS
  <2>2. t = [nxt |-> n, prv |-> p, own |-> o, len |-> 0, entry |-> s.entry, items |-> i,
             expires |-> x, usedBytes |-> 0, maxBytes |-> s.maxBytes]
    BY <1>1, <1>5, <2>1 DEF Fields
  <2>3. o \in [Elems -> BOOLEAN] /\ s.entry \in [Elems -> [k : Keys, v : Values] \cup {None}]
        /\ s.maxBytes \in Limits
    BY <1>1, <1>6, <2>1, Zenon DEF Fields
  <2>4. QED
    BY <1>3, <1>4, <2>2, <2>3 DEF Fields
<1>8. /\ t \in Fields /\ t.nxt = n /\ t.prv = p /\ t.len = 0 /\ t.items = i /\ t.expires = x
      /\ t.usedBytes = 0 /\ t.maxBytes = s.maxBytes
  BY <1>1, <1>5, <1>7 DEF Fields
<1>9. CacheOK(t)
  BY <1>2, <1>3, <1>8, EmptyOK
<1>10. QED
  BY <1>8, <1>9

-----------------------------------------------------------------------------
(* The inductive invariant *)

GetType == [Procs -> [key : Keys, elem : Elems, cleared : BOOLEAN] \cup {None}]

\* The element of a Get under way is in the list or in none, unless Clear has
\* been called in the meantime.
GetsTame(s, g) == \A p \in Procs : g[p] # None /\ ~g[p].cleared => Tame(s, g[p].elem)

Accounted(s) == s.usedBytes = Sum(s, PresentIn(s)) /\ Timed(s)

StateOK(s, g, d) ==
  /\ s \in CacheType /\ Accounted(s) /\ d \in BOOLEAN
  /\ d = FALSE => CacheOK(s) /\ GetsTame(s, g)

RestOK ==
  /\ clock \in 0..MaxTime /\ get \in GetType /\ deletes \in [Keys -> 0..MaxDeletes]
  /\ loop \in {"open", "draining", "exited"}

LRUInv == RestOK /\ StateOK(c, get, damaged)

LEMMA FieldsTyped ==
  ASSUME NEW s \in Fields, s.len \in Nat, s.usedBytes \in Nat
  PROVE  s \in CacheType
<1>1. PICK o : o = s.own
  OBVIOUS
<1>2. s = [nxt |-> s.nxt, prv |-> s.prv, own |-> o, len |-> s.len, entry |-> s.entry,
           items |-> s.items, expires |-> s.expires, usedBytes |-> s.usedBytes,
           maxBytes |-> s.maxBytes]
  BY <1>1 DEF Fields
<1>3. o \in [Elems -> BOOLEAN]
  BY <1>1, Zenon DEF Fields
<1>4. /\ s.nxt \in Links /\ s.prv \in Links
      /\ s.entry \in [Elems -> [k : Keys, v : Values] \cup {None}]
      /\ s.items \in [Keys -> Elems \cup {None}] /\ s.expires \in [Keys -> Nat \cup {None}]
      /\ s.maxBytes \in Limits
  BY DEF Fields
<1>5. QED
  BY <1>2, <1>3, <1>4 DEF CacheType, Links

LEMMA InOrder ==
  ASSUME NEW s, CacheOK(s), NEW g, GetsTame(s, g), NEW d, d = FALSE
  PROVE  StateOK(s, g, d)
<1>1. s \in CacheType
  BY EmptyHasNoBytes, FieldsTyped DEF CacheOK
<1>2. Accounted(s)
  BY DEF Accounted, CacheOK, Counted
<1>3. QED
  BY <1>1, <1>2 DEF StateOK

LEMMA KeepsTame ==
  ASSUME NEW s, NEW t, NEW g \in GetType, GetsTame(s, g),
         \A e \in Elems : Tame(s, e) => Tame(t, e)
  PROVE  GetsTame(t, g)
<1>1. \A p \in Procs : g[p] # None => g[p].elem \in Elems
  BY DEF GetType
<1>2. QED
  BY <1>1 DEF GetsTame

\* What is known of a cache that is in order.
LEMMA Undamaged ==
  ASSUME LRUInv, ~damaged
  PROVE  CacheOK(c) /\ GetsTame(c, get) /\ clock \in Nat /\ get \in GetType /\ damaged = FALSE
<1>1. damaged \in BOOLEAN /\ (damaged = FALSE => CacheOK(c) /\ GetsTame(c, get))
  BY DEF LRUInv, StateOK
<1>2. damaged = FALSE
  BY <1>1, Zenon
<1>3. QED
  BY <1>1, <1>2, LRUCacheAssumption DEF LRUInv, RestOK

LEMMA InitInv == Init => LRUInv
<1> SUFFICES ASSUME Init PROVE LRUInv
  OBVIOUS
<1>1. PICK limit \in Limits : c = EmptyCache(limit)
  BY DEF Init
<1>2. PICK n, o, y, i, x : /\ n = EmptyRing /\ o = [e \in Elems |-> FALSE]
                           /\ y = [e \in Elems |-> None] /\ i = [k \in Keys |-> None]
                           /\ x = [k \in Keys |-> None]
  OBVIOUS
<1>3. n \in Links /\ n[Root] = Root
  BY <1>2 DEF EmptyRing, Links, Nodes
<1>4. o \in [Elems -> BOOLEAN]
  BY <1>2
<1>5. /\ y \in [Elems -> [k : Keys, v : Values] \cup {None}]
      /\ i \in [Keys -> Elems \cup {None}] /\ x \in [Keys -> Nat \cup {None}]
  BY <1>2
<1>6. c = [nxt |-> n, prv |-> n, own |-> o, len |-> 0, entry |-> y, items |-> i, expires |-> x,
           usedBytes |-> 0, maxBytes |-> limit]
  BY <1>1, <1>2, Zenon DEF EmptyCache
<1>7. c \in Fields
  BY <1>3, <1>4, <1>5, <1>6 DEF Fields
<1>8. /\ c.items = i /\ c.expires = x /\ c.usedBytes = 0 /\ c.len = 0
      /\ c.nxt[Root] = Root /\ c.prv[Root] = Root
  BY <1>3, <1>6
<1>9. CacheOK(c)
  BY <1>2, <1>7, <1>8, EmptyOK
<1>10. GetsTame(c, get)
  BY DEF Init, GetsTame
<1>11. RestOK
  BY LRUCacheAssumption DEF Init, RestOK, GetType
<1>12. damaged = FALSE
  BY DEF Init
<1>13. QED
  BY <1>9, <1>10, <1>11, <1>12, InOrder DEF LRUInv

-----------------------------------------------------------------------------
(* Every step keeps the invariant *)

\* Steps that leave the cache alone.
LEMMA OthersInv ==
  ASSUME LRUInv, c' = c, get' = get, damaged' = damaged, RestOK'
  PROVE  LRUInv'
  BY DEF LRUInv, StateOK, GetsTame

LEMMA GetExpiredInv ==
  ASSUME LRUInv, NEW p \in Procs, NEW k \in Keys, GetExpired(p, k)
  PROVE  LRUInv'
<1>1. RestOK'
  BY LRUCacheAssumption DEF LRUInv, RestOK, GetExpired
<1>2. QED
  BY <1>1, OthersInv DEF GetExpired

LEMMA GetReadInv ==
  ASSUME LRUInv, ~damaged, NEW p \in Procs, NEW k \in Keys, GetRead(p, k)
  PROVE  LRUInv'
<1>1. CacheOK(c) /\ GetsTame(c, get) /\ get \in GetType /\ damaged = FALSE
  BY Undamaged
<1>2. PICK e : e = c.items[k]
  OBVIOUS
<1>3. e \in Elems /\ e \in Elements(c)
  BY <1>1, <1>2 DEF GetRead, CacheOK, Fields, PresentIn, Elements
<1>4. PICK r : r = [key |-> k, elem |-> e, cleared |-> FALSE]
  OBVIOUS
<1>5. r \in [key : Keys, elem : Elems, cleared : BOOLEAN] /\ r.elem = e
  BY <1>3, <1>4
<1>6. get' = [get EXCEPT ![p] = r]
  BY <1>2, <1>4, Zenon DEF GetRead
<1>7. get' \in GetType /\ \A q \in Procs : get'[q] = IF q = p THEN r ELSE get[q]
  BY <1>1, <1>5, <1>6 DEF GetType
<1>8. GetsTame(c, get')
  BY <1>1, <1>3, <1>5, <1>7 DEF GetsTame, Tame
<1>9. RestOK'
  BY <1>7 DEF LRUInv, RestOK, GetRead
<1>10. StateOK(c, get', damaged)
  BY <1>1, <1>8, InOrder
<1>11. QED
  BY <1>9, <1>10 DEF LRUInv, GetRead

\* Steps that change the cache and leave it in order.
LEMMA ChangeInv ==
  ASSUME LRUInv, ~damaged, CacheOK(c'), \A e \in Elems : Tame(c, e) => Tame(c', e),
         get' = get, damaged' = damaged, RestOK'
  PROVE  LRUInv'
<1>1. GetsTame(c, get) /\ get \in GetType /\ damaged = FALSE
  BY Undamaged
<1>2. GetsTame(c', get)
  <2>1. PICK s, t : s = c /\ t = c'
    OBVIOUS
  <2>2. GetsTame(t, get)
    BY <1>1, <2>1, KeepsTame
  <2>3. QED
    BY <2>1, <2>2
<1>3. StateOK(c', get, FALSE)
  BY <1>2, InOrder
<1>4. QED
  BY <1>1, <1>3 DEF LRUInv

\* The steps under the write lock that leave everything but the cache alone.
LEMMA WriteInv ==
  ASSUME LRUInv, ~damaged, CacheOK(c'), \A e \in Elems : Tame(c, e) => Tame(c', e),
         UNCHANGED <<clock, get, deletes, loop, damaged>>
  PROVE  LRUInv'
<1>1. RestOK'
  BY DEF LRUInv, RestOK
<1>2. QED
  BY <1>1, ChangeInv

LEMMA SameTame ==
  ASSUME NEW s, NEW t, Elements(t) = Elements(s), t.own = s.own
  PROVE  \A e \in Elems : Tame(s, e) => Tame(t, e)
  BY DEF Tame

\* Delete of any key.
LEMMA DeletedOK ==
  ASSUME NEW k \in Keys, CacheOK(c), NEW t, t = Deleted(k)
  PROVE  Shrinks(c, t) /\ t.usedBytes <= c.usedBytes
<1>1. CASE c.items[k] = None
  <2>1. t = c
    BY <1>1 DEF Deleted
  <2>2. c.usedBytes \in Nat
    BY EmptyHasNoBytes
  <2>3. QED
    BY <2>1, <2>2 DEF Shrinks
<1>2. CASE c.items[k] # None
  <2>1. PICK s, e : s = c /\ e = c.items[k]
    OBVIOUS
  <2>2. CacheOK(s) /\ e \in Elements(s) /\ t = removeElement(s, e)
    BY <1>2, <2>1 DEF Deleted, Elements, PresentIn
  <2>3. Shrinks(s, t) /\ Removes(s, e, t)
    BY <2>2, RemoveShrinks, RemoveOK
  <2>4. t.usedBytes <= s.usedBytes
    BY <2>3 DEF Removes
  <2>5. QED
    BY <2>1, <2>3, <2>4
<1>3. QED
  BY <1>1, <1>2

LEMMA DeleteInv ==
  ASSUME LRUInv, ~damaged, NEW k \in Keys, Delete(k)
  PROVE  LRUInv'
<1>1. Shrinks(c, c')
  BY Undamaged, DeletedOK DEF Delete
<1>2. QED
  BY <1>1, WriteInv DEF Delete, Shrinks

LEMMA AsyncDeleteInv ==
  ASSUME LRUInv, ~damaged, NEW k \in Keys, AsyncDelete(k)
  PROVE  LRUInv'
<1>1. Shrinks(c, c')
  BY Undamaged, DeletedOK DEF AsyncDelete
<1>2. RestOK'
  BY LRUCacheAssumption DEF LRUInv, RestOK, AsyncDelete
<1>3. QED
  BY <1>1, <1>2, ChangeInv DEF AsyncDelete, Shrinks

LEMMA UpdateExpirationInv ==
  ASSUME LRUInv, ~damaged, NEW k \in Keys, NEW ttl \in TTLs, UpdateExpiration(k, ttl)
  PROVE  LRUInv'
<1>1. CacheOK(c) /\ clock \in Nat
  BY Undamaged
<1>2. k \in PresentIn(c) /\ c' = WithExpiration(c, k, ttl)
  BY DEF UpdateExpiration, PresentIn
<1>3. CacheOK(c') /\ Elements(c') = Elements(c) /\ c'.own = c.own
  BY <1>1, <1>2, ExpirationOK
<1>4. \A e \in Elems : Tame(c, e) => Tame(c', e)
  BY <1>3, SameTame
<1>5. QED
  BY <1>3, <1>4, WriteInv DEF UpdateExpiration

\* SetWithExpiration of a key that is there.
LEMMA SetUpdateOK ==
  ASSUME CacheOK(c), clock \in Nat, NEW k \in Keys, NEW v \in Values, NEW ttl \in TTLs,
         SetUpdate(k, v, ttl)
  PROVE  /\ CacheOK(c') /\ PresentIn(c') = PresentIn(c) /\ c'.maxBytes = c.maxBytes
         /\ \A e \in Elems : Tame(c, e) => Tame(c', e)
<1>1. PICK s : s = Updated(c, k, v, ttl)
  OBVIOUS
<1>2. PICK e : e = c.items[k]
  OBVIOUS
<1>3. c' = MoveToBack(s, e)
  BY <1>1, <1>2, Zenon DEF SetUpdate, Updated
<1>4. k \in PresentIn(c) /\ e \in Elements(c)
  BY <1>2 DEF SetUpdate, PresentIn, Elements
<1>5. /\ CacheOK(s) /\ PresentIn(s) = PresentIn(c) /\ Elements(s) = Elements(c)
      /\ s.own = c.own /\ s.maxBytes = c.maxBytes
  BY <1>1, <1>4, UpdateOK
<1>6. /\ CacheOK(c') /\ SameMaps(s, c') /\ c'.own = s.own
      /\ PresentIn(c') = PresentIn(s) /\ Elements(c') = Elements(s)
  BY <1>3, <1>4, <1>5, MoveOK
<1>7. \A x \in Elems : Tame(c, x) => Tame(c', x)
  BY <1>5, <1>6, SameTame
<1>8. QED
  BY <1>5, <1>6, <1>7 DEF SameMaps

LEMMA SetUpdateInv ==
  ASSUME LRUInv, ~damaged, NEW k \in Keys, NEW v \in Values, NEW ttl \in TTLs,
         SetUpdate(k, v, ttl)
  PROVE  LRUInv'
<1>1. CacheOK(c') /\ \A e \in Elems : Tame(c, e) => Tame(c', e)
  BY Undamaged, SetUpdateOK
<1>2. QED
  BY <1>1, WriteInv DEF SetUpdate

\* SetWithExpiration of a new key.
LEMMA SetInsertOK ==
  ASSUME CacheOK(c), clock \in Nat, GetsTame(c, get), get \in GetType,
         NEW k \in Keys, NEW v \in Values, NEW ttl \in TTLs, SetInsert(k, v, ttl)
  PROVE  CacheOK(c') /\ ~Exceeds(c') /\ GetsTame(c', get)
<1>1. PICK e : e = CHOOSE x \in Elems : Unused(x)
  OBVIOUS
<1>2. e \in Elems /\ Unused(e)
  <2>1. \E x \in Elems : Unused(x)
    BY DEF SetInsert
  <2>2. QED
    BY <1>1, <2>1, Zenon
<1>3. e \notin Elements(c) /\ \A p \in Procs : get[p] # None => get[p].elem # e
  BY <1>2 DEF Unused, Items, Held
<1>4. PICK s : s = Inserted(c, k, v, ttl, e)
  OBVIOUS
<1>5. c' = evict(s) /\ c.items[k] = None
  BY <1>1, <1>4, Zenon DEF SetInsert, Inserted
<1>6. CacheOK(s) /\ \A x \in Elems \ {e} : Tame(c, x) => Tame(s, x)
  BY <1>2, <1>3, <1>4, <1>5, InsertOK
<1>7. Shrinks(s, c') /\ ~Exceeds(c')
  BY <1>5, <1>6, EvictOK
<1>8. \A p \in Procs : get[p] # None => get[p].elem \in Elems \ {e}
  BY <1>3 DEF GetType
<1>9. GetsTame(c', get)
  BY <1>6, <1>7, <1>8 DEF Shrinks, GetsTame
<1>10. QED
  BY <1>7, <1>9 DEF Shrinks

LEMMA SetInsertInv ==
  ASSUME LRUInv, ~damaged, NEW k \in Keys, NEW v \in Values, NEW ttl \in TTLs,
         SetInsert(k, v, ttl)
  PROVE  LRUInv'
<1>1. CacheOK(c') /\ GetsTame(c', get) /\ damaged = FALSE
  BY Undamaged, SetInsertOK
<1>2. StateOK(c', get, damaged)
  BY <1>1, InOrder
<1>3. RestOK'
  BY DEF LRUInv, RestOK, SetInsert
<1>4. QED
  BY <1>2, <1>3 DEF LRUInv, SetInsert

LEMMA ClearInv ==
  ASSUME LRUInv, ~damaged, Clear
  PROVE  LRUInv' /\ c'.usedBytes = 0
<1>1. CacheOK(c) /\ get \in GetType /\ damaged = FALSE
  BY Undamaged
<1>2. PICK s, held : s = Cleared(c) /\ held = Held(get)
  OBVIOUS
<1>3. c' = Collect(s, held)
  BY <1>2, Zenon DEF Clear, Cleared
<1>4. CacheOK(s) /\ s.usedBytes = 0
  BY <1>1, <1>2, ClearOK
<1>5. CollectFacts(s, c')
  BY <1>3, <1>4, CollectOK
<1>6. CacheOK(c') /\ c'.usedBytes = 0
  BY <1>4, <1>5 DEF CollectFacts
<1>7. ASSUME NEW p \in Procs
      PROVE  /\ get'[p] \in [key : Keys, elem : Elems, cleared : BOOLEAN] \cup {None}
             /\ get'[p] # None => get'[p].cleared
  <2>1. get'[p] = IF get[p] = None THEN None ELSE [get[p] EXCEPT !.cleared = TRUE]
    BY DEF Clear
  <2>2. get[p] \in [key : Keys, elem : Elems, cleared : BOOLEAN] \cup {None}
    BY <1>1 DEF GetType
  <2>3. CASE get[p] = None
    BY <2>1, <2>3
  <2>4. CASE get[p] # None
    <3>1. PICK r : r = get[p]
      OBVIOUS
    <3>2. r \in [key : Keys, elem : Elems, cleared : BOOLEAN]
      BY <2>2, <2>4, <3>1
    <3>3. get'[p] = [r EXCEPT !.cleared = TRUE]
      BY <2>1, <2>4, <3>1
    <3>4. get'[p] = [key |-> r.key, elem |-> r.elem, cleared |-> TRUE]
      BY <3>2, <3>3
    <3>5. QED
      BY <3>2, <3>4
  <2>5. QED
    BY <2>3, <2>4
<1>8. get' \in GetType
  <2>1. get' = [p \in Procs |-> get'[p]]
    BY DEF Clear
  <2>2. QED
    BY <1>7, <2>1 DEF GetType
<1>9. GetsTame(c', get')
  BY <1>7 DEF GetsTame
<1>10. RestOK'
  BY <1>8 DEF LRUInv, RestOK, Clear
<1>11. damaged' = FALSE
  BY <1>1 DEF Clear
<1>12. StateOK(c', get', damaged')
  BY <1>6, <1>9, <1>11, InOrder
<1>13. QED
  BY <1>6, <1>10, <1>12 DEF LRUInv

\* SetMaxBytes: within the new limit, if there is one.
LEMMA SetMaxBytesOK ==
  ASSUME CacheOK(c), NEW limit \in Limits, SetMaxBytes(limit)
  PROVE  CacheOK(c') /\ ~Exceeds(c') /\ \A e \in Elems : Tame(c, e) => Tame(c', e)
<1>1. PICK s : s = [c EXCEPT !.maxBytes = limit]
  OBVIOUS
<1>2. c' = IF limit > 0 THEN evict(s) ELSE s
  BY <1>1 DEF SetMaxBytes
<1>3. CacheOK(s) /\ Elements(s) = Elements(c) /\ s.own = c.own /\ s.maxBytes = limit
  BY <1>1, LimitOK
<1>4. \A e \in Elems : Tame(c, e) => Tame(s, e)
  BY <1>3, SameTame
<1>5. CASE limit > 0
  <2>1. Shrinks(s, c') /\ ~Exceeds(c')
    BY <1>2, <1>3, <1>5, EvictOK
  <2>2. QED
    BY <1>4, <2>1 DEF Shrinks
<1>6. CASE ~(limit > 0)
  BY <1>2, <1>3, <1>4, <1>6 DEF Exceeds
<1>7. QED
  BY <1>5, <1>6

LEMMA SetMaxBytesInv ==
  ASSUME LRUInv, ~damaged, NEW limit \in Limits, SetMaxBytes(limit)
  PROVE  LRUInv'
<1>1. CacheOK(c') /\ \A e \in Elems : Tame(c, e) => Tame(c', e)
  BY Undamaged, SetMaxBytesOK
<1>2. QED
  BY <1>1, WriteInv DEF SetMaxBytes

LEMMA CleanupTickInv ==
  ASSUME LRUInv, ~damaged, CleanupTick
  PROVE  LRUInv' /\ ~Exceeds(c')
<1>1. Shrinks(c, c') /\ ~Exceeds(c')
  BY Undamaged, EvictOK DEF CleanupTick
<1>2. RestOK'
  BY DEF LRUInv, RestOK, CleanupTick
<1>3. QED
  BY <1>1, <1>2, ChangeInv DEF CleanupTick, Shrinks

LEMMA CleanupExitInv == ASSUME LRUInv, CleanupExit PROVE LRUInv'
<1>1. RestOK'
  BY DEF LRUInv, RestOK, CleanupExit
<1>2. QED
  BY <1>1, OthersInv DEF CleanupExit

LEMMA CloseInv == ASSUME LRUInv, Close PROVE LRUInv'
<1>1. RestOK'
  BY DEF LRUInv, RestOK, Close
<1>2. QED
  BY <1>1, OthersInv DEF Close

LEMMA ClockTickInv == ASSUME LRUInv, ClockTick PROVE LRUInv'
<1>1. RestOK'
  BY LRUCacheAssumption DEF LRUInv, RestOK, ClockTick
<1>2. QED
  BY <1>1, OthersInv DEF ClockTick

\* Get, under the write lock.  Whatever has happened to its key, only after a Clear
\* does it move an element that is not in the map.
LEMMA GetMoveOK ==
  ASSUME CacheOK(c), GetsTame(c, get), get \in GetType, NEW p \in Procs, GetMove(p)
  PROVE  /\ StateOK(c', get', damaged') /\ get' \in GetType
         /\ c'.usedBytes = c.usedBytes /\ c'.maxBytes = c.maxBytes
         /\ c'.prv[Root] # c.prv[Root] => get[p].elem \in Elements(c) \/ get[p].cleared
         /\ \A q \in Procs \ {p} : get'[q] = get[q]
<1>1. PICK e, new, moves : /\ e = get[p].elem /\ new = MoveToBack(c, e)
                           /\ moves = (c.items[get[p].key] # None)
  OBVIOUS
<1>2. /\ damaged' = (moves /\ new # c /\ e \notin Elements(c))
      /\ c' = IF damaged' THEN new ELSE Collect(IF moves THEN new ELSE c, Held(get'))
  BY <1>1, Zenon DEF GetMove, Items
<1>3. moves \in BOOLEAN /\ damaged' \in BOOLEAN
  BY <1>1, <1>2, Zenon
<1>4. e \in Elems /\ get' \in GetType /\ get'[p] = None /\ \A q \in Procs \ {p} : get'[q] = get[q]
  BY <1>1 DEF GetMove, GetType
<1>5. c \in Fields /\ c.prv[Root] \in Nodes
  BY DEF CacheOK, Linked, IsRing, Inverses, ListOf, Elements, PresentIn, Fields, Nodes
<1>6. new \in Fields /\ SameMaps(c, new) /\ new.own = c.own /\ new.len = c.len
  BY <1>1, <1>4, <1>5, MoveFields
<1>7. e \notin Elements(c) /\ ~get[p].cleared => new = c
  <2>1. SUFFICES ASSUME e \notin Elements(c), ~get[p].cleared PROVE new = c
    OBVIOUS
  <2>2. get[p] # None
    BY DEF GetMove
  <2>3. ~c.own[e]
    BY <1>1, <2>1, <2>2 DEF GetsTame, Tame
  <2>4. QED
    BY <1>1, <2>3 DEF MoveToBack
<1>8. CASE damaged' = TRUE
  <2>1. c' = new /\ new # c /\ e \notin Elements(c)
    BY <1>2, <1>8
  <2>2. c.len \in Nat /\ c.usedBytes \in Nat
    BY EmptyHasNoBytes
  <2>3. new \in CacheType
    BY <1>6, <2>2, FieldsTyped DEF SameMaps
  <2>4. PICK S : S = PresentIn(c)
    OBVIOUS
  <2>5. PresentIn(new) = S /\ Timed(new)
    BY <1>6, <2>4 DEF PresentIn, SameMaps, CacheOK, Timed
  <2>6. IsFiniteSet(S) /\ c.usedBytes = Sum(c, S)
    BY <2>4 DEF CacheOK, Counted
  <2>7. Sum(new, S) = Sum(c, S)
    <3>1. \A k \in S : Bytes(new, k) = Bytes(c, k)
      BY <1>6 DEF Bytes, SameMaps
    <3>2. QED
      BY <2>6, <3>1, SumSameBytes
  <2>8. Accounted(new)
    BY <1>6, <2>5, <2>6, <2>7 DEF Accounted, SameMaps
  <2>9. StateOK(new, get', TRUE)
    BY <2>3, <2>8 DEF StateOK
  <2>10. get[p].cleared
    BY <1>7, <2>1
  <2>11. QED
    BY <1>4, <1>6, <1>8, <2>1, <2>9, <2>10 DEF SameMaps
<1>9. CASE damaged' = FALSE
  <2>1. PICK w, held : w = (IF moves THEN new ELSE c) /\ held = Held(get')
    OBVIOUS
  <2>2. c' = Collect(w, held) /\ (moves /\ new # c => e \in Elements(c))
    BY <1>2, <1>9, <2>1
  <2>3. w = c \/ (w = new /\ e \in Elements(c))
    BY <2>1, <2>2
  <2>4. /\ CacheOK(w) /\ Elements(w) = Elements(c) /\ w.own = c.own
        /\ w.usedBytes = c.usedBytes /\ w.maxBytes = c.maxBytes
    <3>1. CASE w = c
      BY <3>1
    <3>2. CASE w = new /\ e \in Elements(c)
      <4>1. /\ CacheOK(new) /\ SameMaps(c, new) /\ new.own = c.own
            /\ Elements(new) = Elements(c)
        BY <1>1, <3>2, MoveOK
      <4>2. QED
        BY <3>2, <4>1 DEF SameMaps
    <3>3. QED
      BY <2>3, <3>1, <3>2
  <2>5. CollectFacts(w, c')
    BY <2>2, <2>4, CollectOK
  <2>6. \A x \in Elems : Tame(c, x) => Tame(w, x)
    BY <2>4, SameTame
  <2>7. GetsTame(c', get')
    <3>1. \A q \in Procs : get'[q] # None => get'[q] = get[q] /\ get[q].elem \in Elems
      BY <1>4 DEF GetType
    <3>2. \A x \in Elems : Tame(c, x) => Tame(c', x)
      BY <2>5, <2>6 DEF CollectFacts
    <3>3. QED
      BY <3>1, <3>2 DEF GetsTame
  <2>8. /\ CacheOK(c') /\ c'.usedBytes = c.usedBytes /\ c'.maxBytes = c.maxBytes
        /\ c'.prv[Root] = w.prv[Root]
    BY <2>4, <2>5 DEF CollectFacts
  <2>9. StateOK(c', get', damaged')
    BY <1>9, <2>7, <2>8, InOrder
  <2>10. c'.prv[Root] # c.prv[Root] => e \in Elements(c)
    BY <2>3, <2>8
  <2>11. QED
    BY <1>1, <1>4, <2>8, <2>9, <2>10
<1>10. QED
  BY <1>3, <1>8, <1>9

LEMMA GetMoveInv ==
  ASSUME LRUInv, ~damaged, NEW p \in Procs, GetMove(p)
  PROVE  LRUInv'
<1>1. StateOK(c', get', damaged') /\ get' \in GetType
  BY Undamaged, GetMoveOK
<1>2. RestOK'
  BY <1>1 DEF LRUInv, RestOK, GetMove
<1>3. QED
  BY <1>1, <1>2 DEF LRUInv

LEMMA NextInv == LRUInv /\ [Next]_vars => LRUInv'
<1> SUFFICES ASSUME LRUInv, [Next]_vars PROVE LRUInv'
  OBVIOUS
<1>1. CASE UNCHANGED vars
  BY <1>1 DEF vars, LRUInv, RestOK, StateOK, GetsTame
<1>2. ASSUME ~damaged, NEW p \in Procs, GetMove(p) PROVE LRUInv'
  BY <1>2, GetMoveInv
<1>3. ASSUME ~damaged, NEW p \in Procs, NEW k \in Keys, GetExpired(p, k) \/ GetRead(p, k)
      PROVE  LRUInv'
  BY <1>3, GetExpiredInv, GetReadInv
<1>4. ASSUME ~damaged, NEW k \in Keys, NEW ttl \in TTLs, UpdateExpiration(k, ttl) PROVE LRUInv'
  BY <1>4, UpdateExpirationInv
<1>5. ASSUME ~damaged, NEW k \in Keys, NEW ttl \in TTLs, NEW v \in Values,
             SetUpdate(k, v, ttl) \/ SetInsert(k, v, ttl)
      PROVE  LRUInv'
  BY <1>5, SetUpdateInv, SetInsertInv
<1>6. ASSUME ~damaged, NEW k \in Keys, Delete(k) \/ AsyncDelete(k) PROVE LRUInv'
  BY <1>6, DeleteInv, AsyncDeleteInv
<1>7. ASSUME ~damaged, NEW limit \in Limits, SetMaxBytes(limit) PROVE LRUInv'
  BY <1>7, SetMaxBytesInv
<1>8. CASE ~damaged /\ (Clear \/ CleanupTick \/ CleanupExit \/ Close \/ ClockTick)
  BY <1>8, ClearInv, CleanupTickInv, CleanupExitInv, CloseInv, ClockTickInv
<1>9. QED
  BY <1>1, <1>2, <1>3, <1>4, <1>5, <1>6, <1>7, <1>8 DEF Next, Step, Damaged

LEMMA LRUInvariant == Spec => []LRUInv
<1>1. Init => LRUInv
  BY InitInv
<1>2. LRUInv /\ [Next]_vars => LRUInv'
  BY NextInv
<1>3. QED
  BY <1>1, <1>2, PTL DEF Spec

-----------------------------------------------------------------------------
(* The theorems *)

\* The list and the map hold the same elements, each under the key of its entry,
\* and the links are inverse to each other, however Gets, deletions, evictions and
\* updates interleave, until a Get moves an element of a list that Clear has
\* dropped (lru.go, lines 78-84 and 173-178).
THEOREM ListAndMapAgree == Spec => []ListMatchesItems
<1>1. LRUInv => ListMatchesItems
  <2> SUFFICES ASSUME LRUInv PROVE ListMatchesItems
    OBVIOUS
  <2>1. TypeOK
    BY DEF LRUInv, RestOK, StateOK, TypeOK, GetType
  <2>2. ASSUME ~damaged
        PROVE  /\ c.len = Cardinality(Present)
               /\ \A k \in Present : c.own[c.items[k]] /\ c.entry[c.items[k]].k = k
               /\ \A e \in {Root} \cup Items :
                    c.nxt[e] \in {Root} \cup Items /\ c.prv[c.nxt[e]] = e
    <3>1. CacheOK(c)
      BY <2>2, Undamaged
    <3>2. c.len = Cardinality(Present)
      BY <3>1 DEF CacheOK, Counted, Present
    <3>3. \A k \in Present : c.own[c.items[k]] /\ c.entry[c.items[k]].k = k
      BY <3>1 DEF CacheOK, InMap, Present
    <3>4. \A e \in {Root} \cup Items :
            c.nxt[e] \in {Root} \cup Items /\ c.prv[c.nxt[e]] = e
      BY <3>1 DEF CacheOK, Linked, IsRing, Inverses, ListOf, Items
    <3>5. QED
      BY <3>2, <3>3, <3>4
  <2>3. QED
    BY <2>1, <2>2 DEF ListMatchesItems
<1>2. QED
  BY <1>1, LRUInvariant, PTL

\* usedBytes is the sum over the entries, and only present keys have an expiration,
\* through any number of updates, evictions and deletions (lru.go, lines 104-126
\* and 173-178).
THEOREM BytesAreCounted == Spec => []Accounting
<1>1. LRUInv => Accounting
  BY DEF LRUInv, StateOK, Accounted, Accounting, Sum, Timed, Present
<1>2. QED
  BY <1>1, LRUInvariant, PTL

\* The second part of a Get looks its key up again, not its element; still only a
\* Clear in between lets it move an element that is no longer in the map (lru.go,
\* lines 80-83).
THEOREM GetsMovePresent == Spec => MovesOnlyPresent
<1>1. LRUInv /\ [Next]_vars =>
        [\A p \in Procs :
           get[p] # None /\ get'[p] = None /\ c'.prv[Root] # c.prv[Root]
             => get[p].elem \in Items \/ get[p].cleared]_vars
  <2> SUFFICES ASSUME LRUInv, Next, NEW p \in Procs, get[p] # None, get'[p] = None,
                      c'.prv[Root] # c.prv[Root]
               PROVE  get[p].elem \in Items \/ get[p].cleared
    OBVIOUS
  <2>1. ~damaged /\ Step
    BY DEF Next, Damaged, vars
  <2>2. CacheOK(c) /\ GetsTame(c, get) /\ get \in GetType
    BY <2>1, Undamaged
  <2>3. get' # get
    OBVIOUS
  <2>4. ~Clear
    <3>1. SUFFICES ASSUME Clear PROVE FALSE
      OBVIOUS
    <3>2. get'[p] = [get[p] EXCEPT !.cleared = TRUE]
      BY <3>1 DEF Clear
    <3>3. PICK r : r = get[p]
      OBVIOUS
    <3>4. r \in [key : Keys, elem : Elems, cleared : BOOLEAN]
      BY <2>2, <3>3 DEF GetType
    <3>5. [r EXCEPT !.cleared = TRUE] \in [key : Keys, elem : Elems, cleared : BOOLEAN]
      BY <3>4
    <3>6. QED
      BY <3>2, <3>3, <3>5, LRUCacheAssumption
  <2>5. ASSUME NEW q \in Procs, NEW k \in Keys, GetExpired(q, k) \/ GetRead(q, k) PROVE c' = c
    BY <2>5 DEF GetExpired, GetRead
  <2>6. ASSUME NEW k \in Keys, NEW ttl \in TTLs, UpdateExpiration(k, ttl) PROVE get' = get
    BY <2>6 DEF UpdateExpiration
  <2>7. ASSUME NEW k \in Keys, NEW ttl \in TTLs, NEW v \in Values,
                SetUpdate(k, v, ttl) \/ SetInsert(k, v, ttl)
         PROVE  get' = get
    BY <2>7 DEF SetUpdate, SetInsert
  <2>8. ASSUME NEW k \in Keys, Delete(k) \/ AsyncDelete(k) PROVE get' = get
    BY <2>8 DEF Delete, AsyncDelete
  <2>9. ASSUME NEW limit \in Limits, SetMaxBytes(limit) PROVE get' = get
    BY <2>9 DEF SetMaxBytes
  <2>10. CleanupTick \/ CleanupExit \/ Close \/ ClockTick => get' = get
    BY DEF CleanupTick, CleanupExit, Close, ClockTick
  <2>11. PICK q \in Procs : GetMove(q)
    BY <2>1, <2>3, <2>4, <2>5, <2>6, <2>7, <2>8, <2>9, <2>10 DEF Step
  <2>12. /\ c'.prv[Root] # c.prv[Root] => get[q].elem \in Elements(c) \/ get[q].cleared
        /\ \A r \in Procs \ {q} : get'[r] = get[r]
    BY <2>2, <2>11, GetMoveOK
  <2>13. p = q
    BY <2>12
  <2>14. QED
    BY <2>12, <2>13 DEF Items
<1>2. QED
  BY <1>1, LRUInvariant, PTL DEF Spec, MovesOnlyPresent

\* Only an update of a key that is there can take the cache over its limit: an
\* insertion evicts until the cache is within it again, whatever that takes, and so
\* do a smaller limit and the cleanup loop (lru.go, lines 113-129, 198-203 and
\* 299-307).
THEOREM OnlyUpdatesOverflow == Spec => OverflowsByUpdate
<1>1. LRUInv /\ [Next]_vars =>
        [~OverLimit /\ OverLimit' => Present' = Present /\ c'.maxBytes = c.maxBytes]_vars
  <2> SUFFICES ASSUME LRUInv, Next, ~OverLimit, OverLimit'
               PROVE  Present' = Present /\ c'.maxBytes = c.maxBytes
    OBVIOUS
  <2>1. ~Exceeds(c) /\ Exceeds(c')
    BY DEF OverLimit, Exceeds
  <2>2. c' # c
    BY <2>1
  <2>3. ~damaged /\ Step
    BY <2>2 DEF Next, Damaged, vars
  <2>4. /\ CacheOK(c) /\ GetsTame(c, get) /\ get \in GetType /\ clock \in Nat
        /\ c.usedBytes \in Nat /\ c.maxBytes \in Nat
    BY <2>3, Undamaged, EmptyHasNoBytes, LRUCacheAssumption DEF CacheOK, Fields
  <2>5. CacheOK(c') => c'.usedBytes \in Nat /\ c'.maxBytes \in Nat
    BY EmptyHasNoBytes, LRUCacheAssumption DEF CacheOK, Fields
  <2>6. ~(c'.usedBytes = c.usedBytes /\ c'.maxBytes = c.maxBytes)
    BY <2>1 DEF Exceeds
  <2>7. ASSUME NEW p \in Procs, GetMove(p) PROVE FALSE
    BY <2>4, <2>6, <2>7, GetMoveOK
  <2>8. ASSUME NEW k \in Keys, NEW ttl \in TTLs, UpdateExpiration(k, ttl) PROVE FALSE
    <3>1. k \in PresentIn(c) /\ c' = WithExpiration(c, k, ttl)
      BY <2>8 DEF UpdateExpiration, PresentIn
    <3>2. c'.usedBytes = c.usedBytes /\ c'.maxBytes = c.maxBytes
      BY <2>4, <3>1, ExpirationOK
    <3>3. QED
      BY <2>6, <3>2
  <2>9. ASSUME NEW k \in Keys, NEW ttl \in TTLs, NEW v \in Values, SetInsert(k, v, ttl)
        PROVE  FALSE
    BY <2>1, <2>4, <2>9, SetInsertOK
  <2>10. ASSUME NEW k \in Keys, Delete(k) \/ AsyncDelete(k) PROVE FALSE
    <3>1. c' = Deleted(k)
      BY <2>10 DEF Delete, AsyncDelete
    <3>2. Shrinks(c, c') /\ c'.usedBytes <= c.usedBytes
      BY <2>4, <3>1, DeletedOK
    <3>3. CacheOK(c') /\ c'.maxBytes = c.maxBytes
      BY <3>2 DEF Shrinks
    <3>4. QED
      BY <2>1, <2>4, <2>5, <3>2, <3>3 DEF Exceeds
  <2>11. ASSUME NEW limit \in Limits, SetMaxBytes(limit) PROVE FALSE
    BY <2>1, <2>4, <2>11, SetMaxBytesOK
  <2>12. ~CleanupTick
    BY <2>1, <2>3, CleanupTickInv
  <2>13. ~Clear
    <3>1. SUFFICES ASSUME Clear PROVE FALSE
      OBVIOUS
    <3>2. c'.usedBytes = 0 /\ LRUInv'
      BY <2>3, <3>1, ClearInv
    <3>3. c'.maxBytes \in Nat
      BY <3>2, LRUCacheAssumption DEF LRUInv, StateOK, CacheType
    <3>4. QED
      BY <2>1, <3>2, <3>3 DEF Exceeds
  <2>14. PICK k \in Keys, ttl \in TTLs, v \in Values : SetUpdate(k, v, ttl)
    BY <2>2, <2>3, <2>7, <2>8, <2>9, <2>10, <2>11, <2>12, <2>13
       DEF Step, GetExpired, GetRead, CleanupExit, Close, ClockTick
  <2>15. PresentIn(c') = PresentIn(c) /\ c'.maxBytes = c.maxBytes
    BY <2>4, <2>14, SetUpdateOK
  <2>16. QED
    BY <2>15 DEF Present, PresentIn
<1>2. QED
  BY <1>1, LRUInvariant, PTL DEF Spec, OverflowsByUpdate
=============================================================================
